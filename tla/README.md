# A verification project for yaoi

yaoi is a TCP I/O layer over io_uring: a listener that accepts into the fixed file
table of the ring, streams whose buffers are two huge pages, zero-copy sends,
multi-shot receives into provided buffers, and a client pool. One thread drives it
by calling `check` in a loop; the kernel is the other actor. Nearly everything that can
go wrong is an order of completions, a cursor at the end of a page, or a counter
that must match what the kernel will still report, which is what these modules are about.

All paths below are under `src/src/`.

## Inventory

| Component | State it keeps | Operations | What is hard |
|---|---|---|---|
| `EntHugeTlb`, send side (`tcp_stream/ent_streaming_hugetlb.rs`) | `CursorLeft`: `pos_out_start`, `pos_out_end`, `idx_out_cur`, `pending_sends`, `pending_bufs`; the out page | `left_bufs_mut`, `left_set_lens`, `send_all_out`, `sent_zc` | the kernel reads a page the callback goes on writing; two completions per send; the ring wraps; one chunk of several can fail |
| `EntHugeTlb`, receive side | `pos_in_start`, `pos_in_end`, `idx_in_reused`; the in page as a ring of 256 provided buffers | `register_buf_ring`, `recv_multi`, `cb_recv_multi`, `left_bufs_mut`, `left_set_lens`, `try_free_buffers` | positions are sums of lengths and never look at the buffer id; four cases at the end of a round; the ring may run dry |
| `TcpListener` (`tcp_listener.rs`) | strategy, `cfg_hugetlb`, pool of `ListenerSlotCtx` by slot, the bearer with its fixed table | `listen_with_strategy`, `set_hugetlb`, `check` | completions name slots, slots are reused, a bundle is collected first and handled later, an error drops the rest of the bundle |
| `TcpStream` (`tcp_stream.rs`, `ent_connected.rs`) | one of two variants | dispatch to the variant | `Connected` has no buffers |
| `TcpClientPool` (`tcp_pool/tcp_client_pool.rs`) | slots, their callbacks and streams | `connect_with_cb`, `check` | socket and connect are two linked steps; its `check` differs from the listener's in what it forgets and retries |
| `run_blueprints`, `IntermedBuf`, `Blueprints` (`blueprints.rs`) | a buffer between layer 0 and the application, for one call | `run_blueprints` | bytes in the buffer when the call returns; a loop that ends only through what layer and app leave in the buffers; who calls again when there is more to do |
| Strategies and capacities (`strategy.rs`, `capacity/`) | none (builders) | `replenishing`, `fixed_fds`, ... | slot 0 is the listener's |
| `cmaps.rs`, `error.rs`, `macros.rs`, `dummy.rs`, `lib.rs` | none | declarations | - |
| Example HTTPS server (`src/examples`) | a blueprint for each slot | its callback: `run_blueprints`, a new blueprint on shutdown | a blueprint outlives a connection that ends without a shutdown callback |

How they interact. The program calls `TcpListener::check`; `check` moves up to N
completions into a bundle, then for each one finds the stream by its slot, calls
`cb_recv_multi` or `sent_zc` on it, calls the program's callback, `send_all_out`
and, in the end, `try_free_buffers`. The callback sees the stream through the `Left`
trait: the unread bytes, room for output, and `left_set_lens` to say what it has
left. The kernel posts completions at any time in between. There is no persistence
and no second thread, so the hazards are orders of completions, wrap-around, limits
and partial failure; `PROJECT.json` lists them line by line.

What makes each part correct:

* send side: output is never written to a buffer a zero-copy send still reads; every
  queued byte is submitted once; the counters never underflow; output held back by a
  limit is sent in the end;
* receive side: the stream's walk round the page and the kernel's agree; the kernel
  is never given bytes not yet consumed; no buffer is lost to both; no check panics;
* listener: the accepts in flight stay what the strategy asked for; a stream drives
  the connection behind its slot, and lives as long as its sends do; slots and huge pages
  come back; receives always find their stream; a blueprint serves one connection only;
* blueprints: the app reads every byte of the peer once and in order, what it writes is sent once
  and in order; a call returns; work that is left is done without more from the peer;
* client pool: every slot settles as a stream or an error; receives and sends belong to
  slots with a stream; records of submissions are not kept for ever; counters match the pool.

## Modules

| Module | Models | Used by |
|---|---|---|
| `Pipe` | nothing of the code: the byte stream that each direction promises | `SendPipe`, `RecvPipe`, `Blueprints` |
| `SendRing` | the send side of one stream and the kernel's zero-copy sends | runs `send_faults`, `send_pagewrite`; `SendPipe`, `SendRingProofs` |
| `SendPipe` | `SendRing` with the bytes of the out page; refines `Pipe` | run `send_window` |
| `RecvRing` | the receive side of one stream and the provided buffer ring | `MCRecvRing` |
| `MCRecvRing` | which bytes are unread and which are the kernel's, and the invariants about them | `RecvPipe`, `RecvRingProofs`, run `recv_halfseg` |
| `RecvPipe` | `RecvRing` with the bytes of the in page; refines `Pipe` | runs `recv_drain`, `recv_rounds` |
| `Blueprints` | `run_blueprints` and `IntermedBuf` inside the loop of `check`, with layer and app; both directions refine `Pipe` | `MCBlueprints`, `BlueprintsProofs` |
| `Listener` | `TcpListener` with the Replenish strategy, its pool, fixed table, huge pages, the kernel's queue, and the example's blueprint per slot | `MCListener`, `ListenerProofs` |
| `ClientPool` | `TcpClientPool` over the submission records of the bearer | `MCClientPool`, `ClientPoolProofs` |
| `Counting` | lemmas: how many entries of a queue are of a kind, sums over a queue, and the arithmetic of places in a page | the proof modules |
| `SendRingProofs`, `RecvRingProofs`, `BlueprintsProofs`, `ListenerProofs`, `ListenerCalmProofs`, `ClientPoolProofs` | theorems about the module they extend, and their proofs | - |

`MCListener`, `MCClientPool` and `MCBlueprints` add what only TLC needs (sets of values, symmetry).

### SendRing

Variables carry the names of `CursorLeft` and of the locals of `send_all_out`. `ops` is the
kernel's view: one record per zero-copy send, with its first completion (`ack`, the
number of bytes in `res`) and its second one (`fin`, the notification). A handler is
not one step: the kernel may complete sends between the callback, the begin of
`send_all_out` and each chunk, so `pc` walks through `cb`, `send` and `chunk`, and
`caller` tells which handler called the callback: one that calls it again after every send, the accept
handler, which does not, or the handler of the last receive, which sends nothing.

* `Callback(n)` is the program's callback leaving n bytes of output: the slice of
  `left_bufs_mut` and the assignment of `left_set_lens`, with the capacity check as its
  guard; `CallbackOverCapacity` is that check failing.
* `SendNothing`, `SendBegin`, `SendUnderflow`, `SendChunk`, `SendChunkFails` are the paths
  through `send_all_out`: declined or empty, the sizes computed once before the loop, the
  subtraction that would underflow, one turn of the loop, and an error of
  `add_send_zc_rawbuf`.
* `HandleRecv`, `HandleAck`, `HandleAckError`, `HandleNotif`, `HandleShutdown` and `Close` are the arms of
  `TcpListener::check` that reach this half of a stream. With `shutdown` in `Faults` the peer may close: the
  callback runs once more and what it queues is never sent.
* An error of `add_send_zc_rawbuf` leaves `check` with the rest of the bundle (`DropCompletions`): completions of
  this stream are never passed to `sent_zc`, whether the error was its own (`SendChunkFails`) or that of
  another stream (`BundleDropped`).

Integers are unbounded where the code has `usize`/`u32`: underflow is an action of its
own, as a debug build panics there (a release build would wrap).

### RecvRing

`ring` is the sequence of buffer ids the kernel may still fill, the current one first, `fill` how
far it has got in it (buffers are incremental: several completions share one). `cq` holds
the lengths of completions not handled yet. `Look` and `Consume` are what a callback can
do with the `Left` trait; a callback leaves no more input than it was shown, and a receive has at least
one byte, so the branch of `left_set_lens` for more (357-359) and the panics of `cb_recv_multi` (304-322) are
not reached and not modelled. `FreeLeftover`, `FreeClean`, `FreePanic` and `FreeGap` are the
four outcomes of `try_free_buffers`. `why` names the check that panicked.

### Pipe, SendPipe and RecvPipe

`Pipe` is the abstract specification: bytes numbered modulo M are put at the end of a queue and
taken from its front. `SendPipe` and `RecvPipe` conjoin history variables to the actions of the rings:
the number of the byte at each place of the page (`page`), and counters of what was written and
taken. The refinement mappings:

* `SendPipe`: the queue is the bytes of the sends not notified yet, in order of submission, followed by the
  bytes between `pos_out_start` and `pos_out_end`. The callback puts (or takes back) bytes at its end,
  a notification takes them from the front, and `send_all_out` is a stutter: it moves bytes from the second part to the
  first. A chunk of a wrong length or from a wrong place, or a write under a send, is a step no `Pipe` takes.
* `RecvPipe`: the queue is `View`, the slices `left_bufs_mut` cuts out of the page, one or two (`InBuffer`).
  `cb_recv_multi` puts, `left_set_lens` takes; the kernel's writes, the revolve and
  `try_free_buffers` are stutters, so an early reuse of a buffer would show as a changed byte.

M is larger than the page in `RecvPipe`, so a byte of the last turn is never taken for one of this
turn; in `SendPipe` M is 7, so a byte that is up to six bytes (three buffers) off is told apart.

### Blueprints

Variables are the lengths and bytes of `left_in`/`left_out` (the stream) and `right_in`/`right_out` (the
`IntermedBuf`), `cur_level`, and `pc`: `run` inside `run_blueprints`, `send` between the callback and
`send_all_out`. `HandleShutdown` is the last receive: the callback runs once more, nothing is sent and the stream is
let go (`Close`). `AdvanceLayer` is one turn at level 0 with its three ways on (`LayerDone`, again, up to the
app), `AdvanceApp` one at level 1, `AdvanceOnStream` the case of no layers. `Call` makes a new `IntermedBuf`, as every
call does. `SendAll` and `SendNothing` abstract `SendRing`: all is taken, or nothing, because nothing is queued
or because a limit declines while sends are in flight.

Layer and app are outside the repository. The layer takes handshake messages, then passes bytes one for
one in both directions; the app reads what it is shown and owes up to `MaxAnswer` bytes for it, which it writes as far as there
is room. Without a layer the app may leave any part of its input on the stream. `quirks` is what else they
do:

| Quirk | What then happens in `run_blueprints` |
|---|---|
| `waits`: the app leaves its input for later | line 650: the call returns, the input is dropped with the `IntermedBuf`; without a layer it would have stayed on the stream |
| `parts`: the app reads a part | `IntermedBuf::left_set_lens` keeps the first bytes instead of the last (the stream's own keeps the last) |
| `both`: the layer passes input on while output waits | line 618: the call returns for the output, the input is dropped |
| `slices`: the layer takes a part of its input | line 646: the call returns when the app is idle, the rest waits for the peer's next data |
| `silent`: the layer has no answer to the last handshake message | line 646: input behind it waits for the peer's next data |

`Drops` says when the first three lose input. The run has plain orbits and orbits with all quirks: output is
never lost and calls return with either; input is a byte stream until `Drops`, and plain orbits never get
there (`NothingDropped`). `InputRead` is stated for orbits that take what there is and answer a handshake (neither
`slices` nor `silent`), and it and `AnswersFinish` for a stream that is not closed.

### Listener

The kernel's half is `peer` (the life of each connection), `accepts`, the fixed `table`, the
armed receives, sends not yet acknowledged or notified, and `cq`. The listener's half is `hugetlb`,
free huge `pages`, the `pool` and the `bundle`; `orbit` is the example's array of blueprints, of each the
connection it was first run for since it was made. A completion carries the connection it
belongs to as well as its slot; the listener's actions read the slot only, the properties
compare the two. `CheckCollect` is the first phase of `check`; each entry of the bundle is
then one action, and the kernel posts in between. `RunLoop` stands for the whole loop
"callback, send_all_out, until nothing is sent": of its many passes only the number of
sends it adds is left, any number that the limit on `pending_bufs` allows.
The bytes behind the counters are `SendRing`'s business; here `sends` counts sends, and its limit (on bytes in the code) is
`SendLimit`, at the latest above which the loop adds none. An acknowledgement takes off the one send it is of; one that comes late and
meets a new stream in the slot takes off any number, as its bytes say nothing of the sends of that stream
(`Charges`), and may underflow (`HandleSentZcUnderflow`).

`Faults` says which of the hard cases a run includes: `busyclose` (a peer closes while
sends to it or receives from it are under way), `reset` (a receive ends with an
error), `sendfail` (a send fails: its completion is printed, no handler runs, the counters stay, `HandleSendFailed`), `unset` (the program calls `check` before `set_hugetlb`). `MaxFull` is how often a submission may
find no room in the queue: for the new accept, for the receive, for a send of a new stream (which is then
dropped with its receive in flight, `orphans`), or for a send in the loop of an old one. Every one of them
returns from `check` and drops the rest of the bundle.

### ClientPool

A completion carries the id of a submission record; what it is and whose it is come from
the record. `rec` is the bearer's table of records (external: it gives out the lowest free id, and has
room for `NRecs`), and `check` decides in its first phase which records are forgotten (`Forgets`). The
client forgets the record of a zero-copy send on its first completion, where the listener
waits for the second one; the notification then finds no record, or the record
of a later submission that was given the same id, possibly of another stream. Both happen in the model. A
completion without a record is passed over or is fatal, as the code does not say which
(`CheckCollect`, `CheckCollectPanics`).

`CheckCollect` computes the whole first phase at once: the bundle and the forgotten records. Of the batch
`Reporting` are the completions that make an entry of the bundle, and entry k comes of the one
`Ranked(k)`, the k-th of them.
`HandleConnected`, `HandleNoPages`, `HandleNoRecv`, `HandleRefused`, `HandleRecv`,
`HandleSentZc`, `HandleSentZcUnderflow` and `HandleNoStream` are the arms of the second one with their error returns. `failed` records
that some `check` has returned an error: what it drops then (a stream whose receive is in
flight, counters that have moved) makes `RecordsHaveStream` and `CountsMatchPool` false
afterwards, so they are stated until then.

`sends` counts bytes, as `pending_sends` does: a pass of q bytes is a send for each buffer, whole ones and a last, partial
one (`Length`), and an acknowledgement takes off the bytes it reports. Ids are used again across streams, so the
acknowledgement of a whole buffer of stream 1 can be charged to stream 2, which has sent a few bytes only: the subtraction in
`sent_zc` underflows. The model has this as `HandleSentZcUnderflow`, which stops (a debug build panics; a release build wraps, and
the stream never sends again). Two properties say how far the damage goes. `BufsCoverRecords`: a stream counts a buffer for every
record and every report of a send that is its own by now, so `pending_bufs` never underflows. `UnmixedCovered`: `pending_sends`
underflows only on a stream that has been charged a completion of another one (the history variable `mixed`).

## Runs

| Run | Bounds | Shows |
|---|---|---|
| `send_window` | 5 buffers of 2 bytes, limit 1 buffer, queue of 2, bytes modulo 7 | `ZeroCopyStable`, `QueueFullySubmitted`, and under fairness `QueueDrains` and `ImplementsPipe` (which includes that every byte is done with in the end) |
| `send_faults` | the same with short sends, failed sends, a submission queue that overflows and a peer that closes | `TypeOK`, `CountersCoverKernel` |
| `send_pagewrite` (violation) | the same with a queue of 5 | `ZeroCopyStable` fails: see below |
| `recv_drain` | 3 buffers of 5 bytes, segments of up to 2, 4 completions outstanding, everything consumed | `NoBufferLost`, `NoPanic`, `ImplementsPipe` |
| `recv_rounds` | 3 buffers of 4 bytes, segments up to a whole buffer, up to 6 bytes left unread | `TypeOK`, `KeptInPage`, `PipeWhileInPage` (until the kernel has used the buffer outside the page) |
| `recv_halfseg` (violation) | segments of half a buffer | `ReuseBehindCursor` fails: see below |
| `listener_quiet` | 2 peers, 2 slots, 2 accepts, up to 2 sends in flight per stream | with no fault: `AcceptsReplenished`, `CountersCoverSends`, `NoSlotLeak`, and under fairness `ClosedReleased` |
| `listener_hostile` | 3 peers, 2 slots, 3 huge pages, 3 completions in the queue, all faults, one submission without room | `TypeOK`, `RecvNeverStale`, `SlotOwnership`, `BlueprintOwn`, `AcceptsBounded`, `PagesConserved`, `OnlyEofDropsStream` |
| `listener_late` (violation) | 1 peer that may close while busy | `NoStaleCompletion` fails: see below |
| `client_pool` | 2 streams, 4 records, 2 completions in the queue, buffers of 2 bytes, up to 2 bytes per pass, refused connects, missing pages, `check` before `set_hugetlb`, a second `connect_with_cb` | `TypeOK`, `NoRecordLeak`, `BufsCoverRecords`, `UnmixedCovered`, `RecordsHaveStream`, `CountsMatchPool`, and under fairness `Settles` |
| `client_eof` (violation) | 1 stream, a peer that closes | `RecvHasBuffer` fails: see below |
| `blueprint_turns` | no layer and one layer, plain orbits and all quirks; `IntermedBuf` of 3 bytes, 2 handshake messages, 8 messages and bytes from the peer, up to 4 at once, answers of up to 4 bytes | `TypeOK`, `InImplementsPipe`, `NothingDropped`, `OutImplementsPipe`, and under fairness `CallReturns`, `InputRead`, `AnswersFinish` |

Why the bounds are enough. In `send_window` the queue is the largest the theorem allows
(1 + 2 * 2 <= 5), five buffers are enough for the cursor to wrap with sends outstanding on
both sides of the end, and two bytes per buffer make last chunks both full and partial. In the receive
runs three buffers give a first, a middle and a last one; positions are bounded because
they are brought back at the end of the page, so the runs cover any number of rounds. In
`listener_hostile` three peers for two slots make the table run full and slots be reused,
and three pages (two per stream) make an accept fail for want of pages while another
stream is alive. One receive completion in the queue at a time (`MaxRecvs`) bounds the
peers' data; sends are bounded by the limit on `pending_bufs`, as in the code.
In `client_pool` four records are what connecting two streams takes; with two receives armed they leave
two for sends, so submissions fail and ids are reused, across streams too. A send is
a whole buffer (2 bytes) or a partial one (1 byte), the two sizes an underflow takes. Lost completions let the counters
grow without limit; the callback queues nothing once `MaxPending` buffers are pending on all streams together. A peer that closes panics the
client at once (run `client_eof`), and short and failed sends only make the subtractions smaller; the three are left out of this run for its
size and are in every theorem but for `UnmixedCovered`, which has none.

In `blueprint_turns` a segment (4) and an answer (4) are longer than the `IntermedBuf` (3), so
`add_right_in` overflows and an answer takes two turns and two sends; eight items are the handshake and six bytes, enough for
several requests in one call and one request over several calls. In `listener_hostile` the queue is bounded
(`MaxCq`), because lost completions would let it and the counters grow; in `listener_quiet` the bound is never reached.

Symmetry over connections is used in `listener_hostile` only, which has no temporal property.

### What the violation runs show

* `send_pagewrite`: `left_bufs_mut` hands out the page from `idx_out_cur` to its end, whatever
  the kernel still reads there. The limits of `send_all_out` are tested before the chunk
  loop and not inside it, so after a wrap a callback that fills what it is given overwrites buffers
  in flight. With the code's 256 buffers and limit 5, output of up to 125 buffers (1 MB) per
  pass is safe: that is what `ZeroCopySafe` proves.
* `recv_halfseg`: `idx_in_reused` is set back only by a `try_free_buffers` that sees the
  cursor in buffer 0. Segments of half a buffer or more let the cursor go from the last
  buffer to buffer 1 between two calls, and the check at line 233 panics. Below half a buffer the same
  property is a theorem (`DrainedReuseBehindCursor`).
* `listener_late`: the last receive completion removes the stream even if sends
  are in flight. The completion of such a send finds no stream, the case `check` marks
  "BUG". The same step drops the out page under the kernel. Nothing but the end of the stream's own connection does
  that, or an accept that fails behind `recv_multi` (`OnlyEofDropsStream`, run `listener_hostile`, and a theorem for every fault).

* `client_eof`: the last completion of a receive names no buffer. The listener takes it for a
  shutdown; the client panics ("must have buffer id").

Other cases where the code falls short are in the models as actions or faults, and
a property of the passing runs is stated so as not to claim them:

* a chunk that fails in the middle of the loop leaves `idx_out_cur` at the first chunk, so the next
  output overwrites chunks already submitted (`sqfull`; excluded by the theorems);
* a short send leaves its missing bytes in `pending_sends` for good (`short`; `QueueDrains` is
  checked without it);
* a page larger than 256 buffers loses what is queued behind buffer 255
  (`HugeCap > NBufs * BufSize`);
* data left over in the last buffer gives back buffer 256, outside the page (`FreeLeftover`;
  `KeptInPage` holds until then);
* bytes left unread across the end of the page are refused by `left_set_lens`
  (`ConsumeOverCapacity`);
* an accept that fails because the table is full is not replenished (`KernelAcceptFull`,
  `HandleAcceptError`; `AcceptsBounded` is what is left of `AcceptsReplenished`). The
  repository's own README asks for 3 accepts with 3 fixed files, of which one is the listener;
* the client loses every notification, so `pending_bufs` never falls and a stream that has used up the
  limit sends nothing more; and output it declines is not retried when a send completes
  (`HandleSentZc` sends nothing);
* on the client, `pending_sends` underflows when the acknowledgement of another stream's longer send finds the record of a
  short one (`HandleSentZcUnderflow`; `UnmixedCovered` is what is left);
* on the listener, completions of sends that come after their slot has a new stream are charged to that one
  (`Charges`; `CountersCoverSends` is stated for peers that close when idle);
* an error of one stream drops completions of others that were bundled behind it (`DropCompletions`, `ReturnErr`): counters
  are left too high, never too low (`CountersCoverKernel`);
* a second `connect_with_cb` panics, as files are registered already (`ConnectWithCbAgain`).

* input that layer and app leave in an `IntermedBuf` is lost (`Drops`; the quirks above);
* input of more than 8192 bytes in one turn of a layer panics in `add_right_in` (`AddRightInPanics`); a TLS
  record may hold more than that;
* an accept whose first send finds no room drops the stream and both pages while the kernel has a receive into
  one of them in flight; its completions then find no slot (`HandleAcceptedNoSend`, `HandleRecvNoSlot`).

## Fairness

`send_window`: the program calls `check` in a loop, a handler that has begun runs to its end
(`WF` on the callback and on `send_all_out`), the kernel completes every send (`WF`), and
completions are taken in the order they were posted, so each is handled in the end (`SF` on the
handlers, as another completion may be handled first any finite number of times).
The peer keeps the connection open (no `shutdown` in `Faults`): what is queued when it closes is never sent.
`listener_quiet`: `WF` on `check`, on `set_hugetlb` (made before the loop), and on the
kernel for each connection, except on what is the peer's choice: to connect, to send and to close.

`blueprint_turns`: `WF` on `run_blueprints` and on what follows it, `send_all_out` or the end of the stream (a handler runs to its end), `SF` on the
completion of sends (the kernel completes them; a receive may be handled first any finite number of times). Nothing
is assumed of the peer.

`client_pool`: `WF` on `check`; `SF` on the kernel's answers to sockets and connects, because the bound on
the queue (`MaxCq`) lets other completions keep one waiting.

## Proofs

Every theorem is for all values of the constants that satisfy the `ASSUME` of its module (sizes are
natural numbers, and where the code divides or indexes, not zero) and the hypothesis named with it. Every invariant the passing runs check but `UnmixedCovered`, and one
that a violation run refutes (`ReuseBehindCursor`), is stated by a theorem, under the conditions given here.

### SendRing (`SendRingProofs`)

| Theorem | Hypothesis | States |
|---|---|---|
| `TypeCorrect` | - | `TypeOK` |
| `CountersNeverUnderflow` | - | `CountersCoverKernel` |
| `ZeroCopySafe` | `SafeWindow` | `ZeroCopyStable` |
| `QueueSubmitted` | `SafeWindow` | `QueueFullySubmitted` |

`SafeWindow` is `MaxPendingBufs + 2 * MaxQueueBufs <= NBufs`, a page that is exactly the ring (`HugeCap = NBufs *
BufSize`), and no submission that fails. The code has 256 buffers and a limit of 5, and bounds the queue by nothing but the page:
run `send_pagewrite` is what happens beyond. Short and failed sends are included.

* `TypeCorrect`. The conjunct with substance is `idx_out_cur \in 0 .. NBufs - 1`: the chunk loop returns at the
  last buffer, which needs that `buf_id < NBufs` holds inside the loop (`TypeInv`).
* `CountersNeverUnderflow`. `pending_sends` covers a sum over all sends, so every action is about a sum over a
  sequence that grows, changes in one place or loses its head. TLAPS has no induction over
  sequences; `ToSubtract` is therefore the cardinality of a set of pairs (send, byte), and `Counting` has what such a
  set does under those three operations. `CoverInv` adds that a completion never reports more than was sent.
* `ZeroCopySafe`. `ZeroCopyStable` says nothing about where or how many the sends are, so it is not
  inductive. `WindowInv` adds to the types: `QueueInv` (the queue begins at the next buffer to send, ends on the
  page, and is at most `MaxQueueBufs` long, so no subtraction underflows), `LoopInv` (inside the loop the
  chunks to come are exactly the buffers that the queued bytes need), `CountInv` (`pending_bufs` is at least the sends in
  flight, and at most `MaxPendingBufs` plus the chunks of one loop, because the limit is tested before the loop
  and not in it), and `BehindInv` (the sends in flight, newest first, lie in the buffers directly behind
  the next one, round the ring without a gap; this needs notifications of one connection to come in order). The kernel's window then
  reaches at most `MaxPendingBufs + MaxQueueBufs` behind the cursor and the callback writes at most
  `MaxQueueBufs` ahead of it: the two do not meet (`WindowSafe`).

### RecvRing (`RecvRingProofs`)

| Theorem | Hypothesis | States |
|---|---|---|
| `RecvTypeCorrect` | - | `TypeOK` |
| `ViewFollowsKernel` | `NBufs >= 2` | `KeptInPage` |
| `DrainedNeverPanics` | `Drained` | `NoPanic` |
| `DrainedReuseBehindCursor` | `Drained` | `ReuseBehindCursor`, which run `recv_halfseg` refutes without it |
| `DrainedLosesNoBuffer` | `Drained` | `NoBufferLost` |

`Drained` is: two buffers or more, a callback that consumes everything (`MaxLeft = 0`), segments of less
than half a buffer, and a backlog smaller than the ring but one buffer. For the code that is segments below 4096
bytes and up to 2 MB less one buffer between two calls of `check`.

* `ViewFollowsKernel` is about any callback and any segments. Neither the stream nor the kernel tells the
  other where it is: the stream adds up lengths, the kernel takes the next buffer of the ring. `WalkInv` counts both in
  buffers passed since the positions were last brought back: the kernel writes in buffer w, the ring holds the
  buffers from w on in order (modulo `NBufs`), and ends within one turn of the cursor and of
  `idx_in_reused`, the buffer that would follow it. Buffer id `NBufs`, which `FreeLeftover` gives back
  and which lies outside the page, is exempt from the order; `KeptInPage` holds while it is not in the ring. With one buffer
  it is false, as the "last" buffer is then also the first.
* The three others need more about where the cursor is: `DrainInv` says that no completion reaches from
  one buffer into the next (`Uncut`: the kernel fills buffers one at a time), and that the input lies in the
  one buffer that is next to be given back (`InOneBuffer`), or, inside a handler that has just brought the positions back, in
  buffer 0 (`JustTurned`). From this every check of `left_set_lens` and `try_free_buffers` passes. Half a buffer is where
  `JustTurned` stops being enough: two segments then reach buffer 1.

### Listener (`ListenerProofs`, `ListenerCalmProofs`)

| Theorem | Hypothesis | States |
|---|---|---|
| `ListenerTypeCorrect`, `PagesAccounted`, `AcceptsNeverExceed`, `SlotsOwned`, `BlueprintsOwned`, `RecvsFindStream`, `StreamsEndWithTheirPeer` | - | `TypeOK`, `PagesConserved`, `AcceptsBounded`, `SlotOwnership`, `BlueprintOwn`, `RecvNeverStale`, `OnlyEofDropsStream` |
| `SentZcNeverUnderflows` | `Calm` | `CountersCoverSends` |
| `NoSlotIsLost`, `AcceptsLostOnlyWhenRefused` | `Provided` | `NoSlotLeak`, the action property `KeepsAccepts` |
| `AcceptsAlwaysReplenished` | `Provided`, `Uncrowded` | `AcceptsReplenished` |

`Calm`: peers close only when nothing of their exchange is under way, and submissions find room. Nothing in the code ensures the
first, and without it late completions are charged to whoever has the slot, so the theorem is about connections that end like
that and says no more. `Provided`: `set_hugetlb` is called before `check`, there are two huge pages for each slot, and submissions find
room. `Uncrowded`: at this moment the connections that wait or are in the table (`Present`) are fewer than the fixed files (slot 0
is the listener's). It bounds connections at a time, not in the life of the listener: the theorem is `Spec /\ []Uncrowded =>
[]AcceptsReplenished`.

`bundle` and `cq` are one queue to the argument (`Events`): the kernel appends, a handler takes the head, and an error
return drops a part of the front. `ListenerInv` says that everything that names a slot (table entries, armed
receives, sends, completions) names the slot its connection was accepted into (`Addressed`, which uses
`at`, the slot a connection was given); that a stream holds its slot and its blueprint and a free slot has a new one (`Kept`);
that an accept to be handled has its slot to itself (`Awaited`); and that receives belong to a connection with its
stream, and nothing follows the last one (`Receives`), except for streams that were dropped behind `recv_multi`
(`Orphaned`), which keep their slot for ever. Slots are reused, so without `Addressed` none of the properties is inductive.
`DropInv` adds to it what `OnlyEofDropsStream` needs: a connection with a send under way has, or had, a stream. `SendInv` counts the
completions of sends of each connection in `Events` and adds that the peer of a send under way has not closed; `SlotInv` says that a taken slot has its stream or the accept that will
bring it, from which `PagesConserved` gives that pages never run out.

### ClientPool (`ClientPoolProofs`)

`PoolTypeCorrect` (`TypeOK`), `BufsNeverUnderflow` (`BufsCoverRecords`), `RecordsAwaited` (`NoRecordLeak`), `HandlersFindStream`
(`RecordsHaveStream`) and `PoolCounted` (`CountsMatchPool`) have no hypothesis but `ClientAssumption` (room for the two
records of each slot's connect, which `with_capacity` asks of the bearer) and hold with every fault. That `sends` and `bufs` stay
natural numbers in `TypeOK` is no result: `sent_zc` checks its subtractions, and the one of `pending_sends` does fail. For
`pending_bufs` it is `BufsNeverUnderflow` that says it never does, and for `state_connecting` it is `TypeOK`.

The argument counts tokens: a record, or the entry of the bundle that came of it. Whichever
completion arrives for an id, `check` turns one record into one entry or leaves both alone, and a handler uses the entry up.
`Counted`, `Single` and `Connecting` say that a stream's counters cover its tokens, a slot has at most one
token of a connect, and `state_connecting` covers all of those. `Waiting` is `NoRecordLeak`
with the addition that the record of a receive waits for its last completion.

### Blueprints (`BlueprintsProofs`)

`BlueprintsTypeCorrect` (`TypeOK`: lengths of the `IntermedBuf`, with every quirk) and
`PlainOrbitsLoseNothing` (`NothingDropped`, an action property). `BpInv` adds that the app has turns only after the
handshake, that it finds no output of an earlier turn, and that a plain app has read what the layer passed on before
the layer has its next turn.

## Only model-checked, or not modelled

* Liveness (`QueueDrains`, `ClosedReleased`, `Settles`, `CallReturns`, `InputRead`, `AnswersFinish`) is checked
  by TLC only: the prover does not reason about fairness.
* The refinements of `Pipe` (`ImplementsPipe`, `PipeWhileInPage`, `InImplementsPipe`, `OutImplementsPipe`) are checked
  by TLC only. Their mappings build sequences out of the page and the sends, and include fairness in `SendPipe`; what they
  rest on (`ViewFollowsKernel`, `ZeroCopySafe`, `QueueSubmitted`, `PlainOrbitsLoseNothing`) is proved.
* The kernel is modelled from how the code uses it: every zero-copy send has two
  completions; notifications of one connection come in order; a multi-shot receive ends only at
  the end of the stream, on an error, or without buffers (not on a full completion queue).
* `UnmixedCovered` is checked by TLC only, without short and failed sends.
* In `ClientPool`, receives that end with an error other than the close of the peer are not modelled.
* `Listener` counts sends where the code counts bytes; a charge to the wrong stream may be any number (`Charges`).
* Errors of `submit()` and the Regular strategy are not modelled. With the latter the first accepts give raw
  descriptors, which `check` uses as fixed slots: nothing after the first accept is meaningful. A slot of
  65535 or more is an error of `from_connected` and ends like any other error there (`HandleAcceptedFails`).
* Two or more layers: `run_blueprints` runs the first one only (the pattern `count_layers` binds), so they
  are the case of one layer.
* The flags `want_read`, `want_write` and `want_shutdown` are written and never decide anything.
* `Listener` does not follow bytes, and `SendRing`/`RecvRing`/`Blueprints` follow one stream; they meet in the
  counters (`CountersCoverSends` for many streams and slot reuse, `CountersCoverKernel` for bytes) and in `Pipe`: what
  `Blueprints` takes for its stream is what `SendPipe` and `RecvPipe` implement.
* Declarations, errors and logging have no state to model; strategies and capacities are builders whose
  results are constants here.

## Plan

In this order, the behaviour that matters most first:

1. done: `SendRing`, `RecvRing`, `Listener`, `ClientPool`, `Blueprints`, their runs, the refinements of
   `Pipe`;
2. done: theorems for the safety invariants of all five;
3. theorems: the steps of the refinements, `SendPipe` and `RecvPipe` under the hypotheses above, and
   `OutImplementsPipe` of `Blueprints`; `UnmixedCovered`, whose invariant is a sum of bytes over the sends, completions and
   reports of each stream.
