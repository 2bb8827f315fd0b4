------------------------------ MODULE SendRing ------------------------------
(***************************************************************************)
(* The send side of one EntHugeTlb stream, as TcpListener::check drives it *)
(* (src/src/tcp_stream/ent_streaming_hugetlb.rs).                          *)
(*                                                                         *)
(* The out page is cut into NBufs buffers of BufSize bytes.  The callback  *)
(* writes output from buffer idx_out_cur on and declares its length with   *)
(* left_set_lens; send_all_out hands the queued bytes to the kernel as     *)
(* zero-copy sends, one buffer each, and moves the cursor on at once,      *)
(* going back to buffer 0 after the last one.  The kernel reads a buffer   *)
(* until it posts the second completion of its send (the notification);    *)
(* the only thing that keeps the callback off such a buffer is the pair of *)
(* counters pending_sends and pending_bufs.                                *)
(*                                                                         *)
(* One handler runs at a time; pc is where it stands:                      *)
(*   "idle"   between two completions                                      *)
(*   "cb"     about to call the user's callback                            *)
(*   "send"   about to call send_all_out                                   *)
(*   "chunk"  inside the chunk loop of send_all_out                        *)
(*   "closed" the listener has dropped the stream                          *)
(*   "panic"  a check has panicked                                         *)
(***************************************************************************)
EXTENDS Integers, Sequences, FiniteSets

CONSTANTS
    BufSize,          \* bytes per buffer (8192)
    NBufs,            \* buffers in the ring (256)
    HugeCap,          \* capacity() of the huge page (2097152 for HUGE_2MB)
    MaxPendingSends,  \* send_all_out declines above this many bytes (8192)
    MaxPendingBufs,   \* ... or above this many buffers (5)
    MaxQueueBufs,     \* buffers' worth of output the callback leaves queued
    Faults            \* what may go wrong, of AllFaults

(* Short sends, failed sends, no room in the submission queue, and a peer that
   closes the connection. *)
AllFaults == {"short", "error", "sqfull", "shutdown"}

ASSUME SendAssumption ==
    /\ BufSize \in Nat \ {0}
    /\ NBufs \in Nat \ {0}
    /\ HugeCap \in Nat
    /\ HugeCap >= NBufs * BufSize
    /\ MaxPendingSends \in Nat
    /\ MaxPendingBufs \in Nat
    /\ MaxQueueBufs \in Nat
    /\ Faults \subseteq AllFaults

VARIABLES
    pos_out_start, pos_out_end, idx_out_cur,     \* CursorLeft, out half
    pending_sends, pending_bufs,                 \* CursorLeft, counters
    ops,        \* sends whose last completion is not handled yet, oldest first
    pc,
    caller,     \* who calls the callback: "accept" and "shutdown" call it
                \* once, "loop" again after every send
    total_out_len, chunks, chunk_no, sent_out, buf_id  \* send_all_out's locals

cursor == <<pos_out_start, pos_out_end, idx_out_cur>>
pending == <<pending_sends, pending_bufs>>
locals == <<total_out_len, chunks, chunk_no, sent_out, buf_id>>
vars == <<cursor, pending, ops, pc, caller, locals>>

(* A zero-copy send: ack is its first completion, with result res (-1 is an
   error), fin is its second one, after which the kernel no longer reads buf. *)
Op == [buf: Nat, len: Nat, ack: {"none", "posted", "seen"},
       res: Int, fin: BOOLEAN]

(* Mutant: the last, partial chunk is forgotten. *)
FloorDiv(a, b) == a \div b

CeilDiv(a, b) == (a + b - 1) \div b
MinOf(a, b) == IF a < b THEN a ELSE b
MaxOf(a, b) == IF a < b THEN b ELSE a

(* A stream just made by from_connected, whose accept handler is about to
   call the callback; that handler does not loop. *)
Init ==
    /\ pos_out_start = 0 /\ pos_out_end = 0 /\ idx_out_cur = 0
    /\ pending_sends = 0 /\ pending_bufs = 0
    /\ ops = <<>>
    /\ pc = "cb" /\ caller = "accept"
    /\ total_out_len = 0 /\ chunks = 0 /\ chunk_no = 0
    /\ sent_out = 0 /\ buf_id = 0

-----------------------------------------------------------------------------
(* The kernel (external).                                                  *)

Results(len) ==
    {len} \cup (IF "short" \in Faults THEN 1 .. len - 1 ELSE {})
          \cup (IF "error" \in Faults THEN {-1} ELSE {})

KernelAck(i) ==
    /\ ops[i].ack = "none"
    /\ \E r \in Results(ops[i].len) :
          ops' = [ops EXCEPT ![i].ack = "posted", ![i].res = r]
    /\ UNCHANGED <<cursor, pending, pc, caller, locals>>

(* Notifications follow the acknowledgement of the bytes by the peer, which
   on one TCP connection is in the order they were sent. *)
KernelNotif(i) ==
    /\ ops[i].ack # "none" /\ ~ops[i].fin
    /\ \A j \in 1 .. i - 1 : ops[j].fin
    /\ ops' = [ops EXCEPT ![i].fin = TRUE]
    /\ UNCHANGED <<cursor, pending, pc, caller, locals>>

-----------------------------------------------------------------------------
(* TcpListener::check, the part of it that touches this half of a stream.  *)

StartCallback == pc' = "cb" /\ caller' = "loop"

HandleRecv ==
    /\ pc = "idle"
    /\ StartCallback
    /\ UNCHANGED <<cursor, pending, ops, locals>>

(* Mutants: both completions release the buffer; none does. *)
SentZcReleasesTwice(sent, more) ==
    /\ pending_sends' = pending_sends - sent
    /\ pending_bufs' = pending_bufs - 1

SentZcKeepsBuf(sent, more) ==
    /\ pending_sends' = pending_sends - sent
    /\ pending_bufs' = pending_bufs

SentZc(sent, more) ==
    /\ pending_sends' = pending_sends - sent
    /\ pending_bufs' = IF more THEN pending_bufs ELSE pending_bufs - 1

HandleAck(i) ==
    /\ pc = "idle"
    /\ ops[i].ack = "posted" /\ ops[i].res >= 0
    /\ SentZc(ops[i].res, TRUE)
    /\ ops' = [ops EXCEPT ![i].ack = "seen"]
    /\ StartCallback
    /\ UNCHANGED <<cursor, locals>>

(* A failed send is printed and not put in the bundle: no sent_zc, no
   callback. *)
HandleAckError(i) ==
    /\ pc = "idle"
    /\ ops[i].ack = "posted" /\ ops[i].res < 0
    /\ ops' = [ops EXCEPT ![i].ack = "seen"]
    /\ UNCHANGED <<cursor, pending, pc, caller, locals>>

(* The notification: no more bytes, no more completions. *)
HandleNotif ==
    /\ pc = "idle"
    /\ ops # <<>> /\ Head(ops).fin /\ Head(ops).ack = "seen"
    /\ SentZc(0, FALSE)
    /\ ops' = Tail(ops)
    /\ StartCallback
    /\ UNCHANGED <<cursor, locals>>

(* A last receive (end of stream): the callback is called once more. *)
HandleShutdown ==
    /\ pc = "idle"
    /\ "shutdown" \in Faults
    /\ pc' = "cb" /\ caller' = "shutdown"
    /\ UNCHANGED <<cursor, pending, ops, locals>>

(* check returns an error in the middle of a bundle: completions it had taken
   off the queue, acknowledgements of D and the notifications of the first k
   sends, are never passed to sent_zc. *)
DropCompletions ==
    \E D \in SUBSET {i \in DOMAIN ops : ops[i].ack = "posted"}, k \in 0 .. Len(ops) :
       /\ \A i \in 1 .. k : ops[i].fin /\ (ops[i].ack = "seen" \/ i \in D)
       /\ ops' = [i \in 1 .. Len(ops) - k |->
                    IF i + k \in D THEN [ops[i + k] EXCEPT !.ack = "seen"]
                                   ELSE ops[i + k]]

(* The handler of another stream returned the error. *)
BundleDropped ==
    /\ pc = "idle"
    /\ "sqfull" \in Faults
    /\ DropCompletions
    /\ UNCHANGED <<cursor, pending, pc, caller, locals>>

-----------------------------------------------------------------------------
(* The user's callback, through the Left trait: left_bufs_mut hands out the
   page from idx_out_cur on, left_set_lens declares n bytes queued. *)

Callback(n) ==
    /\ pc = "cb"
    /\ n + idx_out_cur * BufSize <= HugeCap     \* the slice is no longer
    /\ n + pos_out_start <= HugeCap
    /\ pos_out_end' = IF n # pos_out_end - pos_out_start
                      THEN idx_out_cur * BufSize + n
                      ELSE pos_out_end
    /\ pc' = "send"
    /\ UNCHANGED <<pos_out_start, idx_out_cur, pending, ops, caller, locals>>

(* left_set_lens panics: the slice was measured from idx_out_cur, the check
   is made from pos_out_start. *)
CallbackOverCapacity(n) ==
    /\ pc = "cb"
    /\ n + idx_out_cur * BufSize <= HugeCap
    /\ n + pos_out_start > HugeCap
    /\ pc' = "panic"
    /\ UNCHANGED <<cursor, pending, ops, caller, locals>>

-----------------------------------------------------------------------------
(* send_all_out                                                            *)

(* Mutant: only the bytes are limited. *)
BlockedByBytes == pending_sends > MaxPendingSends

Blocked ==
    \/ pending_sends > MaxPendingSends
    \/ pending_bufs > MaxPendingBufs

SendNothing ==
    /\ pc = "send" /\ caller # "shutdown"
    /\ pos_out_end >= pos_out_start
    /\ Blocked \/ pos_out_end = pos_out_start
    /\ pc' = "idle"
    /\ UNCHANGED <<cursor, pending, ops, caller, locals>>

SendBegin ==
    /\ pc = "send" /\ caller # "shutdown"
    /\ pos_out_end > pos_out_start
    /\ ~Blocked
    /\ total_out_len' = pos_out_end - pos_out_start
    /\ chunks' = CeilDiv(pos_out_end - pos_out_start, BufSize)
    /\ chunk_no' = 0 /\ sent_out' = 0
    /\ buf_id' = pos_out_start \div BufSize
    /\ pc' = "chunk"
    /\ UNCHANGED <<cursor, pending, ops, caller>>

(* pos_out_end - pos_out_start underflows. *)
SendUnderflow ==
    /\ pc = "send" /\ caller # "shutdown"
    /\ pos_out_end < pos_out_start
    /\ pc' = "panic"
    /\ UNCHANGED <<cursor, pending, ops, caller, locals>>

(* Mutant: off by one at the end of the ring. *)
WrapsLate == buf_id = NBufs

Wraps == buf_id = NBufs - 1

(* Mutant: the last chunk is sent as a whole buffer. *)
ChunkFull == BufSize

ChunkLen == MinOf(total_out_len - sent_out, BufSize)

LastChunk == chunk_no + 1 = chunks

(* One turn of the loop: push the send, count it, step the cursor.  The last
   buffer of the ring ends the loop whatever is left of it. *)
SendChunk ==
    /\ pc = "chunk"
    /\ ops' = Append(ops, [buf |-> buf_id, len |-> ChunkLen, ack |-> "none",
                           res |-> 0, fin |-> FALSE])
    /\ sent_out' = sent_out + ChunkLen
    /\ pending_sends' = pending_sends + ChunkLen
    /\ pending_bufs' = pending_bufs + 1
    /\ chunk_no' = chunk_no + 1
    /\ buf_id' = buf_id + 1
    /\ pos_out_start' = IF Wraps THEN 0 ELSE (buf_id + 1) * BufSize
    /\ pos_out_end' = IF Wraps THEN 0 ELSE MaxOf(pos_out_end, (buf_id + 1) * BufSize)
    /\ idx_out_cur' = IF Wraps THEN 0
                      ELSE IF LastChunk THEN buf_id + 1 ELSE idx_out_cur
    /\ pc' = IF ~(Wraps \/ LastChunk) THEN "chunk"
             ELSE IF caller = "loop" THEN "cb" ELSE "idle"
    /\ UNCHANGED <<caller, total_out_len, chunks>>

(* add_send_zc_rawbuf fails (no room in the submission queue): the error is
   returned with the earlier chunks of the loop already counted, and the rest
   of the bundle goes with it. *)
SendChunkFails ==
    /\ pc = "chunk"
    /\ "sqfull" \in Faults
    /\ DropCompletions
    /\ pc' = "idle"
    /\ UNCHANGED <<cursor, pending, caller, locals>>

(* The shutdown handler sends nothing that its callback wrote; the listener
   then drops the stream. *)
Close ==
    /\ pc = "send" /\ caller = "shutdown"
    /\ pc' = "closed"
    /\ UNCHANGED <<cursor, pending, ops, caller, locals>>

-----------------------------------------------------------------------------
Kernel == \E i \in DOMAIN ops : KernelAck(i) \/ KernelNotif(i)

Handler ==
    \/ HandleRecv
    \/ \E i \in DOMAIN ops : HandleAck(i) \/ HandleAckError(i)
    \/ HandleNotif
    \/ HandleShutdown
    \/ BundleDropped

SendAllOut ==
    SendNothing \/ SendBegin \/ SendUnderflow \/ SendChunk \/ SendChunkFails \/ Close

Next ==
    \/ Kernel
    \/ Handler
    \/ \E n \in 0 .. MaxQueueBufs * BufSize : Callback(n) \/ CallbackOverCapacity(n)
    \/ SendAllOut

Spec == Init /\ [][Next]_vars

(* check is called in a loop and takes completions in the order they were
   posted, so none waits for ever; a handler that has started runs to its end;
   the kernel ends every send. *)
Fairness ==
    /\ WF_vars(\E i \in DOMAIN ops : KernelAck(i))
    /\ WF_vars(\E i \in DOMAIN ops : KernelNotif(i))
    /\ SF_vars(\E i \in DOMAIN ops : HandleAck(i) \/ HandleAckError(i))
    /\ SF_vars(HandleNotif)
    /\ WF_vars(SendAllOut)
    /\ WF_vars(\E n \in 0 .. MaxQueueBufs * BufSize : Callback(n))

FairSpec == Spec /\ Fairness

-----------------------------------------------------------------------------
(* Type invariant. *)
TypeOK ==
    /\ pos_out_start \in Nat /\ pos_out_end \in Nat
    /\ idx_out_cur \in 0 .. NBufs - 1
    /\ pending_sends \in Int /\ pending_bufs \in Int
    /\ ops \in Seq(Op)
    /\ pc \in {"idle", "cb", "send", "chunk", "closed", "panic"}
    /\ caller \in {"accept", "loop", "shutdown"}
    /\ total_out_len \in Nat /\ chunks \in Nat /\ chunk_no \in Nat
    /\ sent_out \in Nat /\ buf_id \in Nat

(* What sent_zc will still subtract from pending_sends for a send. *)
Outstanding(op) ==
    CASE op.ack = "none"   -> op.len
      [] op.ack = "posted" -> MaxOf(op.res, 0)
      [] op.ack = "seen"   -> 0

(* One element for each byte to be subtracted. *)
ToSubtract == UNION {{i} \X (1 .. Outstanding(ops[i])) : i \in DOMAIN ops}

(* The counters cover what the completions still to come will subtract from
   them, whatever the kernel reports: neither subtraction in sent_zc can
   underflow. *)
CountersCoverKernel ==
    /\ pending_sends >= Cardinality(ToSubtract)
    /\ pending_bufs >= Len(ops)

(* The buffers the kernel may still be reading. *)
KernelReads == {ops[i].buf : i \in {j \in DOMAIN ops : ~ops[j].fin}}

(* The buffers that hold output the callback has written since the last
   send_all_out: they begin where left_bufs_mut begins. *)
Written == {b \in 0 .. NBufs : b >= idx_out_cur /\ b * BufSize < pos_out_end}

(* Between two sends, no buffer the callback has written new output to is one
   the kernel is still reading: the bytes of a zero-copy send are not changed
   under it. *)
ZeroCopyStable == pc # "chunk" => Written \cap KernelReads = {}

(* A chunk loop that ends without an error has submitted every byte that was
   queued when it began, and leaves the queue empty. *)
QueueFullySubmitted ==
    [][(pc = "chunk" /\ pc' # "chunk")
          => (sent_out' = total_out_len /\ pos_out_start' = pos_out_end')]_vars

(* Queued output is not stuck behind the counters for ever. *)
QueueDrains == (pos_out_end > pos_out_start) ~> (pos_out_end = pos_out_start)
=============================================================================
