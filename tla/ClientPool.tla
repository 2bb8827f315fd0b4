----------------------------- MODULE ClientPool -----------------------------
(***************************************************************************)
(* TcpClientPool (src/src/tcp_pool/tcp_client_pool.rs): PoolCount sockets  *)
(* connected at once over one io_uring.                                    *)
(*                                                                         *)
(* The bearer keeps a record for every submission.  A completion carries   *)
(* the id of its record and nothing else, so what it is and whose it is    *)
(* come from the record; check decides whether a record is forgotten, and  *)
(* the id of a forgotten record is free for a later submission.  A         *)
(* zero-copy send has two completions, and this check forgets its record   *)
(* on the first.  The fields kind and slot of a completion are what the    *)
(* kernel knows; the client reads its record only.                         *)
(*                                                                         *)
(* pending_sends is counted in bytes: an acknowledgement takes off what it *)
(* reports, which may be more than a stream has pending when the record it *)
(* finds is of another stream (HandleSentZcUnderflow).                     *)
(***************************************************************************)
EXTENDS Integers, Sequences, FiniteSets

CONSTANTS
    PoolCount,   \* streams in the pool
    NRecs,       \* records the bearer has room for
    N,           \* most completions one check takes
    BufSize,     \* bytes per buffer, and pending bytes above which send_all_out
                 \* declines (8192)
    BufLimit,    \* pending buffers above which it declines (5)
    MaxOut,      \* most bytes one pass of the callback queues
    MaxPending,  \* buffers pending on all streams at which it queues no more, once connected
    MaxRecvs,    \* most receive completions in the queue
    MaxCq,       \* most completions in the queue and the bundle
    Faults       \* what may go wrong: see AllFaults

(* A refused connect, a peer that closes, a send that fails or is short, no huge
   pages left, check without set_hugetlb, a second connect_with_cb. *)
AllFaults == {"refuse", "close", "sendfail", "short", "nopages", "unset", "again"}

ASSUME ClientAssumption ==
    /\ PoolCount \in Nat \ {0}
    /\ NRecs \in Nat /\ NRecs >= 2 * PoolCount
    /\ N \in Nat \ {0}
    /\ BufSize \in Nat \ {0} /\ BufLimit \in Nat
    /\ MaxOut \in Nat /\ MaxPending \in Nat /\ MaxRecvs \in Nat /\ MaxCq \in Nat
    /\ Faults \subseteq AllFaults

Slots == 0 .. PoolCount - 1
Ids == 1 .. NRecs
Rec == [kind: {"socket", "connect", "recv", "send"}, slot: Slots]
NoRec == [kind |-> "none", slot |-> 0]

(* A zero-copy send: its id, slot and length. *)
Sends == Ids \X Slots \X (1 .. BufSize)

VARIABLES
    \* the kernel
    inflight,    \* socket, connect and receive requests: <<id, record>>
    unacked,     \* how many of each zero-copy send have their first completion to come
    unnotified,  \* ... and how many their second one
    cq,          \* the completion queue
    \* the bearer
    rec,         \* the record under each id
    \* the client
    hugetlb,     \* cfg_hugetlb has been set
    ctx,         \* ClientSlotCtx: "none", "connecting", "error", "stream"
    sends, bufs, \* per stream: pending_sends (bytes), pending_bufs
    state_connecting, state_error, state_connected,
    bundle,
    failed,      \* some check has returned an error
    mixed,       \* history: streams that were charged a completion of another one
    pc           \* "idle", "bundle", "panic"

kernel == <<inflight, unacked, unnotified, cq>>
streams == <<sends, bufs>>
history == <<failed, mixed>>
counts == <<state_connecting, state_error, state_connected>>
vars == <<kernel, rec, hugetlb, ctx, streams, counts, bundle, history, pc>>

(* with_capacity *)
Init ==
    /\ inflight = {}
    /\ unacked = [p \in Sends |-> 0] /\ unnotified = [p \in Sends |-> 0]
    /\ cq = <<>>
    /\ rec = [i \in Ids |-> NoRec]
    /\ hugetlb = FALSE
    /\ ctx = [x \in Slots |-> "none"]
    /\ sends = [x \in Slots |-> 0] /\ bufs = [x \in Slots |-> 0]
    /\ state_connecting = 0 /\ state_error = 0 /\ state_connected = 0
    /\ bundle = <<>>
    /\ failed = FALSE /\ mixed = {}
    /\ pc = "idle"

Stop ==
    /\ pc' = "panic"
    /\ UNCHANGED <<kernel, rec, hugetlb, ctx, streams, counts, bundle, history>>

-----------------------------------------------------------------------------
(* The kernel (external).  A socket is linked to its connect, which follows
   it. *)

(* res is the number of bytes of a send. *)
Post(id, kind, slot, ok, more, res) ==
    /\ Len(cq) + Len(bundle) < MaxCq
    /\ cq' = Append(cq, [id |-> id, kind |-> kind, slot |-> slot,
                         ok |-> ok, more |-> more, res |-> res])
    /\ UNCHANGED <<rec, hugetlb, ctx, streams, counts, bundle, history, pc>>

Request(id, kind, x) == <<id, [kind |-> kind, slot |-> x]>>

(* The last completion of a request. *)
Answer(id, kind, x, ok) ==
    /\ Request(id, kind, x) \in inflight
    /\ inflight' = inflight \ {Request(id, kind, x)}
    /\ Post(id, kind, x, ok, FALSE, 0)
    /\ UNCHANGED <<unacked, unnotified>>

KernelSocket(id, x) == Answer(id, "socket", x, TRUE)

KernelConnect(id, x) ==
    /\ \A i \in Ids : Request(i, "socket", x) \notin inflight
    /\ \E ok \in {TRUE} \cup (IF "refuse" \in Faults THEN {FALSE} ELSE {}) :
          Answer(id, "connect", x, ok)

(* ok: the completion names a buffer.  When the peer has closed there is none, and
   no more follow. *)
KernelRecv(id, x) ==
    /\ Request(id, "recv", x) \in inflight
    /\ Cardinality({i \in DOMAIN cq : cq[i].kind = "recv"}) < MaxRecvs
    /\ \E ok \in {TRUE} \cup (IF "close" \in Faults THEN {FALSE} ELSE {}) :
          /\ inflight' = IF ok THEN inflight ELSE inflight \ {Request(id, "recv", x)}
          /\ Post(id, "recv", x, ok, ok, 0)
    /\ UNCHANGED <<unacked, unnotified>>

(* What the kernel may report of a send of l bytes: the bytes sent, or 0 when it
   has failed. *)
Results(l) ==
    {l} \cup (IF "short" \in Faults THEN 1 .. l ELSE {})
        \cup (IF "sendfail" \in Faults THEN {0} ELSE {})

KernelAck(id, x, l) ==
    /\ unacked[<<id, x, l>>] > 0
    /\ unacked' = [unacked EXCEPT ![<<id, x, l>>] = @ - 1]
    /\ \E r \in Results(l) : Post(id, "send", x, r > 0, TRUE, r)
    /\ UNCHANGED <<inflight, unnotified>>

KernelNotif(id, x, l) ==
    /\ unnotified[<<id, x, l>>] > unacked[<<id, x, l>>]
    /\ unnotified' = [unnotified EXCEPT ![<<id, x, l>>] = @ - 1]
    /\ Post(id, "send", x, TRUE, FALSE, 0)
    /\ UNCHANGED <<inflight, unacked>>

-----------------------------------------------------------------------------
(* Setting up.                                                             *)

SetHugeTlb ==
    /\ pc = "idle" /\ ~hugetlb
    /\ hugetlb' = TRUE
    /\ UNCHANGED <<kernel, rec, ctx, streams, counts, bundle, history, pc>>

Fresh == \A x \in Slots : ctx[x] = "none"

(* Ids 2x + 1 and 2x + 2 go to the socket and the connect of slot x: the
   records of a new bearer are filled in order. *)
FirstRec(id) ==
    [kind |-> IF id % 2 = 1 THEN "socket" ELSE "connect", slot |-> (id - 1) \div 2]

ConnectWithCb ==
    /\ pc = "idle" /\ Fresh
    /\ hugetlb \/ "unset" \in Faults
    /\ rec' = [i \in Ids |-> IF i <= 2 * PoolCount THEN FirstRec(i) ELSE NoRec]
    /\ inflight' = {<<i, FirstRec(i)>> : i \in 1 .. 2 * PoolCount}
    /\ ctx' = [x \in Slots |-> "connecting"]
    /\ state_connecting' = state_connecting + PoolCount
    /\ UNCHANGED <<unacked, unnotified, cq, hugetlb, streams, state_error,
                   state_connected, bundle, history, pc>>

(* register_files fails when files are registered already; it does not look at the
   queue. *)
ConnectWithCbAgain ==
    /\ "again" \in Faults
    /\ pc = "idle" /\ ~Fresh /\ cq = <<>>
    /\ Stop

-----------------------------------------------------------------------------
(* Phase 1 of check: handle_completions, over the first completions of the
   queue. *)

Batch == 1 .. (IF Len(cq) < N THEN Len(cq) ELSE N)

(* Mutant: every record is kept. *)
ForgetsNothing(kind) == FALSE

(* A record is kept for the next completion of a receive only; also for a send,
   the first completion is taken for the last one. *)
Forgets(kind) == kind # "recv"

(* The record of the j-th completion, unless an earlier one has forgotten it. *)
Record(j) ==
    IF \E i \in 1 .. j - 1 : cq[i].id = cq[j].id /\ Forgets(rec[cq[j].id].kind)
    THEN NoRec
    ELSE rec[cq[j].id]

(* Mutant: a refused connect is not reported. *)
ReportsAccepted(j) ==
    Record(j).kind = "recv" \/ (Record(j).kind \in {"connect", "send"} /\ cq[j].ok)

(* A socket is linked to its connect and needs no report; a failed send has
   none. *)
Reports(j) ==
    \/ Record(j).kind \in {"connect", "recv"}
    \/ Record(j).kind = "send" /\ cq[j].ok

(* What goes into the bundle: the kind and slot of the record, the result of a
   connect, the more flag and the bytes of a send. *)
Entry(j) ==
    [kind |-> Record(j).kind,
     slot |-> Record(j).slot,
     flag |-> IF Record(j).kind = "send" THEN cq[j].more ELSE cq[j].ok,
     res |-> IF Record(j).kind = "send" THEN cq[j].res ELSE 0]

Reporting == {j \in Batch : Reports(j)}

(* The k-th completion of the batch that is reported. *)
Ranked(k) == CHOOSE j \in Reporting : Cardinality({i \in Reporting : i <= j}) = k

(* panic!("Client/RecvMulti must have buffer id...") *)
NoBuffer(j) == Record(j).kind = "recv" /\ ~cq[j].ok

(* A completion whose record is gone. *)
Unknown(j) == Record(j) = NoRec

(* A stream is charged a completion that is not its own. *)
Mixes(j) == Reports(j) /\ Record(j).kind = "send" /\ cq[j].slot # Record(j).slot

(* The bearer passes over an unknown completion (external) ... *)
CheckCollect ==
    /\ pc = "idle" /\ cq # <<>>
    /\ \A j \in Batch : ~NoBuffer(j)
    /\ bundle' = [k \in 1 .. Cardinality(Reporting) |-> Entry(Ranked(k))]
    /\ rec' = [i \in Ids |-> IF (\E j \in Batch : cq[j].id = i) /\ Forgets(rec[i].kind)
                             THEN NoRec ELSE rec[i]]
    /\ cq' = SubSeq(cq, Cardinality(Batch) + 1, Len(cq))
    /\ pc' = IF bundle' = <<>> THEN "idle" ELSE "bundle"
    /\ mixed' = mixed \cup {Record(j).slot : j \in {i \in Batch : Mixes(i)}}
    /\ UNCHANGED <<inflight, unacked, unnotified, hugetlb, ctx, streams, counts, failed>>

(* ... or fails, which the unwrap turns into a panic. *)
CheckCollectPanics ==
    /\ pc = "idle"
    /\ \E j \in Batch : NoBuffer(j) \/ Unknown(j)
    /\ Stop

-----------------------------------------------------------------------------
(* Phase 2: the bundle.                                                    *)

First(kind) == pc = "bundle" /\ Head(bundle).kind = kind

Slot == Head(bundle).slot

Return(err) ==
    /\ bundle' = IF err THEN <<>> ELSE Tail(bundle)
    /\ pc' = IF err \/ Tail(bundle) = <<>> THEN "idle" ELSE "bundle"
    /\ failed' = (failed \/ err)
    /\ UNCHANGED mixed

Free == {i \in Ids : rec[i] = NoRec}

(* The k free ids the bearer gives out next (external): the lowest ones. *)
Lowest(k, free) == {i \in free : Cardinality({j \in free : j < i}) < k}

CeilDiv(a, b) == (a + b - 1) \div b
MinOf(a, b) == IF a < b THEN a ELSE b

(* Mutant: a stream with output pending never declines. *)
BlockedNever(s, b) == FALSE

Blocked(s, b) == s > BufSize \/ b > BufLimit

(* send_all_out with q bytes queued on a stream that counts s bytes and b buffers:
   nothing is sent, or a send for each buffer, in a record of its own.  With too
   few records it fails, and those before are out. *)
SendAllOut(q, s, b, free) ==
    LET n == IF Blocked(s, b) THEN 0 ELSE CeilDiv(q, BufSize)
    IN  [ids |-> Lowest(n, free), q |-> q, err |-> Cardinality(free) < n]

(* Mutant: the last send is counted as a whole buffer. *)
WholeBuffer(out, id) == BufSize

(* The length of the send that goes by id: a whole buffer, or the last one. *)
Length(out, id) ==
    MinOf(BufSize, out.q - Cardinality({j \in out.ids : j < id}) * BufSize)

(* All of them. *)
Bytes(out) == MinOf(out.q, Cardinality(out.ids) * BufSize)

Plus(f, x, out) ==
    [p \in Sends |-> IF p[1] \in out.ids /\ p[2] = x /\ p[3] = Length(out, p[1])
                     THEN f[p] + 1 ELSE f[p]]

(* Mutants: a send is not counted as a buffer in use; only the bytes of a last,
   partial send are counted. *)
CountNoBufs(b, out) == b
CountRest(s, out) == s + (Bytes(out) % BufSize)

CountBufs(b, out) == b + Cardinality(out.ids)
CountBytes(s, out) == s + Bytes(out)

Submitted(x, out, s, b) ==
    /\ unacked' = Plus(unacked, x, out)
    /\ unnotified' = Plus(unnotified, x, out)
    /\ sends' = [sends EXCEPT ![x] = CountBytes(s, out)]
    /\ bufs' = [bufs EXCEPT ![x] = CountBufs(b, out)]

(* What the callback may queue. *)
Output ==
    LET pending == {p \in Slots \X (1 .. MaxPending) : p[2] <= bufs[p[1]]}
    IN  {q \in 0 .. MaxOut : q = 0 \/ Cardinality(pending) < MaxPending}

(* Callback, send_all_out once. *)
HandleRecv ==
    /\ First("recv") /\ ctx[Slot] = "stream"
    /\ \E q \in Output :
       LET out == SendAllOut(q, sends[Slot], bufs[Slot], Free) IN
          /\ Submitted(Slot, out, sends[Slot], bufs[Slot])
          /\ rec' = [i \in Ids |-> IF i \in out.ids THEN [kind |-> "send", slot |-> Slot] ELSE rec[i]]
          /\ Return(out.err)
    /\ UNCHANGED <<inflight, cq, hugetlb, ctx, counts>>

(* What sent_zc takes off pending_bufs. *)
Freed == IF Head(bundle).flag THEN 0 ELSE 1

(* Mutant: the subtractions are not checked. *)
HandleSentZcUnchecked ==
    /\ First("send") /\ ctx[Slot] = "stream"
    /\ sends' = [sends EXCEPT ![Slot] = @ - Head(bundle).res]
    /\ bufs' = [bufs EXCEPT ![Slot] = @ - Freed]
    /\ Return(FALSE)
    /\ UNCHANGED <<kernel, rec, hugetlb, ctx, counts>>

(* sent_zc, and nothing else: declined output waits for the next receive. *)
HandleSentZc ==
    /\ First("send") /\ ctx[Slot] = "stream"
    /\ sends[Slot] >= Head(bundle).res /\ bufs[Slot] >= Freed
    /\ sends' = [sends EXCEPT ![Slot] = @ - Head(bundle).res]
    /\ bufs' = [bufs EXCEPT ![Slot] = @ - Freed]
    /\ Return(FALSE)
    /\ UNCHANGED <<kernel, rec, hugetlb, ctx, counts>>

(* One of the subtractions underflows. *)
HandleSentZcUnderflow ==
    /\ First("send") /\ ctx[Slot] = "stream"
    /\ sends[Slot] < Head(bundle).res \/ bufs[Slot] < Freed
    /\ Stop

(* unreachable!() *)
HandleNoStream ==
    /\ pc = "bundle" /\ Head(bundle).kind \in {"recv", "send"} /\ ctx[Slot] # "stream"
    /\ Stop

(* Mutant: the slot stays among those connecting. *)
CountRefusedOnce ==
    /\ state_error' = state_error + 1
    /\ UNCHANGED <<state_connecting, state_connected>>

CountRefused ==
    /\ state_connecting' = state_connecting - 1
    /\ state_error' = state_error + 1
    /\ UNCHANGED state_connected

HandleRefused ==
    /\ First("connect") /\ ~Head(bundle).flag
    /\ CountRefused
    /\ ctx' = [ctx EXCEPT ![Slot] = "error"]
    /\ Return(FALSE)
    /\ UNCHANGED <<kernel, rec, hugetlb, streams>>

CountConnected ==
    /\ state_connecting' = state_connecting - 1
    /\ state_connected' = state_connected + 1
    /\ UNCHANGED state_error

(* HugePageBytes::new or from_connected fails, before anything is counted. *)
HandleNoPages ==
    /\ First("connect") /\ Head(bundle).flag
    /\ hugetlb /\ "nopages" \in Faults
    /\ Return(TRUE)
    /\ UNCHANGED <<kernel, rec, hugetlb, ctx, streams, counts>>

(* recv_multi fails, without huge pages (BpNeedBuffers) or without a record;
   the stream is dropped. *)
HandleNoRecv ==
    /\ First("connect") /\ Head(bundle).flag
    /\ ~hugetlb \/ Free = {}
    /\ CountConnected
    /\ Return(TRUE)
    /\ UNCHANGED <<kernel, rec, hugetlb, ctx, streams>>

(* Mutant: the stream is not kept. *)
KeepNothing(err) == ctx' = ctx

(* An error of send_all_out leaves the slot as it was. *)
KeepStream(err) == ctx' = IF err THEN ctx ELSE [ctx EXCEPT ![Slot] = "stream"]

(* Callback, recv_multi, send_all_out once, then the slot becomes a stream. *)
HandleConnected ==
    /\ First("connect") /\ Head(bundle).flag
    /\ hugetlb
    /\ CountConnected
    /\ \E r \in Lowest(1, Free) : \E q \in 0 .. MaxOut :
       LET out == SendAllOut(q, 0, 0, Free \ {r}) IN
          /\ Submitted(Slot, out, 0, 0)
          /\ inflight' = inflight \cup {Request(r, "recv", Slot)}
          /\ rec' = [i \in Ids |-> IF i = r THEN [kind |-> "recv", slot |-> Slot]
                                   ELSE IF i \in out.ids THEN [kind |-> "send", slot |-> Slot]
                                   ELSE rec[i]]
          /\ KeepStream(out.err)
          /\ Return(out.err)
    /\ UNCHANGED <<cq, hugetlb>>

-----------------------------------------------------------------------------
Kernel(id, x) ==
    \/ KernelSocket(id, x) \/ KernelConnect(id, x)
    \/ KernelRecv(id, x)
    \/ \E l \in 1 .. BufSize : KernelAck(id, x, l) \/ KernelNotif(id, x, l)

Check ==
    \/ CheckCollect \/ CheckCollectPanics
    \/ HandleRecv \/ HandleSentZc \/ HandleSentZcUnderflow \/ HandleNoStream
    \/ HandleRefused \/ HandleNoPages \/ HandleNoRecv \/ HandleConnected

Next ==
    \/ SetHugeTlb \/ ConnectWithCb \/ ConnectWithCbAgain
    \/ \E id \in Ids, x \in Slots : Kernel(id, x)
    \/ Check

Spec == Init /\ [][Next]_vars

(* The program calls check in a loop, and the kernel answers every socket and
   connect; strongly fair, because MaxCq keeps it waiting. *)
FairSpec ==
    /\ Spec
    /\ WF_vars(Check)
    /\ SF_vars(\E id \in Ids, x \in Slots : KernelSocket(id, x) \/ KernelConnect(id, x))

-----------------------------------------------------------------------------
(* Type invariant. *)
TypeOK ==
    /\ inflight \subseteq Ids \X Rec
    /\ unacked \in [Sends -> Nat] /\ unnotified \in [Sends -> Nat]
    /\ rec \in [Ids -> Rec \cup {NoRec}]
    /\ ctx \in [Slots -> {"none", "connecting", "error", "stream"}]
    /\ sends \in [Slots -> Nat] /\ bufs \in [Slots -> Nat]
    /\ state_connecting \in Nat /\ state_error \in Nat /\ state_connected \in Nat
    /\ Len(bundle) <= N
    /\ hugetlb \in BOOLEAN /\ failed \in BOOLEAN /\ mixed \subseteq Slots
    /\ pc \in {"idle", "bundle", "panic"}

(* A record stands for a request that the kernel still serves, or whose
   completion waits in the queue: none is kept for ever. *)
NoRecordLeak ==
    \A i \in Ids : rec[i] # NoRec =>
       \/ <<i, rec[i]>> \in inflight
       \/ rec[i].kind = "send" /\ \E l \in 1 .. BufSize : unacked[<<i, rec[i].slot, l>>] > 0
       \/ \E j \in DOMAIN cq : cq[j].id = i

(* Until a check fails, receives and sends belong to slots that hold a stream,
   in the bearer and in the bundle: no handler meets its unreachable!(). *)
RecordsHaveStream ==
    ~failed =>
       /\ \A i \in Ids : rec[i].kind \in {"recv", "send"} => ctx[rec[i].slot] = "stream"
       /\ \A j \in DOMAIN bundle :
             bundle[j].kind \in {"recv", "send"} => ctx[bundle[j].slot] = "stream"

(* A stream counts a buffer for every record of a send that is its own by now and
   every report of one: although the notification of a send may find the record of
   any later one, pending_bufs never underflows. *)
BufsCoverRecords ==
    \A x \in Slots :
       bufs[x] >= Cardinality({i \in Ids : rec[i].kind = "send" /\ rec[i].slot = x})
                  + Cardinality({j \in DOMAIN bundle :
                                   bundle[j].kind = "send" /\ bundle[j].slot = x})

(* pending_sends does underflow, as the records a stream's completions find do not
   say how many bytes those are of; but only on a stream that has been charged a
   completion of another one. *)
UnmixedCovered ==
    First("send") /\ ctx[Slot] = "stream" /\ Slot \notin mixed => sends[Slot] >= Head(bundle).res

With(state) == Cardinality({x \in Slots : ctx[x] = state})

(* Until a check fails, the three counters say how many slots are in which
   state. *)
CountsMatchPool ==
    ~failed =>
       /\ state_connecting = With("connecting")
       /\ state_error = With("error")
       /\ state_connected = With("stream")

(* Every slot that connects ends as a stream or an error, unless a check fails
   or panics. *)
Settles == With("connecting") > 0 ~> (With("connecting") = 0 \/ failed \/ pc = "panic")

(* The check on a receive completion: it names a buffer. *)
RecvHasBuffer == pc = "idle" => \A j \in Batch : ~NoBuffer(j)
=============================================================================
