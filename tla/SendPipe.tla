------------------------------ MODULE SendPipe ------------------------------
(***************************************************************************)
(* The send side with the bytes themselves: what the callback has written  *)
(* to each byte of the out page, numbered in the order in which it wrote   *)
(* them.  Output waits in the page twice, first between pos_out_start and  *)
(* pos_out_end and then in the buffers of sends the kernel has not done    *)
(* with; the two together are the queue of a Pipe, put by the callback and *)
(* taken when the kernel lets go of a buffer.  send_all_out, which moves   *)
(* bytes from the first to the second, changes nothing of it.              *)
(***************************************************************************)
EXTENDS SendRing, SequencesExt

CONSTANT M       \* bytes are numbered modulo M

ASSUME NumbersAssumption == M \in Nat \ {0}

VARIABLES
    page,        \* the number of the byte waiting at each place; M: none is
    tag,         \* the number of the next byte the callback writes
    gone         \* how many bytes the kernel has done with, modulo M

data == <<page, tag, gone>>

Queued == pos_out_end - pos_out_start

Places(buf, len) == buf * BufSize + 1 .. buf * BufSize + len

Waiting ==
    UNION {Places(ops[i].buf, ops[i].len) : i \in {j \in DOMAIN ops : ~ops[j].fin}}
       \cup (pos_out_start + 1 .. pos_out_end)

(* A byte that is no longer waiting need not be remembered. *)
Kept(p) == IF p \in Waiting' THEN page[p] ELSE M

(* The callback keeps the output that is waiting and adds to it, or takes back
   the end of it. *)
Write(n) ==
    LET added == Places(idx_out_cur, n) \ Places(idx_out_cur, Queued) IN
    /\ page' = [p \in DOMAIN page |-> IF p \in added
                  THEN (tag + p - idx_out_cur * BufSize - Queued - 1) % M ELSE Kept(p)]
    /\ tag' = (tag + n - Queued) % M
    /\ UNCHANGED gone

(* The kernel lets go of the len bytes of a send. *)
Release(len) ==
    /\ page' = [p \in DOMAIN page |-> Kept(p)]
    /\ gone' = (gone + len) % M
    /\ UNCHANGED tag

DataInit == Init /\ page = [p \in 1 .. HugeCap |-> M] /\ tag = 0 /\ gone = 0

DataNext ==
    \/ \E n \in 0 .. MaxQueueBufs * BufSize :
          /\ Callback(n) \/ CallbackOverCapacity(n)
          /\ IF pc' = "panic" THEN Release(0) ELSE Write(n)
    \/ \E i \in DOMAIN ops :
          \/ KernelNotif(i) /\ Release(ops[i].len)
          \/ KernelAck(i) /\ Release(0)
    \/ (Handler \/ SendAllOut) /\ Release(0)

DataFairSpec == DataInit /\ [][DataNext]_<<vars, data>> /\ Fairness

-----------------------------------------------------------------------------
(* The bytes a send reads: they begin where its buffer does. *)
Sent(op) == SubSeq(page, op.buf * BufSize + 1, op.buf * BufSize + op.len)

InFlight == FlattenSeq([i \in DOMAIN ops |-> IF ops[i].fin THEN <<>> ELSE Sent(ops[i])])

P == INSTANCE Pipe WITH
        next <- tag,
        queue <- InFlight \o SubSeq(page, pos_out_start + 1, pos_out_end),
        taken <- gone

(* What the kernel reads is what the callback wrote and did not take back
   before send_all_out: every byte once, in order, unchanged from the callback
   to the notification, and none waits for ever. *)
ImplementsPipe == P!FairSpec
=============================================================================
