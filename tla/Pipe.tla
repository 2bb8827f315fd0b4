-------------------------------- MODULE Pipe --------------------------------
(***************************************************************************)
(* What one direction of a stream promises: a byte stream.  Bytes are      *)
(* numbered, modulo M, in the order in which they are produced; they are   *)
(* put at the end of the queue in runs (the producer may take back the     *)
(* last ones) and taken from its front, so none is lost, repeated, changed *)
(* or overtaken.  The page, the buffers and the completions of an          *)
(* EntHugeTlb do not appear.                                               *)
(***************************************************************************)
EXTENDS Integers, Sequences

CONSTANT M        \* number of the byte after M - 1 is 0

VARIABLES
    next,         \* the number of the next byte to be put
    queue,        \* the bytes put and not taken
    taken         \* how many bytes have been taken, modulo M

pipe == <<next, queue, taken>>

Init == next = 0 /\ queue = <<>> /\ taken = 0

Run(from, n) == [i \in 1 .. n |-> (from + i - 1) % M]

Put(n) ==
    /\ queue' = queue \o Run(next, n)
    /\ next' = (next + n) % M
    /\ UNCHANGED taken

Unput(n) ==
    /\ queue' = SubSeq(queue, 1, Len(queue) - n)
    /\ next' = (next - n) % M
    /\ UNCHANGED taken

Get(n) ==
    /\ queue' = SubSeq(queue, n + 1, Len(queue))
    /\ taken' = (taken + n) % M
    /\ UNCHANGED next

Take == \E n \in 1 .. Len(queue) : Get(n)

Next ==
    \/ Take
    \/ \E n \in 1 .. M - 1 : Put(n)
    \/ \E n \in 1 .. Len(queue) : Unput(n)

Spec == Init /\ [][Next]_pipe

(* ... and a byte that was put is taken in the end. *)
FairSpec == Spec /\ WF_pipe(Take)
=============================================================================
