------------------------------ MODULE RecvPipe ------------------------------
(***************************************************************************)
(* The receive side with the bytes themselves: what the kernel has written *)
(* to each byte of the in page, numbered in the order in which the peer    *)
(* sent them.  The slices left_bufs_mut cuts out of the page are then the  *)
(* queue of a Pipe, put by cb_recv_multi and taken by left_set_lens; the   *)
(* kernel's own writes, which come earlier, change nothing of it.          *)
(***************************************************************************)
EXTENDS MCRecvRing

M == 2 * Cap       \* bytes one turn of the page apart are told apart

VARIABLES
    page,          \* the number of the byte at each place; M: never written
    tag,           \* the number of the next byte the peer sends
    read,          \* how many bytes the callback has read, modulo M
    strayed        \* the kernel has written to a buffer outside the page

data == <<page, tag, read, strayed>>

Write(n) ==
    LET first == Head(ring) * BufSize + fill + 1 IN
    /\ page' = [p \in DOMAIN page |-> IF p \in first .. first + n - 1
                                      THEN (tag + p - first) % M ELSE page[p]]
    /\ tag' = (tag + n) % M
    /\ strayed' = (strayed \/ Head(ring) >= NBufs)
    /\ UNCHANGED read

(* The callback has read all but n bytes. *)
Read(n) ==
    /\ read' = (read + pos_in_end - pos_in_start - n) % M
    /\ UNCHANGED <<page, tag, strayed>>

DataInit ==
    /\ Init
    /\ page = [p \in 1 .. Cap |-> M] /\ tag = 0 /\ read = 0 /\ strayed = FALSE

DataNext ==
    \/ \E n \in 1 .. MaxSeg : KernelRecv(n) /\ Write(n)
    \/ \E n \in 0 .. MaxLeft : Consume(n) /\ Read(n)
    \/ (KernelNoBufs \/ Stream) /\ UNCHANGED data

DataSpec == DataInit /\ [][DataNext]_<<vars, data>>

-----------------------------------------------------------------------------
(* A slice of the page; M stands for a byte outside it. *)
Slice(start, end) ==
    [i \in 1 .. end - start |-> IF start + i \in DOMAIN page THEN page[start + i] ELSE M]

(* Mutant: the second slice is as long as the first one. *)
TurnedEven(start, end) == Slice(start, Cap) \o Slice(0, Cap - start)

(* InBuffer::Double: the end of the page, then its beginning. *)
Turned(start, end) == Slice(start, Cap) \o Slice(0, end - Cap)

(* The input left_bufs_mut shows to the callback. *)
InBuffer(start, end) ==
    IF start <= Cap /\ end > Cap THEN Turned(start, end) ELSE Slice(start, end)

View == InBuffer(Revolved(pos_in_start), Revolved(pos_in_end))

P == INSTANCE Pipe WITH next <- (tag - Unseen) % M, queue <- View, taken <- read

(* While the callback reads all it is given, what it is shown is a byte
   stream: every byte the peer sent once, in order, never overwritten while it
   is in view, however often the page has been used. *)
ImplementsPipe == P!Spec

(* With input left unread, so that the view is cut at any place and turns
   round the end of the page, the same holds of every step until the kernel has
   used the buffer outside the page that try_free_buffers may give it. *)
PipeWhileInPage == [][~strayed' => [P!Next]_(P!pipe)]_<<vars, data>>
=============================================================================
