------------------------------ MODULE RecvRing ------------------------------
(***************************************************************************)
(* The receive side of one EntHugeTlb stream                               *)
(* (src/src/tcp_stream/ent_streaming_hugetlb.rs): the in page is registered*)
(* as a ring of NBufs provided buffers, which the kernel fills one after   *)
(* the other, each from its first byte to its last (incremental buffers).  *)
(* The stream keeps byte positions only: cb_recv_multi adds the length of  *)
(* every completion to pos_in_end and never looks at the buffer id, so the *)
(* bytes it shows to the callback are the right ones only as long as its   *)
(* own walk round the page and the kernel's walk round the ring agree.     *)
(* Positions run past the end of the page (Cap) and are brought back by    *)
(* left_bufs_mut; try_free_buffers gives buffers back to the kernel.       *)
(***************************************************************************)
EXTENDS Integers, Sequences

CONSTANTS
    BufSize,     \* bytes per buffer (8192)
    NBufs,       \* buffers in the ring (256)
    MaxSeg,      \* most bytes one receive completion reports
    MaxBacklog,  \* most receive completions posted and not handled yet
    MaxLeft      \* most bytes the callback leaves unread in one pass

ASSUME RecvAssumption ==
    /\ BufSize \in Nat \ {0}
    /\ NBufs \in Nat \ {0}
    /\ MaxSeg \in 1 .. BufSize
    /\ MaxBacklog \in Nat \ {0}
    /\ MaxLeft \in Nat

Cap == NBufs * BufSize       \* 2097152, also the capacity of HUGE_2MB

NoBufs == 0                  \* a completion with result -ENOBUFS

VARIABLES
    pos_in_start, pos_in_end, idx_in_reused,   \* CursorLeft, in half
    ring,     \* buffer ids the kernel may still fill, the current one first
    fill,     \* bytes of the current one already filled
    cq,       \* lengths reported by the completions posted and not handled
    pc,       \* "idle", "cb" (in the callback), "panic"
    why       \* which check has panicked

cursor == <<pos_in_start, pos_in_end, idx_in_reused>>
kernel == <<ring, fill, cq>>
vars == <<cursor, kernel, pc, why>>

(* register_buf_ring: all buffers, in order, belong to the kernel. *)
Init ==
    /\ pos_in_start = 0 /\ pos_in_end = 0 /\ idx_in_reused = 0
    /\ ring = [i \in 1 .. NBufs |-> i - 1]
    /\ fill = 0
    /\ cq = <<>>
    /\ pc = "idle" /\ why = "none"

Panic(check) ==
    /\ pc' = "panic" /\ why' = check
    /\ UNCHANGED <<cursor, kernel>>

-----------------------------------------------------------------------------
(* The kernel (external): a multi-shot receive into the ring.              *)

Armed == pc # "panic" /\ \A i \in DOMAIN cq : cq[i] # NoBufs

KernelRecv(n) ==
    /\ Armed /\ Len(cq) < MaxBacklog
    /\ ring # <<>> /\ n <= BufSize - fill
    /\ cq' = Append(cq, n)
    /\ ring' = IF fill + n = BufSize THEN Tail(ring) ELSE ring
    /\ fill' = IF fill + n = BufSize THEN 0 ELSE fill + n
    /\ UNCHANGED <<cursor, pc, why>>

(* Bytes arrive and no buffer is left: the receive ends with an error. *)
KernelNoBufs ==
    /\ Armed /\ ring = <<>>
    /\ cq' = Append(cq, NoBufs)
    /\ UNCHANGED <<cursor, ring, fill, pc, why>>

-----------------------------------------------------------------------------
(* TcpListener::check, the part of it that touches this half of a stream.  *)

(* cb_recv_multi.  A receive has at least one byte and a buffer: its early
   return and the panics behind the first comparison are never reached. *)
HandleRecv ==
    /\ pc = "idle" /\ cq # <<>> /\ Head(cq) # NoBufs
    /\ pos_in_end' = pos_in_end + Head(cq)
    /\ cq' = Tail(cq)
    /\ pc' = "cb"
    /\ UNCHANGED <<pos_in_start, idx_in_reused, ring, fill, why>>

(* check panics on a receive with a negative result. *)
HandleRecvError ==
    /\ pc = "idle" /\ cq # <<>> /\ Head(cq) = NoBufs
    /\ Panic("recv_multi error")

(* A send completion runs the callback and try_free_buffers too. *)
HandleSentZc ==
    /\ pc = "idle"
    /\ pc' = "cb"
    /\ UNCHANGED <<cursor, kernel, why>>

-----------------------------------------------------------------------------
(* The callback, through the Left trait.                                   *)

Revolves == pos_in_start > Cap /\ pos_in_end > Cap

Revolved(p) == IF Revolves THEN p - Cap ELSE p

(* A pass that only looks: left_bufs_mut. *)
Look ==
    /\ pc = "cb"
    /\ pos_in_start' = Revolved(pos_in_start)
    /\ pos_in_end' = Revolved(pos_in_end)
    /\ UNCHANGED <<idx_in_reused, kernel, pc, why>>

(* Mutant: the bytes left are counted back from the start. *)
ConsumeFromStart(n) ==
    /\ pc = "cb"
    /\ n <= pos_in_end - pos_in_start
    /\ n + Revolved(pos_in_start) <= Cap
    /\ pos_in_end' = Revolved(pos_in_end)
    /\ pos_in_start' = Revolved(pos_in_start) - n
    /\ UNCHANGED <<idx_in_reused, kernel, pc, why>>

(* A pass that leaves n bytes: left_bufs_mut, then left_set_lens(n, _).  A
   callback leaves no more input than it was shown, so the branch of
   left_set_lens that would move pos_in_end on is never taken. *)
Consume(n) ==
    /\ pc = "cb"
    /\ n <= pos_in_end - pos_in_start
    /\ n + Revolved(pos_in_start) <= Cap
    /\ pos_in_end' = Revolved(pos_in_end)
    /\ pos_in_start' = Revolved(pos_in_end) - n
    /\ UNCHANGED <<idx_in_reused, kernel, pc, why>>

(* left_set_lens refuses what reaches past the end of the page. *)
ConsumeOverCapacity(n) ==
    /\ pc = "cb"
    /\ n <= pos_in_end - pos_in_start
    /\ n + Revolved(pos_in_start) > Cap
    /\ Panic("Left In len over capacity")

-----------------------------------------------------------------------------
(* try_free_buffers, at the end of every handler.  dropping_bid(b) gives
   buffer b back to the kernel (external). *)

(* Mutant: everything received is taken for consumed. *)
CurBufByEnd == pos_in_end \div BufSize

CurBuf == pos_in_start \div BufSize

(* Mutant: the first one is skipped. *)
FreedIdsSkip(from, to) == [i \in 1 .. to - from - 1 |-> from + i]

FreedIds(from, to) == [i \in 1 .. to - from |-> from + i - 1]

RevolvedLeftover == CurBuf = 0 /\ idx_in_reused = NBufs - 1

(* Mutant: off by one. *)
RevolvedCleanLate == CurBuf = 0 /\ idx_in_reused = NBufs + 1

RevolvedClean == CurBuf = 0 /\ idx_in_reused = NBufs

Return == pc = "cb" /\ pos_in_end - pos_in_start <= MaxLeft

FreeLeftover ==
    /\ Return /\ RevolvedLeftover
    /\ ring' = Append(ring, NBufs)
    /\ idx_in_reused' = 0
    /\ pc' = "idle"
    /\ UNCHANGED <<pos_in_start, pos_in_end, fill, cq, why>>

FreeClean ==
    /\ Return /\ RevolvedClean
    /\ idx_in_reused' = 0
    /\ pc' = "idle"
    /\ UNCHANGED <<pos_in_start, pos_in_end, kernel, why>>

FreePanic ==
    /\ Return /\ ~RevolvedLeftover /\ ~RevolvedClean
    /\ idx_in_reused > CurBuf
    /\ Panic("idx_in_reused > cur_buf_id")

FreeGap ==
    /\ Return /\ ~RevolvedLeftover /\ ~RevolvedClean
    /\ idx_in_reused <= CurBuf
    /\ ring' = ring \o FreedIds(idx_in_reused, CurBuf)
    /\ idx_in_reused' = CurBuf
    /\ pc' = "idle"
    /\ UNCHANGED <<pos_in_start, pos_in_end, fill, cq, why>>

-----------------------------------------------------------------------------
(* What the stream does when the callback reads nothing. *)
Stream ==
    \/ HandleRecv
    \/ HandleRecvError
    \/ HandleSentZc
    \/ Look
    \/ \E n \in 0 .. MaxLeft : ConsumeOverCapacity(n)
    \/ FreeLeftover \/ FreeClean \/ FreePanic \/ FreeGap

Next ==
    \/ \E n \in 1 .. MaxSeg : KernelRecv(n)
    \/ KernelNoBufs
    \/ \E n \in 0 .. MaxLeft : Consume(n)
    \/ Stream

Spec == Init /\ [][Next]_vars

-----------------------------------------------------------------------------
(* Type invariant; a buffer id given back to the kernel may lie outside the
   page, and that is what RingInPage is for. *)
TypeOK ==
    /\ pos_in_start \in Nat /\ pos_in_end \in Nat /\ idx_in_reused \in Nat
    /\ ring \in Seq(Nat)
    /\ fill \in 0 .. BufSize - 1
    /\ cq \in Seq(0 .. MaxSeg)
    /\ pc \in {"idle", "cb", "panic"}

(* No check of the receive path panics. *)
NoPanic == pc # "panic"

(* The assertion in try_free_buffers: no buffer is given back before the
   cursor has reached it. *)
ReuseBehindCursor == why # "idx_in_reused > cur_buf_id"

(* Every buffer given back to the kernel lies in the page. *)
RingInPage == \A i \in DOMAIN ring : ring[i] \in 0 .. NBufs - 1
=============================================================================
