--------------------------- MODULE RecvRingProofs ---------------------------
(***************************************************************************)
(* What RecvRing guarantees for every buffer size, ring length, segment    *)
(* size and backlog: its type; that the stream's walk round the page and   *)
(* the kernel's walk round the ring agree and no unread byte is given to   *)
(* the kernel; and, while the callback reads all it is shown and segments  *)
(* are shorter than half a buffer, that no check panics and no buffer is   *)
(* lost.                                                                   *)
(***************************************************************************)
EXTENDS MCRecvRing, Counting, TLAPS

-----------------------------------------------------------------------------
(* The bytes not seen yet.                                                 *)

(* They are the sum of the completions not handled. *)
LEMMA UnseenTotal == Unseen = Total(cq)
BY DEF Unseen, Total, Columns

(* How the sum changes when a completion is posted and when one is taken. *)
LEMMA TotalOfQueue ==
    ASSUME NEW m \in Nat, NEW c \in Seq(0 .. m)
    PROVE  /\ Total(c) \in Nat /\ Total(c) <= Len(c) * m /\ Len(c) \in Nat
           /\ \A n \in 0 .. m : Total(Append(c, n)) = Total(c) + n
           /\ c # <<>> => Total(c) = Head(c) + Total(Tail(c))
<1>1. Len(c) \in Nat /\ c \in [1 .. Len(c) -> 0 .. m] /\ c \in [1 .. Len(c) -> Nat]
  OBVIOUS
<1>2. Total(c) \in Nat /\ Total(c) <= Len(c) * m
  BY <1>1, TotalBound
<1>3. ASSUME NEW n \in 0 .. m PROVE Total(Append(c, n)) = Total(c) + n
  <2> DEFINE v == Append(c, n)
  <2>1. v \in [1 .. Len(c) + 1 -> Nat] /\ v[Len(c) + 1] = n /\ \A j \in 1 .. Len(c) : v[j] = c[j]
    <3>1. /\ v \in Seq(0 .. m) /\ Len(v) = Len(c) + 1 /\ v[Len(c) + 1] = n
          /\ \A j \in 1 .. Len(c) : v[j] = c[j]
      BY AppendProperties
    <3> HIDE DEF v
    <3> QED
      BY <3>1
  <2> HIDE DEF v
  <2>2. Total(v) = Total(c) + v[Len(c) + 1]
    BY <1>1, <2>1, TotalAppend
  <2> QED
    BY <2>1, <2>2 DEF v
<1>4. ASSUME c # <<>> PROVE Total(c) = Head(c) + Total(Tail(c))
  <2>1. PICK n \in Nat : Len(c) = n + 1
    <3>1. Len(c) \in Nat \ {0}
      BY <1>1, <1>4, EmptySeq
    <3>2. Len(c) - 1 \in Nat /\ Len(c) = (Len(c) - 1) + 1
      BY <3>1
    <3> QED
      BY <3>2
  <2> DEFINE v == Tail(c)
  <2>2. v \in Seq(0 .. m) /\ Len(v) = n /\ Head(c) = c[1] /\ \A j \in 1 .. n : v[j] = c[j + 1]
    <3>1. /\ v \in Seq(0 .. m) /\ Len(v) = Len(c) - 1
          /\ \A j \in 1 .. Len(v) : v[j] = c[j + 1]
      BY <1>4, HeadTailProperties
    <3> QED
      BY <2>1, <3>1
  <2>3. v \in [1 .. n -> Nat] /\ c \in [1 .. n + 1 -> Nat]
    <3> HIDE DEF v
    <3> QED
      BY <1>1, <2>1, <2>2
  <2> HIDE DEF v
  <2>4. Total(c) = c[1] + Total(v)
    BY <2>2, <2>3, TotalTail
  <2> QED
    BY <2>2, <2>4 DEF v
<1> QED
  BY <1>1, <1>2, <1>3, <1>4

-----------------------------------------------------------------------------
(* Types.                                                                  *)

TypeInv == TypeOK /\ pos_in_start <= pos_in_end

(* The page is a number of bytes, one buffer at least. *)
LEMMA CapType == Cap \in Nat \ {0} /\ Cap >= BufSize
<1>1. NBufs * BufSize >= 1 * BufSize
  BY RecvAssumption, MulMono
<1>2. NBufs * BufSize \in Nat
  BY RecvAssumption
<1> QED
  BY <1>1, <1>2, RecvAssumption DEF Cap

(* The stream starts with the right types. *)
LEMMA TypeInit == Init => TypeInv
<1> SUFFICES ASSUME Init PROVE TypeInv
  OBVIOUS
<1>1. ring \in Seq(Nat)
  <2>1. [i \in 1 .. NBufs |-> i - 1] \in [1 .. NBufs -> Nat]
    BY RecvAssumption
  <2> QED
    BY <2>1, RecvAssumption DEF Init
<1> QED
  BY <1>1, RecvAssumption DEF Init, TypeInv, TypeOK

(* Every step keeps them: the start of the input never passes its end, so that
   no subtraction of positions underflows. *)
LEMMA TypeStep == TypeInv /\ [Next]_vars => TypeInv'
<1> SUFFICES ASSUME TypeInv, [Next]_vars PROVE TypeInv'
  OBVIOUS
<1>1. TypeOK /\ pos_in_start <= pos_in_end
  BY DEF TypeInv
<1>2. Cap \in Nat \ {0}
  BY CapType
<1>3. CASE UNCHANGED vars
  BY <1>1, <1>3 DEF TypeInv, TypeOK, vars, cursor, kernel
<1>4. ASSUME NEW n \in 1 .. MaxSeg, KernelRecv(n) PROVE TypeInv'
  <2>1. n \in 0 .. MaxSeg /\ n \in Nat /\ ring \in Seq(Nat) /\ cq \in Seq(0 .. MaxSeg) /\ ring # <<>>
    BY <1>1, <1>4, RecvAssumption DEF TypeOK, KernelRecv
  <2>2. cq' \in Seq(0 .. MaxSeg)
    BY <1>4, <2>1 DEF KernelRecv
  <2>3. ring' \in Seq(Nat)
    BY <1>4, <2>1 DEF KernelRecv
  <2>4. fill' \in 0 .. BufSize - 1
    BY <1>1, <1>4, <2>1, RecvAssumption DEF KernelRecv, TypeOK
  <2> QED
    BY <1>1, <1>4, <2>2, <2>3, <2>4 DEF KernelRecv, TypeInv, TypeOK, cursor
<1>5. CASE KernelNoBufs
  <2>1. cq' \in Seq(0 .. MaxSeg)
    BY <1>1, <1>5, RecvAssumption DEF KernelNoBufs, NoBufs, TypeOK
  <2> QED
    BY <1>1, <1>5, <2>1 DEF KernelNoBufs, TypeInv, TypeOK, cursor
<1>6. CASE HandleRecv
  <2>1. cq \in Seq(0 .. MaxSeg) /\ cq # <<>> /\ cq' = Tail(cq)
    BY <1>1, <1>6 DEF HandleRecv, TypeOK
  <2>2. cq' \in Seq(0 .. MaxSeg) /\ Head(cq) \in Nat
    BY <2>1, RecvAssumption
  <2> QED
    BY <1>1, <1>6, <2>2 DEF HandleRecv, TypeInv, TypeOK
<1>7. CASE HandleRecvError \/ HandleSentZc
  BY <1>1, <1>7 DEF HandleRecvError, HandleSentZc, Panic, TypeInv, TypeOK, cursor, kernel
<1>8. CASE Look
  BY <1>1, <1>2, <1>8 DEF Look, Revolved, Revolves, TypeInv, TypeOK, kernel
<1>9. ASSUME NEW n \in 0 .. MaxLeft, Consume(n) PROVE TypeInv'
  <2>1. n \in Nat
    BY RecvAssumption
  <2>2. pos_in_start' \in Nat /\ pos_in_end' \in Nat /\ pos_in_start' <= pos_in_end'
    BY <1>1, <1>2, <1>9, <2>1 DEF Consume, Revolved, Revolves, TypeOK
  <2> QED
    BY <1>1, <1>9, <2>2 DEF Consume, TypeInv, TypeOK, kernel
<1>10. ASSUME NEW n \in 0 .. MaxLeft, ConsumeOverCapacity(n) PROVE TypeInv'
  BY <1>1, <1>10 DEF ConsumeOverCapacity, Panic, TypeInv, TypeOK, cursor, kernel
<1>11. CASE FreeLeftover
  <2>1. ring' \in Seq(Nat)
    BY <1>1, <1>11, RecvAssumption DEF FreeLeftover, TypeOK
  <2> QED
    BY <1>1, <1>11, <2>1 DEF FreeLeftover, TypeInv, TypeOK
<1>12. CASE FreeClean \/ FreePanic
  <2>1. CASE FreeClean
    BY <1>1, <2>1 DEF FreeClean, TypeInv, TypeOK, kernel
  <2>2. CASE FreePanic
    BY <1>1, <2>2 DEF FreePanic, Panic, TypeInv, TypeOK, cursor, kernel
  <2> QED
    BY <1>12, <2>1, <2>2
<1>13. CASE FreeGap
  <2>1. CurBuf \in Nat /\ idx_in_reused \in Nat /\ idx_in_reused <= CurBuf
    BY <1>1, <1>13, DivBounds, RecvAssumption DEF FreeGap, CurBuf, TypeOK
  <2>2. FreedIds(idx_in_reused, CurBuf) \in Seq(Nat)
    <3>1. CurBuf - idx_in_reused \in Nat
      BY <2>1
    <3>2. FreedIds(idx_in_reused, CurBuf) \in [1 .. CurBuf - idx_in_reused -> Nat]
      BY <2>1 DEF FreedIds
    <3> QED
      BY <3>1, <3>2
  <2>3. ring' \in Seq(Nat)
    BY <1>1, <1>13, <2>2 DEF FreeGap, TypeOK
  <2> QED
    BY <1>1, <1>13, <2>1, <2>3 DEF FreeGap, TypeInv, TypeOK
<1> QED
  BY <1>3, <1>4, <1>5, <1>6, <1>7, <1>8, <1>9, <1>10, <1>11, <1>12, <1>13
     DEF Next, Stream

(* The positions, the ring and the queue keep their types, for every segment
   size and whatever the callback leaves unread: in particular pos_in_start and
   pos_in_end, which left_bufs_mut and left_set_lens subtract from, never go
   below zero. *)
THEOREM RecvTypeCorrect == Spec => []TypeOK
<1>1. TypeInv => TypeOK
  BY DEF TypeInv
<1> QED
  BY <1>1, TypeInit, TypeStep, PTL DEF Spec

-----------------------------------------------------------------------------
(* The stream's walk round the page and the kernel's walk round the ring.
   Both are counted in buffers passed since the stream last brought its
   positions back: the kernel writes in buffer w, the cursor is in buffer c, and
   x is the next buffer to be given back.                                   *)

(* a and b are the same buffer of the page, some turns apart. *)
SameBuf(a, b) == \E m \in Int : a = b + m * NBufs

(* The ring r holds the buffers from w on, in order, and ends before the cursor
   comes round again; x is what should follow it.  When the positions have been
   brought back and x has not, x is still ahead of the ring. *)
Walk(r, w, x, c) ==
    /\ w + Len(r) <= x + NBufs
    /\ w + Len(r) <= c + NBufs
    /\ x <= c \/ w + Len(r) <= x
    /\ SameBuf(w + Len(r), x)
    /\ \A i \in 1 .. Len(r) : r[i] < NBufs => SameBuf(w + i - 1, r[i])

(* The place of the next byte the kernel writes. *)
Written == pos_in_end + Unseen

WalkInv ==
    /\ TypeInv
    /\ \E w \in Nat : /\ Written = w * BufSize + fill
                      /\ Walk(ring, w, idx_in_reused, CurBuf)

(* The cursor moves on. *)
LEMMA WalkMoves ==
    ASSUME NEW r \in Seq(Nat), NEW w \in Nat, NEW x \in Nat, NEW c \in Nat,
           NEW d \in Nat, c <= d, Walk(r, w, x, c)
    PROVE  Walk(r, w, x, d)
<1>1. Len(r) \in Nat /\ NBufs \in Nat
  BY RecvAssumption
<1> QED
  BY <1>1 DEF Walk

(* All positions are brought back by one turn. *)
LEMMA WalkTurns ==
    ASSUME NEW r \in Seq(Nat), NEW w \in Nat, NEW x \in Nat, NEW c \in Nat,
           NEW v \in Nat, w = v + NBufs, NEW d \in Nat, c <= d + NBufs, Walk(r, w, x, c)
    PROVE  Walk(r, v, x, d)
<1>1. Len(r) \in Nat /\ NBufs \in Nat
  BY RecvAssumption
<1>2. ASSUME NEW a \in Int, NEW b \in Int, SameBuf(a + NBufs, b) PROVE SameBuf(a, b)
  <2>1. PICK m \in Int : a + NBufs = b + m * NBufs
    BY <1>2 DEF SameBuf
  <2>2. m - 1 \in Int /\ a = b + (m - 1) * NBufs
    BY <1>1, <2>1
  <2> QED
    BY <2>2 DEF SameBuf
<1>3. SameBuf(v + Len(r), x)
  <2>1. w + Len(r) = (v + Len(r)) + NBufs /\ v + Len(r) \in Int /\ x \in Int
    BY <1>1
  <2> QED
    BY <1>2, <2>1 DEF Walk
<1>4. ASSUME NEW i \in 1 .. Len(r), r[i] < NBufs PROVE SameBuf(v + i - 1, r[i])
  <2>1. w + i - 1 = (v + i - 1) + NBufs /\ v + i - 1 \in Int /\ r[i] \in Int
    BY <1>1
  <2>2. SameBuf(w + i - 1, r[i])
    BY <1>4 DEF Walk
  <2> QED
    BY <1>2, <2>1, <2>2
<1>5. /\ v + Len(r) <= x + NBufs /\ v + Len(r) <= d + NBufs /\ v + Len(r) <= x
  BY <1>1 DEF Walk
<1> QED
  BY <1>3, <1>4, <1>5 DEF Walk

(* The kernel is done with a buffer. *)
LEMMA WalkTakes ==
    ASSUME NEW r \in Seq(Nat), NEW w \in Nat, NEW x \in Nat, NEW c \in Nat,
           r # <<>>, Walk(r, w, x, c)
    PROVE  Walk(Tail(r), w + 1, x, c)
<1> DEFINE t == Tail(r)
<1>1. /\ t \in Seq(Nat) /\ Len(t) = Len(r) - 1 /\ Len(r) \in Nat \ {0}
      /\ \A i \in 1 .. Len(t) : t[i] = r[i + 1]
  BY HeadTailProperties, EmptySeq
<1> HIDE DEF t
<1>2. NBufs \in Nat /\ (w + 1) + Len(t) = w + Len(r)
  BY <1>1, RecvAssumption
<1>3. ASSUME NEW i \in 1 .. Len(t), t[i] < NBufs PROVE SameBuf((w + 1) + i - 1, t[i])
  <2>1. i + 1 \in 1 .. Len(r) /\ t[i] = r[i + 1] /\ (w + 1) + i - 1 = w + (i + 1) - 1
    BY <1>1
  <2>2. SameBuf(w + (i + 1) - 1, r[i + 1])
    BY <1>3, <2>1 DEF Walk
  <2> QED
    BY <2>1, <2>2
<1>4. Walk(t, w + 1, x, c)
  BY <1>2, <1>3 DEF Walk
<1> QED
  BY <1>4 DEF t

(* Buffers the cursor has passed are given back. *)
LEMMA WalkGives ==
    ASSUME NEW r \in Seq(Nat), NEW w \in Nat, NEW x \in Nat, NEW c \in Nat,
           x <= c, Walk(r, w, x, c)
    PROVE  Walk(r \o FreedIds(x, c), w, c, c)
<1> DEFINE f == FreedIds(x, c)
           t == r \o f
<1>1. f \in Seq(Nat) /\ Len(f) = c - x /\ \A i \in 1 .. c - x : f[i] = x + i - 1
  <2>1. c - x \in Nat /\ f = [i \in 1 .. c - x |-> x + i - 1]
    BY DEF FreedIds
  <2>2. f \in [1 .. c - x -> Nat]
    BY <2>1
  <2> QED
    BY <2>1, <2>2
<1> HIDE DEF f
<1>2. Len(r) \in Nat /\ Len(t) = Len(r) + (c - x) /\ Len(t) \in Nat
  <2>1. Len(t) = Len(r) + Len(f)
    BY <1>1, ConcatProperties
  <2> HIDE DEF t
  <2> QED
    BY <1>1, <2>1
<1>3. \A i \in 1 .. Len(r) + (c - x) : t[i] = IF i <= Len(r) THEN r[i] ELSE f[i - Len(r)]
  <2>1. \A i \in 1 .. Len(r) + Len(f) : t[i] = IF i <= Len(r) THEN r[i] ELSE f[i - Len(r)]
    BY <1>1, ConcatProperties, Zenon
  <2> QED
    BY <1>1, <2>1, Zenon
<1> HIDE DEF t
<1>4. PICK m \in Int : w + Len(r) = x + m * NBufs
  BY DEF Walk, SameBuf
<1> DEFINE k == m * NBufs
<1>5. NBufs \in Nat /\ k \in Int /\ w + Len(r) = x + k
  BY <1>4, RecvAssumption
<1>6. SameBuf(w + Len(t), c)
  <2>1. w + Len(t) = c + k
    <3> HIDE DEF k
    <3> QED
      BY <1>2, <1>5
  <2> QED
    BY <2>1 DEF SameBuf
<1>7. ASSUME NEW i \in 1 .. Len(t), t[i] < NBufs PROVE SameBuf(w + i - 1, t[i])
  <2>1. CASE i <= Len(r)
    <3>1. i \in 1 .. Len(r) /\ t[i] = r[i]
      BY <1>2, <1>3, <2>1
    <3> QED
      BY <1>7, <3>1 DEF Walk
  <2>2. CASE i > Len(r)
    <3>1. i - Len(r) \in 1 .. c - x /\ t[i] = f[i - Len(r)]
      BY <1>2, <1>3, <2>2
    <3>2. t[i] = x + (i - Len(r)) - 1
      BY <1>1, <3>1
    <3>3. w + i - 1 = t[i] + k
      <4> HIDE DEF k
      <4> QED
        BY <1>2, <1>5, <3>2, SMTT(60)
    <3> QED
      BY <3>3 DEF SameBuf
  <2> QED
    BY <1>2, <2>1, <2>2
<1>8. w + Len(t) <= c + NBufs /\ c <= c
  <2> HIDE DEF k
  <2> QED
    BY <1>2, <1>5 DEF Walk
<1>9. Walk(t, w, c, c)
  BY <1>6, <1>7, <1>8 DEF Walk
<1> QED
  BY <1>9 DEF t, f

(* Round the end of the page: the buffer given back is one outside it, but it
   counts for the last one. *)
LEMMA WalkLeftover ==
    ASSUME NBufs >= 2, NEW r \in Seq(Nat), NEW w \in Nat, Walk(r, w, NBufs - 1, 0)
    PROVE  Walk(Append(r, NBufs), w, 0, 0)
<1> DEFINE t == Append(r, NBufs)
<1>1. NBufs \in Nat
  BY RecvAssumption
<1>2. /\ Len(r) \in Nat /\ Len(t) = Len(r) + 1 /\ t[Len(r) + 1] = NBufs
      /\ \A i \in 1 .. Len(r) : t[i] = r[i]
  BY <1>1, AppendProperties
<1> HIDE DEF t
<1>3. PICK m \in Int : w + Len(r) = NBufs - 1 + m * NBufs
  BY DEF Walk, SameBuf
<1>4. SameBuf(w + Len(t), 0)
  <2>1. m + 1 \in Int /\ w + Len(t) = 0 + (m + 1) * NBufs
    BY <1>1, <1>2, <1>3
  <2> QED
    BY <2>1 DEF SameBuf
<1>5. ASSUME NEW i \in 1 .. Len(t), t[i] < NBufs PROVE SameBuf(w + i - 1, t[i])
  <2>1. i \in 1 .. Len(r)
    BY <1>1, <1>2, <1>5
  <2> QED
    BY <1>2, <1>5, <2>1 DEF Walk
<1>6. w + Len(t) <= 0 + NBufs
  BY <1>1, <1>2 DEF Walk
<1>7. Walk(t, w, 0, 0)
  BY <1>4, <1>5, <1>6 DEF Walk
<1> QED
  BY <1>7 DEF t

(* Round the end of the page with nothing left to give back. *)
LEMMA WalkClean ==
    ASSUME NEW r \in Seq(Nat), NEW w \in Nat, Walk(r, w, NBufs, 0)
    PROVE  Walk(r, w, 0, 0)
<1>1. NBufs \in Nat /\ Len(r) \in Nat
  BY RecvAssumption
<1>2. PICK m \in Int : w + Len(r) = NBufs + m * NBufs
  BY DEF Walk, SameBuf
<1>3. m + 1 \in Int /\ w + Len(r) = 0 + (m + 1) * NBufs
  BY <1>1, <1>2
<1>4. SameBuf(w + Len(r), 0)
  BY <1>3 DEF SameBuf
<1> QED
  BY <1>1, <1>4 DEF Walk

(* A position moves back by no more than j buffers. *)
LEMMA CursorMoves ==
    ASSUME NEW p \in Nat, NEW q \in Nat, NEW j \in Nat, p <= q + j * BufSize
    PROVE  /\ p \div BufSize \in Nat /\ q \div BufSize \in Nat
           /\ p \div BufSize <= (q \div BufSize) + j
<1> DEFINE a == p \div BufSize
           b == q \div BufSize
<1>1. BufSize \in Nat \ {0}
  BY RecvAssumption
<1>2. a \in Nat /\ b \in Nat /\ a * BufSize <= p /\ q < b * BufSize + BufSize
  BY <1>1, DivBounds
<1> HIDE DEF a, b
<1>3. a * BufSize < (b + j + 1) * BufSize
  <2>1. (b + j + 1) * BufSize = b * BufSize + j * BufSize + BufSize
    BY <1>1, <1>2
  <2>2. a * BufSize \in Int /\ b * BufSize \in Int /\ j * BufSize \in Int
    BY <1>1, <1>2
  <2> QED
    BY <1>1, <1>2, <2>1, <2>2
<1>4. a < b + j + 1
  BY <1>1, <1>2, <1>3, MulCancel
<1>5. a <= b + j
  BY <1>2, <1>4
<1> QED
  BY <1>2, <1>5 DEF a, b

(* The whole ring is the kernel's, from the first byte on. *)
LEMMA WalkInit == Init => WalkInv
<1> SUFFICES ASSUME Init PROVE WalkInv
  OBVIOUS
<1>1. TypeInv
  BY TypeInit
<1>2. Written = 0 * BufSize + fill
  <2>1. <<>> \in Seq(0 .. MaxSeg) /\ Len(<<>>) = 0 /\ MaxSeg \in Nat /\ 0 * MaxSeg = 0
    BY RecvAssumption
  <2>2. Total(<<>>) \in Nat /\ Total(<<>>) <= Len(<<>>) * MaxSeg
    BY <2>1, TotalOfQueue
  <2>3. Unseen = 0
    BY <2>1, <2>2, UnseenTotal DEF Init
  <2> QED
    BY <2>3, RecvAssumption DEF Init, Written
<1>3. CurBuf = 0
  <2>1. CurBuf = (0 * BufSize + 0) \div BufSize /\ 0 \in 0 .. BufSize - 1
    BY RecvAssumption DEF Init, CurBuf
  <2>2. (0 * BufSize + 0) \div BufSize = 0
    BY <2>1, RecvAssumption, DivUnique
  <2> QED
    BY <2>1, <2>2
<1>4. Len(ring) = NBufs /\ idx_in_reused = 0 /\ \A i \in 1 .. NBufs : ring[i] = i - 1
  BY RecvAssumption DEF Init
<1>5. SameBuf(0 + Len(ring), 0)
  <2>1. 0 + Len(ring) = 0 + 1 * NBufs
    BY <1>4, RecvAssumption
  <2> QED
    BY <2>1 DEF SameBuf
<1>6. ASSUME NEW i \in 1 .. Len(ring) PROVE SameBuf(0 + i - 1, ring[i])
  <2>1. 0 + i - 1 = ring[i] + 0 * NBufs
    BY <1>4, RecvAssumption
  <2> QED
    BY <2>1 DEF SameBuf
<1>7. Walk(ring, 0, idx_in_reused, CurBuf)
  BY <1>3, <1>4, <1>5, <1>6, RecvAssumption DEF Walk
<1> QED
  BY <1>1, <1>2, <1>7 DEF WalkInv

(* What the steps of the kernel and of cb_recv_multi do to the place of the next
   byte. *)
LEMMA WrittenMoves ==
    ASSUME TypeInv
    PROVE  /\ Written \in Nat /\ Unseen \in Nat /\ Written = pos_in_end + Unseen
           /\ \A n \in 1 .. MaxSeg : KernelRecv(n) => Written' = Written + n
           /\ KernelNoBufs => Written' = Written
           /\ HandleRecv => Written' = Written
<1>1. cq \in Seq(0 .. MaxSeg) /\ pos_in_end \in Nat /\ MaxSeg \in Nat
  BY RecvAssumption DEF TypeInv, TypeOK
<1>2. /\ Unseen = Total(cq) /\ Unseen' = Total(cq')
      /\ Written = pos_in_end + Total(cq) /\ Written' = pos_in_end' + Total(cq')
  <2>1. Unseen = Total(cq) /\ Unseen' = Total(cq')
    BY DEF Unseen, Total, Columns
  <2> QED
    BY <2>1 DEF Written
<1>3. /\ Total(cq) \in Nat
      /\ \A n \in 0 .. MaxSeg : Total(Append(cq, n)) = Total(cq) + n
      /\ cq # <<>> => Total(cq) = Head(cq) + Total(Tail(cq))
  BY <1>1, TotalOfQueue
<1>4. ASSUME NEW n \in 1 .. MaxSeg, KernelRecv(n) PROVE Written' = Written + n
  <2>1. cq' = Append(cq, n) /\ pos_in_end' = pos_in_end /\ n \in 0 .. MaxSeg
    BY <1>1, <1>4 DEF KernelRecv, cursor
  <2>2. Total(cq') = Total(cq) + n
    BY <1>3, <2>1
  <2> QED
    BY <1>1, <1>2, <1>3, <2>1, <2>2
<1>5. ASSUME KernelNoBufs PROVE Written' = Written
  <2>1. cq' = Append(cq, 0) /\ pos_in_end' = pos_in_end /\ 0 \in 0 .. MaxSeg
    BY <1>1, <1>5 DEF KernelNoBufs, NoBufs, cursor
  <2>2. Total(cq') = Total(cq) + 0
    BY <1>3, <2>1
  <2> QED
    BY <1>1, <1>2, <1>3, <2>1, <2>2
<1>6. ASSUME HandleRecv PROVE Written' = Written
  <2>1. cq' = Tail(cq) /\ cq # <<>> /\ pos_in_end' = pos_in_end + Head(cq)
    BY <1>6 DEF HandleRecv
  <2>2. Tail(cq) \in Seq(0 .. MaxSeg) /\ Head(cq) \in Nat
    BY <1>1, <2>1
  <2>3. Total(Tail(cq)) \in Nat
    BY <1>1, <2>2, TotalOfQueue
  <2>4. Written = pos_in_end + Total(cq) /\ Written' = pos_in_end' + Total(Tail(cq))
    BY <1>2, <2>1
  <2>5. Total(cq) = Head(cq) + Total(Tail(cq)) /\ pos_in_end' = pos_in_end + Head(cq)
    BY <1>3, <2>1
  <2> HIDE DEF Written
  <2> QED
    BY <1>1, <2>2, <2>3, <2>4, <2>5
<1>7. Written \in Nat /\ Unseen \in Nat /\ Written = pos_in_end + Unseen
  BY <1>1, <1>2, <1>3
<1> QED
  BY <1>4, <1>5, <1>6, <1>7

(* A pass over the input, which may bring the positions back. *)
LEMMA PassMoves ==
    ASSUME TypeInv, TypeInv', Look \/ \E n \in 0 .. MaxLeft : Consume(n)
    PROVE  /\ UNCHANGED <<idx_in_reused, ring, fill, cq, why>> /\ pc = "cb" /\ pc' = "cb"
           /\ Unseen' = Unseen /\ Written' \in Nat
           /\ \/ /\ ~Revolves /\ Written' = Written /\ pos_in_start <= pos_in_start'
              \/ /\ Revolves /\ Written' = Written - Cap
                 /\ pos_in_start - Cap <= pos_in_start'
<1>1. /\ pos_in_start \in Nat /\ pos_in_end \in Nat /\ pos_in_start <= pos_in_end
      /\ Cap \in Nat
  BY CapType DEF TypeInv, TypeOK
<1>2. /\ UNCHANGED <<idx_in_reused, ring, fill, cq, why>> /\ pc = "cb" /\ pc' = "cb"
      /\ pos_in_end' = Revolved(pos_in_end)
  BY DEF Look, Consume, kernel
<1>3. Unseen' = Unseen /\ Unseen \in Nat
  BY <1>2, WrittenMoves DEF Unseen
<1>4. Revolved(pos_in_start) <= pos_in_start'
  <2>1. CASE Look
    BY <1>1, <2>1 DEF Look, Revolved
  <2>2. ASSUME NEW n \in 0 .. MaxLeft, Consume(n) PROVE Revolved(pos_in_start) <= pos_in_start'
    <3>1. n \in Nat
      BY RecvAssumption
    <3> QED
      BY <1>1, <2>2, <3>1 DEF Consume, Revolved
  <2> QED
    BY <2>1, <2>2
<1>5. Written' \in Nat
  <2>1. PICK e \in Nat : e = pos_in_end'
    BY DEF TypeInv, TypeOK
  <2>2. PICK u \in Nat : u = Unseen'
    BY <1>3
  <2>3. Written' = e + u
    BY <2>1, <2>2 DEF Written
  <2>4. e + u \in Nat
    OBVIOUS
  <2> QED
    BY <2>3, <2>4
<1>6. CASE Revolves
  <2>1. Written' = Written - Cap
    BY <1>1, <1>2, <1>3, <1>6 DEF Written, Revolved
  <2>2. pos_in_start - Cap <= pos_in_start'
    BY <1>4, <1>6 DEF Revolved
  <2> QED
    BY <1>2, <1>3, <1>5, <1>6, <2>1, <2>2
<1>7. CASE ~Revolves
  <2>1. Written' = Written
    BY <1>1, <1>2, <1>3, <1>7 DEF Written, Revolved
  <2>2. pos_in_start <= pos_in_start'
    BY <1>1, <1>4, <1>7 DEF Revolved
  <2> QED
    BY <1>2, <1>3, <1>5, <1>7, <2>1, <2>2
<1> QED
  BY <1>6, <1>7

(* Every step keeps the two walks together. *)
LEMMA WalkStep ==
    ASSUME NBufs >= 2
    PROVE  WalkInv /\ [Next]_vars => WalkInv'
<1> SUFFICES ASSUME WalkInv, [Next]_vars PROVE WalkInv'
  OBVIOUS
<1>1. TypeInv /\ TypeInv'
  BY TypeStep DEF WalkInv
<1>2. PICK w \in Nat : /\ Written = w * BufSize + fill
                       /\ Walk(ring, w, idx_in_reused, CurBuf)
  BY DEF WalkInv
<1>3. /\ pos_in_start \in Nat /\ pos_in_start' \in Nat /\ idx_in_reused \in Nat
      /\ ring \in Seq(Nat) /\ fill \in 0 .. BufSize - 1 /\ BufSize \in Nat \ {0} /\ NBufs \in Nat
      /\ fill' \in 0 .. BufSize - 1
  BY <1>1, RecvAssumption DEF TypeInv, TypeOK
<1>4. CurBuf \in Nat /\ Written \in Nat /\ w * BufSize \in Nat
  <2>1. CurBuf \in Nat
    BY <1>3, DivBounds DEF CurBuf
  <2>2. Written \in Nat
    BY <1>1, WrittenMoves
  <2> QED
    BY <1>3, <2>1, <2>2
<1>5. CASE UNCHANGED <<pos_in_start, idx_in_reused, ring, fill>> /\ Written' = Written
  <2>1. CurBuf' = CurBuf
    BY <1>5 DEF CurBuf
  <2>2. Written' = w * BufSize + fill' /\ Walk(ring', w, idx_in_reused', CurBuf')
    BY <1>2, <1>5, <2>1
  <2> QED
    BY <1>1, <2>2 DEF WalkInv
<1>6. ASSUME NEW n \in 1 .. MaxSeg, KernelRecv(n) PROVE WalkInv'
  <2>1. /\ UNCHANGED <<pos_in_start, idx_in_reused>> /\ ring # <<>> /\ n \in Nat
        /\ Written' = Written + n /\ CurBuf' = CurBuf
    BY <1>1, <1>6, WrittenMoves DEF KernelRecv, cursor, CurBuf
  <2>2. CASE fill + n = BufSize
    <3>1. ring' = Tail(ring) /\ fill' = 0
      BY <1>6, <2>2 DEF KernelRecv
    <3>2. w + 1 \in Nat /\ Written' = (w + 1) * BufSize + fill'
      <4>1. (w + 1) * BufSize = w * BufSize + BufSize
        BY <1>3
      <4> QED
        BY <1>2, <1>3, <1>4, <2>1, <2>2, <3>1, <4>1
    <3>3. Walk(Tail(ring), w + 1, idx_in_reused, CurBuf)
      BY <1>2, <1>3, <1>4, <2>1, WalkTakes
    <3>4. Walk(ring', w + 1, idx_in_reused', CurBuf')
      BY <2>1, <3>1, <3>3
    <3> QED
      BY <1>1, <3>2, <3>4 DEF WalkInv
  <2>3. CASE fill + n # BufSize
    <3>1. ring' = ring /\ fill' = fill + n
      BY <1>6, <2>3 DEF KernelRecv
    <3>2. Written' = w * BufSize + fill'
      BY <1>2, <1>3, <1>4, <2>1, <3>1
    <3>3. Walk(ring', w, idx_in_reused', CurBuf')
      BY <1>2, <2>1, <3>1
    <3> QED
      BY <1>1, <3>2, <3>3 DEF WalkInv
  <2> QED
    BY <2>2, <2>3
<1>7. CASE Look \/ \E n \in 0 .. MaxLeft : Consume(n)
  <2>1. /\ UNCHANGED <<idx_in_reused, ring, fill>>
        /\ \/ Written' = Written /\ pos_in_start <= pos_in_start'
           \/ Written' = Written - Cap /\ pos_in_start - Cap <= pos_in_start'
        /\ Written' \in Nat
    BY <1>1, <1>7, PassMoves
  <2>0. PICK q \in Nat : q = pos_in_start'
    BY <1>3
  <2>9. pos_in_start \in Nat /\ BufSize \in Nat \ {0} /\ NBufs \in Nat
    BY <1>3
  <2>2. CASE Written' = Written /\ pos_in_start <= pos_in_start'
    <3>0. pos_in_start <= q
      BY <2>0, <2>2
    <3>1. pos_in_start <= q + 0 * BufSize
      BY <2>9, <3>0
    <3>2. CurBuf' \in Nat /\ CurBuf <= CurBuf'
      <4>1. q \div BufSize \in Nat /\ pos_in_start \div BufSize <= (q \div BufSize) + 0
        BY <1>3, <3>1, CursorMoves
      <4> QED
        BY <1>4, <2>0, <4>1 DEF CurBuf
    <3>3. Walk(ring, w, idx_in_reused, CurBuf')
      BY <1>2, <1>3, <1>4, <3>2, WalkMoves
    <3>4. Written' = w * BufSize + fill' /\ Walk(ring', w, idx_in_reused', CurBuf')
      BY <1>2, <2>1, <2>2, <3>3
    <3> QED
      BY <1>1, <3>4 DEF WalkInv
  <2>3. CASE Written' = Written - Cap /\ pos_in_start - Cap <= pos_in_start'
    <3>0. PICK d \in Nat : d = CurBuf' /\ CurBuf <= d + NBufs
      <4>0. pos_in_start - NBufs * BufSize <= q
        BY <2>0, <2>3 DEF Cap
      <4>1. pos_in_start <= q + NBufs * BufSize
        BY <2>9, <4>0
      <4>2. q \div BufSize \in Nat /\ pos_in_start \div BufSize <= (q \div BufSize) + NBufs
        BY <1>3, <4>1, CursorMoves
      <4> QED
        BY <2>0, <4>2 DEF CurBuf
    <3>2. w >= NBufs
      <4>2. NBufs * BufSize < (w + 1) * BufSize
        <5>1. (w + 1) * BufSize = w * BufSize + BufSize /\ NBufs * BufSize \in Nat
          BY <1>3
        <5> QED
          BY <1>2, <1>3, <1>4, <2>1, <2>3, <5>1 DEF Cap
      <4>3. NBufs < w + 1
        BY <1>3, <4>2, MulCancel
      <4> QED
        BY <1>3, <4>3
    <3>3. PICK v \in Nat : w = v + NBufs
      <4>1. w - NBufs \in Nat /\ w = (w - NBufs) + NBufs
        BY <1>3, <3>2
      <4> QED
        BY <4>1
    <3>4. Written' = v * BufSize + fill'
      <4>1. w * BufSize = v * BufSize + NBufs * BufSize /\ NBufs * BufSize \in Nat
            /\ v * BufSize \in Nat
        BY <1>3, <3>3
      <4> QED
        BY <1>2, <1>3, <1>4, <2>1, <2>3, <4>1 DEF Cap
    <3>5. Walk(ring, v, idx_in_reused, d)
      BY <1>2, <1>3, <1>4, <3>0, <3>3, WalkTurns
    <3>6. Walk(ring', v, idx_in_reused', CurBuf')
      BY <2>1, <3>0, <3>5
    <3> QED
      BY <1>1, <3>4, <3>6 DEF WalkInv
  <2> QED
    BY <2>1, <2>2, <2>3
<1>8. CASE FreeLeftover \/ FreeClean \/ FreeGap
  <2>1. /\ Written' = Written /\ CurBuf' = CurBuf /\ fill' = fill
        /\ Written' = w * BufSize + fill'
    BY <1>2, <1>8 DEF FreeLeftover, FreeClean, FreeGap, Written, Unseen, CurBuf, kernel
  <2>2. CASE FreeLeftover
    <3>1. /\ CurBuf = 0 /\ idx_in_reused = NBufs - 1 /\ idx_in_reused' = 0
          /\ ring' = Append(ring, NBufs)
      BY <2>2 DEF FreeLeftover, RevolvedLeftover
    <3>2. Walk(ring, w, NBufs - 1, 0)
      BY <1>2, <3>1
    <3>3. Walk(Append(ring, NBufs), w, 0, 0)
      BY <1>3, <3>2, WalkLeftover
    <3>4. Walk(ring', w, idx_in_reused', CurBuf')
      BY <2>1, <3>1, <3>3
    <3> QED
      BY <1>1, <2>1, <3>4 DEF WalkInv
  <2>3. CASE FreeClean
    <3>1. CurBuf = 0 /\ idx_in_reused = NBufs /\ idx_in_reused' = 0 /\ ring' = ring
      BY <2>3 DEF FreeClean, RevolvedClean, kernel
    <3>2. Walk(ring, w, NBufs, 0)
      BY <1>2, <3>1
    <3>3. Walk(ring, w, 0, 0)
      BY <1>3, <3>2, WalkClean
    <3>4. Walk(ring', w, idx_in_reused', CurBuf')
      BY <2>1, <3>1, <3>3
    <3> QED
      BY <1>1, <2>1, <3>4 DEF WalkInv
  <2>4. CASE FreeGap
    <3>1. /\ idx_in_reused <= CurBuf /\ idx_in_reused' = CurBuf
          /\ ring' = ring \o FreedIds(idx_in_reused, CurBuf)
      BY <2>4 DEF FreeGap
    <3>2. Walk(ring \o FreedIds(idx_in_reused, CurBuf), w, CurBuf, CurBuf)
      BY <1>2, <1>3, <1>4, <3>1, WalkGives
    <3>3. Walk(ring', w, idx_in_reused', CurBuf')
      BY <2>1, <3>1, <3>2
    <3> QED
      BY <1>1, <2>1, <3>3 DEF WalkInv
  <2> QED
    BY <1>8, <2>2, <2>3, <2>4
<1>9. CASE KernelNoBufs \/ HandleRecv
  <2>1. UNCHANGED <<pos_in_start, idx_in_reused, ring, fill>> /\ Written' = Written
    BY <1>1, <1>9, WrittenMoves DEF KernelNoBufs, HandleRecv, cursor
  <2> QED
    BY <1>5, <2>1
<1>10. ASSUME UNCHANGED <<cursor, kernel>> PROVE WalkInv'
  <2>1. UNCHANGED <<pos_in_start, idx_in_reused, ring, fill>> /\ Written' = Written
    BY <1>10 DEF cursor, kernel, Written, Unseen
  <2> QED
    BY <1>5, <2>1
<1>11. CASE \/ HandleRecvError \/ HandleSentZc \/ FreePanic \/ UNCHANGED vars
            \/ \E n \in 0 .. MaxLeft : ConsumeOverCapacity(n)
  <2>1. UNCHANGED <<cursor, kernel>>
    BY <1>11 DEF HandleRecvError, HandleSentZc, FreePanic, ConsumeOverCapacity, Panic, vars
  <2> QED
    BY <1>10, <2>1
<1> QED
  BY <1>6, <1>7, <1>8, <1>9, <1>11 DEF Next, Stream

(* A place some turns of the page further on is the same byte of the page. *)
LEMMA SameByte ==
    ASSUME NEW v \in Nat, NEW b \in 0 .. NBufs - 1, SameBuf(v, b), NEW k \in 0 .. BufSize - 1
    PROVE  \E m \in Nat : /\ v * BufSize + k = m * Cap + (b * BufSize + k)
                          /\ b * BufSize + k \in 0 .. Cap - 1
                          /\ (v * BufSize + k) % Cap = b * BufSize + k
<1>1. BufSize \in Nat \ {0} /\ NBufs \in Nat \ {0} /\ Cap \in Nat \ {0} /\ Cap = NBufs * BufSize
  BY RecvAssumption, CapType DEF Cap
<1>2. PICK m \in Int : v = b + m * NBufs
  BY DEF SameBuf
<1>3. m \in Nat
  <2>1. (0 - 1) * NBufs < m * NBufs
    BY <1>1, <1>2
  <2>2. 0 - 1 < m
    BY <1>1, <2>1, MulCancel
  <2> QED
    BY <2>2
<1>4. v * BufSize = b * BufSize + m * Cap
  BY <1>1, <1>2
<1>5. b * BufSize + k \in 0 .. Cap - 1
  <2>1. (b + 1) * BufSize <= NBufs * BufSize
    BY <1>1, MulMono
  <2>2. (b + 1) * BufSize = b * BufSize + BufSize /\ b * BufSize \in Nat
    BY <1>1
  <2> QED
    BY <1>1, <2>1, <2>2
<1>6. v * BufSize + k = m * Cap + (b * BufSize + k)
  <2>1. b * BufSize \in Int /\ m * Cap \in Int
    BY <1>1
  <2> QED
    BY <1>4, <2>1
<1>7. (m * Cap + (b * BufSize + k)) % Cap = b * BufSize + k
  <2> DEFINE r == b * BufSize + k
  <2>1. r \in 0 .. Cap - 1
    BY <1>5
  <2> HIDE DEF r
  <2>2. (m * Cap + r) % Cap = r
    BY <1>1, <1>3, <2>1, DivUnique, SMTT(60)
  <2> QED
    BY <2>2 DEF r
<1>8. (v * BufSize + k) % Cap = b * BufSize + k
  BY <1>6, <1>7
<1> QED
  BY <1>3, <1>5, <1>6, <1>8

(* While the two walks are together, the stream and the kernel agree. *)
LEMMA WalkKeeps == WalkInv => KeptInPage
<1> SUFFICES ASSUME WalkInv, RingInPage PROVE UnreadKept /\ ViewAgrees
  BY DEF KeptInPage
<1>1. PICK w \in Nat : /\ Written = w * BufSize + fill
                       /\ Walk(ring, w, idx_in_reused, CurBuf)
  BY DEF WalkInv
<1>2. /\ pos_in_start \in Nat /\ ring \in Seq(Nat) /\ fill \in 0 .. BufSize - 1
      /\ BufSize \in Nat \ {0} /\ NBufs \in Nat \ {0} /\ Cap \in Nat \ {0}
      /\ Cap = NBufs * BufSize /\ Len(ring) \in Nat /\ DOMAIN ring = 1 .. Len(ring)
  BY RecvAssumption, CapType DEF WalkInv, TypeInv, TypeOK, Cap
<1>3. Written \in Nat /\ pos_in_end \in Nat /\ Unseen \in Nat /\ Written = pos_in_end + Unseen
  BY WrittenMoves DEF WalkInv, TypeInv, TypeOK
<1>4. CurBuf \in Nat /\ CurBuf * BufSize <= pos_in_start
  BY <1>2, DivBounds DEF CurBuf
<1>5. ASSUME NEW i \in 1 .. Len(ring)
      PROVE  ring[i] \in 0 .. NBufs - 1 /\ w + i - 1 \in Nat /\ SameBuf(w + i - 1, ring[i])
  <2>1. ring[i] \in 0 .. NBufs - 1
    BY <1>2, <1>5 DEF RingInPage
  <2> QED
    BY <1>1, <1>2, <2>1 DEF Walk
<1>6. ViewAgrees
  <2> SUFFICES ASSUME ring # <<>>
               PROVE  Head(ring) * BufSize + fill = (pos_in_end + Unseen) % Cap
    BY DEF ViewAgrees
  <2>1. Head(ring) = ring[1] /\ 1 \in 1 .. Len(ring) /\ w + 1 - 1 = w
    BY <1>2, EmptySeq
  <2>2. ring[1] \in 0 .. NBufs - 1 /\ SameBuf(w, ring[1])
    BY <1>5, <2>1
  <2>3. (w * BufSize + fill) % Cap = ring[1] * BufSize + fill
    BY <1>2, <2>2, SameByte
  <2> QED
    BY <1>1, <1>3, <2>1, <2>3
<1>7. UnreadKept
  <2> SUFFICES ASSUME NEW z, z \in Unread, z \in Writable PROVE FALSE
    BY DEF UnreadKept
  <2>1. PICK p \in pos_in_start .. Written - 1 : z = p % Cap
    <3>1. PICK p \in pos_in_start .. pos_in_end + Unseen - 1 : z = p % Cap
      BY Zenon DEF Unread
    <3>2. pos_in_end + Unseen - 1 = Written - 1
      BY <1>3
    <3> QED
      BY <3>1, <3>2, Zenon
  <2>2. PICK i \in 1 .. Len(ring) :
           \E k \in (IF i = 1 THEN fill ELSE 0) .. BufSize - 1 : z = ring[i] * BufSize + k
    BY <1>2 DEF Writable
  <2>3. PICK k \in (IF i = 1 THEN fill ELSE 0) .. BufSize - 1 : z = ring[i] * BufSize + k
    BY <2>2
  <2>4. k \in 0 .. BufSize - 1 /\ (i = 1 => fill <= k)
    BY <1>2
  <2> DEFINE q == (w + i - 1) * BufSize + k
  <2>5. PICK m \in Nat : q = m * Cap + z
    <3>1. \E m \in Nat : (w + i - 1) * BufSize + k = m * Cap + (ring[i] * BufSize + k)
      BY <1>5, <2>4, SameByte
    <3> QED
      BY <2>3, <3>1
  <2>6. q \in Int /\ Written <= q
    <3>1. CASE i = 1
      <4>1. w + i - 1 = w
        BY <3>1
      <4> QED
        BY <1>1, <1>2, <2>4, <3>1, <4>1
    <3>2. CASE i # 1
      <4>1. (w + 1) * BufSize <= (w + i - 1) * BufSize
        BY <1>2, <3>2, MulMono
      <4>2. (w + 1) * BufSize = w * BufSize + BufSize /\ w * BufSize \in Int
            /\ (w + i - 1) * BufSize \in Int
        BY <1>2
      <4> QED
        BY <1>1, <1>2, <2>4, <4>1, <4>2
    <3> QED
      BY <3>1, <3>2
  <2>7. q < pos_in_start + Cap
    <3>1. w + Len(ring) <= CurBuf + NBufs
      BY <1>1 DEF Walk
    <3>2. (w + i - 1 + 1) * BufSize <= (CurBuf + NBufs) * BufSize
      BY <1>2, <1>4, <3>1, MulMono
    <3>3. /\ (w + i - 1 + 1) * BufSize = (w + i - 1) * BufSize + BufSize
          /\ (CurBuf + NBufs) * BufSize = CurBuf * BufSize + Cap
          /\ (w + i - 1) * BufSize \in Int /\ CurBuf * BufSize \in Int
      BY <1>2, <1>4
    <3> QED
      BY <1>2, <1>4, <2>4, <3>2, <3>3
  <2>8. PICK a \in Nat : p = a * Cap + z /\ z \in Nat
    <3>1. p \in Nat
      BY <1>2, <1>3
    <3>2. p \div Cap \in Nat /\ p % Cap \in 0 .. Cap - 1 /\ p = (p \div Cap) * Cap + (p % Cap)
      BY <1>2, <3>1, DivBounds
    <3> QED
      BY <2>1, <3>2
  <2> HIDE DEF q
  <2>9. p \in Int /\ p < q /\ q < p + Cap
    BY <1>2, <1>3, <2>6, <2>7
  <2>10. a * Cap \in Int /\ m * Cap \in Int /\ a * Cap < m * Cap /\ m * Cap < a * Cap + Cap
    <3>1. a * Cap \in Int /\ m * Cap \in Int
      BY <1>2
    <3> QED
      BY <1>2, <2>5, <2>8, <2>9, <3>1
  <2>11. m * Cap < (a + 1) * Cap
    BY <1>2, <2>10
  <2>12. a < m /\ m < a + 1
    BY <1>2, <2>10, <2>11, MulCancel
  <2> QED
    BY <2>12
<1> QED
  BY <1>6, <1>7

(* For every buffer size, ring length of two or more, segment size, backlog and
   amount left unread: as long as the ring holds buffers of the page, the byte
   cb_recv_multi takes for the next one is the byte the kernel writes next, and
   try_free_buffers has given back no byte the callback has not consumed. *)
THEOREM ViewFollowsKernel ==
    ASSUME NBufs >= 2
    PROVE  Spec => []KeptInPage
<1>1. WalkInv /\ [Next]_vars => WalkInv'
  BY WalkStep
<1> QED
  BY <1>1, WalkInit, WalkKeeps, PTL DEF Spec

-----------------------------------------------------------------------------
(* A callback that reads all it is shown, segments shorter than half a buffer
   and a backlog that leaves the kernel a buffer.                          *)

Drained ==
    /\ NBufs >= 2 /\ MaxLeft = 0 /\ 2 * MaxSeg < BufSize
    /\ MaxBacklog * MaxSeg < (NBufs - 1) * BufSize

(* The completions c cover the bytes from p to e, and none of them reaches from
   one buffer into the next: the kernel fills buffers one at a time. *)
Uncut(c, p, e) ==
    \E b \in [1 .. Len(c) + 1 -> Int] :
       /\ b[1] = p /\ b[Len(c) + 1] = e
       /\ \A i \in 1 .. Len(c) :
             /\ b[i + 1] = b[i] + c[i]
             /\ \E q \in Int : q * BufSize <= b[i] /\ b[i + 1] <= q * BufSize + BufSize

(* The input [s, e) lies in buffer x, the next one to be given back; v is where
   the ring ends, one turn further on.  Between handlers all has been read. *)
InOneBuffer(s, e, x, v, p) ==
    /\ x <= NBufs /\ v = x + NBufs
    /\ x * BufSize <= s /\ s <= e /\ e <= x * BufSize + BufSize
    /\ s <= Cap + MaxSeg /\ e <= s + MaxSeg
    /\ p = "idle" => s = e /\ e < x * BufSize + BufSize

(* The positions have just been brought back, and are still in buffer 0. *)
JustTurned(s, e, x, v, p) ==
    /\ p = "cb" /\ x = NBufs /\ v = NBufs
    /\ s <= e /\ e <= 2 * MaxSeg

Place(s, e, x, v, p) == InOneBuffer(s, e, x, v, p) \/ JustTurned(s, e, x, v, p)

DrainInv ==
    /\ TypeInv /\ RingInPage /\ pc # "panic" /\ why = "none"
    /\ Len(cq) <= MaxBacklog /\ \A i \in 1 .. Len(cq) : cq[i] >= 1
    /\ Uncut(cq, pos_in_end, Written)
    /\ \E w \in Nat : /\ Written = w * BufSize + fill
                      /\ Place(pos_in_start, pos_in_end, idx_in_reused, w + Len(ring), pc)

(* A completion is posted that stays in the buffer of e. *)
LEMMA UncutPosted ==
    ASSUME NEW c \in Seq(Nat), NEW p \in Nat, NEW e \in Nat, Uncut(c, p, e), NEW n \in Nat,
           NEW q \in Int, q * BufSize <= e, e + n <= q * BufSize + BufSize
    PROVE  Uncut(Append(c, n), p, e + n)
<1> DEFINE d == Append(c, n)
           L == Len(c)
<1>1. PICK b \in [1 .. L + 1 -> Int] :
         /\ b[1] = p /\ b[L + 1] = e
         /\ \A i \in 1 .. L :
               /\ b[i + 1] = b[i] + c[i]
               /\ \E r \in Int : r * BufSize <= b[i] /\ b[i + 1] <= r * BufSize + BufSize
  BY DEF Uncut
<1>2. L \in Nat /\ Len(d) = L + 1 /\ d[L + 1] = n /\ \A i \in 1 .. L : d[i] = c[i]
  BY AppendProperties
<1> HIDE DEF d, L
<1> DEFINE u == [i \in 1 .. L + 2 |-> IF i = L + 2 THEN e + n ELSE b[i]]
<1>3. u \in [1 .. L + 2 -> Int] /\ u[L + 2] = e + n /\ \A i \in 1 .. L + 1 : u[i] = b[i]
  BY <1>1, <1>2
<1> HIDE DEF u
<1>4. u[1] = p /\ u[L + 1] = e
  BY <1>1, <1>2, <1>3
<1>5. ASSUME NEW i \in 1 .. L + 1
      PROVE  /\ u[i + 1] = u[i] + d[i]
             /\ \E r \in Int : r * BufSize <= u[i] /\ u[i + 1] <= r * BufSize + BufSize
  <2>1. CASE i = L + 1
    <3>1. i + 1 = L + 2 /\ u[i + 1] = e + n /\ u[i] = e /\ d[i] = n
      BY <1>2, <1>3, <1>4, <2>1
    <3> QED
      BY <3>1
  <2>2. CASE i # L + 1
    <3>1. i \in 1 .. L /\ i + 1 \in 1 .. L + 1 /\ i \in 1 .. L + 1
      BY <1>2, <2>2
    <3>2. u[i] = b[i] /\ u[i + 1] = b[i + 1] /\ d[i] = c[i]
      BY <1>2, <1>3, <3>1
    <3> QED
      BY <1>1, <3>1, <3>2
  <2> QED
    BY <2>1, <2>2
<1>6. Len(d) + 1 = L + 2 /\ Len(d) = L + 1
  BY <1>2
<1>7. /\ u \in [1 .. Len(d) + 1 -> Int] /\ u[1] = p /\ u[Len(d) + 1] = e + n
      /\ \A i \in 1 .. Len(d) :
            /\ u[i + 1] = u[i] + d[i]
            /\ \E r \in Int : r * BufSize <= u[i] /\ u[i + 1] <= r * BufSize + BufSize
  <2>1. u \in [1 .. Len(d) + 1 -> Int] /\ u[1] = p /\ u[Len(d) + 1] = e + n
    BY <1>3, <1>4, <1>6
  <2> QED
    BY <1>5, <1>6, <2>1, Zenon
<1>8. Uncut(d, p, e + n)
  BY <1>7, Zenon DEF Uncut
<1> QED
  BY <1>8 DEF d

(* The first completion is taken. *)
LEMMA UncutTaken ==
    ASSUME NEW c \in Seq(Nat), c # <<>>, NEW p \in Nat, NEW e \in Nat, Uncut(c, p, e)
    PROVE  /\ Uncut(Tail(c), p + Head(c), e)
           /\ \E q \in Int : q * BufSize <= p /\ p + Head(c) <= q * BufSize + BufSize
<1> DEFINE d == Tail(c)
           L == Len(d)
<1>1. /\ d \in Seq(Nat) /\ L \in Nat /\ Len(c) = L + 1 /\ Head(c) = c[1] /\ c[1] \in Nat
      /\ \A i \in 1 .. L : d[i] = c[i + 1]
  <2>1. /\ Len(c) \in Nat \ {0} /\ d \in Seq(Nat) /\ L = Len(c) - 1
        /\ \A i \in 1 .. L : d[i] = c[i + 1]
    BY HeadTailProperties, EmptySeq
  <2> HIDE DEF d, L
  <2> QED
    BY <2>1
<1> HIDE DEF d, L
<1>2. PICK b \in [1 .. L + 2 -> Int] :
         /\ b[1] = p /\ b[L + 2] = e
         /\ \A i \in 1 .. L + 1 :
               /\ b[i + 1] = b[i] + c[i]
               /\ \E r \in Int : r * BufSize <= b[i] /\ b[i + 1] <= r * BufSize + BufSize
  <2>1. Len(c) = L + 1 /\ Len(c) + 1 = L + 2
    BY <1>1
  <2> QED
    BY <2>1 DEF Uncut
<1> DEFINE u == [i \in 1 .. L + 1 |-> b[i + 1]]
<1>3. u \in [1 .. L + 1 -> Int] /\ \A i \in 1 .. L + 1 : u[i] = b[i + 1]
  BY <1>1, <1>2
<1> HIDE DEF u
<1>4. 1 \in 1 .. L + 1 /\ L + 1 \in 1 .. L + 1 /\ 1 + 1 = 2 /\ (L + 1) + 1 = L + 2
  BY <1>1
<1>5. u[1] = p + Head(c) /\ u[L + 1] = e
  BY <1>1, <1>2, <1>3, <1>4
<1>6. ASSUME NEW i \in 1 .. L
      PROVE  /\ u[i + 1] = u[i] + d[i]
             /\ \E r \in Int : r * BufSize <= u[i] /\ u[i + 1] <= r * BufSize + BufSize
  <2>1. i \in 1 .. L + 1 /\ i + 1 \in 1 .. L + 1
    BY <1>1
  <2>2. u[i] = b[i + 1] /\ u[i + 1] = b[(i + 1) + 1] /\ d[i] = c[i + 1]
    BY <1>1, <1>3, <2>1
  <2> QED
    BY <1>2, <2>1, <2>2
<1>7. Uncut(d, p + Head(c), e)
  <2>1. L = Len(d)
    BY DEF L
  <2> QED
    BY <1>3, <1>5, <1>6, <2>1 DEF Uncut
<1>8. \E q \in Int : q * BufSize <= p /\ p + Head(c) <= q * BufSize + BufSize
  <2>1. b[1] = p /\ b[1 + 1] = b[1] + c[1] /\ b[1 + 1] = p + Head(c)
    BY <1>1, <1>2, <1>4
  <2>2. \E r \in Int : r * BufSize <= b[1] /\ b[1 + 1] <= r * BufSize + BufSize
    BY <1>2, <1>4
  <2> QED
    BY <2>1, <2>2
<1> QED
  BY <1>7, <1>8 DEF d

(* All positions are brought back by one turn. *)
LEMMA UncutTurns ==
    ASSUME NEW c \in Seq(Nat), NEW p \in Int, NEW e \in Int, Uncut(c, p, e)
    PROVE  Uncut(c, p - Cap, e - Cap)
<1> DEFINE L == Len(c)
<1>1. PICK b \in [1 .. L + 1 -> Int] :
         /\ b[1] = p /\ b[L + 1] = e
         /\ \A i \in 1 .. L :
               /\ b[i + 1] = b[i] + c[i]
               /\ \E r \in Int : r * BufSize <= b[i] /\ b[i + 1] <= r * BufSize + BufSize
  BY DEF Uncut
<1>2. L \in Nat /\ Cap \in Nat /\ Cap = NBufs * BufSize /\ BufSize \in Nat /\ NBufs \in Nat
  BY RecvAssumption, CapType DEF Cap
<1>3. \A i \in 1 .. L : c[i] \in Nat
  OBVIOUS
<1> HIDE DEF L
<1> DEFINE u == [i \in 1 .. L + 1 |-> b[i] - Cap]
<1>4. u \in [1 .. L + 1 -> Int] /\ \A i \in 1 .. L + 1 : u[i] = b[i] - Cap
  BY <1>1, <1>2
<1> HIDE DEF u
<1>5. u[1] = p - Cap /\ u[L + 1] = e - Cap
  BY <1>1, <1>2, <1>4
<1>6. ASSUME NEW i \in 1 .. L
      PROVE  /\ u[i + 1] = u[i] + c[i]
             /\ \E r \in Int : r * BufSize <= u[i] /\ u[i + 1] <= r * BufSize + BufSize
  <2>1. i \in 1 .. L + 1 /\ i + 1 \in 1 .. L + 1 /\ b[i] \in Int /\ b[i + 1] \in Int
    BY <1>1, <1>2
  <2>2. u[i] = b[i] - Cap /\ u[i + 1] = b[i + 1] - Cap
    BY <1>4, <2>1
  <2>3. u[i + 1] = u[i] + c[i]
    BY <1>1, <1>2, <1>3, <2>1, <2>2, SMTT(60)
  <2>4. PICK r \in Int : r * BufSize <= b[i] /\ b[i + 1] <= r * BufSize + BufSize
    BY <1>1
  <2>5. r - NBufs \in Int /\ (r - NBufs) * BufSize = r * BufSize - Cap /\ r * BufSize \in Int
    BY <1>2
  <2>6. (r - NBufs) * BufSize <= u[i] /\ u[i + 1] <= (r - NBufs) * BufSize + BufSize
    BY <1>2, <2>1, <2>2, <2>4, <2>5
  <2> QED
    BY <2>3, <2>5, <2>6
<1>7. Uncut(c, p - Cap, e - Cap)
  <2>1. L = Len(c)
    BY DEF L
  <2> QED
    BY <1>4, <1>5, <1>6, <2>1 DEF Uncut
<1> QED
  BY <1>7

(* The drained limits as numbers. *)
LEMMA DrainedLimits ==
    ASSUME Drained
    PROVE  /\ BufSize \in Nat \ {0} /\ NBufs \in Nat /\ NBufs >= 2 /\ MaxSeg \in Nat \ {0}
           /\ 2 * MaxSeg < BufSize /\ MaxLeft = 0 /\ MaxBacklog \in Nat
           /\ Cap \in Nat /\ Cap = NBufs * BufSize /\ BufSize <= Cap
BY RecvAssumption, CapType DEF Drained, Cap

(* The handler of a receive adds a segment, in the same buffer. *)
LEMMA PlaceReceives ==
    ASSUME Drained, NEW s \in Nat, NEW e \in Nat, NEW x \in Nat, NEW v \in Nat,
           Place(s, e, x, v, "idle"), NEW n \in 1 .. MaxSeg,
           NEW q \in Int, q * BufSize <= e, e + n <= q * BufSize + BufSize
    PROVE  Place(s, e + n, x, v, "cb")
<1>1. InOneBuffer(s, e, x, v, "idle")
  BY DEF Place, JustTurned
<1>2. BufSize \in Nat /\ MaxSeg \in Nat /\ Cap \in Nat /\ NBufs \in Nat
  BY DrainedLimits
<1>3. q * BufSize \in Int /\ x * BufSize \in Int
  BY <1>2
<1>4. x * BufSize <= s /\ s = e /\ e < x * BufSize + BufSize
  BY <1>1 DEF InOneBuffer
<1>5. q * BufSize < (x + 1) * BufSize
  <2>1. (x + 1) * BufSize = x * BufSize + BufSize
    BY <1>2
  <2> QED
    BY <1>2, <1>3, <1>4, <2>1
<1>6. q <= x
  <2>1. q < x + 1
    BY <1>2, <1>5, MulCancel
  <2> QED
    BY <2>1
<1>7. q * BufSize <= x * BufSize
  BY <1>2, <1>6, MulMono
<1>8. e + n <= x * BufSize + BufSize
  BY <1>2, <1>3, <1>7
<1> QED
  BY <1>1, <1>2, <1>3, <1>4, <1>8 DEF Place, InOneBuffer

(* A pass that leaves the positions where they are in the page. *)
LEMMA PlacePasses ==
    ASSUME Drained, NEW s \in Nat, NEW e \in Nat, NEW x \in Nat, NEW v \in Nat,
           Place(s, e, x, v, "cb"), ~(s > Cap /\ e > Cap),
           NEW t \in Nat, s <= t, t <= e
    PROVE  Place(t, e, x, v, "cb")
<1>1. BufSize \in Nat /\ MaxSeg \in Nat /\ Cap \in Nat /\ NBufs \in Nat /\ x * BufSize \in Int
  BY DrainedLimits
<1>2. CASE InOneBuffer(s, e, x, v, "cb")
  <2>1. s <= Cap /\ e <= Cap + MaxSeg
    BY <1>1, <1>2 DEF InOneBuffer
  <2> QED
    BY <1>1, <1>2, <2>1 DEF Place, InOneBuffer
<1>3. CASE JustTurned(s, e, x, v, "cb")
  BY <1>1, <1>3 DEF Place, JustTurned
<1> QED
  BY <1>2, <1>3 DEF Place

(* A pass that brings the positions back: the ring then ends where the page
   does. *)
LEMMA PlaceTurns ==
    ASSUME Drained, NEW s \in Nat, NEW e \in Nat, NEW x \in Nat, NEW v \in Nat,
           Place(s, e, x, v, "cb"), s > Cap, e > Cap,
           NEW t \in Nat, t <= e - Cap
    PROVE  v = NBufs + NBufs /\ Place(t, e - Cap, x, v - NBufs, "cb")
<1>1. /\ BufSize \in Nat \ {0} /\ MaxSeg \in Nat /\ Cap \in Nat /\ NBufs \in Nat /\ x * BufSize \in Int
      /\ Cap = NBufs * BufSize /\ 2 * MaxSeg < BufSize /\ BufSize <= Cap
  BY DrainedLimits
<1>2. InOneBuffer(s, e, x, v, "cb")
  BY <1>1 DEF Place, JustTurned
<1>3. NBufs * BufSize < (x + 1) * BufSize
  <2>1. (x + 1) * BufSize = x * BufSize + BufSize
    BY <1>1
  <2> QED
    BY <1>1, <1>2, <2>1 DEF InOneBuffer
<1>4. x = NBufs
  <2>1. NBufs < x + 1
    BY <1>1, <1>3, MulCancel
  <2> QED
    BY <1>1, <1>2, <2>1 DEF InOneBuffer
<1>5. v = NBufs + NBufs /\ v - NBufs = NBufs
  BY <1>1, <1>2, <1>4 DEF InOneBuffer
<1>6. e - Cap <= 2 * MaxSeg
  BY <1>1, <1>2 DEF InOneBuffer
<1> QED
  BY <1>1, <1>4, <1>5, <1>6 DEF Place, JustTurned

(* left_set_lens finds room in the page. *)
LEMMA PlaceFits ==
    ASSUME Drained, NEW s \in Nat, NEW e \in Nat, NEW x \in Nat, NEW v \in Nat, NEW p,
           Place(s, e, x, v, p)
    PROVE  (IF s > Cap /\ e > Cap THEN s - Cap ELSE s) <= Cap
<1>1. /\ BufSize \in Nat \ {0} /\ MaxSeg \in Nat /\ Cap \in Nat
      /\ 2 * MaxSeg < BufSize /\ BufSize <= Cap
  BY DrainedLimits
<1>2. CASE InOneBuffer(s, e, x, v, p)
  BY <1>1, <1>2 DEF InOneBuffer
<1>3. CASE JustTurned(s, e, x, v, p)
  BY <1>1, <1>3 DEF JustTurned
<1> QED
  BY <1>2, <1>3 DEF Place

(* try_free_buffers, with the cursor in buffer c: either the buffers up to it are
   given back, or the turn is completed. *)
LEMMA PlaceReturns ==
    ASSUME Drained, NEW s \in Nat, NEW x \in Nat, NEW v \in Nat,
           Place(s, s, x, v, "cb"),
           NEW c \in Nat, c * BufSize <= s, s < c * BufSize + BufSize
    PROVE  \/ /\ x <= c /\ c <= NBufs /\ ~(c = 0 /\ x = NBufs - 1) /\ ~(c = 0 /\ x = NBufs)
              /\ v + (c - x) = c + NBufs /\ Place(s, s, c, c + NBufs, "idle")
           \/ c = 0 /\ x = NBufs /\ v = NBufs /\ Place(s, s, 0, v, "idle")
<1>1. /\ BufSize \in Nat \ {0} /\ MaxSeg \in Nat /\ Cap \in Nat /\ NBufs \in Nat /\ NBufs >= 2
      /\ Cap = NBufs * BufSize /\ 2 * MaxSeg < BufSize /\ BufSize <= Cap
  BY DrainedLimits
<1>2. c * BufSize \in Int /\ x * BufSize \in Int /\ (c + 1) * BufSize = c * BufSize + BufSize
  BY <1>1
<1>3. CASE InOneBuffer(s, s, x, v, "cb")
  <2>1. x <= c
    <3>1. x * BufSize < (c + 1) * BufSize
      BY <1>1, <1>2, <1>3 DEF InOneBuffer
    <3>2. x < c + 1
      BY <1>1, <3>1, MulCancel
    <3> QED
      BY <3>2
  <2>2. c <= NBufs
    <3>1. (NBufs + 1) * BufSize = Cap + BufSize
      BY <1>1
    <3>2. c * BufSize < (NBufs + 1) * BufSize
      BY <1>1, <1>2, <1>3, <3>1 DEF InOneBuffer
    <3>3. c < NBufs + 1
      BY <1>1, <3>2, MulCancel
    <3> QED
      BY <1>1, <3>3
  <2>3. InOneBuffer(s, s, c, c + NBufs, "idle")
    BY <1>1, <1>2, <1>3, <2>2 DEF InOneBuffer
  <2>4. v + (c - x) = c + NBufs /\ ~(c = 0 /\ x = NBufs - 1) /\ ~(c = 0 /\ x = NBufs)
    BY <1>1, <1>3, <2>1 DEF InOneBuffer
  <2> QED
    BY <2>1, <2>2, <2>3, <2>4 DEF Place
<1>4. CASE JustTurned(s, s, x, v, "cb")
  <2>1. s <= 2 * MaxSeg /\ x = NBufs /\ v = NBufs
    BY <1>4 DEF JustTurned
  <2>2. c = 0
    <3>1. c * BufSize < 1 * BufSize
      BY <1>1, <1>2, <2>1
    <3>2. c < 1
      BY <1>1, <3>1, MulCancel
    <3> QED
      BY <3>2
  <2>3. 0 * BufSize = 0
    BY <1>1
  <2>4. InOneBuffer(s, s, 0, v, "idle")
    BY <1>1, <2>1, <2>3 DEF InOneBuffer
  <2> QED
    BY <2>1, <2>2, <2>4 DEF Place
<1> QED
  BY <1>3, <1>4 DEF Place

(* The ring never runs dry: w, where the kernel writes, is before its end. *)
LEMMA PlaceLeavesRoom ==
    ASSUME Drained, NEW s \in Nat, NEW e \in Nat, NEW x \in Nat, NEW v \in Nat, NEW p,
           Place(s, e, x, v, p), NEW u \in Nat, u <= MaxBacklog * MaxSeg,
           NEW w \in Nat, w * BufSize <= e + u
    PROVE  w < v
<1>1. /\ BufSize \in Nat \ {0} /\ MaxSeg \in Nat /\ Cap \in Nat /\ NBufs \in Nat /\ MaxBacklog \in Nat
      /\ Cap = NBufs * BufSize /\ 2 * MaxSeg < BufSize
  BY DrainedLimits
<1>2. /\ x * BufSize \in Int /\ v * BufSize \in Int /\ w * BufSize \in Int
      /\ MaxBacklog * MaxSeg \in Int /\ (NBufs - 1) * BufSize = Cap - BufSize
      /\ (x + NBufs) * BufSize = x * BufSize + Cap
  BY <1>1
<1>3. u < Cap - BufSize
  BY <1>1, <1>2 DEF Drained
<1>4. w * BufSize < v * BufSize
  <2>1. CASE InOneBuffer(s, e, x, v, p)
    <3>1. v * BufSize = x * BufSize + Cap
      BY <1>2, <2>1 DEF InOneBuffer
    <3>2. e <= x * BufSize + BufSize
      BY <2>1 DEF InOneBuffer
    <3> QED
      BY <1>1, <1>2, <1>3, <3>1, <3>2
  <2>2. CASE JustTurned(s, e, x, v, p)
    <3>1. v * BufSize = Cap /\ e <= 2 * MaxSeg
      BY <1>1, <2>2 DEF JustTurned
    <3> QED
      BY <1>1, <1>2, <1>3, <3>1
  <2> QED
    BY <2>1, <2>2 DEF Place
<1> QED
  BY <1>1, <1>4, MulCancel

(* Nothing has been received. *)
LEMMA DrainInit ==
    ASSUME Drained
    PROVE  Init => DrainInv
<1> SUFFICES ASSUME Init PROVE DrainInv
  OBVIOUS
<1>1. TypeInv /\ WalkInv /\ BufSize \in Nat \ {0} /\ NBufs \in Nat /\ MaxSeg \in Nat
      /\ MaxBacklog \in Nat /\ Cap \in Nat /\ 0 * BufSize = 0
  BY TypeInit, WalkInit, DrainedLimits
<1>2. Written = 0 /\ fill = 0
  <2>1. <<>> \in Seq(0 .. MaxSeg) /\ Len(<<>>) = 0 /\ 0 * MaxSeg = 0
    BY <1>1
  <2>2. Total(<<>>) \in Nat /\ Total(<<>>) <= Len(<<>>) * MaxSeg
    BY <1>1, <2>1, TotalOfQueue
  <2>3. Unseen = 0
    BY <2>1, <2>2, UnseenTotal DEF Init
  <2> QED
    BY <2>3 DEF Init, Written
<1>3. RingInPage /\ Len(ring) = NBufs
  BY <1>1 DEF Init, RingInPage
<1>4. Uncut(<<>>, 0, 0)
  <2> DEFINE b == [i \in 1 .. Len(<<>>) + 1 |-> 0]
  <2>1. b \in [1 .. Len(<<>>) + 1 -> Int] /\ b[1] = 0 /\ b[Len(<<>>) + 1] = 0
    OBVIOUS
  <2>2. 1 .. Len(<<>>) = {}
    OBVIOUS
  <2> QED
    BY <2>1, <2>2 DEF Uncut
<1>5. InOneBuffer(0, 0, 0, 0 + Len(ring), "idle")
  BY <1>1, <1>3 DEF InOneBuffer
<1>6. Written = 0 * BufSize + fill
  BY <1>1, <1>2
<1>7. Place(pos_in_start, pos_in_end, idx_in_reused, 0 + Len(ring), pc)
  BY <1>5 DEF Init, Place
<1>8. Uncut(cq, pos_in_end, Written)
  BY <1>2, <1>4 DEF Init
<1>9. Len(cq) <= MaxBacklog /\ \A i \in 1 .. Len(cq) : cq[i] >= 1
  BY <1>1 DEF Init
<1>10. pc # "panic" /\ why = "none"
  BY DEF Init
<1> QED
  BY <1>1, <1>3, <1>6, <1>7, <1>8, <1>9, <1>10 DEF DrainInv

(* Every step keeps the input in one buffer, and none of them panics. *)
LEMMA DrainStep ==
    ASSUME Drained
    PROVE  DrainInv /\ [Next]_vars => DrainInv'
<1> SUFFICES ASSUME DrainInv, [Next]_vars PROVE DrainInv'
  OBVIOUS
<1>1. TypeInv /\ TypeInv'
  BY TypeStep DEF DrainInv
<1>2. PICK w \in Nat :
         /\ Written = w * BufSize + fill
         /\ Place(pos_in_start, pos_in_end, idx_in_reused, w + Len(ring), pc)
  BY DEF DrainInv
<1>3. /\ pos_in_start \in Nat /\ pos_in_end \in Nat /\ idx_in_reused \in Nat
      /\ pos_in_start <= pos_in_end
      /\ ring \in Seq(Nat) /\ Len(ring) \in Nat /\ fill \in 0 .. BufSize - 1
      /\ cq \in Seq(0 .. MaxSeg) /\ cq \in Seq(Nat) /\ Len(cq) \in Nat
  BY <1>1, DrainedLimits, SMTT(60) DEF TypeInv, TypeOK
<1>4. /\ BufSize \in Nat \ {0} /\ NBufs \in Nat /\ NBufs >= 2 /\ MaxSeg \in Nat \ {0}
      /\ MaxLeft = 0 /\ MaxBacklog \in Nat /\ Cap \in Nat /\ Cap = NBufs * BufSize
  BY DrainedLimits
<1>5. /\ Written \in Nat /\ Unseen \in Nat /\ Written = pos_in_end + Unseen
      /\ w * BufSize \in Nat /\ w + Len(ring) \in Nat
  BY <1>1, <1>3, <1>4, WrittenMoves
<1>6. /\ RingInPage /\ pc # "panic" /\ why = "none" /\ Len(cq) <= MaxBacklog
      /\ (\A i \in 1 .. Len(cq) : cq[i] >= 1) /\ Uncut(cq, pos_in_end, Written)
  BY DEF DrainInv
<1>7. ring # <<>>
  <2>1. Unseen <= MaxBacklog * MaxSeg
    <3>1. Unseen <= Len(cq) * MaxSeg
      BY <1>3, <1>4, UnseenTotal, TotalOfQueue
    <3>2. Len(cq) * MaxSeg <= MaxBacklog * MaxSeg
      <4>1. Len(cq) \in Int /\ MaxBacklog \in Int /\ MaxSeg \in Nat /\ Len(cq) <= MaxBacklog
        BY <1>3, <1>4, <1>6
      <4> QED
        BY <4>1, MulMono
    <3>3. Len(cq) * MaxSeg \in Int /\ MaxBacklog * MaxSeg \in Int
      BY <1>3, <1>4
    <3> QED
      BY <1>5, <3>1, <3>2, <3>3
  <2>2. w * BufSize <= pos_in_end + Unseen
    BY <1>2, <1>3, <1>5
  <2>3. w < w + Len(ring)
    BY <1>2, <1>3, <1>5, <2>1, <2>2, PlaceLeavesRoom
  <2>4. Len(ring) # 0
    BY <1>3, <2>3
  <2> QED
    BY <2>4
<1>8. ASSUME UNCHANGED <<cursor, kernel, pc, why>> PROVE DrainInv'
  BY <1>8 DEF DrainInv, TypeInv, TypeOK, RingInPage, Written, Unseen, cursor, kernel
<1>9. ASSUME NEW n \in 1 .. MaxSeg, KernelRecv(n) PROVE DrainInv'
  <2>1. /\ UNCHANGED <<pos_in_start, pos_in_end, idx_in_reused, pc, why>>
        /\ Len(cq) < MaxBacklog /\ n <= BufSize - fill /\ cq' = Append(cq, n)
        /\ n \in Nat /\ n >= 1 /\ Written' = Written + n
    BY <1>1, <1>9, WrittenMoves DEF KernelRecv, cursor
  <2>2. Uncut(cq', pos_in_end', Written')
    <3>1. w \in Int /\ w * BufSize <= Written /\ Written + n <= w * BufSize + BufSize
      BY <1>2, <1>3, <1>4, <1>5, <2>1
    <3>2. Uncut(Append(cq, n), pos_in_end, Written + n)
      BY <1>3, <1>5, <1>6, <2>1, <3>1, UncutPosted
    <3> QED
      BY <2>1, <3>2
  <2>3. Len(cq') <= MaxBacklog /\ \A i \in 1 .. Len(cq') : cq'[i] >= 1
    <3>1. /\ Len(cq') = Len(cq) + 1 /\ cq'[Len(cq) + 1] = n
          /\ \A i \in 1 .. Len(cq) : cq'[i] = cq[i]
      BY <1>3, <2>1, AppendProperties
    <3>2. ASSUME NEW i \in 1 .. Len(cq') PROVE cq'[i] >= 1
      <4>1. i \in 1 .. Len(cq) \/ i = Len(cq) + 1
        BY <1>3, <3>1
      <4> QED
        BY <1>6, <2>1, <3>1, <4>1
    <3> QED
      BY <1>3, <1>4, <2>1, <3>1, <3>2
  <2>4. PICK v \in Nat : Written' = v * BufSize + fill' /\ v + Len(ring') = w + Len(ring)
    <3>1. CASE fill + n = BufSize
      <4>1. ring' = Tail(ring) /\ fill' = 0
        BY <1>9, <3>1 DEF KernelRecv
      <4>2. Len(ring') = Len(ring) - 1
        BY <1>3, <1>7, <4>1
      <4>3. (w + 1) * BufSize = w * BufSize + BufSize
        BY <1>4
      <4>4. w + 1 \in Nat /\ Written' = (w + 1) * BufSize + fill'
        BY <1>2, <1>3, <1>4, <1>5, <2>1, <3>1, <4>1, <4>3
      <4>5. (w + 1) + Len(ring') = w + Len(ring)
        BY <1>3, <4>2
      <4> QED
        BY <4>4, <4>5
    <3>2. CASE fill + n # BufSize
      <4>1. ring' = ring /\ fill' = fill + n
        BY <1>9, <3>2 DEF KernelRecv
      <4>2. Written' = w * BufSize + fill'
        BY <1>2, <1>3, <1>4, <1>5, <2>1, <4>1
      <4> QED
        BY <4>1, <4>2
    <3> QED
      BY <3>1, <3>2
  <2>5. Place(pos_in_start', pos_in_end', idx_in_reused', v + Len(ring'), pc')
    BY <1>2, <2>1, <2>4
  <2>6. RingInPage'
    <3>1. ring' = ring \/ ring' = Tail(ring)
      BY <1>9 DEF KernelRecv
    <3>2. CASE ring' = ring
      BY <1>6, <3>2 DEF RingInPage
    <3>3. CASE ring' = Tail(ring)
      <4>1. /\ DOMAIN ring' = 1 .. Len(ring) - 1 /\ DOMAIN ring = 1 .. Len(ring)
            /\ \A i \in 1 .. Len(ring) - 1 : ring'[i] = ring[i + 1]
        BY <1>3, <1>7, <3>3
      <4>2. \A i \in 1 .. Len(ring) - 1 : i + 1 \in 1 .. Len(ring)
        BY <1>3
      <4> QED
        BY <1>6, <4>1, <4>2 DEF RingInPage
    <3> QED
      BY <3>1, <3>2, <3>3
  <2> QED
    BY <1>1, <1>6, <2>1, <2>2, <2>3, <2>4, <2>5, <2>6 DEF DrainInv
<1>10. ~KernelNoBufs
  BY <1>7 DEF KernelNoBufs
<1>11. CASE HandleRecv
  <2>1. /\ UNCHANGED <<pos_in_start, idx_in_reused, ring, fill, why>> /\ pc = "idle" /\ pc' = "cb"
        /\ cq # <<>> /\ cq' = Tail(cq) /\ pos_in_end' = pos_in_end + Head(cq)
        /\ Written' = Written
    BY <1>1, <1>11, WrittenMoves DEF HandleRecv
  <2>2. /\ Head(cq) = cq[1] /\ 1 \in 1 .. Len(cq) /\ Len(cq') = Len(cq) - 1
        /\ \A i \in 1 .. Len(cq) - 1 : cq'[i] = cq[i + 1] /\ i + 1 \in 1 .. Len(cq)
    BY <1>3, <2>1
  <2>3. Head(cq) \in 1 .. MaxSeg
    <3>1. cq[1] \in 0 .. MaxSeg
      <4>1. cq \in Seq(0 .. MaxSeg)
        BY <1>3
      <4>2. 1 \in 1 .. Len(cq)
        BY <2>2
      <4> QED
        BY <4>1, <4>2, ElementOfSeq, Zenon
    <3>2. cq[1] >= 1
      BY <1>6, <2>2
    <3> QED
      BY <1>4, <2>2, <3>1, <3>2
  <2>4. PICK q \in Int : q * BufSize <= pos_in_end /\ pos_in_end + Head(cq) <= q * BufSize + BufSize
    BY <1>3, <1>5, <1>6, <2>1, UncutTaken
  <2>5. Uncut(cq', pos_in_end', Written')
    <3>1. Uncut(Tail(cq), pos_in_end + Head(cq), Written)
      BY <1>3, <1>5, <1>6, <2>1, UncutTaken
    <3> QED
      BY <2>1, <3>1
  <2>6. Place(pos_in_start, pos_in_end + Head(cq), idx_in_reused, w + Len(ring), "cb")
    BY <1>2, <1>3, <1>5, <2>1, <2>3, <2>4, PlaceReceives
  <2>7. /\ Written' = w * BufSize + fill'
        /\ Place(pos_in_start', pos_in_end', idx_in_reused', w + Len(ring'), pc')
    BY <1>2, <2>1, <2>6
  <2>8. Len(cq') <= MaxBacklog /\ \A i \in 1 .. Len(cq') : cq'[i] >= 1
    <3>1. Len(cq') <= MaxBacklog
      BY <1>3, <1>4, <1>6, <2>2
    <3> QED
      BY <1>6, <2>2, <3>1
  <2>9. RingInPage' /\ pc' # "panic" /\ why' = "none"
    BY <1>6, <2>1 DEF RingInPage
  <2> QED
    BY <1>1, <2>5, <2>7, <2>8, <2>9 DEF DrainInv
<1>12. ~HandleRecvError
  <2> SUFFICES ASSUME cq # <<>>, Head(cq) = 0 PROVE FALSE
    BY DEF HandleRecvError, NoBufs
  <2>1. 1 \in 1 .. Len(cq) /\ cq[1] = 0
    BY <1>3
  <2>2. cq[1] >= 1
    BY <1>6, <2>1
  <2> QED
    BY <2>1, <2>2
<1>13. CASE HandleSentZc
  <2>1. UNCHANGED <<cursor, kernel, why>> /\ pc = "idle" /\ pc' = "cb"
    BY <1>13 DEF HandleSentZc
  <2>2. UNCHANGED <<pos_in_start, pos_in_end, idx_in_reused, ring, fill, cq, why>> /\ Written' = Written
    BY <2>1 DEF cursor, kernel, Written, Unseen
  <2>3. Place(pos_in_start, pos_in_end, idx_in_reused, w + Len(ring), "cb")
    BY <1>2, <2>1 DEF Place, InOneBuffer, JustTurned
  <2>4. /\ Written' = w * BufSize + fill'
        /\ Place(pos_in_start', pos_in_end', idx_in_reused', w + Len(ring'), pc')
    BY <1>2, <2>1, <2>2, <2>3
  <2>5. RingInPage' /\ pc' # "panic" /\ why' = "none" /\ Len(cq') <= MaxBacklog
        /\ (\A i \in 1 .. Len(cq') : cq'[i] >= 1) /\ Uncut(cq', pos_in_end', Written')
    BY <1>6, <2>1, <2>2 DEF RingInPage
  <2> QED
    BY <1>1, <2>4, <2>5 DEF DrainInv
<1>14. CASE Look \/ \E n \in 0 .. MaxLeft : Consume(n)
  <2>1. /\ UNCHANGED <<idx_in_reused, ring, fill, cq, why>> /\ pc = "cb" /\ pc' = "cb"
        /\ Written' \in Nat
        /\ \/ ~Revolves /\ Written' = Written
           \/ Revolves /\ Written' = Written - Cap
    BY <1>1, <1>14, PassMoves
  <2>2. PICK t \in Nat : t = pos_in_start'
    BY <1>1 DEF TypeInv, TypeOK
  <2>3. PICK f \in Nat : f = pos_in_end'
    BY <1>1 DEF TypeInv, TypeOK
  <2>4. t <= f
    BY <1>1, <2>2, <2>3 DEF TypeInv
  <2>5. f = Revolved(pos_in_end)
    BY <1>14, <2>3 DEF Look, Consume
  <2>6. RingInPage' /\ pc' # "panic" /\ why' = "none" /\ Len(cq') <= MaxBacklog
        /\ \A i \in 1 .. Len(cq') : cq'[i] >= 1
    BY <1>6, <2>1 DEF RingInPage
  <2>7. CASE ~Revolves
    <3>1. f = pos_in_end /\ Written' = Written /\ pos_in_start <= t
      BY <1>1, <1>14, <2>1, <2>2, <2>5, <2>7, PassMoves DEF Revolved
    <3>2. Place(t, pos_in_end, idx_in_reused, w + Len(ring), "cb")
      <4>1. ~(pos_in_start > Cap /\ pos_in_end > Cap) /\ t <= pos_in_end
        BY <2>4, <2>7, <3>1 DEF Revolves
      <4> QED
        BY <1>2, <1>3, <1>5, <2>1, <3>1, <4>1, PlacePasses
    <3>3. /\ Written' = w * BufSize + fill'
          /\ Place(pos_in_start', pos_in_end', idx_in_reused', w + Len(ring'), pc')
      BY <1>2, <2>1, <2>2, <2>3, <3>1, <3>2
    <3>4. Uncut(cq', pos_in_end', Written')
      BY <1>6, <2>1, <2>3, <3>1
    <3> QED
      BY <1>1, <2>6, <3>3, <3>4 DEF DrainInv
  <2>8. CASE Revolves
    <3>1. f = pos_in_end - Cap /\ Written' = Written - Cap
      BY <2>1, <2>5, <2>8 DEF Revolved
    <3>2. pos_in_start > Cap /\ pos_in_end > Cap /\ t <= pos_in_end - Cap
      BY <2>4, <2>8, <3>1 DEF Revolves
    <3>3. /\ w + Len(ring) = NBufs + NBufs
          /\ Place(t, pos_in_end - Cap, idx_in_reused, (w + Len(ring)) - NBufs, "cb")
      BY <1>2, <1>3, <1>5, <2>1, <3>2, PlaceTurns
    <3>4. PICK v \in Nat : w = v + NBufs
      <4>1. PICK y \in Nat : y = Written'
        BY <2>1
      <4>2. (w + 1) * BufSize = w * BufSize + BufSize /\ NBufs * BufSize \in Nat
        BY <1>4
      <4>3. y = Written - Cap
        BY <3>1, <4>1
      <4>4. NBufs * BufSize < (w + 1) * BufSize
        BY <1>2, <1>3, <1>4, <1>5, <4>2, <4>3, SMTT(60)
      <4>5. NBufs < w + 1
        BY <1>4, <4>4, MulCancel
      <4>6. w - NBufs \in Nat /\ w = (w - NBufs) + NBufs
        BY <1>4, <4>5
      <4> QED
        BY <4>6
    <3>5. Written - Cap = v * BufSize + fill
      <4>1. w * BufSize = v * BufSize + Cap /\ v * BufSize \in Nat
        BY <1>4, <3>4
      <4> QED
        BY <1>2, <1>3, <1>4, <1>5, <4>1
    <3>6. (w + Len(ring)) - NBufs = v + Len(ring)
      BY <1>3, <1>4, <3>4
    <3>7. /\ Written' = v * BufSize + fill'
          /\ Place(pos_in_start', pos_in_end', idx_in_reused', v + Len(ring'), pc')
      BY <2>1, <2>2, <2>3, <3>1, <3>3, <3>5, <3>6
    <3>8. Uncut(cq, pos_in_end - Cap, Written - Cap)
      <4>1. pos_in_end \in Int /\ Written \in Int
        BY <1>3, <1>5
      <4> QED
        BY <1>3, <1>6, <4>1, UncutTurns
    <3>9. Uncut(cq', pos_in_end', Written')
      BY <2>1, <2>3, <3>1, <3>8
    <3> QED
      BY <1>1, <2>6, <3>7, <3>9 DEF DrainInv
  <2> QED
    BY <2>7, <2>8
<1>15. ASSUME NEW n \in 0 .. MaxLeft PROVE ~ConsumeOverCapacity(n)
  <2>1. n = 0
    BY <1>4
  <2>2. (IF pos_in_start > Cap /\ pos_in_end > Cap THEN pos_in_start - Cap ELSE pos_in_start) <= Cap
    BY <1>2, <1>3, <1>5, PlaceFits
  <2>3. Revolved(pos_in_start) <= Cap /\ Revolved(pos_in_start) \in Int
    BY <1>3, <1>4, <2>2 DEF Revolved, Revolves
  <2>4. ~(n + Revolved(pos_in_start) > Cap)
    BY <1>4, <2>1, <2>3
  <2> QED
    BY <2>4 DEF ConsumeOverCapacity
<1>16. ASSUME Return
       PROVE  /\ pc = "cb" /\ pos_in_start = pos_in_end /\ CurBuf \in Nat
              /\ \/ /\ idx_in_reused <= CurBuf /\ CurBuf <= NBufs
                    /\ ~(CurBuf = 0 /\ idx_in_reused = NBufs - 1)
                    /\ ~(CurBuf = 0 /\ idx_in_reused = NBufs)
                    /\ (w + Len(ring)) + (CurBuf - idx_in_reused) = CurBuf + NBufs
                    /\ Place(pos_in_start, pos_in_start, CurBuf, CurBuf + NBufs, "idle")
                 \/ /\ CurBuf = 0 /\ idx_in_reused = NBufs
                    /\ Place(pos_in_start, pos_in_start, 0, w + Len(ring), "idle")
  <2>1. pc = "cb" /\ pos_in_start = pos_in_end
    BY <1>3, <1>4, <1>16 DEF Return
  <2>2. /\ CurBuf \in Nat /\ CurBuf * BufSize <= pos_in_start
        /\ pos_in_start < CurBuf * BufSize + BufSize
    BY <1>3, <1>4, DivBounds DEF CurBuf
  <2>3. Place(pos_in_start, pos_in_start, idx_in_reused, w + Len(ring), "cb")
    BY <1>2, <2>1
  <2> QED
    BY <1>3, <1>5, <2>1, <2>2, <2>3, PlaceReturns
<1>17. ~FreeLeftover /\ ~FreePanic
  <2>1. ~FreeLeftover
    BY <1>4, <1>16 DEF FreeLeftover, RevolvedLeftover
  <2>2. ~FreePanic
    <3> SUFFICES ASSUME FreePanic PROVE FALSE
      OBVIOUS
    <3>1. Return /\ ~(CurBuf = 0 /\ idx_in_reused = NBufs) /\ idx_in_reused > CurBuf
      BY DEF FreePanic, RevolvedClean
    <3>2. idx_in_reused <= CurBuf /\ CurBuf \in Nat
      BY <1>16, <3>1
    <3> QED
      BY <1>3, <3>1, <3>2
  <2> QED
    BY <2>1, <2>2
<1>18. CASE FreeClean
  <2>1. /\ Return /\ CurBuf = 0 /\ idx_in_reused = NBufs
        /\ UNCHANGED <<pos_in_start, pos_in_end, ring, fill, cq, why>>
        /\ idx_in_reused' = 0 /\ pc' = "idle" /\ Written' = Written
    BY <1>18 DEF FreeClean, RevolvedClean, kernel, Written, Unseen
  <2>2. pos_in_start = pos_in_end /\ Place(pos_in_start, pos_in_start, 0, w + Len(ring), "idle")
    BY <1>16, <2>1
  <2>3. /\ Written' = w * BufSize + fill'
        /\ Place(pos_in_start', pos_in_end', idx_in_reused', w + Len(ring'), pc')
    BY <1>2, <2>1, <2>2
  <2>4. RingInPage' /\ pc' # "panic" /\ why' = "none" /\ Len(cq') <= MaxBacklog
        /\ (\A i \in 1 .. Len(cq') : cq'[i] >= 1) /\ Uncut(cq', pos_in_end', Written')
    BY <1>6, <2>1 DEF RingInPage
  <2> QED
    BY <1>1, <2>3, <2>4 DEF DrainInv
<1>19. CASE FreeGap
  <2> DEFINE g == FreedIds(idx_in_reused, CurBuf)
  <2>1. /\ Return /\ ~RevolvedClean /\ idx_in_reused <= CurBuf
        /\ UNCHANGED <<pos_in_start, pos_in_end, fill, cq, why>>
        /\ ring' = ring \o g
        /\ idx_in_reused' = CurBuf /\ pc' = "idle" /\ Written' = Written
    BY <1>19 DEF FreeGap, Written, Unseen
  <2>2. /\ pos_in_start = pos_in_end /\ CurBuf \in Nat /\ CurBuf <= NBufs
        /\ (w + Len(ring)) + (CurBuf - idx_in_reused) = CurBuf + NBufs
        /\ Place(pos_in_start, pos_in_start, CurBuf, CurBuf + NBufs, "idle")
    BY <1>16, <2>1 DEF RevolvedClean
  <2>3. /\ g \in Seq(Nat) /\ Len(g) = CurBuf - idx_in_reused /\ Len(g) \in Nat
        /\ \A i \in 1 .. Len(g) : g[i] \in 0 .. NBufs - 1
    <3>1. CurBuf - idx_in_reused \in Nat
          /\ g = [i \in 1 .. CurBuf - idx_in_reused |-> idx_in_reused + i - 1]
      BY <1>3, <2>1, <2>2 DEF FreedIds
    <3> HIDE DEF g
    <3>2. g \in [1 .. CurBuf - idx_in_reused -> 0 .. NBufs - 1]
      BY <1>3, <1>4, <2>2, <3>1
    <3>3. g \in Seq(0 .. NBufs - 1) /\ Len(g) = CurBuf - idx_in_reused
      <4>1. PICK k \in Nat : k = CurBuf - idx_in_reused
        BY <3>1
      <4> DEFINE S == 0 .. NBufs - 1
      <4>2. g \in [1 .. k -> S]
        BY <3>2, <4>1
      <4> HIDE DEF S
      <4>3. g \in Seq(S) /\ Len(g) = k
        BY <4>2
      <4> QED
        BY <4>1, <4>3 DEF S
    <3> QED
      BY <1>4, <3>1, <3>2, <3>3
  <2> HIDE DEF g
  <2>4. /\ Len(ring') = Len(ring) + Len(g) /\ DOMAIN ring' = 1 .. Len(ring) + Len(g)
        /\ \A i \in 1 .. Len(ring) + Len(g) :
              ring'[i] = IF i <= Len(ring) THEN ring[i] ELSE g[i - Len(ring)]
    <3> DEFINE y == ring \o g
    <3>1. y \in Seq(Nat) /\ Len(y) = Len(ring) + Len(g)
      BY <1>3, <2>3, ConcatProperties
    <3>2. \A i \in 1 .. Len(ring) + Len(g) :
             y[i] = IF i <= Len(ring) THEN ring[i] ELSE g[i - Len(ring)]
      BY <1>3, <2>3, ConcatProperties, Zenon
    <3>3. ring' = y
      BY <2>1
    <3> HIDE DEF y
    <3>4. DOMAIN y = 1 .. Len(y)
      BY <3>1
    <3> QED
      BY <3>1, <3>2, <3>3, <3>4
  <2>5. RingInPage'
    <3> SUFFICES ASSUME NEW i \in 1 .. Len(ring) + Len(g) PROVE ring'[i] \in 0 .. NBufs - 1
      BY <2>4 DEF RingInPage
    <3>1. CASE i <= Len(ring)
      <4>1. i \in DOMAIN ring /\ ring'[i] = ring[i]
        BY <1>3, <2>4, <3>1
      <4> QED
        BY <1>6, <4>1 DEF RingInPage
    <3>2. CASE i > Len(ring)
      <4>1. i - Len(ring) \in 1 .. Len(g) /\ ring'[i] = g[i - Len(ring)]
        BY <1>3, <2>3, <2>4, <3>2
      <4> QED
        BY <2>3, <4>1
    <3> QED
      BY <1>3, <3>1, <3>2
  <2>6. w + Len(ring') = CurBuf + NBufs
    <3>1. PICK k \in Nat : k = Len(g)
      BY <2>3
    <3>2. k = CurBuf - idx_in_reused /\ Len(ring') = Len(ring) + k
      BY <2>3, <2>4, <3>1
    <3>3. w + (Len(ring) + k) = CurBuf + NBufs
      BY <1>3, <1>4, <2>2, <3>2
    <3> QED
      BY <3>2, <3>3
  <2>7. /\ Written' = w * BufSize + fill'
        /\ Place(pos_in_start', pos_in_end', idx_in_reused', w + Len(ring'), pc')
    BY <1>2, <2>1, <2>2, <2>6
  <2>8. pc' # "panic" /\ why' = "none" /\ Len(cq') <= MaxBacklog
        /\ (\A i \in 1 .. Len(cq') : cq'[i] >= 1) /\ Uncut(cq', pos_in_end', Written')
    BY <1>6, <2>1
  <2> QED
    BY <1>1, <2>5, <2>7, <2>8 DEF DrainInv
<1>20. CASE UNCHANGED vars
  BY <1>8, <1>20 DEF vars
<1> QED
  BY <1>9, <1>10, <1>11, <1>12, <1>13, <1>14, <1>15, <1>17, <1>18, <1>19, <1>20
     DEF Next, Stream

(* A buffer that is not in the ring holds unread input, or the cursor. *)
LEMMA DrainKeepsBuffers ==
    ASSUME Drained, DrainInv, WalkInv
    PROVE  NoBufferLost
<1> SUFFICES ASSUME pc = "idle", NEW b \in 0 .. NBufs - 1,
                    ~ \E i \in DOMAIN ring : ring[i] = b
             PROVE  \E p \in Unread \cup {pos_in_start % Cap} : p \div BufSize = b
  BY DEF NoBufferLost
<1>1. /\ BufSize \in Nat \ {0} /\ NBufs \in Nat \ {0} /\ Cap \in Nat \ {0} /\ Cap = NBufs * BufSize
  BY DrainedLimits
<1>2. /\ pos_in_start \in Nat /\ pos_in_end \in Nat /\ idx_in_reused \in Nat
      /\ ring \in Seq(Nat) /\ Len(ring) \in Nat /\ DOMAIN ring = 1 .. Len(ring)
      /\ fill \in 0 .. BufSize - 1
  BY DEF DrainInv, TypeInv, TypeOK
<1>3. /\ Written \in Nat /\ Unseen \in Nat /\ Written = pos_in_end + Unseen
      /\ pos_in_end + Unseen - 1 = Written - 1
  <2>1. Written \in Nat /\ Unseen \in Nat /\ Written = pos_in_end + Unseen
    BY WrittenMoves DEF DrainInv
  <2> QED
    BY <1>2, <2>1
<1>4. PICK w \in Nat :
         /\ Written = w * BufSize + fill
         /\ Place(pos_in_start, pos_in_end, idx_in_reused, w + Len(ring), pc)
  BY DEF DrainInv
<1> DEFINE x == idx_in_reused
<1>5. /\ x <= NBufs /\ w + Len(ring) = x + NBufs
      /\ x * BufSize <= pos_in_start /\ pos_in_start < x * BufSize + BufSize
  BY <1>4 DEF Place, InOneBuffer, JustTurned
<1>6. Walk(ring, w, x, CurBuf)
  <2>1. PICK v \in Nat : Written = v * BufSize + fill /\ Walk(ring, v, x, CurBuf)
    BY DEF WalkInv
  <2>2. v * BufSize = w * BufSize
    <3>1. v * BufSize \in Int /\ w * BufSize \in Int
      BY <1>1
    <3> QED
      BY <1>2, <1>4, <2>1, <3>1
  <2>3. v = w
    <3>1. v * BufSize < w * BufSize + BufSize /\ w * BufSize < v * BufSize + BufSize
      BY <1>1, <2>2
    <3> QED
      BY <1>1, <3>1, MulGap
  <2> QED
    BY <2>1, <2>3
<1>7. PICK j \in Nat : /\ x <= j /\ j < x + NBufs /\ (j = b \/ j = b + NBufs)
  <2>1. CASE x <= b
    <3>1. b \in Nat /\ b < x + NBufs
      BY <1>1, <1>2
    <3> QED
      BY <2>1, <3>1
  <2>2. CASE b < x
    <3>1. b + NBufs \in Nat /\ x <= b + NBufs /\ b + NBufs < x + NBufs
      BY <1>1, <1>2, <1>5, <2>2
    <3> QED
      BY <3>1
  <2> QED
    BY <1>2, <2>1, <2>2
<1>8. SameBuf(j, b) /\ b \in Int
  <2>1. j = b + 0 * NBufs \/ j = b + 1 * NBufs
    BY <1>1, <1>7
  <2> QED
    BY <2>1 DEF SameBuf
<1>9. j < w
  <2> SUFFICES ASSUME w <= j PROVE FALSE
    OBVIOUS
  <2> DEFINE i == j - w + 1
  <2>1. i \in 1 .. Len(ring) /\ w + i - 1 = j
    BY <1>1, <1>2, <1>5, <1>7
  <2> HIDE DEF i
  <2>2. ring[i] \in 0 .. NBufs - 1
    BY <1>2, <2>1 DEF DrainInv, RingInPage
  <2>3. SameBuf(j, ring[i])
    <3>1. ring[i] < NBufs
      BY <1>1, <2>2
    <3> QED
      BY <1>6, <2>1, <3>1 DEF Walk
  <2>4. PICK m \in Int : j = ring[i] + m * NBufs
    BY <2>3 DEF SameBuf
  <2>5. PICK n \in Int : j = b + n * NBufs
    BY <1>8 DEF SameBuf
  <2>6. m * NBufs < n * NBufs + NBufs /\ n * NBufs < m * NBufs + NBufs
    <3>1. m * NBufs \in Int /\ n * NBufs \in Int
      BY <1>1
    <3> QED
      BY <1>1, <2>2, <2>4, <2>5, <3>1
  <2>7. m = n
    BY <1>1, <2>6, MulGap
  <2>8. ring[i] = b
    <3>1. m * NBufs \in Int
      BY <1>1
    <3> QED
      BY <2>2, <2>4, <2>5, <2>7, <3>1
  <2> QED
    BY <1>2, <2>1, <2>8
<1>10. ASSUME NEW k \in 0 .. BufSize - 1
       PROVE  ((j * BufSize + k) % Cap) \div BufSize = b
  <2>1. (j * BufSize + k) % Cap = b * BufSize + k
    BY <1>8, SameByte
  <2>2. (b * BufSize + k) \div BufSize = b
    BY <1>1, DivUnique
  <2> QED
    BY <2>1, <2>2
<1>11. CASE j = x
  <2> DEFINE k == pos_in_start - x * BufSize
  <2>1. k \in 0 .. BufSize - 1 /\ j * BufSize + k = pos_in_start
    <3>1. x * BufSize \in Int
      BY <1>1, <1>2
    <3> QED
      BY <1>1, <1>2, <1>5, <1>11, <3>1
  <2> HIDE DEF k
  <2>2. (pos_in_start % Cap) \div BufSize = b
    BY <1>10, <2>1
  <2> QED
    BY <2>2
<1>12. CASE j # x
  <2>1. 0 \in 0 .. BufSize - 1 /\ j * BufSize + 0 = j * BufSize /\ j * BufSize \in Int
    BY <1>1
  <2>2. ((j * BufSize) % Cap) \div BufSize = b
    BY <1>10, <2>1
  <2>3. j * BufSize \in pos_in_start .. Written - 1
    <3>1. (x + 1) * BufSize <= j * BufSize /\ (j + 1) * BufSize <= w * BufSize
      BY <1>1, <1>2, <1>7, <1>9, <1>12, MulMono
    <3>2. /\ (x + 1) * BufSize = x * BufSize + BufSize /\ (j + 1) * BufSize = j * BufSize + BufSize
          /\ x * BufSize \in Int /\ w * BufSize \in Int
      BY <1>1, <1>2
    <3>3. pos_in_start \in Int /\ Written \in Int /\ BufSize \in Nat \ {0} /\ fill \in Nat
      BY <1>1, <1>2, <1>3
    <3>4. pos_in_start < x * BufSize + BufSize /\ Written = w * BufSize + fill
      BY <1>4, <1>5
    <3> DEFINE X == x * BufSize
               W == w * BufSize
               J == j * BufSize
    <3>5. /\ X \in Int /\ W \in Int /\ J \in Int
          /\ X + BufSize <= J /\ J + BufSize <= W
          /\ pos_in_start < X + BufSize /\ Written = W + fill
      BY <2>1, <3>1, <3>2, <3>4
    <3> HIDE DEF X, W, J, Written
    <3>6. J \in pos_in_start .. Written - 1
      BY <3>3, <3>5
    <3> QED
      BY <3>6 DEF J
  <2>4. (j * BufSize) % Cap \in Unread
    <3>1. j * BufSize \in pos_in_start .. pos_in_end + Unseen - 1
      BY <1>3, <2>3, Zenon
    <3> QED
      BY <3>1, Zenon DEF Unread
  <2> QED
    BY <2>2, <2>4
<1> QED
  BY <1>11, <1>12

(* As long as the callback reads all it is shown, segments are shorter than half
   a buffer and the backlog leaves the kernel a buffer, no check of the receive
   path panics: neither the one on the result of a receive, nor the one in
   left_set_lens, nor the one in try_free_buffers. *)
THEOREM DrainedNeverPanics ==
    ASSUME Drained
    PROVE  Spec => []NoPanic
<1>1. DrainInv => NoPanic
  BY DEF DrainInv, NoPanic
<1>2. Init => DrainInv
  BY DrainInit
<1>3. DrainInv /\ [Next]_vars => DrainInv'
  BY DrainStep
<1> QED
  BY <1>1, <1>2, <1>3, PTL DEF Spec

(* With them the assertion of try_free_buffers holds, which segments of half a
   buffer break. *)
THEOREM DrainedReuseBehindCursor ==
    ASSUME Drained
    PROVE  Spec => []ReuseBehindCursor
<1>1. DrainInv => ReuseBehindCursor
  BY DEF DrainInv, ReuseBehindCursor
<1>2. Init => DrainInv
  BY DrainInit
<1>3. DrainInv /\ [Next]_vars => DrainInv'
  BY DrainStep
<1> QED
  BY <1>1, <1>2, <1>3, PTL DEF Spec

(* And try_free_buffers loses no buffer: between handlers each one is the
   kernel's, or holds input the callback has not seen, or is where it reads. *)
THEOREM DrainedLosesNoBuffer ==
    ASSUME Drained
    PROVE  Spec => []NoBufferLost
<1>1. DrainInv /\ WalkInv => NoBufferLost
  BY DrainKeepsBuffers
<1>2. Init => DrainInv /\ WalkInv
  BY DrainInit, WalkInit
<1>3. DrainInv /\ WalkInv /\ [Next]_vars => DrainInv' /\ WalkInv'
  <2>1. NBufs >= 2
    BY DEF Drained
  <2> QED
    BY <2>1, DrainStep, WalkStep
<1> QED
  BY <1>1, <1>2, <1>3, PTL DEF Spec
=============================================================================
