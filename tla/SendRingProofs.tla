--------------------------- MODULE SendRingProofs ---------------------------
(***************************************************************************)
(* What SendRing guarantees for every buffer size, ring length and limit:  *)
(* its type, that the pending counters never underflow, and, while the     *)
(* callback queues little enough output, that a zero-copy buffer is not    *)
(* written while the kernel reads it and that every queued byte is         *)
(* submitted.                                                              *)
(***************************************************************************)
EXTENDS SendRing, Counting, TLAPS

-----------------------------------------------------------------------------
(* Arithmetic.                                                             *)

(* div_ceil is the least number of buffers that holds the bytes. *)
LEMMA CeilDivBounds ==
    ASSUME NEW a \in Nat, NEW s \in Nat \ {0}
    PROVE  /\ CeilDiv(a, s) \in Nat
           /\ (CeilDiv(a, s) - 1) * s < a
           /\ a <= CeilDiv(a, s) * s
<1> DEFINE q == (a + s - 1) \div s
<1>1. a + s - 1 \in Nat
  OBVIOUS
<1>2. q \in Int /\ q * s <= a + s - 1 /\ a + s - 1 < (q + 1) * s
  BY <1>1
<1>3. (q + 1) * s = q * s + s /\ (q - 1) * s = q * s - s
  BY <1>2
<1>4. q >= 0
  <2>1. 0 * s < (q + 1) * s
    BY <1>1, <1>2
  <2>2. 0 < q + 1
    BY <2>1, <1>2, MulCancel
  <2> QED
    BY <2>2, <1>2
<1> QED
  BY <1>2, <1>3, <1>4 DEF CeilDiv

-----------------------------------------------------------------------------
(* Type correctness, whatever the callback does and whatever goes wrong.   *)

(* pos_out_start is where some buffer of the ring begins, and the chunk loop
   stands at a buffer of the ring with bytes left to count. *)
Aligned ==
    /\ \E k \in 0 .. NBufs - 1 : pos_out_start = k * BufSize
    /\ pc = "chunk" => /\ buf_id \in 0 .. NBufs - 1
                       /\ sent_out <= total_out_len

TypeInv == TypeOK /\ Aligned

(* A completion of one send leaves the others, and every buffer, alone. *)
LEMMA UpdatedOps ==
    ASSUME NEW o \in Seq(Op), NEW i \in DOMAIN o, NEW x \in Op,
           x.buf = o[i].buf
    PROVE  LET u == [o EXCEPT ![i] = x] IN
           /\ u \in Seq(Op) /\ Len(u) = Len(o)
           /\ \A j \in 1 .. Len(o) : u[j].buf = o[j].buf
<1> DEFINE u == [o EXCEPT ![i] = x]
<1>1. u \in [1 .. Len(o) -> Op] /\ DOMAIN u = 1 .. Len(o)
  OBVIOUS
<1>2. u \in Seq(Op) /\ Len(u) = Len(o)
  BY <1>1
<1>3. \A j \in 1 .. Len(o) : u[j] = IF j = i THEN x ELSE o[j]
  OBVIOUS
<1> QED
  BY <1>2, <1>3

(* What the kernel and the handlers do to the sends. *)
LEMMA OpsUpdate ==
    ASSUME TypeOK, NEW i \in DOMAIN ops,
           \/ KernelAck(i) \/ KernelNotif(i) \/ HandleAck(i) \/ HandleAckError(i)
    PROVE  /\ ops' \in Seq(Op) /\ Len(ops') = Len(ops)
           /\ \A j \in 1 .. Len(ops) : ops'[j].buf = ops[j].buf
<1>1. ops \in Seq(Op) /\ ops[i] \in Op
  BY DEF TypeOK
<1>2. CASE KernelAck(i)
  <2>1. PICK r \in Results(ops[i].len) :
           ops' = [ops EXCEPT ![i].ack = "posted", ![i].res = r]
    BY <1>2 DEF KernelAck
  <2>2. r \in Int
    BY <1>1, <2>1 DEF Results, Op
  <2> DEFINE x == [ops[i] EXCEPT !.ack = "posted", !.res = r]
  <2>3. x \in Op /\ x.buf = ops[i].buf
    BY <1>1, <2>2 DEF Op
  <2>4. ops' = [ops EXCEPT ![i] = x]
    BY <2>1, <1>1 DEF Op
  <2> QED
    BY ONLY <1>1, <2>3, <2>4, UpdatedOps, i \in DOMAIN ops
<1>3. CASE KernelNotif(i)
  <2> DEFINE x == [ops[i] EXCEPT !.fin = TRUE]
  <2>1. x \in Op /\ x.buf = ops[i].buf
    BY <1>1 DEF Op
  <2>2. ops' = [ops EXCEPT ![i] = x]
    BY <1>3 DEF KernelNotif
  <2> QED
    BY ONLY <1>1, <2>1, <2>2, UpdatedOps, i \in DOMAIN ops
<1>4. CASE HandleAck(i) \/ HandleAckError(i)
  <2> DEFINE x == [ops[i] EXCEPT !.ack = "seen"]
  <2>1. x \in Op /\ x.buf = ops[i].buf
    BY <1>1 DEF Op
  <2>2. ops' = [ops EXCEPT ![i] = x]
    BY <1>4 DEF HandleAck, HandleAckError
  <2> QED
    BY ONLY <1>1, <2>1, <2>2, UpdatedOps, i \in DOMAIN ops
<1> QED
  BY <1>2, <1>3, <1>4

(* Of the sends left by a dropped bundle, each is one there was before, k places
   further on, with nothing more outstanding. *)
LEMMA OpsDropped ==
    ASSUME TypeOK, DropCompletions
    PROVE  \E n \in Nat, k \in Nat :
              /\ Len(ops) = n + k /\ ops' \in Seq(Op) /\ Len(ops') = n
              /\ \A j \in 1 .. n :
                    /\ j + k \in 1 .. Len(ops)
                    /\ \/ ops'[j] = ops[j + k]
                       \/ /\ ops'[j].ack = "seen" /\ ops'[j].len = ops[j + k].len
                          /\ ops'[j].res = ops[j + k].res
<1>1. Len(ops) \in Nat /\ \A j \in 1 .. Len(ops) : ops[j] \in Op
  BY ElementOfSeq DEF TypeOK
<1>2. PICK D \in SUBSET {i \in DOMAIN ops : ops[i].ack = "posted"}, k \in 0 .. Len(ops) :
         ops' = [i \in 1 .. Len(ops) - k |->
                   IF i + k \in D THEN [ops[i + k] EXCEPT !.ack = "seen"]
                                  ELSE ops[i + k]]
  BY DEF DropCompletions
<1>3. PICK n \in Nat : n = Len(ops) - k /\ Len(ops) = n + k
  BY <1>1
<1>4. \A j \in 1 .. n : j + k \in 1 .. Len(ops)
  BY <1>1, <1>3
<1>5. ASSUME NEW j \in 1 .. n
      PROVE  /\ ops'[j] \in Op
             /\ \/ ops'[j] = ops[j + k]
                \/ /\ ops'[j].ack = "seen" /\ ops'[j].len = ops[j + k].len
                   /\ ops'[j].res = ops[j + k].res
  <2>1. ops[j + k] \in Op
    BY <1>1, <1>4
  <2>2. ops'[j] = IF j + k \in D THEN [ops[j + k] EXCEPT !.ack = "seen"] ELSE ops[j + k]
    BY <1>2, <1>3
  <2> QED
    BY <2>1, <2>2 DEF Op
<1>6. ops' \in [1 .. n -> Op]
  BY <1>2, <1>3, <1>5
<1>7. ops' \in Seq(Op) /\ Len(ops') = n
  BY <1>6
<1>8. n \in Nat /\ k \in Nat /\ Len(ops) = n + k
  BY <1>1, <1>3
<1> QED
  BY ONLY <1>4, <1>5, <1>7, <1>8

(* A new stream is well typed. *)
LEMMA TypeInit == Init => TypeInv
<1> SUFFICES ASSUME Init PROVE TypeInv
  OBVIOUS
<1>1. 0 \in 0 .. NBufs - 1 /\ pos_out_start = 0 * BufSize
  BY SendAssumption DEF Init
<1>2. ops \in Seq(Op)
  BY DEF Init
<1>3. caller = "accept"
  BY DEF Init
<1>4. TypeOK
  BY <1>2, <1>3, SendAssumption DEF Init, TypeOK
<1>5. Aligned
  BY <1>1 DEF Init, Aligned
<1> QED
  BY <1>4, <1>5 DEF TypeInv

(* Every step keeps the types. *)
LEMMA TypeStep == TypeInv /\ [Next]_vars => TypeInv'
<1> SUFFICES ASSUME TypeInv, [Next]_vars PROVE TypeInv'
  OBVIOUS
<1> USE SendAssumption
<1>1. TypeOK /\ Aligned
  BY DEF TypeInv
<1>2. CASE UNCHANGED vars
  BY <1>1, <1>2 DEF TypeInv, TypeOK, Aligned, vars, cursor, pending, locals
<1>3. CASE Kernel
  <2>1. PICK i \in DOMAIN ops : KernelAck(i) \/ KernelNotif(i)
    BY <1>3 DEF Kernel
  <2>2. ops' \in Seq(Op)
    BY <1>1, <2>1, OpsUpdate
  <2>3. UNCHANGED <<cursor, pending, pc, caller, locals>>
    BY <2>1 DEF KernelAck, KernelNotif
  <2> QED
    BY <1>1, <2>2, <2>3 DEF TypeInv, TypeOK, Aligned, cursor, pending, locals
<1>4. CASE Handler
  <2>1. CASE HandleRecv
    BY <1>1, <2>1 DEF HandleRecv, StartCallback, TypeInv, TypeOK, Aligned,
                      cursor, pending, locals
  <2>2. CASE HandleNotif
    <3>1. ops' \in Seq(Op)
      BY <1>1, <2>2 DEF HandleNotif, TypeOK
    <3>2. pending_sends' \in Int /\ pending_bufs' \in Int
      BY <1>1, <2>2 DEF HandleNotif, SentZc, TypeOK
    <3>3. UNCHANGED <<cursor, locals>> /\ pc' = "cb" /\ caller' = "loop"
      BY <2>2 DEF HandleNotif, StartCallback
    <3> QED
      BY <1>1, <3>1, <3>2, <3>3 DEF TypeInv, TypeOK, Aligned, cursor, locals
  <2>3. ASSUME NEW i \in DOMAIN ops, HandleAck(i)
        PROVE  TypeInv'
    <3>1. ops' \in Seq(Op)
      BY <1>1, <2>3, OpsUpdate
    <3>2. ops[i] \in Op
      BY <1>1 DEF TypeOK
    <3>3. ops[i].res \in Int
      BY <3>2 DEF Op
    <3>4. SentZc(ops[i].res, TRUE)
      BY <2>3 DEF HandleAck
    <3>5. pending_sends' \in Int /\ pending_bufs' \in Int
      BY <1>1, <3>3, <3>4 DEF SentZc, TypeOK
    <3>6. UNCHANGED <<cursor, locals>> /\ pc' = "cb" /\ caller' = "loop"
      BY <2>3 DEF HandleAck, StartCallback
    <3> QED
      BY <1>1, <3>1, <3>5, <3>6 DEF TypeInv, TypeOK, Aligned, cursor, locals
  <2>4. ASSUME NEW i \in DOMAIN ops, HandleAckError(i)
        PROVE  TypeInv'
    <3>1. ops' \in Seq(Op)
      BY <1>1, <2>4, OpsUpdate
    <3> QED
      BY <1>1, <2>4, <3>1 DEF HandleAckError, TypeInv, TypeOK, Aligned,
                              cursor, pending, locals
  <2>5. CASE HandleShutdown
    BY <1>1, <2>5 DEF HandleShutdown, TypeInv, TypeOK, Aligned,
                      cursor, pending, locals
  <2>6. CASE BundleDropped
    <3>1. ops' \in Seq(Op)
      BY <1>1, <2>6, OpsDropped DEF BundleDropped
    <3> QED
      BY <1>1, <2>6, <3>1 DEF BundleDropped, TypeInv, TypeOK, Aligned,
                              cursor, pending, locals
  <2> QED
    BY <1>4, <2>1, <2>2, <2>3, <2>4, <2>5, <2>6 DEF Handler
<1>5. ASSUME NEW n \in 0 .. MaxQueueBufs * BufSize,
             Callback(n) \/ CallbackOverCapacity(n)
      PROVE  TypeInv'
  <2>1. idx_out_cur * BufSize \in Nat /\ n \in Nat
    BY <1>1 DEF TypeOK
  <2>2. pos_out_end' \in Nat
    BY <1>1, <1>5, <2>1 DEF Callback, CallbackOverCapacity, TypeOK, cursor
  <2>3. /\ UNCHANGED <<pos_out_start, idx_out_cur, pending, ops, caller, locals>>
        /\ pc' \in {"send", "panic"}
    BY <1>5 DEF Callback, CallbackOverCapacity, cursor
  <2> QED
    BY <1>1, <2>2, <2>3 DEF TypeInv, TypeOK, Aligned, pending, locals
<1>6. CASE SendNothing \/ SendUnderflow \/ Close
  BY <1>1, <1>6 DEF SendNothing, SendUnderflow, Close, TypeInv, TypeOK,
                    Aligned, cursor, pending, locals
<1>9. CASE SendChunkFails
  <2>1. ops' \in Seq(Op)
    BY <1>1, <1>9, OpsDropped DEF SendChunkFails
  <2> QED
    BY <1>1, <1>9, <2>1 DEF SendChunkFails, TypeInv, TypeOK, Aligned,
                            cursor, pending, locals
<1>7. CASE SendBegin
  <2>1. PICK k \in 0 .. NBufs - 1 : pos_out_start = k * BufSize
    BY <1>1 DEF Aligned
  <2>2. buf_id' = k
    BY <1>7, <2>1, DivMul DEF SendBegin
  <2>3. pos_out_end - pos_out_start \in Nat
    BY <1>1, <1>7 DEF SendBegin, TypeOK
  <2>4. chunks' \in Nat
    BY <1>7, <2>3, CeilDivBounds DEF SendBegin
  <2> QED
    BY <1>1, <1>7, <2>2, <2>3, <2>4 DEF SendBegin, TypeInv, TypeOK, Aligned,
                                        cursor, pending
<1>8. CASE SendChunk
  <2>1. /\ total_out_len - sent_out \in Nat
        /\ buf_id \in 0 .. NBufs - 1
    BY <1>1, <1>8 DEF SendChunk, Aligned, TypeOK
  <2>2. ChunkLen \in Nat /\ ChunkLen <= total_out_len - sent_out
    BY <2>1 DEF ChunkLen, MinOf
  <2>3. ops' \in Seq(Op)
    <3>1. [buf |-> buf_id, len |-> ChunkLen, ack |-> "none", res |-> 0,
           fin |-> FALSE] \in Op
      BY <2>1, <2>2 DEF Op
    <3> QED
      BY <1>1, <1>8, <3>1 DEF SendChunk, TypeOK
  <2>4. /\ sent_out' \in Nat /\ sent_out' <= total_out_len'
        /\ total_out_len' \in Nat /\ chunks' \in Nat /\ chunk_no' \in Nat
        /\ buf_id' \in Nat
        /\ pending_sends' \in Int /\ pending_bufs' \in Int
    BY <1>1, <1>8, <2>1, <2>2 DEF SendChunk, TypeOK
  <2>5. \E k \in 0 .. NBufs - 1 : pos_out_start' = k * BufSize
    <3>1. CASE Wraps
      <4>1. pos_out_start' = 0 * BufSize /\ 0 \in 0 .. NBufs - 1
        BY <1>8, <3>1 DEF SendChunk
      <4> QED
        BY <4>1
    <3>2. CASE ~Wraps
      <4>1. pos_out_start' = (buf_id + 1) * BufSize /\ buf_id + 1 \in 0 .. NBufs - 1
        BY <1>8, <2>1, <3>2 DEF SendChunk, Wraps
      <4> QED
        BY <4>1
    <3> QED
      BY <3>1, <3>2
  <2>6. /\ pos_out_start' \in Nat /\ pos_out_end' \in Nat
        /\ idx_out_cur' \in 0 .. NBufs - 1
    BY <1>1, <1>8, <2>1 DEF SendChunk, Wraps, MaxOf, TypeOK
  <2>7. /\ pc' = "chunk" => buf_id' \in 0 .. NBufs - 1
        /\ pc' \in {"chunk", "cb", "idle"}
    BY <1>8, <2>1 DEF SendChunk, Wraps
  <2>8. caller' \in {"accept", "loop", "shutdown"}
    BY <1>1, <1>8 DEF SendChunk, TypeOK
  <2> QED
    BY <2>3, <2>4, <2>5, <2>6, <2>7, <2>8 DEF TypeInv, TypeOK, Aligned
<1> QED
  BY <1>2, <1>3, <1>4, <1>5, <1>6, <1>7, <1>8, <1>9 DEF Next, SendAllOut

(* The stream's positions and counters keep their types, for every ring and
   every fault: in particular idx_out_cur never leaves the ring, so the slice
   left_bufs_mut takes from it exists. *)
THEOREM TypeCorrect == Spec => []TypeOK
<1>1. TypeInv => TypeOK
  BY DEF TypeInv
<1> QED
  BY <1>1, TypeInit, TypeStep, PTL DEF Spec

-----------------------------------------------------------------------------
(* The counters, whatever the callback does and whatever goes wrong.       *)

(* The kernel reports no more bytes than were sent. *)
ResultsBounded ==
    \A i \in 1 .. Len(ops) : ops[i].ack = "posted" => ops[i].res <= ops[i].len

CoverInv == TypeInv /\ ResultsBounded /\ CountersCoverKernel

(* What each send of o has outstanding. *)
Due(o) == [i \in 1 .. Len(o) |-> Outstanding(o[i])]

(* A number of bytes. *)
LEMMA OutstandingType ==
    ASSUME NEW x \in Op
    PROVE  Outstanding(x) \in Nat
<1>1. /\ x.ack \in {"none", "posted", "seen"} /\ x.len \in Nat /\ x.res \in Int
  BY DEF Op
<1> QED
  BY <1>1 DEF Outstanding, MaxOf

(* Each send of a queue has a number of bytes outstanding, and so has the queue. *)
LEMMA DueType ==
    ASSUME NEW o \in Seq(Op)
    PROVE  /\ Len(o) \in Nat /\ DOMAIN o = 1 .. Len(o)
           /\ Due(o) \in [1 .. Len(o) -> Nat] /\ Total(Due(o)) \in Nat
<1>1. Len(o) \in Nat /\ DOMAIN o = 1 .. Len(o) /\ \A i \in 1 .. Len(o) : o[i] \in Op
  BY ElementOfSeq
<1>2. Due(o) \in [1 .. Len(o) -> Nat]
  BY <1>1, OutstandingType DEF Due
<1> QED
  BY <1>1, <1>2, TotalType

(* The bytes still to be subtracted are the sum of what is outstanding. *)
LEMMA ToSubtractTotal ==
    ASSUME NEW o \in Seq(Op)
    PROVE  Cardinality(UNION {{i} \X (1 .. Outstanding(o[i])) : i \in DOMAIN o}) = Total(Due(o))
<1>1. DOMAIN o = 1 .. Len(o) /\ DOMAIN Due(o) = 1 .. Len(o)
  BY DueType DEF Due
<1>2. \A i \in 1 .. Len(o) : Due(o)[i] = Outstanding(o[i])
  BY DEF Due
<1>3. UNION {{i} \X (1 .. Outstanding(o[i])) : i \in DOMAIN o} = Columns(Due(o), DOMAIN Due(o))
  BY <1>1, <1>2 DEF Columns
<1> QED
  BY <1>3 DEF Total

(* One send changes. *)
LEMMA OneSend ==
    ASSUME NEW o \in Seq(Op), NEW i \in DOMAIN o, NEW x \in Op, NEW u \in Seq(Op),
           Len(u) = Len(o),
           \A j \in 1 .. Len(o) : u[j] = IF j = i THEN x ELSE o[j]
    PROVE  /\ o[i] \in Op /\ Total(Due(u)) \in Nat /\ Total(Due(o)) \in Nat
           /\ Total(Due(u)) + Outstanding(o[i]) = Total(Due(o)) + Outstanding(x)
<1>1. /\ Len(o) \in Nat /\ DOMAIN o = 1 .. Len(o) /\ i \in 1 .. Len(o)
      /\ o[i] \in Op
  OBVIOUS
<1>2. /\ Due(o) \in [1 .. Len(o) -> Nat] /\ Due(u) \in [1 .. Len(o) -> Nat]
      /\ Total(Due(u)) \in Nat /\ Total(Due(o)) \in Nat
  BY <1>1, DueType
<1>3. /\ Due(o)[i] = Outstanding(o[i]) /\ Due(u)[i] = Outstanding(x)
      /\ \A j \in 1 .. Len(o) : j # i => Due(u)[j] = Due(o)[j]
  BY <1>1 DEF Due
<1>4. Total(Due(u)) + Due(o)[i] = Total(Due(o)) + Due(u)[i]
  BY <1>1, <1>2, <1>3, TotalUpdate
<1> QED
  BY <1>1, <1>2, <1>3, <1>4

(* A step that leaves sends and counters alone. *)
LEMMA CoverIdle ==
    ASSUME CoverInv, TypeInv', UNCHANGED <<ops, pending_sends, pending_bufs>>
    PROVE  CoverInv'
BY DEF CoverInv, ResultsBounded, CountersCoverKernel, ToSubtract

(* A completion of a send is posted or handled: what is outstanding falls by no
   less than what is subtracted. *)
LEMMA CoverCompletion ==
    ASSUME CoverInv, TypeInv', NEW i \in DOMAIN ops, NEW x \in Op,
           Len(ops') = Len(ops),
           \A j \in 1 .. Len(ops) : ops'[j] = IF j = i THEN x ELSE ops[j],
           pending_bufs' = pending_bufs,
           x.ack = "posted" => x.res <= x.len,
           pending_sends' \in Int,
           pending_sends' - pending_sends >= Outstanding(x) - Outstanding(ops[i])
    PROVE  CoverInv'
<1>1. ops \in Seq(Op) /\ ops' \in Seq(Op) /\ pending_sends \in Int
  BY DEF CoverInv, TypeInv, TypeOK
<1>2. /\ Len(ops') = Len(ops)
      /\ \A j \in 1 .. Len(ops) : ops'[j] = IF j = i THEN x ELSE ops[j]
  OBVIOUS
<1>3. /\ ops[i] \in Op /\ Total(Due(ops')) \in Nat /\ Total(Due(ops)) \in Nat
      /\ Total(Due(ops')) + Outstanding(ops[i]) = Total(Due(ops)) + Outstanding(x)
  BY <1>1, <1>2, OneSend
<1>4. Outstanding(x) \in Nat /\ Outstanding(ops[i]) \in Nat
  BY <1>3, OutstandingType
<1>5. pending_sends >= Total(Due(ops)) /\ pending_bufs >= Len(ops)
  BY <1>1, ToSubtractTotal DEF CoverInv, CountersCoverKernel, ToSubtract
<1>6. pending_sends' >= Total(Due(ops'))
  BY <1>1, <1>3, <1>4, <1>5
<1>7. CountersCoverKernel'
  BY <1>1, <1>2, <1>5, <1>6, ToSubtractTotal DEF CountersCoverKernel, ToSubtract
<1>8. ResultsBounded'
  BY <1>2 DEF CoverInv, ResultsBounded
<1> QED
  BY <1>7, <1>8 DEF CoverInv

(* An error drops completions: the counters stay where they are. *)
LEMMA CoverDropped ==
    ASSUME CoverInv, TypeInv', DropCompletions, UNCHANGED pending
    PROVE  CoverInv'
<1>1. TypeOK /\ ops \in Seq(Op) /\ ops' \in Seq(Op) /\ pending_sends \in Int
      /\ pending_bufs \in Int
  BY DEF CoverInv, TypeInv, TypeOK
<1>2. PICK n \in Nat, k \in Nat :
         /\ Len(ops) = n + k /\ Len(ops') = n
         /\ \A j \in 1 .. n :
               /\ j + k \in 1 .. Len(ops)
               /\ \/ ops'[j] = ops[j + k]
                  \/ /\ ops'[j].ack = "seen" /\ ops'[j].len = ops[j + k].len
                     /\ ops'[j].res = ops[j + k].res
  BY <1>1, OpsDropped
<1>3. /\ Due(ops') \in [1 .. n -> Nat] /\ Due(ops) \in [1 .. n + k -> Nat]
      /\ Total(Due(ops')) \in Nat /\ Total(Due(ops)) \in Nat
  BY <1>1, <1>2, DueType
<1>4. ASSUME NEW j \in 1 .. n
      PROVE  Due(ops')[j] <= Due(ops)[j + k]
  <2>1. /\ Due(ops')[j] = Outstanding(ops'[j]) /\ j + k \in 1 .. Len(ops)
        /\ Due(ops)[j + k] = Outstanding(ops[j + k])
    BY <1>2 DEF Due
  <2>2. Due(ops)[j + k] \in Nat
    BY <1>2, <1>3, <2>1
  <2>3. CASE ops'[j] = ops[j + k]
    BY <2>1, <2>2, <2>3
  <2>4. CASE ops'[j].ack = "seen"
    <3>1. Outstanding(ops'[j]) = 0
      BY <2>4 DEF Outstanding
    <3> QED
      BY <2>1, <2>2, <3>1
  <2> QED
    BY <1>2, <2>3, <2>4
<1>5. Total(Due(ops')) <= Total(Due(ops))
  BY <1>3, <1>4, TotalLe
<1>6. pending_sends >= Total(Due(ops)) /\ pending_bufs >= Len(ops)
  BY <1>1, ToSubtractTotal DEF CoverInv, CountersCoverKernel, ToSubtract
<1>7. pending_sends' = pending_sends /\ pending_bufs' = pending_bufs
  BY DEF pending
<1>8. pending_sends' >= Total(Due(ops')) /\ pending_bufs' >= Len(ops')
  BY <1>1, <1>2, <1>3, <1>5, <1>6, <1>7
<1>9. CountersCoverKernel'
  BY <1>1, <1>8, ToSubtractTotal DEF CountersCoverKernel, ToSubtract
<1>10. ResultsBounded'
  BY <1>2 DEF CoverInv, ResultsBounded
<1> QED
  BY <1>9, <1>10 DEF CoverInv

(* Every step keeps the counters above what is outstanding. *)
LEMMA CoverStep == CoverInv /\ [Next]_vars => CoverInv'
<1> SUFFICES ASSUME CoverInv, [Next]_vars PROVE CoverInv'
  OBVIOUS
<1>1. /\ TypeInv /\ TypeOK /\ TypeInv' /\ ops \in Seq(Op) /\ ops' \in Seq(Op)
      /\ pending_sends \in Int /\ pending_bufs \in Int
  BY TypeStep DEF CoverInv, TypeInv, TypeOK
<1>2. ASSUME NEW i \in DOMAIN ops
      PROVE  /\ ops[i] \in Op /\ ops[i].len \in Nat /\ ops[i].res \in Int
             /\ ops[i].ack \in {"none", "posted", "seen"}
             /\ ops[i].ack = "posted" => ops[i].res <= ops[i].len
  <2>1. ops[i] \in Op /\ i \in 1 .. Len(ops)
    BY <1>1
  <2> QED
    BY <2>1 DEF Op, CoverInv, ResultsBounded
<1>3. ASSUME NEW i \in DOMAIN ops, KernelAck(i) PROVE CoverInv'
  <2>1. PICK r \in Results(ops[i].len) :
           ops' = [ops EXCEPT ![i].ack = "posted", ![i].res = r]
    BY <1>3 DEF KernelAck
  <2>2. r \in Int /\ r <= ops[i].len /\ ops[i].ack = "none"
    BY <1>2, <1>3, <2>1 DEF Results, KernelAck
  <2> DEFINE x == [ops[i] EXCEPT !.ack = "posted", !.res = r]
  <2>3. x \in Op /\ x.ack = "posted" /\ x.res = r /\ x.len = ops[i].len
    BY <1>2, <2>2 DEF Op
  <2>4. ops' = [ops EXCEPT ![i] = x]
    BY <2>1, <1>2 DEF Op
  <2>5. Outstanding(x) \in Nat /\ Outstanding(x) <= Outstanding(ops[i]) /\ Outstanding(ops[i]) \in Nat
    <3> HIDE DEF x
    <3> QED
      BY <1>2, <2>2, <2>3 DEF Outstanding, MaxOf
  <2>6. UNCHANGED <<pending_sends, pending_bufs>>
    BY <1>3 DEF KernelAck, pending
  <2>7. pending_sends' - pending_sends >= Outstanding(x) - Outstanding(ops[i])
    BY <1>1, <2>5, <2>6
  <2> HIDE DEF x
  <2> QED
    BY <1>1, <2>2, <2>3, <2>4, <2>6, <2>7, CoverCompletion
<1>4. ASSUME NEW i \in DOMAIN ops, KernelNotif(i) PROVE CoverInv'
  <2> DEFINE x == [ops[i] EXCEPT !.fin = TRUE]
  <2>1. x \in Op /\ x.ack = ops[i].ack /\ x.res = ops[i].res /\ x.len = ops[i].len
    BY <1>2 DEF Op
  <2>2. ops' = [ops EXCEPT ![i] = x]
    BY <1>4 DEF KernelNotif
  <2>3. UNCHANGED <<pending_sends, pending_bufs>>
    BY <1>4 DEF KernelNotif, pending
  <2> HIDE DEF x
  <2>4. Outstanding(x) = Outstanding(ops[i]) /\ Outstanding(x) \in Nat
    BY <2>1, OutstandingType DEF Outstanding
  <2>5. pending_sends' - pending_sends >= Outstanding(x) - Outstanding(ops[i])
    BY <1>1, <2>3, <2>4
  <2> QED
    BY <1>1, <1>2, <2>1, <2>2, <2>3, <2>5, CoverCompletion
<1>5. ASSUME NEW i \in DOMAIN ops, HandleAck(i) \/ HandleAckError(i) PROVE CoverInv'
  <2> DEFINE x == [ops[i] EXCEPT !.ack = "seen"]
  <2>1. x \in Op /\ x.ack = "seen"
    BY <1>2 DEF Op
  <2>2. ops' = [ops EXCEPT ![i] = x]
    BY <1>5 DEF HandleAck, HandleAckError
  <2> HIDE DEF x
  <2>3. Outstanding(x) = 0
    BY <2>1 DEF Outstanding
  <2>4. CASE HandleAck(i)
    <3>1. /\ ops[i].ack = "posted" /\ ops[i].res >= 0
          /\ pending_sends' = pending_sends - ops[i].res /\ pending_bufs' = pending_bufs
      BY <2>4 DEF HandleAck, SentZc
    <3>2. Outstanding(ops[i]) = ops[i].res
      BY <1>2, <3>1 DEF Outstanding, MaxOf
    <3>3. /\ pending_sends' \in Int
          /\ pending_sends' - pending_sends >= Outstanding(x) - Outstanding(ops[i])
      BY <1>1, <1>2, <2>3, <3>1, <3>2
    <3> QED
      BY <1>1, <2>1, <2>2, <3>1, <3>3, CoverCompletion
  <2>5. CASE HandleAckError(i)
    <3>1. /\ ops[i].ack = "posted" /\ ops[i].res < 0
          /\ pending_sends' = pending_sends /\ pending_bufs' = pending_bufs
      BY <2>5 DEF HandleAckError, pending
    <3>2. Outstanding(ops[i]) = 0
      BY <1>2, <3>1 DEF Outstanding, MaxOf
    <3>3. /\ pending_sends' \in Int
          /\ pending_sends' - pending_sends >= Outstanding(x) - Outstanding(ops[i])
      BY <1>1, <2>3, <3>1, <3>2
    <3> QED
      BY <1>1, <2>1, <2>2, <3>1, <3>3, CoverCompletion
  <2> QED
    BY <1>5, <2>4, <2>5
<1>6. pending_sends >= Total(Due(ops)) /\ pending_bufs >= Len(ops)
  BY <1>1, ToSubtractTotal DEF CoverInv, CountersCoverKernel, ToSubtract
<1>7. Len(ops) \in Nat /\ Due(ops) \in [1 .. Len(ops) -> Nat] /\ Total(Due(ops)) \in Nat
  BY <1>1, DueType
<1>8. CASE HandleNotif
  <2>1. /\ ops # <<>> /\ Head(ops).ack = "seen" /\ ops' = Tail(ops)
        /\ pending_sends' = pending_sends - 0 /\ pending_bufs' = pending_bufs - 1
    BY <1>8 DEF HandleNotif, SentZc
  <2>2. PICK n \in Nat : Len(ops) = n + 1
    <3>1. Len(ops) \in Nat \ {0}
      BY <1>1, <2>1, EmptySeq
    <3>2. Len(ops) - 1 \in Nat /\ Len(ops) = (Len(ops) - 1) + 1
      BY <3>1
    <3> QED
      BY <3>2
  <2>3. Len(ops') = n /\ \A j \in 1 .. n : ops'[j] = ops[j + 1] /\ j + 1 \in 1 .. n + 1
    <3>1. Len(ops') = Len(ops) - 1 /\ \A j \in 1 .. Len(ops') : ops'[j] = ops[j + 1]
      BY <1>1, <2>1, HeadTailProperties
    <3> QED
      BY <2>2, <3>1
  <2>4. Due(ops') \in [1 .. n -> Nat] /\ Due(ops) \in [1 .. n + 1 -> Nat] /\ Total(Due(ops')) \in Nat
    BY <1>1, <2>2, <2>3, DueType
  <2>5. \A j \in 1 .. n : Due(ops')[j] = Due(ops)[j + 1]
    BY <2>2, <2>3 DEF Due
  <2>6. Due(ops)[1] = 0
    <3>1. Head(ops) = ops[1] /\ 1 \in 1 .. Len(ops)
      BY <1>1, <2>2
    <3>2. Due(ops)[1] = Outstanding(ops[1])
      BY <3>1 DEF Due
    <3> QED
      BY <2>1, <3>1, <3>2 DEF Outstanding
  <2>7. Total(Due(ops)) = Due(ops)[1] + Total(Due(ops'))
    BY <2>4, <2>5, TotalTail
  <2>8. pending_sends' >= Total(Due(ops')) /\ pending_bufs' >= Len(ops')
    BY <1>1, <1>6, <2>1, <2>2, <2>3, <2>4, <2>6, <2>7
  <2>9. CountersCoverKernel'
    BY <1>1, <2>8, ToSubtractTotal DEF CountersCoverKernel, ToSubtract
  <2>10. ResultsBounded'
    BY <2>2, <2>3 DEF CoverInv, ResultsBounded
  <2> QED
    BY <1>1, <2>9, <2>10 DEF CoverInv
<1>9. CASE SendChunk
  <2> DEFINE x == [buf |-> buf_id, len |-> ChunkLen, ack |-> "none", res |-> 0, fin |-> FALSE]
  <2>1. /\ ops' = Append(ops, x) /\ pending_sends' = pending_sends + ChunkLen
        /\ pending_bufs' = pending_bufs + 1
    BY <1>9 DEF SendChunk
  <2>2. ChunkLen \in Nat /\ x \in Op
    <3>1. total_out_len - sent_out \in Nat /\ buf_id \in Nat
      BY <1>1, <1>9 DEF SendChunk, TypeInv, Aligned, TypeOK
    <3>2. ChunkLen \in Nat
      BY <3>1, SendAssumption DEF ChunkLen, MinOf
    <3> QED
      BY <3>1, <3>2 DEF Op
  <2>3. x.ack = "none" /\ x.len = ChunkLen
    OBVIOUS
  <2> HIDE DEF x
  <2>4. /\ Len(ops') = Len(ops) + 1 /\ ops'[Len(ops) + 1] = x
        /\ \A j \in 1 .. Len(ops) : ops'[j] = ops[j]
    BY <1>1, <2>1, <2>2, AppendProperties
  <2>5. Due(ops') \in [1 .. Len(ops) + 1 -> Nat] /\ Total(Due(ops')) \in Nat
    BY <1>1, <2>4, DueType
  <2>6. \A j \in 1 .. Len(ops) : Due(ops')[j] = Due(ops)[j]
    <3>1. \A j \in 1 .. Len(ops) : j \in 1 .. Len(ops')
      BY <1>7, <2>4
    <3> QED
      BY <2>4, <3>1 DEF Due
  <2>7. Due(ops')[Len(ops) + 1] = ChunkLen
    <3>1. Len(ops) + 1 \in 1 .. Len(ops')
      BY <1>7, <2>4
    <3> QED
      BY <2>3, <2>4, <3>1 DEF Due, Outstanding
  <2>8. Total(Due(ops')) = Total(Due(ops)) + Due(ops')[Len(ops) + 1]
    BY <1>7, <2>5, <2>6, TotalAppend
  <2>9. pending_sends' >= Total(Due(ops')) /\ pending_bufs' >= Len(ops')
    BY <1>1, <1>6, <1>7, <2>1, <2>2, <2>4, <2>7, <2>8
  <2>10. CountersCoverKernel'
    BY <1>1, <2>9, ToSubtractTotal DEF CountersCoverKernel, ToSubtract
  <2>11. ResultsBounded'
    <3>1. \A j \in 1 .. Len(ops') : j \in 1 .. Len(ops) \/ j = Len(ops) + 1
      BY <1>7, <2>4
    <3> QED
      BY <2>3, <2>4, <3>1 DEF CoverInv, ResultsBounded
  <2> QED
    BY <1>1, <2>10, <2>11 DEF CoverInv
<1>10. CASE UNCHANGED <<ops, pending_sends, pending_bufs>>
  BY <1>1, <1>10, CoverIdle
<1>11. CASE BundleDropped \/ SendChunkFails
  BY <1>1, <1>11, CoverDropped DEF BundleDropped, SendChunkFails
<1> QED
  BY <1>3, <1>4, <1>5, <1>8, <1>9, <1>10, <1>11
     DEF Next, Kernel, Handler, SendAllOut, HandleRecv, HandleShutdown, Callback,
         CallbackOverCapacity, SendNothing, SendBegin, SendUnderflow, Close, pending, vars

(* Neither subtraction of sent_zc underflows, however acknowledgements and
   notifications interleave with further sends, and whether sends are short, fail
   or find the submission queue full in the middle of the chunk loop. *)
THEOREM CountersNeverUnderflow == Spec => []CountersCoverKernel
<1>1. Init => CoverInv
  <2> SUFFICES ASSUME Init PROVE CoverInv
    OBVIOUS
  <2>1. ops = <<>> /\ pending_sends = 0 /\ pending_bufs = 0 /\ Len(<<>>) = 0 /\ DOMAIN <<>> = {}
    BY DEF Init
  <2>2. ToSubtract = {}
    BY <2>1 DEF ToSubtract
  <2>3. CountersCoverKernel
    BY <2>1, <2>2, FS_EmptySet DEF CountersCoverKernel
  <2>4. ResultsBounded
    BY <2>1 DEF ResultsBounded
  <2> QED
    BY <2>3, <2>4, TypeInit DEF CoverInv
<1>2. CoverInv => CountersCoverKernel
  BY DEF CoverInv
<1> QED
  BY <1>1, <1>2, CoverStep, PTL DEF Spec

-----------------------------------------------------------------------------
(* The window.                                                             *)

(* The callback never queues more than the ring can hold besides the buffers
   the limit admits, the page is exactly the ring, and the submission queue
   does not overflow. *)
SafeWindow ==
    /\ MaxPendingBufs + 2 * MaxQueueBufs <= NBufs
    /\ HugeCap = NBufs * BufSize
    /\ "sqfull" \notin Faults

(* The buffer the next byte of output goes to. *)
NextBuf == IF pc = "chunk" THEN buf_id ELSE idx_out_cur

(* The buffer d places behind b on the ring. *)
Back(b, d) == IF b >= d THEN b - d ELSE b - d + NBufs

(* The queue begins at NextBuf and is at most MaxQueueBufs buffers long. *)
QueueInv ==
    /\ pc # "panic"
    /\ NextBuf \in 0 .. NBufs - 1
    /\ pos_out_start = NextBuf * BufSize
    /\ pos_out_start <= pos_out_end
    /\ pos_out_end <= NBufs * BufSize
    /\ pos_out_end - pos_out_start <= MaxQueueBufs * BufSize

(* The chunk loop: what is left to send is what is left in the queue, and it
   takes exactly the chunks that are left. *)
LoopInv ==
    pc = "chunk" =>
       LET left == chunks - chunk_no IN
       /\ left >= 1
       /\ chunks <= MaxQueueBufs
       /\ total_out_len - sent_out = pos_out_end - pos_out_start
       /\ (left - 1) * BufSize < total_out_len - sent_out
       /\ total_out_len - sent_out <= left * BufSize

(* The sends not yet handled to their end are counted, and the limit and the
   size of a queue bound the count. *)
CountInv ==
    /\ Len(ops) <= pending_bufs
    /\ pending_bufs <= MaxPendingBufs + (IF pc = "chunk" THEN chunk_no ELSE MaxQueueBufs)

(* They hold the buffers just behind NextBuf, oldest furthest. *)
BehindInv == \A i \in 1 .. Len(ops) : ops[i].buf = Back(NextBuf, Len(ops) + 1 - i)

WindowInv == TypeInv /\ QueueInv /\ LoopInv /\ CountInv /\ BehindInv

(* A new stream has an empty queue at the first buffer and no sends. *)
LEMMA WindowInit == Init => WindowInv
<1> SUFFICES ASSUME Init PROVE WindowInv
  OBVIOUS
<1> USE SendAssumption
<1>1. TypeInv
  BY TypeInit
<1>2. NBufs * BufSize \in Nat /\ MaxQueueBufs * BufSize \in Nat /\ 0 * BufSize = 0
  OBVIOUS
<1>3. QueueInv
  BY <1>2 DEF Init, QueueInv, NextBuf
<1>4. LoopInv /\ CountInv /\ BehindInv
  BY DEF Init, LoopInv, CountInv, BehindInv
<1> QED
  BY <1>1, <1>3, <1>4 DEF WindowInv

(* A step outside the chunk loop that only completes sends. *)
LEMMA WindowOps ==
    ASSUME WindowInv, TypeInv',
           UNCHANGED <<pos_out_start, pos_out_end, idx_out_cur, pending_bufs, locals>>,
           pc' = pc \/ (pc # "chunk" /\ pc' \in {"idle", "cb", "send", "closed"}),
           Len(ops') = Len(ops),
           \A j \in 1 .. Len(ops) : ops'[j].buf = ops[j].buf
    PROVE  WindowInv'
<1>1. NextBuf' = NextBuf
  BY DEF NextBuf, locals
<1>2. QueueInv'
  BY <1>1 DEF WindowInv, QueueInv
<1>3. LoopInv'
  BY DEF WindowInv, LoopInv, locals
<1>4. CountInv'
  BY DEF WindowInv, CountInv, locals
<1>5. BehindInv'
  BY <1>1 DEF WindowInv, BehindInv, Back
<1> QED
  BY <1>2, <1>3, <1>4, <1>5 DEF WindowInv

(* The oldest send leaves. *)
LEMMA WindowNotif ==
    ASSUME WindowInv, TypeInv', HandleNotif
    PROVE  WindowInv'
<1> USE SendAssumption
<1>1. /\ UNCHANGED <<pos_out_start, pos_out_end, idx_out_cur, locals>>
      /\ pc = "idle" /\ pc' = "cb" /\ pending_bufs' = pending_bufs - 1
      /\ ops # <<>> /\ ops' = Tail(ops)
  BY DEF HandleNotif, StartCallback, SentZc, cursor
<1>2. ops \in Seq(Op) /\ pending_bufs \in Int
  BY DEF WindowInv, TypeInv, TypeOK
<1>3. PICK m \in Nat :
         /\ Len(ops) = m + 1 /\ Len(ops') = m
         /\ \A j \in 1 .. m : ops'[j] = ops[j + 1]
  <2>1. Len(ops) \in Nat /\ Len(ops) # 0
    BY <1>1, <1>2
  <2>2. Len(ops) - 1 \in Nat
    BY <2>1
  <2> QED
    BY <1>1, <1>2, <2>2
<1>4. NextBuf' = NextBuf
  BY <1>1 DEF NextBuf
<1>5. QueueInv'
  BY <1>1, <1>4 DEF WindowInv, QueueInv
<1>6. LoopInv'
  BY <1>1 DEF LoopInv
<1>7. CountInv'
  BY <1>1, <1>2, <1>3 DEF WindowInv, CountInv
<1>8. BehindInv'
  <2> SUFFICES ASSUME NEW j \in 1 .. m
               PROVE  ops'[j].buf = Back(NextBuf, m + 1 - j)
    BY <1>3, <1>4 DEF BehindInv, Back
  <2>1. j + 1 \in 1 .. m + 1 /\ m + 1 + 1 - (j + 1) = m + 1 - j
    OBVIOUS
  <2>2. ops[j + 1].buf = Back(NextBuf, m + 1 + 1 - (j + 1))
    BY <1>3, <2>1 DEF WindowInv, BehindInv
  <2> QED
    BY <1>3, <2>1, <2>2
<1> QED
  BY <1>5, <1>6, <1>7, <1>8 DEF WindowInv

(* The callback moves the end of the queue only, within the window. *)
LEMMA WindowCallback ==
    ASSUME SafeWindow, WindowInv, TypeInv',
           NEW n \in 0 .. MaxQueueBufs * BufSize, Callback(n)
    PROVE  WindowInv'
<1> USE SendAssumption
<1>1. /\ pc = "cb" /\ pc' = "send"
      /\ UNCHANGED <<pos_out_start, idx_out_cur, pending_bufs, ops, locals>>
      /\ n + idx_out_cur * BufSize <= HugeCap
      /\ pos_out_end' = IF n # pos_out_end - pos_out_start
                        THEN idx_out_cur * BufSize + n ELSE pos_out_end
  BY DEF Callback, pending
<1>2. NextBuf = idx_out_cur /\ NextBuf' = NextBuf
  BY <1>1 DEF NextBuf
<1>3. pos_out_start = idx_out_cur * BufSize
  BY <1>2 DEF WindowInv, QueueInv
<1>4. /\ pos_out_start \in Nat /\ pos_out_end \in Nat /\ n \in Nat
      /\ idx_out_cur * BufSize \in Nat /\ MaxQueueBufs * BufSize \in Nat
  BY DEF WindowInv, TypeInv, TypeOK
<1>5. pos_out_end' = pos_out_start + n
  BY <1>1, <1>3, <1>4
<1>6. QueueInv'
  <2>1. pos_out_end' <= NBufs * BufSize
    BY <1>1, <1>3, <1>4, <1>5 DEF SafeWindow
  <2>2. /\ pos_out_start' <= pos_out_end'
        /\ pos_out_end' - pos_out_start' <= MaxQueueBufs * BufSize
    BY <1>1, <1>4, <1>5
  <2> QED
    BY <1>1, <1>2, <2>1, <2>2 DEF WindowInv, QueueInv
<1>7. LoopInv' /\ CountInv'
  BY <1>1 DEF WindowInv, LoopInv, CountInv
<1>8. BehindInv'
  BY <1>1, <1>2 DEF WindowInv, BehindInv, Back
<1> QED
  BY <1>6, <1>7, <1>8 DEF WindowInv

(* The loop begins with as many chunks as the queue has buffers. *)
LEMMA WindowBegin ==
    ASSUME SafeWindow, WindowInv, TypeInv', SendBegin
    PROVE  WindowInv'
<1> USE SendAssumption
<1> DEFINE total == pos_out_end - pos_out_start
<1>1. /\ pc = "send" /\ pc' = "chunk" /\ total > 0
      /\ pending_bufs <= MaxPendingBufs
      /\ total_out_len' = total /\ sent_out' = 0 /\ chunk_no' = 0
      /\ chunks' = CeilDiv(total, BufSize)
      /\ buf_id' = pos_out_start \div BufSize
      /\ UNCHANGED <<pos_out_start, pos_out_end, idx_out_cur, pending_bufs, ops>>
  BY DEF SendBegin, Blocked, cursor, pending, WindowInv, TypeInv, TypeOK
<1>2. /\ pos_out_start \in Nat /\ pos_out_end \in Nat /\ idx_out_cur \in Nat
      /\ pending_bufs \in Int
  BY DEF WindowInv, TypeInv, TypeOK
<1>3. NextBuf = idx_out_cur /\ pos_out_start = idx_out_cur * BufSize
  BY <1>1 DEF NextBuf, WindowInv, QueueInv
<1>4. NextBuf' = NextBuf
  <2>1. buf_id' = idx_out_cur
    BY <1>1, <1>2, <1>3, DivMul
  <2> QED
    BY <1>1, <1>3, <2>1 DEF NextBuf
<1>5. QueueInv'
  BY <1>1, <1>4 DEF WindowInv, QueueInv
<1>6. PICK c \in Nat :
         /\ chunks' = c
         /\ (c - 1) * BufSize < total
         /\ total <= c * BufSize
  <2>1. total \in Nat
    BY <1>1, <1>2
  <2> QED
    BY <1>1, <2>1, CeilDivBounds
<1>7. c >= 1
  <2>1. 0 * BufSize < c * BufSize
    BY <1>1, <1>2, <1>6
  <2>2. 0 < c
    BY <2>1, MulCancel
  <2> QED
    BY <2>2
<1>8. c <= MaxQueueBufs
  <2>1. total <= MaxQueueBufs * BufSize
    BY DEF WindowInv, QueueInv
  <2>2. (c - 1) * BufSize < MaxQueueBufs * BufSize
    <3>1. (c - 1) * BufSize \in Int /\ MaxQueueBufs * BufSize \in Int /\ total \in Int
      BY <1>2
    <3> QED
      BY ONLY <1>6, <2>1, <3>1
  <2>3. c - 1 < MaxQueueBufs
    BY <2>2, MulCancel
  <2> QED
    BY <2>3
<1>9. LoopInv'
  BY <1>1, <1>2, <1>6, <1>7, <1>8 DEF LoopInv
<1>10. CountInv'
  BY <1>1, <1>2 DEF WindowInv, CountInv
<1>11. BehindInv'
  BY <1>1, <1>4 DEF WindowInv, BehindInv, Back
<1> QED
  BY <1>5, <1>9, <1>10, <1>11 DEF WindowInv

(* Where the chunk loop stands: the last chunk, and no other, takes all that
   is left, and the loop reaches the end of the ring only with the last one. *)
LEMMA ChunkFacts ==
    ASSUME WindowInv, pc = "chunk"
    PROVE  /\ buf_id \in 0 .. NBufs - 1
           /\ pos_out_start = buf_id * BufSize
           /\ total_out_len - sent_out = pos_out_end - pos_out_start
           /\ total_out_len - sent_out > 0
           /\ LastChunk => total_out_len - sent_out <= BufSize
           /\ ~LastChunk => total_out_len - sent_out > BufSize
           /\ Wraps => LastChunk
<1> USE SendAssumption
<1>1. /\ buf_id \in 0 .. NBufs - 1 /\ pos_out_start = buf_id * BufSize
      /\ pos_out_end <= NBufs * BufSize
  BY DEF WindowInv, QueueInv, NextBuf
<1>2. /\ chunks \in Nat /\ chunk_no \in Nat /\ total_out_len \in Nat
      /\ sent_out \in Nat /\ pos_out_start \in Nat /\ pos_out_end \in Nat
  BY DEF WindowInv, TypeInv, TypeOK
<1> DEFINE left == chunks - chunk_no
           rem == total_out_len - sent_out
<1>3. /\ left \in Int /\ rem \in Int /\ left >= 1
      /\ rem = pos_out_end - pos_out_start
      /\ (left - 1) * BufSize < rem /\ rem <= left * BufSize
  BY <1>2 DEF WindowInv, LoopInv
<1>4. LastChunk <=> left = 1
  BY <1>2 DEF LastChunk
<1> HIDE DEF left, rem
<1>5. rem > 0
  <2>1. 0 * BufSize <= (left - 1) * BufSize
    BY <1>3, MulMono
  <2>2. (left - 1) * BufSize \in Int
    BY <1>3
  <2> QED
    BY <1>3, <2>1, <2>2
<1>6. LastChunk => rem <= BufSize
  BY <1>3, <1>4
<1>7. ~LastChunk => rem > BufSize
  <2> SUFFICES ASSUME ~LastChunk PROVE rem > BufSize
    OBVIOUS
  <2>1. 1 <= left - 1
    BY <1>3, <1>4
  <2>2. 1 * BufSize <= (left - 1) * BufSize
    BY <1>3, <2>1, MulMono
  <2>3. (left - 1) * BufSize \in Int
    BY <1>3
  <2> QED
    BY <1>3, <2>2, <2>3
<1>8. Wraps => LastChunk
  <2> SUFFICES ASSUME Wraps PROVE LastChunk
    OBVIOUS
  <2>1. buf_id * BufSize = NBufs * BufSize - BufSize
    BY DEF Wraps
  <2>2. rem <= BufSize
    BY <1>1, <1>2, <1>3, <2>1
  <2> QED
    BY <1>3, <1>7, <2>2
<1> QED
  BY <1>1, <1>3, <1>5, <1>6, <1>7, <1>8 DEF rem

(* One turn of the loop. *)
LEMMA WindowChunk ==
    ASSUME SafeWindow, WindowInv, TypeInv', SendChunk
    PROVE  WindowInv'
<1> USE SendAssumption
<1>1. /\ pc = "chunk"
      /\ buf_id \in 0 .. NBufs - 1
      /\ pos_out_start = buf_id * BufSize
      /\ total_out_len - sent_out = pos_out_end - pos_out_start
      /\ total_out_len - sent_out > 0
      /\ LastChunk => total_out_len - sent_out <= BufSize
      /\ ~LastChunk => total_out_len - sent_out > BufSize
      /\ Wraps => LastChunk
  BY ChunkFacts DEF SendChunk
<1>2. /\ chunks \in Nat /\ chunk_no \in Nat /\ total_out_len \in Nat
      /\ sent_out \in Nat /\ pos_out_start \in Nat /\ pos_out_end \in Nat
      /\ pending_bufs \in Int /\ ops \in Seq(Op) /\ Len(ops) \in Nat
  BY DEF WindowInv, TypeInv, TypeOK
<1>3. /\ pending_bufs' = pending_bufs + 1 /\ chunk_no' = chunk_no + 1
      /\ buf_id' = buf_id + 1 /\ chunks' = chunks /\ total_out_len' = total_out_len
      /\ sent_out' = sent_out + ChunkLen
  BY DEF SendChunk
<1>4. /\ chunks - chunk_no >= 1 /\ chunks <= MaxQueueBufs
      /\ Len(ops) <= pending_bufs /\ pending_bufs <= MaxPendingBufs + chunk_no
      /\ MaxPendingBufs + 2 * MaxQueueBufs <= NBufs
  BY <1>1 DEF WindowInv, LoopInv, CountInv, SafeWindow
<1>5. (buf_id + 1) * BufSize = pos_out_start + BufSize
  BY <1>1
<1>6. CountInv'
  <2>1. Len(ops') = Len(ops) + 1
    BY <1>2 DEF SendChunk
  <2> QED
    BY <1>2, <1>3, <1>4, <2>1 DEF CountInv
<1>7. QueueInv' /\ LoopInv'
  <2>1. CASE Wraps
    <3>1. /\ pos_out_start' = 0 /\ pos_out_end' = 0 /\ idx_out_cur' = 0
          /\ pc' \in {"cb", "idle"}
      BY <2>1 DEF SendChunk
    <3>2. NextBuf' = 0
      BY <3>1 DEF NextBuf
    <3>3. 0 * BufSize = 0 /\ NBufs * BufSize \in Nat /\ MaxQueueBufs * BufSize \in Nat
      OBVIOUS
    <3> QED
      BY <3>1, <3>2, <3>3 DEF QueueInv, LoopInv
  <2>2. CASE ~Wraps /\ LastChunk
    <3>1. /\ pos_out_start' = (buf_id + 1) * BufSize
          /\ pos_out_end' = MaxOf(pos_out_end, (buf_id + 1) * BufSize)
          /\ idx_out_cur' = buf_id + 1 /\ pc' \in {"cb", "idle"}
      BY <2>2 DEF SendChunk
    <3>2. pos_out_end' = pos_out_start'
      BY <1>1, <1>2, <1>5, <2>2, <3>1 DEF MaxOf
    <3>3. NextBuf' = buf_id + 1 /\ buf_id + 1 \in 0 .. NBufs - 1
      BY <1>1, <2>2, <3>1 DEF NextBuf, Wraps
    <3>4. (buf_id + 1) * BufSize <= NBufs * BufSize
      BY <3>3, MulMono
    <3>5. MaxQueueBufs * BufSize >= 0 /\ pos_out_start' \in Nat
      BY DEF TypeInv, TypeOK
    <3> QED
      BY <3>1, <3>2, <3>3, <3>4, <3>5 DEF QueueInv, LoopInv
  <2>3. CASE ~Wraps /\ ~LastChunk
    <3>1. /\ pos_out_start' = (buf_id + 1) * BufSize
          /\ pos_out_end' = MaxOf(pos_out_end, (buf_id + 1) * BufSize)
          /\ pc' = "chunk"
      BY <2>3 DEF SendChunk
    <3>2. pos_out_start' = pos_out_start + BufSize /\ pos_out_end' = pos_out_end
      BY <1>1, <1>2, <1>5, <2>3, <3>1 DEF MaxOf
    <3>3. NextBuf' = buf_id + 1 /\ buf_id + 1 \in 0 .. NBufs - 1
      BY <1>1, <1>3, <2>3, <3>1 DEF NextBuf, Wraps
    <3>4. /\ pos_out_end <= NBufs * BufSize
          /\ pos_out_end - pos_out_start <= MaxQueueBufs * BufSize
          /\ NBufs * BufSize \in Nat /\ MaxQueueBufs * BufSize \in Nat
      BY DEF WindowInv, QueueInv
    <3>5. QueueInv'
      BY <1>1, <1>2, <2>3, <3>1, <3>2, <3>3, <3>4 DEF QueueInv
    <3>6. ChunkLen = BufSize
      BY <1>1, <1>2, <2>3 DEF ChunkLen, MinOf
    <3>7. chunks' - chunk_no' = chunks - chunk_no - 1 /\ chunks - chunk_no >= 2
      BY <1>2, <1>3, <1>4, <2>3 DEF LastChunk
    <3>8. total_out_len' - sent_out' = total_out_len - sent_out - BufSize
      BY <1>2, <1>3, <3>6
    <3>9. LoopInv'
      <4> DEFINE left == chunks - chunk_no
                 rem == total_out_len - sent_out
      <4>1. left \in Int /\ rem \in Int /\ (left - 1) * BufSize < rem
            /\ rem <= left * BufSize
        BY <1>1, <1>2 DEF WindowInv, LoopInv
      <4> HIDE DEF left, rem
      <4>2. (left - 1 - 1) * BufSize < rem - BufSize /\ rem - BufSize <= (left - 1) * BufSize
        BY <4>1
      <4>3. /\ (chunks' - chunk_no' - 1) * BufSize < total_out_len' - sent_out'
            /\ total_out_len' - sent_out' <= (chunks' - chunk_no') * BufSize
        BY <3>7, <3>8, <4>2 DEF left, rem
      <4>4. total_out_len' - sent_out' = pos_out_end' - pos_out_start'
        BY <1>1, <1>2, <3>2, <3>8
      <4>5. chunks' - chunk_no' >= 1 /\ chunks' <= MaxQueueBufs
        BY <1>2, <1>3, <1>4, <3>7
      <4> QED
        BY <4>3, <4>4, <4>5 DEF LoopInv
    <3> QED
      BY <3>5, <3>9
  <2> QED
    BY <2>1, <2>2, <2>3
<1>8. BehindInv'
  <2>1. PICK m \in Nat : Len(ops) = m /\ Len(ops') = m + 1
           /\ ops'[m + 1].buf = buf_id
           /\ \A i \in 1 .. m : ops'[i] = ops[i]
    BY <1>2 DEF SendChunk
  <2>2. \A i \in 1 .. m : ops[i].buf = Back(buf_id, m + 1 - i)
    BY <1>1, <2>1 DEF WindowInv, BehindInv, NextBuf
  <2>3. m <= NBufs - 1
    BY <1>2, <1>4, <2>1
  <2>4. NextBuf' = IF Wraps THEN 0 ELSE buf_id + 1
    BY <1>1, <1>3 DEF NextBuf, SendChunk
  <2> SUFFICES ASSUME NEW i \in 1 .. m + 1
               PROVE  ops'[i].buf = Back(NextBuf', m + 1 + 1 - i)
    BY <2>1 DEF BehindInv, Back
  <2>5. CASE i = m + 1
    <3>1. Back(NextBuf', 1) = buf_id
      BY <1>1, <2>4 DEF Back, Wraps
    <3>2. m + 1 + 1 - i = 1
      BY <2>5
    <3> QED
      BY <2>1, <2>5, <3>1, <3>2
  <2>6. CASE i # m + 1
    <3>1. i \in 1 .. m
      BY <2>6
    <3>2. ops'[i].buf = Back(buf_id, m + 1 - i)
      BY <2>1, <2>2, <3>1
    <3>3. Back(NextBuf', m + 1 + 1 - i) = Back(buf_id, m + 1 - i)
      BY <1>1, <2>3, <2>4, <3>1 DEF Back, Wraps
    <3> QED
      BY <3>2, <3>3
  <2> QED
    BY <2>5, <2>6
<1> QED
  BY <1>6, <1>7, <1>8 DEF WindowInv

(* Every step stays within the window. *)
LEMMA WindowStep ==
    ASSUME SafeWindow, WindowInv, [Next]_vars
    PROVE  WindowInv'
<1> USE SendAssumption
<1>1. TypeOK /\ TypeInv'
  BY TypeStep DEF WindowInv, TypeInv
<1>2. CASE UNCHANGED vars
  BY <1>1, <1>2, WindowOps DEF vars, cursor, pending
<1>3. ASSUME NEW i \in DOMAIN ops,
             KernelAck(i) \/ KernelNotif(i) \/ HandleAck(i) \/ HandleAckError(i)
      PROVE  WindowInv'
  <2>1. /\ Len(ops') = Len(ops)
        /\ \A j \in 1 .. Len(ops) : ops'[j].buf = ops[j].buf
    BY <1>1, <1>3, OpsUpdate
  <2>2. /\ UNCHANGED <<pos_out_start, pos_out_end, idx_out_cur, pending_bufs, locals>>
        /\ pc' = pc \/ (pc # "chunk" /\ pc' \in {"idle", "cb", "send"})
    BY <1>3 DEF KernelAck, KernelNotif, HandleAck, HandleAckError, SentZc,
                StartCallback, cursor, pending
  <2> QED
    BY <1>1, <2>1, <2>2, WindowOps
<1>4. CASE HandleRecv \/ HandleShutdown \/ SendNothing \/ Close
  <2>1. /\ UNCHANGED <<pos_out_start, pos_out_end, idx_out_cur, pending_bufs, ops, locals>>
        /\ pc # "chunk" /\ pc' \in {"idle", "cb", "closed"}
    BY <1>4 DEF HandleRecv, HandleShutdown, SendNothing, Close, StartCallback,
                cursor, pending
  <2> QED
    BY <1>1, <2>1, WindowOps
<1>5. CASE HandleNotif
  BY <1>1, <1>5, WindowNotif
<1>6. ASSUME NEW n \in 0 .. MaxQueueBufs * BufSize, Callback(n)
      PROVE  WindowInv'
  BY <1>1, <1>6, WindowCallback
<1>7. ASSUME NEW n \in 0 .. MaxQueueBufs * BufSize, CallbackOverCapacity(n)
      PROVE  FALSE
  <2>1. pos_out_start = idx_out_cur * BufSize
    BY <1>7 DEF CallbackOverCapacity, WindowInv, QueueInv, NextBuf
  <2>2. n \in Nat /\ pos_out_start \in Nat
    BY <1>1 DEF TypeOK
  <2> QED
    BY <1>7, <2>1, <2>2 DEF CallbackOverCapacity
<1>8. CASE SendUnderflow \/ SendChunkFails \/ BundleDropped
  BY <1>1, <1>8 DEF SendUnderflow, SendChunkFails, BundleDropped, SafeWindow, WindowInv, QueueInv, TypeOK
<1>9. CASE SendBegin
  BY <1>1, <1>9, WindowBegin
<1>10. CASE SendChunk
  BY <1>1, <1>10, WindowChunk
<1> QED
  BY <1>2, <1>3, <1>4, <1>5, <1>6, <1>7, <1>8, <1>9, <1>10
     DEF Next, Kernel, Handler, SendAllOut

(* In the window, what the callback writes is ahead of what the kernel reads. *)
LEMMA WindowSafe ==
    ASSUME SafeWindow, WindowInv
    PROVE  ZeroCopyStable
<1> USE SendAssumption
<1> SUFFICES ASSUME pc # "chunk", NEW b \in Written, NEW i \in DOMAIN ops, b = ops[i].buf
             PROVE  FALSE
  BY DEF ZeroCopyStable, KernelReads
<1>1. /\ idx_out_cur \in 0 .. NBufs - 1
      /\ pos_out_start = idx_out_cur * BufSize
      /\ pos_out_end <= NBufs * BufSize
      /\ pos_out_end - pos_out_start <= MaxQueueBufs * BufSize
  BY DEF WindowInv, QueueInv, NextBuf
<1>2. ops \in Seq(Op) /\ pos_out_end \in Nat /\ pos_out_start \in Nat
  BY DEF WindowInv, TypeInv, TypeOK
<1>3. b \in Nat /\ idx_out_cur <= b /\ b * BufSize < pos_out_end
  BY DEF Written
<1>4. b < NBufs
  <2>1. b * BufSize < NBufs * BufSize
    BY <1>1, <1>2, <1>3
  <2> QED
    BY <1>3, <2>1, MulCancel
<1>5. b < idx_out_cur + MaxQueueBufs
  <2>1. (idx_out_cur + MaxQueueBufs) * BufSize
            = idx_out_cur * BufSize + MaxQueueBufs * BufSize
    BY <1>1
  <2>2. b * BufSize < (idx_out_cur + MaxQueueBufs) * BufSize
    BY <1>1, <1>2, <1>3, <2>1
  <2>3. idx_out_cur + MaxQueueBufs \in Int
    BY <1>1
  <2> QED
    BY <1>3, <2>2, <2>3, MulCancel
<1>6. PICK m \in Nat : m = Len(ops) /\ i \in 1 .. m /\ m + MaxQueueBufs <= NBufs
  <2>1. Len(ops) \in Nat /\ i \in 1 .. Len(ops)
    BY <1>2
  <2>2. Len(ops) <= pending_bufs /\ pending_bufs <= MaxPendingBufs + MaxQueueBufs
    BY DEF WindowInv, CountInv
  <2>3. pending_bufs \in Int
    BY DEF WindowInv, TypeInv, TypeOK
  <2>4. Len(ops) + MaxQueueBufs <= NBufs
    BY <2>1, <2>2, <2>3 DEF SafeWindow
  <2> QED
    BY <2>1, <2>4
<1>7. PICK d \in 1 .. m : d = m + 1 - i
  BY <1>6
<1>8. b = Back(idx_out_cur, d)
  BY <1>6, <1>7 DEF WindowInv, BehindInv, NextBuf
<1>9. CASE idx_out_cur >= d
  <2>1. b = idx_out_cur - d
    BY <1>8, <1>9 DEF Back
  <2> QED
    BY <1>1, <1>3, <1>7, <2>1
<1>10. CASE ~(idx_out_cur >= d)
  <2>1. b = idx_out_cur - d + NBufs
    BY <1>8, <1>10 DEF Back
  <2>2. m + MaxQueueBufs <= NBufs /\ d <= m
    BY <1>6
  <2>3. idx_out_cur \in Int /\ MaxQueueBufs \in Int /\ NBufs \in Int
    BY <1>1
  <2> QED
    BY ONLY <1>5, <2>1, <2>2, <2>3, d \in Int, m \in Int
<1> QED
  BY <1>9, <1>10

(* A queue of at most (NBufs - MaxPendingBufs) / 2 buffers is never written
   over a buffer the kernel still reads, whatever order acknowledgements and
   notifications come in and however short or failed the sends are.  With the
   code's 256 buffers and limit of 5 that is 125 buffers, 1 MB less 24 KB. *)
THEOREM ZeroCopySafe ==
    ASSUME SafeWindow
    PROVE  Spec => []ZeroCopyStable
<1>1. WindowInv /\ [Next]_vars => WindowInv'
  BY WindowStep
<1>2. WindowInv => ZeroCopyStable
  BY WindowSafe
<1> QED
  BY WindowInit, <1>1, <1>2, PTL DEF Spec

(* Within the same window no call of send_all_out leaves queued bytes behind,
   whether or not it reaches the end of the ring. *)
THEOREM QueueSubmitted ==
    ASSUME SafeWindow
    PROVE  Spec => QueueFullySubmitted
<1> DEFINE A == (pc = "chunk" /\ pc' # "chunk")
                   => (sent_out' = total_out_len /\ pos_out_start' = pos_out_end')
<1>1. WindowInv /\ [Next]_vars => WindowInv'
  BY WindowStep
<1>2. WindowInv /\ [Next]_vars => [A]_vars
  <2> SUFFICES ASSUME WindowInv, Next, pc = "chunk", pc' # "chunk"
               PROVE  sent_out' = total_out_len /\ pos_out_start' = pos_out_end'
    OBVIOUS
  <2>1. SendChunk
    BY DEF Next, Kernel, KernelAck, KernelNotif, Handler, HandleRecv, HandleAck,
           HandleAckError, HandleNotif, HandleShutdown, BundleDropped, Callback,
           CallbackOverCapacity, SendAllOut, SendNothing, SendBegin, SendUnderflow,
           SendChunkFails, Close, SafeWindow
  <2>2. /\ total_out_len - sent_out = pos_out_end - pos_out_start
        /\ pos_out_start = buf_id * BufSize /\ buf_id \in 0 .. NBufs - 1
        /\ LastChunk => total_out_len - sent_out <= BufSize
        /\ Wraps => LastChunk
    BY ChunkFacts
  <2>3. LastChunk
    BY <2>1, <2>2 DEF SendChunk
  <2>4. /\ total_out_len \in Nat /\ sent_out \in Nat
        /\ pos_out_start \in Nat /\ pos_out_end \in Nat
    BY DEF WindowInv, TypeInv, TypeOK
  <2>5. sent_out' = total_out_len
    BY <2>1, <2>2, <2>3, <2>4, SendAssumption DEF SendChunk, ChunkLen, MinOf
  <2>6. (buf_id + 1) * BufSize = pos_out_start + BufSize
    BY <2>2, SendAssumption
  <2>7. pos_out_start' = pos_out_end'
    BY <2>1, <2>2, <2>3, <2>4, <2>6, SendAssumption DEF SendChunk, MaxOf
  <2> QED
    BY <2>5, <2>7
<1> QED
  BY WindowInit, <1>1, <1>2, PTL DEF Spec, QueueFullySubmitted
=============================================================================
