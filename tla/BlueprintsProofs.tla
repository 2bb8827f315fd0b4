-------------------------- MODULE BlueprintsProofs --------------------------
(***************************************************************************)
(* What Blueprints guarantees for every number of layers, every size of the*)
(* IntermedBuf and every set of quirks: run_blueprints never holds more in *)
(* an IntermedBuf than there is room for, and with plain orbits no call of *)
(* it returns while input of the app still waits there.                    *)
(***************************************************************************)
EXTENDS Blueprints, SequenceTheorems, TLAPS

-----------------------------------------------------------------------------
(* The inductive invariant.                                                *)

BpTypes ==
    /\ TypeOK
    /\ right_in \in Seq(0 .. M) /\ right_out \in Seq(0 .. M)
    /\ layers \in Nat /\ sent \in Nat /\ made \in Nat
    /\ is_ready \in BOOLEAN

(* A layer is ready only after the handshake, and the app has its turns only
   after that. *)
ReadyAfterHandshake ==
    /\ hs > 0 => ~is_ready
    /\ pc = "run" /\ cur_level = 1 => hs = 0

(* The app finds no output of an earlier turn: the layer has passed it on. *)
OutputPassedOn == pc = "run" /\ (hs > 0 \/ cur_level = 1) => right_out = <<>>

(* A plain app has read what the layer passed on before the layer has its turn. *)
InputReadFirst ==
    pc = "run" /\ layers > 0 /\ cur_level = 0 /\ quirks = {} => right_in = <<>>

BpInv == BpTypes /\ ReadyAfterHandshake /\ OutputPassedOn /\ InputReadFirst

-----------------------------------------------------------------------------
(* What the orbits and the buffers hand on.                                *)

(* A part of what a buffer holds. *)
LEMMA Part ==
    ASSUME NEW s \in Seq(0 .. M), NEW a \in Nat \ {0}, NEW b \in Int, b <= Len(s)
    PROVE  /\ SubSeq(s, a, b) \in Seq(0 .. M)
           /\ Len(SubSeq(s, a, b)) = IF a <= b THEN b - a + 1 ELSE 0
<1>1. \A i \in a .. b : s[i] \in 0 .. M
  <2>1. Len(s) \in Nat /\ \A i \in 1 .. Len(s) : s[i] \in 0 .. M
    BY LenProperties, ElementOfSeq
  <2> QED
    BY <2>1
<1> QED
  BY <1>1, SubSeqProperties

(* What the peer sends, and what the app writes: numbers up to M. *)
LEMMA Items ==
    ASSUME BpTypes, NEW n \in Nat
    PROVE  /\ [i \in 1 .. n |-> Item(sent + i - 1)] \in Seq(0 .. M)
           /\ Output(n) \in Seq(0 .. M) /\ Len(Output(n)) = n
<1>1. M \in Nat \ {0} /\ sent \in Nat /\ made \in Nat /\ Greeting \in Nat
  BY BlueprintsAssumption DEF BpTypes, Greeting
<1>2. \A k \in Int : k % M \in 0 .. M
  BY <1>1
<1>3. \A i \in 1 .. n : Item(sent + i - 1) \in 0 .. M
  BY <1>1, <1>2 DEF Item, Number, Hs
<1>4. \A i \in 1 .. n : (made + i - 1) % M \in 0 .. M
  BY <1>1, <1>2
<1> QED
  BY <1>3, <1>4 DEF Output

(* An app reads no more than it is shown; a plain one behind a layer, all of it. *)
LEMMA ReadsBound ==
    ASSUME BpTypes, NEW shown \in Seq(0 .. M), NEW ate \in Reads(shown)
    PROVE  /\ ate \in 0 .. Len(shown) /\ Len(shown) \in Nat
           /\ layers > 0 /\ quirks = {} => ate = Len(shown)
<1>1. Len(shown) \in Nat /\ layers \in Nat
  BY DEF BpTypes
<1> QED
  BY <1>1 DEF Reads

(* A turn of the app: it writes no more than fits into an empty IntermedBuf. *)
LEMMA Turns ==
    ASSUME BpTypes, NEW ate \in Nat, NEW total \in Owes(ate), NEW n \in 0 .. InterCap,
           Turn(ate, total, n)
    PROVE  owed' \in Nat /\ made' \in Nat
<1>1. M \in Nat \ {0} /\ MaxAnswer \in Nat /\ InterCap \in Nat \ {0}
  BY BlueprintsAssumption
<1>2. owed \in Nat /\ made \in Nat
  BY DEF BpTypes, TypeOK
<1>3. total \in Nat
  BY <1>1, <1>2 DEF Owes
<1> QED
  BY <1>1, <1>2, <1>3 DEF Turn

-----------------------------------------------------------------------------
(* The steps.                                                              *)

(* The accept handler. *)
LEMMA InitBp == Init => BpInv
<1> SUFFICES ASSUME Init PROVE BpInv
  OBVIOUS
<1>1. /\ layers \in Nat /\ Handshake \in Nat /\ InterCap \in Nat
      /\ hs = IF layers > 0 THEN Handshake ELSE 0
  BY BlueprintsAssumption DEF Init, Greeting
<1>2. Len(<<>>) = 0 /\ <<>> \in Seq(0 .. M)
  OBVIOUS
<1>3. BpTypes
  <2>1. TypeOK
    BY <1>1, <1>2 DEF Init, TypeOK
  <2> QED
    BY <1>1, <1>2, <2>1 DEF Init, BpTypes
<1> QED
  BY <1>3 DEF Init, BpInv, ReadyAfterHandshake, OutputPassedOn, InputReadFirst

(* A call of the callback begins with an empty IntermedBuf. *)
LEMMA CallBp ==
    ASSUME BpInv, Call, UNCHANGED <<given, is_ready, hs, owed, made>>,
           left_in' \in Seq(0 .. M), left_out' \in Seq(0 .. M), sent' \in Nat
    PROVE  BpInv'
<1>1. /\ pc' = "run" /\ cur_level' = 0 /\ right_in' = <<>> /\ right_out' = <<>>
      /\ layers' = layers /\ quirks' = quirks
  BY DEF Call, given
<1>2. Len(<<>>) = 0 /\ <<>> \in Seq(0 .. M) /\ InterCap \in Nat
  BY BlueprintsAssumption
<1>3. BpTypes'
  BY <1>1, <1>2 DEF BpInv, BpTypes, TypeOK
<1> QED
  BY <1>1, <1>3 DEF BpInv, ReadyAfterHandshake, OutputPassedOn, InputReadFirst

(* A step out of the call, which leaves the IntermedBuf to be dropped. *)
LEMMA LeaveBp ==
    ASSUME BpInv, UNCHANGED <<given, intermed, cur_level, is_ready, hs, sent>>,
           pc' \in {"idle", "send", "closed", "panic"}, owed' \in Nat, made' \in Nat,
           left_in' \in Seq(0 .. M), left_out' \in Seq(0 .. M)
    PROVE  BpInv'
<1>1. UNCHANGED <<layers, quirks, right_in, right_out>>
  BY DEF given, intermed
<1>2. BpTypes'
  BY <1>1 DEF BpInv, BpTypes, TypeOK
<1> QED
  BY <1>1, <1>2 DEF BpInv, ReadyAfterHandshake, OutputPassedOn, InputReadFirst

(* The handlers of TcpListener::check. *)
LEMMA HandlersBp ==
    ASSUME BpInv,
           \/ \E n \in 1 .. MaxSeg : HandleRecv(n)
           \/ HandleSentZc \/ SendAll \/ SendNothing
           \/ HandleShutdown \/ Close
    PROVE  BpInv'
<1>1. BpTypes /\ TypeOK /\ sent \in Nat /\ MaxSeg \in Nat
  BY BlueprintsAssumption DEF BpInv, BpTypes
<1>2. CASE \E n \in 1 .. MaxSeg : HandleRecv(n)
  <2>1. PICK n \in 1 .. MaxSeg : HandleRecv(n)
    BY <1>2
  <2>2. n \in Nat
    BY <1>1
  <2>3. [i \in 1 .. n |-> Item(sent + i - 1)] \in Seq(0 .. M)
    BY <1>1, <2>2, Items
  <2>4. left_in' \in Seq(0 .. M) /\ left_out' \in Seq(0 .. M) /\ sent' \in Nat
    BY <1>1, <2>1, <2>2, <2>3, ConcatProperties DEF HandleRecv, TypeOK
  <2>5. Call /\ UNCHANGED <<given, is_ready, hs, owed, made>>
    BY <2>1 DEF HandleRecv, orbits
  <2> QED
    BY <2>4, <2>5, CallBp
<1>3. CASE HandleSentZc \/ HandleShutdown
  <2>1. Call /\ UNCHANGED <<given, is_ready, hs, owed, made, left_in, left_out, sent>>
    BY <1>3 DEF HandleSentZc, HandleShutdown, orbits, stream
  <2> QED
    BY <1>1, <2>1, CallBp DEF TypeOK
<1>4. CASE SendAll
  <2>1. /\ UNCHANGED <<given, is_ready, hs, owed, made, left_in, sent>>
        /\ left_out' = <<>>
        /\ Call \/ (pc' = "idle" /\ UNCHANGED <<intermed, cur_level>>)
    BY <1>4 DEF SendAll, orbits
  <2>2. /\ left_in' \in Seq(0 .. M) /\ left_out' \in Seq(0 .. M) /\ sent' \in Nat
        /\ owed' \in Nat /\ made' \in Nat
    BY <1>1, <2>1 DEF TypeOK, BpTypes
  <2> QED
    BY <2>1, <2>2, CallBp, LeaveBp
<1>5. CASE SendNothing \/ Close
  <2>1. /\ UNCHANGED <<given, is_ready, hs, owed, made, left_in, left_out, sent, intermed, cur_level>>
        /\ pc' \in {"idle", "closed"}
    BY <1>5 DEF SendNothing, Close, orbits, stream
  <2>2. /\ left_in' \in Seq(0 .. M) /\ left_out' \in Seq(0 .. M)
        /\ owed' \in Nat /\ made' \in Nat
    BY <1>1, <2>1 DEF TypeOK, BpTypes
  <2> QED
    BY <2>1, <2>2, LeaveBp
<1> QED
  BY <1>2, <1>3, <1>4, <1>5

(* The app on the stream. *)
LEMMA OnStreamBp ==
    ASSUME BpInv, AdvanceOnStream
    PROVE  BpInv'
<1>1. BpTypes /\ TypeOK /\ left_in \in Seq(0 .. M) /\ left_out \in Seq(0 .. M)
  BY DEF BpInv, BpTypes, TypeOK
<1>2. PICK ate \in Reads(left_in), n \in 0 .. InterCap :
         /\ \E total \in Owes(ate) : Turn(ate, total, n)
         /\ left_in' = StreamSetLenIn(left_in, Len(left_in) - ate)
         /\ left_out' = left_out \o Output(n)
  BY DEF AdvanceOnStream
<1>3. n \in Nat /\ ate \in Nat /\ ate <= Len(left_in) /\ Len(left_in) \in Nat
  BY <1>1, ReadsBound, BlueprintsAssumption
<1>4. owed' \in Nat /\ made' \in Nat
  BY <1>1, <1>2, <1>3, Turns
<1>5. left_in' \in Seq(0 .. M)
  <2>1. left_in' = SubSeq(left_in, ate + 1, Len(left_in))
    <3>1. Len(left_in) - (Len(left_in) - ate) + 1 = ate + 1
      BY <1>3
    <3> QED
      BY <1>2, <3>1 DEF StreamSetLenIn
  <2>2. ate + 1 \in Nat \ {0} /\ Len(left_in) \in Int /\ Len(left_in) <= Len(left_in)
    BY <1>3
  <2> QED
    BY <1>1, <2>1, <2>2, Part
<1>6. left_out' \in Seq(0 .. M)
  BY <1>1, <1>2, <1>3, Items, ConcatProperties
<1>7. pc' = "send" /\ UNCHANGED <<given, intermed, cur_level, is_ready, hs, sent>>
  BY DEF AdvanceOnStream
<1> QED
  BY <1>4, <1>5, <1>6, <1>7, LeaveBp

(* The app behind a layer: it finds the IntermedBuf empty on its side, and a plain
   one leaves nothing unread. *)
LEMMA AppFacts ==
    ASSUME BpInv, AdvanceApp
    PROVE  /\ right_in' \in Seq(0 .. M) /\ right_out' \in Seq(0 .. M)
           /\ Len(right_in') <= InterCap /\ Len(right_out') <= InterCap
           /\ owed' \in Nat /\ made' \in Nat
           /\ quirks = {} => right_in' = <<>>
<1>1. /\ BpTypes /\ TypeOK /\ right_in \in Seq(0 .. M) /\ InterCap \in Nat
      /\ layers > 0 /\ Len(right_in) <= InterCap
  BY BlueprintsAssumption DEF BpInv, BpTypes, TypeOK, AdvanceApp
<1>2. PICK ate \in Reads(right_in), n \in 0 .. InterCap :
         /\ \E total \in Owes(ate) : Turn(ate, total, n)
         /\ right_in' = SetLenIn(right_in, Len(right_in) - ate)
         /\ right_out' = right_out \o Output(n)
  BY DEF AdvanceApp
<1>3. /\ n \in Nat /\ n <= InterCap /\ ate \in Nat /\ ate <= Len(right_in) /\ Len(right_in) \in Nat
      /\ quirks = {} => ate = Len(right_in)
  BY <1>1, ReadsBound
<1>4. owed' \in Nat /\ made' \in Nat
  BY <1>1, <1>2, <1>3, Turns
<1>5. right_out = <<>> /\ <<>> \in Seq(0 .. M) /\ Len(<<>>) = 0
  BY DEF BpInv, OutputPassedOn, AdvanceApp
<1>6. right_out' \in Seq(0 .. M) /\ Len(right_out') <= InterCap
  <2>1. Output(n) \in Seq(0 .. M) /\ Len(Output(n)) = n
    BY <1>1, <1>3, Items
  <2>2. right_out' \in Seq(0 .. M) /\ Len(right_out') = 0 + n
    BY <1>2, <1>5, <2>1, ConcatProperties
  <2> QED
    BY <1>3, <2>2
<1> DEFINE m == Len(right_in) - ate
<1>7. m \in Nat /\ m <= Len(right_in) /\ right_in' = SubSeq(right_in, 1, m)
  BY <1>2, <1>3 DEF SetLenIn
<1>8. right_in' \in Seq(0 .. M) /\ Len(right_in') = m
  <2> HIDE DEF m
  <2>1. 1 \in Nat \ {0} /\ m \in Int
    BY <1>7
  <2>2. right_in' \in Seq(0 .. M) /\ Len(right_in') = IF 1 <= m THEN m - 1 + 1 ELSE 0
    BY <1>1, <1>7, <2>1, Part
  <2> QED
    BY <1>7, <2>2
<1>9. quirks = {} => right_in' = <<>>
  <2>1. quirks = {} => m < 1
    BY <1>3
  <2> QED
    BY <1>7, <2>1, SubSeqEmpty
<1> HIDE DEF m
<1> QED
  BY <1>1, <1>3, <1>4, <1>6, <1>7, <1>8, <1>9

(* The turn of the app keeps the invariant. *)
LEMMA AppBp ==
    ASSUME BpInv, AdvanceApp
    PROVE  BpInv'
<1>1. BpTypes /\ TypeOK /\ ReadyAfterHandshake
  BY DEF BpInv, BpTypes
<1>2. /\ pc = "run" /\ cur_level = 1
      /\ UNCHANGED <<layers, quirks, left_in, left_out, is_ready, in_blocked, sent, hs>>
      /\ \/ pc' = "send" /\ cur_level' = 1
         \/ pc' = "run" /\ cur_level' = 0
  BY DEF AdvanceApp, given, stream
<1>3. BpTypes'
  BY <1>1, <1>2, AppFacts DEF BpTypes, TypeOK
<1>4. hs = 0
  BY <1>1, <1>2 DEF ReadyAfterHandshake
<1>5. ReadyAfterHandshake' /\ OutputPassedOn'
  BY <1>1, <1>2, <1>4 DEF ReadyAfterHandshake, OutputPassedOn
<1>6. InputReadFirst'
  BY <1>2, AppFacts DEF InputReadFirst
<1> QED
  BY <1>3, <1>5, <1>6 DEF BpInv

(* The turn of the layer: it may be ready only after the handshake, and passes on
   all output of the app; a plain one that has output to send passes no input on. *)
LEMMA LayerFacts ==
    ASSUME BpInv, AdvanceLayer
    PROVE  /\ left_in' \in Seq(0 .. M) /\ left_out' \in Seq(0 .. M)
           /\ right_in' \in Seq(0 .. M) /\ right_out' \in Seq(0 .. M)
           /\ Len(right_in') <= InterCap /\ Len(right_out') <= InterCap
           /\ hs' \in 0 .. Handshake /\ is_ready' \in BOOLEAN
           /\ hs' > 0 => ~is_ready' /\ right_out' = <<>>
           /\ is_ready' => right_out' = <<>>
           /\ quirks = {} /\ (left_out' # <<>> \/ ~is_ready') => right_in' = <<>>
<1>1. /\ TypeOK /\ left_in \in Seq(0 .. M) /\ left_out \in Seq(0 .. M)
      /\ right_in \in Seq(0 .. M) /\ right_out \in Seq(0 .. M) /\ is_ready \in BOOLEAN
      /\ Len(right_in) <= InterCap /\ Len(right_out) <= InterCap
      /\ hs \in 0 .. Handshake /\ hs \in Nat /\ Handshake \in Nat /\ InterCap \in Nat
      /\ hs > 0 => ~is_ready /\ right_out = <<>>
      /\ quirks = {} => right_in = <<>>
      /\ Hs \in 0 .. M
  BY BlueprintsAssumption DEF BpInv, BpTypes, TypeOK, ReadyAfterHandshake, OutputPassedOn,
     InputReadFirst, AdvanceLayer, AtLayer, Hs
<1>2. CASE Greet
  <2>1. /\ hs > 0 /\ hs' = hs - 1 /\ is_ready' = (hs = 1) /\ left_in # <<>>
        /\ left_in' = Tail(left_in) /\ left_out' \in {left_out, Append(left_out, Hs)}
        /\ right_in' = right_in /\ right_out' = right_out
    BY <1>2 DEF Greet, intermed
  <2>2. left_in' \in Seq(0 .. M)
    BY <1>1, <2>1, HeadTailProperties
  <2>3. left_out' \in Seq(0 .. M)
    <3>1. Append(left_out, Hs) \in Seq(0 .. M)
      BY <1>1, AppendProperties
    <3> QED
      BY <1>1, <2>1, <3>1
  <2>4. hs' \in 0 .. Handshake /\ is_ready' \in BOOLEAN /\ (hs' > 0 => ~is_ready')
    BY <1>1, <2>1
  <2> QED
    BY <1>1, <2>1, <2>2, <2>3, <2>4
<1>3. CASE Await
  <2>1. hs > 0 /\ UNCHANGED <<left_in, left_out, is_ready, hs, right_in, right_out>>
    BY <1>3 DEF Await, intermed
  <2> QED
    BY <1>1, <2>1
<1>4. CASE \E n \in Passes : n <= Room /\ Pass(n)
  <2>1. PICK n \in Passes : n <= Room /\ Pass(n)
    BY <1>4
  <2>2. /\ hs = 0 /\ hs' = hs /\ is_ready' = TRUE
        /\ left_in' = SubSeq(left_in, n + 1, Len(left_in))
        /\ left_out' = left_out \o right_out
        /\ right_in' = right_in \o SubSeq(left_in, 1, n)
        /\ right_out' = <<>>
    BY <2>1 DEF Pass, AllSentRightOut
  <2>3. /\ n \in 0 .. Len(left_in) /\ Len(left_in) \in Nat /\ n \in Nat
        /\ quirks = {} /\ (left_out # <<>> \/ right_out # <<>>) => n = 0
    <3>1. Len(left_in) \in Nat
      BY <1>1
    <3> QED
      BY <3>1 DEF Passes
  <2>4. left_in' \in Seq(0 .. M)
    <3>1. n + 1 \in Nat \ {0} /\ Len(left_in) \in Int /\ Len(left_in) <= Len(left_in)
      BY <2>3
    <3> QED
      BY <1>1, <2>2, <3>1, Part
  <2>5. /\ SubSeq(left_in, 1, n) \in Seq(0 .. M)
        /\ Len(SubSeq(left_in, 1, n)) = IF 1 <= n THEN n - 1 + 1 ELSE 0
    <3>1. 1 \in Nat \ {0} /\ n \in Int /\ n <= Len(left_in)
      BY <2>3
    <3> QED
      BY <1>1, <3>1, Part
  <2>6. Len(SubSeq(left_in, 1, n)) = n
    BY <2>3, <2>5
  <2>7. right_in' \in Seq(0 .. M) /\ Len(right_in') = Len(right_in) + n
    BY <1>1, <2>2, <2>5, <2>6, ConcatProperties
  <2>8. Len(right_in') <= InterCap
    <3>1. Len(right_in) \in Nat /\ n <= InterCap - Len(right_in)
      BY <1>1, <2>1 DEF Room
    <3> QED
      BY <1>1, <2>3, <2>7, <3>1
  <2>9. left_out' \in Seq(0 .. M)
    BY <1>1, <2>2, ConcatProperties
  <2>10. right_out' \in Seq(0 .. M) /\ Len(right_out') <= InterCap
    <3>1. <<>> \in Seq(0 .. M) /\ Len(<<>>) = 0
      OBVIOUS
    <3> QED
      BY <1>1, <2>2, <3>1
  <2>11. quirks = {} /\ left_out' # <<>> => right_in' = <<>>
    <3> SUFFICES ASSUME quirks = {}, left_out' # <<>> PROVE right_in' = <<>>
      OBVIOUS
    <3>1. left_out # <<>> \/ right_out # <<>>
      <4>1. <<>> \o <<>> = <<>>
        OBVIOUS
      <4> QED
        BY <2>2, <4>1
    <3>2. n = 0 /\ right_in = <<>>
      BY <1>1, <2>3, <3>1
    <3>3. SubSeq(left_in, 1, n) = <<>>
      BY <3>2, SubSeqEmpty
    <3> QED
      BY <2>2, <3>2, <3>3
  <2>12. /\ hs' \in 0 .. Handshake /\ is_ready' \in BOOLEAN /\ ~(hs' > 0) /\ is_ready'
         /\ right_out' = <<>>
    BY <1>1, <2>2
  <2> QED
    BY <2>4, <2>7, <2>8, <2>9, <2>10, <2>11, <2>12
<1> QED
  BY <1>2, <1>3, <1>4 DEF AdvanceLayer

(* A layer that is not done has no output waiting. *)
LEMMA LayerBp ==
    ASSUME BpInv, AdvanceLayer
    PROVE  BpInv'
<1>1. BpTypes /\ TypeOK
  BY DEF BpInv, BpTypes
<1>2. /\ UNCHANGED <<layers, quirks, sent, owed, made>>
      /\ pc' = IF LayerDone THEN "send" ELSE "run"
      /\ cur_level' = IF ~LayerDone /\ is_ready' THEN 1 ELSE 0
  BY DEF AdvanceLayer, given
<1>3. /\ hs' > 0 => ~is_ready' /\ right_out' = <<>>
      /\ is_ready' => right_out' = <<>>
      /\ quirks = {} /\ ~is_ready' => right_in' = <<>>
      /\ hs' \in Nat
  <2>1. Handshake \in Nat
    BY BlueprintsAssumption
  <2> QED
    BY <2>1, LayerFacts
<1>4. BpTypes'
  <2>1. pc' \in {"idle", "run", "send", "closed", "panic"} /\ cur_level' \in {0, 1}
    BY <1>2
  <2> QED
    BY <1>1, <1>2, <2>1, LayerFacts DEF BpTypes, TypeOK
<1>5. ReadyAfterHandshake' /\ OutputPassedOn'
  BY <1>2, <1>3 DEF ReadyAfterHandshake, OutputPassedOn
<1>6. InputReadFirst'
  BY <1>2, <1>3 DEF InputReadFirst
<1> QED
  BY <1>4, <1>5, <1>6 DEF BpInv

-----------------------------------------------------------------------------
(* The theorems.                                                           *)

(* Every step keeps the invariant. *)
LEMMA StepBp == BpInv /\ [Next]_vars => BpInv'
<1> SUFFICES ASSUME BpInv, [Next]_vars PROVE BpInv'
  OBVIOUS
<1>1. CASE UNCHANGED vars
  <2>1. UNCHANGED <<layers, quirks, left_in, left_out, is_ready, right_in, right_out, cur_level,
                    pc, sent, hs, owed, made>>
    BY <1>1 DEF vars, state, given, stream, intermed, orbits
  <2> QED
    BY <2>1 DEF BpInv, BpTypes, TypeOK, ReadyAfterHandshake, OutputPassedOn, InputReadFirst
<1>2. CASE \/ \E n \in 1 .. MaxSeg : HandleRecv(n)
           \/ HandleSentZc \/ SendAll \/ SendNothing
           \/ HandleShutdown \/ Close
  BY <1>2, HandlersBp
<1>3. CASE AdvanceOnStream
  BY <1>3, OnStreamBp
<1>4. CASE AdvanceLayer
  BY <1>4, LayerBp
<1>5. CASE AdvanceApp
  BY <1>5, AppBp
<1>6. CASE AddRightInPanics
  <2>1. /\ UNCHANGED <<given, intermed, cur_level, is_ready, hs, sent, owed, made, left_in, left_out>>
        /\ pc' = "panic"
    BY <1>6 DEF AddRightInPanics, orbits, stream
  <2>2. /\ left_in' \in Seq(0 .. M) /\ left_out' \in Seq(0 .. M)
        /\ owed' \in Nat /\ made' \in Nat
    BY <2>1 DEF BpInv, BpTypes, TypeOK
  <2> QED
    BY <2>1, <2>2, LeaveBp
<1> QED
  BY <1>1, <1>2, <1>3, <1>4, <1>5, <1>6 DEF Next, Run

(* The invariant holds throughout. *)
LEMMA BpInvariant == Spec => []BpInv
BY InitBp, StepBp, PTL DEF Spec

(* run_blueprints never holds more than an IntermedBuf has room for, in either
   direction, whatever the orbits do: the layer has passed all output on when the
   app has its next turn. *)
THEOREM BlueprintsTypeCorrect == Spec => []TypeOK
<1>1. BpInv => TypeOK
  BY DEF BpInv, BpTypes
<1> QED
  BY <1>1, BpInvariant, PTL

(* With plain orbits no call of run_blueprints returns with input in the
   IntermedBuf, which would be dropped with it, and no left_set_lens cuts off
   input the app has not read. *)
THEOREM PlainOrbitsLoseNothing == Spec => NothingDropped
<1> DEFINE A == quirks = {} => ~Drops
<1>1. BpInv /\ [Next]_vars => [A]_vars
  <2> SUFFICES ASSUME BpInv, Next, quirks = {}, Drops PROVE FALSE
    BY DEF A
  <2>1. pc = "run" /\ layers > 0 /\ right_in' # <<>>
    BY DEF Drops
  <2>2. AdvanceLayer \/ AddRightInPanics \/ AdvanceApp
    BY <2>1 DEF Next, Run, HandleRecv, HandleSentZc, SendAll, SendNothing,
       HandleShutdown, Close, AdvanceOnStream
  <2>3. CASE AdvanceApp
    BY <2>1, <2>3, AppFacts
  <2>4. CASE AddRightInPanics
    BY <2>4 DEF Drops, AddRightInPanics, AtLayer
  <2>5. CASE AdvanceLayer
    <3>1. LayerDone
      BY <2>5 DEF Drops, AdvanceLayer, AtLayer
    <3>2. left_out' # <<>> \/ ~is_ready'
      BY <3>1 DEF LayerDone
    <3> QED
      BY <2>1, <2>5, <3>2, LayerFacts
  <2> QED
    BY <2>2, <2>3, <2>4, <2>5
<1> QED
  BY <1>1, BpInvariant, PTL DEF Spec, NothingDropped
=============================================================================
