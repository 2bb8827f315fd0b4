--------------------------- MODULE ListenerProofs ---------------------------
(***************************************************************************)
(* What Listener guarantees for every number of connections, slots, accepts*)
(* and huge pages, every batch size and limit, and every fault.            *)
(***************************************************************************)
EXTENDS Listener, Counting, TLAPS

-----------------------------------------------------------------------------
(* The inductive invariant.                                                *)

(* What the listener has still to handle, in the order it will. *)
Events == bundle \o cq

(* A slot of the table, a request in flight and a completion lead back to the
   slot their connection was accepted into, once and for all. *)
Addressed ==
    /\ \A c \in Conns : at[c] # 0 => peer[c] \in {"open", "closed"}
    /\ \A s \in Slots : table[s] # NoConn => at[table[s]] = s
    /\ \A c \in Conns : c \in armed \/ unacked[c] > 0 \/ unnotified[c] > 0 => at[c] # 0
    /\ \A i \in 1 .. Len(Events) :
          Events[i].kind # "refused" =>
             Events[i].slot = at[Events[i].conn] /\ at[Events[i].conn] # 0

(* A stream holds its slot and its blueprint, and a free slot has a new one. *)
Kept ==
    \A s \in Slots :
       /\ pool[s] # NoStream =>
             pool[s].conn \in Conns /\ table[s] = pool[s].conn /\ orbit[s] = pool[s].conn
       /\ table[s] = NoConn => orbit[s] = NoConn

(* An accept to be handled has its slot to itself, with nothing in it yet. *)
Awaited ==
    \A i \in 1 .. Len(Events) : Events[i].kind = "accept" =>
       /\ table[Events[i].slot] = Events[i].conn
       /\ pool[Events[i].slot] = NoStream
       /\ orbit[Events[i].slot] = NoConn
       /\ Events[i].conn \notin orphans
       /\ \A j \in 1 .. Len(Events) :
             Events[j].kind = "accept" /\ Events[j].slot = Events[i].slot => i = j

(* The stream of a connection is there, or was dropped behind recv_multi. *)
Streaming(c) == pool[at[c]].conn = c \/ c \in orphans

(* Receives belong to such a connection, and after the last completion of one
   nothing more comes. *)
Receives ==
    /\ \A c \in armed : Streaming(c)
    /\ \A i \in 1 .. Len(Events) : Events[i].kind = "recv" =>
          /\ Streaming(Events[i].conn)
          /\ ~Events[i].more =>
                /\ Events[i].conn \notin armed
                /\ \A j \in i + 1 .. Len(Events) :
                      ~(Events[j].kind = "recv" /\ Events[j].conn = Events[i].conn)

(* A connection whose stream was dropped keeps its slot for ever. *)
Orphaned ==
    \A c \in orphans : at[c] # 0 /\ table[at[c]] = c /\ pool[at[c]] = NoStream

(* There is a bundle exactly while it is handled. *)
Bundled ==
    /\ pc = "bundle" => bundle # <<>>
    /\ pc = "poll" => bundle = <<>>

(* The first completion of a send comes before the second. *)
Ordered == \A c \in Conns : unacked[c] <= unnotified[c]

ListenerInv ==
    TypeOK /\ Addressed /\ Kept /\ Awaited /\ Receives /\ Orphaned /\ Bundled /\ Ordered

-----------------------------------------------------------------------------
(* What the steps do to the events.                                        *)

(* The two queues are one. *)
LEMMA EventsQueue ==
    ASSUME TypeOK
    PROVE  /\ Events \in Seq(Cqes) /\ Len(Events) \in Nat
           /\ Len(Events) = Len(bundle) + Len(cq)
           /\ Len(bundle) \in Nat /\ Len(cq) \in Nat
           /\ \A i \in 1 .. Len(bundle) : Events[i] = bundle[i]
           /\ \A i \in 1 .. Len(cq) : Events[Len(bundle) + i] = cq[i]
           /\ \A i \in 1 .. Len(Events) : Events[i] \in Cqes
<1>1. bundle \in Seq(Cqes) /\ cq \in Seq(Cqes)
  BY DEF TypeOK
<1>2. /\ Events \in Seq(Cqes)
      /\ Len(Events) = Len(bundle) + Len(cq)
      /\ \A i \in 1 .. Len(bundle) + Len(cq) :
            Events[i] = IF i <= Len(bundle) THEN bundle[i] ELSE cq[i - Len(bundle)]
  BY <1>1, ConcatProperties DEF Events
<1>3. Len(bundle) \in Nat /\ Len(cq) \in Nat
  BY <1>1
<1>4. \A i \in 1 .. Len(Events) : Events[i] \in Cqes
  BY <1>2, ElementOfSeq
<1> QED
  BY <1>2, <1>3, <1>4

(* The kernel posts a completion. *)
LEMMA EventsPosted ==
    ASSUME TypeOK, NEW e \in Cqes, cq' = Append(cq, e), bundle' = bundle
    PROVE  /\ cq' \in Seq(Cqes)
           /\ Events' = Append(Events, e)
           /\ Events' \in Seq(Cqes) /\ Len(Events') = Len(Events) + 1
           /\ \A i \in 1 .. Len(Events) : Events'[i] = Events[i]
           /\ Events'[Len(Events) + 1] = e
<1>1. bundle \in Seq(Cqes) /\ cq \in Seq(Cqes)
  BY DEF TypeOK
<1>2. bundle \o Append(cq, e) = Append(bundle \o cq, e)
  <2>1. Append(cq, e) = cq \o <<e>> /\ <<e>> \in Seq(Cqes)
    BY <1>1, AppendIsConcat
  <2>2. Append(bundle \o cq, e) = (bundle \o cq) \o <<e>>
    BY <1>1, ConcatProperties, AppendIsConcat
  <2>3. (bundle \o cq) \o <<e>> = bundle \o (cq \o <<e>>)
    BY <1>1, <2>1, ConcatAssociative
  <2> QED
    BY <2>1, <2>2, <2>3
<1>3. Events' = Append(Events, e)
  BY <1>2 DEF Events
<1>4. Events \in Seq(Cqes)
  BY <1>1, ConcatProperties DEF Events
<1>5. cq' \in Seq(Cqes)
  BY <1>1, AppendProperties
<1> QED
  BY <1>3, <1>4, <1>5, AppendProperties

(* The first n events are gone. *)
Gone(n) ==
    /\ Events' \in Seq(Cqes)
    /\ Len(Events') = Len(Events) - n
    /\ \A i \in 1 .. Len(Events) - n : Events'[i] = Events[i + n]

(* A handler is done with its completion. *)
LEMMA EventsPopped ==
    ASSUME TypeOK, bundle # <<>>, bundle' = Tail(bundle), cq' = cq
    PROVE  /\ Gone(1) /\ bundle' \in Seq(Cqes)
           /\ Len(Events) > 0 /\ Events[1] = Head(bundle)
<1>1. bundle \in Seq(Cqes) /\ cq \in Seq(Cqes)
  BY DEF TypeOK
<1>2. /\ Tail(bundle) \in Seq(Cqes) /\ Len(Tail(bundle)) = Len(bundle) - 1
      /\ \A i \in 1 .. Len(Tail(bundle)) : Tail(bundle)[i] = bundle[i + 1]
  BY <1>1, HeadTailProperties
<1>3. Len(bundle) > 0 /\ Head(bundle) = bundle[1] /\ Len(bundle) \in Nat /\ Len(cq) \in Nat
  BY <1>1, EmptySeq
<1>4. /\ Events' \in Seq(Cqes)
      /\ Len(Events') = Len(Tail(bundle)) + Len(cq)
      /\ \A i \in 1 .. Len(Tail(bundle)) + Len(cq) :
            Events'[i] = IF i <= Len(Tail(bundle)) THEN Tail(bundle)[i]
                         ELSE cq[i - Len(Tail(bundle))]
  BY <1>1, <1>2, ConcatProperties DEF Events
<1>5. /\ Len(Events) = Len(bundle) + Len(cq)
      /\ \A i \in 1 .. Len(bundle) : Events[i] = bundle[i]
      /\ \A i \in 1 .. Len(cq) : Events[Len(bundle) + i] = cq[i]
  BY EventsQueue
<1>6. ASSUME NEW i \in 1 .. Len(Events) - 1 PROVE Events'[i] = Events[i + 1]
  <2>1. CASE i <= Len(bundle) - 1
    BY <1>2, <1>3, <1>4, <1>5, <2>1
  <2>2. CASE i > Len(bundle) - 1
    <3> DEFINE k == i - (Len(bundle) - 1)
    <3>1. k \in 1 .. Len(cq) /\ i + 1 = Len(bundle) + k
      BY <1>3, <1>5, <2>2
    <3>2. Events'[i] = cq[k]
      BY <1>2, <1>3, <1>4, <1>5, <2>2
    <3> QED
      BY <3>1, <3>2, <1>5
  <2> QED
    BY <2>1, <2>2, <1>3
<1> QED
  BY <1>2, <1>3, <1>4, <1>5, <1>6 DEF Gone

(* An error drops the bundle. *)
LEMMA EventsDropped ==
    ASSUME TypeOK, bundle # <<>>, bundle' = <<>>, cq' = cq
    PROVE  /\ Len(bundle) \in 1 .. Len(Events) /\ Gone(Len(bundle))
           /\ bundle' \in Seq(Cqes)
           /\ Len(Events) > 0 /\ Events[1] = Head(bundle)
<1>1. bundle \in Seq(Cqes) /\ cq \in Seq(Cqes)
  BY DEF TypeOK
<1>2. Events' = cq
  BY <1>1, ConcatEmptySeq DEF Events
<1>3. Len(bundle) > 0 /\ Head(bundle) = bundle[1] /\ Len(bundle) \in Nat /\ Len(cq) \in Nat
  BY <1>1, EmptySeq
<1>4. /\ Len(Events) = Len(bundle) + Len(cq)
      /\ \A i \in 1 .. Len(bundle) : Events[i] = bundle[i]
      /\ \A i \in 1 .. Len(cq) : Events[Len(bundle) + i] = cq[i]
  BY EventsQueue
<1>5. \A i \in 1 .. Len(cq) : Len(bundle) + i = i + Len(bundle)
  BY <1>3
<1> QED
  BY <1>1, <1>2, <1>3, <1>4, <1>5, EmptySeq DEF Gone

(* What check takes from the queue it handles next: nothing is reordered. *)
LEMMA EventsTaken ==
    ASSUME ListenerInv, CheckCollect
    PROVE  Events' = Events /\ bundle' \in Seq(Cqes) /\ cq' \in Seq(Cqes) /\ bundle' # <<>>
<1>1. bundle = <<>> /\ cq \in Seq(Cqes) /\ cq # <<>>
  BY DEF ListenerInv, TypeOK, Bundled, CheckCollect
<1>2. Len(cq) \in Nat /\ Len(cq) > 0 /\ Taken \in 1 .. Len(cq)
  BY <1>1, EmptySeq, ListenerAssumption DEF Taken
<1>3. \A i \in 1 .. Len(cq) : cq[i] \in Cqes
  BY <1>1, ElementOfSeq
<1>4. SubSeq(cq, 1, Taken) \in Seq(Cqes) /\ Len(SubSeq(cq, 1, Taken)) = Taken
  BY <1>2, <1>3, SubSeqProperties
<1>5. SubSeq(cq, Taken + 1, Len(cq)) \in Seq(Cqes)
  BY <1>2, <1>3, SubSeqProperties
<1>6. SubSeq(cq, 1, Taken) \o SubSeq(cq, Taken + 1, Len(cq)) = SubSeq(cq, 1, Len(cq))
  BY <1>1, <1>2, ConcatAdjacentSubSeq
<1>7. SubSeq(cq, 1, Len(cq)) = cq /\ <<>> \o cq = cq
  BY <1>1, SubSeqFull, ConcatEmptySeq
<1>8. SubSeq(cq, 1, Taken) # <<>>
  BY <1>2, <1>4, EmptySeq
<1> QED
  BY <1>1, <1>4, <1>5, <1>6, <1>7, <1>8 DEF Events, CheckCollect

-----------------------------------------------------------------------------
(* The invariant, step by step.                                            *)

(* The slots of the table. *)
LEMMA SlotFacts ==
    /\ Slots \subseteq Nat \ {0}
    /\ 0 .. FixedCount - 1 = Slots \cup {0}
    /\ 0 \notin Slots
BY ListenerAssumption DEF Slots

(* listen_with_strategy. *)
LEMMA InitInv == Init => ListenerInv
<1> SUFFICES ASSUME Init PROVE ListenerInv
  OBVIOUS
<1>1. cq = <<>> /\ bundle = <<>> /\ Events = <<>> /\ Len(Events) = 0
  <2>1. <<>> \o <<>> = <<>>
    BY EmptySeq, ConcatEmptySeq
  <2> QED
    BY <2>1 DEF Init, Events
<1>2. TypeOK
  <2>1. cq \in Seq(Cqes) /\ bundle \in Seq(Cqes)
    BY <1>1, EmptySeq
  <2>2. 0 \in 0 .. FixedCount - 1 /\ 0 \in 0 .. MaxFull
    BY ListenerAssumption
  <2>3. pool \in [Slots -> [conn: Conns \cup {NoConn}, sends: Nat, bufs: Nat]]
    BY DEF Init, NoStream
  <2> QED
    BY <2>1, <2>2, <2>3, ListenerAssumption DEF Init, TypeOK
<1>3. Addressed
  BY <1>1 DEF Init, Addressed
<1>4. Kept /\ Awaited /\ Receives /\ Orphaned /\ Bundled /\ Ordered
  BY <1>1 DEF Init, Kept, Awaited, Receives, Orphaned, Bundled, Ordered
<1> QED
  BY <1>2, <1>3, <1>4 DEF ListenerInv

(* Steps that touch neither connections nor streams: a peer opens or closes, the
   program sets up huge pages, check panics. *)
LEMMA QuietStepInv ==
    ASSUME ListenerInv, UNCHANGED <<accepts, table, at, armed, unacked, unnotified, cq,
                                    pages, pool, bundle, full, orphans, orbit>>,
           \/ pc' = pc /\ hugetlb' = hugetlb /\ \E c \in Conns : Connect(c) \/ PeerClose(c)
           \/ pc' = pc /\ peer' = peer /\ hugetlb' = TRUE
           \/ pc' = "panic" /\ peer' = peer /\ hugetlb' = hugetlb
    PROVE  ListenerInv'
<1>1. Events' = Events
  BY DEF Events
<1>2. TypeOK'
  BY DEF ListenerInv, TypeOK, Connect, PeerClose
<1>3. \A c \in Conns : at[c] # 0 => peer'[c] \in {"open", "closed"}
  BY DEF ListenerInv, TypeOK, Addressed, Connect, PeerClose
<1>4. Addressed'
  BY <1>1, <1>3 DEF ListenerInv, Addressed
<1>5. Kept' /\ Awaited' /\ Receives' /\ Orphaned'
  BY <1>1 DEF ListenerInv, Kept, Awaited, Receives, Orphaned, Streaming
<1>6. Bundled' /\ Ordered'
  BY DEF ListenerInv, Bundled, Ordered
<1> QED
  BY <1>2, <1>4, <1>5, <1>6 DEF ListenerInv

(* A connection is accepted into a free slot. *)
LEMMA KernelAcceptInv ==
    ASSUME ListenerInv, NEW c \in Conns, NEW s \in Slots, KernelAccept(c, s)
    PROVE  ListenerInv'
<1> DEFINE e == [kind |-> "accept", slot |-> s, conn |-> c, more |-> FALSE]
           n == Len(Events)
<1>1. TypeOK /\ Addressed /\ Kept /\ Awaited /\ Receives /\ Orphaned /\ Bundled
  BY DEF ListenerInv
<1>2. e \in Cqes /\ e.kind = "accept" /\ e.slot = s /\ e.conn = c
  BY SlotFacts DEF Cqes
<1>3. /\ peer[c] = "queued" /\ accepts > 0 /\ table[s] = NoConn
      /\ peer' = [peer EXCEPT ![c] = "open"]
      /\ accepts' = accepts - 1
      /\ table' = [table EXCEPT ![s] = c]
      /\ at' = [at EXCEPT ![c] = s]
      /\ cq' = Append(cq, e)
      /\ UNCHANGED <<armed, unacked, unnotified, listener>>
  BY DEF KernelAccept
<1>4. /\ n \in Nat /\ Len(Events') = n + 1 /\ cq' \in Seq(Cqes)
      /\ \A i \in 1 .. n : Events'[i] = Events[i] /\ Events[i] \in Cqes
      /\ Events'[n + 1] = e
  BY <1>1, <1>2, <1>3, EventsQueue, EventsPosted DEF listener
<1> HIDE DEF e, n
<1>5. c # NoConn /\ s # 0 /\ s \in 0 .. FixedCount - 1
  BY SlotFacts, ListenerAssumption
<1>6. at[c] = 0 /\ c \notin armed /\ unacked[c] = 0 /\ unnotified[c] = 0
  BY <1>1, <1>3 DEF Addressed, TypeOK
<1>7. \A i \in 1 .. n : Events[i].kind # "refused" => Events[i].conn # c
  BY <1>1, <1>6 DEF Addressed, n
<1>8. pool[s] = NoStream /\ orbit[s] = NoConn
  BY <1>1, <1>3, ListenerAssumption DEF Kept
<1>9. \A t \in Slots : table[t] # c
  BY <1>1, <1>5, <1>6, SlotFacts DEF Addressed
<1>10. TypeOK'
  BY <1>1, <1>3, <1>4, <1>5, SMTT(60) DEF TypeOK, listener
<1>11. Addressed'
  <2>1. \A d \in Conns : at'[d] # 0 => peer'[d] \in {"open", "closed"}
    BY <1>1, <1>3 DEF Addressed, TypeOK
  <2>2. \A t \in Slots : table'[t] # NoConn => at'[table'[t]] = t
    BY <1>1, <1>3, <1>9 DEF Addressed, TypeOK
  <2>3. \A d \in Conns : d \in armed' \/ unacked'[d] > 0 \/ unnotified'[d] > 0 => at'[d] # 0
    BY <1>1, <1>3, <1>5 DEF Addressed, TypeOK
  <2>4. ASSUME NEW i \in 1 .. n + 1, Events'[i].kind # "refused"
        PROVE  Events'[i].slot = at'[Events'[i].conn] /\ at'[Events'[i].conn] # 0
    <3>1. CASE i = n + 1
      BY <1>1, <1>2, <1>3, <1>4, <1>5, <3>1 DEF TypeOK
    <3>2. CASE i \in 1 .. n
      <4>1. Events[i].conn # c /\ Events[i].conn \in Conns
        BY <1>4, <1>7, <2>4, <3>2 DEF Cqes
      <4> QED
        BY <1>1, <1>3, <1>4, <2>4, <3>2, <4>1 DEF Addressed, TypeOK, n
    <3> QED
      BY <3>1, <3>2, <1>4
  <2> QED
    BY <1>4, <2>1, <2>2, <2>3, <2>4 DEF Addressed
<1>12. Kept'
  BY <1>1, <1>3, <1>5, <1>8 DEF Kept, TypeOK, listener
<1>13. Awaited'
  <2>1. c \notin orphans
    BY <1>1, <1>6 DEF Orphaned
  <2>2. \A i \in 1 .. n : Events[i].kind = "accept" => Events[i].slot # s
    <3> SUFFICES ASSUME NEW i \in 1 .. n, Events[i].kind = "accept" PROVE Events[i].slot # s
      OBVIOUS
    <3>1. table[Events[i].slot] = Events[i].conn /\ Events[i].conn \in Conns
      BY <1>1, <1>4 DEF Awaited, Cqes, n
    <3> QED
      BY <3>1, <1>3, ListenerAssumption
  <2>3. \A i \in 1 .. n : Events[i].kind = "accept" => table'[Events[i].slot] = Events[i].conn
    <3> SUFFICES ASSUME NEW i \in 1 .. n, Events[i].kind = "accept"
                 PROVE  table'[Events[i].slot] = Events[i].conn
      OBVIOUS
    <3>1. Events[i].slot \in Slots
      BY <1>1, <1>4, SlotFacts, SMTT(60) DEF Addressed, Cqes, n
    <3>2. table[Events[i].slot] = Events[i].conn /\ Events[i].slot # s
      BY <1>1, <2>2 DEF Awaited, n
    <3> QED
      BY <3>1, <3>2, <1>1, <1>3 DEF TypeOK
  <2>4. ASSUME NEW i \in 1 .. n + 1, Events'[i].kind = "accept"
        PROVE  /\ table'[Events'[i].slot] = Events'[i].conn
               /\ pool'[Events'[i].slot] = NoStream
               /\ orbit'[Events'[i].slot] = NoConn
               /\ Events'[i].conn \notin orphans'
    <3>1. CASE i = n + 1
      BY <1>1, <1>2, <1>3, <1>4, <1>8, <2>1, <3>1 DEF TypeOK, listener
    <3>2. CASE i \in 1 .. n
      BY <1>1, <1>3, <1>4, <2>3, <2>4, <3>2 DEF Awaited, listener, n
    <3> QED
      BY <3>1, <3>2, <1>4
  <2>5. ASSUME NEW i \in 1 .. n + 1, NEW j \in 1 .. n + 1,
               Events'[i].kind = "accept", Events'[j].kind = "accept",
               Events'[j].slot = Events'[i].slot
        PROVE  i = j
    BY <1>1, <1>2, <1>4, <2>2, <2>5 DEF Awaited, n
  <2> QED
    BY <1>4, <2>4, <2>5 DEF Awaited
<1>14. \A d \in Conns : d # c => at'[d] = at[d]
  BY <1>1, <1>3 DEF TypeOK
<1>15. Receives'
  <2>1. \A d \in Conns : d # c /\ Streaming(d) => pool'[at'[d]].conn = d \/ d \in orphans'
    BY <1>3, <1>14 DEF Streaming, listener
  <2>2. \A d \in armed' : pool'[at'[d]].conn = d \/ d \in orphans'
    BY <1>1, <1>3, <1>6, <2>1 DEF Receives, TypeOK
  <2>3. ASSUME NEW i \in 1 .. n + 1, Events'[i].kind = "recv"
        PROVE  /\ \/ pool'[at'[Events'[i].conn]].conn = Events'[i].conn
                  \/ Events'[i].conn \in orphans'
               /\ ~Events'[i].more =>
                     /\ Events'[i].conn \notin armed'
                     /\ \A j \in i + 1 .. n + 1 :
                           ~(Events'[j].kind = "recv" /\ Events'[j].conn = Events'[i].conn)
    <3>1. i \in 1 .. n /\ Events'[i] = Events[i] /\ Events[i].conn \in Conns
      BY <1>2, <1>4, <2>3 DEF Cqes
    <3>2. \/ pool'[at'[Events[i].conn]].conn = Events[i].conn
          \/ Events[i].conn \in orphans'
      BY <1>1, <1>7, <2>1, <2>3, <3>1 DEF Receives, n
    <3>3. ASSUME ~Events'[i].more
          PROVE  /\ Events'[i].conn \notin armed'
                 /\ \A j \in i + 1 .. n + 1 :
                       ~(Events'[j].kind = "recv" /\ Events'[j].conn = Events'[i].conn)
      <4>1. /\ Events[i].conn \notin armed
            /\ \A j \in i + 1 .. n :
                  ~(Events[j].kind = "recv" /\ Events[j].conn = Events[i].conn)
        BY <1>1, <2>3, <3>1, <3>3 DEF Receives, n
      <4>2. \A j \in i + 1 .. n + 1 : j = n + 1 \/ (j \in i + 1 .. n /\ j \in 1 .. n)
        BY <1>4, <3>1
      <4> QED
        BY <1>2, <1>3, <1>4, <3>1, <4>1, <4>2
    <3> QED
      BY <3>1, <3>2, <3>3
  <2> QED
    BY <1>4, <2>2, <2>3 DEF Receives, Streaming
<1>16. Orphaned'
  <2> SUFFICES ASSUME NEW d \in orphans
               PROVE  at'[d] # 0 /\ table'[at'[d]] = d /\ pool'[at'[d]] = NoStream
    BY <1>3 DEF Orphaned, listener
  <2>1. d \in Conns /\ at[d] # 0 /\ table[at[d]] = d /\ pool[at[d]] = NoStream
    BY <1>1 DEF Orphaned, TypeOK
  <2>2. d # c /\ at'[d] = at[d] /\ at[d] # s /\ at[d] \in Slots
    BY <1>1, <1>3, <1>6, <1>14, <2>1, SlotFacts, ListenerAssumption DEF TypeOK
  <2> QED
    BY <1>1, <1>3, <2>1, <2>2 DEF TypeOK, listener
<1>17. Bundled' /\ Ordered'
  BY <1>1, <1>3 DEF Bundled, listener, ListenerInv, Ordered
<1> QED
  BY <1>10, <1>11, <1>12, <1>13, <1>15, <1>16, <1>17 DEF ListenerInv

(* Every other completion the kernel posts: of a refused connection, or of one
   that has a slot; a receive is in flight until its last completion. *)
LEMMA PostedInv ==
    ASSUME ListenerInv, TypeOK', NEW e \in Cqes, cq' = Append(cq, e),
           UNCHANGED <<table, at, listener>>,
           \/ e.kind = "refused"
           \/ /\ e.kind \in {"recv", "reset", "send", "failed"}
              /\ e.slot = at[e.conn] /\ at[e.conn] # 0,
           e.kind = "recv" => e.conn \in armed /\ (~e.more => e.conn \notin armed'),
           armed' \subseteq armed,
           \A d \in Conns : at[d] # 0 => peer'[d] \in {"open", "closed"},
           \A d \in Conns : unacked'[d] <= unacked[d] /\ unnotified'[d] <= unnotified[d],
           Ordered'
    PROVE  ListenerInv'
<1> DEFINE n == Len(Events)
<1>1. TypeOK /\ Addressed /\ Kept /\ Awaited /\ Receives /\ Orphaned /\ Bundled
  BY DEF ListenerInv
<1>2. UNCHANGED <<hugetlb, pages, pool, bundle, full, orphans, orbit, pc>>
  BY DEF listener
<1>3. /\ n \in Nat /\ Len(Events') = n + 1
      /\ \A i \in 1 .. n : Events'[i] = Events[i] /\ Events[i] \in Cqes
      /\ Events'[n + 1] = e
  BY <1>1, <1>2, EventsQueue, EventsPosted
<1> HIDE DEF n
<1>4. \A i \in 1 .. n + 1 : i = n + 1 \/ i \in 1 .. n
  BY <1>3
<1>5. Addressed'
  <2>1. \A d \in Conns : d \in armed' \/ unacked'[d] > 0 \/ unnotified'[d] > 0 => at[d] # 0
    BY <1>1 DEF Addressed, TypeOK
  <2>2. \A i \in 1 .. n + 1 : Events'[i].kind # "refused" =>
             Events'[i].slot = at[Events'[i].conn] /\ at[Events'[i].conn] # 0
    BY <1>1, <1>3, <1>4 DEF Addressed, n
  <2> QED
    BY <1>1, <1>3, <2>1, <2>2 DEF Addressed
<1>6. Kept'
  BY <1>1, <1>2 DEF Kept
<1>7. Awaited'
  <2>1. \A i \in 1 .. n + 1 : Events'[i].kind = "accept" => i \in 1 .. n
    BY <1>3, <1>4
  <2> QED
    BY <1>1, <1>2, <1>3, <2>1 DEF Awaited, n
<1>8. Receives'
  <2>1. \A d \in armed : Streaming(d)
    BY <1>1 DEF Receives
  <2>2. ASSUME NEW i \in 1 .. n + 1, Events'[i].kind = "recv"
        PROVE  /\ Streaming(Events'[i].conn)
               /\ ~Events'[i].more =>
                     /\ Events'[i].conn \notin armed'
                     /\ \A j \in i + 1 .. n + 1 :
                           ~(Events'[j].kind = "recv" /\ Events'[j].conn = Events'[i].conn)
    <3>1. CASE i = n + 1
      BY <1>3, <2>1, <2>2, <3>1
    <3>2. CASE i \in 1 .. n
      <4>1. Events'[i] = Events[i] /\ Streaming(Events[i].conn)
        BY <1>1, <1>3, <2>2, <3>2 DEF Receives, n
      <4>2. ASSUME ~Events[i].more
            PROVE  /\ Events[i].conn \notin armed
                   /\ \A j \in i + 1 .. n :
                         ~(Events[j].kind = "recv" /\ Events[j].conn = Events[i].conn)
        BY <1>1, <2>2, <3>2, <4>1, <4>2 DEF Receives, n
      <4>3. \A j \in i + 1 .. n + 1 : j = n + 1 \/ (j \in i + 1 .. n /\ j \in 1 .. n)
        BY <1>3, <3>2
      <4> QED
        BY <1>3, <4>1, <4>2, <4>3
    <3> QED
      BY <3>1, <3>2, <1>4
  <2> QED
    BY <1>2, <1>3, <2>1, <2>2 DEF Receives, Streaming
<1>9. Orphaned' /\ Bundled'
  BY <1>1, <1>2 DEF Orphaned, Bundled
<1> QED
  BY <1>5, <1>6, <1>7, <1>8, <1>9 DEF ListenerInv

(* The kernel's actions are such steps. *)
LEMMA KernelInv ==
    ASSUME ListenerInv, NEW c \in Conns, KernelRecv(c) \/ Kernel(c)
    PROVE  ListenerInv'
<1>1. TypeOK /\ Addressed
  BY DEF ListenerInv
<1>2. /\ c \in armed \/ unacked[c] > 0 \/ unnotified[c] > 0 => at[c] # 0
      /\ \A d \in Conns : at[d] # 0 => peer[d] \in {"open", "closed"}
      /\ unacked[c] \in Nat /\ unnotified[c] \in Nat
      /\ UNCHANGED <<unacked, unnotified>> => Ordered'
  BY <1>1 DEF Addressed, TypeOK, ListenerInv, Ordered
<1>3. \A kind \in {"refused", "recv", "reset", "send", "failed"}, more \in BOOLEAN :
         /\ Cqe(kind, c, more) \in Cqes
         /\ Cqe(kind, c, more).kind = kind /\ Cqe(kind, c, more).conn = c
         /\ Cqe(kind, c, more).more = more /\ Cqe(kind, c, more).slot = at[c]
  BY <1>1 DEF Cqe, Cqes, TypeOK
<1>4. ASSUME NEW e \in Cqes, cq' = Append(cq, e) PROVE cq' \in Seq(Cqes)
  BY <1>1, <1>4, AppendProperties DEF TypeOK
<1>5. CASE \E s \in Slots : KernelAccept(c, s)
  BY <1>5, KernelAcceptInv
<1>6. CASE KernelAcceptFull(c)
  <2> DEFINE e == Cqe("refused", c, FALSE)
  <2>1. e \in Cqes /\ e.kind = "refused"
    BY <1>3
  <2> HIDE DEF e
  <2>2. /\ peer' = [peer EXCEPT ![c] = "gone"] /\ peer[c] = "queued"
        /\ accepts > 0 /\ accepts' = accepts - 1 /\ cq' = Append(cq, e)
        /\ UNCHANGED <<table, at, armed, unacked, unnotified, listener>>
    BY <1>6 DEF KernelAcceptFull, e
  <2>3. TypeOK'
    BY <1>1, <1>4, <2>1, <2>2 DEF TypeOK, listener
  <2>4. /\ \A d \in Conns : at[d] # 0 => peer'[d] \in {"open", "closed"}
        /\ \A d \in Conns : unacked'[d] <= unacked[d] /\ unnotified'[d] <= unnotified[d]
    BY <1>1, <1>2, <2>2 DEF TypeOK
  <2> QED
    BY <1>2, <2>1, <2>2, <2>3, <2>4, PostedInv
<1>7. CASE KernelRecv(c)
  <2> DEFINE e == Cqe("recv", c, TRUE)
  <2>1. e \in Cqes /\ e.kind = "recv" /\ e.conn = c /\ e.more /\ e.slot = at[c]
    BY <1>3
  <2> HIDE DEF e
  <2>2. /\ c \in armed /\ cq' = Append(cq, e)
        /\ UNCHANGED <<peer, accepts, table, at, armed, unacked, unnotified, listener>>
    BY <1>7 DEF KernelRecv, e
  <2>3. TypeOK'
    BY <1>1, <1>4, <2>1, <2>2 DEF TypeOK, listener
  <2>4. /\ \A d \in Conns : unacked'[d] <= unacked[d] /\ unnotified'[d] <= unnotified[d]
        /\ Ordered'
    BY <1>1, <2>2 DEF TypeOK, ListenerInv, Ordered
  <2> QED
    BY <1>2, <2>1, <2>2, <2>3, <2>4, PostedInv
<1>8. CASE KernelEof(c)
  <2> DEFINE e == Cqe("recv", c, FALSE)
  <2>1. e \in Cqes /\ e.kind = "recv" /\ e.conn = c /\ ~e.more /\ e.slot = at[c]
    BY <1>3
  <2> HIDE DEF e
  <2>2. /\ c \in armed /\ armed' = armed \ {c} /\ cq' = Append(cq, e)
        /\ UNCHANGED <<peer, accepts, table, at, unacked, unnotified, listener>>
    BY <1>8 DEF KernelEof, e
  <2>3. TypeOK'
    BY <1>1, <1>4, <2>1, <2>2 DEF TypeOK, listener
  <2>4. /\ \A d \in Conns : unacked'[d] <= unacked[d] /\ unnotified'[d] <= unnotified[d]
        /\ Ordered'
    BY <1>1, <2>2 DEF TypeOK, ListenerInv, Ordered
  <2> QED
    BY <1>2, <2>1, <2>2, <2>3, <2>4, PostedInv
<1>9. CASE KernelReset(c)
  <2> DEFINE e == Cqe("reset", c, FALSE)
  <2>1. e \in Cqes /\ e.kind = "reset" /\ e.conn = c /\ e.slot = at[c]
    BY <1>3
  <2> HIDE DEF e
  <2>2. /\ c \in armed /\ armed' = armed \ {c} /\ cq' = Append(cq, e)
        /\ UNCHANGED <<peer, accepts, table, at, unacked, unnotified, listener>>
    BY <1>9 DEF KernelReset, e
  <2>3. TypeOK'
    BY <1>1, <1>4, <2>1, <2>2 DEF TypeOK, listener
  <2>4. /\ \A d \in Conns : unacked'[d] <= unacked[d] /\ unnotified'[d] <= unnotified[d]
        /\ Ordered'
    BY <1>1, <2>2 DEF TypeOK, ListenerInv, Ordered
  <2> QED
    BY <1>2, <2>1, <2>2, <2>3, <2>4, PostedInv
<1>10. CASE KernelAck(c)
  <2> DEFINE e == Cqe("send", c, TRUE)
  <2>1. e \in Cqes /\ e.kind = "send" /\ e.conn = c /\ e.slot = at[c]
    BY <1>3
  <2> HIDE DEF e
  <2>2. /\ unacked[c] > 0 /\ unacked' = [unacked EXCEPT ![c] = @ - 1]
        /\ cq' = Append(cq, e)
        /\ UNCHANGED <<peer, accepts, table, at, armed, unnotified, listener>>
    BY <1>10 DEF KernelAck, e
  <2>3. TypeOK'
    BY <1>1, <1>4, <2>1, <2>2 DEF TypeOK, listener
  <2>4. /\ \A d \in Conns : unacked'[d] <= unacked[d] /\ unnotified'[d] <= unnotified[d]
        /\ Ordered'
    BY <1>1, <2>2 DEF TypeOK, ListenerInv, Ordered
  <2> QED
    BY <1>2, <2>1, <2>2, <2>3, <2>4, PostedInv
<1>11. CASE KernelSendFails(c)
  <2>1. PICK more \in BOOLEAN :
           /\ unnotified' = IF more THEN unnotified ELSE [unnotified EXCEPT ![c] = @ - 1]
           /\ cq' = Append(cq, Cqe("failed", c, more))
    BY <1>11 DEF KernelSendFails
  <2> DEFINE e == Cqe("failed", c, more)
  <2>2. e \in Cqes /\ e.kind = "failed" /\ e.conn = c /\ e.slot = at[c]
    BY <1>3
  <2> HIDE DEF e
  <2>3. /\ unacked[c] > 0 /\ unacked' = [unacked EXCEPT ![c] = @ - 1] /\ cq' = Append(cq, e)
        /\ UNCHANGED <<peer, accepts, table, at, armed, listener>>
    BY <1>11, <2>1 DEF KernelSendFails, e
  <2>4. unacked[c] <= unnotified[c]
    BY DEF ListenerInv, Ordered
  <2>5. /\ unacked' \in [Conns -> Nat] /\ unnotified' \in [Conns -> Nat]
        /\ \A d \in Conns : unacked'[d] <= unacked[d] /\ unnotified'[d] <= unnotified[d]
        /\ Ordered'
    BY <1>1, <1>2, <2>1, <2>3, <2>4 DEF TypeOK, ListenerInv, Ordered
  <2>6. TypeOK'
    BY <1>1, <1>4, <2>2, <2>3, <2>5 DEF TypeOK, listener
  <2> QED
    BY <1>2, <2>2, <2>3, <2>5, <2>6, PostedInv
<1>12. CASE KernelNotif(c)
  <2> DEFINE e == Cqe("send", c, FALSE)
  <2>1. e \in Cqes /\ e.kind = "send" /\ e.conn = c /\ e.slot = at[c]
    BY <1>3
  <2> HIDE DEF e
  <2>2. /\ unnotified[c] > unacked[c] /\ unnotified' = [unnotified EXCEPT ![c] = @ - 1]
        /\ cq' = Append(cq, e)
        /\ UNCHANGED <<peer, accepts, table, at, armed, unacked, listener>>
    BY <1>12 DEF KernelNotif, e
  <2>3. TypeOK'
    BY <1>1, <1>4, <2>1, <2>2 DEF TypeOK, listener
  <2>4. /\ \A d \in Conns : unacked'[d] <= unacked[d] /\ unnotified'[d] <= unnotified[d]
        /\ unnotified[c] > 0 /\ Ordered'
    BY <1>1, <1>2, <2>2 DEF TypeOK, ListenerInv, Ordered
  <2> QED
    BY <1>2, <2>1, <2>2, <2>3, <2>4, PostedInv
<1> QED
  BY <1>5, <1>6, <1>7, <1>8, <1>9, <1>10, <1>11, <1>12 DEF Kernel

(* Pop and ReturnErr alike: some events are gone, the first of them the one that
   was handled. *)
LEMMA HandledEvents ==
    ASSUME ListenerInv, pc = "bundle", cq' = cq, Pop \/ ReturnErr
    PROVE  /\ bundle' \in Seq(Cqes) /\ pc' \in {"poll", "bundle"} /\ Bundled'
           /\ Len(Events) > 0 /\ Events[1] = Head(bundle) /\ Head(bundle) \in Cqes
           /\ \E k \in 1 .. Len(Events) : Gone(k)
<1>1. TypeOK /\ bundle # <<>>
  BY DEF ListenerInv, Bundled
<1>2. Len(Events) \in Nat /\ \A i \in 1 .. Len(Events) : Events[i] \in Cqes
  BY <1>1, EventsQueue
<1>3. CASE Pop
  <2>1. Gone(1) /\ bundle' \in Seq(Cqes) /\ Len(Events) > 0 /\ Events[1] = Head(bundle)
    BY <1>1, <1>3, EventsPopped DEF Pop
  <2>2. 1 \in 1 .. Len(Events)
    BY <1>2, <2>1
  <2>3. pc' \in {"poll", "bundle"} /\ Bundled'
    BY <1>3 DEF Pop, Bundled
  <2> QED
    BY <1>2, <2>1, <2>2, <2>3
<1>4. CASE ReturnErr
  <2>1. /\ Len(bundle) \in 1 .. Len(Events) /\ Gone(Len(bundle)) /\ bundle' \in Seq(Cqes)
        /\ Len(Events) > 0 /\ Events[1] = Head(bundle)
    BY <1>1, <1>4, EventsDropped DEF ReturnErr
  <2>2. 1 \in 1 .. Len(Events)
    BY <1>2, <2>1
  <2>3. pc' \in {"poll", "bundle"} /\ Bundled'
    BY <1>4 DEF ReturnErr, Bundled
  <2> QED
    BY <1>2, <2>1, <2>2, <2>3
<1> QED
  BY <1>3, <1>4

(* The facts about single events outlive the loss of earlier ones. *)
LEMMA GoneKeeps ==
    ASSUME ListenerInv, NEW k \in 1 .. Len(Events), Gone(k)
    PROVE  /\ Len(Events) \in Nat /\ Len(Events') \in Nat
           /\ \A i \in 1 .. Len(Events') :
                 /\ i + k \in 2 .. Len(Events) /\ Events'[i] = Events[i + k]
                 /\ Events'[i] \in Cqes
           /\ \A i \in 1 .. Len(Events') : Events'[i].kind # "refused" =>
                 Events'[i].slot = at[Events'[i].conn] /\ at[Events'[i].conn] # 0
           /\ \A i \in 1 .. Len(Events') : Events'[i].kind = "accept" =>
                 /\ table[Events'[i].slot] = Events'[i].conn
                 /\ pool[Events'[i].slot] = NoStream
                 /\ orbit[Events'[i].slot] = NoConn
                 /\ Events'[i].conn \notin orphans
                 /\ \A j \in 1 .. Len(Events') :
                       Events'[j].kind = "accept" /\ Events'[j].slot = Events'[i].slot => i = j
           /\ \A i \in 1 .. Len(Events') : Events'[i].kind = "recv" =>
                 /\ Streaming(Events'[i].conn)
                 /\ ~Events'[i].more =>
                       /\ Events'[i].conn \notin armed
                       /\ \A j \in i + 1 .. Len(Events') :
                             ~(Events'[j].kind = "recv" /\ Events'[j].conn = Events'[i].conn)
<1>1. TypeOK /\ Addressed /\ Awaited /\ Receives
  BY DEF ListenerInv
<1>2. /\ Len(Events) \in Nat /\ \A i \in 1 .. Len(Events) : Events[i] \in Cqes
      /\ Len(Events') = Len(Events) - k
  BY <1>1, EventsQueue DEF Gone
<1>3. \A i \in 1 .. Len(Events') :
         /\ i + k \in 2 .. Len(Events) /\ i + k \in 1 .. Len(Events)
         /\ Events'[i] = Events[i + k] /\ Events[i + k] \in Cqes
  BY <1>2 DEF Gone
<1>4. \A i, j \in 1 .. Len(Events') : i + k = j + k => i = j
  BY <1>2
<1>5. \A i \in 1 .. Len(Events') : Events'[i].kind # "refused" =>
         Events'[i].slot = at[Events'[i].conn] /\ at[Events'[i].conn] # 0
  BY <1>1, <1>3 DEF Addressed
<1>6. \A i \in 1 .. Len(Events') : Events'[i].kind = "accept" =>
                 /\ table[Events'[i].slot] = Events'[i].conn
                 /\ pool[Events'[i].slot] = NoStream
                 /\ orbit[Events'[i].slot] = NoConn
                 /\ Events'[i].conn \notin orphans
                 /\ \A j \in 1 .. Len(Events') :
                       Events'[j].kind = "accept" /\ Events'[j].slot = Events'[i].slot => i = j
  BY <1>1, <1>3, <1>4 DEF Awaited
<1>7. ASSUME NEW i \in 1 .. Len(Events'), Events'[i].kind = "recv"
      PROVE  /\ Streaming(Events'[i].conn)
             /\ ~Events'[i].more =>
                   /\ Events'[i].conn \notin armed
                   /\ \A j \in i + 1 .. Len(Events') :
                         ~(Events'[j].kind = "recv" /\ Events'[j].conn = Events'[i].conn)
  <2>1. \A j \in i + 1 .. Len(Events') :
           j \in 1 .. Len(Events') /\ j + k \in (i + k) + 1 .. Len(Events)
    BY <1>2
  <2> QED
    BY <1>1, <1>3, <1>7, <2>1 DEF Receives
<1>8. Len(Events') \in Nat
  BY <1>2
<1> QED
  BY <1>2, <1>3, <1>5, <1>6, <1>7, <1>8

(* A handler that leaves every stream with its connection: sends, receives,
   skipped accepts. *)
LEMMA ContinuesInv ==
    ASSUME ListenerInv, TypeOK', Bundled', NEW k \in 1 .. Len(Events), Gone(k),
           UNCHANGED <<peer, table, at, armed, orphans, orbit>>,
           \A s \in Slots : /\ pool'[s].conn = pool[s].conn
                            /\ pool'[s] = NoStream <=> pool[s] = NoStream,
           \A d \in Conns : unacked'[d] > 0 \/ unnotified'[d] > 0 => at[d] # 0,
           Ordered'
    PROVE  ListenerInv'
<1>1. TypeOK /\ Addressed /\ Kept /\ Awaited /\ Receives /\ Orphaned
  BY DEF ListenerInv
<1>2. Addressed'
  BY <1>1, GoneKeeps DEF Addressed
<1>3. Kept'
  BY <1>1 DEF Kept
<1>4. \A d \in Conns : at[d] # 0 => at[d] \in Slots
  BY <1>1, SlotFacts DEF TypeOK
<1>5. \A i \in 1 .. Len(Events') : Events'[i].kind # "refused" =>
         /\ Events'[i].conn \in Conns /\ Events'[i].slot \in Slots
         /\ at[Events'[i].conn] \in Slots
  BY <1>4, GoneKeeps DEF Cqes
<1>6. Awaited'
  BY <1>5, GoneKeeps DEF Awaited
<1>7. Receives'
  <2>1. \A d \in Conns : Streaming(d) /\ at[d] # 0 => pool'[at'[d]].conn = d \/ d \in orphans'
    BY <1>4 DEF Streaming
  <2>2. \A d \in armed' : pool'[at'[d]].conn = d \/ d \in orphans'
    BY <1>1, <2>1 DEF Receives, Addressed, TypeOK
  <2>3. \A i \in 1 .. Len(Events') : Events'[i].kind = "recv" =>
           \/ pool'[at'[Events'[i].conn]].conn = Events'[i].conn
           \/ Events'[i].conn \in orphans'
    BY <1>5, <2>1, GoneKeeps
  <2> QED
    BY <2>2, <2>3, GoneKeeps DEF Receives, Streaming
<1>8. Orphaned'
  BY <1>1, <1>4 DEF Orphaned, TypeOK
<1> QED
  BY <1>2, <1>3, <1>6, <1>7, <1>8 DEF ListenerInv

(* The handler of an accept, whatever becomes of the stream: kept in the pool,
   dropped behind the receive, or never made. *)
LEMMA AcceptedInv ==
    ASSUME ListenerInv, TypeOK', Bundled', NEW k \in 1 .. Len(Events), Gone(k),
           NEW s, NEW c, Events[1].kind = "accept", s = Events[1].slot, c = table[s],
           UNCHANGED <<peer, table, at>>,
           armed' \subseteq armed \cup {c},
           orphans \subseteq orphans', orphans' \subseteq orphans \cup {c},
           \A t \in Slots : t # s => pool'[t] = pool[t] /\ orbit'[t] = orbit[t],
           pool'[s] # NoStream => pool'[s].conn = c /\ orbit'[s] = c,
           c \in armed' => pool'[s].conn = c \/ c \in orphans',
           c \in orphans' => pool'[s] = NoStream,
           \A d \in Conns : d # c => unacked'[d] = unacked[d] /\ unnotified'[d] = unnotified[d],
           Ordered'
    PROVE  ListenerInv'
<1>1. TypeOK /\ Addressed /\ Kept /\ Awaited /\ Receives /\ Orphaned
  BY DEF ListenerInv
<1>2. Len(Events) \in Nat /\ 1 \in 1 .. Len(Events) /\ Events[1] \in Cqes
  BY <1>1, EventsQueue
<1>3. /\ c = Events[1].conn /\ c \in Conns /\ c # NoConn /\ s = at[c] /\ at[c] # 0
      /\ s \in Slots /\ pool[s] = NoStream /\ orbit[s] = NoConn /\ c \notin orphans
      /\ table[s] = c
  BY <1>1, <1>2, SlotFacts, ListenerAssumption DEF Awaited, Addressed, Cqes
<1>4. \A d \in Conns : at[d] # 0 => at[d] \in Slots
  BY <1>1, SlotFacts DEF TypeOK
<1>5. \A i \in 1 .. Len(Events') : Events'[i].kind # "refused" =>
         /\ Events'[i].conn \in Conns /\ Events'[i].slot \in Slots
         /\ at[Events'[i].conn] \in Slots
  BY <1>4, GoneKeeps DEF Cqes
<1>6. \A i \in 1 .. Len(Events') : Events'[i].kind = "accept" => Events'[i].slot # s
  <2> SUFFICES ASSUME NEW i \in 1 .. Len(Events'), Events'[i].kind = "accept"
               PROVE  Events'[i].slot # s
    OBVIOUS
  <2>1. i + k \in 1 .. Len(Events) /\ i + k # 1 /\ Events'[i] = Events[i + k]
    BY GoneKeeps
  <2> QED
    BY <1>1, <1>2, <2>1 DEF Awaited
<1>7. \A d \in Conns : d # c /\ at[d] = s => pool[s].conn # d
  BY <1>3, ListenerAssumption DEF NoStream
<1>8. \A d \in Conns : Streaming(d) /\ at[d] # 0 => d # c /\ (pool'[at[d]].conn = d \/ d \in orphans')
  <2> SUFFICES ASSUME NEW d \in Conns, Streaming(d), at[d] # 0
               PROVE  d # c /\ (pool'[at[d]].conn = d \/ d \in orphans')
    OBVIOUS
  <2>1. d # c
    BY <1>3 DEF Streaming, NoStream
  <2>2. CASE d \in orphans
    BY <2>1, <2>2
  <2>3. CASE pool[at[d]].conn = d
    BY <1>4, <1>7, <2>1, <2>3
  <2> QED
    BY <2>1, <2>2, <2>3 DEF Streaming
<1>9. c \notin armed
  BY <1>1, <1>3, <1>8 DEF Receives
<1>10. Addressed'
  <2>1. \A d \in Conns : d \in armed' \/ unacked'[d] > 0 \/ unnotified'[d] > 0 => at[d] # 0
    BY <1>1, <1>3 DEF Addressed, TypeOK
  <2> QED
    BY <1>1, <2>1, GoneKeeps DEF Addressed
<1>11. Kept'
  BY <1>1, <1>3, ZenonT(60) DEF Kept
<1>12. Awaited'
  <2>1. \A i \in 1 .. Len(Events') : Events'[i].kind = "accept" => Events'[i].conn # c
    BY <1>3, <1>6, GoneKeeps
  <2>2. \A i \in 1 .. Len(Events') : Events'[i].kind = "accept" =>
                 /\ table'[Events'[i].slot] = Events'[i].conn
                 /\ pool'[Events'[i].slot] = NoStream
                 /\ orbit'[Events'[i].slot] = NoConn
                 /\ Events'[i].conn \notin orphans'
    BY <1>5, <1>6, <2>1, GoneKeeps, ZenonT(60)
  <2> QED
    BY <2>2, GoneKeeps DEF Awaited
<1>13. Receives'
  <2>1. ASSUME NEW d \in armed' PROVE pool'[at'[d]].conn = d \/ d \in orphans'
    <3>1. CASE d = c
      BY <1>3, <3>1
    <3>2. CASE d \in armed
      <4>1. d \in Conns /\ Streaming(d) /\ at[d] # 0
        BY <1>1, <3>2 DEF Receives, Addressed, TypeOK
      <4> QED
        BY <1>8, <4>1
    <3> QED
      BY <3>1, <3>2
  <2>2. \A i \in 1 .. Len(Events') : Events'[i].kind = "recv" =>
           /\ Events'[i].conn # c
           /\ \/ pool'[at'[Events'[i].conn]].conn = Events'[i].conn
              \/ Events'[i].conn \in orphans'
    BY <1>5, <1>8, GoneKeeps
  <2>3. \A i \in 1 .. Len(Events') : Events'[i].kind = "recv" /\ ~Events'[i].more =>
           Events'[i].conn \notin armed'
    BY <2>2, GoneKeeps
  <2> QED
    BY <2>1, <2>2, <2>3, GoneKeeps DEF Receives, Streaming
<1>14. Orphaned'
  <2> SUFFICES ASSUME NEW d \in orphans'
               PROVE  at[d] # 0 /\ table[at[d]] = d /\ pool'[at[d]] = NoStream
    BY DEF Orphaned
  <2>1. CASE d = c
    BY <1>3, <2>1
  <2>2. CASE d # c
    <3>1. d \in orphans /\ d \in Conns /\ at[d] # 0 /\ table[at[d]] = d /\ pool[at[d]] = NoStream
      BY <1>1, <2>2 DEF Orphaned, TypeOK
    <3> QED
      BY <1>3, <1>4, <2>2, <3>1
  <2> QED
    BY <2>1, <2>2
<1> QED
  BY <1>10, <1>11, <1>12, <1>13, <1>14 DEF ListenerInv

(* The last receive completion: slot, stream and blueprint go together. *)
LEMMA ShutdownInv ==
    ASSUME ListenerInv, HandleShutdown
    PROVE  ListenerInv'
<1> DEFINE s == Head(bundle).slot
<1>1. TypeOK /\ Addressed /\ Kept /\ Awaited /\ Receives /\ Orphaned
  BY DEF ListenerInv
<1>2. /\ pc = "bundle" /\ Head(bundle).kind = "recv" /\ ~Head(bundle).more
      /\ pool[s] # NoStream
      /\ orbit' = [orbit EXCEPT ![s] = NoConn]
      /\ pool' = [pool EXCEPT ![s] = NoStream]
      /\ pages' = pages + 2
      /\ table' = [table EXCEPT ![s] = NoConn]
      /\ Pop
      /\ UNCHANGED <<peer, accepts, at, armed, unacked, unnotified, cq, hugetlb, full, orphans>>
  BY DEF HandleShutdown, First, ResetBlueprints, Release, Remove, Destroy, NukeFixed
<1>3. /\ bundle' \in Seq(Cqes) /\ pc' \in {"poll", "bundle"} /\ Bundled'
      /\ Len(Events) > 0 /\ Events[1] = Head(bundle) /\ Head(bundle) \in Cqes
  BY <1>2, HandledEvents
<1>4. PICK k \in 1 .. Len(Events) : Gone(k)
  BY <1>2, HandledEvents
<1>5. Len(Events) \in Nat /\ 1 \in 1 .. Len(Events) /\ Events[1].slot = s
  BY <1>1, <1>3, EventsQueue
<1> DEFINE h == Events[1].conn
<1> HIDE DEF s, h
<1>6. h \in Conns /\ s = at[h] /\ s # 0 /\ s \in Slots
  <2>1. h \in Conns /\ s = at[h] /\ at[h] # 0
    BY <1>1, <1>2, <1>3, <1>5 DEF Addressed, Cqes, h
  <2> QED
    BY <1>1, <2>1, SlotFacts DEF TypeOK
<1>7. pool[s].conn = h
  <2>1. Streaming(h)
    BY <1>1, <1>2, <1>3, <1>5 DEF Receives, h
  <2> QED
    BY <1>1, <1>2, <1>6, <2>1 DEF Streaming, Orphaned
<1>8. /\ h \notin armed
      /\ \A j \in 2 .. Len(Events) : ~(Events[j].kind = "recv" /\ Events[j].conn = h)
  <2>1. 1 + 1 = 2
    OBVIOUS
  <2> QED
    BY <1>1, <1>2, <1>3, <1>5, <2>1 DEF Receives, h
<1>9. /\ \A t \in Slots : t # s => pool'[t] = pool[t] /\ orbit'[t] = orbit[t] /\ table'[t] = table[t]
      /\ pool'[s] = NoStream /\ orbit'[s] = NoConn /\ table'[s] = NoConn
  BY <1>1, <1>2, <1>6 DEF TypeOK
<1>10. TypeOK'
  <2>1. NoStream \in [conn: Conns \cup {NoConn}, sends: Nat, bufs: Nat]
    BY DEF NoStream
  <2>2. /\ pool' \in [Slots -> [conn: Conns \cup {NoConn}, sends: Nat, bufs: Nat]]
        /\ orbit' \in [Slots -> Conns \cup {NoConn}]
        /\ table' \in [Slots -> Conns \cup {NoConn}]
    BY <1>1, <1>2, <2>1 DEF TypeOK
  <2>3. pages' \in Nat
    BY <1>1, <1>2 DEF TypeOK
  <2> QED
    BY <1>1, <1>2, <1>3, <2>2, <2>3 DEF TypeOK
<1>11. \A d \in Conns : at[d] # 0 => at[d] \in Slots
  BY <1>1, SlotFacts DEF TypeOK
<1>12. \A i \in 1 .. Len(Events') : Events'[i].kind # "refused" =>
          /\ Events'[i].conn \in Conns /\ Events'[i].slot \in Slots
          /\ at[Events'[i].conn] \in Slots
  BY <1>4, <1>11, GoneKeeps DEF Cqes
<1>13. Addressed'
  <2>1. \A t \in Slots : table'[t] # NoConn => at[table'[t]] = t
    BY <1>1, <1>9 DEF Addressed
  <2> QED
    BY <1>1, <1>2, <1>4, <2>1, GoneKeeps DEF Addressed
<1>14. Kept'
  BY <1>1, <1>9 DEF Kept
<1>15. Awaited'
  <2>1. \A i \in 1 .. Len(Events') : Events'[i].kind = "accept" => Events'[i].slot # s
    BY <1>2, <1>4, GoneKeeps
  <2>2. \A i \in 1 .. Len(Events') : Events'[i].kind = "accept" =>
                 /\ table'[Events'[i].slot] = Events'[i].conn
                 /\ pool'[Events'[i].slot] = NoStream
                 /\ orbit'[Events'[i].slot] = NoConn
                 /\ Events'[i].conn \notin orphans'
    BY <1>2, <1>4, <1>9, <1>12, <2>1, GoneKeeps
  <2> QED
    BY <1>4, <2>2, GoneKeeps DEF Awaited
<1>16. Receives'
  <2>1. \A d \in Conns : d # h /\ Streaming(d) /\ at[d] # 0 =>
           pool'[at'[d]].conn = d \/ d \in orphans'
    BY <1>2, <1>7, <1>9, <1>11 DEF Streaming
  <2>2. ASSUME NEW d \in armed' PROVE pool'[at'[d]].conn = d \/ d \in orphans'
    <3>1. d \in armed /\ d \in Conns /\ Streaming(d) /\ at[d] # 0 /\ d # h
      BY <1>1, <1>2, <1>8 DEF Receives, Addressed, TypeOK
    <3> QED
      BY <2>1, <3>1
  <2>3. ASSUME NEW i \in 1 .. Len(Events'), Events'[i].kind = "recv"
        PROVE  \/ pool'[at'[Events'[i].conn]].conn = Events'[i].conn
               \/ Events'[i].conn \in orphans'
    <3>1. i + k \in 2 .. Len(Events) /\ Events'[i] = Events[i + k]
      BY <1>4, GoneKeeps
    <3>2. Events'[i].conn # h
      BY <1>8, <2>3, <3>1
    <3>3. Streaming(Events'[i].conn) /\ Events'[i].conn \in Conns /\ at[Events'[i].conn] # 0
      BY <1>4, <1>12, <2>3, GoneKeeps
    <3> QED
      BY <2>1, <3>2, <3>3
  <2> QED
    BY <1>2, <1>4, <2>2, <2>3, GoneKeeps DEF Receives, Streaming
<1>17. Orphaned'
  <2> SUFFICES ASSUME NEW d \in orphans
               PROVE  at[d] # 0 /\ table'[at[d]] = d /\ pool'[at[d]] = NoStream
    BY <1>2 DEF Orphaned
  <2>1. d \in Conns /\ at[d] # 0 /\ table[at[d]] = d /\ pool[at[d]] = NoStream
    BY <1>1 DEF Orphaned, TypeOK
  <2> QED
    BY <1>2, <1>9, <1>11, <2>1
<1>18. Ordered'
  BY <1>2 DEF ListenerInv, Ordered
<1> QED
  BY <1>3, <1>10, <1>13, <1>14, <1>15, <1>16, <1>17, <1>18 DEF ListenerInv

(* The completion that is handled next. *)
LEMMA HeadEvent ==
    ASSUME ListenerInv, pc = "bundle"
    PROVE  /\ bundle # <<>> /\ bundle \in Seq(Cqes)
           /\ Head(bundle) \in Cqes /\ Events[1] = Head(bundle)
           /\ Len(Events) \in Nat /\ 1 \in 1 .. Len(Events)
           /\ Head(bundle).kind # "refused" =>
                 /\ Head(bundle).slot \in Slots /\ Head(bundle).conn \in Conns
                 /\ Head(bundle).slot = at[Head(bundle).conn]
<1>1. TypeOK /\ Addressed /\ bundle # <<>> /\ bundle \in Seq(Cqes)
  BY DEF ListenerInv, Bundled, TypeOK
<1>2. Len(bundle) \in Nat \ {0} /\ Head(bundle) = bundle[1] /\ Head(bundle) \in Cqes
  BY <1>1, EmptySeq, HeadTailProperties
<1>3. Events[1] = Head(bundle) /\ Len(Events) \in Nat /\ 1 \in 1 .. Len(Events)
  BY <1>1, <1>2, EventsQueue
<1>4. Head(bundle).kind # "refused" =>
         /\ Head(bundle).slot = at[Head(bundle).conn] /\ Head(bundle).slot # 0
  BY <1>1, <1>3 DEF Addressed
<1> QED
  BY <1>1, <1>2, <1>3, <1>4, SlotFacts DEF Cqes

(* What the callback may send is a number. *)
LEMMA LoopSendsNat ==
    ASSUME NEW c, NEW m \in Nat, NEW b \in Nat PROVE LoopSends(c, m, b) \subseteq Nat
<1>1. BufLimit \in Nat /\ MaxChunks \in Nat
  BY ListenerAssumption
<1>2. 0 .. BufLimit - b + MaxChunks \subseteq Nat
  BY <1>1
<1> QED
  BY <1>2 DEF LoopSends

(* The callback loop of a stream that is there: k sends more. *)
LEMMA RunLoopFacts ==
    ASSUME ListenerInv, pc = "bundle", NEW s, s = Head(bundle).slot,
           Head(bundle).kind \in {"send", "recv"}, pool[s] # NoStream,
           NEW m \in Nat, NEW b \in Nat, RunLoop(s, m, b)
    PROVE  LET c == pool[s].conn IN
           /\ c \in Conns /\ c # NoConn /\ at[c] = s /\ s \in Slots /\ s # 0
           /\ orbit' = orbit /\ full' \in 0 .. MaxFull
           /\ \/ Pop /\ UNCHANGED full
              \/ ReturnErr /\ full < MaxFull
           /\ \E k \in LoopSends(c, m, b) :
                 /\ k \in Nat
                 /\ pool' \in [Slots -> [conn: Conns \cup {NoConn}, sends: Nat, bufs: Nat]]
                 /\ \A t \in Slots : t # s => pool'[t] = pool[t]
                 /\ pool'[s] = [conn |-> c, sends |-> m + k, bufs |-> b + k]
                 /\ unacked' = [unacked EXCEPT ![c] = @ + k]
                 /\ unnotified' = [unnotified EXCEPT ![c] = @ + k]
<1>1. TypeOK /\ Addressed /\ Kept
  BY DEF ListenerInv
<1> DEFINE c == pool[s].conn
<1>2. PICK k \in LoopSends(c, m, b) :
         /\ pool' = [pool EXCEPT ![s].sends = m + k, ![s].bufs = b + k]
         /\ AddSends(c, k)
         /\ RunBlueprints(s, c)
         /\ (Pop /\ UNCHANGED full) \/ NoRoom
  BY DEF RunLoop
<1>3. k \in Nat
  BY <1>2, LoopSendsNat
<1>4. s \in Slots /\ s # 0
  BY HeadEvent, SlotFacts
<1>5. c \in Conns /\ table[s] = c /\ orbit[s] = c /\ c # NoConn /\ at[c] = s
  BY <1>1, <1>4, ListenerAssumption DEF Kept, Addressed
<1> HIDE DEF c
<1>6. orbit' = orbit
  BY <1>1, <1>2, <1>4, <1>5 DEF RunBlueprints, TypeOK
<1>7. /\ unacked' = [unacked EXCEPT ![c] = @ + k]
      /\ unnotified' = [unnotified EXCEPT ![c] = @ + k]
  BY <1>2 DEF AddSends
<1>8. /\ pool' \in [Slots -> [conn: Conns \cup {NoConn}, sends: Nat, bufs: Nat]]
      /\ \A t \in Slots : t # s => pool'[t] = pool[t]
      /\ pool'[s] = [conn |-> c, sends |-> m + k, bufs |-> b + k]
  <2>1. pool' = [pool EXCEPT ![s].sends = m + k, ![s].bufs = b + k]
    BY <1>2
  <2>2. pool \in [Slots -> [conn: Conns \cup {NoConn}, sends: Nat, bufs: Nat]]
    BY <1>1 DEF TypeOK
  <2>3. m + k \in Nat /\ b + k \in Nat
    BY <1>3
  <2> QED
    BY <1>4, <2>1, <2>2, <2>3 DEF c
<1>9. /\ full' \in 0 .. MaxFull
      /\ (Pop /\ UNCHANGED full) \/ (ReturnErr /\ full < MaxFull)
  <2>1. full \in 0 .. MaxFull /\ MaxFull \in Nat
    BY <1>1, ListenerAssumption DEF TypeOK
  <2>2. NoRoom => ReturnErr /\ full < MaxFull /\ full' = full + 1
    BY DEF NoRoom
  <2> QED
    BY <1>2, <2>1, <2>2
<1> QED
  BY <1>2, <1>3, <1>4, <1>5, <1>6, <1>7, <1>8, <1>9 DEF c

(* So the stream stays with its connection. *)
LEMMA RunLoopInv ==
    ASSUME ListenerInv, pc = "bundle", NEW s, s = Head(bundle).slot,
           Head(bundle).kind \in {"send", "recv"}, pool[s] # NoStream,
           NEW m \in Nat, NEW b \in Nat, RunLoop(s, m, b),
           UNCHANGED <<peer, accepts, table, at, armed, cq, hugetlb, pages, orphans>>
    PROVE  /\ ListenerInv'
           /\ \A t \in Slots : pool'[t] = NoStream <=> pool[t] = NoStream
<1>1. TypeOK /\ Addressed
  BY DEF ListenerInv
<1> DEFINE c == pool[s].conn
<1>2. /\ c \in Conns /\ c # NoConn /\ at[c] = s /\ s \in Slots /\ s # 0
      /\ orbit' = orbit /\ full' \in 0 .. MaxFull /\ (Pop \/ ReturnErr)
  BY RunLoopFacts
<1>3. PICK k \in LoopSends(c, m, b) :
         /\ k \in Nat
         /\ pool' \in [Slots -> [conn: Conns \cup {NoConn}, sends: Nat, bufs: Nat]]
         /\ \A t \in Slots : t # s => pool'[t] = pool[t]
         /\ pool'[s] = [conn |-> c, sends |-> m + k, bufs |-> b + k]
         /\ unacked' = [unacked EXCEPT ![c] = @ + k]
         /\ unnotified' = [unnotified EXCEPT ![c] = @ + k]
  BY RunLoopFacts
<1>4. /\ bundle' \in Seq(Cqes) /\ pc' \in {"poll", "bundle"} /\ Bundled'
      /\ \E j \in 1 .. Len(Events) : Gone(j)
  BY <1>2, HandledEvents
<1>5. \A t \in Slots : /\ pool'[t].conn = pool[t].conn
                       /\ pool'[t] = NoStream <=> pool[t] = NoStream
  BY <1>2, <1>3 DEF NoStream
<1> HIDE DEF c
<1>6. /\ unacked' \in [Conns -> Nat] /\ unnotified' \in [Conns -> Nat]
      /\ \A d \in Conns : d # c => unacked'[d] = unacked[d] /\ unnotified'[d] = unnotified[d]
  <2>1. unacked \in [Conns -> Nat] /\ unnotified \in [Conns -> Nat]
    BY <1>1 DEF TypeOK
  <2> QED
    BY <1>2, <1>3, <2>1
<1>7. TypeOK'
  BY <1>1, <1>2, <1>3, <1>4, <1>6 DEF TypeOK
<1>8. \A d \in Conns : unacked'[d] > 0 \/ unnotified'[d] > 0 => at[d] # 0
  BY <1>1, <1>2, <1>6 DEF Addressed
<1>9. Ordered'
  BY <1>1, <1>2, <1>3, <1>6 DEF ListenerInv, Ordered, TypeOK
<1> QED
  BY <1>2, <1>4, <1>5, <1>7, <1>8, <1>9, ContinuesInv

(* sent_zc enters the loop with numbers that are no larger than before. *)
LEMMA SentZcLoop ==
    ASSUME ListenerInv, HandleSentZc
    PROVE  LET s == Head(bundle).slot IN
           \E m \in Nat, b \in Nat : RunLoop(s, m, b)
<1> DEFINE s == Head(bundle).slot
           more == Head(bundle).more
<1>1. pc = "bundle" /\ Head(bundle).kind = "send"
  BY DEF HandleSentZc, First
<1>2. s \in Slots /\ Head(bundle) \in Cqes
  BY <1>1, HeadEvent
<1>3. pool[s].sends \in Nat /\ pool[s].bufs \in Nat
  BY <1>2 DEF ListenerInv, TypeOK
<1>4. PICK n \in Charges(s, Head(bundle)) :
         /\ n <= pool[s].sends
         /\ BufsAfter(s, more) >= 0
         /\ RunLoop(s, pool[s].sends - n, BufsAfter(s, more))
  BY DEF HandleSentZc
<1>5. Charges(s, Head(bundle)) \subseteq Nat
  BY <1>3 DEF Charges
<1> HIDE DEF s, more
<1>6. pool[s].sends - n \in Nat
  BY <1>3, <1>4, <1>5
<1>7. BufsAfter(s, more) \in Nat
  BY <1>3, <1>4 DEF BufsAfter
<1> QED
  BY <1>4, <1>6, <1>7 DEF s

(* Every step of check. *)
LEMMA CheckInv == ListenerInv /\ Check => ListenerInv'
<1> SUFFICES ASSUME ListenerInv, Check PROVE ListenerInv'
  OBVIOUS
<1>1. TypeOK /\ Addressed /\ Kept /\ Awaited /\ Receives /\ Orphaned /\ Bundled
  BY DEF ListenerInv
<1>2. CASE CheckCollect
  <2>1. Events' = Events /\ bundle' \in Seq(Cqes) /\ cq' \in Seq(Cqes) /\ bundle' # <<>>
    BY <1>2, EventsTaken
  <2>2. /\ pc' = "bundle"
        /\ UNCHANGED <<peer, accepts, table, at, armed, unacked, unnotified,
                       hugetlb, pages, pool, full, orphans, orbit>>
    BY <1>2 DEF CheckCollect
  <2>3. TypeOK'
    BY <1>1, <2>1, <2>2 DEF TypeOK
  <2>4. Addressed' /\ Kept'
    BY <1>1, <2>1, <2>2 DEF Addressed, Kept
  <2>5. Awaited' /\ Receives' /\ Orphaned' /\ Bundled' /\ Ordered'
    BY <1>1, <2>1, <2>2 DEF Awaited, Receives, Orphaned, Bundled, Streaming, ListenerInv, Ordered
  <2> QED
    BY <2>3, <2>4, <2>5 DEF ListenerInv
<1>3. CASE CheckCollectPanics \/ HandleSentZcNoSlot \/ HandleSentZcUnderflow \/ HandleRecvNoSlot
  BY <1>3, QuietStepInv DEF CheckCollectPanics, HandleSentZcNoSlot, HandleSentZcUnderflow,
     HandleRecvNoSlot, Panic, kernel
<1>4. CASE HandleSentZc
  <2> DEFINE s == Head(bundle).slot
             more == Head(bundle).more
  <2>1. /\ pc = "bundle" /\ Head(bundle).kind = "send" /\ pool[s] # NoStream
        /\ BufsAfter(s, more) >= 0
        /\ UNCHANGED <<peer, accepts, table, at, armed, cq, hugetlb, pages, orphans>>
    BY <1>4 DEF HandleSentZc, First
  <2>2. PICK m \in Nat, b \in Nat : RunLoop(s, m, b)
    BY <1>4, SentZcLoop
  <2> QED
    BY <2>1, <2>2, RunLoopInv
<1>5. CASE HandleRecv
  <2> DEFINE s == Head(bundle).slot
  <2>1. /\ pc = "bundle" /\ Head(bundle).kind = "recv" /\ pool[s] # NoStream
        /\ RunLoop(s, pool[s].sends, pool[s].bufs)
        /\ UNCHANGED <<peer, accepts, table, at, armed, cq, hugetlb, pages, orphans>>
    BY <1>5 DEF HandleRecv, First
  <2>2. s \in Slots
    BY <2>1, HeadEvent
  <2>3. pool[s].sends \in Nat /\ pool[s].bufs \in Nat
    BY <1>1, <2>2 DEF TypeOK
  <2> QED
    BY <2>1, <2>3, RunLoopInv
<1>6. CASE HandleShutdown
  BY <1>6, ShutdownInv
<1>7. CASE HandleAcceptError \/ HandleSendFailed
  <2>1. /\ pc = "bundle" /\ Pop
        /\ UNCHANGED <<peer, accepts, table, at, armed, unacked, unnotified, cq,
                       hugetlb, pages, pool, full, orphans, orbit>>
    BY <1>7 DEF HandleAcceptError, HandleSendFailed, First, kernel
  <2>2. /\ bundle' \in Seq(Cqes) /\ pc' \in {"poll", "bundle"} /\ Bundled'
        /\ \E k \in 1 .. Len(Events) : Gone(k)
    BY <2>1, HandledEvents
  <2>3. TypeOK'
    BY <1>1, <2>1, <2>2 DEF TypeOK
  <2>4. /\ \A d \in Conns : unacked'[d] > 0 \/ unnotified'[d] > 0 => at[d] # 0
        /\ Ordered'
    BY <1>1, <2>1 DEF Addressed, ListenerInv, Ordered
  <2> QED
    BY <2>1, <2>2, <2>3, <2>4, ContinuesInv
<1>8. CASE HandleAcceptedNoAccept
  <2>1. /\ pc = "bundle" /\ ReturnErr /\ full < MaxFull /\ full' = full + 1
        /\ UNCHANGED <<peer, accepts, table, at, armed, unacked, unnotified, cq,
                       hugetlb, pages, pool, orphans, orbit>>
    BY <1>8 DEF HandleAcceptedNoAccept, First, NoRoom, kernel
  <2>2. /\ bundle' \in Seq(Cqes) /\ pc' \in {"poll", "bundle"} /\ Bundled'
        /\ \E k \in 1 .. Len(Events) : Gone(k)
    BY <2>1, HandledEvents
  <2>3. TypeOK'
    BY <1>1, <2>1, <2>2, ListenerAssumption DEF TypeOK
  <2>4. /\ \A d \in Conns : unacked'[d] > 0 \/ unnotified'[d] > 0 => at[d] # 0
        /\ Ordered'
    BY <1>1, <2>1 DEF Addressed, ListenerInv, Ordered
  <2> QED
    BY <2>1, <2>2, <2>3, <2>4, ContinuesInv
<1>9. CASE HandleAccepted \/ HandleAcceptedFails \/ HandleAcceptedNoSend
  <2> DEFINE s == Head(bundle).slot
             c == table[s]
  <2>1. /\ pc = "bundle" /\ Head(bundle).kind = "accept" /\ cq' = cq /\ (Pop \/ ReturnErr)
        /\ accepts' = accepts + 1
        /\ UNCHANGED <<peer, table, at, hugetlb>>
    BY <1>9 DEF HandleAccepted, HandleAcceptedFails, HandleAcceptedNoSend, First, NoRoom, Replenish
  <2>2. /\ bundle' \in Seq(Cqes) /\ pc' \in {"poll", "bundle"} /\ Bundled'
        /\ Len(Events) > 0 /\ Events[1] = Head(bundle) /\ Head(bundle) \in Cqes
        /\ \E k \in 1 .. Len(Events) : Gone(k)
    BY <2>1, HandledEvents
  <2>3. /\ 1 \in 1 .. Len(Events) /\ c = Events[1].conn /\ c \in Conns /\ c # NoConn
        /\ s \in Slots /\ pool[s] = NoStream /\ orbit[s] = NoConn /\ c \notin orphans
    <3>1. Len(Events) \in Nat /\ 1 \in 1 .. Len(Events)
      BY <1>1, <2>2, EventsQueue
    <3> QED
      BY <1>1, <2>1, <2>2, <3>1, SlotFacts, ListenerAssumption DEF Awaited, Addressed, Cqes
  <2>4. c \notin armed
    <3>1. Events[1].slot = at[c] /\ at[c] = s
      BY <1>1, <2>1, <2>2, <2>3 DEF Addressed
    <3> QED
      BY <1>1, <2>3, <3>1, ListenerAssumption DEF Receives, Streaming, NoStream
  <2> HIDE DEF s, c
  <2>5. CASE HandleAccepted
    <3>1. PICK k \in 0 .. MaxChunks :
             /\ pool' = [pool EXCEPT ![s] = [conn |-> c, sends |-> k, bufs |-> k]]
             /\ AddSends(c, k)
             /\ RunBlueprints(s, c)
      BY <2>5 DEF HandleAccepted, s, c
    <3>2. /\ armed' = armed \cup {c} /\ pages >= 2 /\ pages' = pages - 2
          /\ UNCHANGED <<full, orphans>>
      BY <2>5 DEF HandleAccepted, Arm, HavePages, s, c
    <3>3. k \in Nat
      BY <3>1, ListenerAssumption
    <3>4. /\ unacked' \in [Conns -> Nat] /\ unnotified' \in [Conns -> Nat]
          /\ \A d \in Conns : d # c => unacked'[d] = unacked[d] /\ unnotified'[d] = unnotified[d]
          /\ Ordered'
      BY <1>1, <2>3, <3>1, <3>3, SMTT(60) DEF AddSends, TypeOK, ListenerInv, Ordered
    <3>5. /\ orbit' \in [Slots -> Conns \cup {NoConn}] /\ orbit'[s] = c
          /\ \A t \in Slots : t # s => orbit'[t] = orbit[t]
      BY <1>1, <2>3, <3>1 DEF RunBlueprints, TypeOK
    <3>6. /\ pool' \in [Slots -> [conn: Conns \cup {NoConn}, sends: Nat, bufs: Nat]]
          /\ pool'[s].conn = c /\ \A t \in Slots : t # s => pool'[t] = pool[t]
      BY <1>1, <2>3, <3>1, <3>3 DEF TypeOK
    <3>7. TypeOK'
      <4>1. pages' \in Nat /\ accepts' \in Nat /\ armed' \subseteq Conns
        BY <1>1, <2>1, <2>3, <3>2 DEF TypeOK
      <4> QED
        BY <1>1, <2>1, <2>2, <3>2, <3>4, <3>5, <3>6, <4>1 DEF TypeOK
    <3>8. PICK j \in 1 .. Len(Events) : Gone(j)
      BY <2>2
    <3>9. s = Events[1].slot /\ Events[1].kind = "accept"
      BY <2>1, <2>2 DEF s
    <3>10. c = table[s]
      BY DEF c, s
    <3>11. /\ armed' \subseteq armed \cup {c} /\ UNCHANGED <<peer, table, at>>
           /\ orphans \subseteq orphans' /\ orphans' \subseteq orphans \cup {c}
      BY <2>1, <3>2
    <3>12. /\ \A t \in Slots : t # s => pool'[t] = pool[t] /\ orbit'[t] = orbit[t]
           /\ pool'[s].conn = c /\ orbit'[s] = c /\ c \notin orphans'
      BY <2>3, <3>2, <3>5, <3>6
    <3>13. TypeOK' /\ Bundled' /\ Ordered'
      BY <2>2, <3>4, <3>7
    <3> QED
      BY <3>4, <3>8, <3>9, <3>10, <3>11, <3>12, <3>13, AcceptedInv
  <2>6. CASE HandleAcceptedFails
    <3>1. UNCHANGED <<armed, unacked, unnotified, pages, pool, orphans>>
      BY <2>6 DEF HandleAcceptedFails
    <3>2. orbit' = orbit \/ RunBlueprints(s, c)
      BY <2>6 DEF HandleAcceptedFails, s, c
    <3>3. /\ orbit' \in [Slots -> Conns \cup {NoConn}]
          /\ \A t \in Slots : t # s => orbit'[t] = orbit[t]
      BY <1>1, <2>3, <3>2 DEF RunBlueprints, TypeOK
    <3>4. full' \in 0 .. MaxFull
      BY <1>1, <2>6, ListenerAssumption DEF HandleAcceptedFails, NoRoom, TypeOK
    <3>5. TypeOK' /\ Ordered'
      BY <1>1, <2>1, <2>2, <3>1, <3>3, <3>4 DEF TypeOK, ListenerInv, Ordered
    <3> QED
      BY <2>1, <2>2, <2>3, <2>4, <3>1, <3>3, <3>5, AcceptedInv DEF s, c
  <2>7. CASE HandleAcceptedNoSend
    <3>1. PICK k \in 0 .. MaxChunks - 1 : AddSends(c, k)
      BY <2>7 DEF HandleAcceptedNoSend, s, c
    <3>2. /\ armed' = armed \cup {c} /\ orphans' = orphans \cup {c}
          /\ UNCHANGED <<pages, pool>> /\ RunBlueprints(s, c)
          /\ full < MaxFull /\ full' = full + 1
      BY <2>7 DEF HandleAcceptedNoSend, Arm, NoRoom, s, c
    <3>3. k \in Nat
      BY <3>1, ListenerAssumption
    <3>4. /\ unacked' \in [Conns -> Nat] /\ unnotified' \in [Conns -> Nat]
          /\ \A d \in Conns : d # c => unacked'[d] = unacked[d] /\ unnotified'[d] = unnotified[d]
          /\ Ordered'
      BY <1>1, <2>3, <3>1, <3>3, SMTT(60) DEF AddSends, TypeOK, ListenerInv, Ordered
    <3>5. /\ orbit' \in [Slots -> Conns \cup {NoConn}]
          /\ \A t \in Slots : t # s => orbit'[t] = orbit[t]
      BY <1>1, <2>3, <3>2 DEF RunBlueprints, TypeOK
    <3>6. TypeOK'
      <4>1. full' \in 0 .. MaxFull
        BY <1>1, <3>2, ListenerAssumption DEF TypeOK
      <4> QED
        BY <1>1, <2>1, <2>2, <2>3, <3>2, <3>4, <3>5, <4>1, SMTT(60) DEF TypeOK
    <3> QED
      BY <2>1, <2>2, <2>3, <3>2, <3>4, <3>5, <3>6, AcceptedInv, SMTT(60) DEF s, c
  <2> QED
    BY <1>9, <2>5, <2>6, <2>7
<1> QED
  BY <1>2, <1>3, <1>4, <1>5, <1>6, <1>7, <1>8, <1>9 DEF Check

(* The invariant is inductive. *)
LEMMA StepInv == ListenerInv /\ [Next]_vars => ListenerInv'
<1> SUFFICES ASSUME ListenerInv, [Next]_vars PROVE ListenerInv'
  OBVIOUS
<1>1. CASE \E c \in Conns : Connect(c) \/ PeerClose(c)
  BY <1>1, QuietStepInv DEF Connect, PeerClose, listener
<1>2. CASE \E c \in Conns : KernelRecv(c) \/ Kernel(c)
  BY <1>2, KernelInv
<1>3. CASE SetHugeTlb
  BY <1>3, QuietStepInv DEF SetHugeTlb, kernel
<1>4. CASE Check
  BY <1>4, CheckInv
<1>5. CASE UNCHANGED vars
  <2>1. Events' = Events
    BY <1>5 DEF Events, vars, kernel, listener
  <2> QED
    BY <1>5, <2>1 DEF ListenerInv, TypeOK, Addressed, Kept, Awaited, Receives, Orphaned,
       Bundled, Ordered, Streaming, vars, kernel, listener
<1> QED
  BY <1>1, <1>2, <1>3, <1>4, <1>5 DEF Next

(* The invariant holds in every reachable state. *)
LEMMA InvHolds == Spec => []ListenerInv
BY InitInv, StepInv, PTL DEF Spec

-----------------------------------------------------------------------------
(* Huge pages.                                                             *)

(* The slots that hold a stream, and with it two pages. *)
InUse == {s \in Slots : pool[s] # NoStream}

(* There are finitely many slots, and so streams, to count. *)
LEMMA InUseFinite ==
    IsFiniteSet(Slots) /\ IsFiniteSet(InUse) /\ Cardinality(InUse) \in Nat
<1>1. IsFiniteSet(Slots)
  BY FS_Interval, ListenerAssumption DEF Slots
<1>2. InUse \in SUBSET Slots
  BY DEF InUse
<1> QED
  BY <1>1, <1>2, FS_Subset, FS_CardinalityType

(* A step of check keeps the pages it has, or takes two for a new stream, or
   gives back the two of one that is gone. *)
LEMMA PagesStep ==
    ASSUME ListenerInv, Check
    PROVE  \/ pages' = pages /\ InUse' = InUse
           \/ \E s \in Slots : s \notin InUse /\ pages' = pages - 2 /\ InUse' = InUse \cup {s}
           \/ \E s \in Slots : s \in InUse /\ pages' = pages + 2 /\ InUse' = InUse \ {s}
<1>1. TypeOK
  BY DEF ListenerInv
<1>2. CASE HandleSentZc
  <2> DEFINE s == Head(bundle).slot
             more == Head(bundle).more
  <2>1. /\ pc = "bundle" /\ Head(bundle).kind = "send" /\ pool[s] # NoStream
        /\ BufsAfter(s, more) >= 0
        /\ UNCHANGED <<peer, accepts, table, at, armed, cq, hugetlb, pages, orphans>>
    BY <1>2 DEF HandleSentZc, First
  <2>2. PICK m \in Nat, b \in Nat : RunLoop(s, m, b)
    BY <1>2, SentZcLoop
  <2>4. \A t \in Slots : pool'[t] = NoStream <=> pool[t] = NoStream
    BY <2>1, <2>2, RunLoopInv
  <2> QED
    BY <2>1, <2>4 DEF InUse
<1>3. CASE HandleRecv
  <2> DEFINE s == Head(bundle).slot
  <2>1. /\ pc = "bundle" /\ Head(bundle).kind = "recv" /\ pool[s] # NoStream
        /\ RunLoop(s, pool[s].sends, pool[s].bufs)
        /\ UNCHANGED <<peer, accepts, table, at, armed, cq, hugetlb, pages, orphans>>
    BY <1>3 DEF HandleRecv, First
  <2>2. pool[s].sends \in Nat /\ pool[s].bufs \in Nat
    BY <1>1, <2>1, HeadEvent DEF TypeOK
  <2>3. \A t \in Slots : pool'[t] = NoStream <=> pool[t] = NoStream
    BY <2>1, <2>2, RunLoopInv
  <2> QED
    BY <2>1, <2>3 DEF InUse
<1>4. CASE HandleShutdown
  <2> DEFINE s == Head(bundle).slot
  <2>1. /\ pc = "bundle" /\ Head(bundle).kind = "recv" /\ pool[s] # NoStream
        /\ pages' = pages + 2 /\ pool' = [pool EXCEPT ![s] = NoStream]
    BY <1>4 DEF HandleShutdown, First, Release, Remove, Destroy
  <2>2. s \in Slots
    BY <2>1, HeadEvent
  <2> HIDE DEF s
  <2>3. s \in InUse /\ InUse' = InUse \ {s}
    BY <1>1, <2>1, <2>2 DEF InUse, TypeOK
  <2> QED
    BY <2>1, <2>2, <2>3
<1>5. CASE HandleAccepted
  <2> DEFINE s == Head(bundle).slot
             c == table[s]
  <2>1. /\ pc = "bundle" /\ Head(bundle).kind = "accept" /\ pages' = pages - 2
        /\ \E k \in 0 .. MaxChunks :
              pool' = [pool EXCEPT ![s] = [conn |-> c, sends |-> k, bufs |-> k]]
    BY <1>5 DEF HandleAccepted, First
  <2>2. s \in Slots /\ pool[s] = NoStream /\ c # NoConn
    BY <2>1, HeadEvent, ListenerAssumption DEF ListenerInv, Awaited
  <2> HIDE DEF s, c
  <2>3. s \notin InUse /\ InUse' = InUse \cup {s}
    BY <1>1, <2>1, <2>2 DEF InUse, TypeOK, NoStream
  <2> QED
    BY <2>1, <2>2, <2>3
<1>6. CASE UNCHANGED <<pages, pool>>
  BY <1>6 DEF InUse
<1> QED
  BY <1>2, <1>3, <1>4, <1>5, <1>6 DEF Check, CheckCollect, CheckCollectPanics,
     HandleSentZcNoSlot, HandleSentZcUnderflow, HandleRecvNoSlot, HandleAcceptedNoAccept,
     HandleAcceptedFails, HandleAcceptedNoSend, HandleAcceptError, HandleSendFailed, Panic

(* Nothing but check touches pages or streams. *)
LEMMA PagesOnlyInCheck ==
    ASSUME [Next]_vars, ~Check
    PROVE  UNCHANGED <<pages, pool>>
BY DEF Next, vars, kernel, listener, Connect, PeerClose, KernelRecv, Kernel, KernelAccept,
   KernelAcceptFull, KernelEof, KernelReset, KernelAck, KernelSendFails, KernelNotif, SetHugeTlb

(* HugePageBytes are neither leaked nor freed twice: with two for every stream in
   the pool and the free ones, all pages are accounted for, also when an accept
   fails half way or its stream is dropped behind recv_multi. *)
THEOREM PagesAccounted == Spec => []PagesConserved
<1>1. Init => PagesConserved
  <2> SUFFICES ASSUME Init PROVE PagesConserved
    OBVIOUS
  <2>1. {s \in Slots : pool[s] # NoStream} = {} /\ pages = HugePages
    BY DEF Init
  <2> QED
    BY <2>1, FS_EmptySet, ListenerAssumption DEF PagesConserved
<1>2. ListenerInv /\ PagesConserved /\ [Next]_vars => PagesConserved'
  <2> SUFFICES ASSUME ListenerInv, PagesConserved, [Next]_vars PROVE PagesConserved'
    OBVIOUS
  <2>1. pages + 2 * Cardinality(InUse) = HugePages /\ pages \in Nat /\ HugePages \in Nat
    BY ListenerAssumption DEF PagesConserved, InUse, ListenerInv, TypeOK
  <2>2. IsFiniteSet(InUse) /\ Cardinality(InUse) \in Nat
    BY InUseFinite
  <2>3. PagesConserved' <=> pages' + 2 * Cardinality(InUse') = HugePages
    BY DEF PagesConserved, InUse
  <2>4. CASE Check
    <3>1. CASE pages' = pages /\ InUse' = InUse
      BY <2>1, <2>3, <3>1
    <3>2. CASE \E s \in Slots : s \notin InUse /\ pages' = pages - 2 /\ InUse' = InUse \cup {s}
      <4>1. Cardinality(InUse') = Cardinality(InUse) + 1 /\ pages' = pages - 2
        BY <2>2, <3>2, FS_AddElement
      <4> QED
        BY <2>1, <2>2, <2>3, <4>1
    <3>3. CASE \E s \in Slots : s \in InUse /\ pages' = pages + 2 /\ InUse' = InUse \ {s}
      <4>1. Cardinality(InUse') = Cardinality(InUse) - 1 /\ pages' = pages + 2
        BY <2>2, <3>3, FS_RemoveElement
      <4> QED
        BY <2>1, <2>2, <2>3, <4>1
    <3> QED
      BY <2>4, <3>1, <3>2, <3>3, PagesStep
  <2>5. CASE ~Check
    <3>1. UNCHANGED <<pages, pool>>
      BY <2>5, PagesOnlyInCheck
    <3>2. InUse' = InUse /\ pages' = pages
      BY <3>1 DEF InUse
    <3> QED
      BY <2>1, <2>3, <3>2
  <2> QED
    BY <2>4, <2>5
<1> QED
  BY <1>1, <1>2, InvHolds, PTL DEF Spec

-----------------------------------------------------------------------------
(* Accepts.                                                                *)

AcceptEntries == {e \in Cqes : e.kind \in {"accept", "refused"}}

(* The accepts of a queue as a count of its entries. *)
LEMMA AcceptCqesCount ==
    ASSUME NEW q \in Seq(Cqes)
    PROVE  AcceptCqes(q) = Count(q, AcceptEntries) /\ AcceptCqes(q) \in Nat
<1>1. \A i \in DOMAIN q : q[i] \in Cqes
  OBVIOUS
<1>2. {i \in DOMAIN q : q[i].kind \in {"accept", "refused"}}
         = {i \in DOMAIN q : q[i] \in AcceptEntries}
  BY <1>1 DEF AcceptEntries
<1>3. AcceptCqes(q) = Count(q, AcceptEntries)
  BY <1>2 DEF AcceptCqes, Count
<1> QED
  BY <1>3, CountType

(* What the steps do to the accepts that are to be handled. *)
LEMMA AcceptsPosted ==
    ASSUME TypeOK, NEW e \in Cqes, cq' = Append(cq, e)
    PROVE  /\ e.kind \notin {"accept", "refused"} => AcceptCqes(cq') = AcceptCqes(cq)
           /\ e.kind \in {"accept", "refused"} => AcceptCqes(cq') = AcceptCqes(cq) + 1
<1>1. cq \in Seq(Cqes) /\ Append(cq, e) \in Seq(Cqes)
  BY AppendProperties DEF TypeOK
<1>2. Count(Append(cq, e), AcceptEntries)
         = Count(cq, AcceptEntries) + IF e \in AcceptEntries THEN 1 ELSE 0
  BY <1>1, CountAppend
<1>3. /\ AcceptCqes(cq) = Count(cq, AcceptEntries) /\ AcceptCqes(cq) \in Nat
      /\ AcceptCqes(cq') = Count(Append(cq, e), AcceptEntries)
  BY <1>1, AcceptCqesCount
<1>4. e \in AcceptEntries <=> e.kind \in {"accept", "refused"}
  BY DEF AcceptEntries
<1> QED
  BY <1>2, <1>3, <1>4

(* A handler takes its completion, and with an error the rest of the bundle. *)
LEMMA AcceptsHandled ==
    ASSUME ListenerInv, pc = "bundle", Pop \/ ReturnErr
    PROVE  /\ AcceptCqes(bundle) \in Nat /\ AcceptCqes(bundle') \in Nat
           /\ Head(bundle).kind \notin {"accept", "refused"} =>
                 AcceptCqes(bundle') <= AcceptCqes(bundle)
           /\ Head(bundle).kind \in {"accept", "refused"} =>
                 AcceptCqes(bundle') + 1 <= AcceptCqes(bundle)
           /\ Pop /\ Head(bundle).kind \in {"accept", "refused"} =>
                 AcceptCqes(bundle') + 1 = AcceptCqes(bundle)
           /\ Pop /\ Head(bundle).kind \notin {"accept", "refused"} =>
                 AcceptCqes(bundle') = AcceptCqes(bundle)
<1>1. bundle # <<>> /\ bundle \in Seq(Cqes) /\ Head(bundle) \in Cqes /\ Tail(bundle) \in Seq(Cqes)
  BY HeadEvent, HeadTailProperties
<1>2. Head(bundle) \in AcceptEntries <=> Head(bundle).kind \in {"accept", "refused"}
  BY <1>1 DEF AcceptEntries
<1>3. Count(bundle, AcceptEntries)
         = Count(Tail(bundle), AcceptEntries) + IF Head(bundle) \in AcceptEntries THEN 1 ELSE 0
  BY <1>1, CountTail
<1>4. /\ AcceptCqes(bundle) = Count(bundle, AcceptEntries) /\ AcceptCqes(bundle) \in Nat
      /\ AcceptCqes(Tail(bundle)) = Count(Tail(bundle), AcceptEntries)
      /\ AcceptCqes(Tail(bundle)) \in Nat
  BY <1>1, AcceptCqesCount
<1>5. CASE Pop
  <2>1. bundle' = Tail(bundle)
    BY <1>5 DEF Pop
  <2> QED
    BY <1>2, <1>3, <1>4, <2>1
<1>6. CASE ReturnErr /\ ~Pop
  <2>1. AcceptCqes(<<>>) = 0
    <3>1. {i \in DOMAIN <<>> : <<>>[i].kind \in {"accept", "refused"}} = {}
      OBVIOUS
    <3> QED
      BY <3>1, FS_EmptySet DEF AcceptCqes
  <2>2. AcceptCqes(bundle') = 0
    BY <1>6, <2>1 DEF ReturnErr
  <2> QED
    BY <1>2, <1>3, <1>4, <1>6, <2>2
<1> QED
  BY <1>5, <1>6

(* check moves completions from one queue to the other and loses none. *)
LEMMA AcceptsTaken ==
    ASSUME ListenerInv, CheckCollect
    PROVE  AcceptCqes(cq') + AcceptCqes(bundle') = AcceptCqes(cq) + AcceptCqes(bundle)
<1>1. /\ bundle \in Seq(Cqes) /\ cq \in Seq(Cqes) /\ Events' = Events
      /\ bundle' \in Seq(Cqes) /\ cq' \in Seq(Cqes)
  BY EventsTaken DEF ListenerInv, TypeOK
<1>2. Count(Events, AcceptEntries) = Count(bundle, AcceptEntries) + Count(cq, AcceptEntries)
  BY <1>1, CountConcat DEF Events
<1>3. Events' = bundle' \o cq'
  BY DEF Events
<1>4. Count(Events', AcceptEntries) = Count(bundle', AcceptEntries) + Count(cq', AcceptEntries)
  BY <1>1, <1>3, CountConcat
<1>5. /\ AcceptCqes(bundle) = Count(bundle, AcceptEntries) /\ AcceptCqes(bundle) \in Nat
      /\ AcceptCqes(cq) = Count(cq, AcceptEntries) /\ AcceptCqes(cq) \in Nat
      /\ AcceptCqes(bundle') = Count(bundle', AcceptEntries) /\ AcceptCqes(bundle') \in Nat
      /\ AcceptCqes(cq') = Count(cq', AcceptEntries) /\ AcceptCqes(cq') \in Nat
  BY <1>1, AcceptCqesCount
<1> QED
  BY <1>1, <1>2, <1>4, <1>5

(* In flight or completed and not handled. *)
Outstanding == accepts + AcceptCqes(cq) + AcceptCqes(bundle)

(* All of these are numbers. *)
LEMMA OutstandingNat == TypeOK => Outstanding \in Nat /\ accepts \in Nat
                                  /\ AcceptCqes(cq) \in Nat /\ AcceptCqes(bundle) \in Nat
BY AcceptCqesCount DEF TypeOK, Outstanding

(* No step adds to them: a handler issues at most one accept for the one it is
   done with. *)
LEMMA OutstandingStep ==
    ASSUME ListenerInv, [Next]_vars
    PROVE  Outstanding' <= Outstanding
<1>1. TypeOK /\ TypeOK'
  BY StepInv DEF ListenerInv
<1>2. /\ Outstanding \in Nat /\ accepts \in Nat /\ AcceptCqes(cq) \in Nat
      /\ AcceptCqes(bundle) \in Nat
  BY <1>1, OutstandingNat
<1>3. ASSUME NEW c \in Conns, KernelRecv(c) \/ Kernel(c) PROVE Outstanding' <= Outstanding
  <2>1. \A kind \in {"refused", "recv", "reset", "send", "failed"}, more \in BOOLEAN :
           Cqe(kind, c, more) \in Cqes /\ Cqe(kind, c, more).kind = kind
    BY <1>1 DEF Cqe, Cqes, TypeOK
  <2>2. CASE \E s \in Slots : KernelAccept(c, s)
    <3>1. PICK s \in Slots : KernelAccept(c, s)
      BY <2>2
    <3> DEFINE e == [kind |-> "accept", slot |-> s, conn |-> c, more |-> FALSE]
    <3>2. e \in Cqes /\ e.kind = "accept"
      BY SlotFacts DEF Cqes
    <3>3. cq' = Append(cq, e) /\ accepts' = accepts - 1 /\ bundle' = bundle
      BY <3>1 DEF KernelAccept, listener
    <3>4. AcceptCqes(cq') = AcceptCqes(cq) + 1
      BY <1>1, <3>2, <3>3, AcceptsPosted
    <3> QED
      BY <1>2, <3>3, <3>4 DEF Outstanding
  <2>3. CASE KernelAcceptFull(c)
    <3>1. cq' = Append(cq, Cqe("refused", c, FALSE)) /\ accepts' = accepts - 1 /\ bundle' = bundle
      BY <2>3 DEF KernelAcceptFull, listener
    <3>2. AcceptCqes(cq') = AcceptCqes(cq) + 1
      BY <1>1, <2>1, <3>1, AcceptsPosted
    <3>3. accepts' = accepts - 1 /\ bundle' = bundle
      BY <3>1
    <3> QED
      BY ONLY <1>2, <3>2, <3>3 DEF Outstanding
  <2>4. CASE \E kind \in {"recv", "reset", "send", "failed"}, more \in BOOLEAN :
                cq' = Append(cq, Cqe(kind, c, more)) /\ UNCHANGED <<accepts, bundle>>
    <3>1. AcceptCqes(cq') = AcceptCqes(cq)
      BY <1>1, <2>1, <2>4, AcceptsPosted
    <3> QED
      BY <1>2, <2>4, <3>1 DEF Outstanding
  <2> QED
    BY <1>3, <2>2, <2>3, <2>4 DEF Kernel, KernelRecv, KernelEof, KernelReset, KernelAck,
       KernelSendFails, KernelNotif, listener
<1>4. CASE CheckCollect
  <2>1. AcceptCqes(cq') \in Nat /\ AcceptCqes(bundle') \in Nat
    BY <1>1, AcceptCqesCount DEF TypeOK
  <2>2. AcceptCqes(cq') + AcceptCqes(bundle') = AcceptCqes(cq) + AcceptCqes(bundle)
    BY <1>4, AcceptsTaken
  <2>3. accepts' = accepts
    BY <1>4 DEF CheckCollect
  <2> QED
    BY ONLY <1>2, <2>1, <2>2, <2>3 DEF Outstanding
<1>5. CASE HandleAccepted \/ HandleAcceptedFails \/ HandleAcceptedNoSend
  <2>1. /\ pc = "bundle" /\ Head(bundle).kind = "accept" /\ (Pop \/ ReturnErr)
        /\ accepts' = accepts + 1 /\ cq' = cq
    BY <1>5 DEF HandleAccepted, HandleAcceptedFails, HandleAcceptedNoSend, First, NoRoom, Replenish
  <2> QED
    BY <1>2, <2>1, AcceptsHandled DEF Outstanding
<1>6. CASE HandleSentZc \/ HandleRecv \/ HandleShutdown \/ HandleAcceptedNoAccept
           \/ HandleAcceptError \/ HandleSendFailed
  <2>1. pc = "bundle" /\ (Pop \/ ReturnErr) /\ accepts' = accepts /\ cq' = cq
    BY <1>6 DEF HandleSentZc, HandleRecv, HandleShutdown, HandleAcceptedNoAccept,
       HandleAcceptError, HandleSendFailed, First, NoRoom, RunLoop, kernel
  <2> QED
    BY <1>2, <2>1, AcceptsHandled DEF Outstanding
<1>7. CASE UNCHANGED <<accepts, cq, bundle>>
  BY <1>2, <1>7 DEF Outstanding
<1> QED
  BY <1>3, <1>4, <1>5, <1>6, <1>7 DEF Next, Check, Connect, PeerClose, SetHugeTlb,
     CheckCollectPanics, HandleSentZcNoSlot, HandleSentZcUnderflow, HandleRecvNoSlot, Panic,
     vars, kernel, listener

(* The Replenish strategy never has more accepts outstanding than it was
   configured for, whatever fails on the way. *)
THEOREM AcceptsNeverExceed == Spec => []AcceptsBounded
<1>1. Init => AcceptsBounded
  <2> SUFFICES ASSUME Init PROVE AcceptsBounded
    OBVIOUS
  <2>1. {i \in DOMAIN <<>> : <<>>[i].kind \in {"accept", "refused"}} = {}
    OBVIOUS
  <2>2. AcceptCqes(<<>>) = 0
    BY <2>1, FS_EmptySet DEF AcceptCqes
  <2> QED
    BY <2>2, ListenerAssumption DEF Init, AcceptsBounded
<1>2. ListenerInv /\ AcceptsBounded /\ [Next]_vars => AcceptsBounded'
  <2> SUFFICES ASSUME ListenerInv, AcceptsBounded, [Next]_vars PROVE AcceptsBounded'
    OBVIOUS
  <2>1. TypeOK /\ TypeOK'
    BY StepInv DEF ListenerInv
  <2>2. Outstanding \in Nat /\ Outstanding' \in Nat
    <3>1. AcceptCqes(cq') \in Nat /\ AcceptCqes(bundle') \in Nat /\ accepts' \in Nat
      BY <2>1, AcceptCqesCount DEF TypeOK
    <3> QED
      BY <2>1, <3>1, OutstandingNat DEF Outstanding
  <2>3. Outstanding' <= Outstanding /\ Outstanding <= ReplCC
    BY OutstandingStep DEF AcceptsBounded, Outstanding
  <2> QED
    BY <2>2, <2>3, ListenerAssumption DEF AcceptsBounded, Outstanding
<1> QED
  BY <1>1, <1>2, InvHolds, PTL DEF Spec

-----------------------------------------------------------------------------
(* What the invariant says by itself.                                      *)

(* Every variable of the listener keeps its type: no counter goes below zero, no
   completion names a slot outside the table. *)
THEOREM ListenerTypeCorrect == Spec => []TypeOK
BY InvHolds, PTL DEF ListenerInv

(* A slot is neither taken by an accept nor given away while a stream is in it. *)
THEOREM SlotsOwned == Spec => []SlotOwnership
<1>1. ListenerInv => SlotOwnership
  BY DEF ListenerInv, Kept, SlotOwnership
<1> QED
  BY <1>1, InvHolds, PTL

(* The blueprint a stream runs has served no other connection. *)
THEOREM BlueprintsOwned == Spec => []BlueprintOwn
<1>1. ListenerInv => BlueprintOwn
  BY DEF ListenerInv, Kept, BlueprintOwn
<1> QED
  BY <1>1, InvHolds, PTL

(* A receive completion finds the stream it is for, unless its accept failed
   behind recv_multi: the case marked "BUG" of RecvMulti is reached in no other
   way. *)
THEOREM RecvsFindStream == Spec => []RecvNeverStale
<1>1. ListenerInv => RecvNeverStale
  <2> SUFFICES ASSUME ListenerInv, pc = "bundle", Head(bundle).kind = "recv",
                      Head(bundle).conn \notin orphans
               PROVE  pool[Head(bundle).slot] # NoStream
    BY DEF RecvNeverStale
  <2>1. /\ Head(bundle) = Events[1] /\ 1 \in 1 .. Len(Events)
        /\ Head(bundle).slot = at[Head(bundle).conn] /\ Head(bundle).conn \in Conns
    BY HeadEvent
  <2>2. pool[Head(bundle).slot].conn = Head(bundle).conn
    BY <2>1 DEF ListenerInv, Receives, Streaming
  <2> QED
    BY <2>1, <2>2, ListenerAssumption DEF NoStream
<1> QED
  BY <1>1, InvHolds, PTL

-----------------------------------------------------------------------------
(* The end of a stream.                                                    *)

(* The last receive completion says that the peer has closed. *)
Finals ==
    \A i \in 1 .. Len(Events) :
       Events[i].kind = "recv" /\ ~Events[i].more => peer[Events[i].conn] = "closed"

(* A send of c is with the kernel or in a queue. *)
Underway(c) ==
    \/ unnotified[c] > 0
    \/ \E i \in 1 .. Len(Events) : Events[i].kind = "send" /\ Events[i].conn = c

(* The peer has closed and the last receive of c is handled; no other can come. *)
Over(c) ==
    /\ peer[c] = "closed" /\ c \notin armed
    /\ \A i \in 1 .. Len(Events) :
          Events[i].kind \in {"accept", "recv"} => Events[i].conn # c

DropInv ==
    /\ Finals
    /\ \A c \in Conns : Underway(c) => Streaming(c) \/ Over(c)

(* What a step has to show of a connection. *)
LEMMA DropKept ==
    ASSUME ListenerInv, DropInv, Finals',
           \A c \in Conns : Underway(c)' => Underway(c) \/ Streaming(c)',
           \A c \in Conns : at[c] # 0 /\ Streaming(c) => Streaming(c)' \/ Over(c)',
           \A c \in Conns : Over(c) => Over(c)'
    PROVE  DropInv'
<1>1. \A c \in Conns : Underway(c) => at[c] # 0
  BY DEF ListenerInv, Addressed, Underway
<1> QED
  BY <1>1 DEF DropInv

(* The kernel posts a completion. *)
LEMMA DropPosted ==
    ASSUME ListenerInv, DropInv, NEW e \in Cqes, cq' = Append(cq, e), UNCHANGED listener,
           \A d \in Conns : unnotified'[d] <= unnotified[d] /\ unnotified'[d] \in Nat,
           \A d \in Conns : at[d] # 0 => at'[d] = at[d],
           \A d \in Conns : peer[d] = "closed" => peer'[d] = "closed",
           armed' \subseteq armed,
           e.kind = "send" => unnotified[e.conn] > 0,
           e.kind = "recv" => e.conn \in armed /\ (~e.more => peer[e.conn] = "closed"),
           e.kind = "accept" => peer[e.conn] # "closed"
    PROVE  DropInv'
<1>1. /\ Len(Events) \in Nat /\ Len(Events') = Len(Events) + 1
      /\ \A i \in 1 .. Len(Events) : Events'[i] = Events[i] /\ Events[i] \in Cqes
      /\ Events'[Len(Events) + 1] = e
  BY EventsQueue, EventsPosted DEF ListenerInv, listener
<1>2. \A i \in 1 .. Len(Events) + 1 : i = Len(Events) + 1 \/ i \in 1 .. Len(Events)
  BY <1>1
<1>3. e.conn \in Conns /\ \A i \in 1 .. Len(Events) : Events[i].conn \in Conns
  BY <1>1 DEF Cqes
<1>4. Finals'
  BY <1>1, <1>2, <1>3 DEF DropInv, Finals
<1>5. \A c \in Conns : Underway(c)' => Underway(c)
  <2>1. \A c \in Conns : unnotified'[c] > 0 => unnotified[c] > 0
    BY DEF ListenerInv, TypeOK
  <2> QED
    BY <1>1, <1>2, <2>1 DEF Underway
<1>6. \A c \in Conns : at[c] # 0 /\ Streaming(c) => Streaming(c)'
  BY DEF Streaming, listener
<1>7. \A c \in Conns : Over(c) => Over(c)'
  BY <1>1, <1>2 DEF Over
<1> QED
  BY <1>4, <1>5, <1>6, <1>7, DropKept

(* The kernel's actions are such steps. *)
LEMMA DropKernel ==
    ASSUME ListenerInv, DropInv, NEW c \in Conns, KernelRecv(c) \/ Kernel(c)
    PROVE  DropInv'
<1>1. TypeOK /\ Ordered
  BY DEF ListenerInv
<1>2. /\ unacked[c] \in Nat /\ unnotified[c] \in Nat /\ unacked[c] <= unnotified[c]
      /\ peer[c] = "queued" => at[c] = 0
  BY <1>1 DEF TypeOK, Ordered, ListenerInv, Addressed
<1>3. \A kind \in {"refused", "recv", "reset", "send", "failed"}, more \in BOOLEAN :
         /\ Cqe(kind, c, more) \in Cqes
         /\ Cqe(kind, c, more).kind = kind /\ Cqe(kind, c, more).conn = c
         /\ Cqe(kind, c, more).more = more
  BY <1>1 DEF Cqe, Cqes, TypeOK
<1>4. ASSUME \/ UNCHANGED unnotified
             \/ unnotified' = [unnotified EXCEPT ![c] = @ - 1] /\ unnotified[c] > 0
      PROVE  \A d \in Conns : unnotified'[d] <= unnotified[d] /\ unnotified'[d] \in Nat
  <2>1. unnotified \in [Conns -> Nat]
    BY <1>1 DEF TypeOK
  <2>2. CASE UNCHANGED unnotified
    BY <2>1, <2>2
  <2>3. CASE unnotified' = [unnotified EXCEPT ![c] = @ - 1] /\ unnotified[c] > 0
    BY <2>1, <2>3
  <2> QED
    BY <1>4, <2>2, <2>3
<1>5. CASE \E s \in Slots : KernelAccept(c, s)
  <2>1. PICK s \in Slots : KernelAccept(c, s)
    BY <1>5
  <2> DEFINE e == [kind |-> "accept", slot |-> s, conn |-> c, more |-> FALSE]
  <2>2. e \in Cqes /\ e.kind = "accept" /\ e.conn = c
    BY SlotFacts DEF Cqes
  <2>3. /\ cq' = Append(cq, e) /\ peer[c] = "queued"
        /\ UNCHANGED <<listener, armed, unnotified>>
        /\ \A d \in Conns : at[d] # 0 => at'[d] = at[d]
        /\ \A d \in Conns : peer[d] = "closed" => peer'[d] = "closed"
    BY <1>1, <1>2, <2>1 DEF KernelAccept, TypeOK
  <2> HIDE DEF e
  <2> QED
    BY <1>4, <2>2, <2>3, DropPosted
<1>6. CASE KernelAcceptFull(c)
  <2>1. /\ cq' = Append(cq, Cqe("refused", c, FALSE)) /\ peer[c] = "queued"
        /\ UNCHANGED <<listener, armed, unnotified, at>>
        /\ \A d \in Conns : peer[d] = "closed" => peer'[d] = "closed"
    BY <1>1, <1>6 DEF KernelAcceptFull, TypeOK
  <2>2. Cqe("refused", c, FALSE) \in Cqes /\ Cqe("refused", c, FALSE).kind = "refused"
    BY <1>3
  <2> QED
    BY <1>4, <2>1, <2>2, DropPosted
<1>7. CASE KernelRecv(c) \/ KernelEof(c) \/ KernelReset(c)
  <2>1. PICK kind \in {"recv", "reset"}, more \in BOOLEAN :
           /\ cq' = Append(cq, Cqe(kind, c, more))
           /\ c \in armed /\ armed' \subseteq armed
           /\ kind = "recv" /\ ~more => peer[c] = "closed"
    BY <1>7 DEF KernelRecv, KernelEof, KernelReset
  <2>2. UNCHANGED <<listener, unnotified, at, peer>>
    BY <1>7 DEF KernelRecv, KernelEof, KernelReset
  <2>3. PICK e \in Cqes : /\ e = Cqe(kind, c, more)
                          /\ e.kind = kind /\ e.conn = c /\ e.more = more
    BY <1>3
  <2> QED
    BY <1>4, <2>1, <2>2, <2>3, DropPosted
<1>8. CASE KernelAck(c) \/ KernelSendFails(c) \/ KernelNotif(c)
  <2>1. PICK kind \in {"send", "failed"}, more \in BOOLEAN : cq' = Append(cq, Cqe(kind, c, more))
    BY <1>8 DEF KernelAck, KernelSendFails, KernelNotif
  <2>2. UNCHANGED <<listener, armed, at, peer>> /\ unnotified[c] > 0
    <3>1. UNCHANGED <<listener, armed, at, peer>>
      BY <1>8 DEF KernelAck, KernelSendFails, KernelNotif
    <3>2. unacked[c] > 0 \/ unnotified[c] > unacked[c]
      BY <1>8 DEF KernelAck, KernelSendFails, KernelNotif
    <3> QED
      BY <1>2, <3>1, <3>2
  <2>3. UNCHANGED unnotified \/ unnotified' = [unnotified EXCEPT ![c] = @ - 1]
    BY <1>8 DEF KernelAck, KernelSendFails, KernelNotif
  <2>4. PICK e \in Cqes : /\ e = Cqe(kind, c, more)
                          /\ e.kind = kind /\ e.conn = c /\ e.more = more
    BY <1>3
  <2>5. \A d \in Conns : unnotified'[d] <= unnotified[d] /\ unnotified'[d] \in Nat
    BY <1>4, <2>2, <2>3
  <2> QED
    BY <2>1, <2>2, <2>4, <2>5, DropPosted
<1> QED
  BY <1>5, <1>6, <1>7, <1>8 DEF Kernel

(* A handler that is done with its completion, and with an error with the rest of
   the bundle, in which the connection c may have got sends, a receive, its stream
   or the loss of it. *)
LEMMA DropHandled ==
    ASSUME ListenerInv, DropInv, pc = "bundle", UNCHANGED <<peer, at, cq>>, Pop \/ ReturnErr,
           NEW c \in Conns,
           \A d \in Conns : d # c => unnotified'[d] = unnotified[d] /\ (d \in armed' => d \in armed),
           orphans \subseteq orphans',
           \A d \in Conns : at[d] # 0 /\ d # c /\ pool[at[d]].conn = d => pool'[at[d]].conn = d,
           \/ Streaming(c)' /\ (Over(c) => c \notin armed')
           \/ /\ unnotified'[c] = unnotified[c]
              /\ c \notin armed' /\ Head(bundle).kind = "recv" /\ ~Head(bundle).more
              /\ Head(bundle).conn = c
    PROVE  DropInv'
<1>1. PICK k \in 1 .. Len(Events) : Gone(k)
  BY HandledEvents
<1>2. \A i \in 1 .. Len(Events') : /\ i + k \in 2 .. Len(Events) /\ i + k \in 1 .. Len(Events)
                                   /\ Events'[i] = Events[i + k]
  BY <1>1, GoneKeeps
<1>3. Finals'
  BY <1>2 DEF DropInv, Finals
<1>4. \A d \in Conns : d # c => (Underway(d)' => Underway(d)) /\ (Over(d) => Over(d)')
  BY <1>2, SMTT(60) DEF Underway, Over
<1>5. \A d \in Conns : d # c /\ at[d] # 0 /\ Streaming(d) => Streaming(d)'
  BY DEF Streaming
<1>6. CASE Streaming(c)' /\ (Over(c) => c \notin armed')
  <2>1. Over(c) => Over(c)'
    BY <1>2, <1>6 DEF Over
  <2> QED
    BY <1>3, <1>4, <1>5, <1>6, <2>1, DropKept
<1>7. CASE /\ unnotified'[c] = unnotified[c]
           /\ c \notin armed' /\ Head(bundle).kind = "recv" /\ ~Head(bundle).more
           /\ Head(bundle).conn = c
  <2>1. Events[1] = Head(bundle) /\ Len(Events) \in Nat /\ 1 \in 1 .. Len(Events) /\ 1 + 1 = 2
    BY HeadEvent
  <2>2. peer[c] = "closed"
    BY <1>7, <2>1 DEF DropInv, Finals
  <2>3. \A i \in 2 .. Len(Events) : ~(Events[i].kind = "recv" /\ Events[i].conn = c)
    BY <1>7, <2>1 DEF ListenerInv, Receives
  <2>4. \A i \in 1 .. Len(Events) : ~(Events[i].kind = "accept" /\ Events[i].conn = c)
    <3>1. Streaming(c) /\ at[c] # 0
      BY <1>7, <2>1 DEF ListenerInv, Receives, Addressed
    <3>2. c \in orphans => \A i \in 1 .. Len(Events) : Events[i].kind = "accept" => Events[i].conn # c
      BY DEF ListenerInv, Awaited
    <3>3. pool[at[c]].conn = c =>
             \A i \in 1 .. Len(Events) : Events[i].kind = "accept" => Events[i].conn # c
      BY ListenerAssumption DEF ListenerInv, Awaited, Addressed, NoStream
    <3> QED
      BY <3>1, <3>2, <3>3 DEF Streaming
  <2>5. Over(c)'
    BY <1>2, <1>7, <2>2, <2>3, <2>4 DEF Over
  <2>6. Underway(c)' => Underway(c)
    BY <1>2, <1>7 DEF Underway
  <2> QED
    BY <1>3, <1>4, <1>5, <2>5, <2>6, DropKept
<1> QED
  BY <1>6, <1>7

(* Steps that leave streams, requests and events as they are. *)
LEMMA DropQuiet ==
    ASSUME ListenerInv, DropInv, Events' = Events,
           UNCHANGED <<at, armed, unnotified, pool, orphans>>,
           \A d \in Conns : peer[d] = "closed" => peer'[d] = "closed"
    PROVE  DropInv'
<1>1. \A i \in 1 .. Len(Events) : Events[i].conn \in Conns
  BY EventsQueue DEF ListenerInv, Cqes
<1>2. Finals'
  BY <1>1 DEF DropInv, Finals
<1> QED
  BY <1>2, DropKept DEF Underway, Streaming, Over

(* Every step of check. *)
LEMMA DropCheck ==
    ASSUME ListenerInv, DropInv, Check
    PROVE  DropInv'
<1> DEFINE s == Head(bundle).slot
<1>1. TypeOK /\ Addressed /\ Kept /\ Awaited /\ Receives /\ Orphaned
  BY DEF ListenerInv
<1>2. CASE HandleSentZc \/ HandleRecv
  <2>1. /\ pc = "bundle" /\ Head(bundle).kind \in {"send", "recv"} /\ pool[s] # NoStream
        /\ UNCHANGED <<peer, at, armed, cq, orphans>>
    BY <1>2 DEF HandleSentZc, HandleRecv, First
  <2>2. s \in Slots
    BY <2>1, HeadEvent
  <2>3. PICK m \in Nat, b \in Nat : RunLoop(s, m, b)
    <3>1. CASE HandleSentZc
      BY <3>1, SentZcLoop
    <3>2. CASE HandleRecv
      BY <1>1, <2>2, <3>2 DEF HandleRecv, TypeOK
    <3> QED
      BY <1>2, <3>1, <3>2
  <2>4. PICK c \in Conns : c = pool[s].conn
    BY <1>1, <2>1, <2>2 DEF Kept
  <2>5. at[c] = s /\ (Pop \/ ReturnErr)
    BY <2>1, <2>3, <2>4, RunLoopFacts
  <2>6. /\ \A t \in Slots : t # s => pool'[t] = pool[t]
        /\ pool'[s].conn = c
        /\ \A d \in Conns : d # c => unnotified'[d] = unnotified[d]
    <3>1. PICK k : AddSends(c, k)
      BY <2>3, <2>4 DEF RunLoop
    <3>2. \A d \in Conns : d # c => unnotified'[d] = unnotified[d]
      BY <1>1, <3>1 DEF AddSends, TypeOK
    <3>3. PICK j : pool' = [pool EXCEPT ![s].sends = m + j, ![s].bufs = b + j]
      BY <2>3 DEF RunLoop
    <3>4. pool \in [Slots -> [conn: Conns \cup {NoConn}, sends: Nat, bufs: Nat]]
      BY <1>1 DEF TypeOK
    <3>5. /\ \A t \in Slots : t # s => pool'[t] = pool[t]
          /\ pool'[s].conn = pool[s].conn
      BY <2>2, <3>3, <3>4
    <3> QED
      BY <2>4, <3>2, <3>5
  <2>7. Streaming(c)' /\ (Over(c) => c \notin armed')
    BY <2>1, <2>5, <2>6 DEF Streaming, Over
  <2>8. \A d \in Conns : at[d] # 0 /\ d # c /\ pool[at[d]].conn = d => pool'[at[d]].conn = d
    BY <1>1, <2>4, <2>6, SlotFacts DEF TypeOK
  <2> QED
    BY <2>1, <2>5, <2>6, <2>7, <2>8, DropHandled
<1>3. CASE HandleShutdown
  <2>1. /\ pc = "bundle" /\ Head(bundle).kind = "recv" /\ ~Head(bundle).more
        /\ pool' = [pool EXCEPT ![s] = NoStream] /\ pool[s] # NoStream /\ Pop
        /\ UNCHANGED <<peer, at, armed, unnotified, cq, orphans>>
    BY <1>3 DEF HandleShutdown, First, Release, Remove
  <2>2. /\ s \in Slots /\ Events[1] = Head(bundle) /\ 1 \in 1 .. Len(Events)
        /\ Head(bundle).conn \in Conns /\ s = at[Head(bundle).conn]
    BY <2>1, HeadEvent
  <2>3. PICK c \in Conns : c = Head(bundle).conn
    BY <2>2
  <2>4. Streaming(c) /\ c \notin armed
    BY <1>1, <2>1, <2>2, <2>3 DEF Receives
  <2>5. pool[s].conn = c
    BY <1>1, <2>1, <2>2, <2>3, <2>4 DEF Streaming, Orphaned
  <2>6. \A d \in Conns : at[d] # 0 /\ d # c /\ pool[at[d]].conn = d => pool'[at[d]].conn = d
    BY <1>1, <2>1, <2>2, <2>5, SlotFacts DEF TypeOK
  <2> QED
    BY <2>1, <2>3, <2>4, <2>6, DropHandled
<1>4. CASE HandleAccepted \/ HandleAcceptedNoSend
  <2>1. /\ pc = "bundle" /\ Head(bundle).kind = "accept" /\ cq' = cq /\ (Pop \/ ReturnErr)
        /\ UNCHANGED <<peer, at>> /\ orphans \subseteq orphans'
    BY <1>4 DEF HandleAccepted, HandleAcceptedNoSend, First, NoRoom
  <2>2. /\ s \in Slots /\ Events[1] = Head(bundle) /\ 1 \in 1 .. Len(Events)
        /\ Head(bundle).conn \in Conns /\ s = at[Head(bundle).conn]
    BY <2>1, HeadEvent
  <2>3. PICK c \in Conns : c = table[s] /\ c = Head(bundle).conn
    BY <1>1, <2>1, <2>2 DEF Awaited
  <2>4. pool[s] = NoStream /\ at[c] = s /\ ~Over(c)
    BY <1>1, <2>1, <2>2, <2>3 DEF Awaited, Over
  <2>5. /\ \A d \in Conns : d # c => unnotified'[d] = unnotified[d]
        /\ armed' = armed \cup {c}
        /\ \A t \in Slots : t # s => pool'[t] = pool[t]
        /\ pool'[s].conn = c \/ c \in orphans'
    <3>1. CASE HandleAccepted
      <4>1. /\ armed' = armed \cup {c}
            /\ \E k : /\ pool' = [pool EXCEPT ![s] = [conn |-> c, sends |-> k, bufs |-> k]]
                      /\ unnotified' = [unnotified EXCEPT ![c] = @ + k]
        BY <2>3, <3>1 DEF HandleAccepted, Arm, AddSends
      <4> QED
        BY <1>1, <2>2, <4>1 DEF TypeOK
    <3>2. CASE HandleAcceptedNoSend
      <4>1. /\ armed' = armed \cup {c} /\ c \in orphans' /\ pool' = pool
            /\ \E k : unnotified' = [unnotified EXCEPT ![c] = @ + k]
        BY <2>3, <3>2 DEF HandleAcceptedNoSend, Arm, AddSends
      <4> QED
        BY <1>1, <4>1 DEF TypeOK
    <3> QED
      BY <1>4, <3>1, <3>2
  <2>6. Streaming(c)'
    BY <2>1, <2>4, <2>5 DEF Streaming
  <2>7. \A d \in Conns : at[d] # 0 /\ d # c /\ pool[at[d]].conn = d => pool'[at[d]].conn = d
    <3> SUFFICES ASSUME NEW d \in Conns, at[d] # 0, d # c, pool[at[d]].conn = d
                 PROVE  pool'[at[d]].conn = d
      OBVIOUS
    <3>1. pool[s].conn # d
      BY <2>4, ListenerAssumption DEF NoStream
    <3>2. at[d] # s /\ at[d] \in Slots
      BY <1>1, <3>1, SlotFacts DEF TypeOK
    <3> QED
      BY <2>5, <3>2
  <2> QED
    BY <2>1, <2>4, <2>5, <2>6, <2>7, DropHandled
<1>5. CASE HandleAcceptedNoAccept \/ HandleAcceptedFails \/ HandleAcceptError \/ HandleSendFailed
  <2>1. /\ pc = "bundle" /\ cq' = cq /\ (Pop \/ ReturnErr)
        /\ UNCHANGED <<peer, at, armed, unnotified, pool, orphans>>
    BY <1>5 DEF HandleAcceptedNoAccept, HandleAcceptedFails, HandleAcceptError, HandleSendFailed,
       First, NoRoom, kernel
  <2>2. PICK k \in 1 .. Len(Events) : Gone(k)
    BY <2>1, HandledEvents
  <2>3. \A i \in 1 .. Len(Events') : i + k \in 1 .. Len(Events) /\ Events'[i] = Events[i + k]
    BY <2>2, GoneKeeps
  <2>4. Finals'
    BY <2>1, <2>3 DEF DropInv, Finals
  <2>5. \A c \in Conns : Underway(c)' => Underway(c)
    BY <2>1, <2>3 DEF Underway
  <2>6. \A c \in Conns : Streaming(c) => Streaming(c)'
    BY <2>1 DEF Streaming
  <2>7. \A c \in Conns : Over(c) => Over(c)'
    BY <2>1, <2>3 DEF Over
  <2> QED
    BY <2>4, <2>5, <2>6, <2>7, DropKept
<1>6. CASE CheckCollect \/ CheckCollectPanics \/ HandleSentZcNoSlot
           \/ HandleSentZcUnderflow \/ HandleRecvNoSlot
  <2>1. /\ Events' = Events
        /\ UNCHANGED <<peer, at, armed, unnotified, pool, orphans>>
    <3>1. CASE CheckCollect
      BY <3>1, EventsTaken DEF CheckCollect
    <3>2. CASE CheckCollectPanics \/ HandleSentZcNoSlot \/ HandleSentZcUnderflow
               \/ HandleRecvNoSlot
      BY <3>2 DEF CheckCollectPanics, HandleSentZcNoSlot, HandleSentZcUnderflow,
         HandleRecvNoSlot, Panic, kernel, Events
    <3> QED
      BY <1>6, <3>1, <3>2
  <2> QED
    BY <2>1, DropQuiet
<1> QED
  BY <1>2, <1>3, <1>4, <1>5, <1>6 DEF Check

(* A completion in either queue is one of the events. *)
LEMMA PendingEvent ==
    ASSUME TypeOK, NEW kinds, NEW c
    PROVE  Pending(kinds, c) <=>
              \E i \in 1 .. Len(Events) : Events[i].kind \in kinds /\ Events[i].conn = c
<1>1. /\ Len(Events) = Len(bundle) + Len(cq) /\ Len(bundle) \in Nat /\ Len(cq) \in Nat
      /\ \A j \in 1 .. Len(bundle) : Events[j] = bundle[j]
      /\ \A j \in 1 .. Len(cq) : Events[Len(bundle) + j] = cq[j]
  BY EventsQueue
<1>2. DOMAIN cq = 1 .. Len(cq) /\ DOMAIN bundle = 1 .. Len(bundle)
  BY DEF TypeOK
<1>3. ASSUME NEW i \in 1 .. Len(Events), Events[i].kind \in kinds, Events[i].conn = c
      PROVE  Pending(kinds, c)
  <2>1. CASE i <= Len(bundle)
    BY <1>1, <1>2, <1>3, <2>1 DEF Pending
  <2>2. CASE i > Len(bundle)
    <3>1. i - Len(bundle) \in 1 .. Len(cq) /\ i = Len(bundle) + (i - Len(bundle))
      BY <1>1, <2>2
    <3>2. cq[i - Len(bundle)] = Events[i]
      BY <1>1, <3>1
    <3> QED
      BY <1>2, <1>3, <3>1, <3>2 DEF Pending
  <2> QED
    BY <1>1, <2>1, <2>2
<1>4. ASSUME Pending(kinds, c)
      PROVE  \E i \in 1 .. Len(Events) : Events[i].kind \in kinds /\ Events[i].conn = c
  <2>1. CASE \E j \in 1 .. Len(cq) : cq[j].kind \in kinds /\ cq[j].conn = c
    <3>1. PICK j \in 1 .. Len(cq) : cq[j].kind \in kinds /\ cq[j].conn = c
      BY <2>1
    <3>2. Len(bundle) + j \in 1 .. Len(Events) /\ Events[Len(bundle) + j] = cq[j]
      BY <1>1
    <3> QED
      BY <3>1, <3>2
  <2>2. CASE \E j \in 1 .. Len(bundle) : bundle[j].kind \in kinds /\ bundle[j].conn = c
    <3>1. PICK j \in 1 .. Len(bundle) : bundle[j].kind \in kinds /\ bundle[j].conn = c
      BY <2>2
    <3>2. j \in 1 .. Len(Events) /\ Events[j] = bundle[j]
      BY <1>1
    <3> QED
      BY <3>1, <3>2
  <2> QED
    BY <1>2, <1>4, <2>1, <2>2 DEF Pending
<1> QED
  BY <1>3, <1>4

(* Whatever goes wrong, a stream whose sends are under way is dropped only with the
   last receive of a connection that its peer has closed, or by an accept that fails
   behind recv_multi. *)
THEOREM StreamsEndWithTheirPeer == Spec => []OnlyEofDropsStream
<1>1. Init => DropInv
  <2> SUFFICES ASSUME Init PROVE DropInv
    OBVIOUS
  <2>1. Events = <<>> /\ Len(Events) = 0
    <3>1. <<>> \o <<>> = <<>>
      BY EmptySeq, ConcatEmptySeq
    <3> QED
      BY <3>1 DEF Init, Events
  <2> QED
    BY <2>1 DEF Init, DropInv, Finals, Underway
<1>2. ListenerInv /\ DropInv /\ [Next]_vars => DropInv'
  <2> SUFFICES ASSUME ListenerInv, DropInv, [Next]_vars PROVE DropInv'
    OBVIOUS
  <2>1. CASE \E c \in Conns : KernelRecv(c) \/ Kernel(c)
    BY <2>1, DropKernel
  <2>2. CASE Check
    BY <2>2, DropCheck
  <2>3. CASE \/ SetHugeTlb \/ UNCHANGED vars \/ \E c \in Conns : Connect(c) \/ PeerClose(c)
    <3>1. Events' = Events /\ UNCHANGED <<at, armed, unnotified, pool, orphans>>
      BY <2>3 DEF SetHugeTlb, Connect, PeerClose, kernel, vars, listener, Events
    <3>2. \A d \in Conns : peer[d] = "closed" => peer'[d] = "closed"
      BY <2>3 DEF SetHugeTlb, Connect, PeerClose, kernel, vars, ListenerInv, TypeOK
    <3> QED
      BY <3>1, <3>2, DropQuiet
  <2> QED
    BY <2>1, <2>2, <2>3 DEF Next
<1>3. ListenerInv /\ DropInv => OnlyEofDropsStream
  <2> SUFFICES ASSUME ListenerInv, DropInv, NEW c \in Conns,
                      unnotified[c] > 0 \/ Pending({"send"}, c)
               PROVE  \/ InPool(c) \/ c \in orphans
                      \/ peer[c] = "closed" /\ c \notin armed /\ ~Pending({"recv"}, c)
    BY DEF OnlyEofDropsStream
  <2>1. TypeOK
    BY DEF ListenerInv
  <2>2. Underway(c)
    BY <2>1, PendingEvent DEF Underway
  <2>3. CASE Streaming(c)
    <3>1. at[c] \in Slots
      BY <2>1, <2>2, SlotFacts DEF ListenerInv, Addressed, TypeOK, Underway
    <3> QED
      BY <2>3, <3>1 DEF Streaming, InPool
  <2>4. CASE Over(c)
    BY <2>1, <2>4, PendingEvent DEF Over
  <2> QED
    BY <2>2, <2>3, <2>4 DEF DropInv
<1> QED
  BY <1>1, <1>2, <1>3, InvHolds, PTL DEF Spec
=============================================================================
