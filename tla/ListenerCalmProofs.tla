------------------------- MODULE ListenerCalmProofs -------------------------
(***************************************************************************)
(* What Listener guarantees when less goes wrong.  Peers that close only   *)
(* once they are idle, and submissions that find room: then the counters   *)
(* of a stream cover its sends, whichever of them fail.  Huge pages for    *)
(* every slot, set up in time, and room for submissions: then no slot is   *)
(* lost and accepts are replaced.                                          *)
(***************************************************************************)
EXTENDS ListenerProofs

-----------------------------------------------------------------------------
(* Sends.                                                                  *)

(* A peer closes only when nothing of its exchange is under way, and there is
   always room for a submission. *)
Calm == "busyclose" \notin Faults /\ MaxFull = 0

SendEntries(c, more) ==
    {e \in Cqes : e.kind = "send" /\ e.conn = c /\ e.more = more}

(* Completions of sends of c that are still to be handled. *)
ToHandle(c, more) == Count(Events, SendEntries(c, more))
Acks(c) == ToHandle(c, TRUE)
Notifs(c) == ToHandle(c, FALSE)

(* The counters of a stream cover its sends in the kernel and in the queues. *)
Covered ==
    \A s \in Slots, c \in Conns : pool[s].conn = c =>
       /\ pool[s].sends >= unacked[c] + Acks(c)
       /\ pool[s].bufs >= unnotified[c] + Notifs(c)

(* A connection with a send under way has its stream, and its peer is there. *)
Sending ==
    \A c \in Conns :
       /\ unacked[c] <= unnotified[c]
       /\ unnotified[c] > 0 \/ Acks(c) > 0 \/ Notifs(c) > 0 =>
             at[c] # 0 /\ pool[at[c]].conn = c /\ peer[c] # "closed"

SendInv == orphans = {} /\ Covered /\ Sending /\ Finals

(* Counting completions. *)
LEMMA ToHandleNat ==
    ASSUME TypeOK, NEW c, NEW more
    PROVE  ToHandle(c, more) \in Nat
BY EventsQueue, CountType DEF ToHandle

(* The kernel posts a completion: one more of its kind, and of no other. *)
LEMMA ToHandlePosted ==
    ASSUME TypeOK, NEW e \in Cqes, cq' = Append(cq, e), bundle' = bundle, NEW c, NEW more
    PROVE  /\ ToHandle(c, more) \in Nat
           /\ e.kind = "send" /\ e.conn = c /\ e.more = more =>
                 ToHandle(c, more)' = ToHandle(c, more) + 1
           /\ ~(e.kind = "send" /\ e.conn = c /\ e.more = more) =>
                 ToHandle(c, more)' = ToHandle(c, more)
<1>1. Events \in Seq(Cqes) /\ Events' = Append(Events, e)
  BY EventsQueue, EventsPosted
<1>2. Count(Append(Events, e), SendEntries(c, more))
         = Count(Events, SendEntries(c, more)) + IF e \in SendEntries(c, more) THEN 1 ELSE 0
  BY <1>1, CountAppend
<1>3. e \in SendEntries(c, more) <=> e.kind = "send" /\ e.conn = c /\ e.more = more
  BY DEF SendEntries
<1>4. ToHandle(c, more) \in Nat
  BY ToHandleNat
<1>5. SendEntries(c, more)' = SendEntries(c, more)
  BY DEF SendEntries, Cqes
<1>6. ToHandle(c, more)' = Count(Append(Events, e), SendEntries(c, more))
  BY <1>1, <1>5 DEF ToHandle
<1>7. ToHandle(c, more)' = ToHandle(c, more) + IF e \in SendEntries(c, more) THEN 1 ELSE 0
  BY <1>2, <1>6 DEF ToHandle
<1> QED
  BY <1>3, <1>4, <1>7

(* A handler takes its completion, and with an error the rest of the bundle. *)
LEMMA ToHandleHandled ==
    ASSUME ListenerInv, pc = "bundle", cq' = cq, Pop \/ ReturnErr, NEW c, NEW more
    PROVE  /\ ToHandle(c, more) \in Nat /\ ToHandle(c, more)' \in Nat
           /\ ToHandle(c, more)' <= ToHandle(c, more)
           /\ Head(bundle).kind = "send" /\ Head(bundle).conn = c /\ Head(bundle).more = more =>
                 ToHandle(c, more)' + 1 <= ToHandle(c, more)
<1> DEFINE K == SendEntries(c, more)
<1>1. /\ bundle # <<>> /\ bundle \in Seq(Cqes) /\ Head(bundle) \in Cqes
      /\ Tail(bundle) \in Seq(Cqes) /\ cq \in Seq(Cqes)
  BY HeadEvent, HeadTailProperties DEF ListenerInv, TypeOK
<1>2. ToHandle(c, more) = Count(bundle, K) + Count(cq, K)
  BY <1>1, CountConcat DEF ToHandle, Events
<1>3. Count(bundle, K) = Count(Tail(bundle), K) + IF Head(bundle) \in K THEN 1 ELSE 0
  BY <1>1, CountTail
<1>4. Head(bundle) \in K <=>
         Head(bundle).kind = "send" /\ Head(bundle).conn = c /\ Head(bundle).more = more
  BY <1>1 DEF SendEntries
<1>5. Count(bundle, K) \in Nat /\ Count(cq, K) \in Nat /\ Count(Tail(bundle), K) \in Nat
  BY <1>1, CountType
<1>6. SendEntries(c, more)' = K
  BY DEF SendEntries, Cqes
<1> HIDE DEF K
<1>7. CASE Pop
  <2>1. Events' = Tail(bundle) \o cq
    BY <1>7 DEF Pop, Events
  <2>2. ToHandle(c, more)' = Count(Tail(bundle) \o cq, K)
    BY <2>1, <1>6 DEF ToHandle
  <2>3. ToHandle(c, more)' = Count(Tail(bundle), K) + Count(cq, K)
    BY <1>1, <2>2, CountConcat, ZenonT(60)
  <2> QED
    BY <1>2, <1>3, <1>4, <1>5, <2>3
<1>8. CASE ReturnErr
  <2>1. Events' = cq
    BY <1>1, <1>8, ConcatEmptySeq DEF ReturnErr, Events
  <2>2. ToHandle(c, more)' = Count(cq, K)
    BY <2>1, <1>6 DEF ToHandle
  <2> QED
    BY <1>2, <1>3, <1>4, <1>5, <2>2
<1> QED
  BY <1>7, <1>8

(* The two completions of a send apart. *)
LEMMA SendsNat ==
    ASSUME TypeOK, NEW c
    PROVE  Acks(c) \in Nat /\ Notifs(c) \in Nat
BY ToHandleNat DEF Acks, Notifs

(* The same for the two kinds of completion. *)
LEMMA SendsPosted ==
    ASSUME TypeOK, NEW e \in Cqes, cq' = Append(cq, e), bundle' = bundle, NEW c
    PROVE  /\ ~(e.kind = "send" /\ e.conn = c) => Acks(c)' = Acks(c) /\ Notifs(c)' = Notifs(c)
           /\ e.kind = "send" /\ e.conn = c /\ e.more = TRUE =>
                 Acks(c)' = Acks(c) + 1 /\ Notifs(c)' = Notifs(c)
           /\ e.kind = "send" /\ e.conn = c /\ e.more = FALSE =>
                 Acks(c)' = Acks(c) /\ Notifs(c)' = Notifs(c) + 1
<1>1. /\ e.kind = "send" /\ e.conn = c /\ e.more = TRUE => Acks(c)' = Acks(c) + 1
      /\ ~(e.kind = "send" /\ e.conn = c /\ e.more = TRUE) => Acks(c)' = Acks(c)
  BY ToHandlePosted, ZenonT(60) DEF Acks
<1>2. /\ e.kind = "send" /\ e.conn = c /\ e.more = FALSE => Notifs(c)' = Notifs(c) + 1
      /\ ~(e.kind = "send" /\ e.conn = c /\ e.more = FALSE) => Notifs(c)' = Notifs(c)
  BY ToHandlePosted DEF Notifs
<1> QED
  BY <1>1, <1>2

(* The same for the two kinds of completion. *)
LEMMA SendsHandled ==
    ASSUME ListenerInv, pc = "bundle", cq' = cq, Pop \/ ReturnErr, NEW c
    PROVE  /\ Acks(c) \in Nat /\ Acks(c)' \in Nat /\ Acks(c)' <= Acks(c)
           /\ Notifs(c) \in Nat /\ Notifs(c)' \in Nat /\ Notifs(c)' <= Notifs(c)
           /\ Head(bundle).kind = "send" /\ Head(bundle).conn = c /\ Head(bundle).more = TRUE =>
                 Acks(c)' + 1 <= Acks(c)
           /\ Head(bundle).kind = "send" /\ Head(bundle).conn = c /\ Head(bundle).more = FALSE =>
                 Notifs(c)' + 1 <= Notifs(c)
BY ToHandleHandled DEF Acks, Notifs

(* A completion is counted exactly if it is in a queue. *)
LEMMA SendsPositive ==
    ASSUME TypeOK, NEW c
    PROVE  Acks(c) > 0 \/ Notifs(c) > 0 <=>
              \E i \in 1 .. Len(Events) : Events[i].kind = "send" /\ Events[i].conn = c
<1>1. Events \in Seq(Cqes) /\ \A i \in 1 .. Len(Events) : Events[i] \in Cqes
  BY EventsQueue
<1>2. Acks(c) > 0 <=> \E i \in 1 .. Len(Events) : Events[i] \in SendEntries(c, TRUE)
  BY <1>1, CountPositive DEF Acks, ToHandle
<1>3. Notifs(c) > 0 <=> \E i \in 1 .. Len(Events) : Events[i] \in SendEntries(c, FALSE)
  BY <1>1, CountPositive DEF Notifs, ToHandle
<1>4. \A e \in Cqes : e.kind = "send" /\ e.conn = c <=>
                       e \in SendEntries(c, TRUE) \/ e \in SendEntries(c, FALSE)
  BY DEF SendEntries, Cqes
<1> QED
  BY <1>1, <1>2, <1>3, <1>4

(* A stream is in the slot its connection was accepted into, and in no other. *)
LEMMA StreamSlot ==
    ASSUME ListenerInv, NEW s \in Slots, pool[s].conn \in Conns
    PROVE  /\ pool[s] # NoStream
           /\ at[pool[s].conn] = s /\ s # 0
           /\ \A t \in Slots : pool[t].conn = pool[s].conn => t = s
<1>1. \A t \in Slots : pool[t].conn \in Conns =>
         pool[t] # NoStream /\ table[t] = pool[t].conn /\ table[t] # NoConn
  BY ListenerAssumption DEF ListenerInv, Kept, NoStream
<1>2. \A t \in Slots : pool[t].conn \in Conns => at[pool[t].conn] = t
  BY <1>1 DEF ListenerInv, Addressed
<1> QED
  BY <1>1, <1>2, SlotFacts

(* The kernel has no more to send than before. *)
NoNewSends ==
    \A c \in Conns : /\ unacked'[c] \in Nat /\ unacked'[c] <= unacked[c]
                      /\ unnotified'[c] \in Nat /\ unnotified'[c] <= unnotified[c]
                      /\ unacked'[c] <= unnotified'[c]

LEMMA UntouchedSends ==
    ASSUME TypeOK, Sending, UNCHANGED <<unacked, unnotified>>
    PROVE  NoNewSends
BY DEF TypeOK, Sending, NoNewSends

(* A completion that is no send, or none at all, and a stream and its counters as
   before. *)
LEMMA SendsUntouched ==
    ASSUME ListenerInv, ListenerInv', SendInv,
           UNCHANGED <<pool, orphans>>, NoNewSends,
           \A c \in Conns : /\ Acks(c)' \in Nat /\ Acks(c)' <= Acks(c)
                            /\ Notifs(c)' \in Nat /\ Notifs(c)' <= Notifs(c),
           \A c \in Conns : at[c] # 0 => at'[c] = at[c],
           \A c \in Conns : /\ unnotified[c] > 0 \/ Acks(c) > 0 \/ Notifs(c) > 0
                            /\ peer[c] # "closed"
                            => peer'[c] # "closed",
           Finals'
    PROVE  SendInv'
<1>1. TypeOK /\ Covered /\ Sending
  BY DEF ListenerInv, SendInv
<1>2. \A c \in Conns : Acks(c) \in Nat /\ Notifs(c) \in Nat
  BY <1>1, SendsNat
<1>3. Covered'
  <2> SUFFICES ASSUME NEW s \in Slots, NEW c \in Conns, pool[s].conn = c
               PROVE  /\ pool[s].sends >= unacked'[c] + Acks(c)'
                      /\ pool[s].bufs >= unnotified'[c] + Notifs(c)'
    BY DEF Covered
  <2>1. /\ pool[s].sends >= unacked[c] + Acks(c)
        /\ pool[s].bufs >= unnotified[c] + Notifs(c)
        /\ pool[s].sends \in Nat /\ pool[s].bufs \in Nat
        /\ unacked[c] \in Nat /\ unnotified[c] \in Nat
    BY <1>1 DEF Covered, TypeOK
  <2>2. /\ Acks(c) \in Nat /\ Notifs(c) \in Nat
        /\ Acks(c)' \in Nat /\ Acks(c)' <= Acks(c)
        /\ Notifs(c)' \in Nat /\ Notifs(c)' <= Notifs(c)
    BY <1>2
  <2>3. /\ unacked'[c] \in Nat /\ unacked'[c] <= unacked[c]
        /\ unnotified'[c] \in Nat /\ unnotified'[c] <= unnotified[c]
    BY DEF NoNewSends
  <2> QED
    BY <2>1, <2>2, <2>3
<1>4. Sending'
  <2> SUFFICES ASSUME NEW c \in Conns
               PROVE  /\ unacked'[c] <= unnotified'[c]
                      /\ unnotified'[c] > 0 \/ Acks(c)' > 0 \/ Notifs(c)' > 0 =>
                            at'[c] # 0 /\ pool[at'[c]].conn = c /\ peer'[c] # "closed"
    BY DEF Sending
  <2>1. unnotified'[c] > 0 \/ Acks(c)' > 0 \/ Notifs(c)' > 0 =>
           unnotified[c] > 0 \/ Acks(c) > 0 \/ Notifs(c) > 0
    BY <1>1, <1>2 DEF NoNewSends, TypeOK
  <2>2. unacked'[c] <= unnotified'[c]
    BY DEF NoNewSends
  <2> QED
    BY <1>1, <2>1, <2>2 DEF Sending
<1> QED
  BY <1>3, <1>4 DEF SendInv

(* The kernel posts what belongs to no send. *)
LEMMA OtherPosted ==
    ASSUME ListenerInv, ListenerInv', SendInv, NEW e \in Cqes, e.kind # "send",
           cq' = Append(cq, e), UNCHANGED listener, NoNewSends,
           \A c \in Conns : at[c] # 0 => at'[c] = at[c] /\ peer'[c] = peer[c],
           e.kind = "recv" /\ ~e.more => peer'[e.conn] = "closed"
    PROVE  SendInv'
<1>1. TypeOK /\ Addressed /\ Sending /\ Finals
  BY DEF ListenerInv, SendInv
<1>2. bundle' = bundle /\ pool' = pool /\ orphans' = orphans
  BY DEF listener
<1>3. \A c \in Conns : /\ Acks(c)' = Acks(c) /\ Acks(c) \in Nat
                       /\ Notifs(c)' = Notifs(c) /\ Notifs(c) \in Nat
  BY <1>1, <1>2, SendsNat, SendsPosted
<1>4. Finals'
  <2>1. /\ Len(Events) \in Nat /\ Len(Events') = Len(Events) + 1
        /\ \A i \in 1 .. Len(Events) : Events'[i] = Events[i] /\ Events[i] \in Cqes
        /\ Events'[Len(Events) + 1] = e
    BY <1>1, <1>2, EventsQueue, EventsPosted
  <2> SUFFICES ASSUME NEW i \in 1 .. Len(Events'), Events'[i].kind = "recv", ~Events'[i].more
               PROVE  peer'[Events'[i].conn] = "closed"
    BY DEF Finals
  <2>2. CASE i = Len(Events) + 1
    BY <2>1, <2>2
  <2>3. CASE i \in 1 .. Len(Events)
    <3>1. Events'[i] = Events[i] /\ Events[i].conn \in Conns /\ at[Events[i].conn] # 0
      BY <1>1, <2>1, <2>3 DEF Addressed, Cqes
    <3> QED
      BY <1>1, <2>3, <3>1 DEF Finals
  <2> QED
    BY <2>1, <2>2, <2>3
<1>5. \A c \in Conns : /\ unnotified[c] > 0 \/ Acks(c) > 0 \/ Notifs(c) > 0
                       /\ peer[c] # "closed"
                       => peer'[c] # "closed"
  BY <1>1 DEF Sending
<1>6. \A c \in Conns : /\ Acks(c)' \in Nat /\ Acks(c)' <= Acks(c)
                       /\ Notifs(c)' \in Nat /\ Notifs(c)' <= Notifs(c)
  BY <1>3
<1> QED
  BY <1>2, <1>4, <1>5, <1>6, SendsUntouched

(* A completion of a send takes over from the request in the kernel. *)
LEMMA SendPosted ==
    ASSUME ListenerInv, ListenerInv', SendInv, NEW c \in Conns, NEW more \in BOOLEAN,
           cq' = Append(cq, Cqe("send", c, more)),
           UNCHANGED <<peer, at, listener>>,
           \/ more /\ unacked[c] > 0 /\ unacked' = [unacked EXCEPT ![c] = @ - 1]
                   /\ unnotified' = unnotified
           \/ ~more /\ unnotified[c] > unacked[c]
                    /\ unnotified' = [unnotified EXCEPT ![c] = @ - 1] /\ unacked' = unacked
    PROVE  SendInv'
<1> DEFINE e == Cqe("send", c, more)
<1>1. TypeOK /\ Addressed /\ Covered /\ Sending /\ Finals
  BY DEF ListenerInv, SendInv
<1>2. bundle' = bundle /\ pool' = pool /\ orphans' = orphans /\ cq' = Append(cq, e)
  BY DEF listener
<1>3. e \in Cqes /\ e.kind = "send" /\ e.conn = c /\ e.more = more
  BY <1>1 DEF Cqe, Cqes, TypeOK
<1> HIDE DEF e
<1>4. \A d \in Conns :
         /\ Acks(d) \in Nat /\ Notifs(d) \in Nat
         /\ d # c => Acks(d)' = Acks(d) /\ Notifs(d)' = Notifs(d)
         /\ d = c /\ more => Acks(d)' = Acks(d) + 1 /\ Notifs(d)' = Notifs(d)
         /\ d = c /\ ~more => Acks(d)' = Acks(d) /\ Notifs(d)' = Notifs(d) + 1
  BY <1>1, <1>2, <1>3, SendsNat, SendsPosted
<1>5. \A d \in Conns : /\ unacked[d] \in Nat /\ unnotified[d] \in Nat
                       /\ unacked[d] <= unnotified[d]
                       /\ d # c => unacked'[d] = unacked[d] /\ unnotified'[d] = unnotified[d]
  BY <1>1 DEF TypeOK, Sending
<1>6. \/ more /\ unacked[c] > 0 /\ unacked'[c] = unacked[c] - 1 /\ unnotified'[c] = unnotified[c]
      \/ ~more /\ unnotified[c] > unacked[c] /\ unnotified'[c] = unnotified[c] - 1
               /\ unacked'[c] = unacked[c]
  BY <1>1 DEF TypeOK
<1>7. Covered'
  <2> SUFFICES ASSUME NEW s \in Slots, NEW d \in Conns, pool[s].conn = d
               PROVE  /\ pool[s].sends >= unacked'[d] + Acks(d)'
                      /\ pool[s].bufs >= unnotified'[d] + Notifs(d)'
    BY <1>2 DEF Covered
  <2>1. /\ pool[s].sends >= unacked[d] + Acks(d)
        /\ pool[s].bufs >= unnotified[d] + Notifs(d)
        /\ pool[s].sends \in Nat /\ pool[s].bufs \in Nat
    BY <1>1 DEF Covered, TypeOK
  <2>2. Acks(d) \in Nat /\ Notifs(d) \in Nat
    BY <1>4
  <2>3. CASE d # c
    BY <1>4, <1>5, <2>1, <2>3
  <2>4. CASE d = c /\ more
    <3>1. Acks(d)' = Acks(d) + 1 /\ Notifs(d)' = Notifs(d)
      BY <1>4, <2>4
    <3> QED
      BY <1>5, <1>6, <2>1, <2>2, <2>4, <3>1
  <2>5. CASE d = c /\ ~more
    <3>1. Notifs(d)' = Notifs(d) + 1 /\ Acks(d)' = Acks(d)
      BY <1>4, <2>5
    <3> QED
      BY <1>5, <1>6, <2>1, <2>2, <2>5, <3>1
  <2> QED
    BY <2>3, <2>4, <2>5
<1>8. Sending'
  <2> SUFFICES ASSUME NEW d \in Conns
               PROVE  /\ unacked'[d] <= unnotified'[d]
                      /\ unnotified'[d] > 0 \/ Acks(d)' > 0 \/ Notifs(d)' > 0 =>
                            at[d] # 0 /\ pool[at[d]].conn = d /\ peer[d] # "closed"
    BY <1>2 DEF Sending
  <2>1. CASE d # c
    BY <1>1, <1>4, <1>5, <2>1 DEF Sending
  <2>2. CASE d = c
    <3>1. unnotified[c] > 0 /\ unacked'[c] <= unnotified'[c]
      BY <1>5, <1>6
    <3> QED
      BY <1>1, <2>2, <3>1 DEF Sending
  <2> QED
    BY <2>1, <2>2
<1>9. Finals'
  <2>1. /\ Len(Events) \in Nat /\ Len(Events') = Len(Events) + 1
        /\ \A i \in 1 .. Len(Events) : Events'[i] = Events[i]
        /\ Events'[Len(Events) + 1] = e
    BY <1>1, <1>2, <1>3, EventsQueue, EventsPosted
  <2>2. \A i \in 1 .. Len(Events) + 1 : i = Len(Events) + 1 \/ i \in 1 .. Len(Events)
    BY <2>1
  <2> QED
    BY <1>1, <1>3, <2>1, <2>2 DEF Finals
<1> QED
  BY <1>2, <1>7, <1>8, <1>9 DEF SendInv

(* Handling leaves the later events as they were. *)
LEMMA FinalsKept ==
    ASSUME ListenerInv, SendInv, pc = "bundle", UNCHANGED <<cq, peer>>, Pop \/ ReturnErr
    PROVE  Finals'
<1>1. PICK k \in 1 .. Len(Events) : Gone(k)
  BY HandledEvents
<1>2. \A i \in 1 .. Len(Events') : i + k \in 2 .. Len(Events) /\ Events'[i] = Events[i + k]
  BY <1>1, GoneKeeps
<1>3. \A i \in 1 .. Len(Events') : i + k \in 1 .. Len(Events)
  BY <1>2
<1> QED
  BY <1>2, <1>3 DEF SendInv, Finals

(* The callback loop, entered with counters that cover what is left. *)
LEMMA RunLoopSends ==
    ASSUME ListenerInv, ListenerInv', SendInv, "busyclose" \notin Faults,
           pc = "bundle", NEW s, s = Head(bundle).slot,
           Head(bundle).kind \in {"send", "recv"}, pool[s] # NoStream,
           NEW c \in Conns, c = pool[s].conn,
           NEW m \in Nat, NEW b \in Nat, RunLoop(s, m, b),
           m >= unacked[c] + Acks(c)', b >= unnotified[c] + Notifs(c)',
           UNCHANGED <<peer, at, cq, orphans>>
    PROVE  SendInv'
<1>1. TypeOK /\ Covered /\ Sending
  BY DEF ListenerInv, SendInv
<1>2. at[c] = s /\ s \in Slots /\ s # 0 /\ (Pop \/ ReturnErr)
  BY RunLoopFacts
<1>3. PICK k \in LoopSends(c, m, b) :
         /\ k \in Nat
         /\ pool' \in [Slots -> [conn: Conns \cup {NoConn}, sends: Nat, bufs: Nat]]
         /\ \A t \in Slots : t # s => pool'[t] = pool[t]
         /\ pool'[s] = [conn |-> c, sends |-> m + k, bufs |-> b + k]
         /\ unacked' = [unacked EXCEPT ![c] = @ + k]
         /\ unnotified' = [unnotified EXCEPT ![c] = @ + k]
  BY RunLoopFacts, SMTT(60)
<1>4. k > 0 => peer[c] # "closed"
  BY <1>3 DEF LoopSends
<1>5. \A d \in Conns : /\ Acks(d) \in Nat /\ Acks(d)' \in Nat /\ Acks(d)' <= Acks(d)
                       /\ Notifs(d) \in Nat /\ Notifs(d)' \in Nat /\ Notifs(d)' <= Notifs(d)
  BY <1>2, SendsHandled
<1>6. \A d \in Conns : /\ unacked[d] \in Nat /\ unnotified[d] \in Nat
                       /\ unacked[d] <= unnotified[d]
                       /\ d # c => unacked'[d] = unacked[d] /\ unnotified'[d] = unnotified[d]
                       /\ d = c => unacked'[d] = unacked[d] + k /\ unnotified'[d] = unnotified[d] + k
  BY <1>1, <1>3 DEF TypeOK, Sending
<1>7. Covered'
  <2> SUFFICES ASSUME NEW t \in Slots, NEW d \in Conns, pool'[t].conn = d
               PROVE  /\ pool'[t].sends >= unacked'[d] + Acks(d)'
                      /\ pool'[t].bufs >= unnotified'[d] + Notifs(d)'
    BY DEF Covered
  <2>1. CASE t = s
    <3>1. d = c /\ pool'[t].sends = m + k /\ pool'[t].bufs = b + k
      BY <1>3, <2>1
    <3>2. unacked'[c] = unacked[c] + k /\ unnotified'[c] = unnotified[c] + k
          /\ unacked[c] \in Nat /\ unnotified[c] \in Nat
      BY <1>6
    <3>3. Acks(c)' \in Nat /\ Notifs(c)' \in Nat
      BY <1>5
    <3> QED
      BY <1>3, <3>1, <3>2, <3>3, SMTT(60)
  <2>2. CASE t # s
    <3>1. pool'[t] = pool[t] /\ d # c
      BY <1>2, <1>3, <2>2, StreamSlot
    <3>2. /\ pool[t].sends >= unacked[d] + Acks(d) /\ pool[t].sends \in Nat
          /\ pool[t].bufs >= unnotified[d] + Notifs(d) /\ pool[t].bufs \in Nat
      BY <1>1, <3>1 DEF Covered, TypeOK
    <3>3. /\ unacked'[d] = unacked[d] /\ unnotified'[d] = unnotified[d]
          /\ unacked[d] \in Nat /\ unnotified[d] \in Nat
      BY <1>6, <3>1
    <3>4. /\ Acks(d) \in Nat /\ Acks(d)' \in Nat /\ Acks(d)' <= Acks(d)
          /\ Notifs(d) \in Nat /\ Notifs(d)' \in Nat /\ Notifs(d)' <= Notifs(d)
      BY <1>5
    <3> QED
      BY <3>1, <3>2, <3>3, <3>4
  <2> QED
    BY <2>1, <2>2
<1>8. Sending'
  <2> SUFFICES ASSUME NEW d \in Conns
               PROVE  /\ unacked'[d] <= unnotified'[d]
                      /\ unnotified'[d] > 0 \/ Acks(d)' > 0 \/ Notifs(d)' > 0 =>
                            at[d] # 0 /\ pool'[at[d]].conn = d /\ peer[d] # "closed"
    BY DEF Sending
  <2>1. unacked'[d] <= unnotified'[d]
    <3>1. unacked[d] \in Nat /\ unnotified[d] \in Nat /\ unacked[d] <= unnotified[d]
      BY <1>6
    <3>2. CASE d # c
      <4>1. unacked'[d] = unacked[d] /\ unnotified'[d] = unnotified[d]
        BY <1>6, <3>2
      <4> QED
        BY <3>1, <4>1
    <3>3. CASE d = c
      <4>1. unacked'[d] = unacked[d] + k /\ unnotified'[d] = unnotified[d] + k
        BY <1>6, <3>3
      <4>2. k \in Nat
        BY <1>3
      <4> QED
        BY <3>1, <4>1, <4>2
    <3> QED
      BY <3>2, <3>3
  <2>2. ASSUME unnotified'[d] > 0 \/ Acks(d)' > 0 \/ Notifs(d)' > 0
        PROVE  at[d] # 0 /\ pool'[at[d]].conn = d /\ peer[d] # "closed"
    <3>1. CASE d = c
      <4>1. at[c] # 0 /\ pool'[at[c]].conn = c
        BY <1>2, <1>3
      <4>2. k > 0 \/ unnotified[c] > 0 \/ Acks(c) > 0 \/ Notifs(c) > 0
        <5>1. /\ unnotified'[c] = unnotified[c] + k /\ unnotified[c] \in Nat
              /\ Acks(c)' <= Acks(c) /\ Acks(c) \in Nat /\ Acks(c)' \in Nat
              /\ Notifs(c)' <= Notifs(c) /\ Notifs(c) \in Nat /\ Notifs(c)' \in Nat
          BY <1>5, <1>6
        <5>2. unnotified'[c] > 0 \/ Acks(c)' > 0 \/ Notifs(c)' > 0
          BY <2>2, <3>1
        <5> QED
          BY <1>3, <5>1, <5>2, SMTT(60)
      <4> QED
        BY <1>1, <1>4, <3>1, <4>1, <4>2 DEF Sending
    <3>2. CASE d # c
      <4>1. unnotified[d] > 0 \/ Acks(d) > 0 \/ Notifs(d) > 0
        BY <1>5, <1>6, <2>2, <3>2
      <4>2. at[d] # 0 /\ pool[at[d]].conn = d /\ peer[d] # "closed"
        BY <1>1, <4>1 DEF Sending
      <4>3. at[d] \in Slots /\ at[d] # s
        BY <1>1, <3>2, <4>2, SlotFacts DEF TypeOK
      <4> QED
        BY <1>3, <4>2, <4>3
    <3> QED
      BY <3>1, <3>2
  <2> QED
    BY <2>1, <2>2
<1>9. Finals'
  BY <1>2, FinalsKept
<1> QED
  BY <1>7, <1>8, <1>9 DEF SendInv

(* A send completion finds the stream it is for. *)
LEMMA SendFindsStream ==
    ASSUME ListenerInv, SendInv, pc = "bundle", Head(bundle).kind = "send"
    PROVE  /\ Head(bundle).conn \in Conns
           /\ pool[Head(bundle).slot].conn = Head(bundle).conn
           /\ pool[Head(bundle).slot] # NoStream
<1>1. /\ Head(bundle).conn \in Conns /\ Head(bundle).slot = at[Head(bundle).conn]
      /\ Head(bundle) \in Cqes /\ 1 \in 1 .. Len(Events) /\ Events[1] = Head(bundle)
  BY HeadEvent
<1>2. PICK c \in Conns : c = Head(bundle).conn
  BY <1>1
<1>3. Acks(c) > 0 \/ Notifs(c) > 0
  BY <1>1, <1>2, SendsPositive DEF ListenerInv
<1>4. pool[at[c]].conn = c
  BY <1>3 DEF SendInv, Sending
<1> QED
  BY <1>1, <1>2, <1>4, ListenerAssumption DEF NoStream

(* sent_zc takes off the counters what has left the queue. *)
LEMMA SentZcSends ==
    ASSUME ListenerInv, ListenerInv', SendInv, Calm, HandleSentZc
    PROVE  SendInv'
<1> DEFINE s == Head(bundle).slot
           more == Head(bundle).more
           e == Head(bundle)
<1>1. TypeOK /\ Covered
  BY DEF ListenerInv, SendInv
<1>2. PICK n \in Charges(s, e) :
      /\ pc = "bundle" /\ Head(bundle).kind = "send" /\ pool[s] # NoStream
      /\ pool[s].sends - n >= 0 /\ BufsAfter(s, more) >= 0
      /\ n <= pool[s].sends
      /\ RunLoop(s, pool[s].sends - n, BufsAfter(s, more))
      /\ UNCHANGED <<peer, at, cq, orphans>>
  <2>1. PICK n \in Charges(s, e) :
           n <= pool[s].sends /\ RunLoop(s, pool[s].sends - n, BufsAfter(s, more))
    BY DEF HandleSentZc
  <2>2. /\ pc = "bundle" /\ Head(bundle).kind = "send" /\ pool[s] # NoStream
        /\ BufsAfter(s, more) >= 0 /\ UNCHANGED <<peer, at, cq, orphans>>
    BY DEF HandleSentZc, First
  <2>3. s \in Slots
    BY <2>2, HeadEvent
  <2>4. pool[s].sends \in Nat
    BY <1>1, <2>3 DEF TypeOK
  <2>5. n \in Nat
    BY <2>1, <2>4 DEF Charges
  <2> QED
    BY <2>1, <2>2, <2>4, <2>5
<1>3. PICK c \in Conns :
         c = Head(bundle).conn /\ s \in Slots /\ pool[s].conn = c /\ more \in {TRUE, FALSE}
  BY <1>2, SendFindsStream, HeadEvent DEF Cqes
<1>4. pool[s].sends \in Nat /\ pool[s].bufs \in Nat
  BY <1>1, <1>3 DEF TypeOK
<1>5. n = (IF more THEN 1 ELSE 0) /\ pool[s].sends - n \in Nat /\ BufsAfter(s, more) \in Nat
  BY <1>2, <1>3, <1>4 DEF Charges, BufsAfter
<1>6. Pop \/ ReturnErr
  BY <1>2, <1>5, RunLoopFacts
<1>7. /\ Acks(c) \in Nat /\ Acks(c)' \in Nat /\ Acks(c)' <= Acks(c)
      /\ Notifs(c) \in Nat /\ Notifs(c)' \in Nat /\ Notifs(c)' <= Notifs(c)
      /\ more = TRUE => Acks(c)' + 1 <= Acks(c)
      /\ more = FALSE => Notifs(c)' + 1 <= Notifs(c)
  BY <1>2, <1>3, <1>6, SendsHandled
<1>8. /\ pool[s].sends >= unacked[c] + Acks(c) /\ pool[s].bufs >= unnotified[c] + Notifs(c)
      /\ unacked[c] \in Nat /\ unnotified[c] \in Nat
  BY <1>1, <1>3 DEF Covered, TypeOK
<1>9. /\ pool[s].sends - n >= unacked[c] + Acks(c)'
      /\ BufsAfter(s, more) >= unnotified[c] + Notifs(c)'
  BY <1>3, <1>4, <1>5, <1>7, <1>8 DEF BufsAfter
<1> QED
  BY <1>2, <1>3, <1>5, <1>9, RunLoopSends DEF Calm

(* recv_multi's completion with more to come: the loop adds its sends. *)
LEMMA RecvSends ==
    ASSUME ListenerInv, ListenerInv', SendInv, Calm, HandleRecv
    PROVE  SendInv'
<1> DEFINE s == Head(bundle).slot
<1>1. TypeOK /\ Covered /\ Kept
  BY DEF ListenerInv, SendInv
<1>2. /\ pc = "bundle" /\ Head(bundle).kind = "recv" /\ pool[s] # NoStream
      /\ RunLoop(s, pool[s].sends, pool[s].bufs)
      /\ UNCHANGED <<peer, at, cq, orphans>>
  BY DEF HandleRecv, First
<1>3. s \in Slots
  BY <1>2, HeadEvent
<1>4. PICK c \in Conns : c = pool[s].conn
  BY <1>1, <1>2, <1>3 DEF Kept
<1>5. PICK m \in Nat, b \in Nat : m = pool[s].sends /\ b = pool[s].bufs
  BY <1>1, <1>3 DEF TypeOK
<1>6. RunLoop(s, m, b)
  BY <1>2, <1>5
<1>7. Pop \/ ReturnErr
  BY <1>2, <1>6, RunLoopFacts
<1>8. /\ Acks(c) \in Nat /\ Acks(c)' \in Nat /\ Acks(c)' <= Acks(c)
      /\ Notifs(c) \in Nat /\ Notifs(c)' \in Nat /\ Notifs(c)' <= Notifs(c)
  BY <1>2, <1>7, SendsHandled
<1>9. /\ m >= unacked[c] + Acks(c) /\ b >= unnotified[c] + Notifs(c)
      /\ unacked[c] \in Nat /\ unnotified[c] \in Nat
  BY <1>1, <1>3, <1>4, <1>5 DEF Covered, TypeOK
<1>10. m >= unacked[c] + Acks(c)' /\ b >= unnotified[c] + Notifs(c)'
  BY <1>8, <1>9
<1> QED
  BY <1>2, <1>4, <1>6, <1>10, RunLoopSends DEF Calm

(* A stream is let go when its peer has closed, and by then its sends are done. *)
LEMMA ShutdownSends ==
    ASSUME ListenerInv, ListenerInv', SendInv, HandleShutdown
    PROVE  SendInv'
<1> DEFINE s == Head(bundle).slot
<1>1. TypeOK /\ Covered /\ Sending /\ Finals /\ Receives /\ orphans = {}
  BY DEF ListenerInv, SendInv
<1>2. /\ pc = "bundle" /\ Head(bundle).kind = "recv" /\ ~Head(bundle).more
      /\ pool[s] # NoStream
      /\ pool' = [pool EXCEPT ![s] = NoStream]
      /\ Pop
      /\ UNCHANGED <<peer, at, unacked, unnotified, cq, orphans>>
  BY DEF HandleShutdown, First, Release, Remove
<1>3. /\ s \in Slots /\ Head(bundle).conn \in Conns /\ s = at[Head(bundle).conn]
      /\ Events[1] = Head(bundle) /\ 1 \in 1 .. Len(Events)
  BY <1>2, HeadEvent
<1>4. PICK c \in Conns : c = Head(bundle).conn
  BY <1>3
<1>5. pool[s].conn = c /\ peer[c] = "closed" /\ at[c] = s
  BY <1>1, <1>2, <1>3, <1>4 DEF Receives, Streaming, Finals
<1>6. \A d \in Conns : /\ Acks(d) \in Nat /\ Acks(d)' \in Nat /\ Acks(d)' <= Acks(d)
                       /\ Notifs(d) \in Nat /\ Notifs(d)' \in Nat /\ Notifs(d)' <= Notifs(d)
                       /\ unacked[d] \in Nat /\ unnotified[d] \in Nat
  BY <1>1, <1>2, SendsHandled DEF TypeOK
<1>7. \A t \in Slots : (t # s => pool'[t] = pool[t]) /\ (t = s => pool'[t].conn = NoConn)
  BY <1>1, <1>2, <1>3 DEF TypeOK, NoStream
<1> HIDE DEF s
<1>8. Covered'
  <2> SUFFICES ASSUME NEW t \in Slots, NEW d \in Conns, pool'[t].conn = d
               PROVE  /\ pool'[t].sends >= unacked[d] + Acks(d)'
                      /\ pool'[t].bufs >= unnotified[d] + Notifs(d)'
    BY <1>2 DEF Covered
  <2>1. pool'[t] = pool[t]
    BY <1>7, ListenerAssumption
  <2>2. /\ pool[t].sends >= unacked[d] + Acks(d) /\ pool[t].sends \in Nat
        /\ pool[t].bufs >= unnotified[d] + Notifs(d) /\ pool[t].bufs \in Nat
    BY <1>1, <2>1 DEF Covered, TypeOK
  <2>3. /\ Acks(d) \in Nat /\ Acks(d)' \in Nat /\ Acks(d)' <= Acks(d)
        /\ Notifs(d) \in Nat /\ Notifs(d)' \in Nat /\ Notifs(d)' <= Notifs(d)
        /\ unacked[d] \in Nat /\ unnotified[d] \in Nat
    BY <1>6
  <2> QED
    BY <2>1, <2>2, <2>3
<1>9. Sending'
  <2> SUFFICES ASSUME NEW d \in Conns
               PROVE  /\ unacked[d] <= unnotified[d]
                      /\ unnotified[d] > 0 \/ Acks(d)' > 0 \/ Notifs(d)' > 0 =>
                            at[d] # 0 /\ pool'[at[d]].conn = d /\ peer[d] # "closed"
    BY <1>2 DEF Sending
  <2>1. unacked[d] <= unnotified[d]
    BY <1>1 DEF Sending
  <2>2. ASSUME unnotified[d] > 0 \/ Acks(d)' > 0 \/ Notifs(d)' > 0
        PROVE  at[d] # 0 /\ pool'[at[d]].conn = d /\ peer[d] # "closed"
    <3>1. unnotified[d] > 0 \/ Acks(d) > 0 \/ Notifs(d) > 0
      BY <1>6, <2>2
    <3>2. at[d] # 0 /\ pool[at[d]].conn = d /\ peer[d] # "closed"
      BY <1>1, <3>1 DEF Sending
    <3>3. at[d] \in Slots /\ at[d] # s
      BY <1>1, <1>5, <3>2, SlotFacts DEF TypeOK
    <3> QED
      BY <1>7, <3>2, <3>3
  <2> QED
    BY <2>1, <2>2
<1>10. Finals'
  BY <1>2, FinalsKept
<1> QED
  BY <1>1, <1>2, <1>8, <1>9, <1>10 DEF SendInv

(* A new stream starts with the sends it has just made, and with no other: the
   connection has sent nothing before. *)
LEMMA AcceptedSends ==
    ASSUME ListenerInv, ListenerInv', SendInv, Calm, HandleAccepted
    PROVE  SendInv'
<1> DEFINE s == Head(bundle).slot
<1>1. TypeOK /\ Covered /\ Sending /\ Awaited /\ orphans = {}
  BY DEF ListenerInv, SendInv
<1>2. /\ pc = "bundle" /\ Head(bundle).kind = "accept" /\ Pop
      /\ UNCHANGED <<peer, at, cq, orphans>>
  BY DEF HandleAccepted, First
<1>3. /\ s \in Slots /\ Head(bundle).conn \in Conns /\ s = at[Head(bundle).conn]
      /\ Events[1] = Head(bundle) /\ 1 \in 1 .. Len(Events)
  BY <1>2, HeadEvent
<1>4. PICK c \in Conns : c = table[s] /\ at[c] = s /\ pool[s] = NoStream
  BY <1>1, <1>2, <1>3 DEF Awaited
<1>5. PICK k \in 0 .. MaxChunks :
         /\ k > 0 => peer[c] # "closed"
         /\ pool' = [pool EXCEPT ![s] = [conn |-> c, sends |-> k, bufs |-> k]]
         /\ unacked' = [unacked EXCEPT ![c] = @ + k]
         /\ unnotified' = [unnotified EXCEPT ![c] = @ + k]
  BY <1>4 DEF HandleAccepted, AddSends, Calm
<1>6. k \in Nat
  BY <1>5, ListenerAssumption
<1>7. \A d \in Conns : /\ Acks(d) \in Nat /\ Acks(d)' \in Nat /\ Acks(d)' <= Acks(d)
                       /\ Notifs(d) \in Nat /\ Notifs(d)' \in Nat /\ Notifs(d)' <= Notifs(d)
                       /\ unacked[d] \in Nat /\ unnotified[d] \in Nat
                       /\ unacked[d] <= unnotified[d]
  BY <1>1, <1>2, SendsHandled DEF TypeOK, Sending
<1>8. \A d \in Conns : /\ d # c => unacked'[d] = unacked[d] /\ unnotified'[d] = unnotified[d]
                       /\ d = c => unacked'[d] = unacked[d] + k /\ unnotified'[d] = unnotified[d] + k
  BY <1>1, <1>5, <1>6 DEF TypeOK
<1>9. unacked[c] = 0 /\ unnotified[c] = 0 /\ Acks(c)' = 0 /\ Notifs(c)' = 0
  <2>1. ~(unnotified[c] > 0 \/ Acks(c) > 0 \/ Notifs(c) > 0)
    BY <1>1, <1>4, ListenerAssumption DEF Sending, NoStream
  <2> QED
    BY <1>7, <2>1
<1>10. /\ \A t \in Slots : t # s => pool'[t] = pool[t]
       /\ pool'[s] = [conn |-> c, sends |-> k, bufs |-> k]
  BY <1>1, <1>3, <1>5 DEF TypeOK
<1> HIDE DEF s
<1>11. Covered'
  <2> SUFFICES ASSUME NEW t \in Slots, NEW d \in Conns, pool'[t].conn = d
               PROVE  /\ pool'[t].sends >= unacked'[d] + Acks(d)'
                      /\ pool'[t].bufs >= unnotified'[d] + Notifs(d)'
    BY DEF Covered
  <2>1. CASE t = s
    BY <1>6, <1>8, <1>9, <1>10, <2>1
  <2>2. CASE t # s
    <3>1. pool'[t] = pool[t] /\ at[d] = t /\ d # c
      BY <1>4, <1>10, <2>2, StreamSlot
    <3>2. /\ pool[t].sends >= unacked[d] + Acks(d) /\ pool[t].sends \in Nat
          /\ pool[t].bufs >= unnotified[d] + Notifs(d) /\ pool[t].bufs \in Nat
      BY <1>1, <3>1 DEF Covered, TypeOK
    <3>3. /\ Acks(d) \in Nat /\ Acks(d)' \in Nat /\ Acks(d)' <= Acks(d)
          /\ Notifs(d) \in Nat /\ Notifs(d)' \in Nat /\ Notifs(d)' <= Notifs(d)
          /\ unacked[d] \in Nat /\ unnotified[d] \in Nat
          /\ unacked'[d] = unacked[d] /\ unnotified'[d] = unnotified[d]
      BY <1>7, <1>8, <3>1
    <3> QED
      BY <3>1, <3>2, <3>3
  <2> QED
    BY <2>1, <2>2
<1>12. Sending'
  <2> SUFFICES ASSUME NEW d \in Conns
               PROVE  /\ unacked'[d] <= unnotified'[d]
                      /\ unnotified'[d] > 0 \/ Acks(d)' > 0 \/ Notifs(d)' > 0 =>
                            at[d] # 0 /\ pool'[at[d]].conn = d /\ peer[d] # "closed"
    BY <1>2 DEF Sending
  <2>1. unacked'[d] <= unnotified'[d]
    BY <1>6, <1>7, <1>8
  <2>2. CASE d = c
    BY <1>3, <1>4, <1>5, <1>6, <1>8, <1>9, <1>10, <2>1, <2>2, SlotFacts, SMTT(60)
  <2>3. CASE d # c
    <3>1. ASSUME unnotified'[d] > 0 \/ Acks(d)' > 0 \/ Notifs(d)' > 0
          PROVE  at[d] # 0 /\ pool'[at[d]].conn = d /\ peer[d] # "closed"
      <4>1. unnotified[d] > 0 \/ Acks(d) > 0 \/ Notifs(d) > 0
        BY <1>7, <1>8, <2>3, <3>1
      <4>2. at[d] # 0 /\ pool[at[d]].conn = d /\ peer[d] # "closed"
        BY <1>1, <4>1 DEF Sending
      <4>3. pool[s].conn = NoConn
        BY <1>4 DEF NoStream
      <4>4. at[d] # s
        BY <4>2, <4>3, ListenerAssumption
      <4>5. at[d] \in Slots
        BY <1>1, <4>2, SlotFacts DEF TypeOK
      <4> QED
        BY <1>10, <4>2, <4>4, <4>5
    <3> QED
      BY <2>1, <3>1
  <2> QED
    BY <2>2, <2>3
<1>13. Finals'
  BY <1>2, FinalsKept
<1> QED
  BY <1>1, <1>2, <1>11, <1>12, <1>13 DEF SendInv

(* Every step of check keeps the invariant. *)
LEMMA CheckSends ==
    ASSUME ListenerInv, ListenerInv', SendInv, Calm, Check
    PROVE  SendInv'
<1>1. TypeOK /\ Sending /\ Finals
  BY DEF ListenerInv, SendInv
<1>2. ~NoRoom
  BY <1>1, ListenerAssumption DEF Calm, NoRoom, TypeOK
<1>3. CASE HandleAcceptError \/ HandleAcceptedFails \/ HandleSendFailed
  <2>1. /\ pc = "bundle" /\ (Pop \/ ReturnErr)
        /\ UNCHANGED <<peer, at, unacked, unnotified, cq, pool, orphans>>
    BY <1>2, <1>3 DEF HandleAcceptError, HandleAcceptedFails, HandleSendFailed, First, kernel
  <2>2. \A c \in Conns : /\ Acks(c)' \in Nat /\ Acks(c)' <= Acks(c)
                         /\ Notifs(c)' \in Nat /\ Notifs(c)' <= Notifs(c)
    BY <2>1, SendsHandled
  <2>3. Finals'
    BY <2>1, FinalsKept
  <2> QED
    BY <1>1, <2>1, <2>2, <2>3, SendsUntouched, UntouchedSends
<1>4. CASE CheckCollect \/ CheckCollectPanics \/ HandleSentZcNoSlot
           \/ HandleSentZcUnderflow \/ HandleRecvNoSlot
  <2>1. /\ Events' = Events
        /\ UNCHANGED <<peer, at, unacked, unnotified, pool, orphans>>
    <3>1. CASE CheckCollect
      BY <3>1, EventsTaken DEF CheckCollect
    <3>2. CASE CheckCollectPanics \/ HandleSentZcNoSlot \/ HandleSentZcUnderflow
               \/ HandleRecvNoSlot
      BY <3>2 DEF CheckCollectPanics, HandleSentZcNoSlot, HandleSentZcUnderflow,
         HandleRecvNoSlot, Panic, kernel, Events
    <3> QED
      BY <1>4, <3>1, <3>2
  <2>2. \A c \in Conns : /\ Acks(c)' = Acks(c) /\ Notifs(c)' = Notifs(c)
                         /\ Acks(c) \in Nat /\ Notifs(c) \in Nat
    BY <1>1, <2>1, SendsNat DEF Acks, Notifs, ToHandle, SendEntries, Cqes
  <2>3. \A c \in Conns : /\ Acks(c)' \in Nat /\ Acks(c)' <= Acks(c)
                         /\ Notifs(c)' \in Nat /\ Notifs(c)' <= Notifs(c)
    BY <2>2
  <2>4. Finals'
    BY <1>1, <2>1 DEF Finals
  <2> QED
    BY <1>1, <2>1, <2>3, <2>4, SendsUntouched, UntouchedSends
<1> QED
  BY <1>2, <1>3, <1>4, SentZcSends, RecvSends, ShutdownSends, AcceptedSends
     DEF Check, HandleAcceptedNoAccept, HandleAcceptedNoSend

(* So does every completion that the kernel posts. *)
LEMMA KernelSends ==
    ASSUME ListenerInv, ListenerInv', SendInv, NEW c \in Conns, KernelRecv(c) \/ Kernel(c)
    PROVE  SendInv'
<1>1. TypeOK /\ Addressed /\ Sending
  BY DEF ListenerInv, SendInv
<1>2. \A kind \in {"refused", "recv", "reset", "send", "failed"}, more \in BOOLEAN :
         /\ Cqe(kind, c, more) \in Cqes
         /\ Cqe(kind, c, more).kind = kind /\ Cqe(kind, c, more).conn = c
         /\ Cqe(kind, c, more).more = more
  BY <1>1 DEF Cqe, Cqes, TypeOK
<1>3. peer[c] = "queued" => at[c] = 0
  BY <1>1 DEF Addressed
<1>4. CASE \E s \in Slots : KernelAccept(c, s)
  <2>1. PICK s \in Slots : KernelAccept(c, s)
    BY <1>4
  <2> DEFINE e == [kind |-> "accept", slot |-> s, conn |-> c, more |-> FALSE]
  <2>2. e \in Cqes /\ e.kind = "accept"
    BY SlotFacts DEF Cqes
  <2>3. /\ cq' = Append(cq, e) /\ UNCHANGED <<listener, unacked, unnotified>>
        /\ \A d \in Conns : at[d] # 0 => at'[d] = at[d] /\ peer'[d] = peer[d]
    BY <1>1, <1>3, <2>1 DEF KernelAccept, TypeOK
  <2> HIDE DEF e
  <2> QED
    BY <1>1, <2>2, <2>3, OtherPosted, UntouchedSends
<1>5. CASE KernelAcceptFull(c)
  <2>1. /\ cq' = Append(cq, Cqe("refused", c, FALSE)) /\ UNCHANGED <<listener, unacked, unnotified>>
        /\ \A d \in Conns : at[d] # 0 => at'[d] = at[d] /\ peer'[d] = peer[d]
    BY <1>1, <1>3, <1>5 DEF KernelAcceptFull, TypeOK
  <2> QED
    BY <1>1, <1>2, <2>1, OtherPosted, UntouchedSends
<1>6. CASE KernelRecv(c)
  <2>1. /\ cq' = Append(cq, Cqe("recv", c, TRUE))
        /\ UNCHANGED <<peer, at, listener, unacked, unnotified>>
    BY <1>6 DEF KernelRecv
  <2>2. /\ Cqe("recv", c, TRUE) \in Cqes /\ Cqe("recv", c, TRUE).kind = "recv"
        /\ Cqe("recv", c, TRUE).more
    BY <1>2
  <2> QED
    BY <1>1, <2>1, <2>2, OtherPosted, UntouchedSends
<1>7. CASE KernelEof(c)
  <2>1. /\ cq' = Append(cq, Cqe("recv", c, FALSE)) /\ peer[c] = "closed"
        /\ UNCHANGED <<peer, at, listener, unacked, unnotified>>
    BY <1>7 DEF KernelEof
  <2>2. /\ Cqe("recv", c, FALSE) \in Cqes /\ Cqe("recv", c, FALSE).kind = "recv"
        /\ Cqe("recv", c, FALSE).conn = c
    BY <1>2
  <2> QED
    BY <1>1, <2>1, <2>2, OtherPosted, UntouchedSends
<1>8. CASE KernelReset(c)
  <2>1. /\ cq' = Append(cq, Cqe("reset", c, FALSE))
        /\ UNCHANGED <<peer, at, listener, unacked, unnotified>>
    BY <1>8 DEF KernelReset
  <2>2. Cqe("reset", c, FALSE) \in Cqes /\ Cqe("reset", c, FALSE).kind = "reset"
    BY <1>2
  <2> QED
    BY <1>1, <2>1, <2>2, OtherPosted, UntouchedSends
<1>9. CASE KernelAck(c)
  BY <1>9, SendPosted DEF KernelAck
<1>10. CASE KernelNotif(c)
  BY <1>10, SendPosted DEF KernelNotif
<1>11. CASE KernelSendFails(c)
  <2>1. PICK more \in BOOLEAN :
           /\ cq' = Append(cq, Cqe("failed", c, more))
           /\ unnotified' = IF more THEN unnotified ELSE [unnotified EXCEPT ![c] = @ - 1]
    BY <1>11 DEF KernelSendFails
  <2>2. /\ unacked[c] > 0 /\ unacked' = [unacked EXCEPT ![c] = @ - 1]
        /\ UNCHANGED <<peer, at, listener>>
    BY <1>11 DEF KernelSendFails
  <2>3. \A d \in Conns : /\ unacked[d] \in Nat /\ unnotified[d] \in Nat
                         /\ unacked[d] <= unnotified[d]
    BY <1>1 DEF TypeOK, Sending
  <2>4. /\ \A d \in Conns : d # c => unacked'[d] = unacked[d] /\ unnotified'[d] = unnotified[d]
        /\ unacked'[c] = unacked[c] - 1
        /\ unnotified'[c] \in {unnotified[c], unnotified[c] - 1}
    BY <1>1, <2>1, <2>2 DEF TypeOK
  <2>5. NoNewSends
    BY <2>2, <2>3, <2>4 DEF NoNewSends
  <2>6. Cqe("failed", c, more) \in Cqes /\ Cqe("failed", c, more).kind = "failed"
    BY <1>2
  <2> QED
    BY <2>1, <2>2, <2>5, <2>6, OtherPosted
<1> QED
  BY <1>11, <1>4, <1>5, <1>6, <1>7, <1>8, <1>9, <1>10 DEF Kernel

(* A peer that closes is idle: nothing of it is under way. *)
LEMMA PeerSends ==
    ASSUME ListenerInv, ListenerInv', SendInv, Calm,
           NEW c \in Conns, Connect(c) \/ PeerClose(c)
    PROVE  SendInv'
<1>1. TypeOK /\ Addressed /\ Sending /\ Finals
  BY DEF ListenerInv, SendInv
<1>2. /\ Events' = Events
      /\ UNCHANGED <<at, unacked, unnotified, pool, orphans, cq, bundle>>
  BY DEF Connect, PeerClose, listener, Events
<1>3. \A d \in Conns : /\ Acks(d)' = Acks(d) /\ Notifs(d)' = Notifs(d)
                       /\ Acks(d) \in Nat /\ Notifs(d) \in Nat
  BY <1>1, <1>2, SendsNat DEF Acks, Notifs, ToHandle, SendEntries, Cqes
<1>4. \A d \in Conns : /\ Acks(d)' \in Nat /\ Acks(d)' <= Acks(d)
                       /\ Notifs(d)' \in Nat /\ Notifs(d)' <= Notifs(d)
  BY <1>3
<1>5. /\ \A d \in Conns : d # c => peer'[d] = peer[d]
      /\ peer'[c] \in {"queued", "closed"} /\ peer[c] # "closed"
      /\ peer'[c] = "closed" => PeerClose(c)
  BY <1>1 DEF Connect, PeerClose, TypeOK
<1>6. Finals'
  <2>1. \A i \in 1 .. Len(Events) : Events[i] \in Cqes
    BY <1>1, EventsQueue
  <2>2. \A i \in 1 .. Len(Events) : Events[i].kind = "recv" /\ ~Events[i].more =>
           peer[Events[i].conn] = "closed" /\ Events[i].conn \in Conns
    BY <1>1, <2>1 DEF Finals, Cqes
  <2> QED
    BY <1>2, <1>5, <2>2 DEF Finals
<1>7. PeerClose(c) => ~(unnotified[c] > 0 \/ Acks(c) > 0 \/ Notifs(c) > 0)
  <2> SUFFICES ASSUME PeerClose(c)
               PROVE  unnotified[c] = 0 /\ ~(Acks(c) > 0 \/ Notifs(c) > 0)
    OBVIOUS
  <2>1. unnotified[c] = 0 /\ ~Pending({"recv", "send"}, c)
    BY DEF PeerClose, Idle, Calm
  <2>2. bundle \in Seq(Cqes) /\ cq \in Seq(Cqes)
    BY <1>1 DEF TypeOK
  <2>3. /\ \A i \in 1 .. Len(cq) : ~(cq[i].kind = "send" /\ cq[i].conn = c)
        /\ \A i \in 1 .. Len(bundle) : ~(bundle[i].kind = "send" /\ bundle[i].conn = c)
    BY <2>1, <2>2 DEF Pending
  <2>4. ASSUME NEW i \in 1 .. Len(Events)
        PROVE  ~(Events[i].kind = "send" /\ Events[i].conn = c)
    <3>1. /\ Len(Events) = Len(bundle) + Len(cq) /\ Len(bundle) \in Nat /\ Len(cq) \in Nat
          /\ \A j \in 1 .. Len(bundle) : Events[j] = bundle[j]
          /\ \A j \in 1 .. Len(cq) : Events[Len(bundle) + j] = cq[j]
      BY <1>1, EventsQueue
    <3>2. CASE i <= Len(bundle)
      BY <2>3, <3>1, <3>2
    <3>3. CASE i > Len(bundle)
      <4>1. i - Len(bundle) \in 1 .. Len(cq) /\ i = Len(bundle) + (i - Len(bundle))
        BY <3>1, <3>3
      <4> QED
        BY <2>3, <3>1, <4>1
    <3> QED
      BY <3>1, <3>2, <3>3
  <2> QED
    BY <1>1, <2>1, <2>4, SendsPositive
<1>8. \A d \in Conns : /\ unnotified[d] > 0 \/ Acks(d) > 0 \/ Notifs(d) > 0
                       /\ peer[d] # "closed"
                       => peer'[d] # "closed"
  BY <1>5, <1>7
<1> QED
  BY <1>1, <1>2, <1>4, <1>6, <1>8, SendsUntouched, UntouchedSends

(* The invariant of the sends holds in every reachable state. *)
LEMMA SendInvHolds == ASSUME Calm PROVE Spec => []SendInv
<1>1. Init => SendInv
  <2> SUFFICES ASSUME Init PROVE SendInv
    OBVIOUS
  <2>1. Events = <<>> /\ Len(Events) = 0
    <3>1. <<>> \o <<>> = <<>>
      BY EmptySeq, ConcatEmptySeq
    <3> QED
      BY <3>1 DEF Init, Events
  <2>2. \A c \in Conns : Acks(c) = 0 /\ Notifs(c) = 0
    BY <2>1, CountEmpty DEF Acks, Notifs, ToHandle
  <2>3. Covered
    BY <2>2, ListenerAssumption DEF Init, Covered, NoStream
  <2> QED
    BY <2>1, <2>2, <2>3 DEF Init, SendInv, Sending, Finals
<1>2. ListenerInv /\ ListenerInv' /\ SendInv /\ [Next]_vars => SendInv'
  <2> SUFFICES ASSUME ListenerInv, ListenerInv', SendInv, [Next]_vars PROVE SendInv'
    OBVIOUS
  <2>1. CASE \E c \in Conns : Connect(c) \/ PeerClose(c)
    BY <2>1, PeerSends
  <2>2. CASE \E c \in Conns : KernelRecv(c) \/ Kernel(c)
    BY <2>2, KernelSends
  <2>3. CASE Check
    BY <2>3, CheckSends
  <2>4. CASE SetHugeTlb \/ UNCHANGED vars
    <3>1. Events' = Events /\ UNCHANGED <<peer, at, unacked, unnotified, pool, orphans>>
      BY <2>4 DEF SetHugeTlb, kernel, vars, listener, Events
    <3>2. \A c : Acks(c)' = Acks(c) /\ Notifs(c)' = Notifs(c)
      BY <3>1 DEF Acks, Notifs, ToHandle, SendEntries, Cqes
    <3> QED
      BY <3>1, <3>2 DEF SendInv, Covered, Sending, Finals
  <2> QED
    BY <2>1, <2>2, <2>3, <2>4 DEF Next
<1> QED
  BY <1>1, <1>2, InvHolds, PTL DEF Spec


(* What the model's properties count is what the invariant counts. *)
LEMMA CountForToHandle ==
    ASSUME TypeOK, NEW c, NEW more
    PROVE  /\ CountFor(cq, c, more) \in Nat /\ CountFor(bundle, c, more) \in Nat
           /\ CountFor(cq, c, more) + CountFor(bundle, c, more) = ToHandle(c, more)
<1> DEFINE K == SendEntries(c, more)
<1>1. bundle \in Seq(Cqes) /\ cq \in Seq(Cqes)
  BY DEF TypeOK
<1>2. ASSUME NEW q \in Seq(Cqes) PROVE CountFor(q, c, more) = Count(q, K)
  <2>1. \A i \in DOMAIN q : q[i] \in Cqes
    OBVIOUS
  <2>2. {i \in DOMAIN q : q[i].kind = "send" /\ q[i].conn = c /\ q[i].more = more}
           = {i \in DOMAIN q : q[i] \in K}
    BY <2>1 DEF SendEntries
  <2> QED
    BY <2>2 DEF CountFor, Count
<1>3. ToHandle(c, more) = Count(bundle, K) + Count(cq, K)
  BY <1>1, CountConcat DEF ToHandle, Events
<1>4. Count(bundle, K) \in Nat /\ Count(cq, K) \in Nat
  BY <1>1, CountType
<1>5. CountFor(cq, c, more) = Count(cq, K) /\ CountFor(bundle, c, more) = Count(bundle, K)
  BY <1>1, <1>2
<1> HIDE DEF K
<1> QED
  BY <1>3, <1>4, <1>5

(* sent_zc never subtracts from zero: a stream counts every send of its own that the
   kernel or a queue still holds, and no completion of another connection reaches it. *)
THEOREM SentZcNeverUnderflows == ASSUME Calm PROVE Spec => []CountersCoverSends
<1>1. ListenerInv /\ SendInv => CountersCoverSends
  <2> SUFFICES ASSUME ListenerInv, SendInv PROVE CountersCoverSends
    OBVIOUS
  <2>1. TypeOK /\ Covered /\ Kept
    BY DEF ListenerInv, SendInv
  <2> SUFFICES ASSUME NEW s \in Slots, pool[s] # NoStream, NEW c, c = pool[s].conn
               PROVE  /\ pool[s].sends >= unacked[c] + CountFor(cq, c, TRUE)
                                             + CountFor(bundle, c, TRUE)
                      /\ pool[s].bufs >= unnotified[c] + CountFor(cq, c, FALSE)
                                            + CountFor(bundle, c, FALSE)
    BY DEF CountersCoverSends
  <2>2. c \in Conns
    BY <2>1 DEF Kept
  <2>3. /\ pool[s].sends >= unacked[c] + Acks(c) /\ pool[s].sends \in Nat
        /\ pool[s].bufs >= unnotified[c] + Notifs(c) /\ pool[s].bufs \in Nat
        /\ unacked[c] \in Nat /\ unnotified[c] \in Nat
    BY <2>1, <2>2 DEF Covered, TypeOK
  <2> DEFINE at1 == CountFor(cq, c, TRUE)   bt1 == CountFor(bundle, c, TRUE)
             at2 == CountFor(cq, c, FALSE)  bt2 == CountFor(bundle, c, FALSE)
  <2>4. at1 \in Nat /\ bt1 \in Nat /\ Acks(c) = at1 + bt1
    BY <2>1, CountForToHandle DEF Acks
  <2>5. at2 \in Nat /\ bt2 \in Nat /\ Notifs(c) = at2 + bt2
    BY <2>1, CountForToHandle DEF Notifs
  <2>6. SUFFICES /\ pool[s].sends >= unacked[c] + at1 + bt1
                 /\ pool[s].bufs >= unnotified[c] + at2 + bt2
    OBVIOUS
  <2> HIDE DEF at1, bt1, at2, bt2
  <2> QED
    BY <2>3, <2>4, <2>5
<1> QED
  BY <1>1, InvHolds, SendInvHolds, PTL

-----------------------------------------------------------------------------
(* Slots and accepts.                                                      *)

(* Huge pages are set up before the first check, there are two for every slot, and
   there is always room for a submission. *)
Provided == "unset" \notin Faults /\ HugePages >= 2 * (FixedCount - 1) /\ MaxFull = 0

(* The stream of a connection, or the completion that will bring it. *)
Served(c, s) ==
    \/ pool[s].conn = c
    \/ \E i \in 1 .. Len(Events) : Events[i].kind = "accept" /\ Events[i].conn = c

(* A bundle is handled with huge pages set up, and no slot is lost. *)
SlotInv ==
    /\ pc = "bundle" => hugetlb
    /\ \A s \in Slots : table[s] # NoConn => Served(table[s], s)

(* The pages never run out: the slot of an accept to be handled holds none, and
   there are two for each of the others. *)
LEMMA PagesSuffice ==
    ASSUME ListenerInv, PagesConserved, SlotInv, Provided, pc = "bundle",
           Head(bundle).kind = "accept"
    PROVE  HavePages
<1> DEFINE s == Head(bundle).slot
<1>1. s \in Slots /\ pool[s] = NoStream
  BY HeadEvent DEF ListenerInv, Awaited
<1>2. pages + 2 * Cardinality(InUse) = HugePages /\ pages \in Nat /\ HugePages \in Nat
  BY ListenerAssumption DEF PagesConserved, InUse, ListenerInv, TypeOK
<1>3. IsFiniteSet(Slots) /\ Cardinality(InUse) \in Nat
  BY InUseFinite
<1>4. Cardinality(Slots) = FixedCount - 1
  <2>1. Cardinality(1 .. FixedCount - 1) =
           IF 1 > FixedCount - 1 THEN 0 ELSE (FixedCount - 1) - 1 + 1
    BY FS_Interval, ListenerAssumption
  <2> QED
    BY <2>1, ListenerAssumption DEF Slots
<1> HIDE DEF s
<1>5. IsFiniteSet(Slots \ {s}) /\ Cardinality(Slots \ {s}) = Cardinality(Slots) - 1
  BY <1>1, <1>3, FS_RemoveElement
<1>6. InUse \in SUBSET (Slots \ {s})
  BY <1>1 DEF InUse
<1>7. Cardinality(InUse) <= Cardinality(Slots \ {s})
  BY <1>5, <1>6, FS_Subset
<1>8. HugePages >= 2 * (FixedCount - 1) /\ FixedCount \in Nat
  BY ListenerAssumption DEF Provided
<1>9. pages >= 2
  BY <1>2, <1>3, <1>4, <1>5, <1>7, <1>8
<1>10. hugetlb
  BY DEF SlotInv
<1> QED
  BY <1>9, <1>10 DEF HavePages

(* So a handler finishes its completion or panics: check returns no error. *)
LEMMA ProvidedCheck ==
    ASSUME ListenerInv, PagesConserved, SlotInv, Provided, Check
    PROVE  /\ ~NoRoom
           /\ \/ CheckCollect
              \/ pc' = "panic" /\ UNCHANGED <<table, accepts, cq, hugetlb, pool, bundle>>
              \/ /\ pc = "bundle" /\ Pop /\ UNCHANGED <<cq, hugetlb>>
                 /\ \/ HandleSentZc \/ HandleRecv \/ HandleShutdown
                    \/ HandleAccepted \/ HandleAcceptError \/ HandleSendFailed
<1>1. ~NoRoom
  BY ListenerAssumption DEF Provided, NoRoom, ListenerInv, TypeOK
<1>2. ~HandleAcceptedFails
  <2>1. HandleAcceptedFails => pc = "bundle" /\ Head(bundle).kind = "accept" /\ ~HavePages
    BY <1>1 DEF HandleAcceptedFails, First
  <2> QED
    BY <2>1, PagesSuffice
<1>3. ~HandleAcceptedNoAccept /\ ~HandleAcceptedNoSend
  BY <1>1 DEF HandleAcceptedNoAccept, HandleAcceptedNoSend
<1>4. HandleSentZc \/ HandleRecv \/ HandleShutdown \/ HandleAccepted \/ HandleAcceptError
         \/ HandleSendFailed =>
         pc = "bundle" /\ Pop /\ UNCHANGED <<cq, hugetlb>>
  BY <1>1 DEF HandleSentZc, HandleRecv, HandleShutdown, HandleAccepted, HandleAcceptError,
     HandleSendFailed, First, RunLoop, kernel
<1>5. CheckCollectPanics \/ HandleSentZcNoSlot \/ HandleSentZcUnderflow \/ HandleRecvNoSlot =>
         pc' = "panic" /\ UNCHANGED <<table, accepts, cq, hugetlb, pool, bundle>>
  BY DEF CheckCollectPanics, HandleSentZcNoSlot, HandleSentZcUnderflow, HandleRecvNoSlot,
     Panic, kernel
<1> QED
  BY <1>1, <1>2, <1>3, <1>4, <1>5 DEF Check

(* The events behind the first are still there once it is handled. *)
LEMMA LaterEventsStay ==
    ASSUME ListenerInv, pc = "bundle", Pop, cq' = cq
    PROVE  /\ Len(Events) \in Nat
           /\ \A i \in 2 .. Len(Events) :
                 i - 1 \in 1 .. Len(Events') /\ Events'[i - 1] = Events[i]
<1>1. Gone(1)
  BY EventsPopped DEF ListenerInv, Bundled, Pop
<1>2. Len(Events) \in Nat
  BY EventsQueue DEF ListenerInv
<1>3. /\ Len(Events') = Len(Events) - 1
      /\ \A i \in 1 .. Len(Events) - 1 : Events'[i] = Events[i + 1]
  BY <1>1 DEF Gone
<1>4. ASSUME NEW i \in 2 .. Len(Events)
      PROVE  i - 1 \in 1 .. Len(Events') /\ Events'[i - 1] = Events[i]
  <2>1. i - 1 \in 1 .. Len(Events) - 1 /\ (i - 1) + 1 = i
    BY <1>2
  <2> QED
    BY <1>3, <2>1
<1> QED
  BY <1>2, <1>4

(* A handler that keeps every stream but the one of its slot s, which it leaves in
   the pool or takes out of the table. *)
LEMMA HandledSlots ==
    ASSUME ListenerInv, SlotInv, pc = "bundle", Pop, UNCHANGED <<cq, hugetlb>>,
           NEW s, Head(bundle).kind # "refused" => s = Head(bundle).slot,
           \A t \in Slots : t # s =>
              table'[t] = table[t] /\ pool'[t].conn = pool[t].conn,
           s \in Slots => \/ table'[s] = NoConn
                          \/ pool'[s].conn = table'[s]
                          \/ /\ Head(bundle).kind # "accept"
                             /\ table'[s] = table[s] /\ pool'[s].conn = pool[s].conn
    PROVE  SlotInv'
<1>1. hugetlb' = TRUE
  BY DEF SlotInv, ListenerInv, TypeOK
<1>2. /\ Len(Events) \in Nat
      /\ \A i \in 2 .. Len(Events) :
            i - 1 \in 1 .. Len(Events') /\ Events'[i - 1] = Events[i]
  BY LaterEventsStay
<1>3. Events[1] = Head(bundle) /\ 1 \in 1 .. Len(Events)
  BY HeadEvent
<1>4. ASSUME NEW t \in Slots, table'[t] # NoConn
      PROVE  \/ pool'[t].conn = table'[t]
             \/ \E i \in 1 .. Len(Events') :
                   Events'[i].kind = "accept" /\ Events'[i].conn = table'[t]
  <2>1. CASE t = s /\ pool'[s].conn = table'[s]
    BY <2>1
  <2>2. CASE ~(t = s /\ pool'[s].conn = table'[s])
    <3>1. /\ table'[t] = table[t] /\ pool'[t].conn = pool[t].conn
          /\ Head(bundle).kind = "accept" => t # Head(bundle).slot
      BY <1>4, <2>2
    <3>2. Served(table[t], t)
      BY <1>4, <3>1 DEF SlotInv
    <3>3. CASE pool[t].conn = table[t]
      BY <3>1, <3>3
    <3>4. CASE \E i \in 1 .. Len(Events) : Events[i].kind = "accept" /\ Events[i].conn = table[t]
      <4>1. PICK i \in 1 .. Len(Events) : Events[i].kind = "accept" /\ Events[i].conn = table[t]
        BY <3>4
      <4>2. Events[i].slot = t
        BY <1>4, <3>1, <4>1 DEF ListenerInv, Addressed
      <4>3. i # 1
        BY <1>3, <3>1, <4>1, <4>2
      <4>4. i \in 2 .. Len(Events)
        BY <1>2, <4>3
      <4> QED
        BY <1>2, <3>1, <4>1, <4>4
    <3> QED
      BY <3>2, <3>3, <3>4 DEF Served
  <2> QED
    BY <2>1, <2>2
<1> QED
  BY <1>1, <1>4 DEF SlotInv, Served

(* The loop changes the counters of a stream, not what it is for. *)
LEMMA RunLoopKeepsConns ==
    ASSUME ListenerInv, pc = "bundle", HandleSentZc \/ HandleRecv
    PROVE  \A t \in Slots : pool'[t].conn = pool[t].conn
<1> DEFINE s == Head(bundle).slot
<1>1. s \in Slots /\ TypeOK
  BY HeadEvent DEF HandleSentZc, HandleRecv, First, ListenerInv
<1>2. \E m, b : pool' = [pool EXCEPT ![s].sends = m, ![s].bufs = b]
  BY DEF HandleSentZc, HandleRecv, RunLoop
<1> HIDE DEF s
<1> QED
  BY <1>1, <1>2 DEF TypeOK

(* Every step of check keeps the invariant. *)
LEMMA CheckSlots ==
    ASSUME ListenerInv, PagesConserved, SlotInv, Provided, Check
    PROVE  SlotInv'
<1> DEFINE s == Head(bundle).slot
<1>1. TypeOK
  BY DEF ListenerInv
<1>2. CASE CheckCollect
  <2>1. Events' = Events /\ UNCHANGED <<table, pool, hugetlb>> /\ hugetlb
    BY <1>2, EventsTaken DEF CheckCollect, Configured, Provided
  <2> QED
    BY <2>1 DEF SlotInv, Served
<1>3. CASE pc' = "panic" /\ UNCHANGED <<table, accepts, cq, hugetlb, pool, bundle>>
  <2>1. Events' = Events
    BY <1>3 DEF Events
  <2> QED
    BY <1>3, <2>1 DEF SlotInv, Served
<1>4. CASE pc = "bundle" /\ Pop /\ UNCHANGED <<cq, hugetlb>> /\ (HandleSentZc \/ HandleRecv)
  <2>1. \A t \in Slots : pool'[t].conn = pool[t].conn
    BY <1>4, RunLoopKeepsConns
  <2>2. table' = table /\ Head(bundle).kind # "accept"
    BY <1>4 DEF HandleSentZc, HandleRecv, First
  <2> QED
    BY <1>4, <2>1, <2>2, HandledSlots
<1>5. CASE pc = "bundle" /\ Pop /\ UNCHANGED <<cq, hugetlb>> /\ HandleShutdown
  <2>1. /\ pool' = [pool EXCEPT ![s] = NoStream] /\ table' = [table EXCEPT ![s] = NoConn]
        /\ Head(bundle).kind = "recv"
    BY <1>5 DEF HandleShutdown, First, Release, Remove, NukeFixed
  <2>2. s \in Slots
    BY <1>5, <2>1, HeadEvent
  <2>3. table'[s] = NoConn /\ \A t \in Slots : t # s => table'[t] = table[t] /\ pool'[t] = pool[t]
    BY <1>1, <2>1, <2>2 DEF TypeOK
  <2> QED
    BY <1>5, <2>1, <2>3, HandledSlots
<1>6. CASE pc = "bundle" /\ Pop /\ UNCHANGED <<cq, hugetlb>> /\ HandleAccepted
  <2>1. /\ \E k : pool' = [pool EXCEPT ![s] = [conn |-> table[s], sends |-> k, bufs |-> k]]
        /\ table' = table /\ Head(bundle).kind = "accept"
    BY <1>6 DEF HandleAccepted, First
  <2>2. s \in Slots
    BY <1>6, <2>1, HeadEvent
  <2>3. pool'[s].conn = table'[s] /\ \A t \in Slots : t # s => pool'[t] = pool[t]
    BY <1>1, <2>1, <2>2 DEF TypeOK
  <2> QED
    BY <1>6, <2>1, <2>3, HandledSlots
<1>7. CASE /\ pc = "bundle" /\ Pop /\ UNCHANGED <<cq, hugetlb>>
           /\ HandleAcceptError \/ HandleSendFailed
  <2>1. UNCHANGED <<table, pool>> /\ Head(bundle).kind # "accept"
    BY <1>7 DEF HandleAcceptError, HandleSendFailed, First, kernel
  <2>2. Head(bundle).kind # "refused" => s \in Slots
    BY <1>7, HeadEvent
  <2> QED
    BY <1>7, <2>1, <2>2, HandledSlots
<1> QED
  BY <1>2, <1>3, <1>4, <1>5, <1>6, <1>7, ProvidedCheck

(* The kernel brings a connection into a slot together with its completion. *)
LEMMA KernelSlots ==
    ASSUME ListenerInv, SlotInv, NEW c \in Conns, KernelRecv(c) \/ Kernel(c)
    PROVE  SlotInv'
<1>1. TypeOK
  BY DEF ListenerInv
<1>2. PICK e \in Cqes : cq' = Append(cq, e) /\ UNCHANGED <<listener>> /\
         \/ table' = table
         \/ \E s \in Slots : table' = [table EXCEPT ![s] = c] /\ e.kind = "accept" /\ e.conn = c
  <2>1. \A kind \in {"refused", "recv", "reset", "send", "failed"}, more \in BOOLEAN :
           Cqe(kind, c, more) \in Cqes
    BY <1>1 DEF Cqe, Cqes, TypeOK
  <2>2. CASE \E s \in Slots : KernelAccept(c, s)
    <3>1. PICK s \in Slots : KernelAccept(c, s)
      BY <2>2
    <3>2. [kind |-> "accept", slot |-> s, conn |-> c, more |-> FALSE] \in Cqes
      BY SlotFacts DEF Cqes
    <3> QED
      BY <3>1, <3>2 DEF KernelAccept
  <2>3. CASE ~\E s \in Slots : KernelAccept(c, s)
    BY <2>1, <2>3 DEF Kernel, KernelRecv, KernelAcceptFull, KernelEof, KernelReset, KernelAck,
       KernelSendFails, KernelNotif
  <2> QED
    BY <2>2, <2>3
<1>3. /\ Len(Events') = Len(Events) + 1 /\ Len(Events) \in Nat
      /\ \A i \in 1 .. Len(Events) : Events'[i] = Events[i]
      /\ Events'[Len(Events) + 1] = e
  BY <1>1, <1>2, EventsPosted, EventsQueue DEF listener
<1>4. ASSUME NEW s \in Slots, table'[s] # NoConn
      PROVE  \/ pool[s].conn = table'[s]
             \/ \E i \in 1 .. Len(Events') :
                   Events'[i].kind = "accept" /\ Events'[i].conn = table'[s]
  <2>1. CASE table'[s] = table[s]
    <3>1. Served(table[s], s)
      BY <1>4, <2>1 DEF SlotInv
    <3>2. \A i \in 1 .. Len(Events) : i \in 1 .. Len(Events')
      BY <1>3
    <3> QED
      BY <1>3, <2>1, <3>1, <3>2 DEF Served
  <2>2. CASE table'[s] # table[s]
    <3>1. table'[s] = c /\ e.kind = "accept" /\ e.conn = c
      BY <1>1, <1>2, <2>2 DEF TypeOK
    <3>2. Len(Events) + 1 \in 1 .. Len(Events')
      BY <1>3
    <3> QED
      BY <1>3, <3>1, <3>2
  <2> QED
    BY <2>1, <2>2
<1>5. UNCHANGED <<pool, hugetlb, pc>>
  BY <1>2 DEF listener
<1> QED
  BY <1>4, <1>5 DEF SlotInv, Served

(* The invariant of the slots holds in every reachable state. *)
LEMMA SlotInvHolds == ASSUME Provided PROVE Spec => []SlotInv
<1>1. Init => SlotInv
  BY DEF Init, SlotInv
<1>2. ListenerInv /\ PagesConserved /\ SlotInv /\ [Next]_vars => SlotInv'
  <2> SUFFICES ASSUME ListenerInv, PagesConserved, SlotInv, [Next]_vars PROVE SlotInv'
    OBVIOUS
  <2>1. CASE \E c \in Conns : KernelRecv(c) \/ Kernel(c)
    BY <2>1, KernelSlots
  <2>2. CASE Check
    BY <2>2, CheckSlots
  <2>3. CASE \/ SetHugeTlb \/ UNCHANGED vars
             \/ \E c \in Conns : Connect(c) \/ PeerClose(c)
    <3>1. Events' = Events /\ UNCHANGED <<table, pool, pc>> /\ (hugetlb => hugetlb')
      BY <2>3 DEF SetHugeTlb, Connect, PeerClose, kernel, vars, listener, Events
    <3> QED
      BY <3>1 DEF SlotInv, Served
  <2> QED
    BY <2>1, <2>2, <2>3 DEF Next
<1> QED
  BY <1>1, <1>2, InvHolds, PagesAccounted, PTL DEF Spec

(* No slot of the fixed file table is lost: what the kernel accepted is in the pool
   or its completion is still to come.  An accept that fails for want of huge pages
   would leave its file behind. *)
THEOREM NoSlotIsLost == ASSUME Provided PROVE Spec => []NoSlotLeak
<1>1. ListenerInv /\ SlotInv => NoSlotLeak
  <2> SUFFICES ASSUME ListenerInv, SlotInv, NEW s \in Slots, table[s] # NoConn
               PROVE  InPool(table[s]) \/ Pending({"accept"}, table[s])
    BY DEF NoSlotLeak
  <2>1. Served(table[s], s)
    BY DEF SlotInv
  <2>2. CASE pool[s].conn = table[s]
    BY <2>2 DEF InPool
  <2>3. CASE \E i \in 1 .. Len(Events) : Events[i].kind = "accept" /\ Events[i].conn = table[s]
    BY <2>3, PendingEvent DEF ListenerInv
  <2> QED
    BY <2>1, <2>2, <2>3 DEF Served
<1> QED
  BY <1>1, InvHolds, SlotInvHolds, PTL

(* A step that loses an accept is the handling of one the kernel refused: every
   other accept that completes is replaced. *)
KeepsAccepts == Outstanding' = Outstanding \/ HandleAcceptError

(* Every step does so. *)
LEMMA AcceptsStep ==
    ASSUME ListenerInv, PagesConserved, SlotInv, Provided, [Next]_vars
    PROVE  KeepsAccepts
<1>1. TypeOK
  BY DEF ListenerInv
<1>2. /\ Outstanding \in Nat /\ accepts \in Nat /\ AcceptCqes(cq) \in Nat
      /\ AcceptCqes(bundle) \in Nat
  BY <1>1, OutstandingNat
<1>3. ASSUME NEW c \in Conns, KernelRecv(c) \/ Kernel(c) PROVE Outstanding' = Outstanding
  <2>1. \A kind \in {"refused", "recv", "reset", "send", "failed"}, more \in BOOLEAN :
           Cqe(kind, c, more) \in Cqes /\ Cqe(kind, c, more).kind = kind
    BY <1>1 DEF Cqe, Cqes, TypeOK
  <2>2. CASE \/ KernelAcceptFull(c) \/ \E s \in Slots : KernelAccept(c, s)
    <3>1. PICK e \in Cqes : /\ e.kind \in {"accept", "refused"} /\ cq' = Append(cq, e)
                            /\ accepts' = accepts - 1 /\ bundle' = bundle
      <4>1. \A s \in Slots : [kind |-> "accept", slot |-> s, conn |-> c, more |-> FALSE] \in Cqes
        BY SlotFacts DEF Cqes
      <4> QED
        BY <2>1, <2>2, <4>1 DEF KernelAccept, KernelAcceptFull, listener
    <3>2. AcceptCqes(cq') = AcceptCqes(cq) + 1
      BY <1>1, <3>1, AcceptsPosted
    <3>3. accepts' = accepts - 1 /\ bundle' = bundle
      BY <3>1
    <3> QED
      BY ONLY <1>2, <3>2, <3>3 DEF Outstanding
  <2>3. CASE \E kind \in {"recv", "reset", "send", "failed"}, more \in BOOLEAN :
                cq' = Append(cq, Cqe(kind, c, more)) /\ UNCHANGED <<accepts, bundle>>
    <3>1. AcceptCqes(cq') = AcceptCqes(cq)
      BY <1>1, <2>1, <2>3, AcceptsPosted
    <3> QED
      BY <1>2, <2>3, <3>1 DEF Outstanding
  <2> QED
    BY <1>3, <2>2, <2>3 DEF Kernel, KernelRecv, KernelEof, KernelReset, KernelAck,
       KernelSendFails, KernelNotif, listener
<1>4. CASE Check
  <2>1. CASE CheckCollect
    <3>1. AcceptCqes(cq') \in Nat /\ AcceptCqes(bundle') \in Nat
      BY <1>1, <2>1, EventsTaken, AcceptCqesCount
    <3>2. AcceptCqes(cq') + AcceptCqes(bundle') = AcceptCqes(cq) + AcceptCqes(bundle)
      BY <2>1, AcceptsTaken
    <3>3. accepts' = accepts
      BY <2>1 DEF CheckCollect
    <3>4. Outstanding' = Outstanding
      BY ONLY <1>2, <3>1, <3>2, <3>3 DEF Outstanding
    <3> QED
      BY <3>4 DEF KeepsAccepts
  <2>2. CASE UNCHANGED <<accepts, cq, bundle>>
    BY <2>2 DEF Outstanding, KeepsAccepts
  <2>3. CASE /\ pc = "bundle" /\ Pop /\ cq' = cq
             /\ HandleSentZc \/ HandleRecv \/ HandleShutdown \/ HandleSendFailed
    <3>1. Head(bundle).kind \notin {"accept", "refused"} /\ accepts' = accepts /\ cq' = cq
      BY <2>3 DEF HandleSentZc, HandleRecv, HandleShutdown, HandleSendFailed, First, kernel
    <3>2. AcceptCqes(bundle') = AcceptCqes(bundle)
      BY <2>3, <3>1, AcceptsHandled
    <3> QED
      BY <3>1, <3>2 DEF Outstanding, KeepsAccepts
  <2>4. CASE pc = "bundle" /\ Pop /\ cq' = cq /\ HandleAccepted
    <3>1. Head(bundle).kind = "accept" /\ accepts' = accepts + 1 /\ cq' = cq
      BY <2>4 DEF HandleAccepted, First, Replenish
    <3>2. AcceptCqes(bundle') \in Nat /\ AcceptCqes(bundle') + 1 = AcceptCqes(bundle)
      BY <2>4, <3>1, AcceptsHandled
    <3>3. Outstanding' = Outstanding
      BY ONLY <1>2, <3>1, <3>2 DEF Outstanding
    <3> QED
      BY <3>3 DEF KeepsAccepts
  <2> QED
    BY <1>4, <2>1, <2>2, <2>3, <2>4, ProvidedCheck DEF KeepsAccepts
<1>5. CASE UNCHANGED <<accepts, cq, bundle>>
  BY <1>5 DEF Outstanding, KeepsAccepts
<1> QED
  BY <1>3, <1>4, <1>5 DEF KeepsAccepts, Next, Connect, PeerClose, SetHugeTlb, vars, kernel, listener

(* The Replenish strategy keeps its number of accepts through every step of check and
   of the kernel, except that an accept the kernel has refused is not issued again. *)
THEOREM AcceptsLostOnlyWhenRefused == ASSUME Provided PROVE Spec => [][KeepsAccepts]_vars
<1>1. ListenerInv /\ PagesConserved /\ SlotInv /\ [Next]_vars => [KeepsAccepts]_vars
  BY AcceptsStep
<1> QED
  BY <1>1, InvHolds, PagesAccounted, SlotInvHolds, PTL DEF Spec

(* The connections that wait for an accept or are in the table. *)
Present == {c \in Conns : peer[c] = "queued" \/ \E s \in Slots : table[s] = c}

(* There is a slot for every one of them.  How many come and go in the life of the
   listener does not matter. *)
Uncrowded == IsFiniteSet(Present) /\ Cardinality(Present) < FixedCount

(* Then the table is not full while a connection is waiting. *)
LEMMA TableHasRoom ==
    ASSUME ListenerInv, Uncrowded, NEW c \in Conns, peer[c] = "queued"
    PROVE  \E s \in Slots : table[s] = NoConn
<1> SUFFICES ASSUME \A s \in Slots : table[s] # NoConn PROVE FALSE
  OBVIOUS
<1>1. TypeOK /\ Addressed
  BY DEF ListenerInv
<1>2. at[c] = 0
  BY <1>1 DEF Addressed
<1>3. \A s \in Slots : table[s] \in Present \ {c} /\ at[table[s]] = s
  BY <1>1, <1>2, SlotFacts DEF TypeOK, Addressed, Present
<1>4. table \in Injection(Slots, Present \ {c})
  BY <1>1, <1>3 DEF TypeOK, Injection, IsInjective
<1>5. IsFiniteSet(Present \ {c}) /\ Cardinality(Present \ {c}) = Cardinality(Present) - 1
  <2>1. c \in Present
    BY DEF Present
  <2> QED
    BY <2>1, FS_RemoveElement DEF Uncrowded
<1>6. Cardinality(Slots) <= Cardinality(Present \ {c})
  BY <1>4, <1>5, FS_Injection
<1>7. Cardinality(Slots) = FixedCount - 1
  <2>1. Cardinality(1 .. FixedCount - 1) =
           IF 1 > FixedCount - 1 THEN 0 ELSE (FixedCount - 1) - 1 + 1
    BY FS_Interval, ListenerAssumption
  <2> QED
    BY <2>1, ListenerAssumption DEF Slots
<1>8. Cardinality(Present) \in Nat /\ Cardinality(Present) < FixedCount /\ FixedCount \in Nat
  BY FS_CardinalityType, ListenerAssumption DEF Uncrowded
<1> QED
  BY <1>5, <1>6, <1>7, <1>8

NoneRefused == \A i \in 1 .. Len(Events) : Events[i].kind # "refused"

(* No step brings a refused accept. *)
LEMMA NoneRefusedStep ==
    ASSUME ListenerInv, NoneRefused, Uncrowded, [Next]_vars
    PROVE  NoneRefused'
<1>1. TypeOK
  BY DEF ListenerInv
<1>2. ASSUME NEW c \in Conns, KernelRecv(c) \/ Kernel(c) PROVE NoneRefused'
  <2>1. ~KernelAcceptFull(c)
    BY TableHasRoom DEF KernelAcceptFull
  <2>2. PICK e \in Cqes : cq' = Append(cq, e) /\ bundle' = bundle /\ e.kind # "refused"
    <3>1. \A s \in Slots : [kind |-> "accept", slot |-> s, conn |-> c, more |-> FALSE] \in Cqes
      BY SlotFacts DEF Cqes
    <3>2. \A kind \in {"recv", "reset", "send", "failed"}, more \in BOOLEAN :
             Cqe(kind, c, more) \in Cqes /\ Cqe(kind, c, more).kind = kind
      BY <1>1 DEF Cqe, Cqes, TypeOK
    <3> QED
      BY <1>2, <2>1, <3>1, <3>2 DEF Kernel, KernelRecv, KernelAccept, KernelEof, KernelReset,
         KernelAck, KernelSendFails, KernelNotif, listener
  <2>3. /\ Len(Events') = Len(Events) + 1 /\ Len(Events) \in Nat
        /\ \A i \in 1 .. Len(Events) : Events'[i] = Events[i]
        /\ Events'[Len(Events) + 1] = e
    BY <1>1, <2>2, EventsPosted, EventsQueue
  <2>4. \A i \in 1 .. Len(Events') : i \in 1 .. Len(Events) \/ i = Len(Events) + 1
    BY <2>3
  <2> QED
    BY <2>2, <2>3, <2>4 DEF NoneRefused
<1>3. CASE Events' = Events
  BY <1>3 DEF NoneRefused
<1>4. CASE pc = "bundle" /\ (Pop \/ ReturnErr) /\ cq' = cq
  <2>1. PICK k \in 1 .. Len(Events) : Gone(k)
    BY <1>4, HandledEvents
  <2>2. \A i \in 1 .. Len(Events') : i + k \in 2 .. Len(Events) /\ Events'[i] = Events[i + k]
    BY <2>1, GoneKeeps
  <2>3. 2 .. Len(Events) \subseteq 1 .. Len(Events)
    BY <1>1, EventsQueue
  <2> QED
    BY <2>2, <2>3 DEF NoneRefused
<1>5. CASE Check
  <2>1. CASE CheckCollect
    BY <1>3, <2>1, EventsTaken
  <2>2. CASE CheckCollectPanics \/ HandleSentZcNoSlot \/ HandleSentZcUnderflow \/ HandleRecvNoSlot
    BY <1>3, <2>2 DEF CheckCollectPanics, HandleSentZcNoSlot, HandleSentZcUnderflow,
       HandleRecvNoSlot, Panic, kernel, Events
  <2>3. CASE ~(CheckCollect \/ CheckCollectPanics \/ HandleSentZcNoSlot
               \/ HandleSentZcUnderflow \/ HandleRecvNoSlot)
    <3>1. pc = "bundle" /\ (Pop \/ ReturnErr) /\ cq' = cq
      BY <1>5, <2>3 DEF Check, HandleSentZc, HandleRecv, HandleShutdown, HandleAccepted,
         HandleAcceptedNoAccept, HandleAcceptedFails, HandleAcceptedNoSend, HandleAcceptError,
         HandleSendFailed, First, RunLoop, NoRoom, kernel
    <3> QED
      BY <1>4, <3>1
  <2> QED
    BY <2>1, <2>2, <2>3
<1>6. CASE \/ SetHugeTlb \/ UNCHANGED vars \/ \E c \in Conns : Connect(c) \/ PeerClose(c)
  BY <1>3, <1>6 DEF SetHugeTlb, Connect, PeerClose, kernel, vars, listener, Events
<1> QED
  BY <1>2, <1>5, <1>6 DEF Next

(* As long as there are never more connections at a time, waiting or in the table,
   than there are slots, no accept is refused, and the listener has all the accepts it
   was configured for outstanding at every moment. *)
THEOREM AcceptsAlwaysReplenished ==
    ASSUME Provided PROVE Spec /\ []Uncrowded => []AcceptsReplenished
<1> DEFINE Full == AcceptsReplenished /\ NoneRefused
<1>1. Init => Full
  <2> SUFFICES ASSUME Init PROVE Full
    OBVIOUS
  <2>1. {i \in DOMAIN <<>> : <<>>[i].kind \in {"accept", "refused"}} = {}
    OBVIOUS
  <2>2. AcceptCqes(<<>>) = 0
    BY <2>1, FS_EmptySet DEF AcceptCqes
  <2>3. Events = <<>> \o <<>> /\ <<>> \o <<>> = <<>>
    BY EmptySeq, ConcatEmptySeq DEF Init, Events
  <2>4. Len(Events) = 0
    BY <2>3
  <2> QED
    BY <2>2, <2>4, ListenerAssumption DEF Init, AcceptsReplenished, NoneRefused
<1>2. ListenerInv /\ PagesConserved /\ SlotInv /\ Uncrowded /\ Full /\ [Next]_vars => Full'
  <2> SUFFICES ASSUME ListenerInv, PagesConserved, SlotInv, Uncrowded, Full, [Next]_vars
               PROVE  Full'
    OBVIOUS
  <2>1. NoneRefused'
    BY NoneRefusedStep
  <2>2. ~HandleAcceptError
    BY HeadEvent DEF HandleAcceptError, First, NoneRefused
  <2>3. Outstanding' = Outstanding
    BY <2>2, AcceptsStep DEF KeepsAccepts
  <2> QED
    BY <2>1, <2>3 DEF Outstanding, AcceptsReplenished
<1> QED
  BY <1>1, <1>2, InvHolds, PagesAccounted, SlotInvHolds, PTL DEF Spec

=============================================================================
