-------------------------- MODULE ClientPoolProofs --------------------------
(***************************************************************************)
(* What ClientPool guarantees for every pool, number of records, batch size*)
(* and limit, and every fault.                                             *)
(*                                                                         *)
(* The argument is about tokens: a record of the bearer, and the entry of  *)
(* the bundle that comes of it.  Collecting turns the one into the other   *)
(* and handling uses it up, so that every record is accounted for at most  *)
(* once, whichever completions the kernel sends for its id.                *)
(***************************************************************************)
EXTENDS ClientPool, Counting, TLAPS

-----------------------------------------------------------------------------
(* The inductive invariant.                                                *)

Cqes == [id: Ids, kind: {"socket", "connect", "recv", "send"}, slot: Slots,
         ok: BOOLEAN, more: BOOLEAN, res: Nat]

Entries == [kind: {"connect", "recv", "send"}, slot: Slots, flag: BOOLEAN, res: Nat]

(* The ids under a record of K, the entries that come of one, and both. *)
RecsOf(K) == {i \in Ids : rec[i] \in K}
Reps(K) == {e \in Entries : [kind |-> e.kind, slot |-> e.slot] \in K}
Tokens(K) == Cardinality(RecsOf(K)) + Count(bundle, Reps(K))

SendOf(x) == {[kind |-> "send", slot |-> x]}
ConnectOf(x) == {[kind |-> "connect", slot |-> x]}
AnyConnect == {r \in Rec : r.kind = "connect"}

PoolTypes == TypeOK /\ cq \in Seq(Cqes) /\ bundle \in Seq(Entries)

(* A stream counts a buffer for every send that can still be reported for it. *)
Counted == \A x \in Slots : bufs[x] >= Tokens(SendOf(x))

(* A send of the record under i is to be acknowledged. *)
Unacked(i, w) == w.kind = "send" /\ \E l \in 1 .. BufSize : unacked[<<i, w.slot, l>>] > 0

(* A slot is connected once, and has sent nothing before. *)
Single ==
    \A x \in Slots :
       /\ Tokens(ConnectOf(x)) <= 1
       /\ Tokens(ConnectOf(x)) > 0 => ctx[x] = "connecting" /\ Tokens(SendOf(x)) = 0

(* A connect that will be reported is counted. *)
Connecting == state_connecting >= Tokens(AnyConnect)

(* There is a bundle exactly while it is handled. *)
Bundled ==
    /\ pc = "bundle" => bundle # <<>>
    /\ pc = "idle" => bundle = <<>>

(* A record waits for its completion; the record of a receive, which survives the
   others, for the last one. *)
Waiting ==
    \A i \in Ids : rec[i] # NoRec =>
       \/ <<i, rec[i]>> \in inflight
       \/ Unacked(i, rec[i])
       \/ \E j \in 1 .. Len(cq) : cq[j].id = i /\ (rec[i].kind = "recv" => ~cq[j].ok)

PoolInv ==
    PoolTypes /\ Counted /\ Single /\ Connecting /\ Bundled /\ Waiting
    /\ RecordsHaveStream /\ CountsMatchPool

-----------------------------------------------------------------------------
(* Tokens.                                                                 *)

(* Ids and slots are finitely many numbers. *)
LEMMA IdsFinite ==
    /\ Ids \subseteq Nat /\ Slots \subseteq Nat
    /\ IsFiniteSet(Ids) /\ IsFiniteSet(Slots) /\ Cardinality(Slots) = PoolCount
<1>1. PoolCount \in Nat \ {0} /\ NRecs \in Nat
  BY ClientAssumption
<1>2. /\ IsFiniteSet(1 .. NRecs) /\ IsFiniteSet(0 .. PoolCount - 1)
      /\ Cardinality(0 .. PoolCount - 1) =
            IF 0 > PoolCount - 1 THEN 0 ELSE (PoolCount - 1) - 0 + 1
  BY <1>1, FS_Interval
<1> QED
  BY <1>1, <1>2 DEF Ids, Slots

(* No record is one of these. *)
LEMMA NoRecNone == NoRec \notin Rec
BY DEF NoRec, Rec

(* Tokens are counted in numbers. *)
LEMMA TokensType ==
    ASSUME PoolTypes, NEW K
    PROVE  /\ IsFiniteSet(RecsOf(K)) /\ Cardinality(RecsOf(K)) \in Nat
           /\ Count(bundle, Reps(K)) \in Nat
           /\ Tokens(K) \in Nat
<1>1. IsFiniteSet(RecsOf(K))
  BY IdsFinite, FS_Subset DEF RecsOf
<1>2. Cardinality(RecsOf(K)) \in Nat
  BY <1>1, FS_CardinalityType
<1>3. Count(bundle, Reps(K)) \in Nat
  BY CountType DEF PoolTypes
<1> QED
  BY <1>1, <1>2, <1>3 DEF Tokens

(* Without a token there is no record. *)
LEMMA TokenOfRecord ==
    ASSUME PoolTypes, NEW K, NEW i \in Ids, rec[i] \in K
    PROVE  Tokens(K) > 0
<1>1. RecsOf(K) # {} /\ IsFiniteSet(RecsOf(K))
  BY TokensType DEF RecsOf
<1>2. Cardinality(RecsOf(K)) # 0
  BY <1>1, FS_EmptySet
<1> QED
  BY <1>2, TokensType DEF Tokens

(* The head of the bundle is an entry, made of a token. *)
LEMMA HeadEntry ==
    ASSUME PoolTypes, Bundled, pc = "bundle"
    PROVE  /\ bundle # <<>> /\ Head(bundle) \in Entries /\ Slot \in Slots
           /\ Tail(bundle) \in Seq(Entries) /\ Len(Tail(bundle)) = Len(bundle) - 1
           /\ Len(bundle) \in Nat
           /\ \A i \in 1 .. Len(Tail(bundle)) : i + 1 \in 1 .. Len(bundle)
                                                /\ Tail(bundle)[i] = bundle[i + 1]
           /\ Head(bundle) = bundle[1] /\ 1 \in 1 .. Len(bundle)
<1>1. bundle \in Seq(Entries) /\ bundle # <<>>
  BY DEF PoolTypes, Bundled
<1>2. /\ Head(bundle) \in Entries /\ Tail(bundle) \in Seq(Entries)
      /\ Len(Tail(bundle)) = Len(bundle) - 1 /\ Len(bundle) \in Nat
      /\ \A i \in 1 .. Len(Tail(bundle)) : Tail(bundle)[i] = bundle[i + 1]
  BY <1>1, HeadTailProperties
<1>3. Len(bundle) > 0 /\ Head(bundle) = bundle[1]
  BY <1>1, <1>2, EmptySeq
<1> QED
  BY <1>1, <1>2, <1>3 DEF Slot, Entries

(* A handler returns: its entry is used up, and with an error the others too. *)
LEMMA Returned ==
    ASSUME PoolTypes, Bundled, pc = "bundle", NEW err \in BOOLEAN, Return(err)
    PROVE  /\ bundle' \in Seq(Entries) /\ Len(bundle') <= Len(bundle)
           /\ Bundled' /\ pc' \in {"idle", "bundle"} /\ failed' \in BOOLEAN /\ mixed' = mixed
           /\ mixed' = mixed
           /\ ~failed' => ~failed /\ ~err
           /\ \A i \in 1 .. Len(bundle') : \E j \in 1 .. Len(bundle) : bundle'[i] = bundle[j]
<1>1. /\ Tail(bundle) \in Seq(Entries) /\ Len(Tail(bundle)) = Len(bundle) - 1
      /\ Len(bundle) \in Nat
      /\ \A i \in 1 .. Len(Tail(bundle)) : i + 1 \in 1 .. Len(bundle)
                                           /\ Tail(bundle)[i] = bundle[i + 1]
  BY HeadEntry
<1>2. failed \in BOOLEAN /\ mixed' = mixed
  BY DEF PoolTypes, TypeOK, Return
<1>3. CASE err
  <2>1. bundle' = <<>> /\ pc' = "idle" /\ failed' = TRUE
    BY <1>2, <1>3 DEF Return
  <2>2. <<>> \in Seq(Entries) /\ Len(<<>>) = 0
    OBVIOUS
  <2> QED
    BY <1>1, <1>2, <2>1, <2>2 DEF Bundled
<1>4. CASE ~err
  <2>1. /\ bundle' = Tail(bundle) /\ failed' = failed
        /\ pc' = IF Tail(bundle) = <<>> THEN "idle" ELSE "bundle"
    BY <1>2, <1>4 DEF Return
  <2>2. Bundled' /\ pc' \in {"idle", "bundle"}
    BY <2>1 DEF Bundled
  <2> QED
    BY <1>1, <1>2, <1>4, <2>1, <2>2
<1> QED
  BY <1>3, <1>4

(* ... so that the bundle holds no more tokens than before, and one fewer of the
   kind its head was. *)
LEMMA ReturnedTokens ==
    ASSUME PoolTypes, Bundled, pc = "bundle", NEW err \in BOOLEAN, Return(err), NEW K
    PROVE  /\ Count(bundle', Reps(K)) \in Nat
           /\ Count(bundle', Reps(K)) <= Count(bundle, Reps(K))
           /\ Head(bundle) \in Reps(K) =>
                 Count(bundle', Reps(K)) + 1 <= Count(bundle, Reps(K))
<1> DEFINE R == Reps(K)
<1>1. bundle # <<>> /\ bundle \in Seq(Entries) /\ Tail(bundle) \in Seq(Entries)
  BY HeadEntry DEF PoolTypes
<1>2. Count(bundle, R) = Count(Tail(bundle), R) + IF Head(bundle) \in R THEN 1 ELSE 0
  BY <1>1, CountTail
<1>3. Count(bundle, R) \in Nat /\ Count(Tail(bundle), R) \in Nat
  BY <1>1, CountType
<1>4. CASE err
  <2>1. Count(bundle', R) = 0
    BY <1>4, CountEmpty DEF Return
  <2> QED
    BY <1>2, <1>3, <2>1
<1>5. CASE ~err
  <2>1. bundle' = Tail(bundle)
    BY <1>5 DEF Return
  <2> QED
    BY <1>2, <1>3, <2>1
<1> QED
  BY <1>4, <1>5

(* New records take the place of none. *)
LEMMA Assigned ==
    ASSUME NEW f \in [Ids -> Rec \cup {NoRec}], NEW ids \in SUBSET Ids, NEW w \in Rec,
           \A i \in ids : f[i] = NoRec,
           NEW g, \A i \in Ids : g[i] = IF i \in ids THEN w ELSE f[i],
           NEW K \in SUBSET Rec
    PROVE  /\ IsFiniteSet(ids) /\ Cardinality(ids) \in Nat
           /\ Cardinality({i \in Ids : f[i] \in K}) \in Nat
           /\ Cardinality({i \in Ids : g[i] \in K})
                 = Cardinality({i \in Ids : f[i] \in K}) + IF w \in K THEN Cardinality(ids) ELSE 0
<1> DEFINE F == {i \in Ids : f[i] \in K}
           G == {i \in Ids : g[i] \in K}
<1>1. IsFiniteSet(ids) /\ IsFiniteSet(F)
  BY IdsFinite, FS_Subset
<1>2. Cardinality(ids) \in Nat /\ Cardinality(F) \in Nat
  BY <1>1, FS_CardinalityType
<1>3. ids \cap F = {}
  BY NoRecNone
<1>4. CASE w \in K
  <2>1. G = F \cup ids
    BY <1>4
  <2>2. F \cap ids = {}
    BY <1>3
  <2>3. Cardinality(F \cup ids) = Cardinality(F) + Cardinality(ids) - Cardinality(F \cap ids)
    BY <1>1, FS_Union
  <2>4. Cardinality(F \cap ids) = 0
    BY <2>2, FS_EmptySet
  <2> HIDE DEF F, G
  <2>5. Cardinality(G) = Cardinality(F) + Cardinality(ids)
    BY <1>2, <2>1, <2>3, <2>4
  <2> QED
    BY <1>1, <1>2, <1>4, <2>5 DEF F, G
<1>5. CASE w \notin K
  <2>1. G = F
    BY <1>3, <1>5, NoRecNone
  <2> QED
    BY <1>1, <1>2, <1>5, <2>1
<1> QED
  BY <1>4, <1>5

-----------------------------------------------------------------------------
(* Collecting.                                                             *)

(* A set of numbers up to its k-th. *)
UpTo(R, j) == {i \in R : i <= j}

(* The members of a finite set of numbers have the ranks from 1 to its size, each
   another one. *)
LEMMA Ranks ==
    ASSUME NEW R, IsFiniteSet(R), R \subseteq Nat
    PROVE  \A k \in 1 .. Cardinality(R) : \E j \in R : Cardinality(UpTo(R, j)) = k
<1> DEFINE n == Cardinality(R)
           h == [j \in R |-> Cardinality(UpTo(R, j))]
<1>1. n \in Nat
  BY FS_CardinalityType
<1>2. ASSUME NEW j \in R
      PROVE  IsFiniteSet(UpTo(R, j)) /\ Cardinality(UpTo(R, j)) \in 1 .. n
  <2>1. UpTo(R, j) \in SUBSET R /\ j \in UpTo(R, j)
    BY DEF UpTo
  <2>2. IsFiniteSet(UpTo(R, j)) /\ Cardinality(UpTo(R, j)) <= n
    BY <2>1, FS_Subset
  <2>3. Cardinality(UpTo(R, j)) \in Nat /\ Cardinality(UpTo(R, j)) # 0
    BY <2>1, <2>2, FS_CardinalityType, FS_EmptySet
  <2> QED
    BY <1>1, <2>2, <2>3
<1>3. ASSUME NEW j \in R, NEW l \in R, j < l
      PROVE  Cardinality(UpTo(R, j)) # Cardinality(UpTo(R, l))
  <2>1. j \in Nat /\ l \in Nat /\ \A i \in R : i \in Nat
    OBVIOUS
  <2>2. \A i \in R : i <= j => i <= l
    BY <1>3, <2>1
  <2>3. UpTo(R, j) \in SUBSET UpTo(R, l)
    BY <2>2 DEF UpTo
  <2>4. l \in UpTo(R, l) /\ l \notin UpTo(R, j)
    BY <1>3, <2>1 DEF UpTo
  <2> QED
    BY <1>2, <2>3, <2>4, FS_Subset
<1>4. h \in Injection(R, 1 .. n)
  <2>1. h \in [R -> 1 .. n]
    BY <1>2
  <2>2. \A j, l \in R : h[j] = h[l] => j = l
    BY <1>3
  <2> QED
    BY <2>1, <2>2 DEF Injection, IsInjective
<1>5. IsFiniteSet(1 .. n) /\ Cardinality(1 .. n) = n
  <2>1. IsFiniteSet(1 .. n) /\ Cardinality(1 .. n) = IF 1 > n THEN 0 ELSE n - 1 + 1
    BY <1>1, FS_Interval
  <2> QED
    BY <1>1, <2>1
<1>6. h \in Surjection(R, 1 .. n)
  BY <1>4, <1>5, FS_Injection
<1> QED
  BY <1>6 DEF Surjection

(* The batch is a first part of the queue, of at most N completions. *)
LEMMA BatchFacts ==
    ASSUME PoolTypes
    PROVE  /\ Batch \subseteq 1 .. Len(cq) /\ Len(cq) \in Nat /\ Batch \subseteq Nat
           /\ IsFiniteSet(Batch) /\ Cardinality(Batch) \in 0 .. N
           /\ Cardinality(Batch) <= Len(cq)
           /\ \A j \in 1 .. Len(cq) : j \in Batch <=> j <= Cardinality(Batch)
           /\ \A j \in 1 .. Len(cq) : cq[j] \in Cqes /\ cq[j].id \in Ids
           /\ IsFiniteSet(Reporting) /\ Reporting \subseteq Batch /\ Cardinality(Reporting) \in 0 .. N
<1>1. Len(cq) \in Nat /\ N \in Nat \ {0} /\ \A j \in 1 .. Len(cq) : cq[j] \in Cqes
  BY ClientAssumption, ElementOfSeq DEF PoolTypes
<1> DEFINE m == IF Len(cq) < N THEN Len(cq) ELSE N
<1>2. m \in Nat /\ m <= Len(cq) /\ m <= N /\ Batch = 1 .. m
  BY <1>1 DEF Batch
<1> HIDE DEF m
<1>3. IsFiniteSet(1 .. m) /\ Cardinality(1 .. m) = IF 1 > m THEN 0 ELSE m - 1 + 1
  BY <1>2, FS_Interval
<1>4. IsFiniteSet(Batch) /\ Cardinality(Batch) = m
  BY <1>2, <1>3
<1>5. Reporting \in SUBSET Batch
  BY DEF Reporting
<1>6. IsFiniteSet(Reporting) /\ Cardinality(Reporting) <= Cardinality(Batch)
  BY <1>4, <1>5, FS_Subset
<1>7. Cardinality(Reporting) \in Nat
  BY <1>6, FS_CardinalityType
<1>8. \A j \in 1 .. Len(cq) : cq[j].id \in Ids
  BY <1>1 DEF Cqes
<1> QED
  BY <1>1, <1>2, <1>4, <1>5, <1>6, <1>7, <1>8

(* Every place of the bundle has its completion, and another one each. *)
LEMMA RankedFacts ==
    ASSUME PoolTypes
    PROVE  \A k \in 1 .. Cardinality(Reporting) :
              /\ Ranked(k) \in Reporting
              /\ \A l \in 1 .. Cardinality(Reporting) : Ranked(k) = Ranked(l) => k = l
<1>1. IsFiniteSet(Reporting) /\ Reporting \subseteq Nat
  BY BatchFacts
<1>2. \A j : {i \in Reporting : i <= j} = UpTo(Reporting, j)
  BY DEF UpTo
<1>3. ASSUME NEW k \in 1 .. Cardinality(Reporting)
      PROVE  Ranked(k) \in Reporting /\ Cardinality(UpTo(Reporting, Ranked(k))) = k
  <2>1. \E j \in Reporting : Cardinality(UpTo(Reporting, j)) = k
    BY <1>1, Ranks
  <2>2. \E j \in Reporting : Cardinality({i \in Reporting : i <= j}) = k
    BY <1>2, <2>1
  <2>3. /\ Ranked(k) \in Reporting
        /\ Cardinality({i \in Reporting : i <= Ranked(k)}) = k
    BY <2>2 DEF Ranked
  <2> QED
    BY <1>2, <2>3
<1> QED
  BY <1>3

(* A completion that is reported finds its record, and unless it is of a receive
   it is the first in the batch to do so. *)
LEMMA ReportFacts ==
    ASSUME PoolTypes, NEW j \in Reporting
    PROVE  /\ Record(j) = rec[cq[j].id] /\ Record(j) \in Rec /\ cq[j].id \in Ids
           /\ Entry(j) \in Entries
           /\ Entry(j).kind = Record(j).kind /\ Entry(j).slot = Record(j).slot
           /\ Record(j).kind # "recv" => \A i \in 1 .. j - 1 : cq[i].id # cq[j].id
<1>1. j \in 1 .. Len(cq) /\ cq[j] \in Cqes /\ cq[j].id \in Ids
  BY BatchFacts
<1>2. rec[cq[j].id] \in Rec \cup {NoRec}
  BY <1>1 DEF PoolTypes, TypeOK
<1>3. Record(j).kind \in {"connect", "recv", "send"}
  BY DEF Reporting, Reports
<1>4. Record(j) # NoRec
  BY <1>3 DEF NoRec
<1>5. Record(j) = rec[cq[j].id]
  BY <1>4 DEF Record
<1>6. Record(j) \in Rec
  BY <1>2, <1>4, <1>5
<1>7. Entry(j) \in Entries
  BY <1>1, <1>3, <1>6 DEF Entry, Entries, Rec, Cqes
<1>8. Record(j).kind # "recv" => \A i \in 1 .. j - 1 : cq[i].id # cq[j].id
  BY <1>4, <1>5 DEF Record, Forgets
<1> QED
  BY <1>1, <1>5, <1>6, <1>7, <1>8 DEF Entry

(* What check collects: entries for records it has found. *)
LEMMA CollectedBundle ==
    ASSUME PoolTypes, CheckCollect
    PROVE  /\ bundle' \in Seq(Entries) /\ Len(bundle') \in 0 .. N
           /\ Len(bundle') = Cardinality(Reporting)
           /\ \A k \in 1 .. Len(bundle') :
                 Ranked(k) \in Reporting /\ bundle'[k] = Entry(Ranked(k))
<1> DEFINE n == Cardinality(Reporting)
<1>1. n \in 0 .. N /\ N \in Nat
  BY BatchFacts, ClientAssumption
<1>2. \A k \in 1 .. n : Ranked(k) \in Reporting
  BY RankedFacts
<1>3. \A k \in 1 .. n : Entry(Ranked(k)) \in Entries
  BY <1>2, ReportFacts
<1>4. bundle' = [k \in 1 .. n |-> Entry(Ranked(k))]
  BY DEF CheckCollect
<1> HIDE DEF n
<1>5. n \in Nat
  BY <1>1
<1>6. bundle' \in Seq(Entries) /\ Len(bundle') = n
  BY <1>3, <1>4, <1>5
<1> QED
  BY <1>1, <1>2, <1>4, <1>6 DEF n

(* A record is turned into at most one entry, and forgotten then. *)
LEMMA CollectedTokens ==
    ASSUME PoolTypes, PoolTypes', Bundled, CheckCollect,
           NEW K \in SUBSET Rec, \A r \in K : r.kind # "recv"
    PROVE  Tokens(K)' \in Nat /\ Tokens(K)' <= Tokens(K)
<1> DEFINE A == RecsOf(K)
           B == {i \in Ids : rec'[i] \in K}
           D == {k \in DOMAIN bundle' : bundle'[k] \in Reps(K)}
           id == [k \in D |-> cq[Ranked(k)].id]
<1>1. /\ bundle' \in Seq(Entries) /\ Len(bundle') = Cardinality(Reporting)
      /\ \A k \in 1 .. Len(bundle') :
            Ranked(k) \in Reporting /\ bundle'[k] = Entry(Ranked(k))
  BY CollectedBundle
<1>2. DOMAIN bundle' = 1 .. Len(bundle')
  BY <1>1
<1>3. rec' = [i \in Ids |-> IF (\E j \in Batch : cq[j].id = i) /\ Forgets(rec[i].kind)
                            THEN NoRec ELSE rec[i]]
  BY DEF CheckCollect
<1>4. B \in SUBSET A
  BY <1>3, NoRecNone DEF RecsOf
<1>5. ASSUME NEW k \in D
      PROVE  /\ Ranked(k) \in Reporting /\ Ranked(k) \in Nat
             /\ id[k] = cq[Ranked(k)].id
             /\ id[k] \in A \ B
             /\ \A i \in 1 .. Ranked(k) - 1 : cq[i].id # id[k]
  <2>1. /\ Ranked(k) \in Reporting /\ bundle'[k] = Entry(Ranked(k))
        /\ Ranked(k) \in Batch /\ Ranked(k) \in Nat
    BY <1>1, <1>2, BatchFacts
  <2>2. PICK j \in Reporting : j = Ranked(k)
    BY <2>1
  <2>3. /\ Record(j) = rec[cq[j].id] /\ Record(j) \in Rec /\ cq[j].id \in Ids
        /\ Entry(j).kind = Record(j).kind /\ Entry(j).slot = Record(j).slot
        /\ Record(j).kind # "recv" => \A i \in 1 .. j - 1 : cq[i].id # cq[j].id
    BY ReportFacts
  <2>4. [kind |-> Entry(j).kind, slot |-> Entry(j).slot] \in K
    BY <2>1, <2>2 DEF Reps
  <2>5. Record(j) = [kind |-> Record(j).kind, slot |-> Record(j).slot]
    BY <2>3 DEF Rec
  <2>6. Record(j) \in K /\ Record(j).kind # "recv"
    BY <2>3, <2>4, <2>5
  <2>7. cq[j].id \in A /\ rec'[cq[j].id] = NoRec
    BY <1>3, <2>1, <2>2, <2>3, <2>6 DEF RecsOf, Forgets
  <2>8. cq[j].id \notin B
    BY <2>7, NoRecNone
  <2>9. id[k] = cq[j].id
    BY <2>2
  <2> QED
    BY <2>1, <2>2, <2>3, <2>6, <2>7, <2>8, <2>9
<1>6. ASSUME NEW k \in D, NEW l \in D, id[k] = id[l] PROVE k = l
  <2>1. Ranked(k) = Ranked(l)
    <3>1. ~(Ranked(k) < Ranked(l))
      <4>1. Ranked(k) < Ranked(l) => Ranked(k) \in 1 .. Ranked(l) - 1
        BY <1>5, BatchFacts
      <4> QED
        BY <1>5, <1>6, <4>1
    <3>2. ~(Ranked(l) < Ranked(k))
      <4>1. Ranked(l) < Ranked(k) => Ranked(l) \in 1 .. Ranked(k) - 1
        BY <1>5, BatchFacts
      <4> QED
        BY <1>5, <1>6, <4>1
    <3> QED
      BY <1>5, <3>1, <3>2
  <2>2. k \in 1 .. Cardinality(Reporting) /\ l \in 1 .. Cardinality(Reporting)
    BY <1>1, <1>2
  <2> QED
    BY <2>1, <2>2, RankedFacts
<1>7. IsFiniteSet(A) /\ Cardinality(A) \in Nat /\ Count(bundle, Reps(K)) \in Nat
  BY TokensType
<1>8. id \in Injection(D, A \ B)
  <2>1. id \in [D -> A \ B]
    BY <1>5
  <2> QED
    BY <1>6, <2>1 DEF Injection, IsInjective
<1> HIDE DEF A, B, D, id
<1>9. IsFiniteSet(B) /\ IsFiniteSet(A \ B) /\ A \cap B = B
  BY <1>4, <1>7, FS_Subset, FS_Difference
<1>10. Cardinality(A \ B) = Cardinality(A) - Cardinality(B)
  BY <1>7, <1>9, FS_Difference
<1>11. Cardinality(D) <= Cardinality(A \ B) /\ IsFiniteSet(D)
  BY <1>8, <1>9, FS_Injection
<1>12. Cardinality(B) \in Nat /\ Cardinality(D) \in Nat
  BY <1>9, <1>11, FS_CardinalityType
<1>13. Tokens(K)' = Cardinality(B) + Cardinality(D)
  BY DEF Tokens, RecsOf, Count, Reps, Entries, B, D
<1>14. Tokens(K) = Cardinality(A) + Count(bundle, Reps(K))
  BY DEF Tokens, A
<1> QED
  BY <1>7, <1>10, <1>11, <1>12, <1>13, <1>14

-----------------------------------------------------------------------------
(* What the steps do to the tokens.                                        *)

(* The tokens after a step, in terms of the records and the bundle after it. *)
LEMMA TokensPrimed ==
    ASSUME NEW K
    PROVE  Tokens(K)' = Cardinality({i \in Ids : rec'[i] \in K}) + Count(bundle', Reps(K))
BY DEF Tokens, RecsOf, Reps, Entries, Count

(* These are sets of records. *)
LEMMA KindsFacts ==
    /\ AnyConnect \in SUBSET Rec /\ \A r \in AnyConnect : r.kind = "connect"
    /\ \A x \in Slots :
          /\ SendOf(x) \in SUBSET Rec /\ \A r \in SendOf(x) : r.kind = "send" /\ r.slot = x
          /\ ConnectOf(x) \in SUBSET Rec /\ \A r \in ConnectOf(x) : r.kind = "connect"
          /\ [kind |-> "send", slot |-> x] \in SendOf(x)
          /\ [kind |-> "send", slot |-> x] \in Rec
          /\ [kind |-> "recv", slot |-> x] \in Rec
BY DEF AnyConnect, SendOf, ConnectOf, Rec

(* Whose token the head of the bundle is. *)
LEMMA HeadToken ==
    ASSUME PoolTypes, Bundled, pc = "bundle"
    PROVE  /\ Head(bundle).kind = "send" => Head(bundle) \in Reps(SendOf(Slot))
           /\ Head(bundle).kind = "connect" =>
                 Head(bundle) \in Reps(ConnectOf(Slot)) /\ Head(bundle) \in Reps(AnyConnect)
<1>1. Head(bundle) \in Entries /\ Slot \in Slots /\ Slot = Head(bundle).slot
  BY HeadEntry DEF Slot
<1> QED
  BY <1>1 DEF Reps, SendOf, ConnectOf, AnyConnect, Rec

(* A handler that leaves the records alone uses up its token. *)
LEMMA HandledTokens ==
    ASSUME PoolTypes, Bundled, pc = "bundle", NEW err \in BOOLEAN, Return(err), rec' = rec, NEW K
    PROVE  /\ Tokens(K) \in Nat /\ Tokens(K)' \in Nat /\ Tokens(K)' <= Tokens(K)
           /\ Head(bundle) \in Reps(K) => Tokens(K)' + 1 <= Tokens(K)
<1>1. /\ Cardinality(RecsOf(K)) \in Nat /\ Count(bundle, Reps(K)) \in Nat
  BY TokensType
<1>2. /\ Count(bundle', Reps(K)) \in Nat /\ Count(bundle', Reps(K)) <= Count(bundle, Reps(K))
      /\ Head(bundle) \in Reps(K) => Count(bundle', Reps(K)) + 1 <= Count(bundle, Reps(K))
  BY ReturnedTokens
<1>3. Tokens(K)' = Cardinality(RecsOf(K)) + Count(bundle', Reps(K))
  BY TokensPrimed DEF RecsOf
<1> QED
  BY <1>1, <1>2, <1>3 DEF Tokens

(* A handler that has submitted ids for w uses up its token and makes new ones. *)
LEMMA SubmitTokens ==
    ASSUME PoolTypes, Bundled, pc = "bundle", NEW err \in BOOLEAN, Return(err),
           NEW K \in SUBSET Rec, NEW n \in Nat,
           Cardinality({i \in Ids : rec'[i] \in K}) = Cardinality(RecsOf(K)) + n
    PROVE  /\ Tokens(K) \in Nat /\ Tokens(K)' \in Nat /\ Tokens(K)' <= Tokens(K) + n
           /\ Head(bundle) \in Reps(K) => Tokens(K)' + 1 <= Tokens(K) + n
<1>1. /\ Cardinality(RecsOf(K)) \in Nat /\ Count(bundle, Reps(K)) \in Nat
  BY TokensType
<1>2. /\ Count(bundle', Reps(K)) \in Nat /\ Count(bundle', Reps(K)) <= Count(bundle, Reps(K))
      /\ Head(bundle) \in Reps(K) => Count(bundle', Reps(K)) + 1 <= Count(bundle, Reps(K))
  BY ReturnedTokens
<1>3. Tokens(K)' = Cardinality({i \in Ids : rec'[i] \in K}) + Count(bundle', Reps(K))
  BY TokensPrimed
<1> QED
  BY <1>1, <1>2, <1>3 DEF Tokens

(* With no more tokens and everything else as it was, nothing is lost. *)
LEMMA FewerTokens ==
    ASSUME PoolInv, UNCHANGED <<bufs, ctx, state_connecting>>,
           \A x \in Slots : /\ Tokens(SendOf(x))' \in Nat
                            /\ Tokens(SendOf(x))' <= Tokens(SendOf(x))
                            /\ Tokens(ConnectOf(x))' \in Nat
                            /\ Tokens(ConnectOf(x))' <= Tokens(ConnectOf(x)),
           Tokens(AnyConnect)' \in Nat, Tokens(AnyConnect)' <= Tokens(AnyConnect)
    PROVE  Counted' /\ Single' /\ Connecting'
<1>1. PoolTypes /\ Counted /\ Single /\ Connecting
  BY DEF PoolInv
<1>2. \A x \in Slots : /\ Tokens(SendOf(x)) \in Nat /\ Tokens(ConnectOf(x)) \in Nat
                       /\ bufs[x] \in Nat
  BY <1>1, TokensType DEF PoolTypes, TypeOK
<1>3. Tokens(AnyConnect) \in Nat /\ state_connecting \in Nat
  BY <1>1, TokensType DEF PoolTypes, TypeOK
<1>4. Counted'
  <2> SUFFICES ASSUME NEW x \in Slots
               PROVE  bufs[x] >= Tokens(SendOf(x))'
    BY DEF Counted
  <2>1. bufs[x] >= Tokens(SendOf(x))
    BY <1>1 DEF Counted
  <2> QED
    BY <1>2, <2>1
<1>5. Single'
  <2> SUFFICES ASSUME NEW x \in Slots
               PROVE  /\ Tokens(ConnectOf(x))' <= 1
                      /\ Tokens(ConnectOf(x))' > 0 =>
                            ctx[x] = "connecting" /\ Tokens(SendOf(x))' = 0
    BY DEF Single
  <2>1. /\ Tokens(ConnectOf(x)) <= 1
        /\ Tokens(ConnectOf(x)) > 0 => ctx[x] = "connecting" /\ Tokens(SendOf(x)) = 0
    BY <1>1 DEF Single
  <2> QED
    BY <1>2, <2>1
<1>6. Connecting'
  <2>1. state_connecting >= Tokens(AnyConnect)
    BY <1>1 DEF Connecting
  <2>2. state_connecting >= Tokens(AnyConnect)'
    BY <1>3, <2>1
  <2> QED
    BY <2>2 DEF Connecting
<1> QED
  BY <1>4, <1>5, <1>6

(* A slot changes its state. *)
LEMMA WithMoves ==
    ASSUME PoolTypes, NEW x \in Slots, NEW a, ctx[x] = a, NEW b, a # b,
           \A y \in Slots : ctx'[y] = IF y = x THEN b ELSE ctx[y]
    PROVE  /\ With(a) \in Nat /\ With(b) \in Nat
           /\ With(a)' = With(a) - 1 /\ With(b)' = With(b) + 1
           /\ \A d : d # a /\ d # b => With(d)' = With(d)
<1> DEFINE S(d) == {y \in Slots : ctx[y] = d}
           T(d) == {y \in Slots : ctx'[y] = d}
<1>1. \A y \in Slots : ctx'[y] = IF y = x THEN b ELSE ctx[y]
  OBVIOUS
<1>2. \A d : IsFiniteSet(S(d)) /\ Cardinality(S(d)) \in Nat
  BY IdsFinite, FS_Subset, FS_CardinalityType
<1>3. x \in S(a) /\ x \notin S(b) /\ T(a) = S(a) \ {x} /\ T(b) = S(b) \cup {x}
  BY <1>1
<1>4. \A d : d # a /\ d # b => T(d) = S(d)
  BY <1>1
<1>5. \A d : With(d) = Cardinality(S(d)) /\ With(d)' = Cardinality(T(d))
  BY DEF With
<1> HIDE DEF S, T
<1>6. Cardinality(S(a) \ {x}) = Cardinality(S(a)) - 1
  BY <1>2, <1>3, FS_RemoveElement
<1>7. Cardinality(S(b) \cup {x}) = Cardinality(S(b)) + 1
  BY <1>2, <1>3, FS_AddElement
<1> QED
  BY <1>2, <1>3, <1>4, <1>5, <1>6, <1>7

(* How many of ids come before id. *)
Rank(ids, id) == Cardinality({j \in ids : j < id})

(* The ids send_all_out may use; its output reaches into the buffer of each. *)
LEMMA SendAllOutFacts ==
    ASSUME NEW q \in Nat, NEW s, NEW b, NEW free \in SUBSET Ids,
           NEW out, out = SendAllOut(q, s, b, free)
    PROVE  /\ out.ids \in SUBSET free /\ out.err \in BOOLEAN /\ out.q = q
           /\ IsFiniteSet(out.ids) /\ Cardinality(out.ids) \in Nat
           /\ \A i \in out.ids : /\ Rank(out.ids, i) \in Nat /\ Rank(out.ids, i) * BufSize < q
                                 /\ Rank(out.ids, i) < Cardinality(out.ids)
<1> DEFINE n == IF Blocked(s, b) THEN 0 ELSE CeilDiv(q, BufSize)
           L == Lowest(n, free)
<1>1. out = [ids |-> L, q |-> q, err |-> Cardinality(free) < n]
  BY DEF SendAllOut
<1>2. IsFiniteSet(free) /\ L \in SUBSET free
  BY IdsFinite, FS_Subset DEF Lowest
<1>3. IsFiniteSet(L) /\ Cardinality(L) \in Nat
  BY <1>2, FS_Subset, FS_CardinalityType
<1>4. BufSize \in Nat \ {0}
  BY ClientAssumption
<1>5. ASSUME NEW k \in Nat, k < n PROVE k * BufSize < q
  <2>1. /\ n = (q + BufSize - 1) \div BufSize /\ q + BufSize - 1 \in Nat
    BY <1>4, <1>5 DEF CeilDiv
  <2> DEFINE a == q + BufSize - 1
             c == a \div BufSize
  <2>2. c \in Nat /\ c * BufSize <= a
    BY <1>4, <2>1, DivBounds
  <2>3. k < c
    BY <1>5, <2>1
  <2> HIDE DEF c
  <2>4. (k + 1) * BufSize <= c * BufSize
    BY <1>4, <2>2, <2>3, MulMono
  <2>5. (k + 1) * BufSize = k * BufSize + BufSize
    BY <1>4
  <2> QED
    BY <1>4, <2>2, <2>4, <2>5
<1>6. ASSUME NEW i \in L
      PROVE  Rank(L, i) \in Nat /\ Rank(L, i) < n /\ Rank(L, i) < Cardinality(L)
  <2>1. {j \in L : j < i} \in SUBSET {j \in free : j < i} /\ {j \in free : j < i} \in SUBSET free
    BY <1>2
  <2>2. IsFiniteSet({j \in free : j < i}) /\ IsFiniteSet({j \in L : j < i})
    BY <1>2, <2>1, FS_Subset
  <2>3. /\ Cardinality({j \in L : j < i}) <= Cardinality({j \in free : j < i})
        /\ Cardinality({j \in L : j < i}) \in Nat /\ Cardinality({j \in free : j < i}) \in Nat
    BY <2>1, <2>2, FS_Subset, FS_CardinalityType
  <2>4. Cardinality({j \in free : j < i}) < n /\ n \in Nat
    <3>1. n \in Nat
      <4>1. q + BufSize - 1 \in Nat
        BY <1>4
      <4> QED
        BY <1>4, <4>1, DivBounds DEF CeilDiv
    <3> QED
      BY <3>1 DEF Lowest
  <2>5. {j \in L : j < i} \in SUBSET (L \ {i}) /\ IsFiniteSet(L \ {i})
        /\ Cardinality(L \ {i}) = Cardinality(L) - 1
    <3>1. \A j \in L : j \in Nat
      BY <1>2, IdsFinite
    <3>2. \A j \in L : j < i => j # i
      BY <3>1
    <3> QED
      BY <1>3, <3>2, FS_RemoveElement
  <2>6. Cardinality({j \in L : j < i}) <= Cardinality(L \ {i})
    BY <2>5, FS_Subset
  <2> HIDE DEF L, n
  <2> QED
    BY <1>3, <2>3, <2>4, <2>5, <2>6 DEF Rank
<1>7. out.err \in BOOLEAN /\ out.ids = L /\ out.q = q
  BY <1>1
<1> HIDE DEF L, n
<1> QED
  BY <1>2, <1>3, <1>5, <1>6, <1>7

(* Every send has a byte, and no more than a buffer. *)
LEMMA LengthFacts ==
    ASSUME NEW out, out.q \in Nat, NEW i \in out.ids,
           Rank(out.ids, i) \in Nat, Rank(out.ids, i) * BufSize < out.q
    PROVE  Length(out, i) \in 1 .. BufSize /\ Length(out, i) <= out.q - Rank(out.ids, i) * BufSize
<1> DEFINE k == Rank(out.ids, i)
           rest == out.q - k * BufSize
<1>1. Length(out, i) = MinOf(BufSize, rest)
  BY DEF Length, Rank
<1>2. BufSize \in Nat \ {0} /\ k \in Nat
  BY ClientAssumption
<1> HIDE DEF k
<1>3. k * BufSize \in Nat
  BY <1>2
<1>4. rest \in Nat \ {0}
  BY <1>3 DEF k
<1> QED
  BY <1>1, <1>2, <1>4 DEF MinOf, k

(* Sends are pushed: the kernel has them, and the stream counts them. *)
LEMMA SubmittedFacts ==
    ASSUME PoolTypes, NEW x \in Slots, NEW out, out.ids \in SUBSET Ids, out.q \in Nat,
           IsFiniteSet(out.ids), Cardinality(out.ids) \in Nat,
           \A i \in out.ids : Rank(out.ids, i) \in Nat /\ Rank(out.ids, i) * BufSize < out.q,
           NEW s \in Nat, NEW b \in Nat, Submitted(x, out, s, b)
    PROVE  /\ unacked' \in [Sends -> Nat] /\ unnotified' \in [Sends -> Nat]
           /\ sends' \in [Slots -> Nat] /\ bufs' \in [Slots -> Nat]
           /\ Bytes(out) \in Nat /\ sends'[x] = s + Bytes(out)
           /\ bufs'[x] = b + Cardinality(out.ids)
           /\ \A y \in Slots : y # x => sends'[y] = sends[y] /\ bufs'[y] = bufs[y]
           /\ \A i \in out.ids : \E l \in 1 .. BufSize : unacked'[<<i, x, l>>] > 0
           /\ \A p \in Sends : unacked[p] > 0 => unacked'[p] > 0
<1> DEFINE n == Cardinality(out.ids)
<1>1. /\ unacked \in [Sends -> Nat] /\ unnotified \in [Sends -> Nat]
      /\ sends \in [Slots -> Nat] /\ bufs \in [Slots -> Nat]
  BY DEF PoolTypes, TypeOK
<1>2. ASSUME NEW f \in [Sends -> Nat]
      PROVE  /\ Plus(f, x, out) \in [Sends -> Nat]
             /\ \A i \in out.ids : Plus(f, x, out)[<<i, x, Length(out, i)>>] > 0
             /\ \A p \in Sends : f[p] > 0 => Plus(f, x, out)[p] > 0
  <2>1. \A p \in Sends : f[p] \in Nat
    OBVIOUS
  <2>2. \A p \in Sends : Plus(f, x, out)[p] =
           IF p[1] \in out.ids /\ p[2] = x /\ p[3] = Length(out, p[1]) THEN f[p] + 1 ELSE f[p]
    BY DEF Plus
  <2>3. Plus(f, x, out) \in [Sends -> Nat]
    BY <2>1 DEF Plus
  <2>4. ASSUME NEW i \in out.ids PROVE Plus(f, x, out)[<<i, x, Length(out, i)>>] > 0
    <3>1. Length(out, i) \in 1 .. BufSize
      BY LengthFacts
    <3>2. PICK p \in Sends : p = <<i, x, Length(out, i)>>
      BY <3>1 DEF Sends
    <3>3. p[1] = i /\ p[2] = x /\ p[3] = Length(out, i)
      BY <3>2
    <3>4. Plus(f, x, out)[p] = f[p] + 1
      BY <2>2, <3>3
    <3> QED
      BY <2>1, <3>2, <3>4
  <2> QED
    BY <2>1, <2>2, <2>3, <2>4
<1>3. unacked' = Plus(unacked, x, out) /\ unnotified' = Plus(unnotified, x, out)
  BY DEF Submitted
<1>4. /\ sends' = [sends EXCEPT ![x] = s + Bytes(out)]
      /\ bufs' = [bufs EXCEPT ![x] = b + n]
  BY DEF Submitted, CountBufs, CountBytes
<1>5. Bytes(out) \in Nat
  <2>1. n \in Nat /\ BufSize \in Nat
    BY ClientAssumption
  <2> HIDE DEF n
  <2>2. n * BufSize \in Nat
    BY <2>1
  <2> QED
    BY <2>2 DEF Bytes, MinOf, n
<1>6. n \in Nat /\ s + Bytes(out) \in Nat /\ b + n \in Nat
  BY <1>5
<1> HIDE DEF n
<1>7. /\ sends' \in [Slots -> Nat] /\ bufs' \in [Slots -> Nat]
      /\ sends'[x] = s + Bytes(out) /\ bufs'[x] = b + n
      /\ \A y \in Slots : y # x => sends'[y] = sends[y] /\ bufs'[y] = bufs[y]
  BY <1>1, <1>4, <1>6
<1>8. \A i \in out.ids : \E l \in 1 .. BufSize : unacked'[<<i, x, l>>] > 0
  BY <1>1, <1>2, <1>3, LengthFacts
<1> QED
  BY <1>1, <1>2, <1>3, <1>5, <1>7, <1>8 DEF n

-----------------------------------------------------------------------------
(* The steps.                                                              *)

(* with_capacity. *)
LEMMA InitPool == Init => PoolInv
<1> SUFFICES ASSUME Init PROVE PoolInv
  OBVIOUS
<1>1. bundle = <<>> /\ cq = <<>> /\ \A i \in Ids : rec[i] = NoRec
  BY DEF Init
<1>2. PoolTypes
  <2>1. Len(bundle) = 0 /\ N \in Nat
    BY <1>1, ClientAssumption
  <2>2. /\ inflight \subseteq Ids \X Rec
        /\ unacked \in [Sends -> Nat] /\ unnotified \in [Sends -> Nat]
        /\ rec \in [Ids -> Rec \cup {NoRec}]
    BY DEF Init
  <2>3. /\ ctx \in [Slots -> {"none", "connecting", "error", "stream"}]
        /\ sends \in [Slots -> Nat] /\ bufs \in [Slots -> Nat] /\ mixed \subseteq Slots
        /\ state_connecting \in Nat /\ state_error \in Nat /\ state_connected \in Nat
        /\ hugetlb \in BOOLEAN /\ failed \in BOOLEAN /\ pc \in {"idle", "bundle", "panic"}
    BY DEF Init
  <2>4. TypeOK
    BY <2>1, <2>2, <2>3 DEF TypeOK
  <2> QED
    BY <1>1, <2>4 DEF PoolTypes
<1>3. ASSUME NEW K \in SUBSET Rec PROVE Tokens(K) = 0
  <2>1. RecsOf(K) = {}
    BY <1>1, NoRecNone DEF RecsOf
  <2> QED
    BY <1>1, <2>1, CountEmpty, FS_EmptySet DEF Tokens
<1>4. Counted /\ Single /\ Connecting
  <2>1. \A x \in Slots : Tokens(SendOf(x)) = 0 /\ Tokens(ConnectOf(x)) = 0
    BY <1>3, KindsFacts
  <2>2. Tokens(AnyConnect) = 0
    BY <1>3, KindsFacts
  <2>3. \A x \in Slots : bufs[x] = 0
    BY DEF Init
  <2> QED
    BY <2>1, <2>2, <2>3 DEF Init, Counted, Single, Connecting
<1>5. Bundled /\ Waiting /\ RecordsHaveStream
  BY <1>1 DEF Init, Bundled, Waiting, RecordsHaveStream, NoRec
<1>6. CountsMatchPool
  <2>1. \A d : d # "none" => {x \in Slots : ctx[x] = d} = {}
    BY DEF Init
  <2>2. \A d : d # "none" => With(d) = 0
    BY <2>1, FS_EmptySet DEF With
  <2> QED
    BY <2>2 DEF Init, CountsMatchPool
<1> QED
  BY <1>2, <1>4, <1>5, <1>6 DEF PoolInv

(* A step that only stops, or only sets up huge pages. *)
LEMMA IdleStep ==
    ASSUME PoolInv, UNCHANGED <<kernel, rec, ctx, streams, counts, bundle, history>>,
           hugetlb' \in BOOLEAN, pc' = pc \/ pc' = "panic"
    PROVE  PoolInv'
<1>1. /\ UNCHANGED <<inflight, unacked, unnotified, cq, rec, ctx, sends, bufs>>
      /\ UNCHANGED <<state_connecting, state_error, state_connected, bundle, failed, mixed>>
  BY DEF kernel, streams, counts, history
<1>2. PoolTypes'
  BY <1>1 DEF PoolInv, PoolTypes, TypeOK
<1>3. \A K : Tokens(K)' = Tokens(K)
  BY <1>1, TokensPrimed DEF Tokens, RecsOf
<1>4. Counted' /\ Single' /\ Connecting'
  BY <1>1, <1>3 DEF PoolInv, Counted, Single, Connecting
<1>5. Bundled' /\ Waiting' /\ RecordsHaveStream' /\ CountsMatchPool'
  BY <1>1 DEF PoolInv, Bundled, Waiting, Unacked, RecordsHaveStream, CountsMatchPool, With
<1> QED
  BY <1>2, <1>4, <1>5 DEF PoolInv

(* The kernel posts a completion: what it stands for is no longer in flight but in
   the queue. *)
LEMMA KernelPool ==
    ASSUME PoolInv, NEW id \in Ids, NEW x \in Slots, Kernel(id, x)
    PROVE  PoolInv'
<1>1. PoolTypes /\ TypeOK /\ cq \in Seq(Cqes)
  BY DEF PoolInv, PoolTypes
<1>2. /\ UNCHANGED <<rec, hugetlb, ctx, sends, bufs>>
      /\ UNCHANGED <<state_connecting, state_error, state_connected, bundle, failed, mixed, pc>>
  BY DEF Kernel, KernelSocket, KernelConnect, KernelRecv, KernelAck, KernelNotif,
     Answer, Post, streams, counts, history
<1>3. \E e \in Cqes :
         /\ cq' = Append(cq, e) /\ e.id = id
         /\ inflight' \subseteq inflight
         /\ \A r \in inflight : r \notin inflight' => r[1] = id /\ (r[2].kind = "recv" => ~e.ok)
         /\ unacked' \in [Sends -> Nat] /\ unnotified' \in [Sends -> Nat]
         /\ \A p \in Sends : unacked[p] > 0 => unacked'[p] > 0 \/ p[1] = id
  <2>1. \A kind \in {"socket", "connect", "recv", "send"}, ok \in BOOLEAN, more \in BOOLEAN,
          res \in Nat :
           [id |-> id, kind |-> kind, slot |-> x, ok |-> ok, more |-> more, res |-> res] \in Cqes
    BY DEF Cqes
  <2>2. /\ unacked \in [Sends -> Nat] /\ unnotified \in [Sends -> Nat]
    BY <1>1 DEF TypeOK
  <2>3. CASE KernelSocket(id, x) \/ KernelConnect(id, x)
    <3>1. PICK kind \in {"socket", "connect"}, ok \in BOOLEAN : Answer(id, kind, x, ok)
      BY <2>3 DEF KernelSocket, KernelConnect
    <3> DEFINE e == [id |-> id, kind |-> kind, slot |-> x, ok |-> ok, more |-> FALSE, res |-> 0]
    <3>2. /\ cq' = Append(cq, e) /\ UNCHANGED <<unacked, unnotified>>
          /\ inflight' = inflight \ {<<id, [kind |-> kind, slot |-> x]>>}
      BY <3>1 DEF Answer, Post, Request
    <3>3. e \in Cqes /\ e.id = id /\ e.ok = ok
      BY <2>1
    <3>4. \A r \in inflight : r \notin inflight' => r[1] = id /\ (r[2].kind = "recv" => ~e.ok)
      BY <3>1, <3>2, <3>3
    <3> HIDE DEF e
    <3> QED
      BY <2>2, <3>2, <3>3, <3>4
  <2>4. CASE KernelRecv(id, x)
    <3>1. PICK ok \in BOOLEAN :
             /\ inflight' = IF ok THEN inflight ELSE inflight \ {Request(id, "recv", x)}
             /\ Post(id, "recv", x, ok, ok, 0)
      BY <2>4 DEF KernelRecv
    <3> DEFINE e == [id |-> id, kind |-> "recv", slot |-> x, ok |-> ok, more |-> ok, res |-> 0]
    <3>2. cq' = Append(cq, e) /\ UNCHANGED <<unacked, unnotified>>
      BY <2>4, <3>1 DEF KernelRecv, Post
    <3>3. e \in Cqes /\ e.id = id /\ e.ok = ok
      BY <2>1
    <3>4. \A r \in inflight : r \notin inflight' => r[1] = id /\ (r[2].kind = "recv" => ~e.ok)
      BY <3>1, <3>3 DEF Request
    <3>5. inflight' \subseteq inflight
      BY <3>1
    <3> HIDE DEF e
    <3> QED
      BY <2>2, <3>2, <3>3, <3>4, <3>5
  <2>5. CASE \E l \in 1 .. BufSize : KernelAck(id, x, l)
    <3>1. PICK l \in 1 .. BufSize : KernelAck(id, x, l)
      BY <2>5
    <3>2. PICK p \in Sends : p = <<id, x, l>>
      BY DEF Sends
    <3>3. /\ unacked[p] > 0 /\ unacked' = [unacked EXCEPT ![p] = @ - 1]
          /\ UNCHANGED <<inflight, unnotified>>
          /\ \E r \in Results(l) :
                cq' = Append(cq, [id |-> id, kind |-> "send", slot |-> x, ok |-> r > 0,
                                  more |-> TRUE, res |-> r])
      BY <3>1, <3>2 DEF KernelAck, Post
    <3>4. Results(l) \subseteq Nat
      BY ClientAssumption DEF Results
    <3>5. PICK r \in Nat : cq' = Append(cq, [id |-> id, kind |-> "send", slot |-> x,
                                             ok |-> r > 0, more |-> TRUE, res |-> r])
      BY <3>3, <3>4
    <3> DEFINE e == [id |-> id, kind |-> "send", slot |-> x, ok |-> r > 0, more |-> TRUE, res |-> r]
    <3>6. e \in Cqes
      <4>1. (r > 0) \in BOOLEAN
        OBVIOUS
      <4> QED
        BY <2>1, <4>1
    <3>7. e.id = id /\ cq' = Append(cq, e) /\ e.kind = "send"
      BY <3>5
    <3> HIDE DEF e
    <3>8. unacked[p] - 1 \in Nat
      BY <2>2, <3>3
    <3>9. unacked' \in [Sends -> Nat] /\ \A o \in Sends : o # p => unacked'[o] = unacked[o]
      BY <2>2, <3>3, <3>8
    <3>10. \A o \in Sends : unacked[o] > 0 => unacked'[o] > 0 \/ o[1] = id
      BY <3>2, <3>9
    <3>11. \A o2 \in inflight : o2 \in inflight'
      BY <3>3
    <3> QED
      BY <2>2, <3>3, <3>6, <3>7, <3>9, <3>10, <3>11
  <2>6. CASE \E l \in 1 .. BufSize : KernelNotif(id, x, l)
    <3>1. PICK l \in 1 .. BufSize : KernelNotif(id, x, l)
      BY <2>6
    <3>2. PICK p \in Sends : p = <<id, x, l>>
      BY DEF Sends
    <3>3. /\ unnotified[p] > unacked[p] /\ unnotified' = [unnotified EXCEPT ![p] = @ - 1]
          /\ UNCHANGED <<inflight, unacked>>
          /\ cq' = Append(cq, [id |-> id, kind |-> "send", slot |-> x, ok |-> TRUE,
                               more |-> FALSE, res |-> 0])
      BY <3>1, <3>2 DEF KernelNotif, Post
    <3>4. unnotified[p] - 1 \in Nat
      BY <2>2, <3>3
    <3>5. unnotified' \in [Sends -> Nat]
      BY <2>2, <3>3, <3>4
    <3> QED
      BY <2>1, <2>2, <3>3, <3>5
  <2> QED
    BY <2>3, <2>4, <2>5, <2>6 DEF Kernel
<1>4. PICK e \in Cqes :
         /\ cq' = Append(cq, e) /\ e.id = id
         /\ inflight' \subseteq inflight
         /\ \A r \in inflight : r \notin inflight' => r[1] = id /\ (r[2].kind = "recv" => ~e.ok)
         /\ unacked' \in [Sends -> Nat] /\ unnotified' \in [Sends -> Nat]
         /\ \A p \in Sends : unacked[p] > 0 => unacked'[p] > 0 \/ p[1] = id
  BY <1>3
<1>5. /\ cq' \in Seq(Cqes) /\ Len(cq') = Len(cq) + 1 /\ Len(cq) \in Nat
      /\ cq'[Len(cq) + 1] = e /\ \A i \in 1 .. Len(cq) : cq'[i] = cq[i]
  BY <1>1, <1>4, AppendProperties
<1>6. PoolTypes'
  BY <1>1, <1>2, <1>4, <1>5 DEF PoolTypes, TypeOK
<1>7. \A K : Tokens(K)' = Tokens(K)
  BY <1>2, TokensPrimed DEF Tokens, RecsOf
<1>8. Counted' /\ Single' /\ Connecting'
  BY <1>2, <1>7 DEF PoolInv, Counted, Single, Connecting
<1>9. Bundled' /\ RecordsHaveStream' /\ CountsMatchPool'
  BY <1>2 DEF PoolInv, Bundled, RecordsHaveStream, CountsMatchPool, With
<1>10. Waiting'
  <2> SUFFICES ASSUME NEW i \in Ids, rec[i] # NoRec
               PROVE  \/ <<i, rec[i]>> \in inflight'
                      \/ Unacked(i, rec[i])'
                      \/ \E j \in 1 .. Len(cq') :
                            cq'[j].id = i /\ (rec[i].kind = "recv" => ~cq'[j].ok)
    BY <1>2 DEF Waiting, Unacked
  <2>1. Len(cq) + 1 \in 1 .. Len(cq') /\ \A j \in 1 .. Len(cq) : j \in 1 .. Len(cq')
    BY <1>5
  <2>2. rec[i] \in Rec /\ rec[i].slot \in Slots
    BY <1>1 DEF TypeOK, Rec
  <2>3. CASE <<i, rec[i]>> \in inflight
    <3>1. <<i, rec[i]>> \notin inflight' => i = id /\ (rec[i].kind = "recv" => ~e.ok)
      BY <1>4, <2>3
    <3> QED
      BY <1>4, <1>5, <2>1, <3>1
  <2>4. CASE Unacked(i, rec[i])
    <3>1. PICK l \in 1 .. BufSize : unacked[<<i, rec[i].slot, l>>] > 0
      BY <2>4 DEF Unacked
    <3>2. PICK p \in Sends : p = <<i, rec[i].slot, l>>
      BY <2>2 DEF Sends
    <3>3. unacked'[p] > 0 \/ i = id
      BY <1>4, <3>1, <3>2
    <3>4. i # id => Unacked(i, rec[i])'
      BY <1>2, <2>4, <3>2, <3>3 DEF Unacked
    <3>5. rec[i].kind = "send"
      BY <2>4 DEF Unacked
    <3> QED
      BY <1>4, <1>5, <2>1, <3>4, <3>5
  <2>5. CASE \E j \in 1 .. Len(cq) : cq[j].id = i /\ (rec[i].kind = "recv" => ~cq[j].ok)
    BY <1>5, <2>1, <2>5
  <2> QED
    BY <2>3, <2>4, <2>5 DEF PoolInv, Waiting
<1> QED
  BY <1>6, <1>8, <1>9, <1>10 DEF PoolInv

(* connect_with_cb: two records for every slot. *)
LEMMA ConnectPool ==
    ASSUME PoolInv, ConnectWithCb
    PROVE  PoolInv'
<1>1. PoolTypes /\ TypeOK /\ bundle = <<>> /\ cq \in Seq(Cqes)
  BY DEF PoolInv, PoolTypes, Bundled, ConnectWithCb
<1>2. /\ rec' = [i \in Ids |-> IF i <= 2 * PoolCount THEN FirstRec(i) ELSE NoRec]
      /\ inflight' = {<<i, FirstRec(i)>> : i \in 1 .. 2 * PoolCount}
      /\ ctx' = [x \in Slots |-> "connecting"]
      /\ state_connecting' = state_connecting + PoolCount
      /\ UNCHANGED <<unacked, unnotified, cq, hugetlb, sends, bufs, state_error,
                     state_connected, bundle, failed, mixed, pc>>
      /\ \A x \in Slots : ctx[x] = "none"
  BY DEF ConnectWithCb, streams, history, Fresh
<1>3. /\ PoolCount \in Nat \ {0} /\ NRecs \in Nat /\ 2 * PoolCount <= NRecs
      /\ 1 .. 2 * PoolCount \subseteq Ids
  BY ClientAssumption DEF Ids
<1>4. ASSUME NEW i \in 1 .. 2 * PoolCount
      PROVE  /\ i \in Ids /\ FirstRec(i) \in Rec /\ FirstRec(i).kind \in {"socket", "connect"}
             /\ FirstRec(i).kind = "connect" => i = 2 * FirstRec(i).slot + 2
             /\ rec'[i] = FirstRec(i) /\ <<i, rec'[i]>> \in inflight'
  <2>1. (i - 1) \div 2 \in 0 .. PoolCount - 1 /\ i \in Ids /\ i <= 2 * PoolCount
    BY <1>3
  <2>2. i % 2 # 1 => i = 2 * ((i - 1) \div 2) + 2
    BY <1>3
  <2>3. FirstRec(i) \in Rec /\ FirstRec(i).kind \in {"socket", "connect"}
    BY <2>1 DEF FirstRec, Rec, Slots
  <2>4. FirstRec(i).kind = "connect" => i = 2 * FirstRec(i).slot + 2
    BY <2>2 DEF FirstRec
  <2> QED
    BY <1>2, <2>1, <2>3, <2>4
<1>5. \A i \in Ids : i \notin 1 .. 2 * PoolCount => rec'[i] = NoRec
  BY <1>2, <1>3 DEF Ids
<1>6. ASSUME NEW i \in Ids
      PROVE  rec'[i] \in Rec \cup {NoRec} /\ rec'[i].kind \notin {"recv", "send"}
  <2>1. CASE i \in 1 .. 2 * PoolCount
    BY <1>4, <2>1
  <2>2. CASE i \notin 1 .. 2 * PoolCount
    BY <1>5, <2>2 DEF NoRec
  <2> QED
    BY <2>1, <2>2
<1>7. PoolTypes'
  <2>1. inflight' \subseteq Ids \X Rec
    <3> SUFFICES ASSUME NEW p \in inflight' PROVE p \in Ids \X Rec
      OBVIOUS
    <3>1. PICK i \in 1 .. 2 * PoolCount : p = <<i, FirstRec(i)>>
      BY <1>2
    <3>2. i \in Ids /\ FirstRec(i) \in Rec
      BY <1>4
    <3> HIDE DEF FirstRec
    <3> QED
      BY <3>1, <3>2
  <2>2. rec' \in [Ids -> Rec \cup {NoRec}]
    BY <1>2, <1>6
  <2>3. state_connecting' \in Nat /\ ctx' \in [Slots -> {"none", "connecting", "error", "stream"}]
    BY <1>1, <1>2, <1>3 DEF TypeOK
  <2> QED
    BY <1>1, <1>2, <2>1, <2>2, <2>3 DEF PoolTypes, TypeOK
<1>8. ASSUME NEW K \in SUBSET Rec PROVE Tokens(K)' = Cardinality({i \in Ids : rec'[i] \in K})
  <2>1. Count(bundle', Reps(K)) = 0
    BY <1>1, <1>2, CountEmpty
  <2>2. {i \in Ids : rec'[i] \in K} \in SUBSET Ids
    OBVIOUS
  <2>3. Cardinality({i \in Ids : rec'[i] \in K}) \in Nat
    BY <2>2, IdsFinite, FS_Subset, FS_CardinalityType
  <2> QED
    BY <2>1, <2>3, TokensPrimed
<1>9. \A x \in Slots : Tokens(SendOf(x))' = 0
  <2> SUFFICES ASSUME NEW x \in Slots PROVE Tokens(SendOf(x))' = 0
    OBVIOUS
  <2>1. SendOf(x) \in SUBSET Rec /\ \A r \in SendOf(x) : r.kind = "send"
    BY KindsFacts
  <2>2. {i \in Ids : rec'[i] \in SendOf(x)} = {}
    BY <1>6, <2>1
  <2> QED
    BY <1>8, <2>1, <2>2, FS_EmptySet
<1>10. \A x \in Slots : Tokens(ConnectOf(x))' <= 1
  <2> SUFFICES ASSUME NEW x \in Slots PROVE Tokens(ConnectOf(x))' <= 1
    OBVIOUS
  <2>1. {i \in Ids : rec'[i] \in ConnectOf(x)} \in SUBSET {2 * x + 2}
    <3>1. ASSUME NEW i \in Ids, rec'[i] \in ConnectOf(x) PROVE i = 2 * x + 2
      <4>1. rec'[i].kind = "connect" /\ rec'[i].slot = x
        BY <3>1 DEF ConnectOf
      <4>2. i \in 1 .. 2 * PoolCount
        BY <1>5, <4>1 DEF NoRec
      <4> QED
        BY <1>4, <4>1, <4>2
    <3> QED
      BY <3>1
  <2>2. IsFiniteSet({2 * x + 2}) /\ Cardinality({2 * x + 2}) = 1
    BY FS_Singleton
  <2>3. Cardinality({i \in Ids : rec'[i] \in ConnectOf(x)}) <= 1
    BY <2>1, <2>2, FS_Subset
  <2>4. ConnectOf(x) \in SUBSET Rec
    BY KindsFacts
  <2>5. Tokens(ConnectOf(x))' = Cardinality({i \in Ids : rec'[i] \in ConnectOf(x)})
    BY <1>8, <2>4
  <2> QED
    BY <2>3, <2>5
<1>11. Tokens(AnyConnect)' <= PoolCount /\ Tokens(AnyConnect)' \in Nat
  <2> DEFINE A == {i \in Ids : rec'[i] \in AnyConnect}
             f == [i \in A |-> rec'[i].slot]
  <2>1. ASSUME NEW i \in A
        PROVE  rec'[i].slot \in Slots /\ i = 2 * rec'[i].slot + 2
    <3>1. rec'[i] \in Rec /\ rec'[i].kind = "connect"
      BY DEF AnyConnect
    <3>2. i \in 1 .. 2 * PoolCount
      BY <1>5, <3>1 DEF NoRec
    <3> QED
      BY <1>4, <3>1, <3>2 DEF Rec
  <2>2. f \in Injection(A, Slots)
    <3>1. f \in [A -> Slots]
      BY <2>1
    <3>2. \A i, j \in A : f[i] = f[j] => i = j
      BY <2>1
    <3> QED
      BY <3>1, <3>2 DEF Injection, IsInjective
  <2> HIDE DEF f
  <2>3. IsFiniteSet(A) /\ Cardinality(A) <= PoolCount
    BY <2>2, IdsFinite, FS_Injection
  <2> QED
    BY <1>8, <2>3, KindsFacts, FS_CardinalityType
<1>12. Counted' /\ Single' /\ Connecting'
  <2>1. \A x \in Slots : bufs[x] \in Nat /\ ctx'[x] = "connecting"
    BY <1>1, <1>2 DEF TypeOK
  <2>2. state_connecting' >= Tokens(AnyConnect)'
    BY <1>1, <1>2, <1>3, <1>11 DEF TypeOK
  <2> QED
    BY <1>2, <1>9, <1>10, <2>1, <2>2 DEF Counted, Single, Connecting
<1>13. Bundled' /\ Waiting'
  BY <1>2, <1>4, <1>5 DEF PoolInv, Bundled, Waiting
<1>14. RecordsHaveStream'
  <2>1. DOMAIN bundle' = {}
    BY <1>1, <1>2
  <2> QED
    BY <1>6, <2>1 DEF RecordsHaveStream
<1>15. CountsMatchPool'
  <2>1. \A d : d # "none" => {x \in Slots : ctx[x] = d} = {}
    BY <1>2
  <2>2. \A d : d # "none" => With(d) = 0
    BY <2>1, FS_EmptySet DEF With
  <2>3. /\ {x \in Slots : ctx'[x] = "connecting"} = Slots
        /\ {x \in Slots : ctx'[x] = "error"} = {} /\ {x \in Slots : ctx'[x] = "stream"} = {}
    BY <1>2
  <2>4. With("connecting")' = PoolCount /\ With("error")' = 0 /\ With("stream")' = 0
    BY <2>3, IdsFinite, FS_EmptySet DEF With
  <2>5. ~failed => state_connecting = 0 /\ state_error = 0 /\ state_connected = 0
    BY <2>2 DEF PoolInv, CountsMatchPool
  <2> QED
    BY <1>2, <1>3, <2>4, <2>5 DEF CountsMatchPool
<1> QED
  BY <1>7, <1>12, <1>13, <1>14, <1>15 DEF PoolInv

(* handle_completions: records turn into entries of the bundle. *)
LEMMA CollectPool ==
    ASSUME PoolInv, CheckCollect
    PROVE  PoolInv'
<1>1. PoolTypes /\ TypeOK /\ bundle = <<>> /\ cq \in Seq(Cqes)
  BY DEF PoolInv, PoolTypes, Bundled, CheckCollect
<1>2. /\ rec' = [i \in Ids |-> IF (\E j \in Batch : cq[j].id = i) /\ Forgets(rec[i].kind)
                               THEN NoRec ELSE rec[i]]
      /\ cq' = SubSeq(cq, Cardinality(Batch) + 1, Len(cq))
      /\ pc' = IF bundle' = <<>> THEN "idle" ELSE "bundle"
      /\ \A j \in Batch : ~NoBuffer(j)
      /\ UNCHANGED <<inflight, unacked, unnotified, hugetlb, ctx, sends, bufs>>
      /\ UNCHANGED <<state_connecting, state_error, state_connected, failed>>
  BY DEF CheckCollect, streams, counts
<1>3. /\ Batch \subseteq 1 .. Len(cq) /\ Len(cq) \in Nat
      /\ Cardinality(Batch) \in Nat /\ Cardinality(Batch) <= Len(cq)
      /\ \A j \in 1 .. Len(cq) : j \in Batch <=> j <= Cardinality(Batch)
      /\ \A j \in 1 .. Len(cq) : cq[j] \in Cqes
  BY <1>1, BatchFacts
<1>4. /\ bundle' \in Seq(Entries) /\ Len(bundle') <= N
      /\ \A k \in 1 .. Len(bundle') :
            Ranked(k) \in Reporting /\ bundle'[k] = Entry(Ranked(k))
  BY <1>1, CollectedBundle
<1> DEFINE m == Cardinality(Batch)
<1>5. /\ cq' \in Seq(Cqes) /\ Len(cq') = Len(cq) - m
      /\ \A j \in 1 .. Len(cq) - m : cq'[j] = cq[m + j]
  <2> HIDE DEF m
  <2>1. m \in Nat /\ m <= Len(cq) /\ cq' = SubSeq(cq, m + 1, Len(cq))
    BY <1>2, <1>3 DEF m
  <2>2. \A j \in m + 1 .. Len(cq) : cq[j] \in Cqes
    BY <1>3, <2>1
  <2> QED
    BY <1>1, <1>3, <2>1, <2>2, SubSeqProperties
<1> HIDE DEF m
<1>6. PoolTypes'
  <2>1. rec' \in [Ids -> Rec \cup {NoRec}]
    BY <1>1, <1>2 DEF TypeOK
  <2>2. pc' \in {"idle", "bundle", "panic"} /\ mixed' \subseteq Slots
    <3>1. mixed' = mixed \cup {Record(j).slot : j \in {i \in Batch : Mixes(i)}}
      BY DEF CheckCollect
    <3>2. \A j \in Batch : Mixes(j) => Record(j).slot \in Slots
      <4> SUFFICES ASSUME NEW j \in Batch, Mixes(j) PROVE Record(j).slot \in Slots
        OBVIOUS
      <4>1. j \in Reporting
        BY DEF Mixes, Reporting
      <4>2. Record(j) \in Rec
        BY <1>1, <4>1, ReportFacts
      <4> QED
        BY <4>2 DEF Rec
    <3> QED
      BY <1>1, <1>2, <3>1, <3>2 DEF TypeOK
  <2> QED
    BY <1>1, <1>2, <1>4, <1>5, <2>1, <2>2 DEF PoolTypes, TypeOK
<1>7. Counted' /\ Single' /\ Connecting'
  <2>1. ASSUME NEW K \in SUBSET Rec, \A r \in K : r.kind # "recv"
        PROVE  Tokens(K)' \in Nat /\ Tokens(K)' <= Tokens(K)
    BY <1>1, <1>6, <2>1, CollectedTokens DEF PoolInv
  <2>2. \A x \in Slots : /\ Tokens(SendOf(x))' \in Nat
                         /\ Tokens(SendOf(x))' <= Tokens(SendOf(x))
                         /\ Tokens(ConnectOf(x))' \in Nat
                         /\ Tokens(ConnectOf(x))' <= Tokens(ConnectOf(x))
    BY <2>1, KindsFacts
  <2>3. Tokens(AnyConnect)' \in Nat /\ Tokens(AnyConnect)' <= Tokens(AnyConnect)
    BY <2>1, KindsFacts
  <2> QED
    BY <1>2, <2>2, <2>3, FewerTokens
<1>8. Bundled'
  BY <1>2 DEF Bundled
<1>9. Waiting'
  <2> SUFFICES ASSUME NEW i \in Ids, rec'[i] # NoRec
               PROVE  \/ <<i, rec'[i]>> \in inflight
                      \/ Unacked(i, rec'[i])
                      \/ \E j \in 1 .. Len(cq') :
                            cq'[j].id = i /\ (rec'[i].kind = "recv" => ~cq'[j].ok)
    BY <1>2 DEF Waiting, Unacked
  <2>1. /\ rec'[i] = rec[i] /\ rec[i] # NoRec
        /\ rec[i].kind = "recv" \/ \A j \in Batch : cq[j].id # i
    BY <1>2 DEF Forgets
  <2>2. CASE \E j \in 1 .. Len(cq) : cq[j].id = i /\ (rec[i].kind = "recv" => ~cq[j].ok)
    <3>1. PICK j \in 1 .. Len(cq) : cq[j].id = i /\ (rec[i].kind = "recv" => ~cq[j].ok)
      BY <2>2
    <3>2. j \notin Batch
      <4>1. j \in Batch /\ rec[i].kind = "recv" => NoBuffer(j)
        BY <3>1 DEF NoBuffer, Record, Forgets
      <4> QED
        BY <1>2, <2>1, <3>1, <4>1
    <3>3. m \in Nat /\ j > m
      BY <1>3, <3>2 DEF m
    <3>4. j - m \in 1 .. Len(cq') /\ cq'[j - m] = cq[j]
      <4>1. j - m \in 1 .. Len(cq) - m /\ m + (j - m) = j
        BY <1>3, <3>3
      <4> QED
        BY <1>5, <4>1
    <3> QED
      BY <2>1, <3>1, <3>4
  <2> QED
    BY <2>1, <2>2 DEF PoolInv, Waiting
<1>10. RecordsHaveStream'
  <2> SUFFICES ASSUME ~failed
               PROVE  /\ \A i \in Ids : rec'[i].kind \in {"recv", "send"} =>
                                           ctx[rec'[i].slot] = "stream"
                      /\ \A k \in 1 .. Len(bundle') : bundle'[k].kind \in {"recv", "send"} =>
                                           ctx[bundle'[k].slot] = "stream"
    <3>1. DOMAIN bundle' = 1 .. Len(bundle')
      BY <1>4
    <3> QED
      BY <1>2, <3>1 DEF RecordsHaveStream
  <2>1. \A i \in Ids : rec[i].kind \in {"recv", "send"} => ctx[rec[i].slot] = "stream"
    BY DEF PoolInv, RecordsHaveStream
  <2>2. \A i \in Ids : rec'[i].kind \in {"recv", "send"} => ctx[rec'[i].slot] = "stream"
    BY <1>2, <2>1 DEF NoRec
  <2>3. ASSUME NEW k \in 1 .. Len(bundle'), bundle'[k].kind \in {"recv", "send"}
        PROVE  ctx[bundle'[k].slot] = "stream"
    <3>1. PICK j \in Reporting : bundle'[k] = Entry(j)
      BY <1>4
    <3>2. /\ cq[j].id \in Ids /\ Record(j) = rec[cq[j].id]
          /\ Entry(j).kind = Record(j).kind /\ Entry(j).slot = Record(j).slot
      BY <1>1, ReportFacts
    <3> QED
      BY <2>1, <2>3, <3>1, <3>2
  <2> QED
    BY <2>2, <2>3
<1>11. CountsMatchPool'
  BY <1>2 DEF PoolInv, CountsMatchPool, With
<1> QED
  BY <1>6, <1>7, <1>8, <1>9, <1>10, <1>11 DEF PoolInv


-----------------------------------------------------------------------------
(* The handlers.                                                           *)

(* A slot that holds a stream keeps it, and so do the records and entries that
   were there. *)
LEMMA StreamsStay ==
    ASSUME PoolInv, pc = "bundle", NEW err \in BOOLEAN, Return(err), ~failed',
           \A y \in Slots : ctx[y] = "stream" => ctx'[y] = "stream"
    PROVE  /\ \A i \in Ids : rec[i].kind \in {"recv", "send"} => ctx'[rec[i].slot] = "stream"
           /\ \A j \in DOMAIN bundle' :
                 bundle'[j].kind \in {"recv", "send"} => ctx'[bundle'[j].slot] = "stream"
<1>1. PoolTypes /\ Bundled
  BY DEF PoolInv
<1>2. /\ bundle' \in Seq(Entries) /\ ~failed
      /\ \A i \in 1 .. Len(bundle') : \E j \in 1 .. Len(bundle) : bundle'[i] = bundle[j]
  BY <1>1, Returned
<1>3. /\ DOMAIN bundle' = 1 .. Len(bundle') /\ DOMAIN bundle = 1 .. Len(bundle)
      /\ \A j \in 1 .. Len(bundle) : bundle[j] \in Entries
  BY <1>1, <1>2, ElementOfSeq DEF PoolTypes
<1>4. ASSUME NEW i \in Ids, rec[i].kind \in {"recv", "send"}
      PROVE  ctx'[rec[i].slot] = "stream"
  <2>1. rec[i] \in Rec \cup {NoRec}
    BY <1>1 DEF PoolTypes, TypeOK
  <2>2. rec[i].slot \in Slots
    BY <1>4, <2>1 DEF Rec, NoRec
  <2>3. ctx[rec[i].slot] = "stream"
    BY <1>2, <1>4 DEF PoolInv, RecordsHaveStream
  <2> QED
    BY <2>2, <2>3
<1>5. ASSUME NEW k \in 1 .. Len(bundle'), bundle'[k].kind \in {"recv", "send"}
      PROVE  ctx'[bundle'[k].slot] = "stream"
  <2>1. PICK j \in 1 .. Len(bundle) : bundle'[k] = bundle[j]
    BY <1>2
  <2>2. bundle[j].slot \in Slots
    BY <1>3 DEF Entries
  <2>3. ctx[bundle[j].slot] = "stream"
    BY <1>2, <1>3, <1>5, <2>1 DEF PoolInv, RecordsHaveStream
  <2> QED
    BY <2>1, <2>2, <2>3
<1> QED
  BY <1>3, <1>4, <1>5

(* A handler leaves the queue alone, and what it records it has submitted. *)
LEMMA WaitingStays ==
    ASSUME PoolInv, cq' = cq, inflight \subseteq inflight',
           \A p \in Sends : unacked[p] > 0 => unacked'[p] > 0,
           \A i \in Ids : \/ rec'[i] = rec[i]
                          \/ <<i, rec'[i]>> \in inflight'
                          \/ Unacked(i, rec[i])'
    PROVE  Waiting'
<1> SUFFICES ASSUME NEW i \in Ids, rec'[i] # NoRec
             PROVE  \/ <<i, rec'[i]>> \in inflight'
                    \/ Unacked(i, rec[i])'
                    \/ \E j \in 1 .. Len(cq) :
                          cq[j].id = i /\ (rec'[i].kind = "recv" => ~cq[j].ok)
  BY DEF Waiting, Unacked
<1>1. CASE rec'[i] # rec[i]
  BY <1>1
<1>2. CASE rec'[i] = rec[i]
  <2>1. rec[i] \in Rec /\ rec[i].slot \in Slots
    BY <1>2 DEF PoolInv, PoolTypes, TypeOK, Rec
  <2>2. \/ <<i, rec[i]>> \in inflight
        \/ Unacked(i, rec[i])
        \/ \E j \in 1 .. Len(cq) : cq[j].id = i /\ (rec[i].kind = "recv" => ~cq[j].ok)
    BY <1>2 DEF PoolInv, Waiting
  <2>3. Unacked(i, rec[i]) => Unacked(i, rec[i])'
    <3> SUFFICES ASSUME Unacked(i, rec[i]) PROVE Unacked(i, rec[i])'
      OBVIOUS
    <3>1. PICK l \in 1 .. BufSize : unacked[<<i, rec[i].slot, l>>] > 0
      BY DEF Unacked
    <3>2. <<i, rec[i].slot, l>> \in Sends
      BY <2>1 DEF Sends
    <3>3. unacked'[<<i, rec[i].slot, l>>] > 0
      BY <3>1, <3>2
    <3> QED
      BY <1>2, <3>3 DEF Unacked
  <2> QED
    BY <1>2, <2>1, <2>2, <2>3
<1> QED
  BY <1>1, <1>2

(* The callback after a receive: every buffer it sends is counted. *)
LEMMA RecvPool ==
    ASSUME PoolInv, HandleRecv
    PROVE  PoolInv'
<1>1. PoolTypes /\ TypeOK /\ Bundled /\ Counted /\ Single /\ Connecting /\ pc = "bundle"
  BY DEF PoolInv, PoolTypes, HandleRecv, First
<1>2. PICK x \in Slots : x = Slot
  BY <1>1, HeadEntry
<1>3. sends[x] \in Nat /\ bufs[x] \in Nat /\ ctx[x] = "stream"
  BY <1>1, <1>2 DEF TypeOK, HandleRecv
<1>4. PICK q \in 0 .. MaxOut : \E out \in {SendAllOut(q, sends[x], bufs[x], Free)} :
            /\ Submitted(x, out, sends[x], bufs[x])
            /\ rec' = [i \in Ids |-> IF i \in out.ids THEN [kind |-> "send", slot |-> x] ELSE rec[i]]
            /\ Return(out.err)
  BY <1>2 DEF HandleRecv, Output
<1>5. PICK out : /\ out = SendAllOut(q, sends[x], bufs[x], Free)
         /\ Submitted(x, out, sends[x], bufs[x])
         /\ rec' = [i \in Ids |-> IF i \in out.ids THEN [kind |-> "send", slot |-> x] ELSE rec[i]]
         /\ Return(out.err)
  BY <1>4
<1>6. UNCHANGED <<inflight, cq, hugetlb, ctx, state_connecting, state_error, state_connected>>
  BY DEF HandleRecv, counts
<1> DEFINE n == Cardinality(out.ids)
           w == [kind |-> "send", slot |-> x]
<1>7. /\ out.ids \in SUBSET Ids /\ out.q \in Nat /\ out.err \in BOOLEAN /\ n \in Nat
      /\ IsFiniteSet(out.ids)
      /\ \A i \in out.ids : Rank(out.ids, i) \in Nat /\ Rank(out.ids, i) * BufSize < out.q
      /\ \A i \in out.ids : rec[i] = NoRec
  <2>1. q \in Nat /\ Free \in SUBSET Ids
    BY ClientAssumption DEF Free
  <2>2. /\ out.ids \in SUBSET Free /\ out.q = q /\ out.err \in BOOLEAN /\ n \in Nat
        /\ IsFiniteSet(out.ids)
        /\ \A i \in out.ids : Rank(out.ids, i) \in Nat /\ Rank(out.ids, i) * BufSize < q
    BY <1>5, <2>1, SendAllOutFacts
  <2> QED
    BY <2>1, <2>2 DEF Free
<1>8. /\ unacked' \in [Sends -> Nat] /\ unnotified' \in [Sends -> Nat]
      /\ sends' \in [Slots -> Nat] /\ bufs' \in [Slots -> Nat]
      /\ bufs'[x] = bufs[x] + n
      /\ \A y \in Slots : y # x => sends'[y] = sends[y] /\ bufs'[y] = bufs[y]
      /\ \A i \in out.ids : \E l \in 1 .. BufSize : unacked'[<<i, x, l>>] > 0
      /\ \A p \in Sends : unacked[p] > 0 => unacked'[p] > 0
  BY <1>1, <1>3, <1>5, <1>7, SubmittedFacts
<1>9. /\ bundle' \in Seq(Entries) /\ Len(bundle') <= Len(bundle)
      /\ Bundled' /\ pc' \in {"idle", "bundle"} /\ failed' \in BOOLEAN /\ mixed' = mixed
  BY <1>1, <1>5, <1>7, Returned
<1>10. w \in Rec /\ \A i \in Ids : rec'[i] = IF i \in out.ids THEN w ELSE rec[i]
  BY <1>5, KindsFacts
<1>11. PoolTypes'
  <2>1. rec' \in [Ids -> Rec \cup {NoRec}]
    BY <1>1, <1>5, <1>10 DEF TypeOK
  <2>2. Len(bundle') <= N
    <3>1. Len(bundle') \in Nat /\ Len(bundle) \in Nat /\ N \in Nat
      BY <1>1, <1>9, ClientAssumption DEF PoolTypes
    <3> QED
      BY <1>1, <1>9, <3>1 DEF TypeOK
  <2> QED
    BY <1>1, <1>6, <1>8, <1>9, <2>1, <2>2 DEF PoolTypes, TypeOK
<1>12. ASSUME NEW K \in SUBSET Rec, NEW d \in Nat, d = IF w \in K THEN n ELSE 0
       PROVE  Tokens(K) \in Nat /\ Tokens(K)' \in Nat /\ Tokens(K)' <= Tokens(K) + d
  <2>1. Cardinality({i \in Ids : rec'[i] \in K})
           = Cardinality({i \in Ids : rec[i] \in K}) + IF w \in K THEN n ELSE 0
    <3>1. rec \in [Ids -> Rec \cup {NoRec}]
      BY <1>1 DEF TypeOK
    <3> QED
      BY <1>7, <1>10, <3>1, Assigned
  <2>2. Cardinality({i \in Ids : rec'[i] \in K}) = Cardinality(RecsOf(K)) + d
    BY <1>12, <2>1 DEF RecsOf
  <2> QED
    BY <1>1, <1>5, <1>7, <2>2, SubmitTokens
<1>13. \A y \in Slots : y # x => /\ Tokens(SendOf(y)) \in Nat /\ Tokens(SendOf(y))' \in Nat
                                 /\ Tokens(SendOf(y))' <= Tokens(SendOf(y))
  <2> SUFFICES ASSUME NEW y \in Slots, y # x
               PROVE  /\ Tokens(SendOf(y)) \in Nat /\ Tokens(SendOf(y))' \in Nat
                      /\ Tokens(SendOf(y))' <= Tokens(SendOf(y))
    OBVIOUS
  <2>1. SendOf(y) \in SUBSET Rec /\ w \notin SendOf(y)
    BY KindsFacts DEF SendOf
  <2> QED
    BY <1>12, <2>1
<1>14. /\ Tokens(SendOf(x)) \in Nat /\ Tokens(SendOf(x))' \in Nat
       /\ Tokens(SendOf(x))' <= Tokens(SendOf(x)) + n
  <2>1. SendOf(x) \in SUBSET Rec /\ w \in SendOf(x)
    BY KindsFacts
  <2> QED
    BY <1>7, <1>12, <2>1
<1>15. ASSUME NEW K \in SUBSET Rec, \A r \in K : r.kind = "connect"
       PROVE  Tokens(K) \in Nat /\ Tokens(K)' \in Nat /\ Tokens(K)' <= Tokens(K)
  <2>1. w \notin K
    BY <1>15
  <2> QED
    BY <1>12, <2>1
<1>16. \A y \in Slots : /\ Tokens(ConnectOf(y)) \in Nat /\ Tokens(ConnectOf(y))' \in Nat
                        /\ Tokens(ConnectOf(y))' <= Tokens(ConnectOf(y))
  BY <1>15, KindsFacts
<1>17. /\ Tokens(AnyConnect) \in Nat /\ Tokens(AnyConnect)' \in Nat
       /\ Tokens(AnyConnect)' <= Tokens(AnyConnect)
  BY <1>15, KindsFacts
<1> HIDE DEF n, w
<1>18. Counted'
  <2> SUFFICES ASSUME NEW y \in Slots
               PROVE  bufs'[y] >= Tokens(SendOf(y))'
    BY DEF Counted
  <2>1. bufs[y] \in Nat /\ bufs[y] >= Tokens(SendOf(y))
    BY <1>1 DEF Counted, TypeOK
  <2>2. CASE y = x
    BY <1>7, <1>8, <1>14, <2>1, <2>2
  <2>3. CASE y # x
    BY <1>8, <1>13, <2>1, <2>3
  <2> QED
    BY <2>2, <2>3
<1>19. Single'
  <2> SUFFICES ASSUME NEW y \in Slots
               PROVE  /\ Tokens(ConnectOf(y))' <= 1
                      /\ Tokens(ConnectOf(y))' > 0 =>
                            ctx[y] = "connecting" /\ Tokens(SendOf(y))' = 0
    BY <1>6 DEF Single
  <2>1. /\ Tokens(ConnectOf(y)) <= 1
        /\ Tokens(ConnectOf(y)) > 0 => ctx[y] = "connecting" /\ Tokens(SendOf(y)) = 0
    BY <1>1 DEF Single
  <2>2. Tokens(ConnectOf(y))' <= 1 /\ (Tokens(ConnectOf(y))' > 0 => Tokens(ConnectOf(y)) > 0)
    BY <1>16, <2>1
  <2>3. Tokens(ConnectOf(y)) > 0 => y # x
    BY <1>3, <2>1
  <2> QED
    BY <1>13, <2>1, <2>2, <2>3
<1>20. Connecting'
  <2>1. state_connecting \in Nat /\ state_connecting >= Tokens(AnyConnect)
    BY <1>1 DEF TypeOK, Connecting
  <2>2. state_connecting >= Tokens(AnyConnect)'
    BY <1>17, <2>1
  <2> QED
    BY <1>6, <2>2 DEF Connecting
<1>21. Waiting'
  <2>1. \A i \in Ids : rec'[i] = rec[i] \/ Unacked(i, rec[i])'
    BY <1>8, <1>10 DEF w, Unacked
  <2> QED
    BY <1>6, <1>8, <2>1, WaitingStays
<1>22. RecordsHaveStream'
  <2> SUFFICES ASSUME ~failed'
               PROVE  /\ \A i \in Ids : rec'[i].kind \in {"recv", "send"} =>
                                           ctx'[rec'[i].slot] = "stream"
                      /\ \A j \in DOMAIN bundle' : bundle'[j].kind \in {"recv", "send"} =>
                                           ctx'[bundle'[j].slot] = "stream"
    BY DEF RecordsHaveStream
  <2>1. /\ \A i \in Ids : rec[i].kind \in {"recv", "send"} => ctx'[rec[i].slot] = "stream"
        /\ \A j \in DOMAIN bundle' : bundle'[j].kind \in {"recv", "send"} =>
                                        ctx'[bundle'[j].slot] = "stream"
    BY <1>1, <1>5, <1>6, <1>7, StreamsStay
  <2>2. w.slot = x /\ ctx'[x] = "stream"
    BY <1>3, <1>6 DEF w
  <2> QED
    BY <1>10, <2>1, <2>2
<1>23. CountsMatchPool'
  <2>1. ~failed' => ~failed
    BY <1>1, <1>5, <1>7, Returned
  <2> QED
    BY <1>6, <2>1 DEF PoolInv, CountsMatchPool, With
<1> QED
  BY <1>9, <1>11, <1>18, <1>19, <1>20, <1>21, <1>22, <1>23 DEF PoolInv

(* What a handler that submits nothing leaves as it should be. *)
LEMMA HandledRest ==
    ASSUME PoolInv, pc = "bundle", NEW err \in BOOLEAN, Return(err),
           UNCHANGED <<kernel, rec, hugetlb>>,
           sends' \in [Slots -> Nat], bufs' \in [Slots -> Nat],
           ctx' \in [Slots -> {"none", "connecting", "error", "stream"}],
           state_connecting' \in Nat, state_error' \in Nat, state_connected' \in Nat,
           \A y \in Slots : ctx[y] = "stream" => ctx'[y] = "stream"
    PROVE  PoolTypes' /\ Bundled' /\ Waiting' /\ RecordsHaveStream' /\ (~failed' => ~failed /\ ~err)
<1>1. PoolTypes /\ TypeOK /\ Bundled
  BY DEF PoolInv, PoolTypes
<1>2. UNCHANGED <<inflight, unacked, unnotified, cq>>
  BY DEF kernel
<1>3. /\ bundle' \in Seq(Entries) /\ Len(bundle') <= Len(bundle)
      /\ Bundled' /\ pc' \in {"idle", "bundle"} /\ failed' \in BOOLEAN /\ mixed' = mixed
      /\ ~failed' => ~failed /\ ~err
      /\ mixed' = mixed
  BY <1>1, Returned
<1>4. PoolTypes'
  <2>1. Len(bundle') <= N
    <3>1. Len(bundle') \in Nat /\ Len(bundle) \in Nat /\ N \in Nat
      BY <1>1, <1>3, ClientAssumption DEF PoolTypes
    <3> QED
      BY <1>1, <1>3, <3>1 DEF TypeOK
  <2> QED
    BY <1>1, <1>2, <1>3, <2>1 DEF PoolTypes, TypeOK
<1>5. Waiting'
  BY <1>2, WaitingStays
<1>6. RecordsHaveStream'
  <2> SUFFICES ASSUME ~failed'
               PROVE  /\ \A i \in Ids : rec[i].kind \in {"recv", "send"} =>
                                           ctx'[rec[i].slot] = "stream"
                      /\ \A j \in DOMAIN bundle' : bundle'[j].kind \in {"recv", "send"} =>
                                           ctx'[bundle'[j].slot] = "stream"
    BY DEF RecordsHaveStream
  <2> QED
    BY StreamsStay
<1> QED
  BY <1>3, <1>4, <1>5, <1>6

(* sent_zc: a token is used up, and with it at most one buffer. *)
LEMMA SentPool ==
    ASSUME PoolInv, HandleSentZc
    PROVE  PoolInv'
<1>1. /\ PoolTypes /\ TypeOK /\ Bundled /\ Counted /\ Single /\ Connecting /\ pc = "bundle"
      /\ Head(bundle).kind = "send" /\ Return(FALSE)
  BY DEF PoolInv, PoolTypes, HandleSentZc, First
<1>2. PICK x \in Slots : x = Slot
  BY <1>1, HeadEntry
<1>3. /\ UNCHANGED <<kernel, rec, hugetlb, ctx>>
      /\ UNCHANGED <<state_connecting, state_error, state_connected>>
  BY DEF HandleSentZc, counts
<1>4. /\ sends[x] >= Head(bundle).res /\ bufs[x] >= Freed
      /\ sends' = [sends EXCEPT ![x] = @ - Head(bundle).res]
      /\ bufs' = [bufs EXCEPT ![x] = @ - Freed]
  BY <1>2 DEF HandleSentZc
<1>5. \A K : Tokens(K) \in Nat /\ Tokens(K)' \in Nat /\ Tokens(K)' <= Tokens(K)
  BY <1>1, <1>3, HandledTokens
<1>6. Tokens(SendOf(x))' + 1 <= Tokens(SendOf(x))
  <2>1. Head(bundle) \in Reps(SendOf(x))
    BY <1>1, <1>2, HeadToken
  <2> QED
    BY <1>1, <1>3, <2>1, HandledTokens
<1>7. /\ sends \in [Slots -> Nat] /\ bufs \in [Slots -> Nat]
      /\ \A y \in Slots : bufs[y] \in Nat
      /\ \A y \in Slots : bufs[y] >= Tokens(SendOf(y))
  BY <1>1 DEF TypeOK, Counted
<1>8. sends[x] - Head(bundle).res \in Nat /\ bufs[x] - Freed \in Nat /\ Freed \in {0, 1}
  <2>1. Head(bundle).res \in Nat
    BY <1>1, HeadEntry DEF Entries
  <2> QED
    BY <1>4, <1>7, <2>1 DEF Freed
<1>9. /\ sends' \in [Slots -> Nat] /\ bufs' \in [Slots -> Nat]
      /\ bufs'[x] >= bufs[x] - 1 /\ bufs'[x] \in Nat
      /\ \A y \in Slots : y # x => bufs'[y] = bufs[y]
  <2> DEFINE a == sends[x] - Head(bundle).res
             c == bufs[x] - Freed
  <2>1. sends' = [sends EXCEPT ![x] = a] /\ bufs' = [bufs EXCEPT ![x] = c]
    BY <1>4
  <2>2. a \in Nat /\ c \in Nat /\ c >= bufs[x] - 1
    BY <1>7, <1>8
  <2> HIDE DEF a, c
  <2> QED
    BY <1>7, <2>1, <2>2
<1>10. PoolTypes' /\ Bundled' /\ Waiting' /\ RecordsHaveStream' /\ (~failed' => ~failed)
  <2>1. /\ ctx' \in [Slots -> {"none", "connecting", "error", "stream"}]
        /\ state_connecting' \in Nat /\ state_error' \in Nat /\ state_connected' \in Nat
    BY <1>1, <1>3 DEF TypeOK
  <2>2. \A y \in Slots : ctx[y] = "stream" => ctx'[y] = "stream"
    BY <1>3
  <2> QED
    BY <1>1, <1>3, <1>9, <2>1, <2>2, HandledRest
<1>11. Counted'
  <2> SUFFICES ASSUME NEW y \in Slots
               PROVE  bufs'[y] >= Tokens(SendOf(y))'
    BY DEF Counted
  <2>1. CASE y = x
    BY <1>5, <1>6, <1>7, <1>9, <2>1
  <2>2. CASE y # x
    BY <1>5, <1>7, <1>9, <2>2
  <2> QED
    BY <2>1, <2>2
<1>12. Single'
  <2> SUFFICES ASSUME NEW y \in Slots
               PROVE  /\ Tokens(ConnectOf(y))' <= 1
                      /\ Tokens(ConnectOf(y))' > 0 =>
                            ctx[y] = "connecting" /\ Tokens(SendOf(y))' = 0
    BY <1>3 DEF Single
  <2>1. /\ Tokens(ConnectOf(y)) <= 1
        /\ Tokens(ConnectOf(y)) > 0 => ctx[y] = "connecting" /\ Tokens(SendOf(y)) = 0
    BY <1>1 DEF Single
  <2> QED
    BY <1>5, <2>1
<1>13. Connecting'
  <2>1. state_connecting \in Nat /\ state_connecting >= Tokens(AnyConnect)
    BY <1>1 DEF TypeOK, Connecting
  <2>2. state_connecting >= Tokens(AnyConnect)'
    BY <1>5, <2>1
  <2> QED
    BY <1>3, <2>2 DEF Connecting
<1>14. CountsMatchPool'
  BY <1>3, <1>10 DEF PoolInv, CountsMatchPool, With
<1> QED
  BY <1>10, <1>11, <1>12, <1>13, <1>14 DEF PoolInv

(* The result of a connect is the only one its slot has, and it is counted. *)
LEMMA ConnectHead ==
    ASSUME PoolInv, pc = "bundle", Head(bundle).kind = "connect"
    PROVE  /\ PoolTypes /\ TypeOK /\ Bundled /\ Counted /\ Single /\ Connecting
           /\ Slot \in Slots /\ Head(bundle) \in Reps(ConnectOf(Slot))
           /\ Head(bundle) \in Reps(AnyConnect)
           /\ Tokens(ConnectOf(Slot)) = 1 /\ ctx[Slot] = "connecting"
           /\ Tokens(SendOf(Slot)) = 0
           /\ state_connecting \in Nat \ {0} /\ state_connecting - 1 \in Nat
<1>1. PoolTypes /\ TypeOK /\ Bundled /\ Counted /\ Single /\ Connecting
  BY DEF PoolInv, PoolTypes
<1>2. PICK x \in Slots : x = Slot
  BY <1>1, HeadEntry
<1>3. Head(bundle) \in Reps(ConnectOf(x)) /\ Head(bundle) \in Reps(AnyConnect)
  BY <1>1, <1>2, HeadToken
<1>4. ASSUME NEW K, Head(bundle) \in Reps(K) PROVE Tokens(K) \in Nat /\ Tokens(K) >= 1
  <2>1. Count(bundle, Reps(K)) = Count(Tail(bundle), Reps(K)) + 1
    BY <1>1, <1>4, HeadEntry, CountTail DEF PoolTypes
  <2>2. Count(Tail(bundle), Reps(K)) \in Nat
    BY <1>1, HeadEntry, CountType
  <2>3. Cardinality(RecsOf(K)) \in Nat
    BY <1>1, TokensType
  <2> QED
    BY <2>1, <2>2, <2>3 DEF Tokens
<1>5. Tokens(ConnectOf(x)) \in Nat /\ Tokens(ConnectOf(x)) >= 1
  BY <1>3, <1>4
<1>6. Tokens(AnyConnect) \in Nat /\ Tokens(AnyConnect) >= 1
  BY <1>3, <1>4
<1>7. /\ Tokens(ConnectOf(x)) <= 1
      /\ Tokens(ConnectOf(x)) > 0 => ctx[x] = "connecting" /\ Tokens(SendOf(x)) = 0
  BY <1>1 DEF Single
<1>8. Tokens(ConnectOf(x)) = 1 /\ ctx[x] = "connecting" /\ Tokens(SendOf(x)) = 0
  BY <1>5, <1>7
<1>9. state_connecting \in Nat \ {0} /\ state_connecting - 1 \in Nat
  <2>1. state_connecting \in Nat /\ state_connecting >= Tokens(AnyConnect)
    BY <1>1 DEF TypeOK, Connecting
  <2> QED
    BY <1>6, <2>1
<1> QED
  BY <1>1, <1>2, <1>3, <1>8, <1>9

(* What becomes of a connect whose handler leaves the records alone: its token is
   used up, whatever state its slot goes to. *)
LEMMA ConnectHandled ==
    ASSUME PoolInv, pc = "bundle", Head(bundle).kind = "connect",
           NEW err \in BOOLEAN, Return(err), UNCHANGED <<rec, sends, bufs>>,
           state_connecting' \in Nat, state_connecting' >= state_connecting - 1,
           \A y \in Slots : y # Slot => ctx'[y] = ctx[y]
    PROVE  Counted' /\ Single' /\ Connecting'
<1>1. /\ PoolTypes /\ TypeOK /\ Bundled /\ Counted /\ Single /\ Connecting
      /\ Slot \in Slots /\ Head(bundle) \in Reps(ConnectOf(Slot))
      /\ Head(bundle) \in Reps(AnyConnect) /\ Tokens(ConnectOf(Slot)) = 1
  BY ConnectHead
<1>2. PICK x \in Slots : x = Slot
  BY <1>1
<1>3. \A K : Tokens(K) \in Nat /\ Tokens(K)' \in Nat /\ Tokens(K)' <= Tokens(K)
  BY <1>1, HandledTokens
<1>4. Tokens(ConnectOf(x))' = 0
  <2>1. Tokens(ConnectOf(x))' + 1 <= Tokens(ConnectOf(x))
    BY <1>1, <1>2, HandledTokens
  <2> QED
    BY <1>1, <1>2, <1>3, <2>1
<1>5. Tokens(AnyConnect)' + 1 <= Tokens(AnyConnect)
  BY <1>1, HandledTokens
<1>6. Counted'
  <2> SUFFICES ASSUME NEW y \in Slots
               PROVE  bufs[y] >= Tokens(SendOf(y))'
    BY DEF Counted
  <2>1. bufs[y] \in Nat /\ bufs[y] >= Tokens(SendOf(y))
    BY <1>1 DEF Counted, TypeOK
  <2> QED
    BY <1>3, <2>1
<1>7. Single'
  <2> SUFFICES ASSUME NEW y \in Slots
               PROVE  /\ Tokens(ConnectOf(y))' <= 1
                      /\ Tokens(ConnectOf(y))' > 0 =>
                            ctx'[y] = "connecting" /\ Tokens(SendOf(y))' = 0
    BY DEF Single
  <2>1. /\ Tokens(ConnectOf(y)) <= 1
        /\ Tokens(ConnectOf(y)) > 0 => ctx[y] = "connecting" /\ Tokens(SendOf(y)) = 0
    BY <1>1 DEF Single
  <2>2. CASE y = x
    BY <1>4, <2>2
  <2>3. CASE y # x
    BY <1>2, <1>3, <2>1, <2>3
  <2> QED
    BY <2>2, <2>3
<1>8. Connecting'
  <2>1. state_connecting \in Nat /\ state_connecting >= Tokens(AnyConnect)
    BY <1>1 DEF TypeOK, Connecting
  <2>2. state_connecting' >= Tokens(AnyConnect)'
    BY <1>3, <1>5, <2>1
  <2> QED
    BY <2>2 DEF Connecting
<1> QED
  BY <1>6, <1>7, <1>8

(* A connect is refused: its slot moves from connecting to error. *)
LEMMA RefusedPool ==
    ASSUME PoolInv, HandleRefused
    PROVE  PoolInv'
<1>1. /\ pc = "bundle" /\ Head(bundle).kind = "connect" /\ Return(FALSE)
      /\ ctx' = [ctx EXCEPT ![Slot] = "error"]
      /\ state_connecting' = state_connecting - 1 /\ state_error' = state_error + 1
      /\ UNCHANGED <<state_connected, kernel, rec, hugetlb, sends, bufs>>
  BY DEF HandleRefused, First, CountRefused, streams
<1>2. /\ PoolTypes /\ TypeOK /\ Slot \in Slots /\ ctx[Slot] = "connecting"
      /\ state_connecting \in Nat \ {0} /\ state_connecting - 1 \in Nat
  BY <1>1, ConnectHead
<1>3. PICK x \in Slots : x = Slot
  BY <1>2
<1>4. /\ ctx' \in [Slots -> {"none", "connecting", "error", "stream"}]
      /\ \A y \in Slots : y # x => ctx'[y] = ctx[y]
      /\ \A y \in Slots : ctx[y] = "stream" => ctx'[y] = "stream"
  BY <1>1, <1>2, <1>3 DEF TypeOK
<1>5. /\ state_connecting' \in Nat /\ state_error' \in Nat /\ state_connected' \in Nat
      /\ sends' \in [Slots -> Nat] /\ bufs' \in [Slots -> Nat]
      /\ state_connecting' >= state_connecting - 1
  BY <1>1, <1>2 DEF TypeOK
<1>6. Counted' /\ Single' /\ Connecting'
  BY <1>1, <1>3, <1>4, <1>5, ConnectHandled
<1>7. PoolTypes' /\ Bundled' /\ Waiting' /\ RecordsHaveStream' /\ (~failed' => ~failed)
  BY <1>1, <1>4, <1>5, HandledRest
<1>8. CountsMatchPool'
  <2>1. /\ With("connecting") \in Nat /\ With("error") \in Nat
        /\ With("connecting")' = With("connecting") - 1 /\ With("error")' = With("error") + 1
        /\ With("stream")' = With("stream")
    <3>1. PICK a, b : a = "connecting" /\ b = "error"
      OBVIOUS
    <3>2. a # b /\ ctx[x] = a /\ \A y \in Slots : ctx'[y] = IF y = x THEN b ELSE ctx[y]
      BY <1>1, <1>2, <1>3, <3>1 DEF TypeOK
    <3>3. /\ With(a) \in Nat /\ With(b) \in Nat
          /\ With(a)' = With(a) - 1 /\ With(b)' = With(b) + 1
          /\ \A d : d # a /\ d # b => With(d)' = With(d)
      <4>1. PoolTypes
        BY <1>2
      <4> QED
        BY <3>2, <4>1, WithMoves
    <3> QED
      BY <3>1, <3>3
  <2> QED
    BY <1>1, <1>7, <2>1 DEF PoolInv, CountsMatchPool
<1> QED
  BY <1>6, <1>7, <1>8 DEF PoolInv

(* No pages, or no receive: the check fails, and the slot stays as it was. *)
LEMMA NoStreamPool ==
    ASSUME PoolInv, HandleNoPages \/ HandleNoRecv
    PROVE  PoolInv'
<1>1. /\ pc = "bundle" /\ Head(bundle).kind = "connect" /\ Return(TRUE)
      /\ UNCHANGED <<state_error, kernel, rec, hugetlb, ctx, sends, bufs>>
      /\ \/ UNCHANGED <<state_connecting, state_connected>>
         \/ state_connecting' = state_connecting - 1 /\ state_connected' = state_connected + 1
  BY DEF HandleNoPages, HandleNoRecv, First, CountConnected, streams, counts
<1>2. TypeOK /\ state_connecting \in Nat /\ state_connecting - 1 \in Nat
  BY <1>1, ConnectHead
<1>3. /\ ctx' \in [Slots -> {"none", "connecting", "error", "stream"}]
      /\ state_connecting' \in Nat /\ state_error' \in Nat /\ state_connected' \in Nat
      /\ sends' \in [Slots -> Nat] /\ bufs' \in [Slots -> Nat]
      /\ state_connecting' >= state_connecting - 1
  BY <1>1, <1>2 DEF TypeOK
<1>4. Counted' /\ Single' /\ Connecting'
  BY <1>1, <1>3, ConnectHandled
<1>5. PoolTypes' /\ Bundled' /\ Waiting' /\ RecordsHaveStream' /\ failed'
  BY <1>1, <1>3, HandledRest
<1> QED
  BY <1>4, <1>5 DEF PoolInv, CountsMatchPool

(* A slot is connected: a receive is recorded, every buffer sent is counted, and
   the slot becomes a stream. *)
LEMMA ConnectedPool ==
    ASSUME PoolInv, HandleConnected
    PROVE  PoolInv'
<1>1. /\ pc = "bundle" /\ Head(bundle).kind = "connect"
      /\ state_connecting' = state_connecting - 1 /\ state_connected' = state_connected + 1
      /\ UNCHANGED <<state_error, cq, hugetlb>>
  BY DEF HandleConnected, First, CountConnected
<1>2. /\ PoolTypes /\ TypeOK /\ Bundled /\ Counted /\ Single /\ Connecting
      /\ Slot \in Slots /\ Head(bundle) \in Reps(ConnectOf(Slot))
      /\ Head(bundle) \in Reps(AnyConnect)
      /\ Tokens(ConnectOf(Slot)) = 1 /\ ctx[Slot] = "connecting" /\ Tokens(SendOf(Slot)) = 0
      /\ state_connecting \in Nat \ {0} /\ state_connecting - 1 \in Nat
  BY <1>1, ConnectHead
<1>3. PICK x \in Slots : x = Slot
  BY <1>2
<1>4. PICK r \in Lowest(1, Free), q \in 0 .. MaxOut :
         \E out \in {SendAllOut(q, 0, 0, Free \ {r})} :
            /\ Submitted(x, out, 0, 0)
            /\ inflight' = inflight \cup {Request(r, "recv", x)}
            /\ rec' = [i \in Ids |-> IF i = r THEN [kind |-> "recv", slot |-> x]
                                     ELSE IF i \in out.ids THEN [kind |-> "send", slot |-> x]
                                     ELSE rec[i]]
            /\ KeepStream(out.err)
            /\ Return(out.err)
  BY <1>3 DEF HandleConnected
<1>5. PICK out :
         /\ out = SendAllOut(q, 0, 0, Free \ {r})
         /\ Submitted(x, out, 0, 0)
         /\ inflight' = inflight \cup {Request(r, "recv", x)}
         /\ rec' = [i \in Ids |-> IF i = r THEN [kind |-> "recv", slot |-> x]
                                  ELSE IF i \in out.ids THEN [kind |-> "send", slot |-> x]
                                  ELSE rec[i]]
         /\ KeepStream(out.err)
         /\ Return(out.err)
  BY <1>4
<1> DEFINE n == Cardinality(out.ids)
           v == [kind |-> "recv", slot |-> x]
           w == [kind |-> "send", slot |-> x]
           mid == [i \in Ids |-> IF i \in {r} THEN v ELSE rec[i]]
<1>6. /\ r \in Ids /\ rec[r] = NoRec /\ r \notin out.ids
      /\ out.ids \in SUBSET Ids /\ out.q \in Nat /\ out.err \in BOOLEAN /\ n \in Nat
      /\ IsFiniteSet(out.ids)
      /\ \A i \in out.ids : Rank(out.ids, i) \in Nat /\ Rank(out.ids, i) * BufSize < out.q
      /\ \A i \in out.ids : rec[i] = NoRec
  <2>1. q \in Nat /\ Free \ {r} \in SUBSET Ids /\ r \in Free
    BY ClientAssumption DEF Free, Lowest
  <2>2. /\ out.ids \in SUBSET (Free \ {r}) /\ out.q = q /\ out.err \in BOOLEAN /\ n \in Nat
        /\ IsFiniteSet(out.ids)
        /\ \A i \in out.ids : Rank(out.ids, i) \in Nat /\ Rank(out.ids, i) * BufSize < q
    <3>1. PICK free \in SUBSET Ids : free = Free \ {r}
      BY <2>1
    <3>2. PICK none : none = 0
      OBVIOUS
    <3>3. out = SendAllOut(q, none, none, free) /\ q \in Nat
      BY <1>5, <2>1, <3>1, <3>2
    <3>4. /\ out.ids \in SUBSET free /\ out.err \in BOOLEAN /\ out.q = q
          /\ IsFiniteSet(out.ids) /\ Cardinality(out.ids) \in Nat
          /\ \A i \in out.ids : Rank(out.ids, i) \in Nat /\ Rank(out.ids, i) * BufSize < q
      <4> HIDE DEF n, v, w, mid
      <4> QED
        BY <3>3, SendAllOutFacts
    <3> QED
      BY <3>1, <3>4
  <2> QED
    BY <2>1, <2>2 DEF Free
<1>7. /\ unacked' \in [Sends -> Nat] /\ unnotified' \in [Sends -> Nat]
      /\ sends' \in [Slots -> Nat] /\ bufs' \in [Slots -> Nat]
      /\ bufs'[x] = 0 + n
      /\ \A y \in Slots : y # x => sends'[y] = sends[y] /\ bufs'[y] = bufs[y]
      /\ \A i \in out.ids : \E l \in 1 .. BufSize : unacked'[<<i, x, l>>] > 0
      /\ \A p \in Sends : unacked[p] > 0 => unacked'[p] > 0
  <2>1. PICK s \in Nat : s = 0
    OBVIOUS
  <2>2. Submitted(x, out, s, s)
    BY <1>5, <2>1
  <2> HIDE DEF n
  <2>3. Cardinality(out.ids) \in Nat /\ n = Cardinality(out.ids)
    BY <1>6 DEF n
  <2>4. bufs'[x] = s + Cardinality(out.ids)
    BY <1>2, <1>6, <2>2, <2>3, SubmittedFacts
  <2> QED
    BY <1>2, <1>6, <2>1, <2>2, <2>3, <2>4, SubmittedFacts
<1>8. /\ bundle' \in Seq(Entries) /\ Len(bundle') <= Len(bundle)
      /\ Bundled' /\ pc' \in {"idle", "bundle"} /\ failed' \in BOOLEAN /\ mixed' = mixed
      /\ ~failed' => ~failed /\ ~out.err
  BY <1>1, <1>2, <1>5, <1>6, Returned
<1>9. /\ v \in Rec /\ w \in Rec /\ w # v /\ v.slot = x /\ w.slot = x /\ w.kind = "send"
      /\ rec \in [Ids -> Rec \cup {NoRec}] /\ mid \in [Ids -> Rec \cup {NoRec}]
      /\ \A i \in Ids : mid[i] = IF i \in {r} THEN v ELSE rec[i]
      /\ \A i \in Ids : rec'[i] = IF i \in out.ids THEN w ELSE mid[i]
      /\ \A i \in out.ids : mid[i] = NoRec
  <2>1. v \in Rec /\ w \in Rec /\ w # v /\ v.slot = x /\ w.slot = x /\ w.kind = "send"
    BY KindsFacts
  <2>2. rec \in [Ids -> Rec \cup {NoRec}]
    BY <1>2 DEF TypeOK
  <2>3. mid \in [Ids -> Rec \cup {NoRec}]
    BY <2>1, <2>2
  <2>4. \A i \in Ids : rec'[i] = IF i \in out.ids THEN w ELSE mid[i]
    BY <1>5, <1>6
  <2> QED
    BY <1>6, <2>1, <2>2, <2>3, <2>4
<1>10. ctx' = IF out.err THEN ctx ELSE [ctx EXCEPT ![x] = "stream"]
  BY <1>3, <1>5 DEF KeepStream
<1>11. /\ ctx' \in [Slots -> {"none", "connecting", "error", "stream"}]
       /\ \A y \in Slots : y # x => ctx'[y] = ctx[y]
       /\ \A y \in Slots : ctx[y] = "stream" => ctx'[y] = "stream"
       /\ ~out.err => ctx'[x] = "stream"
  BY <1>2, <1>3, <1>10 DEF TypeOK
<1>12. inflight' = inflight \cup {<<r, v>>}
  BY <1>5 DEF Request
<1>13. ASSUME NEW K \in SUBSET Rec, v \notin K, NEW d \in Nat, d = IF w \in K THEN n ELSE 0
       PROVE  /\ Tokens(K) \in Nat /\ Tokens(K)' \in Nat /\ Tokens(K)' <= Tokens(K) + d
              /\ Head(bundle) \in Reps(K) => Tokens(K)' + 1 <= Tokens(K) + d
  <2> HIDE DEF v, w, mid, n
  <2>1. Cardinality({i \in Ids : rec[i] \in K}) \in Nat
    BY <1>2, TokensType DEF RecsOf
  <2>2. {i \in Ids : mid[i] \in K} = {i \in Ids : rec[i] \in K}
    BY <1>6, <1>9, <1>13, NoRecNone
  <2>3. Cardinality({i \in Ids : rec'[i] \in K})
           = Cardinality({i \in Ids : mid[i] \in K}) + IF w \in K THEN Cardinality(out.ids) ELSE 0
    <3>1. PICK f \in [Ids -> Rec \cup {NoRec}] : f = mid
      BY <1>9
    <3>2. /\ \A i \in out.ids : f[i] = NoRec
          /\ \A i \in Ids : rec'[i] = IF i \in out.ids THEN w ELSE f[i]
      BY <1>9, <3>1
    <3>3. Cardinality({i \in Ids : rec'[i] \in K})
             = Cardinality({i \in Ids : f[i] \in K}) + IF w \in K THEN Cardinality(out.ids) ELSE 0
      BY <1>6, <1>9, <3>2, Assigned
    <3> QED
      BY <3>1, <3>3
  <2>4. Cardinality({i \in Ids : rec'[i] \in K}) = Cardinality(RecsOf(K)) + d
    BY <1>13, <2>1, <2>2, <2>3 DEF RecsOf, n
  <2> QED
    BY <1>1, <1>2, <1>5, <1>6, <2>4, SubmitTokens
<1>14. PoolTypes'
  <2> HIDE DEF v, w, mid, n
  <2>1. rec' \in [Ids -> Rec \cup {NoRec}]
    <3>1. \A i \in Ids : rec'[i] \in Rec \cup {NoRec}
      BY <1>9
    <3> QED
      BY <1>5, <3>1
  <2>2. Len(bundle') <= N
    <3>1. Len(bundle') \in Nat /\ Len(bundle) \in Nat /\ N \in Nat
      BY <1>2, <1>8, ClientAssumption DEF PoolTypes
    <3> QED
      BY <1>2, <1>8, <3>1 DEF TypeOK
  <2>3. inflight' \subseteq Ids \X Rec
    BY <1>2, <1>6, <1>9, <1>12 DEF TypeOK
  <2>4. state_connecting' \in Nat /\ state_error' \in Nat /\ state_connected' \in Nat
    BY <1>1, <1>2 DEF TypeOK
  <2> QED
    BY <1>1, <1>2, <1>7, <1>8, <1>11, <2>1, <2>2, <2>3, <2>4 DEF PoolTypes, TypeOK
<1>15. ASSUME NEW y \in Slots, y # x
       PROVE  /\ Tokens(SendOf(y)) \in Nat /\ Tokens(SendOf(y))' \in Nat
              /\ Tokens(SendOf(y))' <= Tokens(SendOf(y))
  <2>1. SendOf(y) \in SUBSET Rec /\ w \notin SendOf(y) /\ v \notin SendOf(y)
    BY <1>15, KindsFacts DEF SendOf
  <2> QED
    BY <1>13, <2>1
<1>16. Tokens(SendOf(x))' \in Nat /\ Tokens(SendOf(x))' <= n
  <2>1. SendOf(x) \in SUBSET Rec /\ w \in SendOf(x) /\ v \notin SendOf(x)
    BY KindsFacts DEF SendOf
  <2>2. Tokens(SendOf(x))' \in Nat /\ Tokens(SendOf(x))' <= Tokens(SendOf(x)) + n
    BY <1>6, <1>13, <2>1
  <2> QED
    BY <1>2, <1>3, <1>6, <2>2
<1>17. ASSUME NEW K \in SUBSET Rec, \A z \in K : z.kind = "connect"
       PROVE  /\ Tokens(K) \in Nat /\ Tokens(K)' \in Nat /\ Tokens(K)' <= Tokens(K)
              /\ Head(bundle) \in Reps(K) => Tokens(K)' + 1 <= Tokens(K)
  <2>1. w \notin K /\ v \notin K
    BY <1>17
  <2> QED
    BY <1>13, <2>1
<1>18. \A y \in Slots : /\ Tokens(ConnectOf(y)) \in Nat /\ Tokens(ConnectOf(y))' \in Nat
                        /\ Tokens(ConnectOf(y))' <= Tokens(ConnectOf(y))
  BY <1>17, KindsFacts
<1>19. Tokens(ConnectOf(x))' = 0
  <2>1. Tokens(ConnectOf(x))' + 1 <= Tokens(ConnectOf(x))
    BY <1>2, <1>3, <1>17, KindsFacts
  <2> QED
    BY <1>2, <1>3, <1>18, <2>1
<1>20. /\ Tokens(AnyConnect) \in Nat /\ Tokens(AnyConnect)' \in Nat
       /\ Tokens(AnyConnect)' + 1 <= Tokens(AnyConnect)
  BY <1>2, <1>17, KindsFacts
<1> HIDE DEF n, v, w, mid
<1>21. Counted'
  <2> SUFFICES ASSUME NEW y \in Slots
               PROVE  bufs'[y] >= Tokens(SendOf(y))'
    BY DEF Counted
  <2>1. bufs[y] \in Nat /\ bufs[y] >= Tokens(SendOf(y))
    BY <1>2 DEF Counted, TypeOK
  <2>2. CASE y = x
    BY <1>6, <1>7, <1>16, <2>2
  <2>3. CASE y # x
    BY <1>7, <1>15, <2>1, <2>3
  <2> QED
    BY <2>2, <2>3
<1>22. Single'
  <2> SUFFICES ASSUME NEW y \in Slots
               PROVE  /\ Tokens(ConnectOf(y))' <= 1
                      /\ Tokens(ConnectOf(y))' > 0 =>
                            ctx'[y] = "connecting" /\ Tokens(SendOf(y))' = 0
    BY DEF Single
  <2>1. /\ Tokens(ConnectOf(y)) <= 1
        /\ Tokens(ConnectOf(y)) > 0 => ctx[y] = "connecting" /\ Tokens(SendOf(y)) = 0
    BY <1>2 DEF Single
  <2>2. CASE y = x
    BY <1>19, <2>2
  <2>3. CASE y # x
    <3>1. ctx'[y] = ctx[y]
      BY <1>11, <2>3
    <3> QED
      BY <1>15, <1>18, <2>1, <2>3, <3>1
  <2> QED
    BY <2>2, <2>3
<1>23. Connecting'
  <2>1. state_connecting >= Tokens(AnyConnect)
    BY <1>2 DEF Connecting
  <2>2. state_connecting - 1 >= Tokens(AnyConnect)'
    BY <1>2, <1>20, <2>1
  <2> QED
    BY <1>1, <2>2 DEF Connecting
<1>24. Waiting'
  <2>1. \A i \in Ids : \/ rec'[i] = rec[i]
                       \/ <<i, rec'[i]>> \in inflight'
                       \/ Unacked(i, rec[i])'
    BY <1>6, <1>7, <1>9, <1>12 DEF Unacked
  <2>2. inflight \subseteq inflight'
    BY <1>12
  <2> QED
    BY <1>1, <1>7, <2>1, <2>2, WaitingStays
<1>25. RecordsHaveStream'
  <2> SUFFICES ASSUME ~failed'
               PROVE  /\ \A i \in Ids : rec'[i].kind \in {"recv", "send"} =>
                                           ctx'[rec'[i].slot] = "stream"
                      /\ \A j \in DOMAIN bundle' : bundle'[j].kind \in {"recv", "send"} =>
                                           ctx'[bundle'[j].slot] = "stream"
    BY DEF RecordsHaveStream
  <2>1. /\ \A i \in Ids : rec[i].kind \in {"recv", "send"} => ctx'[rec[i].slot] = "stream"
        /\ \A j \in DOMAIN bundle' : bundle'[j].kind \in {"recv", "send"} =>
                                        ctx'[bundle'[j].slot] = "stream"
    BY <1>1, <1>5, <1>6, <1>11, StreamsStay
  <2>2. ctx'[x] = "stream"
    BY <1>8, <1>11
  <2> QED
    BY <1>9, <2>1, <2>2
<1>26. CountsMatchPool'
  <2> SUFFICES ASSUME ~failed'
               PROVE  /\ state_connecting' = With("connecting")'
                      /\ state_error' = With("error")'
                      /\ state_connected' = With("stream")'
    BY DEF CountsMatchPool
  <2>1. PICK a, b : a = "connecting" /\ b = "stream"
    OBVIOUS
  <2>2. /\ ~failed /\ a # b /\ ctx[x] = a
        /\ \A y \in Slots : ctx'[y] = IF y = x THEN b ELSE ctx[y]
    BY <1>2, <1>3, <1>8, <1>10, <2>1 DEF TypeOK
  <2>3. /\ With(a) \in Nat /\ With(b) \in Nat
        /\ With(a)' = With(a) - 1 /\ With(b)' = With(b) + 1
        /\ \A d : d # a /\ d # b => With(d)' = With(d)
    <3>1. PoolTypes
      BY <1>2
    <3> QED
      BY <2>2, <3>1, WithMoves
  <2>4. With("error")' = With("error")
    BY <2>1, <2>3
  <2> QED
    BY <1>1, <2>1, <2>2, <2>3, <2>4 DEF PoolInv, CountsMatchPool
<1> QED
  BY <1>8, <1>14, <1>21, <1>22, <1>23, <1>24, <1>25, <1>26 DEF PoolInv

-----------------------------------------------------------------------------
(* The theorems.                                                           *)

(* Every step of the client and of the kernel keeps the invariant. *)
LEMMA StepPool == PoolInv /\ [Next]_vars => PoolInv'
<1> SUFFICES ASSUME PoolInv, [Next]_vars PROVE PoolInv'
  OBVIOUS
<1>1. CASE UNCHANGED vars
  <2>1. /\ UNCHANGED <<kernel, rec, ctx, streams, counts, bundle, history>>
        /\ hugetlb' = hugetlb /\ pc' = pc
    BY <1>1 DEF vars
  <2>2. hugetlb' \in BOOLEAN
    BY <2>1 DEF PoolInv, PoolTypes, TypeOK
  <2> QED
    BY <2>1, <2>2, IdleStep
<1>2. CASE SetHugeTlb
  BY <1>2, IdleStep DEF SetHugeTlb
<1>3. CASE ConnectWithCb
  BY <1>3, ConnectPool
<1>4. CASE ConnectWithCbAgain \/ CheckCollectPanics \/ HandleNoStream \/ HandleSentZcUnderflow
  <2>1. Stop
    BY <1>4 DEF ConnectWithCbAgain, CheckCollectPanics, HandleNoStream, HandleSentZcUnderflow
  <2>2. /\ UNCHANGED <<kernel, rec, ctx, streams, counts, bundle, history>>
        /\ hugetlb' = hugetlb /\ pc' = "panic"
    BY <2>1 DEF Stop
  <2>3. hugetlb' \in BOOLEAN
    BY <2>2 DEF PoolInv, PoolTypes, TypeOK
  <2> QED
    BY <2>2, <2>3, IdleStep
<1>5. CASE \E id \in Ids, x \in Slots : Kernel(id, x)
  BY <1>5, KernelPool
<1>6. CASE CheckCollect
  BY <1>6, CollectPool
<1>7. CASE HandleRecv
  BY <1>7, RecvPool
<1>8. CASE HandleSentZc
  BY <1>8, SentPool
<1>9. CASE HandleRefused
  BY <1>9, RefusedPool
<1>10. CASE HandleNoPages \/ HandleNoRecv
  BY <1>10, NoStreamPool
<1>11. CASE HandleConnected
  BY <1>11, ConnectedPool
<1> QED
  BY <1>1, <1>2, <1>3, <1>4, <1>5, <1>6, <1>7, <1>8, <1>9, <1>10, <1>11 DEF Next, Check

(* The invariant holds in every state of the pool. *)
LEMMA PoolInvariant == Spec => []PoolInv
BY InitPool, StepPool, PTL DEF Spec

(* The state keeps its shape.  That sends and bufs stay numbers is what the checks of
   the subtractions in sent_zc are for, not a result: pending_sends does underflow
   (HandleSentZcUnderflow).  For state_connecting it is one: a slot is taken off it
   once, however ids are used again. *)
THEOREM PoolTypeCorrect == Spec => []TypeOK
<1>1. PoolInv => TypeOK
  BY DEF PoolInv, PoolTypes
<1> QED
  BY <1>1, PoolInvariant, PTL

(* pending_bufs never underflows: a stream counts a buffer for every record of a send
   that is its own by now and for every report of one, although a zero-copy send is
   forgotten on the first of its completions and the second may find any later
   record, of any stream. *)
THEOREM BufsNeverUnderflow == Spec => []BufsCoverRecords
<1>1. PoolInv => BufsCoverRecords
  <2> SUFFICES ASSUME PoolInv, NEW x \in Slots
               PROVE  bufs[x] >= Cardinality({i \in Ids : rec[i].kind = "send" /\ rec[i].slot = x})
                                 + Cardinality({j \in DOMAIN bundle :
                                      bundle[j].kind = "send" /\ bundle[j].slot = x})
    BY DEF BufsCoverRecords
  <2>1. PoolTypes /\ TypeOK /\ bufs[x] >= Tokens(SendOf(x))
    BY DEF PoolInv, PoolTypes, Counted
  <2>2. {i \in Ids : rec[i].kind = "send" /\ rec[i].slot = x} = RecsOf(SendOf(x))
    <3>1. \A i \in Ids : rec[i] \in Rec \cup {NoRec}
      BY <2>1 DEF TypeOK
    <3>2. \A i \in Ids : rec[i].kind = "send" /\ rec[i].slot = x <=> rec[i] \in SendOf(x)
      BY <3>1 DEF SendOf, Rec, NoRec
    <3> QED
      BY <3>2 DEF RecsOf
  <2>3. {j \in DOMAIN bundle : bundle[j].kind = "send" /\ bundle[j].slot = x}
           = {j \in DOMAIN bundle : bundle[j] \in Reps(SendOf(x))}
    <3>1. \A j \in DOMAIN bundle : bundle[j] \in Entries
      BY <2>1, ElementOfSeq DEF PoolTypes
    <3> QED
      BY <3>1 DEF Reps, SendOf
  <2> QED
    BY <2>1, <2>2, <2>3 DEF Tokens, Count
<1> QED
  BY <1>1, PoolInvariant, PTL

(* The bearer never keeps a record nothing will come for, whatever the kernel
   answers, whatever fails and however its ids are used again. *)
THEOREM RecordsAwaited == Spec => []NoRecordLeak
<1>1. PoolInv => NoRecordLeak
  <2> SUFFICES ASSUME PoolInv PROVE NoRecordLeak
    OBVIOUS
  <2>1. DOMAIN cq = 1 .. Len(cq)
    BY DEF PoolInv, PoolTypes
  <2> QED
    BY <2>1 DEF PoolInv, Waiting, Unacked, NoRecordLeak
<1> QED
  BY <1>1, PoolInvariant, PTL

(* Until a check fails, no handler of a receive or a send meets its
   unreachable!(): the slot of the record holds a stream. *)
THEOREM HandlersFindStream == Spec => []RecordsHaveStream
<1>1. PoolInv => RecordsHaveStream
  BY DEF PoolInv
<1> QED
  BY <1>1, PoolInvariant, PTL

(* Until a check fails, the three counters of the pool agree with its slots. *)
THEOREM PoolCounted == Spec => []CountsMatchPool
<1>1. PoolInv => CountsMatchPool
  BY DEF PoolInv
<1> QED
  BY <1>1, PoolInvariant, PTL
=============================================================================
