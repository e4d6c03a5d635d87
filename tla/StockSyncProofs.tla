--------------------------- MODULE StockSyncProofs ---------------------------
(***************************************************************************)
(* Safety of the stock sync: for every hangar, every size of a batch of    *)
(* names, any number of syncs that run at the same time, of changes of the *)
(* hangar and of the targets, and of faults.                               *)
(***************************************************************************)
EXTENDS StockSync, FunctionTheorems, FiniteSetTheorems, SequenceTheorems, TLAPS

(***************************************************************************)
(* The batches of the name lookup lose no id.                              *)
(***************************************************************************)
LEMMA Listed ==
    ASSUME NEW S, IsFiniteSet(S)
    PROVE  /\ SetToSeq(S) \in Seq(S) /\ Len(SetToSeq(S)) = Cardinality(S)
           /\ Range(SetToSeq(S)) = S
<1> DEFINE n == Cardinality(S)
           s == SetToSeq(S)
<1>1. n \in Nat /\ ExistsBijection(1..n, S)
  BY FS_CardinalityType
<1>2. \E f \in [1..n -> S] : IsInjective(f)
  BY <1>1 DEF ExistsBijection, Bijection, Injection
<1>3. s \in [1..n -> S] /\ IsInjective(s)
  BY <1>2 DEF SetToSeq
<1>4. s \in Injection(1..n, S)
  BY <1>3 DEF Injection
<1>5. IsFiniteSet(1..n) /\ Cardinality(1..n) = n
  BY <1>1, FS_Interval
<1>6. s \in Surjection(1..n, S)
  BY <1>4, <1>5, FS_Injection
<1>7. \A x \in S : \E k \in 1..n : s[k] = x
  BY <1>6 DEF Surjection
<1>8. s \in Seq(S) /\ Len(s) = n /\ DOMAIN s = 1..n
  BY <1>1, <1>3
<1>9. QED
  BY <1>3, <1>7, <1>8 DEF Range

LEMMA Part ==
    ASSUME NEW S, NEW s \in Seq(S), NEW m \in 1..Len(s) + 1, NEW n \in 0..Len(s)
    PROVE  /\ SubSeq(s, m, n) \in Seq(S)
           /\ Range(SubSeq(s, m, n)) = {s[k] : k \in m..n}
<1>1. /\ SubSeq(s, m, n) \in Seq(S)
      /\ Len(SubSeq(s, m, n)) = IF m <= n THEN n - m + 1 ELSE 0
      /\ \A i \in 1..n - m + 1 : SubSeq(s, m, n)[i] = s[m + i - 1]
  BY SubSeqProperties
<1>2. DOMAIN SubSeq(s, m, n) = 1..n - m + 1
  BY <1>1
<1>3. \A k \in m..n : k - m + 1 \in 1..n - m + 1 /\ m + (k - m + 1) - 1 = k
  OBVIOUS
<1>4. \A i \in 1..n - m + 1 : m + i - 1 \in m..n
  OBVIOUS
<1>5. Range(SubSeq(s, m, n)) = {SubSeq(s, m, n)[i] : i \in 1..n - m + 1}
  BY <1>2 DEF Range
<1>6. ASSUME NEW x \in Range(SubSeq(s, m, n))
      PROVE  x \in {s[k] : k \in m..n}
  BY <1>1, <1>4, <1>5
<1>7. ASSUME NEW k \in m..n
      PROVE  s[k] \in Range(SubSeq(s, m, n))
  <2>1. s[k] = SubSeq(s, m, n)[k - m + 1]
    BY <1>1, <1>3
  <2>2. QED
    BY <1>3, <1>5, <2>1
<1>8. QED
  BY <1>1, <1>6, <1>7

\* The two halves of a batch that was rejected.
LEMMA Halves ==
    ASSUME NEW b \in Seq(Items), NEW mid \in 0..Len(b)
    PROVE  /\ SubSeq(b, 1, mid) \in Seq(Items) /\ SubSeq(b, mid + 1, Len(b)) \in Seq(Items)
           /\ Range(b) = Range(SubSeq(b, 1, mid)) \cup Range(SubSeq(b, mid + 1, Len(b)))
<1>1. Len(b) \in Nat /\ mid + 1 \in 1..Len(b) + 1 /\ 1 \in 1..Len(b) + 1 /\ Len(b) \in 0..Len(b)
  OBVIOUS
<1>2. /\ SubSeq(b, 1, mid) \in Seq(Items) /\ SubSeq(b, mid + 1, Len(b)) \in Seq(Items)
      /\ Range(SubSeq(b, 1, mid)) = {b[k] : k \in 1..mid}
      /\ Range(SubSeq(b, mid + 1, Len(b))) = {b[k] : k \in mid + 1..Len(b)}
  BY <1>1, Part
<1>3. Range(b) = {b[k] : k \in 1..Len(b)}
  BY DEF Range
<1>4. \A k : k \in 1..Len(b) <=> k \in 1..mid \/ k \in mid + 1..Len(b)
  BY <1>1
<1>5. QED
  BY <1>2, <1>3, <1>4

\* The batches of BatchLen ids: each is a part of the list, and every id is in one.
LEMMA Chunked ==
    ASSUME NEW s \in Seq(Items), s # <<>>
    PROVE  /\ Chunks(s) \in SUBSET Seq(Items)
           /\ \A b \in Chunks(s) : Range(b) \subseteq Range(s)
           /\ \A i \in Range(s) : \E b \in Chunks(s) : i \in Range(b)
<1> DEFINE B == BatchLen
           L == Len(s)
           last == (L - 1) \div B
           end(n) == IF (n + 1) * B < L THEN (n + 1) * B ELSE L
<1>1. B \in Nat \ {0} /\ L \in Nat \ {0}
  BY StockAssumption
<1>2. \A k \in Nat : k \div B \in Nat /\ B * (k \div B) <= k /\ k < B * (k \div B) + B
  <2> TAKE k \in Nat
  <2>1. k \div B \in Nat /\ k % B \in 0..B - 1 /\ k = B * (k \div B) + (k % B)
    BY <1>1
  <2>2. B * (k \div B) \in Nat
    BY <1>1, <2>1
  <2>3. QED
    BY <1>1, <2>1, <2>2
<1>3. \A n \in 0..last : n * B + 1 \in 1..L + 1 /\ end(n) \in 0..L
  <2> TAKE n \in 0..last
  <2>1. last \in Nat /\ B * last <= L - 1 /\ n \in Nat /\ n <= last
    BY <1>1, <1>2
  <2>2. n * B \in Nat /\ (n + 1) * B \in Nat /\ n * B <= B * last /\ B * last \in Nat
    BY <1>1, <2>1
  <2>3. QED
    BY <1>1, <2>1, <2>2
<1>4. Range(s) = {s[k] : k \in 1..L}
  BY DEF Range
<1>5. \A n \in 0..last : /\ SubSeq(s, n * B + 1, end(n)) \in Seq(Items)
                         /\ Range(SubSeq(s, n * B + 1, end(n))) = {s[k] : k \in n * B + 1..end(n)}
  BY <1>1, <1>3, Part
<1>6. \A n \in 0..last : \A k \in n * B + 1..end(n) : k \in 1..L
  <2> TAKE n \in 0..last
  <2>1. n * B + 1 \in 1..L + 1 /\ end(n) \in 0..L
    BY <1>3
  <2> HIDE DEF end
  <2>2. QED
    BY <1>1, <2>1
<1>7. \A k \in 1..L : \E n \in 0..last : k \in n * B + 1..end(n)
  <2> TAKE k \in 1..L
  <2> DEFINE n == (k - 1) \div B
  <2>1. n \in Nat /\ B * n <= k - 1 /\ k - 1 < B * n + B
    BY <1>1, <1>2
  <2>2. last \in Nat /\ L - 1 < B * last + B
    BY <1>1, <1>2
  <2>3. n <= last
    <3> SUFFICES ASSUME last + 1 <= n PROVE FALSE
      BY <2>1, <2>2
    <3>1. B * (last + 1) <= B * n
      BY <1>1, <2>1, <2>2
    <3>2. B * (last + 1) = B * last + B /\ B * n \in Nat /\ B * last \in Nat
      BY <1>1, <2>1, <2>2
    <3>3. QED
      BY <1>1, <2>1, <2>2, <3>1, <3>2
  <2>4. n * B = B * n /\ (n + 1) * B = B * n + B /\ B * n \in Nat
    BY <1>1, <2>1
  <2> HIDE DEF n
  <2>5. k \in n * B + 1..end(n)
    BY <1>1, <2>1, <2>4
  <2>6. QED
    BY <2>1, <2>2, <2>3, <2>5
<1>8. Chunks(s) = {SubSeq(s, n * B + 1, end(n)) : n \in 0..last}
  BY DEF Chunks
<1> HIDE DEF end, last, L, B
<1>9. Chunks(s) \in SUBSET Seq(Items)
  BY <1>5, <1>8
<1>10. ASSUME NEW b \in Chunks(s)
       PROVE  Range(b) \subseteq Range(s)
  <2>1. PICK n \in 0..last : b = SubSeq(s, n * B + 1, end(n))
    BY <1>8
  <2>2. Range(b) = {s[k] : k \in n * B + 1..end(n)}
    BY <1>5, <2>1
  <2>3. QED
    BY <1>4, <1>6, <2>2
<1>11. ASSUME NEW i \in Range(s)
       PROVE  \E b \in Chunks(s) : i \in Range(b)
  <2>1. PICK k \in 1..L : i = s[k]
    BY <1>4
  <2>2. PICK n \in 0..last : k \in n * B + 1..end(n)
    BY <1>7
  <2>3. i \in Range(SubSeq(s, n * B + 1, end(n)))
    BY <1>5, <2>1, <2>2
  <2>4. QED
    BY <1>8, <2>3
<1>12. QED
  BY <1>9, <1>10, <1>11
-----------------------------------------------------------------------------
(***************************************************************************)
(* Types: the world, which outlives a sync, and what a sync holds.         *)
(***************************************************************************)
WorldTypes ==
    /\ hangar \in [Items -> {"out", "packed", "plain"} \cup Names]
    /\ targets \subseteq Combos
    /\ log \in [Combos -> 0..Cardinality(Items)]
    /\ due \in BOOLEAN
    /\ changes \in 0..MaxChanges /\ faults \in 0..MaxFaults
    /\ beenNamed \subseteq Types
LookupTypes ==
    /\ pc \in [Syncs -> Steps]
    /\ assets \in [Syncs -> [Items -> {"out", "packed", "single"}]]
    /\ batches \in [Syncs -> SUBSET Seq(Items)]
    /\ found \in [Syncs -> [Items -> Names \cup {Null}]]
    /\ failed \in [Syncs -> BOOLEAN]
    /\ moved \in [Syncs -> BOOLEAN]
CleaningTypes ==
    /\ wanted \in [Syncs -> SUBSET Combos]
    /\ named \in [Syncs -> SUBSET Combos]
    /\ nulls \in [Syncs -> SUBSET Types]
    /\ kept \in [Syncs -> SUBSET Combos]

LEMMA TypeParts == TypeOK <=> WorldTypes /\ LookupTypes /\ CleaningTypes
BY DEF TypeOK, WorldTypes, LookupTypes, CleaningTypes
LEMMA TypePartsNext == WorldTypes' /\ LookupTypes' /\ CleaningTypes' => TypeOK'
BY DEF TypeOK, WorldTypes, LookupTypes, CleaningTypes

LEMMA Counted ==
    ASSUME NEW k, NEW c
    PROVE  Count(k, c) \in 0..Cardinality(Items)
<1> DEFINE T == {i \in Items : assets[k][i] # "out" /\ c = <<TypeOf[i], NameOf(k, i)>>}
<1>1. T \in SUBSET Items /\ IsFiniteSet(Items)
  BY StockAssumption
<1>2. IsFiniteSet(T) /\ Cardinality(T) <= Cardinality(Items)
  BY <1>1, FS_Subset
<1>3. Cardinality(T) \in Nat /\ Cardinality(Items) \in Nat
  BY <1>1, <1>2, FS_CardinalityType
<1>4. QED
  BY <1>2, <1>3 DEF Count

LEMMA ShipTypesType ==
    ASSUME CleaningTypes, NEW k \in Syncs
    PROVE  ShipTypes(k) \subseteq Types
<1>1. named[k] \subseteq Types \X (Names \cup {Null})
  BY DEF CleaningTypes, Combos
<1>2. QED
  BY <1>1 DEF ShipTypes, Combos

\* A sync forgets what it held.
LEMMA ResetTypes ==
    ASSUME LookupTypes, CleaningTypes, NEW k \in Syncs, Reset(k)
    PROVE  LookupTypes' /\ CleaningTypes'
<1>1. LookupTypes'
  BY DEF LookupTypes, Reset, GoTo, Steps
<1>2. CleaningTypes'
  BY DEF CleaningTypes, Reset
<1>3. QED
  BY <1>1, <1>2

LEMMA FetchTypes ==
    ASSUME LookupTypes, NEW k \in Syncs, FetchAssets(k)
    PROVE  LookupTypes'
<1> DEFINE view == [i \in Items |-> IF hangar[i] \in {"out", "packed"} THEN hangar[i] ELSE "single"]
           ids == {i \in Items : view[i] = "single"}
<1>1. assets' = [assets EXCEPT ![k] = view] /\ view \in [Items -> {"out", "packed", "single"}]
  BY DEF FetchAssets
<1>2. assets' \in [Syncs -> [Items -> {"out", "packed", "single"}]] /\ assets'[k] = view
  BY <1>1 DEF LookupTypes
<1>3. moved' \in [Syncs -> BOOLEAN] /\ UNCHANGED <<found, failed>>
  BY DEF LookupTypes, FetchAssets
<1>4. CASE ids = {}
  BY <1>2, <1>3, <1>4 DEF LookupTypes, FetchAssets, GoTo, Steps
<1>5. CASE ids # {}
  <2>1. /\ GoTo(k, "names") /\ batches' = [batches EXCEPT ![k] = Chunks(SetToSeq(ids))]
    BY <1>2, <1>5 DEF FetchAssets
  <2>2. IsFiniteSet(ids) /\ ids \subseteq Items
    BY StockAssumption, FS_Subset
  <2> HIDE DEF ids
  <2>3. SetToSeq(ids) \in Seq(ids) /\ Range(SetToSeq(ids)) = ids
    BY <2>2, Listed
  <2>4. SetToSeq(ids) \in Seq(Items) /\ SetToSeq(ids) # <<>>
    BY <1>5, <2>2, <2>3 DEF Range
  <2>5. Chunks(SetToSeq(ids)) \in SUBSET Seq(Items)
    BY <2>4, Chunked
  <2>6. QED
    BY <1>2, <1>3, <2>1, <2>5 DEF LookupTypes, GoTo, Steps
<1>6. QED
  BY <1>4, <1>5

\* The requests for names.
LEMMA NameTypes ==
    ASSUME WorldTypes, LookupTypes, NEW k \in Syncs, NEW b \in batches[k],
           GotNames(k, b) \/ Bisect(k, b) \/ NamesFail(k, b)
    PROVE  LookupTypes'
<1>1. b \in Seq(Items) /\ batches[k] \in SUBSET Seq(Items)
  BY DEF LookupTypes
<1>2. PICK rest \in SUBSET Seq(Items) : Answered(k, rest)
  <2>1. CASE GotNames(k, b) \/ NamesFail(k, b)
    BY <1>1, <2>1 DEF GotNames, NamesFail
  <2>2. CASE Bisect(k, b)
    <3> DEFINE mid == Len(b) \div 2
               rest == (batches[k] \ {b}) \cup
                         IF Len(b) = 1 THEN {} ELSE {SubSeq(b, 1, mid), SubSeq(b, mid + 1, Len(b))}
    <3>1. mid \in 0..Len(b)
      BY <1>1
    <3> HIDE DEF mid
    <3>2. SubSeq(b, 1, mid) \in Seq(Items) /\ SubSeq(b, mid + 1, Len(b)) \in Seq(Items)
      BY <1>1, <3>1, Halves
    <3>3. rest \in SUBSET Seq(Items)
      BY <1>1, <3>2
    <3>4. Answered(k, rest)
      BY <2>2 DEF Bisect, mid
    <3>5. QED
      BY <3>3, <3>4
  <2>3. QED
    BY <2>1, <2>2
<1>3. batches' \in [Syncs -> SUBSET Seq(Items)] /\ pc' \in [Syncs -> Steps]
  BY <1>2 DEF LookupTypes, Answered, GoTo, Steps
<1>4. UNCHANGED <<assets, moved>>
  BY <1>2 DEF Answered
<1>5. found' \in [Syncs -> [Items -> Names \cup {Null}]]
  <2>1. CASE GotNames(k, b)
    <3> DEFINE came == [i \in Items |-> IF i \in Range(b) /\ hangar[i] \in Names THEN hangar[i]
                                                                             ELSE found[k][i]]
    <3>1. came \in [Items -> Names \cup {Null}]
      BY DEF LookupTypes
    <3>2. found' = [found EXCEPT ![k] = came]
      BY <2>1 DEF GotNames
    <3> HIDE DEF came
    <3>3. QED
      BY <3>1, <3>2 DEF LookupTypes
  <2>2. CASE Bisect(k, b) \/ NamesFail(k, b)
    BY <2>2 DEF LookupTypes, Bisect, NamesFail
  <2>3. QED
    BY <2>1, <2>2
<1>6. failed' \in [Syncs -> BOOLEAN]
  BY DEF LookupTypes, GotNames, Bisect, NamesFail
<1>7. QED
  BY <1>3, <1>4, <1>5, <1>6 DEF LookupTypes

\* The steps between the lookup and the end.
Tail5(k) == ReadTargets(k) \/ ReadNamed(k) \/ DropNamed(k) \/ ReadNulls(k) \/ DropNulls(k) \/ Insert(k)

LEMMA CleanTypes ==
    ASSUME TypeOK, NEW k \in Syncs, Tail5(k)
    PROVE  TypeOK'
<1> USE DEF GoTo
<1>0. WorldTypes /\ LookupTypes /\ CleaningTypes
  BY TypeParts
<1>1. LookupTypes'
  <2>1. UNCHANGED <<assets, batches, found, failed, moved>> /\ \E s \in Steps : pc' = [pc EXCEPT ![k] = s]
    BY DEF Tail5, ReadTargets, ReadNamed, DropNamed, ReadNulls, DropNulls, Insert, Steps
  <2>2. QED
    BY <1>0, <2>1 DEF LookupTypes
<1>2. CleaningTypes'
  <2>1. kept' \in [Syncs -> SUBSET Combos] /\ wanted' \in [Syncs -> SUBSET Combos]
    BY <1>0 DEF Tail5, ReadTargets, ReadNamed, DropNamed, ReadNulls, DropNulls, Insert,
                WorldTypes, CleaningTypes
  <2>2. named' \in [Syncs -> SUBSET Combos]
    BY <1>0 DEF Tail5, ReadTargets, ReadNamed, DropNamed, ReadNulls, DropNulls, Insert, CleaningTypes
  <2>3. nulls' \in [Syncs -> SUBSET Types]
    BY <1>0, ShipTypesType
    DEF Tail5, ReadTargets, ReadNamed, DropNamed, ReadNulls, DropNulls, Insert, CleaningTypes
  <2>4. QED
    BY <2>1, <2>2, <2>3 DEF CleaningTypes
<1>3. WorldTypes'
  <2>1. UNCHANGED <<hangar, targets, due, changes, faults, beenNamed>>
    BY DEF Tail5, ReadTargets, ReadNamed, DropNamed, ReadNulls, DropNulls, Insert
  <2>2. 0 \in 0..Cardinality(Items) /\ \A c : Count(k, c) \in 0..Cardinality(Items)
    <3>1. Cardinality(Items) \in Nat
      BY StockAssumption, FS_CardinalityType
    <3>2. QED
      BY <3>1, Counted
  <2>3. log' \in [Combos -> 0..Cardinality(Items)]
    <3>1. CASE UNCHANGED log
      BY <1>0, <3>1 DEF WorldTypes
    <3>2. CASE DropNamed(k)
      BY <1>0, <2>2, <3>2 DEF DropNamed, WorldTypes
    <3>3. CASE DropNulls(k)
      BY <1>0, <2>2, <3>3 DEF DropNulls, WorldTypes
    <3>4. CASE Insert(k)
      BY <1>0, <2>2, <3>4 DEF Insert, WorldTypes
    <3>5. QED
      BY <3>1, <3>2, <3>3, <3>4 DEF Tail5, ReadTargets, ReadNamed, ReadNulls
  <2>4. QED
    BY <1>0, <2>1, <2>3 DEF WorldTypes
<1>4. QED
  BY <1>1, <1>2, <1>3, TypePartsNext

LEMMA NamedTypesType == NamedTypes(hangar') \subseteq Types
BY StockAssumption DEF NamedTypes

LEMMA Typing == TypeOK /\ [Next]_vars => TypeOK'
<1> SUFFICES ASSUME TypeOK, [Next]_vars
             PROVE  TypeOK'
  OBVIOUS
<1>0. WorldTypes /\ LookupTypes /\ CleaningTypes
  BY TypeParts
<1> USE StockAssumption
<1>1. ASSUME NEW i \in Items, NEW look \in Looks(i), Move(i, look)
      PROVE  TypeOK'
  <2>1. WorldTypes'
    <3>1. look \in {"out", "packed", "plain"} \cup Names
      BY DEF Looks
    <3>2. hangar' \in [Items -> {"out", "packed", "plain"} \cup Names]
      BY <1>0, <1>1, <3>1 DEF Move, WorldTypes
    <3>3. beenNamed' \subseteq Types
      BY <1>0, <1>1, NamedTypesType DEF Move, WorldTypes
    <3>4. changes' \in 0..MaxChanges /\ UNCHANGED <<targets, log, due, faults>>
      BY <1>0, <1>1 DEF Move, Change, WorldTypes
    <3>5. QED
      BY <1>0, <3>2, <3>3, <3>4 DEF WorldTypes
  <2>2. LookupTypes' /\ CleaningTypes'
    BY <1>0, <1>1 DEF Move, work, LookupTypes, CleaningTypes
  <2>3. QED
    BY <2>1, <2>2, TypePartsNext
<1>2. ASSUME NEW c \in Targeted, EditTarget(c)
      PROVE  TypeOK'
  <2>1. c \in Combos
    BY DEF Combos
  <2>2. WorldTypes'
    BY <1>0, <1>2, <2>1 DEF EditTarget, Change, WorldTypes
  <2>3. CleaningTypes'
    BY <1>0, <1>2 DEF EditTarget, work, CleaningTypes
  <2>4. LookupTypes'
    BY <1>0, <1>2 DEF EditTarget, work, LookupTypes
  <2>5. QED
    BY <2>2, <2>3, <2>4, TypePartsNext
<1>3. CASE TimePasses
  BY <1>0, <1>3, TypePartsNext DEF TimePasses, work, WorldTypes, LookupTypes, CleaningTypes
<1>4. ASSUME NEW k \in Syncs, Tick(k) \/ Register(k)
      PROVE  TypeOK'
  <2>1. LookupTypes'
    BY <1>0, <1>4 DEF Tick, Register, Start, GoTo, Steps, LookupTypes
  <2>2. CleaningTypes'
    BY <1>0, <1>4 DEF Tick, Register, Start, CleaningTypes, WorldTypes
  <2>3. WorldTypes'
    BY <1>0, <1>4 DEF Tick, Register, Start, WorldTypes
  <2>4. QED
    BY <2>1, <2>2, <2>3, TypePartsNext
<1>5. ASSUME NEW k \in Syncs, FetchAssets(k)
      PROVE  TypeOK'
  <2>1. LookupTypes'
    BY <1>0, <1>5, FetchTypes
  <2>2. WorldTypes' /\ CleaningTypes'
    BY <1>0, <1>5 DEF FetchAssets, WorldTypes, CleaningTypes
  <2>3. QED
    BY <2>1, <2>2, TypePartsNext
<1>6. ASSUME NEW k \in Syncs, NEW b \in batches[k], GotNames(k, b) \/ Bisect(k, b) \/ NamesFail(k, b)
      PROVE  TypeOK'
  <2>1. LookupTypes'
    BY <1>0, <1>6, NameTypes
  <2>2. WorldTypes' /\ CleaningTypes'
    BY <1>0, <1>6 DEF GotNames, Bisect, NamesFail, Fault, Answered, WorldTypes, CleaningTypes
  <2>3. QED
    BY <2>1, <2>2, TypePartsNext
<1>7. ASSUME NEW k \in Syncs, Tail5(k)
      PROVE  TypeOK'
  BY <1>7, CleanTypes
<1>8. ASSUME NEW k \in Syncs, ScheduleNext(k) \/ SyncFails(k)
      PROVE  TypeOK'
  <2>1. LookupTypes' /\ CleaningTypes'
    BY <1>0, <1>8, ResetTypes DEF ScheduleNext, SyncFails
  <2>2. WorldTypes'
    <3>1. due' \in BOOLEAN
      BY <1>0, <1>8 DEF ScheduleNext, SyncFails, WorldTypes
    <3>2. UNCHANGED <<hangar, targets, log, changes, beenNamed>>
      BY <1>8 DEF ScheduleNext, SyncFails
    <3>3. UNCHANGED faults \/ Fault
      BY <1>8 DEF ScheduleNext, SyncFails
    <3>4. faults' \in 0..MaxFaults
      BY <1>0, <3>3 DEF Fault, WorldTypes
    <3>5. QED
      BY <1>0, <3>1, <3>2, <3>4 DEF WorldTypes
  <2>3. QED
    BY <2>1, <2>2, TypePartsNext
<1>9. CASE Restart
  <2>1. WorldTypes'
    BY <1>0, <1>9 DEF Restart, Fault, WorldTypes
  <2>2. LookupTypes'
    BY <1>9 DEF Restart, LookupTypes, Steps
  <2>3. CleaningTypes'
    BY <1>9 DEF Restart, CleaningTypes
  <2>4. QED
    BY <2>1, <2>2, <2>3, TypePartsNext
<1>10. CASE UNCHANGED vars
  BY <1>10 DEF vars, work, TypeOK
<1>11. QED
  BY <1>1, <1>2, <1>3, <1>4, <1>5, <1>6, <1>7, <1>8, <1>9, <1>10 DEF Next, Sync, Tail5

LEMMA InitTypes == Init => TypeOK
<1> SUFFICES ASSUME Init
             PROVE  TypeOK
  OBVIOUS
<1>1. 0 \in 0..Cardinality(Items) /\ 0 \in 0..MaxChanges /\ 0 \in 0..MaxFaults
  BY StockAssumption, FS_CardinalityType
<1>2. beenNamed \subseteq Types
  BY StockAssumption DEF Init, NamedTypes
<1>3. WorldTypes
  BY <1>1, <1>2 DEF Init, WorldTypes
<1>4. LookupTypes /\ CleaningTypes
  BY DEF Init, LookupTypes, CleaningTypes, Steps
<1>5. QED
  BY <1>3, <1>4, TypeParts

\* The log holds no more of a type and name than there are items, whatever syncs overlap
\* (stockSyncScheduler.js, syncStructure); a sync holds only ids, names and combinations.
THEOREM StockTypeCorrect == Spec => []TypeOK
<1>1. QED
  BY InitTypes, Typing, PTL DEF Spec
-----------------------------------------------------------------------------
(***************************************************************************)
(* The name lookup.                                                        *)
(***************************************************************************)
Exact(k, i) == found[k][i] = IF hangar[i] \in Names THEN hangar[i] ELSE Null
Asked(k) == pc[k] \notin {"idle", "assets"}

\* The game shows no item in a state it cannot be in.
Real == \A i \in Items : hangar[i] \in Looks(i)
\* Requests are pending only while names are asked for, and names come after them.
Orderly ==
    \A k \in Syncs : /\ pc[k] # "names" => batches[k] = {}
                     /\ ~Asked(k) => \A i \in Items : found[k][i] = Null
\* What is true of a hangar that stayed as it was: the assets show its single items, no
\* name is wrong, and an id is answered or is in a request that is pending.
Seen ==
    \A k \in Syncs : Asked(k) /\ ~moved[k] =>
        \A i \in Items : assets[k][i] = "single" => hangar[i] \notin {"out", "packed"}
Right == \A k \in Syncs : ~moved[k] => \A i \in Items : found[k][i] \in {Null, hangar[i]}
Pending ==
    \A k \in Syncs : Asked(k) /\ ~failed[k] /\ ~moved[k] =>
        \A i \in Items : assets[k][i] = "single" =>
            Exact(k, i) \/ \E b \in batches[k] : i \in Range(b)

LookupInv == Real /\ Orderly /\ Seen /\ Right /\ Pending
-----------------------------------------------------------------------------
(***************************************************************************)
(* What the clean-up deletes.                                              *)
(***************************************************************************)
\* Names, wherever they are held, are of types that were named.
Known ==
    /\ \A i \in Items : hangar[i] \in Names => TypeOf[i] \in beenNamed
    /\ \A k \in Syncs : \A i \in Items : found[k][i] \in Names => TypeOf[i] \in beenNamed
    /\ \A c \in Combos : log[c] > 0 /\ c[2] # Null => c[1] \in beenNamed
    /\ \A k \in Syncs : \A c \in named[k] : c[2] # Null /\ c[1] \in beenNamed
    /\ \A k \in Syncs : nulls[k] \subseteq beenNamed
\* A target that stayed is among those that a sync read.
Spared ==
    \A k \in Syncs :
        /\ kept[k] \subseteq targets
        /\ pc[k] \notin {"idle", "assets", "names", "targets"} => kept[k] \subseteq wanted[k]

HistoryInv == Known /\ Spared

LEMMA Shown ==
    ASSUME TypeOK, Known, NEW k \in Syncs, NEW c \in Combos, Count(k, c) > 0, c[2] # Null
    PROVE  c[1] \in beenNamed
<1> DEFINE T == {i \in Items : assets[k][i] # "out" /\ c = <<TypeOf[i], NameOf(k, i)>>}
<1>1. T # {}
  BY FS_EmptySet DEF Count
<1>2. PICK i \in Items : c = <<TypeOf[i], NameOf(k, i)>>
  BY <1>1
<1>3. c[1] = TypeOf[i] /\ NameOf(k, i) # Null
  BY <1>2
<1>4. found[k][i] \in Names \cup {Null}
  BY DEF TypeOK
<1>5. found[k][i] \in Names
  BY <1>3, <1>4 DEF NameOf
<1>6. QED
  BY <1>3, <1>5 DEF Known

LEMMA ShipsKnown ==
    ASSUME TypeOK, Known, NEW k \in Syncs
    PROVE  ShipTypes(k) \subseteq beenNamed
<1> SUFFICES ASSUME NEW c \in named[k] \cup {d \in Combos : d[2] # Null /\ Count(k, d) > 0}
             PROVE  c[1] \in beenNamed
  BY DEF ShipTypes
<1>1. CASE c \in named[k]
  BY <1>1 DEF Known
<1>2. CASE c \in Combos /\ c[2] # Null /\ Count(k, c) > 0
  BY <1>2, Shown
<1>3. QED
  BY <1>1, <1>2

\* A row that shows up is of an entry of the sync that inserted it.
LEMMA Rows ==
    ASSUME TypeOK, NEW k \in Syncs, DropNamed(k) \/ DropNulls(k) \/ Insert(k), NEW c \in Combos
    PROVE  log'[c] > 0 => log[c] > 0 \/ Count(k, c) > 0
<1>1. CASE DropNamed(k)
  BY <1>1 DEF DropNamed
<1>2. CASE DropNulls(k)
  BY <1>2 DEF DropNulls
<1>3. CASE Insert(k)
  BY <1>3 DEF Insert
<1>4. QED
  BY <1>1, <1>2, <1>3

\* A sync that ends, fails or dies holds nothing.
Forgets(k) ==
    /\ found'[k] = [i \in Items |-> Null] /\ named'[k] = {} /\ nulls'[k] = {} /\ kept'[k] = {}
    /\ batches'[k] = {} /\ pc'[k] = "idle"
Holds(k) ==
    /\ found'[k] = found[k] /\ named'[k] = named[k] /\ nulls'[k] = nulls[k] /\ kept'[k] = kept[k]
    /\ wanted'[k] = wanted[k] /\ pc'[k] = pc[k] /\ batches'[k] = batches[k]
    /\ assets'[k] = assets[k] /\ failed'[k] = failed[k] /\ moved'[k] = moved[k]

LEMMA ResetForgets ==
    ASSUME TypeOK, NEW k \in Syncs, Reset(k)
    PROVE  Forgets(k) /\ \A j \in Syncs \ {k} : Holds(j)
BY DEF TypeOK, Reset, GoTo, Forgets, Holds
LEMMA RestartForgets == ASSUME Restart PROVE \A k \in Syncs : Forgets(k)
BY DEF Restart, Forgets

\* Nothing but names, rows, and what a sync held.
LEMMA KnownKeeps ==
    ASSUME Known, UNCHANGED <<hangar, log, beenNamed>>,
           \A k \in Syncs : Forgets(k) \/ Holds(k)
    PROVE  Known'
<1> USE StockAssumption
<1>1. \A k \in Syncs : \A i \in Items : found'[k][i] \in Names => TypeOf[i] \in beenNamed'
  BY DEF Known, Forgets, Holds
<1>2. \A k \in Syncs : \A c \in named'[k] : c[2] # Null /\ c[1] \in beenNamed'
  BY DEF Known, Forgets, Holds
<1>3. \A k \in Syncs : nulls'[k] \subseteq beenNamed'
  BY DEF Known, Forgets, Holds
<1>4. QED
  BY <1>1, <1>2, <1>3 DEF Known

LEMMA KnownNext == TypeOK /\ Known /\ [Next]_vars => Known'
<1> SUFFICES ASSUME TypeOK, Known, [Next]_vars
             PROVE  Known'
  OBVIOUS
<1>1. ASSUME NEW i \in Items, NEW look \in Looks(i), Move(i, look)
      PROVE  Known'
  <2>1. beenNamed \subseteq beenNamed' /\ \A j \in Items : hangar'[j] \in Names => TypeOf[j] \in beenNamed'
    BY <1>1 DEF Move, NamedTypes
  <2>2. UNCHANGED <<log, found, named, nulls>>
    BY <1>1 DEF Move, work
  <2>3. QED
    BY <2>1, <2>2 DEF Known
<1>2. ASSUME NEW c \in Targeted, EditTarget(c)
      PROVE  Known'
  BY <1>2 DEF EditTarget, work, Known
<1>3. CASE TimePasses
  BY <1>3 DEF TimePasses, work, Known
<1>4. ASSUME NEW k \in Syncs, \/ Tick(k) \/ Register(k) \/ FetchAssets(k) \/ ReadTargets(k)
                              \/ \E b \in batches[k] : Bisect(k, b) \/ NamesFail(k, b)
      PROVE  Known'
  <2>1. UNCHANGED <<hangar, log, beenNamed, found, named, nulls>>
    BY <1>4 DEF Tick, Register, Start, FetchAssets, ReadTargets, Bisect, NamesFail, Answered
  <2>2. QED
    BY <2>1 DEF Known
<1>5. ASSUME NEW k \in Syncs, NEW b \in batches[k], GotNames(k, b)
      PROVE  Known'
  <2>1. UNCHANGED <<hangar, log, beenNamed, named, nulls>>
    BY <1>5 DEF GotNames, Answered
  <2>2. ASSUME NEW j \in Syncs, NEW i \in Items, found'[j][i] \in Names
        PROVE  TypeOf[i] \in beenNamed
    <3>1. found'[j][i] \in {found[j][i], hangar[i]}
      BY <1>5 DEF GotNames, TypeOK
    <3>2. QED
      BY <2>2, <3>1 DEF Known
  <2>3. QED
    BY <2>1, <2>2 DEF Known
<1>6. ASSUME NEW k \in Syncs, ReadNamed(k)
      PROVE  Known'
  <2>1. UNCHANGED <<hangar, log, beenNamed, found, nulls>>
    BY <1>6 DEF ReadNamed
  <2>2. ASSUME NEW j \in Syncs, NEW c \in named'[j]
        PROVE  c[2] # Null /\ c[1] \in beenNamed
    <3>1. c \in named[j] \/ (c \in Combos /\ c[2] # Null /\ log[c] > 0)
      BY <1>6, <2>2 DEF ReadNamed, TypeOK
    <3>2. QED
      BY <3>1 DEF Known
  <2>3. QED
    BY <2>1, <2>2 DEF Known
<1>7. ASSUME NEW k \in Syncs, ReadNulls(k)
      PROVE  Known'
  <2>1. UNCHANGED <<hangar, log, beenNamed, found, named>>
    BY <1>7 DEF ReadNulls
  <2>2. ASSUME NEW j \in Syncs, NEW t \in nulls'[j]
        PROVE  t \in beenNamed
    <3>1. t \in nulls[j] \/ t \in ShipTypes(k)
      BY <1>7, <2>2 DEF ReadNulls, TypeOK
    <3>2. QED
      BY <3>1, ShipsKnown DEF Known
  <2>3. QED
    BY <2>1, <2>2 DEF Known
<1>8. ASSUME NEW k \in Syncs, DropNamed(k) \/ DropNulls(k) \/ Insert(k)
      PROVE  Known'
  <2>1. UNCHANGED <<hangar, beenNamed, found, named, nulls>>
    BY <1>8 DEF DropNamed, DropNulls, Insert
  <2>2. ASSUME NEW c \in Combos, log'[c] > 0, c[2] # Null
        PROVE  c[1] \in beenNamed
    BY <1>8, <2>2, Rows, Shown DEF Known
  <2>3. QED
    BY <2>1, <2>2 DEF Known
<1>9. ASSUME NEW k \in Syncs, ScheduleNext(k) \/ SyncFails(k)
      PROVE  Known'
  <2>1. Reset(k) /\ UNCHANGED <<hangar, log, beenNamed>>
    BY <1>9 DEF ScheduleNext, SyncFails
  <2>2. \A j \in Syncs : Forgets(j) \/ Holds(j)
    BY <2>1, ResetForgets
  <2>3. QED
    BY <2>1, <2>2, KnownKeeps
<1>10. CASE Restart
  <2>1. UNCHANGED <<hangar, log, beenNamed>> /\ \A j \in Syncs : Forgets(j) \/ Holds(j)
    BY <1>10, RestartForgets DEF Restart
  <2>2. QED
    BY <2>1, KnownKeeps
<1>11. CASE UNCHANGED vars
  BY <1>11 DEF vars, work, Known
<1>12. QED
  BY <1>1, <1>2, <1>3, <1>4, <1>5, <1>6, <1>7, <1>8, <1>9, <1>10, <1>11 DEF Next, Sync

LEMMA SparedNext == TypeOK /\ Spared /\ [Next]_vars => Spared'
<1> SUFFICES ASSUME TypeOK, Spared, [Next]_vars
             PROVE  Spared'
  OBVIOUS
<1>1. ASSUME NEW i \in Items, NEW look \in Looks(i), Move(i, look)
      PROVE  Spared'
  BY <1>1 DEF Move, work, Spared
<1>2. ASSUME NEW c \in Targeted, EditTarget(c)
      PROVE  Spared'
  <2>1. UNCHANGED <<pc, wanted>> /\ \A k \in Syncs : kept'[k] = kept[k] \cap targets'
    BY <1>2 DEF EditTarget, work
  <2>2. QED
    BY <2>1 DEF Spared
<1>3. CASE TimePasses
  BY <1>3 DEF TimePasses, work, Spared
<1>4. ASSUME NEW k \in Syncs, Tick(k) \/ Register(k)
      PROVE  Spared'
  <2>1. /\ UNCHANGED <<targets, wanted>> /\ pc'[k] = "assets" /\ kept'[k] = targets
        /\ \A j \in Syncs \ {k} : pc'[j] = pc[j] /\ kept'[j] = kept[j]
    BY <1>4 DEF Tick, Register, Start, GoTo, TypeOK
  <2>2. QED
    BY <2>1 DEF Spared
<1>5. ASSUME NEW k \in Syncs, FetchAssets(k)
      PROVE  Spared'
  <2>1. /\ UNCHANGED <<targets, wanted, kept>> /\ pc'[k] \in {"names", "targets"}
        /\ \A j \in Syncs \ {k} : pc'[j] = pc[j]
    BY <1>5 DEF FetchAssets, GoTo, TypeOK
  <2>2. QED
    BY <2>1 DEF Spared
<1>6. ASSUME NEW k \in Syncs, NEW b \in batches[k], GotNames(k, b) \/ Bisect(k, b) \/ NamesFail(k, b)
      PROVE  Spared'
  <2>1. /\ UNCHANGED <<targets, wanted, kept>> /\ pc'[k] \in {"names", "targets"}
        /\ \A j \in Syncs \ {k} : pc'[j] = pc[j]
    BY <1>6 DEF GotNames, Bisect, NamesFail, Answered, GoTo, TypeOK
  <2>2. QED
    BY <2>1 DEF Spared
<1>7. ASSUME NEW k \in Syncs, ReadTargets(k)
      PROVE  Spared'
  <2>1. /\ UNCHANGED <<targets, kept>> /\ wanted'[k] = targets
        /\ \A j \in Syncs \ {k} : pc'[j] = pc[j] /\ wanted'[j] = wanted[j]
    BY <1>7 DEF ReadTargets, GoTo, TypeOK
  <2>2. QED
    BY <2>1 DEF Spared
<1>8. ASSUME NEW k \in Syncs,
             ReadNamed(k) \/ DropNamed(k) \/ ReadNulls(k) \/ DropNulls(k) \/ Insert(k)
      PROVE  Spared'
  <2>1. /\ UNCHANGED <<targets, kept, wanted>> /\ pc[k] \notin {"idle", "assets", "names", "targets"}
        /\ \A j \in Syncs \ {k} : pc'[j] = pc[j]
    BY <1>8 DEF ReadNamed, DropNamed, ReadNulls, DropNulls, Insert, GoTo, TypeOK
  <2>2. QED
    BY <2>1 DEF Spared
<1>9. ASSUME NEW k \in Syncs, ScheduleNext(k) \/ SyncFails(k)
      PROVE  Spared'
  <2>1. Reset(k) /\ UNCHANGED targets
    BY <1>9 DEF ScheduleNext, SyncFails
  <2>2. QED
    BY <2>1, ResetForgets DEF Forgets, Holds, Spared
<1>10. CASE Restart
  BY <1>10, RestartForgets DEF Forgets, Restart, Spared
<1>11. CASE UNCHANGED vars
  BY <1>11 DEF vars, work, Spared
<1>12. QED
  BY <1>1, <1>2, <1>3, <1>4, <1>5, <1>6, <1>7, <1>8, <1>9, <1>10, <1>11 DEF Next, Sync

LEMMA HistoryInit == Init => HistoryInv
<1> SUFFICES ASSUME Init
             PROVE  HistoryInv
  OBVIOUS
<1>1. \A i \in Items : hangar[i] \in Names => TypeOf[i] \in beenNamed
  BY DEF Init, NamedTypes
<1>2. \A k \in Syncs : \A i \in Items : found[k][i] \notin Names
  BY StockAssumption DEF Init
<1>3. \A c \in Combos : ~(log[c] > 0)
  BY DEF Init
<1>4. \A k \in Syncs : named[k] = {} /\ nulls[k] = {} /\ kept[k] = {}
  BY DEF Init
<1>5. Spared
  BY <1>4 DEF Spared
<1>6. Known
  BY <1>1, <1>2, <1>3, <1>4 DEF Known
<1>7. QED
  BY <1>5, <1>6 DEF HistoryInv

\* Rows go only in the two clean-ups.
LEMMA WhoDeletes ==
    ASSUME [Next]_vars, NEW c \in Combos, log[c] > 0, log'[c] = 0
    PROVE  \/ \E k \in Syncs : DropNamed(k)
           \/ c[2] = Null /\ \E k \in Syncs : DropNulls(k)
<1>1. log' # log
  OBVIOUS
<1>2. ASSUME NEW k \in Syncs, DropNulls(k)
      PROVE  c[2] = Null
  BY <1>2 DEF DropNulls
<1>3. ASSUME NEW k \in Syncs, Insert(k)
      PROVE  FALSE
  BY <1>3 DEF Insert
<1>4. CASE UNCHANGED vars
  BY <1>1, <1>4 DEF vars
<1>5. CASE \E i \in Items : \E look \in Looks(i) : Move(i, look)
  BY <1>1, <1>5 DEF Move
<1>6. CASE (\E d \in Targeted : EditTarget(d)) \/ TimePasses \/ Restart
  BY <1>1, <1>6 DEF EditTarget, TimePasses, Restart
<1>7. ASSUME NEW k \in Syncs, \/ Tick(k) \/ Register(k) \/ SyncFails(k)
                              \/ FetchAssets(k) \/ ScheduleNext(k)
      PROVE  FALSE
  BY <1>1, <1>7 DEF Tick, Register, Start, SyncFails, FetchAssets, ScheduleNext
<1>8. ASSUME NEW k \in Syncs, NEW b \in batches[k], GotNames(k, b) \/ Bisect(k, b) \/ NamesFail(k, b)
      PROVE  FALSE
  BY <1>1, <1>8 DEF GotNames, Bisect, NamesFail, Answered
<1>9. ASSUME NEW k \in Syncs, ReadTargets(k) \/ ReadNamed(k) \/ ReadNulls(k)
      PROVE  FALSE
  BY <1>1, <1>9 DEF ReadTargets, ReadNamed, ReadNulls
<1>10. QED
  BY <1>2, <1>3, <1>4, <1>5, <1>6, <1>7, <1>8, <1>9 DEF Next, Sync

\* What a step deletes.
LEMMA StepKeeps ==
    ASSUME HistoryInv, [Next]_vars, NEW c \in Combos, log[c] > 0, log'[c] = 0
    PROVE  /\ c[2] # Null => \E k \in Syncs : pc[k] # "idle" /\ c \notin kept[k]
           /\ c[2] = Null => c[1] \in beenNamed
<1>1. ASSUME NEW k \in Syncs, DropNamed(k)
      PROVE  /\ pc[k] # "idle" /\ c \notin kept[k] /\ c[2] # Null
  <2>1. pc[k] = "dropNamed" /\ c \in named[k] \ wanted[k]
    BY <1>1 DEF DropNamed
  <2>2. QED
    BY <2>1 DEF HistoryInv, Known, Spared
<1>2. ASSUME NEW k \in Syncs, DropNulls(k)
      PROVE  c[2] = Null /\ c[1] \in beenNamed
  <2>1. c[2] = Null /\ c[1] \in nulls[k]
    BY <1>2 DEF DropNulls
  <2>2. QED
    BY <2>1 DEF HistoryInv, Known
<1>3. QED
  BY <1>1, <1>2, WhoDeletes

LEMMA HistoryAlways == Spec => []HistoryInv
<1>1. TypeOK /\ HistoryInv /\ [Next]_vars => HistoryInv'
  BY KnownNext, SparedNext DEF HistoryInv
<1>2. QED
  BY <1>1, HistoryInit, InitTypes, Typing, PTL DEF Spec
-----------------------------------------------------------------------------
(***************************************************************************)
(* The lookup is exact.                                                    *)
(***************************************************************************)
\* Every sync but one holds what it held, and the hangar stays.
Only(k) == hangar' = hangar /\ \A j \in Syncs \ {k} : Holds(j)

PerSync(k) ==
    /\ pc[k] # "names" => batches[k] = {}
    /\ ~Asked(k) => \A i \in Items : found[k][i] = Null
    /\ Asked(k) /\ ~moved[k] =>
        \A i \in Items : assets[k][i] = "single" => hangar[i] \notin {"out", "packed"}
    /\ ~moved[k] => \A i \in Items : found[k][i] \in {Null, hangar[i]}
    /\ Asked(k) /\ ~failed[k] /\ ~moved[k] =>
        \A i \in Items : assets[k][i] = "single" =>
            Exact(k, i) \/ \E b \in batches[k] : i \in Range(b)

LEMMA LookupParts == LookupInv <=> Real /\ \A k \in Syncs : PerSync(k)
BY DEF LookupInv, Orderly, Seen, Right, Pending, PerSync
LEMMA LookupPartsNext == Real' /\ (\A k \in Syncs : PerSync(k)') => LookupInv'
BY DEF LookupInv, Orderly, Seen, Right, Pending, PerSync

LEMMA HoldsKeeps ==
    ASSUME NEW k \in Syncs, PerSync(k), Holds(k), hangar' = hangar
    PROVE  PerSync(k)'
BY DEF PerSync, Holds, Asked, Exact
LEMMA ForgetsKeeps ==
    ASSUME NEW k \in Syncs, Forgets(k)
    PROVE  PerSync(k)'
BY DEF PerSync, Forgets, Asked, Exact

\* A step of one sync: what is left to show is what becomes of it.
LEMMA OneSync ==
    ASSUME LookupInv, NEW k \in Syncs, Only(k), PerSync(k)'
    PROVE  LookupInv'
<1>1. \A j \in Syncs : PerSync(j)'
  BY LookupParts, HoldsKeeps DEF Only
<1>2. Real'
  BY LookupParts DEF Real, Only
<1>3. QED
  BY <1>1, <1>2, LookupPartsNext

LEMMA FetchLooks ==
    ASSUME TypeOK, LookupInv, NEW k \in Syncs, FetchAssets(k)
    PROVE  LookupInv'
<1> DEFINE view == [i \in Items |-> IF hangar[i] \in {"out", "packed"} THEN hangar[i] ELSE "single"]
           ids == {i \in Items : view[i] = "single"}
<1>1. /\ pc[k] = "assets" /\ assets' = [assets EXCEPT ![k] = view]
      /\ moved' = [moved EXCEPT ![k] = FALSE]
      /\ UNCHANGED <<hangar, found, failed, wanted, named, nulls, kept>>
  BY DEF FetchAssets
<1>2. assets'[k] = view
  BY <1>1 DEF TypeOK
<1>3. /\ IF ids = {} THEN GoTo(k, "targets") /\ UNCHANGED batches
                     ELSE GoTo(k, "names") /\ batches' = [batches EXCEPT ![k] = Chunks(SetToSeq(ids))]
  BY <1>2 DEF FetchAssets
<1>4. batches[k] = {} /\ \A i \in Items : found[k][i] = Null
  BY <1>1 DEF LookupInv, Orderly, Asked
<1>5. \A i \in Items : view[i] = "single" => hangar[i] \notin {"out", "packed"}
  OBVIOUS
<1>6. ids # {} => \A i \in ids : \E b \in Chunks(SetToSeq(ids)) : i \in Range(b)
  <2>1. IsFiniteSet(ids) /\ ids \subseteq Items
    BY StockAssumption, FS_Subset
  <2> HIDE DEF ids
  <2>2. SetToSeq(ids) \in Seq(ids) /\ Range(SetToSeq(ids)) = ids
    BY <2>1, Listed
  <2>3. ids # {} => SetToSeq(ids) \in Seq(Items) /\ SetToSeq(ids) # <<>>
    BY <2>1, <2>2 DEF Range
  <2>4. QED
    BY <2>2, <2>3, Chunked
<1>7. Only(k)
  <2>1. \A j \in Syncs \ {k} : assets'[j] = assets[j] /\ moved'[j] = moved[j]
    BY <1>1 DEF TypeOK
  <2>2. \A j \in Syncs \ {k} : pc'[j] = pc[j] /\ batches'[j] = batches[j]
    BY <1>3 DEF TypeOK, GoTo
  <2>3. QED
    BY <1>1, <2>1, <2>2 DEF Only, Holds
<1>8. PerSync(k)'
  <2>1. ~moved'[k] /\ found'[k] = found[k]
    BY <1>1 DEF TypeOK
  <2>2. CASE ids = {}
    <3>1. pc'[k] = "targets" /\ batches'[k] = {} /\ \A i \in Items : view[i] # "single"
      BY <1>3, <1>4, <2>2 DEF TypeOK, GoTo
    <3> HIDE DEF view
    <3>2. QED
      BY <1>2, <1>4, <2>1, <3>1 DEF PerSync, Asked
  <2>3. CASE ids # {}
    <3>1. pc'[k] = "names" /\ batches'[k] = Chunks(SetToSeq(ids))
      BY <1>3, <2>3 DEF TypeOK, GoTo
    <3>2. \A i \in Items : view[i] = "single" => \E b \in batches'[k] : i \in Range(b)
      BY <1>6, <2>3, <3>1
    <3> HIDE DEF view, ids
    <3>3. QED
      BY <1>1, <1>2, <1>4, <1>5, <2>1, <3>1, <3>2 DEF PerSync, Asked
  <2>4. QED
    BY <2>2, <2>3
<1>9. QED
  BY <1>7, <1>8, OneSync

\* What is left of the requests, and what is known of the names.
LEMMA AnswerLooks ==
    ASSUME TypeOK, LookupInv, NEW k \in Syncs, NEW rest \in SUBSET Seq(Items), Answered(k, rest),
           \A j \in Syncs \ {k} : found'[j] = found[j] /\ failed'[j] = failed[j], pc[k] = "names",
           ~moved[k] => \A i \in Items : found'[k][i] \in {Null, hangar[i]},
           ~failed'[k] /\ ~moved[k] => \A i \in Items : assets[k][i] = "single" =>
               \/ found'[k][i] = IF hangar[i] \in Names THEN hangar[i] ELSE Null
               \/ \E b \in rest : i \in Range(b)
    PROVE  LookupInv'
<1>1. /\ batches'[k] = rest /\ pc'[k] = IF rest = {} THEN "targets" ELSE "names"
      /\ UNCHANGED <<hangar, assets, moved, wanted, named, nulls, kept>>
  BY DEF Answered, GoTo, TypeOK
<1>2. Only(k)
  <2>1. \A j \in Syncs \ {k} : batches'[j] = batches[j] /\ pc'[j] = pc[j]
    BY DEF Answered, GoTo, TypeOK
  <2>2. QED
    BY <1>1, <2>1 DEF Only, Holds
<1>3. Asked(k) /\ Asked(k)'
  BY <1>1 DEF Asked
<1>4. pc'[k] # "names" => batches'[k] = {}
  BY <1>1
<1>5. ~moved'[k] => \A i \in Items : assets'[k][i] = "single" => hangar'[i] \notin {"out", "packed"}
  BY <1>1, <1>3 DEF LookupInv, Seen
<1>6. PerSync(k)'
  BY <1>1, <1>3, <1>4, <1>5 DEF PerSync, Exact
<1>7. QED
  BY <1>2, <1>6, OneSync

LEMMA NamesLook ==
    ASSUME TypeOK, LookupInv, NEW k \in Syncs, NEW b \in batches[k], GotNames(k, b)
    PROVE  LookupInv'
<1>1. Answered(k, batches[k] \ {b}) /\ pc[k] = "names" /\ failed' = failed
  BY DEF GotNames
<1>2. /\ \A j \in Syncs \ {k} : found'[j] = found[j]
      /\ \A i \in Items : found'[k][i] = IF i \in Range(b) /\ hangar[i] \in Names THEN hangar[i]
                                                                                 ELSE found[k][i]
  BY DEF GotNames, TypeOK
<1>3. batches[k] \in SUBSET Seq(Items)
  BY DEF TypeOK
<1>4. ASSUME ~moved[k], NEW i \in Items
      PROVE  found'[k][i] \in {Null, hangar[i]}
  BY <1>2, <1>4 DEF LookupInv, Right
<1>5. ASSUME ~failed'[k], ~moved[k], NEW i \in Items, assets[k][i] = "single"
      PROVE  \/ found'[k][i] = IF hangar[i] \in Names THEN hangar[i] ELSE Null
             \/ \E d \in batches[k] \ {b} : i \in Range(d)
  <2>1. Exact(k, i) \/ \E d \in batches[k] : i \in Range(d)
    BY <1>1, <1>5 DEF LookupInv, Pending, Asked
  <2>2. found[k][i] \in {Null, hangar[i]} /\ found[k][i] \in Names \cup {Null}
    BY <1>5 DEF LookupInv, Right, TypeOK
  <2>3. CASE i \in Range(b)
    BY <1>2, <2>2, <2>3
  <2>4. CASE i \notin Range(b)
    BY <1>2, <2>1, <2>4 DEF Exact
  <2>5. QED
    BY <2>3, <2>4
<1>6. batches[k] \ {b} \in SUBSET Seq(Items)
  BY <1>3
<1>7. QED
  BY <1>1, <1>2, <1>4, <1>5, <1>6, AnswerLooks

LEMMA BisectLooks ==
    ASSUME TypeOK, LookupInv, NEW k \in Syncs, NEW b \in batches[k], Bisect(k, b)
    PROVE  LookupInv'
<1> DEFINE mid == Len(b) \div 2
           more == IF Len(b) = 1 THEN {} ELSE {SubSeq(b, 1, mid), SubSeq(b, mid + 1, Len(b))}
           rest == (batches[k] \ {b}) \cup more
<1>1. Answered(k, rest) /\ pc[k] = "names" /\ UNCHANGED <<found, failed>> /\ Rejected(b)
  BY DEF Bisect
<1>2. batches[k] \in SUBSET Seq(Items) /\ b \in Seq(Items)
  BY DEF TypeOK
<1>3. mid \in 0..Len(b)
  BY <1>2
<1> HIDE DEF mid
<1>4. /\ SubSeq(b, 1, mid) \in Seq(Items) /\ SubSeq(b, mid + 1, Len(b)) \in Seq(Items)
      /\ Range(b) = Range(SubSeq(b, 1, mid)) \cup Range(SubSeq(b, mid + 1, Len(b)))
  BY <1>2, <1>3, Halves
<1>5. ASSUME ~failed[k], ~moved[k], NEW i \in Items, assets[k][i] = "single", i \in Range(b)
      PROVE  Exact(k, i) \/ \E d \in rest : i \in Range(d)
  <2>1. CASE Len(b) = 1
    <3>1. Range(b) = {b[1]}
      BY <1>2, <2>1 DEF Range
    <3>2. ~Nameable(i)
      BY <1>1, <1>5, <3>1 DEF Rejected
    <3>3. hangar[i] \notin {"out", "packed"}
      BY <1>1, <1>5 DEF LookupInv, Seen, Asked
    <3>4. hangar[i] = "plain"
      BY <3>2, <3>3 DEF Nameable, LookupInv, Real, Looks
    <3>5. hangar[i] \notin Names
      BY <3>4, StockAssumption
    <3>6. found[k][i] \in {Null, hangar[i]} /\ found[k][i] \in Names \cup {Null}
      BY <1>5 DEF LookupInv, Right, TypeOK
    <3>7. QED
      BY <3>5, <3>6 DEF Exact
  <2>2. CASE Len(b) # 1
    BY <1>4, <1>5, <2>2
  <2>3. QED
    BY <2>1, <2>2
<1>6. ASSUME ~failed[k], ~moved[k], NEW i \in Items, assets[k][i] = "single"
      PROVE  Exact(k, i) \/ \E d \in rest : i \in Range(d)
  <2>1. Exact(k, i) \/ \E d \in batches[k] : i \in Range(d)
    BY <1>1, <1>6 DEF LookupInv, Pending, Asked
  <2>2. QED
    BY <1>5, <1>6, <2>1
<1>7. rest \in SUBSET Seq(Items)
  BY <1>2, <1>4
<1>8. ~moved[k] => \A i \in Items : found[k][i] \in {Null, hangar[i]}
  BY DEF LookupInv, Right
<1> HIDE DEF rest
<1>9. QED
  BY <1>1, <1>6, <1>7, <1>8, AnswerLooks DEF Exact

LEMMA FailLooks ==
    ASSUME TypeOK, LookupInv, NEW k \in Syncs, NEW b \in batches[k], NamesFail(k, b)
    PROVE  LookupInv'
<1>1. Answered(k, batches[k] \ {b}) /\ pc[k] = "names" /\ found' = found
  BY DEF NamesFail
<1>2. failed'[k] /\ \A j \in Syncs \ {k} : failed'[j] = failed[j]
  BY DEF NamesFail, TypeOK
<1>3. batches[k] \ {b} \in SUBSET Seq(Items)
  BY DEF TypeOK
<1>4. ~moved[k] => \A i \in Items : found[k][i] \in {Null, hangar[i]}
  BY DEF LookupInv, Right
<1>5. QED
  BY <1>1, <1>2, <1>3, <1>4, AnswerLooks

LEMMA LookupNext == TypeOK /\ LookupInv /\ [Next]_vars => LookupInv'
<1> SUFFICES ASSUME TypeOK, LookupInv, [Next]_vars
             PROVE  LookupInv'
  OBVIOUS
<1>1. ASSUME NEW i \in Items, NEW look \in Looks(i), Move(i, look)
      PROVE  LookupInv'
  <2>1. /\ \A j \in Items : hangar'[j] = IF j = i THEN look ELSE hangar[j]
        /\ \A k \in Syncs : moved'[k]
        /\ UNCHANGED <<pc, batches, found>>
    BY <1>1 DEF Move, work, TypeOK
  <2>2. Real'
    BY <2>1 DEF LookupInv, Real
  <2>3. \A k \in Syncs : PerSync(k)'
    BY <2>1 DEF LookupInv, Orderly, PerSync, Asked
  <2>4. QED
    BY <2>2, <2>3, LookupPartsNext
<1>2. CASE \/ \E c \in Targeted : EditTarget(c)
           \/ TimePasses
           \/ UNCHANGED vars
  <2>1. UNCHANGED <<hangar, pc, assets, batches, found, failed, moved>>
    BY <1>2 DEF EditTarget, TimePasses, work, vars
  <2>2. QED
    BY <2>1 DEF LookupInv, Real, Orderly, Seen, Right, Pending, Asked, Exact
<1>3. ASSUME NEW k \in Syncs, Tick(k) \/ Register(k)
      PROVE  LookupInv'
  <2>1. /\ UNCHANGED <<hangar, assets, batches, found, failed, moved>>
        /\ pc[k] = "idle" /\ pc'[k] = "assets" /\ \A j \in Syncs \ {k} : pc'[j] = pc[j]
    BY <1>3 DEF Tick, Register, Start, GoTo, TypeOK
  <2>2. QED
    BY <2>1 DEF LookupInv, Real, Orderly, Seen, Right, Pending, Asked, Exact
<1>4. ASSUME NEW k \in Syncs, FetchAssets(k)
      PROVE  LookupInv'
  BY <1>4, FetchLooks
<1>5. ASSUME NEW k \in Syncs, NEW b \in batches[k], GotNames(k, b) \/ Bisect(k, b) \/ NamesFail(k, b)
      PROVE  LookupInv'
  BY <1>5, NamesLook, BisectLooks, FailLooks
<1>6. ASSUME NEW k \in Syncs, Tail5(k)
      PROVE  LookupInv'
  <2>1. UNCHANGED <<hangar, assets, batches, found, failed, moved>>
    BY <1>6 DEF Tail5, ReadTargets, ReadNamed, DropNamed, ReadNulls, DropNulls, Insert
  <2>2. /\ pc[k] \notin {"idle", "assets", "names"} /\ pc'[k] \notin {"idle", "assets", "names"}
        /\ \A j \in Syncs \ {k} : pc'[j] = pc[j]
    BY <1>6 DEF Tail5, ReadTargets, ReadNamed, DropNamed, ReadNulls, DropNulls, Insert, GoTo, TypeOK
  <2>3. \A j \in Syncs : Asked(j) <=> Asked(j)'
    BY <2>2 DEF Asked
  <2>4. \A j \in Syncs : pc'[j] # "names" => batches'[j] = {}
    BY <2>1, <2>2 DEF LookupInv, Orderly
  <2>5. Orderly'
    BY <2>1, <2>3, <2>4 DEF LookupInv, Orderly
  <2>6. Real' /\ Seen' /\ Right' /\ Pending'
    BY <2>1, <2>3 DEF LookupInv, Real, Seen, Right, Pending, Exact
  <2>7. QED
    BY <2>5, <2>6 DEF LookupInv
<1>7. ASSUME NEW k \in Syncs, ScheduleNext(k) \/ SyncFails(k)
      PROVE  LookupInv'
  <2>1. Reset(k) /\ hangar' = hangar
    BY <1>7 DEF ScheduleNext, SyncFails
  <2>2. Forgets(k) /\ Only(k)
    BY <2>1, ResetForgets DEF Only
  <2>3. QED
    BY <2>2, ForgetsKeeps, OneSync
<1>8. CASE Restart
  <2>1. \A k \in Syncs : PerSync(k)'
    BY <1>8, RestartForgets, ForgetsKeeps
  <2>2. Real'
    BY <1>8 DEF Restart, LookupInv, Real
  <2>3. QED
    BY <2>1, <2>2, LookupPartsNext
<1>9. QED
  BY <1>1, <1>2, <1>3, <1>4, <1>5, <1>6, <1>7, <1>8 DEF Next, Sync, Tail5

LEMMA LookupInit == Init => LookupInv
BY DEF Init, LookupInv, Real, Orderly, Seen, Right, Pending, Asked

LEMMA LookupImplies == LookupInv => LookupExact
BY DEF LookupInv, Orderly, Pending, Asked, Exact, LookupExact

\* getAssetNames.js - one id that cannot be named costs no other its name, however long the
\* list, whatever the size of a batch, and whichever ids are rejected.
THEOREM LookupsExact == Spec => []LookupExact
<1>1. Spec => []LookupInv
  BY LookupInit, LookupNext, InitTypes, Typing, PTL DEF Spec
<1>2. QED
  BY <1>1, LookupImplies, PTL
-----------------------------------------------------------------------------
(***************************************************************************)
(* What a lookup missed is not taken for gone.                             *)
(***************************************************************************)
\* Only a sync all of whose names came cleans up, and what is single in a hangar that stayed
\* as it was is single in its assets.
CleanOf(k) ==
    /\ pc[k] \in {"named", "dropNamed"} => ~failed[k]
    /\ Asked(k) /\ ~moved[k] =>
        \A i \in Items : hangar[i] \notin {"out", "packed"} => assets[k][i] = "single"
CleanInv == \A k \in Syncs : CleanOf(k)

LEMMA CleanOthers ==
    ASSUME CleanInv, NEW k \in Syncs, Only(k), CleanOf(k)'
    PROVE  CleanInv'
BY DEF CleanInv, CleanOf, Only, Holds, Asked

LEMMA CleanNext == TypeOK /\ CleanInv /\ [Next]_vars => CleanInv'
<1> SUFFICES ASSUME TypeOK, CleanInv, [Next]_vars
             PROVE  CleanInv'
  OBVIOUS
<1>1. CASE UNCHANGED vars
  BY <1>1 DEF vars, work, CleanInv, CleanOf, Asked
<1>2. ASSUME NEW i \in Items, NEW look \in Looks(i), Move(i, look)
      PROVE  CleanInv'
  BY <1>2 DEF Move, work, CleanInv, CleanOf
<1>3. CASE (\E c \in Targeted : EditTarget(c)) \/ TimePasses
  BY <1>3 DEF EditTarget, TimePasses, work, CleanInv, CleanOf, Asked
<1>4. CASE Restart
  BY <1>4 DEF Restart, CleanInv, CleanOf, Asked
<1>5. ASSUME NEW k \in Syncs, Tick(k) \/ Register(k) \/ FetchAssets(k) \/ Tail5(k)
      PROVE  CleanInv'
  <2>1. Only(k)
    BY <1>5 DEF Tick, Register, Start, FetchAssets, Tail5, ReadTargets, ReadNamed, DropNamed,
       ReadNulls, DropNulls, Insert, GoTo, TypeOK, Only, Holds
  <2>2. CASE Tick(k) \/ Register(k)
    BY <2>1, <2>2, CleanOthers DEF Tick, Register, Start, GoTo, TypeOK, CleanOf, Asked
  <2>3. CASE FetchAssets(k)
    <3>1. /\ pc'[k] \in {"names", "targets"} /\ hangar' = hangar
          /\ \A i \in Items : hangar[i] \notin {"out", "packed"} => assets'[k][i] = "single"
      BY <2>3 DEF FetchAssets, GoTo, TypeOK
    <3>2. QED
      BY <2>1, <3>1, CleanOthers DEF CleanOf
  <2>4. CASE Tail5(k)
    <3>1. /\ Asked(k) /\ UNCHANGED <<hangar, assets, failed, moved>>
          /\ pc'[k] \in {"named", "dropNamed"} => ~failed[k]
      BY <2>4 DEF Tail5, ReadTargets, ReadNamed, DropNamed, ReadNulls, DropNulls, Insert, GoTo,
         TypeOK, Asked, CleanInv, CleanOf
    <3>2. QED
      BY <2>1, <3>1, CleanOthers DEF CleanInv, CleanOf
  <2>5. QED
    BY <1>5, <2>2, <2>3, <2>4
<1>6. ASSUME NEW k \in Syncs, NEW b \in batches[k],
             GotNames(k, b) \/ Bisect(k, b) \/ NamesFail(k, b)
      PROVE  CleanInv'
  <2>1. \E rest : Answered(k, rest)
    BY <1>6 DEF GotNames, Bisect, NamesFail
  <2>2. /\ Asked(k) /\ UNCHANGED <<hangar, assets, moved>>
        /\ pc'[k] \in {"names", "targets"}
    BY <1>6, <2>1 DEF GotNames, Bisect, NamesFail, Answered, GoTo, TypeOK, Asked
  <2>3. Only(k)
    BY <1>6 DEF GotNames, Bisect, NamesFail, Answered, GoTo, TypeOK, Only, Holds
  <2>4. QED
    BY <2>2, <2>3, CleanOthers DEF CleanInv, CleanOf
<1>7. ASSUME NEW k \in Syncs, ScheduleNext(k) \/ SyncFails(k)
      PROVE  CleanInv'
  <2>1. Reset(k) /\ hangar' = hangar
    BY <1>7 DEF ScheduleNext, SyncFails
  <2>2. pc'[k] = "idle" /\ Only(k)
    BY <2>1 DEF Reset, GoTo, TypeOK, Only, Holds
  <2>3. QED
    BY <2>2, CleanOthers DEF CleanOf, Asked
<1>8. QED
  BY <1>1, <1>2, <1>3, <1>4, <1>5, <1>6, <1>7 DEF Next, Sync, Tail5

\* A named ship that is there is in the sample of a sync that cleans up.
LEMMA Sampled ==
    ASSUME TypeOK, LookupExact, CleanInv, NEW k \in Syncs, pc[k] = "dropNamed", ~moved[k],
           NEW c \in Combos, c[2] # Null, Present(c) # 0
    PROVE  Count(k, c) > 0
<1> DEFINE P == {i \in Items : hangar[i] # "out" /\
                   c = <<TypeOf[i], IF hangar[i] \in Names THEN hangar[i] ELSE Null>>}
           T == {i \in Items : assets[k][i] # "out" /\ c = <<TypeOf[i], NameOf(k, i)>>}
<1>1. PICK i \in P : TRUE
  <2>1. P # {}
    BY FS_EmptySet DEF Present
  <2>2. QED
    BY <2>1
<1>2. hangar[i] \in Names /\ c = <<TypeOf[i], hangar[i]>>
  BY <1>1
<1>3. assets[k][i] = "single"
  <2>1. hangar[i] \notin {"out", "packed"}
    BY <1>2, StockAssumption
  <2>2. QED
    BY <1>1, <2>1 DEF CleanInv, CleanOf, Asked
<1>4. found[k][i] = hangar[i]
  BY <1>1, <1>2, <1>3 DEF LookupExact, CleanInv, CleanOf
<1>5. i \in T
  BY <1>1, <1>2, <1>3, <1>4 DEF NameOf
<1>6. IsFiniteSet(T)
  <2>1. T \in SUBSET Items
    OBVIOUS
  <2>2. QED
    BY <2>1, StockAssumption, FS_Subset
<1>7. Cardinality(T) \in Nat /\ Cardinality(T) # 0
  BY <1>5, <1>6, FS_CardinalityType, FS_EmptySet
<1>8. QED
  BY <1>7 DEF Count

\* stockSyncScheduler.js, the two clean-ups: the rows of a ship with a target that stayed are
\* not deleted, those of a ship that is there only to write them again, also after a lookup that
\* missed names, and those of plain goods never, whatever syncs overlap, fail and restart and
\* whatever ids are rejected.
THEOREM HistoryStays == Spec => HistoryKept
<1>1. Init => CleanInv
  BY DEF Init, CleanInv, CleanOf, Asked
<1>2. Spec => []CleanInv
  BY <1>1, CleanNext, InitTypes, Typing, PTL DEF Spec
<1>3. ASSUME TypeOK, LookupExact, CleanInv, [Next]_vars, NEW c \in Combos,
             c[2] # Null, log[c] > 0, log'[c] = 0
      PROVE  Present(c) = 0 \/ \E k \in Syncs : pc[k] = "dropNamed" /\ (moved[k] \/ Count(k, c) > 0)
  <2>1. PICK k \in Syncs : DropNamed(k)
    BY <1>3, WhoDeletes
  <2>2. pc[k] = "dropNamed"
    BY <2>1 DEF DropNamed
  <2>3. QED
    BY <1>3, <2>2, Sampled
<1>4. TypeOK /\ HistoryInv /\ LookupExact /\ CleanInv /\ [Next]_vars =>
        [\A c \in Combos : log[c] > 0 /\ log'[c] = 0 =>
          /\ c[2] # Null =>
                /\ \E k \in Syncs : pc[k] # "idle" /\ c \notin kept[k]
                /\ \/ Present(c) = 0
                   \/ \E k \in Syncs : pc[k] = "dropNamed" /\ (moved[k] \/ Count(k, c) > 0)
          /\ c[2] = Null => c[1] \in beenNamed]_vars
  BY <1>3, StepKeeps
<1>5. QED
  BY <1>2, <1>4, HistoryAlways, LookupsExact, StockTypeCorrect, PTL DEF Spec, HistoryKept
=============================================================================
