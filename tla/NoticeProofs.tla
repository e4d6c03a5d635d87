---------------------------- MODULE NoticeProofs ----------------------------
(***************************************************************************)
(* The notices.  The watermark of the attack alerts passes nothing: for    *)
(* every list of anchors, every number of ticks that overlap, of           *)
(* notifications and of faults; the opening of the server is announced     *)
(* once, for every number of intervals and days.                           *)
(***************************************************************************)
EXTENDS AttackAlert, DowntimeNotice, FunctionTheorems, FiniteSetTheorems, TLAPS

Bounded == \A a \in Chars : Len(aaNotes[a]) <= MaxNotes

Types ==
    /\ aaNotes \in [Chars -> Seq({"attack", "other"})]
    /\ aaOld \in [Chars -> 0..MaxNotes]
    /\ aaMark \in [Chars -> 0..Unset]
    /\ aaPosts \in [Chars -> [Ids -> Nat]]
    /\ aaStep \in [Ticks -> {"idle", "fetch", "read", "first", "post"}]
    /\ aaNext \in [Ticks -> Seq(Chars)]
    /\ aaTop \in [Ticks -> 0..MaxNotes]
    /\ aaSeen \in [Ticks -> 0..MaxNotes]
    /\ aaTodo \in [Ticks -> SUBSET Ids]
    /\ aaBase \in [Chars -> 0..Unset]
    /\ aaExcused \in [Chars -> SUBSET Ids]

\* A tick that is under way has a character, and knows no id that does not exist.
Under == \A t \in Ticks :
    /\ aaStep[t] # "idle" => aaNext[t] # <<>>
    /\ aaStep[t] \in {"read", "first", "post"} => aaTop[t] <= Len(aaNotes[Current(t)])

\* Watermarks are ids that exist, and the first one comes first.
Marks == \A a \in Chars :
    aaMark[a] # Unset => aaMark[a] <= Len(aaNotes[a]) /\ aaBase[a] # Unset

\* Below the watermark a tick read everything was dealt with; above it, up to the newest id
\* of its list, everything was or is still to be announced.
Posting == \A t \in Ticks : aaStep[t] = "post" =>
    LET a == Current(t) IN
    /\ aaBase[a] # Unset /\ aaSeen[t] <= Len(aaNotes[a])
    /\ \A i \in aaBase[a] + 1 .. aaSeen[t] : Dealt(a, i)
    /\ \A i \in aaSeen[t] + 1 .. aaTop[t] : Dealt(a, i) \/ i \in aaTodo[t]

AaInv == Types /\ Bounded /\ Under /\ Marks /\ Posting /\ NonePassed
-----------------------------------------------------------------------------
\* The bound on notifications bounds those of each character.
LEMMA RoomForOne ==
    ASSUME Types, Bounded, NEW a \in Chars,
           Cardinality({n \in Chars \X Ids : n[2] <= Len(aaNotes[n[1]])}) < MaxNotes
    PROVE  Len(aaNotes[a]) < MaxNotes
<1> DEFINE all == {n \in Chars \X Ids : n[2] <= Len(aaNotes[n[1]])}
           mine == {a} \X Ids
           f == [i \in Ids |-> <<a, i>>]
<1>1. Len(aaNotes[a]) \in Nat /\ Len(aaNotes[a]) <= MaxNotes /\ MaxNotes \in Nat
  BY AttackAlertAssumption DEF Types, Bounded
<1>2. SUFFICES ASSUME Len(aaNotes[a]) = MaxNotes PROVE FALSE
  BY <1>1
<1>3. IsFiniteSet(Ids) /\ Cardinality(Ids) = MaxNotes
  BY <1>1, FS_Interval DEF Ids
<1>4. IsFiniteSet(Chars)
  <2>1. DOMAIN Anchors = 1..Len(Anchors) /\ Len(Anchors) \in Nat
    BY AttackAlertAssumption
  <2>2. IsFiniteSet(DOMAIN Anchors)
    BY <2>1, FS_Interval
  <2>3. Anchors \in Surjection(DOMAIN Anchors, Chars)
    <3>1. Anchors \in [DOMAIN Anchors -> Chars]
      BY AttackAlertAssumption DEF Chars, ToSet
    <3>2. \A c \in Chars : \E i \in DOMAIN Anchors : Anchors[i] = c
      BY DEF Chars, ToSet
    <3>3. QED
      BY <3>1, <3>2, Fun_IsSurj
  <2>4. QED
    BY <2>2, <2>3, FS_Surjection
<1>5. IsFiniteSet(all)
  <2>1. IsFiniteSet(Chars \X Ids)
    BY <1>3, <1>4, FS_Product
  <2>2. all \in SUBSET (Chars \X Ids)
    OBVIOUS
  <2>3. QED
    BY <2>1, <2>2, FS_Subset
<1>6. mine \in SUBSET all
  BY <1>1, <1>2 DEF Ids
<1>7. Cardinality(mine) = MaxNotes
  <2>1. IsFiniteSet({a}) /\ Cardinality({a}) = 1
    BY FS_Singleton
  <2>2. Cardinality(mine) = Cardinality({a}) * Cardinality(Ids)
    BY <1>3, <2>1, FS_Product
  <2>3. QED
    BY <1>1, <1>3, <2>1, <2>2
<1>8. Cardinality(mine) <= Cardinality(all)
  BY <1>5, <1>6, FS_Subset
<1>9. Cardinality(all) \in Nat
  BY <1>5, FS_CardinalityType
<1>10. QED
  BY <1>1, <1>7, <1>8, <1>9

\* The character a tick is at.
LEMMA AtOne ==
    ASSUME Types, Under, NEW t \in Ticks, aaStep[t] # "idle"
    PROVE  /\ aaNext[t] \in Seq(Chars) /\ aaNext[t] # <<>>
           /\ Current(t) \in Chars /\ Len(aaNotes[Current(t)]) \in Nat
<1>1. aaNext[t] \in Seq(Chars) /\ aaNext[t] # <<>>
  BY DEF Types, Under
<1>2. Current(t) \in Chars
  BY <1>1 DEF Current
<1>3. QED
  BY <1>1, <1>2 DEF Types

LEMMA AaInit_Inv == AaInit => AaInv
<1> SUFFICES ASSUME AaInit
             PROVE  AaInv
  OBVIOUS
<1> USE AttackAlertAssumption DEF AaInit
<1>1. Types
  BY DEF Types, Unset
<1>2. Bounded
  BY DEF Bounded
<1>3. Under /\ Marks /\ Posting /\ NonePassed
  BY DEF Under, Marks, Posting, NonePassed
<1>4. QED
  BY <1>1, <1>2, <1>3 DEF AaInv

-----------------------------------------------------------------------------
\* A tick goes on to its next character, and may have moved the watermark of this one, over
\* what was dealt with, or set the first one, below which nothing is announced.
LEMMA LeaveKeeps ==
    ASSUME AaInv, NEW t \in Ticks, aaStep[t] # "idle", AaLeave(t),
           UNCHANGED <<aaGame, aaPosts, aaExcused>>,
           NEW m \in 0..Unset, NEW b \in 0..Unset,
           aaMark' = [aaMark EXCEPT ![Current(t)] = m],
           aaBase' = [aaBase EXCEPT ![Current(t)] = b],
           aaBase[Current(t)] # Unset => b # Unset /\ aaBase[Current(t)] <= b,
           m # Unset => /\ m <= Len(aaNotes[Current(t)]) /\ b # Unset
                        /\ \A i \in b + 1 .. m : Dealt(Current(t), i)
    PROVE  AaInv'
<1> USE AttackAlertAssumption DEF AaInv, aaGame
<1>1. /\ aaNext[t] \in Seq(Chars) /\ aaNext[t] # <<>> /\ Current(t) \in Chars
      /\ Tail(aaNext[t]) \in Seq(Chars)
      /\ Len(aaNext[t]) > 1 => Tail(aaNext[t]) # <<>>
  <2>1. aaNext[t] \in Seq(Chars) /\ aaNext[t] # <<>> /\ Current(t) \in Chars
    BY AtOne
  <2>2. /\ Tail(aaNext[t]) \in Seq(Chars)
        /\ Len(Tail(aaNext[t])) = Len(aaNext[t]) - 1 /\ Len(aaNext[t]) \in Nat
    BY <2>1
  <2>3. ASSUME Len(aaNext[t]) > 1
        PROVE  Tail(aaNext[t]) # <<>>
    <3>1. 1 \in 1..Len(Tail(aaNext[t])) /\ DOMAIN Tail(aaNext[t]) = 1..Len(Tail(aaNext[t]))
      BY <2>1, <2>2, <2>3
    <3>2. DOMAIN <<>> = {}
      OBVIOUS
    <3>3. QED
      BY <3>1, <3>2, Zenon
  <2>4. QED
    BY <2>1, <2>2, <2>3
<1>2. /\ aaNext' = [aaNext EXCEPT ![t] = Tail(aaNext[t])]
      /\ aaStep' = [aaStep EXCEPT ![t] = IF Len(aaNext[t]) > 1 THEN "fetch" ELSE "idle"]
      /\ aaTop' = [aaTop EXCEPT ![t] = 0] /\ aaSeen' = [aaSeen EXCEPT ![t] = 0]
      /\ aaTodo' = [aaTodo EXCEPT ![t] = {}]
  BY DEF AaLeave, AaGo
<1>3. Types'
  <2>1. aaMark' \in [Chars -> 0..Unset] /\ aaBase' \in [Chars -> 0..Unset]
    BY <1>1 DEF Types
  <2>2. /\ aaNext' \in [Ticks -> Seq(Chars)]
        /\ aaStep' \in [Ticks -> {"idle", "fetch", "read", "first", "post"}]
    BY <1>1, <1>2 DEF Types
  <2>3. /\ aaTop' \in [Ticks -> 0..MaxNotes] /\ aaSeen' \in [Ticks -> 0..MaxNotes]
        /\ aaTodo' \in [Ticks -> SUBSET Ids]
    <3>1. 0 \in 0..MaxNotes /\ {} \in SUBSET Ids
      OBVIOUS
    <3>2. QED
      BY <1>2, <3>1 DEF Types
  <2>4. QED
    BY <2>1, <2>2, <2>3 DEF Types, Unset
<1>4. Bounded'
  BY DEF Bounded
<1>5. Under'
  BY <1>1, <1>2 DEF Types, Under, Current
<1>6. Marks'
  BY <1>1 DEF Types, Marks
<1>7. \A a \in Chars : \A i : Dealt(a, i)' <=> Dealt(a, i)
  BY DEF Dealt
<1>8. Posting'
  <2> USE DEF Posting
  <2> TAKE u \in Ticks
  <2> HAVE aaStep'[u] = "post"
  <2>1. u # t /\ aaStep[u] = "post" /\ UNCHANGED <<aaNext[u], aaSeen[u], aaTop[u], aaTodo[u]>>
    BY <1>2 DEF Types
  <2>2. Current(u)' = Current(u) /\ Current(u) \in Chars
    BY <2>1, AtOne DEF Current
  <2>3. aaBase[Current(u)] # Unset /\ aaSeen[u] \in 0..MaxNotes /\ aaBase[Current(u)] \in Nat
    BY <2>1, <2>2 DEF Types
  <2>4. aaBase'[Current(u)] # Unset /\ aaBase[Current(u)] <= aaBase'[Current(u)]
        /\ aaBase'[Current(u)] \in Nat
    <3>1. b \in Nat
      BY DEF Unset
    <3>2. CASE Current(u) = Current(t)
      BY <1>1, <2>3, <3>1, <3>2 DEF Types
    <3>3. CASE Current(u) # Current(t)
      BY <1>1, <2>2, <2>3, <3>3 DEF Types
    <3>4. QED
      BY <3>2, <3>3 DEF Unset
  <2>5. \A i \in aaBase'[Current(u)] + 1 .. aaSeen[u] : i \in aaBase[Current(u)] + 1 .. aaSeen[u]
    BY <2>3, <2>4
  <2>6. QED
    BY <1>7, <2>1, <2>2, <2>4, <2>5
<1>9. NonePassed'
  BY <1>1, <1>7 DEF Types, NonePassed, Unset
<1>10. QED
  BY <1>3, <1>4, <1>5, <1>6, <1>8, <1>9

\* A tick goes on and has moved nothing.
LEMMA LeaveQuietly ==
    ASSUME AaInv, NEW t \in Ticks, aaStep[t] # "idle", AaLeave(t),
           UNCHANGED <<aaGame, aaMark, aaHistory>>
    PROVE  AaInv'
<1>1. /\ Current(t) \in Chars
      /\ aaMark[Current(t)] \in 0..Unset /\ aaBase[Current(t)] \in 0..Unset
      /\ aaBase[Current(t)] <= aaBase[Current(t)]
      /\ aaMark' = [aaMark EXCEPT ![Current(t)] = aaMark[Current(t)]]
      /\ aaBase' = [aaBase EXCEPT ![Current(t)] = aaBase[Current(t)]]
      /\ UNCHANGED <<aaGame, aaPosts, aaExcused>>
  BY AttackAlertAssumption DEF AaInv, Types, Under, Current, aaHistory, Unset
<1>2. aaMark[Current(t)] # Unset =>
        /\ aaMark[Current(t)] <= Len(aaNotes[Current(t)]) /\ aaBase[Current(t)] # Unset
        /\ \A i \in aaBase[Current(t)] + 1 .. aaMark[Current(t)] : Dealt(Current(t), i)
  BY <1>1 DEF AaInv, Marks, NonePassed
<1>3. QED
  BY <1>1, <1>2, LeaveKeeps

\* A step that leaves watermarks, and what is written and known of them, alone.
LEMMA QuietKeeps ==
    ASSUME AaInv, Types', Under',
           UNCHANGED <<aaNotes, aaMark, aaPosts, aaBase, aaExcused>>,
           \A t \in Ticks : aaStep'[t] = "post" =>
              aaStep[t] = "post" /\ UNCHANGED <<aaNext[t], aaSeen[t], aaTop[t], aaTodo[t]>>
    PROVE  AaInv'
<1> USE DEF AaInv
<1>1. Bounded' /\ Marks'
  BY DEF Bounded, Marks
<1>2. \A a \in Chars : \A i : Dealt(a, i)' <=> Dealt(a, i)
  BY DEF Dealt
<1>3. NonePassed'
  BY <1>2 DEF NonePassed
<1>4. Posting'
  <2> USE DEF Posting
  <2> TAKE t \in Ticks
  <2> HAVE aaStep'[t] = "post"
  <2>1. aaStep[t] = "post" /\ UNCHANGED <<aaNext[t], aaSeen[t], aaTop[t], aaTodo[t]>>
    OBVIOUS
  <2>2. Current(t)' = Current(t) /\ Current(t) \in Chars
    BY <2>1, AtOne DEF Current
  <2>3. QED
    BY <1>2, <2>1, <2>2
<1>5. QED
  BY <1>1, <1>3, <1>4

LEMMA AaNext_Inv == AaInv /\ [AaNext]_aaVars => AaInv'
<1> SUFFICES ASSUME AaInv, [AaNext]_aaVars
             PROVE  AaInv'
  OBVIOUS
<1>0. Types /\ Bounded /\ Under /\ Marks /\ Posting /\ NonePassed
  BY DEF AaInv
<1>1. ASSUME NEW a \in Chars, NEW kind \in {"attack", "other"}, Attack(a, kind)
      PROVE  AaInv'
  <2>1. Len(aaNotes[a]) < MaxNotes
    BY <1>0, <1>1, RoomForOne DEF Attack
  <2>2. /\ aaNotes' = [aaNotes EXCEPT ![a] = Append(aaNotes[a], kind)]
        /\ UNCHANGED <<aaOld, aaMark, aaStep, aaNext, aaTop, aaSeen, aaTodo>>
        /\ UNCHANGED <<aaPosts, aaBase, aaExcused>>
    BY <1>1 DEF Attack, aaTick, aaHistory
  <2>3. /\ Append(aaNotes[a], kind) \in Seq({"attack", "other"})
        /\ Len(Append(aaNotes[a], kind)) = Len(aaNotes[a]) + 1 /\ Len(aaNotes[a]) \in Nat
        /\ \A i \in 1..Len(aaNotes[a]) : Append(aaNotes[a], kind)[i] = aaNotes[a][i]
    BY <1>0 DEF Types
  <2>4. \A b \in Chars :
          /\ Len(aaNotes[b]) \in Nat /\ Len(aaNotes'[b]) \in Nat
          /\ Len(aaNotes[b]) <= Len(aaNotes'[b])
          /\ \A i \in 1..Len(aaNotes[b]) : aaNotes'[b][i] = aaNotes[b][i]
    BY <1>0, <2>2, <2>3 DEF Types
  <2>5. Types'
    BY <1>0, <2>2, <2>3 DEF Types
  <2>6. Bounded'
    BY <1>0, <2>1, <2>2, <2>3, AttackAlertAssumption DEF Types, Bounded
  <2>7. \A t \in Ticks : aaStep[t] # "idle" => Current(t)' = Current(t) /\ Current(t) \in Chars
    BY <1>0, <2>2, AtOne DEF Current
  <2>8. Under'
    <3>1. \A t \in Ticks : aaTop[t] \in Nat
      BY <1>0 DEF Types
    <3>2. QED
      BY <1>0, <2>2, <2>4, <2>7, <3>1 DEF Under
  <2>9. Marks'
    BY <1>0, <2>2, <2>4 DEF Types, Marks, Unset
  <2>10. \A b \in Chars : \A i \in 1..Len(aaNotes[b]) : Dealt(b, i) => Dealt(b, i)'
    BY <1>0, <2>2, <2>4 DEF Dealt
  <2>11. NonePassed'
    <3> USE DEF NonePassed
    <3> TAKE b \in Chars
    <3> HAVE aaMark'[b] # Unset'
    <3>1. aaMark[b] \in Nat /\ aaBase[b] \in Nat /\ aaMark[b] <= Len(aaNotes[b])
      BY <1>0, <2>2 DEF Types, Marks, Unset
    <3>2. \A i \in aaBase[b] + 1 .. aaMark[b] : i \in 1..Len(aaNotes[b]) /\ Dealt(b, i)
      BY <1>0, <2>2, <2>4, <3>1 DEF Unset
    <3>3. QED
      BY <2>2, <2>10, <3>2
  <2>12. Posting'
    <3> USE DEF Posting
    <3> TAKE t \in Ticks
    <3> HAVE aaStep'[t] = "post"
    <3> DEFINE c == Current(t)
    <3>1. /\ c \in Chars /\ aaBase[c] \in Nat /\ aaBase[c] # Unset
          /\ aaSeen[t] \in Nat /\ aaSeen[t] <= Len(aaNotes[c])
          /\ aaTop[t] \in Nat /\ aaTop[t] <= Len(aaNotes[c])
      BY <1>0, <2>2, <2>7 DEF Types, Under
    <3>2. \A i \in aaBase[c] + 1 .. aaSeen[t] : i \in 1..Len(aaNotes[c]) /\ Dealt(c, i)
      BY <1>0, <2>2, <2>4, <3>1
    <3>3. \A i \in aaSeen[t] + 1 .. aaTop[t] :
            i \in 1..Len(aaNotes[c]) /\ (Dealt(c, i) \/ i \in aaTodo[t])
      BY <1>0, <2>2, <2>4, <3>1
    <3>4. c' = c /\ aaSeen[t] <= Len(aaNotes'[c])
      BY <2>2, <2>4, <2>7, <3>1
    <3> HIDE DEF c
    <3>5. /\ \A i \in aaBase[c] + 1 .. aaSeen[t] : Dealt(c, i)'
          /\ \A i \in aaSeen[t] + 1 .. aaTop[t] : Dealt(c, i)' \/ i \in aaTodo[t]
      BY <2>10, <3>1, <3>2, <3>3, <3>4
    <3>6. QED
      BY <2>2, <3>1, <3>4, <3>5 DEF c, Unset
  <2>13. QED
    BY <2>5, <2>6, <2>8, <2>9, <2>11, <2>12 DEF AaInv
<1>2. ASSUME NEW a \in Chars, HourPasses(a)
      PROVE  AaInv'
  <2>1. Len(aaNotes[a]) \in 0..MaxNotes
    BY <1>0, AttackAlertAssumption DEF Types, Bounded
  <2>2. Types'
    BY <1>0, <1>2, <2>1 DEF HourPasses, aaTick, aaHistory, Types
  <2>3. Under'
    BY <1>0, <1>2 DEF HourPasses, aaTick, Under, Current
  <2>4. QED
    BY <1>2, <2>2, <2>3, QuietKeeps DEF HourPasses, aaTick, aaHistory
<1>3. ASSUME NEW t \in Ticks, AaStart(t)
      PROVE  AaInv'
  <2>1. Types'
    BY <1>0, <1>3, AttackAlertAssumption DEF AaStart, AaGo, aaGame, aaHistory, Types, Chars
  <2>2. Under'
    BY <1>0, <1>3, AttackAlertAssumption
    DEF AaStart, AaGo, aaGame, aaHistory, Types, Under, Current, Chars
  <2>3. \A u \in Ticks : aaStep'[u] = "post" =>
          aaStep[u] = "post" /\ UNCHANGED <<aaNext[u], aaSeen[u], aaTop[u], aaTodo[u]>>
    BY <1>0, <1>3 DEF AaStart, AaGo, Types
  <2>4. QED
    BY <1>3, <2>1, <2>2, <2>3, QuietKeeps DEF AaStart, aaGame, aaHistory
<1>4. ASSUME NEW t \in Ticks, AaFetch(t)
      PROVE  AaInv'
  <2>1. Len(aaNotes[Current(t)]) \in 0..MaxNotes
    BY <1>0, <1>4, AttackAlertAssumption DEF AaFetch, Types, Bounded, Under, Current
  <2>2. Types'
    BY <1>0, <1>4, <2>1 DEF AaFetch, AaGo, aaGame, aaHistory, Types
  <2>3. Under'
    BY <1>0, <1>4, <2>1 DEF AaFetch, AaGo, aaGame, aaHistory, Types, Under, Current
  <2>4. \A u \in Ticks : aaStep'[u] = "post" =>
          aaStep[u] = "post" /\ UNCHANGED <<aaNext[u], aaSeen[u], aaTop[u], aaTodo[u]>>
    BY <1>0, <1>4 DEF AaFetch, AaGo, Types
  <2>5. QED
    BY <1>4, <2>2, <2>3, <2>4, QuietKeeps DEF AaFetch, aaGame, aaHistory
<1>5. ASSUME NEW t \in Ticks, AaReadFirst(t)
      PROVE  AaInv'
  <2>1. CASE aaTop[t] = 0
    BY <1>5, <2>1, LeaveQuietly DEF AaReadFirst
  <2>2. CASE aaTop[t] # 0
    <3> USE <1>5, <2>2 DEF AaReadFirst, AaGo
    <3>1. Types'
      BY <1>0 DEF aaGame, aaHistory, Types
    <3>2. Under'
      BY <1>0 DEF aaGame, aaHistory, Types, Under, Current
    <3>3. \A u \in Ticks : aaStep'[u] = "post" =>
            aaStep[u] = "post" /\ UNCHANGED <<aaNext[u], aaSeen[u], aaTop[u], aaTodo[u]>>
      BY <1>0 DEF Types
    <3>4. QED
      BY <3>1, <3>2, <3>3, QuietKeeps DEF aaGame, aaHistory
  <2>3. QED
    BY <2>1, <2>2
<1>6. ASSUME NEW t \in Ticks, AaFirst(t)
      PROVE  AaInv'
  <2> DEFINE a == Current(t)
             b == IF aaBase[a] = Unset THEN aaTop[t] ELSE Max({aaBase[a], aaTop[t]})
  <2>1. /\ a \in Chars /\ aaTop[t] \in 0..MaxNotes /\ aaBase[a] \in 0..Unset
        /\ aaTop[t] <= Len(aaNotes[a]) /\ MaxNotes \in Nat
    BY <1>0, <1>6, AttackAlertAssumption DEF AaFirst, Types, Under, Current
  <2>2. \A x, y \in Nat : Max({x, y}) = IF x > y THEN x ELSE y
    BY DEF Max
  <2>3. /\ b \in 0..MaxNotes /\ aaTop[t] <= b
        /\ aaBase[a] # Unset => aaBase[a] <= b
    BY <2>1, <2>2 DEF Unset
  <2>4. \A i \in b + 1 .. aaTop[t] : FALSE
    BY <2>1, <2>3
  <2>5. /\ aaMark' = [aaMark EXCEPT ![a] = aaTop[t]]
        /\ aaBase' = [aaBase EXCEPT ![a] = b]
        /\ aaStep[t] # "idle" /\ AaLeave(t) /\ UNCHANGED <<aaGame, aaPosts, aaExcused>>
    BY <1>0, <1>6, <2>1 DEF AaFirst, Types
  <2>6. b \in 0..Unset /\ aaTop[t] \in 0..Unset /\ b # Unset
    BY <2>1, <2>3 DEF Unset
  <2> HIDE DEF b
  <2>7. QED
    BY <2>1, <2>3, <2>4, <2>5, <2>6, LeaveKeeps
<1>7. ASSUME NEW t \in Ticks, AaRead(t)
      PROVE  AaInv'
  <2> DEFINE a == Current(t)
             old == {i \in AaAttacks(t) : i <= aaOld[a]}
             new == {i \in AaAttacks(t) : i > aaOld[a]}
  <2>1. /\ a \in Chars /\ aaMark[a] \in 0..MaxNotes /\ aaTop[t] \in 0..MaxNotes
        /\ aaMark[a] <= Len(aaNotes[a]) /\ aaBase[a] # Unset
        /\ aaTop[t] <= Len(aaNotes[a]) /\ MaxNotes \in Nat
    BY <1>0, <1>7, AttackAlertAssumption DEF AaRead, Types, Under, Marks, Current, Unset
  <2>2. AaAttacks(t) \subseteq Ids
    BY <2>1 DEF AaAttacks, AaFresh, Ids
  <2>3. /\ aaSeen' = [aaSeen EXCEPT ![t] = aaMark[a]] /\ aaTodo' = [aaTodo EXCEPT ![t] = new]
        /\ aaExcused' = [aaExcused EXCEPT ![a] = aaExcused[a] \cup old]
        /\ aaStep' = [aaStep EXCEPT ![t] = "post"]
        /\ UNCHANGED <<aaNotes, aaOld, aaMark, aaNext, aaTop, aaPosts, aaBase>>
    BY <1>0, <1>7, <2>1 DEF AaRead, AaGo, aaGame, Types
  <2>4. new \subseteq Ids /\ old \subseteq Ids /\ aaStep[t] = "read"
    BY <1>7, <2>2 DEF AaRead
  <2>5. \A i \in aaMark[a] + 1 .. aaTop[t] : aaNotes[a][i] = "attack" => i \in old \/ i \in new
    <3> TAKE i \in aaMark[a] + 1 .. aaTop[t]
    <3> HAVE aaNotes[a][i] = "attack"
    <3>1. i \in AaAttacks(t)
      BY DEF AaAttacks, AaFresh
    <3>2. CASE i <= aaOld[a]
      BY <3>1, <3>2
    <3>3. CASE i > aaOld[a]
      BY <3>1, <3>3
    <3>4. QED
      BY <1>0, <2>1, <3>2, <3>3 DEF Types
  <2> HIDE DEF old, new
  <2>6. Types'
    BY <1>0, <2>1, <2>3, <2>4 DEF Types
  <2>7. Bounded' /\ Marks'
    BY <1>0, <2>3 DEF Bounded, Marks
  <2>8. Under'
    BY <1>0, <2>3, <2>4 DEF Types, Under, Current
  <2>9. \A b \in Chars : \A i : Dealt(b, i) => Dealt(b, i)'
    BY <1>0, <2>1, <2>3 DEF Dealt, Types
  <2>10. NonePassed'
    BY <1>0, <2>3, <2>9 DEF NonePassed
  <2>11. Posting'
    <3> USE DEF Posting
    <3> TAKE u \in Ticks
    <3> HAVE aaStep'[u] = "post"
    <3>1. CASE u # t
      <4>1. aaStep[u] = "post" /\ UNCHANGED <<aaSeen[u], aaTodo[u]>> /\ Current(u)' = Current(u)
        BY <1>0, <2>3, <3>1 DEF Types, Current
      <4>2. Current(u) \in Chars
        BY <1>0, <4>1 DEF Types, Under, Current
      <4>3. QED
        BY <1>0, <2>3, <2>9, <4>1, <4>2
    <3>2. CASE u = t
      <4>1. Current(t)' = a /\ aaSeen'[t] = aaMark[a] /\ aaTodo'[t] = new
        BY <1>0, <2>3 DEF Types, Current
      <4>2. \A i \in aaBase[a] + 1 .. aaMark[a] : Dealt(a, i)'
        BY <1>0, <2>1, <2>9, <4>1 DEF NonePassed, Unset
      <4>3. \A i \in aaMark[a] + 1 .. aaTop[t] : Dealt(a, i)' \/ i \in new
        BY <1>0, <2>1, <2>3, <2>5, <4>1 DEF Dealt, Types
      <4>4. QED
        BY <2>1, <2>3, <3>2, <4>1, <4>2, <4>3
    <3>3. QED
      BY <3>1, <3>2
  <2>12. QED
    BY <2>6, <2>7, <2>8, <2>10, <2>11 DEF AaInv
<1>8. ASSUME NEW t \in Ticks, AaPost(t)
      PROVE  AaInv'
  <2> DEFINE a == Current(t)
  <2>1. PICK i \in aaTodo[t] :
          /\ aaTodo' = [aaTodo EXCEPT ![t] = aaTodo[t] \ {i}]
          /\ aaPosts' = [aaPosts EXCEPT ![a][i] = @ + 1]
          /\ \/ aaExcused' = aaExcused
             \/ aaExcused' = [aaExcused EXCEPT ![a] = @ \cup {i}]
    BY <1>0, <1>8 DEF AaPost, Types
  <2>2. /\ aaStep[t] = "post" /\ a \in Chars /\ i \in Ids
        /\ UNCHANGED <<aaNotes, aaOld, aaMark, aaStep, aaNext, aaTop, aaSeen, aaBase>>
    BY <1>0, <1>8 DEF AaPost, Types, Under, Current, aaGame
  <2>3. Types'
    <3>1. aaPosts' \in [Chars -> [Ids -> Nat]]
      <4>1. aaPosts \in [Chars -> [Ids -> Nat]] /\ aaPosts[a] \in [Ids -> Nat]
        BY <1>0, <2>2 DEF Types
      <4>2. [aaPosts[a] EXCEPT ![i] = @ + 1] \in [Ids -> Nat]
        BY <2>2, <4>1
      <4>3. QED
        BY <2>1, <4>1, <4>2
    <3>2. aaTodo' \in [Ticks -> SUBSET Ids]
      <4>1. aaTodo \in [Ticks -> SUBSET Ids] /\ aaTodo[t] \ {i} \in SUBSET Ids
        BY <1>0 DEF Types
      <4>2. QED
        BY <2>1, <4>1
    <3>3. aaExcused' \in [Chars -> SUBSET Ids]
      <4>1. aaExcused \in [Chars -> SUBSET Ids] /\ aaExcused[a] \cup {i} \in SUBSET Ids
        BY <1>0, <2>2 DEF Types
      <4>2. QED
        BY <2>1, <4>1
    <3>4. QED
      BY <1>0, <2>2, <3>1, <3>2, <3>3 DEF Types
  <2>4. Bounded' /\ Marks' /\ Under'
    BY <1>0, <2>2 DEF Bounded, Marks, Under, Current
  <2>5. \A b \in Chars : \A j \in Ids : Dealt(b, j) => Dealt(b, j)'
    <3>1. \A b \in Chars : \A j \in Ids : aaPosts[b][j] > 0 => aaPosts'[b][j] > 0
      BY <1>0, <2>1, <2>2 DEF Types
    <3>2. \A b \in Chars : aaExcused[b] \subseteq aaExcused'[b]
      BY <1>0, <2>1, <2>2 DEF Types
    <3>3. QED
      BY <2>2, <3>1, <3>2 DEF Dealt
  <2>6. Current(t)' = a /\ Dealt(a, i)'
    <3>1. Current(t)' = a
      BY <2>2 DEF Current
    <3>2. aaPosts'[a][i] = aaPosts[a][i] + 1 /\ aaPosts[a][i] \in Nat
      BY <1>0, <2>1, <2>2 DEF Types
    <3>3. QED
      BY <3>1, <3>2 DEF Dealt
  <2>7. NonePassed'
    <3> USE DEF NonePassed
    <3> TAKE b \in Chars
    <3> HAVE aaMark'[b] # Unset'
    <3>1. aaMark[b] \in 0..MaxNotes /\ aaBase[b] \in Nat
      BY <1>0, <2>2, AttackAlertAssumption DEF Types, Unset
    <3>2. \A j \in aaBase[b] + 1 .. aaMark[b] : j \in Ids /\ Dealt(b, j)
      BY <1>0, <3>1, AttackAlertAssumption DEF Ids, Unset
    <3>3. QED
      BY <2>2, <2>5, <3>2
  <2>8. Posting'
    <3> USE DEF Posting
    <3> TAKE u \in Ticks
    <3> HAVE aaStep'[u] = "post"
    <3>1. /\ Current(u)' = Current(u) /\ Current(u) \in Chars
          /\ aaBase[Current(u)] \in Nat /\ aaSeen[u] \in 0..MaxNotes /\ aaTop[u] \in 0..MaxNotes
      <4>1. Current(u)' = Current(u) /\ Current(u) \in Chars
        BY <1>0, <2>2, AtOne DEF Current
      <4>2. aaBase[Current(u)] \in 0..MaxNotes + 1 /\ MaxNotes \in Nat
        BY <1>0, <4>1, AttackAlertAssumption DEF Types, Unset
      <4>3. QED
        BY <1>0, <4>1, <4>2 DEF Types
    <3>2. \A j \in aaBase[Current(u)] + 1 .. aaSeen[u] : j \in Ids /\ Dealt(Current(u), j)
      BY <1>0, <2>2, <3>1, AttackAlertAssumption DEF Ids
    <3>3. \A j \in aaSeen[u] + 1 .. aaTop[u] :
            j \in Ids /\ (Dealt(Current(u), j) \/ j \in aaTodo[u])
      BY <1>0, <2>2, <3>1, AttackAlertAssumption DEF Ids
    <3>4. \A j \in aaTodo[u] : j \in aaTodo'[u] \/ (u = t /\ j = i)
      BY <1>0, <2>1 DEF Types
    <3>5. \A j \in aaSeen[u] + 1 .. aaTop[u] : Dealt(Current(u), j)' \/ j \in aaTodo'[u]
      BY <2>5, <2>6, <3>1, <3>3, <3>4
    <3>6. QED
      BY <1>0, <2>2, <2>5, <3>1, <3>2, <3>5
  <2>9. QED
    BY <2>3, <2>4, <2>7, <2>8 DEF AaInv
<1>9. ASSUME NEW t \in Ticks, AaSave(t)
      PROVE  AaInv'
  <2> DEFINE a == Current(t)
  <2>1. /\ aaStep[t] = "post" /\ aaTodo[t] = {} /\ a \in Chars
        /\ aaTop[t] \in 0..MaxNotes /\ aaSeen[t] \in 0..MaxNotes /\ MaxNotes \in Nat
        /\ aaTop[t] <= Len(aaNotes[a]) /\ aaBase[a] \in 0..MaxNotes
    BY <1>0, <1>9, AttackAlertAssumption DEF AaSave, Types, Under, Current, Posting, Unset
  <2>2. CASE aaTop[t] > aaSeen[t]
    <3>1. \A i \in aaBase[a] + 1 .. aaTop[t] : Dealt(a, i)
      <4> TAKE i \in aaBase[a] + 1 .. aaTop[t]
      <4>1. CASE i <= aaSeen[t]
        BY <1>0, <2>1, <4>1 DEF Posting
      <4>2. CASE i > aaSeen[t]
        BY <1>0, <2>1, <4>2 DEF Posting
      <4>3. QED
        BY <2>1, <4>1, <4>2
    <3>2. /\ aaMark' = [aaMark EXCEPT ![a] = aaTop[t]]
          /\ aaBase' = [aaBase EXCEPT ![a] = aaBase[a]]
          /\ aaTop[t] \in 0..Unset /\ aaBase[a] \in 0..Unset /\ aaBase[a] # Unset
          /\ aaBase[a] <= aaBase[a]
      BY <1>0, <1>9, <2>1, <2>2 DEF AaSave, aaHistory, Types, Unset
    <3>3. QED
      BY <1>9, <2>1, <3>1, <3>2, LeaveKeeps DEF AaSave, aaHistory
  <2>3. CASE ~(aaTop[t] > aaSeen[t])
    <3>1. aaMark' = aaMark
      BY <1>0, <1>9, <2>1, <2>3 DEF AaSave, Types
    <3>2. QED
      BY <1>9, <2>1, <3>1, LeaveQuietly DEF AaSave
  <2>4. QED
    BY <2>2, <2>3
<1>10. ASSUME NEW t \in Ticks, AaFail(t)
       PROVE  AaInv'
  BY <1>10, LeaveQuietly DEF AaFail
<1>11. CASE AaCrash
  <2>1. Types' /\ Under'
    BY <1>0, <1>11, AttackAlertAssumption DEF AaCrash, aaGame, aaHistory, Types, Under
  <2>2. QED
    BY <1>11, <2>1, QuietKeeps DEF AaCrash, aaGame, aaHistory
<1>12. CASE UNCHANGED aaVars
  BY <1>0, <1>12, QuietKeeps DEF aaVars, aaGame, aaTick, aaHistory, Types, Under, Current
<1>13. QED
  BY <1>1, <1>2, <1>3, <1>4, <1>5, <1>6, <1>7, <1>8, <1>9, <1>10, <1>11, <1>12
  DEF AaNext, AaStepOf

\* The watermark passes no attack that was neither announced nor too old, nor one whose
\* webhook failed: with any number of overlapping ticks, errors and restarts
\* (structureAttackAlertScheduler.js:424, one SET when the loop is through).
THEOREM NeverPassed == AaSpec => []NonePassed
<1>1. AaInv => NonePassed
  BY DEF AaInv
<1>2. QED
  BY AaInit_Inv, AaNext_Inv, <1>1, PTL DEF AaSpec
-----------------------------------------------------------------------------
(***************************************************************************)
(* How often an attack is announced.  Every tick that is under way         *)
(* announces it once at most, or moves the watermark back below it, but    *)
(* not both; every tick but the first beside others costs a fault, and so  *)
(* does every one that leaves without moving the watermark.                *)
(***************************************************************************)
\* Every character is listed once.
Distinct == \A m, n \in DOMAIN Anchors : Anchors[m] = Anchors[n] => m = n

\* The tick has not read the watermark of the character yet.
Ahead(t, a) ==
    \/ aaStep[t] # "idle" /\ a \in Range(Tail(aaNext[t]))
    \/ aaStep[t] \in {"fetch", "read"} /\ a = Current(t)
At(t, a) == aaStep[t] \in {"first", "post"} /\ a = Current(t)
WillPost(t, a, i) == At(t, a) /\ aaStep[t] = "post" /\ i \in aaTodo[t]
WillLower(t, a, i) ==
    At(t, a) /\ aaTop[t] < i /\ (aaStep[t] = "post" => aaSeen[t] < aaTop[t])
WillPass(t, a, i) ==
    At(t, a) /\ i <= aaTop[t] /\ (aaStep[t] = "post" => aaSeen[t] < i /\ i \notin aaTodo[t])

Passed(a, i) == aaMark[a] # Unset /\ i <= aaMark[a]
Posters(a, i) == {t \in Ticks : WillPost(t, a, i)}
Charged(a, i) == {t \in Ticks : Ahead(t, a) \/ WillPost(t, a, i) \/ WillLower(t, a, i)}

BudgetOf(a, i) ==
    IF Passed(a, i)
    THEN /\ aaPosts[a][i] + Cardinality(Posters(a, i)) <= faults + 1
         /\ (\E t \in Ticks : WillLower(t, a, i)) =>
                aaPosts[a][i] + Cardinality(Charged(a, i)) <= faults + 1
    ELSE aaPosts[a][i] + Cardinality(Charged(a, i)) <=
            faults + IF \E t \in Ticks : t \in Charged(a, i) \/ WillPass(t, a, i) THEN 1 ELSE 0
Budget == \A a \in Chars : \A i \in Ids : BudgetOf(a, i)

\* What a tick announces is new to it, it is at no character twice, and there are finitely
\* many ticks.
Looked == \A t \in Ticks : aaStep[t] = "post" => aaTodo[t] \subseteq aaSeen[t] + 1 .. aaTop[t]
Once == \A t \in Ticks : \A m, n \in DOMAIN aaNext[t] : aaNext[t][m] = aaNext[t][n] => m = n
Active == {t \in Ticks : aaStep[t] # "idle"}

OnceInv == faults \in Nat /\ Looked /\ Once /\ IsFiniteSet(Active) /\ Budget

\* Sizes of the sets of ticks.
LEMMA Sizes ==
    ASSUME IsFiniteSet(Active), NEW a, NEW i
    PROVE  /\ IsFiniteSet(Charged(a, i)) /\ Cardinality(Charged(a, i)) \in Nat
           /\ IsFiniteSet(Posters(a, i)) /\ Cardinality(Posters(a, i)) \in Nat
           /\ Cardinality(Posters(a, i)) <= Cardinality(Charged(a, i))
<1>1. Charged(a, i) \in SUBSET Active
  BY DEF Charged, Active, Ahead, WillPost, WillLower, At
<1>2. Posters(a, i) \in SUBSET Charged(a, i)
  BY DEF Posters, Charged
<1>3. IsFiniteSet(Charged(a, i)) /\ IsFiniteSet(Posters(a, i))
  BY <1>1, <1>2, FS_Subset
<1>4. QED
  BY <1>2, <1>3, FS_Subset, FS_CardinalityType
LEMMA SizesNext ==
    ASSUME IsFiniteSet(Active'), NEW a, NEW i
    PROVE  /\ IsFiniteSet(Charged(a, i)') /\ Cardinality(Charged(a, i)') \in Nat
           /\ IsFiniteSet(Posters(a, i)') /\ Cardinality(Posters(a, i)') \in Nat
           /\ Cardinality(Posters(a, i)') <= Cardinality(Charged(a, i)')
<1>1. Charged(a, i)' \in SUBSET Active'
  BY DEF Charged, Active, Ahead, WillPost, WillLower, At
<1>2. Posters(a, i)' \in SUBSET Charged(a, i)'
  BY DEF Posters, Charged
<1>3. IsFiniteSet(Charged(a, i)') /\ IsFiniteSet(Posters(a, i)')
  BY <1>1, <1>2, FS_Subset
<1>4. QED
  BY <1>2, <1>3, FS_Subset, FS_CardinalityType

\* The characters a tick goes through.
LEMMA Split ==
    ASSUME NEW S, NEW s \in Seq(S), s # <<>>
    PROVE  /\ Tail(s) \in Seq(S) /\ Range(s) = {Head(s)} \cup Range(Tail(s))
           /\ (\A m, n \in DOMAIN s : s[m] = s[n] => m = n) =>
                /\ Head(s) \notin Range(Tail(s))
                /\ \A m, n \in DOMAIN Tail(s) : Tail(s)[m] = Tail(s)[n] => m = n
<1>1. /\ Len(s) \in Nat \ {0} /\ DOMAIN s = 1..Len(s) /\ Head(s) = s[1] /\ Tail(s) \in Seq(S)
      /\ DOMAIN Tail(s) = 1..Len(s) - 1
      /\ \A k \in 1..Len(s) - 1 : Tail(s)[k] = s[k + 1]
  OBVIOUS
<1>2. ASSUME NEW x \in Range(s)
      PROVE  x \in {Head(s)} \cup Range(Tail(s))
  <2>1. PICK k \in 1..Len(s) : x = s[k]
    BY <1>1 DEF Range
  <2>2. CASE k = 1
    BY <1>1, <2>1, <2>2
  <2>3. CASE k # 1
    <3>1. k - 1 \in 1..Len(s) - 1 /\ (k - 1) + 1 = k
      BY <1>1, <2>3
    <3>2. Tail(s)[k - 1] = x
      BY <1>1, <2>1, <3>1
    <3>3. QED
      BY <1>1, <3>1, <3>2 DEF Range
  <2>4. QED
    BY <2>2, <2>3
<1>3. ASSUME NEW x \in {Head(s)} \cup Range(Tail(s))
      PROVE  x \in Range(s)
  <2>1. CASE x = Head(s)
    BY <1>1, <2>1 DEF Range
  <2>2. CASE x \in Range(Tail(s))
    <3>1. PICK k \in 1..Len(s) - 1 : x = Tail(s)[k]
      BY <1>1, <2>2 DEF Range
    <3>2. k + 1 \in 1..Len(s) /\ x = s[k + 1]
      BY <1>1, <3>1
    <3>3. QED
      BY <1>1, <3>2 DEF Range
  <2>3. QED
    BY <2>1, <2>2
<1>4. ASSUME \A m, n \in DOMAIN s : s[m] = s[n] => m = n
      PROVE  /\ Head(s) \notin Range(Tail(s))
             /\ \A m, n \in DOMAIN Tail(s) : Tail(s)[m] = Tail(s)[n] => m = n
  <2>1. \A k \in 1..Len(s) - 1 : k + 1 \in DOMAIN s /\ k + 1 # 1 /\ 1 \in DOMAIN s
    BY <1>1
  <2>2. \A k \in 1..Len(s) - 1 : Tail(s)[k] # Head(s)
    BY <1>1, <1>4, <2>1
  <2>3. Head(s) \notin Range(Tail(s))
    BY <1>1, <2>2 DEF Range
  <2>4. \A m, n \in 1..Len(s) - 1 : s[m + 1] = s[n + 1] => m = n
    <3> TAKE m, n \in 1..Len(s) - 1
    <3>1. s[m + 1] = s[n + 1] => m + 1 = n + 1
      BY <1>4, <2>1
    <3>2. QED
      BY <3>1
  <2>5. QED
    BY <1>1, <2>3, <2>4
<1>5. QED
  BY <1>1, <1>2, <1>3, <1>4

LEMMA Short ==
    ASSUME NEW S, NEW s \in Seq(S), s # <<>>
    PROVE  IF Len(s) > 1 THEN Tail(s) # <<>> ELSE Range(Tail(s)) = {}
<1>1. /\ Len(s) \in Nat \ {0} /\ Tail(s) \in Seq(S)
      /\ DOMAIN Tail(s) = 1..Len(s) - 1 /\ Len(Tail(s)) = Len(s) - 1
  OBVIOUS
<1>2. CASE Len(s) > 1
  <2>1. 1 \in DOMAIN Tail(s)
    BY <1>1, <1>2
  <2>2. DOMAIN <<>> = {}
    OBVIOUS
  <2>3. QED
    BY <1>2, <2>1, <2>2, Zenon
<1>3. CASE ~(Len(s) > 1)
  <2>1. DOMAIN Tail(s) = {}
    BY <1>1, <1>3
  <2>2. QED
    BY <1>3, <2>1 DEF Range
<1>4. QED
  BY <1>2, <1>3

\* A tick stands where it stood.
Stays(u) == UNCHANGED <<aaStep[u], aaNext[u], aaTop[u], aaSeen[u], aaTodo[u]>>

LEMMA StaysSame ==
    ASSUME NEW u \in Ticks, Stays(u), NEW a, NEW i
    PROVE  /\ Ahead(u, a)' <=> Ahead(u, a)
           /\ WillPost(u, a, i)' <=> WillPost(u, a, i)
           /\ WillLower(u, a, i)' <=> WillLower(u, a, i)
           /\ WillPass(u, a, i)' <=> WillPass(u, a, i)
           /\ At(u, a)' <=> At(u, a)
BY DEF Stays, Ahead, WillPost, WillLower, WillPass, At, Current

\* What a tick is to an id: charged for it, about to announce it, to pass it.
Same(t, a, i) ==
    /\ (Ahead(t, a) \/ WillPost(t, a, i) \/ WillLower(t, a, i))' <=>
            Ahead(t, a) \/ WillPost(t, a, i) \/ WillLower(t, a, i)
    /\ WillPost(t, a, i)' <=> WillPost(t, a, i)
    /\ WillLower(t, a, i)' <=> WillLower(t, a, i)
    /\ WillPass(t, a, i)' <=> WillPass(t, a, i)

\* A step at which no tick becomes anything else to the id.
LEMMA SameBudget ==
    ASSUME NEW a, NEW i, BudgetOf(a, i), \A u \in Ticks : Same(u, a, i), IsFiniteSet(Active),
           aaPosts'[a][i] = aaPosts[a][i], aaPosts[a][i] \in Nat,
           Passed(a, i)' <=> Passed(a, i),
           faults \in Nat, faults' \in Nat, faults <= faults'
    PROVE  BudgetOf(a, i)'
<1>1. Charged(a, i)' = Charged(a, i) /\ Posters(a, i)' = Posters(a, i)
  BY DEF Charged, Posters, Same
<1>2. (\E u \in Ticks : WillLower(u, a, i)') <=> \E u \in Ticks : WillLower(u, a, i)
  BY DEF Same
<1>3. (\E u \in Ticks : (u \in Charged(a, i) \/ WillPass(u, a, i))')
        <=> \E u \in Ticks : u \in Charged(a, i) \/ WillPass(u, a, i)
  BY <1>1 DEF Same
<1>4. Cardinality(Charged(a, i)) \in Nat /\ Cardinality(Posters(a, i)) \in Nat
  BY Sizes
<1>5. CASE Passed(a, i)
  BY <1>1, <1>2, <1>4, <1>5 DEF BudgetOf
<1>6. CASE ~Passed(a, i)
  BY <1>1, <1>3, <1>4, <1>6 DEF BudgetOf
<1>7. QED
  BY <1>5, <1>6

\* A step after which a tick is charged for less, and was charged for the id or paid for with
\* a fault.
Less(t, a, i) ==
    /\ \A u \in Ticks \ {t} : Stays(u)
    /\ IsFiniteSet(Active) /\ IsFiniteSet(Active')
    /\ Charged(a, i)' \subseteq Charged(a, i)
    /\ Passed(a, i) => Posters(a, i)' \subseteq Posters(a, i)
    /\ WillLower(t, a, i)' /\ Passed(a, i) => WillLower(t, a, i)
    /\ aaPosts'[a][i] = aaPosts[a][i] /\ aaPosts[a][i] \in Nat
    /\ faults \in Nat /\ faults' \in Nat
    /\ \/ faults' = faults + 1 /\ (Passed(a, i)' <=> Passed(a, i))
       \/ faults' = faults /\ t \in Charged(a, i) /\ (Passed(a, i)' <=> Passed(a, i))
       \/ faults' = faults /\ Passed(a, i)'
       \/ /\ faults' = faults /\ WillLower(t, a, i)
          /\ t \notin Charged(a, i)' /\ ~Passed(a, i)'

LEMMA LessBudget ==
    ASSUME NEW a, NEW i, NEW t \in Ticks, BudgetOf(a, i), Less(t, a, i)
    PROVE  BudgetOf(a, i)'
<1>1. PICK p \in Nat, c \in Nat, q \in Nat, c1 \in Nat, q1 \in Nat, f \in Nat, f1 \in Nat :
        /\ p = aaPosts[a][i] /\ p = aaPosts'[a][i] /\ f = faults /\ f1 = faults'
        /\ c = Cardinality(Charged(a, i)) /\ q = Cardinality(Posters(a, i)) /\ q <= c
        /\ c1 = Cardinality(Charged(a, i)') /\ q1 = Cardinality(Posters(a, i)') /\ q1 <= c1
  BY Sizes, SizesNext DEF Less
<1>2. c1 <= c /\ (Passed(a, i) => q1 <= q) /\ (c1 = c => Charged(a, i)' = Charged(a, i))
  <2>1. /\ Charged(a, i)' \in SUBSET Charged(a, i)
        /\ Passed(a, i) => Posters(a, i)' \in SUBSET Posters(a, i)
    BY DEF Less
  <2>2. IsFiniteSet(Charged(a, i)) /\ IsFiniteSet(Posters(a, i))
    BY Sizes DEF Less
  <2>3. QED
    BY <1>1, <2>1, <2>2, FS_Subset
<1>3. t \in Charged(a, i) /\ t \notin Charged(a, i)' => c1 + 1 <= c
  <2>1. t \in Charged(a, i) /\ t \notin Charged(a, i)' => c1 # c
    BY <1>2
  <2>2. c1 <= c
    BY <1>2
  <2>3. QED
    BY <2>1, <2>2
<1>4. f1 = f \/ f1 = f + 1
  BY <1>1 DEF Less
<1>5. CASE Passed(a, i)
  <2>1. p + q <= f + 1 /\ ((\E u \in Ticks : WillLower(u, a, i)) => p + c <= f + 1)
    BY <1>1, <1>5 DEF BudgetOf
  <2>2. CASE Passed(a, i)'
    <3>1. p + q1 <= f1 + 1
      BY <1>2, <1>4, <1>5, <2>1
    <3>2. ASSUME NEW u \in Ticks, WillLower(u, a, i)'
          PROVE  p + c1 <= f1 + 1
      <4>1. \E v \in Ticks : WillLower(v, a, i)
        BY <1>5, <3>2, StaysSame DEF Less
      <4>2. p + c <= f + 1
        BY <2>1, <4>1
      <4>3. QED
        BY <1>2, <1>4, <4>2
    <3>3. QED
      BY <1>1, <2>2, <3>1, <3>2 DEF BudgetOf
  <2>3. CASE ~Passed(a, i)'
    <3>1. WillLower(t, a, i) /\ t \in Charged(a, i) /\ t \notin Charged(a, i)'
      BY <1>5, <2>3 DEF Less, Charged
    <3>2. p + c <= f + 1 /\ c1 + 1 <= c
      BY <1>3, <2>1, <3>1
    <3>3. p + c1 <= f1
      BY <1>4, <3>2
    <3>4. QED
      BY <1>1, <2>3, <3>3 DEF BudgetOf
  <2>4. QED
    BY <2>2, <2>3
<1>6. CASE ~Passed(a, i)
  <2>1. p + c <= f + 1
    BY <1>1, <1>6 DEF BudgetOf
  <2>2. CASE Passed(a, i)'
    <3>1. p + q1 <= f1 + 1 /\ p + c1 <= f1 + 1
      <4>1. p + c1 <= f1 + 1
        BY <1>2, <1>4, <2>1
      <4>2. q1 <= c1
        BY <1>1
      <4>3. QED
        BY <4>1, <4>2
    <3>2. QED
      BY <1>1, <2>2, <3>1 DEF BudgetOf
  <2>3. CASE ~Passed(a, i)' /\ p + c1 <= f1
    BY <1>1, <2>3 DEF BudgetOf
  <2>4. CASE ~Passed(a, i)' /\ t \in Charged(a, i)'
    <3>1. p + c1 <= f1 + 1
      BY <1>2, <1>4, <2>1
    <3>2. \E u \in Ticks : (u \in Charged(a, i) \/ WillPass(u, a, i))'
      BY <2>4
    <3>3. QED
      BY <1>1, <2>4, <3>1, <3>2 DEF BudgetOf
  <2>5. ASSUME ~Passed(a, i)', t \notin Charged(a, i)'
        PROVE  p + c1 <= f1
    <3>1. CASE f1 = f + 1
      BY <1>2, <2>1, <3>1
    <3>2. CASE f1 # f + 1
      <4>1. t \in Charged(a, i)
        BY <1>1, <2>5, <3>2 DEF Less, Charged
      <4>2. c1 + 1 <= c
        BY <1>3, <2>5, <4>1
      <4>3. f1 = f
        BY <1>4, <3>2
      <4>4. QED
        BY <2>1, <4>2, <4>3
    <3>3. QED
      BY <3>1, <3>2
  <2>6. QED
    BY <2>2, <2>3, <2>4, <2>5
<1>7. QED
  BY <1>5, <1>6

\* What is left to show of a step of one tick.
LEMMA OneTick ==
    ASSUME OnceInv, NEW t \in Ticks, \A u \in Ticks \ {t} : Stays(u),
           aaStep'[t] = "post" => aaTodo'[t] \subseteq aaSeen'[t] + 1 .. aaTop'[t],
           \A m, n \in DOMAIN aaNext'[t] : aaNext'[t][m] = aaNext'[t][n] => m = n,
           faults' \in Nat, \A a \in Chars : \A i \in Ids : BudgetOf(a, i)'
    PROVE  OnceInv'
<1>1. Looked'
  BY DEF OnceInv, Looked, Stays
<1>2. Once'
  BY DEF OnceInv, Once, Stays
<1>3. IsFiniteSet(Active')
  <2>1. IsFiniteSet(Active \cup {t})
    BY FS_AddElement DEF OnceInv
  <2>2. Active' \in SUBSET (Active \cup {t})
    BY DEF Active, Stays
  <2>3. QED
    BY <2>1, <2>2, FS_Subset
<1>4. QED
  BY <1>1, <1>2, <1>3 DEF OnceInv, Budget

LEMMA ActiveAfter ==
    ASSUME IsFiniteSet(Active), NEW t \in Ticks, \A u \in Ticks \ {t} : Stays(u)
    PROVE  IsFiniteSet(Active')
<1>1. IsFiniteSet(Active \cup {t})
  BY FS_AddElement
<1>2. Active' \in SUBSET (Active \cup {t})
  BY DEF Active, Stays
<1>3. QED
  BY <1>1, <1>2, FS_Subset

LEMMA OthersSame ==
    ASSUME NEW t \in Ticks, \A u \in Ticks \ {t} : Stays(u), NEW a, NEW i
    PROVE  \A u \in Ticks \ {t} : Same(u, a, i)
BY StaysSame DEF Same

\* A tick is charged for no more ids than it was.
LEMMA Shrinks ==
    ASSUME NEW t \in Ticks, \A u \in Ticks \ {t} : Stays(u), NEW a, NEW i,
           t \in Charged(a, i)' => t \in Charged(a, i)
    PROVE  /\ Charged(a, i)' \subseteq Charged(a, i)
           /\ (WillPost(t, a, i)' => WillPost(t, a, i)) => Posters(a, i)' \subseteq Posters(a, i)
<1>1. \A u \in Ticks \ {t} : Same(u, a, i)
  BY OthersSame
<1>2. Charged(a, i)' \subseteq Charged(a, i)
  BY <1>1 DEF Same, Charged
<1>3. ASSUME WillPost(t, a, i)' => WillPost(t, a, i)
      PROVE  Posters(a, i)' \subseteq Posters(a, i)
  BY <1>1, <1>3 DEF Same, Posters
<1>4. QED
  BY <1>2, <1>3

LEMMA LeavesOnce ==
    ASSUME AaInv, NEW t \in Ticks, aaStep[t] # "idle", AaLeave(t)
    PROVE  /\ \A u \in Ticks \ {t} : Stays(u)
           /\ \A a : (Ahead(t, a)' <=> a \in Range(Tail(aaNext[t]))) /\ ~At(t, a)'
           /\ aaStep'[t] # "post" /\ aaNext'[t] = Tail(aaNext[t])
<1>1. /\ \A u \in Ticks \ {t} : Stays(u)
      /\ aaNext'[t] = Tail(aaNext[t])
      /\ aaStep'[t] = IF Len(aaNext[t]) > 1 THEN "fetch" ELSE "idle"
  BY DEF AaInv, Types, AaLeave, AaGo, Stays
<1>2. /\ aaNext[t] \in Seq(Chars) /\ aaNext[t] # <<>>
      /\ Tail(aaNext[t]) \in Seq(Chars)
  BY AtOne DEF AaInv
<1>3. ASSUME NEW a, Len(aaNext[t]) > 1
      PROVE  Ahead(t, a)' <=> a \in Range(Tail(aaNext[t]))
  <2>1. Tail(aaNext[t]) # <<>>
    BY <1>2, <1>3, Short
  <2>2. Range(Tail(aaNext[t])) = {Head(Tail(aaNext[t]))} \cup Range(Tail(Tail(aaNext[t])))
    BY <1>2, <2>1, Split
  <2>3. aaStep'[t] = "fetch" /\ Current(t)' = Head(Tail(aaNext[t]))
    BY <1>1, <1>3 DEF Current
  <2>4. QED
    BY <1>1, <2>2, <2>3 DEF Ahead
<1>4. ASSUME NEW a, ~(Len(aaNext[t]) > 1)
      PROVE  Ahead(t, a)' <=> a \in Range(Tail(aaNext[t]))
  <2>1. Range(Tail(aaNext[t])) = {}
    BY <1>2, <1>4, Short
  <2>2. aaStep'[t] = "idle"
    BY <1>1, <1>4
  <2>3. QED
    BY <2>1, <2>2 DEF Ahead
<1>5. \A a : ~At(t, a)'
  BY <1>1 DEF At
<1>6. QED
  BY <1>1, <1>3, <1>4, <1>5

\* To the other characters nothing happens when a tick leaves one.
LEMMA LeavesOthers ==
    ASSUME AaInv, OnceInv, NEW t \in Ticks, aaStep[t] # "idle", AaLeave(t),
           NEW a \in Chars, a # Current(t), NEW i \in Ids,
           aaPosts'[a][i] = aaPosts[a][i], Passed(a, i)' <=> Passed(a, i),
           faults' \in Nat, faults <= faults'
    PROVE  BudgetOf(a, i)'
<1>1. Same(t, a, i)
  <2>1. Ahead(t, a) <=> a \in Range(Tail(aaNext[t]))
    BY DEF Ahead
  <2>2. ~At(t, a)
    BY DEF At
  <2>3. QED
    BY <2>1, <2>2, LeavesOnce DEF Same, WillPost, WillLower, WillPass
<1>2. \A u \in Ticks : Same(u, a, i)
  BY <1>1, LeavesOnce, OthersSame
<1>3. aaPosts[a][i] \in Nat
  BY DEF AaInv, Types
<1>4. BudgetOf(a, i) /\ IsFiniteSet(Active) /\ faults \in Nat
  BY DEF OnceInv, Budget
<1>5. QED
  BY <1>2, <1>3, <1>4, SameBudget

\* The character it leaves it does not come back to.
LEMMA LeavesThis ==
    ASSUME AaInv, OnceInv, NEW t \in Ticks, aaStep[t] # "idle", AaLeave(t),
           NEW a, a = Current(t), NEW i
    PROVE  /\ t \notin Charged(a, i)' /\ ~WillPost(t, a, i)'
           /\ ~WillLower(t, a, i)' /\ ~WillPass(t, a, i)'
<1>1. aaNext[t] \in Seq(Chars) /\ aaNext[t] # <<>>
  BY AtOne DEF AaInv
<1>2. a \notin Range(Tail(aaNext[t]))
  BY <1>1, Split DEF OnceInv, Once, Current
<1>3. ~Ahead(t, a)' /\ ~At(t, a)'
  BY <1>2, LeavesOnce
<1>4. QED
  BY <1>3 DEF Charged, WillPost, WillLower, WillPass

LEMMA NextAfter ==
    ASSUME AaInv, OnceInv, NEW t \in Ticks, aaStep[t] # "idle"
    PROVE  \A m, n \in DOMAIN Tail(aaNext[t]) : Tail(aaNext[t])[m] = Tail(aaNext[t])[n] => m = n
<1>1. aaNext[t] \in Seq(Chars) /\ aaNext[t] # <<>>
  BY AtOne DEF AaInv
<1>2. QED
  BY <1>1, Split DEF OnceInv, Once

-----------------------------------------------------------------------------
LEMMA StartOnce ==
    ASSUME Distinct, AaInv, OnceInv, NEW t \in Ticks, AaStart(t)
    PROVE  OnceInv'
<1>1. /\ \A u \in Ticks \ {t} : Stays(u)
      /\ aaStep[t] = "idle" /\ aaStep'[t] = "fetch" /\ aaNext'[t] = Anchors
      /\ UNCHANGED <<aaMark, aaPosts>>
  BY DEF AaInv, Types, AaStart, AaGo, Stays, aaHistory
<1>2. faults \in Nat /\ Budget /\ IsFiniteSet(Active)
  BY DEF OnceInv
<1>3. faults' \in Nat /\ (faults' = faults \/ faults' = faults + 1)
      /\ ((\E u \in Ticks : aaStep[u] # "idle") => faults' = faults + 1)
  BY <1>2 DEF AaStart, Fault, NoFault
<1>4. ASSUME NEW a \in Chars, NEW i \in Ids
      PROVE  BudgetOf(a, i)'
  <2>1. \A u \in Ticks \ {t} : Same(u, a, i)
    BY <1>1, OthersSame
  <2>2. ~Ahead(t, a) /\ ~WillPost(t, a, i) /\ ~WillLower(t, a, i) /\ ~WillPass(t, a, i)
    BY <1>1 DEF Ahead, WillPost, WillLower, WillPass, At
  <2>3. Ahead(t, a)' /\ ~WillPost(t, a, i)' /\ ~WillLower(t, a, i)'
    <3>1. Anchors \in Seq(Chars) /\ Anchors # <<>> /\ a \in Range(Anchors)
      BY AttackAlertAssumption DEF Chars, ToSet, Range
    <3>2. a = Head(Anchors) \/ a \in Range(Tail(Anchors))
      BY <3>1, Split
    <3>3. QED
      BY <1>1, <3>2 DEF Ahead, Current, WillPost, WillLower, At
  <2>4. Charged(a, i)' = Charged(a, i) \cup {t} /\ t \notin Charged(a, i)
    BY <2>1, <2>2, <2>3 DEF Same, Charged
  <2>5. Posters(a, i)' = Posters(a, i)
    BY <2>1, <2>2, <2>3 DEF Same, Posters
  <2>6. PICK p \in Nat, c \in Nat, q \in Nat, f \in Nat, f1 \in Nat :
          /\ p = aaPosts[a][i] /\ p = aaPosts'[a][i] /\ f = faults /\ f1 = faults'
          /\ c = Cardinality(Charged(a, i)) /\ q = Cardinality(Posters(a, i))
    BY <1>1, <1>2, <1>3, Sizes DEF AaInv, Types
  <2>7. Cardinality(Charged(a, i)') = c + 1 /\ Cardinality(Posters(a, i)') = q
    BY <1>2, <2>4, <2>5, <2>6, Sizes, FS_AddElement
  <2>8. (f1 = f \/ f1 = f + 1) /\ BudgetOf(a, i)
    BY <1>2, <1>3, <2>6 DEF Budget
  <2>9. CASE Passed(a, i)
    <3>1. Passed(a, i)'
      BY <1>1, <2>9 DEF Passed
    <3>2. p + q <= f1 + 1
      <4>1. p + q <= f + 1
        BY <2>6, <2>8, <2>9 DEF BudgetOf
      <4>2. QED
        BY <2>8, <4>1
    <3>3. ASSUME NEW u \in Ticks, WillLower(u, a, i)'
          PROVE  p + (c + 1) <= f1 + 1
      <4>1. WillLower(u, a, i)
        BY <2>1, <2>3, <3>3 DEF Same
      <4>2. p + c <= f + 1
        BY <2>6, <2>8, <2>9, <4>1 DEF BudgetOf
      <4>3. f1 = f + 1
        BY <1>3, <2>6, <4>1 DEF WillLower, At
      <4>4. QED
        BY <4>2, <4>3
    <3>4. QED
      BY <2>6, <2>7, <3>1, <3>2, <3>3 DEF BudgetOf
  <2>10. CASE ~Passed(a, i)
    <3>1. ~Passed(a, i)'
      BY <1>1, <2>10 DEF Passed
    <3>2. \E u \in Ticks : (u \in Charged(a, i) \/ WillPass(u, a, i))'
      BY <2>4
    <3>3. p + (c + 1) <= f1 + 1
      <4>1. CASE f1 = f + 1
        <5>1. p + c <= f + 1
          BY <2>6, <2>8, <2>10 DEF BudgetOf
        <5>2. QED
          BY <4>1, <5>1
      <4>2. CASE f1 # f + 1
        <5>1. \A u \in Ticks : aaStep[u] = "idle"
          BY <1>3, <2>6, <4>2
        <5>2. \A u \in Ticks : u \notin Charged(a, i) /\ ~WillPass(u, a, i)
          BY <5>1 DEF Charged, WillPass, Ahead, WillPost, WillLower, At
        <5>3. p + c <= f
          BY <2>6, <2>8, <2>10, <5>2 DEF BudgetOf
        <5>4. f1 = f
          BY <2>8, <4>2
        <5>5. QED
          BY <5>3, <5>4
      <4>3. QED
        BY <4>1, <4>2
    <3>4. QED
      BY <2>6, <2>7, <3>1, <3>2, <3>3 DEF BudgetOf
  <2>11. QED
    BY <2>9, <2>10
<1>5. aaStep'[t] # "post" /\ \A m, n \in DOMAIN aaNext'[t] : aaNext'[t][m] = aaNext'[t][n] => m = n
  BY <1>1 DEF Distinct
<1>6. QED
  BY <1>1, <1>3, <1>4, <1>5, OneTick

LEMMA FetchOnce ==
    ASSUME AaInv, OnceInv, NEW t \in Ticks, AaFetch(t)
    PROVE  OnceInv'
<1>1. /\ \A u \in Ticks \ {t} : Stays(u)
      /\ aaStep[t] = "fetch" /\ aaStep'[t] = "read" /\ aaNext'[t] = aaNext[t]
      /\ UNCHANGED <<aaMark, aaPosts, faults>>
  BY DEF AaInv, Types, AaFetch, AaGo, Stays, aaHistory, NoFault
<1>2. ASSUME NEW a \in Chars, NEW i \in Ids
      PROVE  BudgetOf(a, i)'
  <2>1. Same(t, a, i)
    BY <1>1 DEF Same, Ahead, Current, WillPost, WillLower, WillPass, At
  <2>2. \A u \in Ticks : Same(u, a, i)
    BY <1>1, <2>1, OthersSame
  <2>3. aaPosts[a][i] \in Nat /\ BudgetOf(a, i) /\ IsFiniteSet(Active) /\ faults \in Nat
    BY DEF AaInv, Types, OnceInv, Budget
  <2>4. Passed(a, i)' <=> Passed(a, i)
    BY <1>1 DEF Passed
  <2>5. QED
    BY <1>1, <2>2, <2>3, <2>4, SameBudget
<1>3. QED
  BY <1>1, <1>2, OneTick DEF OnceInv, Once

\* A tick that turns from an error to its next character.
LEMMA FailOnce ==
    ASSUME AaInv, OnceInv, NEW t \in Ticks, AaFail(t)
    PROVE  OnceInv'
<1>1. /\ aaStep[t] # "idle" /\ AaLeave(t) /\ faults' = faults + 1
      /\ UNCHANGED <<aaMark, aaPosts>>
  BY DEF AaFail, Fault, aaHistory
<1>2. \A u \in Ticks \ {t} : Stays(u)
  BY <1>1, LeavesOnce
<1>3. faults \in Nat /\ faults' \in Nat /\ IsFiniteSet(Active) /\ Budget
  BY <1>1 DEF OnceInv
<1>4. ASSUME NEW a \in Chars, NEW i \in Ids
      PROVE  BudgetOf(a, i)'
  <2>1. (Ahead(t, a)' => Ahead(t, a)) /\ ~At(t, a)'
    BY <1>1, LeavesOnce DEF Ahead
  <2>2. /\ t \in Charged(a, i)' => t \in Charged(a, i)
        /\ ~WillPost(t, a, i)' /\ ~WillLower(t, a, i)'
    BY <2>1 DEF Charged, WillPost, WillLower
  <2>3. Posters(a, i)' \subseteq Posters(a, i) /\ Charged(a, i)' \subseteq Charged(a, i)
    BY <1>2, <2>2, Shrinks
  <2>4. IsFiniteSet(Active')
    BY <1>2, <1>3, ActiveAfter
  <2>5. aaPosts'[a][i] = aaPosts[a][i] /\ aaPosts[a][i] \in Nat /\ (Passed(a, i)' <=> Passed(a, i))
    BY <1>1 DEF AaInv, Types, Passed
  <2>6. Less(t, a, i)
    BY <1>1, <1>2, <1>3, <2>2, <2>3, <2>4, <2>5 DEF Less
  <2>7. QED
    BY <1>3, <2>6, LessBudget DEF Budget
<1>5. /\ aaStep'[t] # "post"
      /\ \A m, n \in DOMAIN aaNext'[t] : aaNext'[t][m] = aaNext'[t][n] => m = n
  BY <1>1, LeavesOnce, NextAfter
<1>6. QED
  BY <1>2, <1>3, <1>4, <1>5, OneTick

\* A tick that leaves a character, having moved its watermark to m or not at all.
LEMMA LeaveOnce ==
    ASSUME AaInv, OnceInv, NEW t \in Ticks, aaStep[t] # "idle", AaLeave(t),
           UNCHANGED <<aaPosts, faults>>,
           \A a \in Chars : a # Current(t) => aaMark'[a] = aaMark[a],
           \A a \in Chars : \A i \in Ids : a = Current(t) =>
               \/ Passed(a, i)'
               \/ (Passed(a, i)' <=> Passed(a, i)) /\ t \in Charged(a, i)
               \/ WillLower(t, a, i)
               \/ aaMark' = aaMark /\ t \notin Charged(a, i) /\ ~WillPass(t, a, i)
    PROVE  OnceInv'
<1>1. \A u \in Ticks \ {t} : Stays(u)
  BY LeavesOnce
<1>2. faults \in Nat /\ IsFiniteSet(Active) /\ Budget
  BY DEF OnceInv
<1>3. ASSUME NEW a \in Chars, NEW i \in Ids, a # Current(t)
      PROVE  BudgetOf(a, i)'
  <2>1. Passed(a, i)' <=> Passed(a, i)
    BY <1>3 DEF Passed, Unset
  <2>2. QED
    BY <1>2, <1>3, <2>1, LeavesOthers
<1>4. ASSUME NEW a \in Chars, NEW i \in Ids, a = Current(t)
      PROVE  BudgetOf(a, i)'
  <2>1. /\ t \notin Charged(a, i)' /\ ~WillPost(t, a, i)'
        /\ ~WillLower(t, a, i)' /\ ~WillPass(t, a, i)'
    BY <1>4, LeavesThis
  <2>2. aaPosts'[a][i] = aaPosts[a][i] /\ aaPosts[a][i] \in Nat /\ BudgetOf(a, i)
    BY <1>2 DEF AaInv, Types, Budget
  <2>3. CASE aaMark' = aaMark /\ t \notin Charged(a, i) /\ ~WillPass(t, a, i)
    <3>1. Same(t, a, i)
      BY <2>1, <2>3 DEF Same, Charged
    <3>2. \A u \in Ticks : Same(u, a, i)
      BY <1>1, <3>1, OthersSame
    <3>3. Passed(a, i)' <=> Passed(a, i)
      BY <2>3 DEF Passed, Unset
    <3>4. faults' \in Nat /\ faults <= faults'
      BY <1>2
    <3>5. QED
      BY <1>2, <2>2, <3>2, <3>3, <3>4, SameBudget
  <2>4. CASE \/ Passed(a, i)'
             \/ (Passed(a, i)' <=> Passed(a, i)) /\ t \in Charged(a, i)
             \/ WillLower(t, a, i)
    <3>1. Posters(a, i)' \subseteq Posters(a, i) /\ Charged(a, i)' \subseteq Charged(a, i)
      BY <1>1, <2>1, Shrinks
    <3>2. IsFiniteSet(Active')
      BY <1>1, <1>2, ActiveAfter
    <3>3. Less(t, a, i)
      BY <1>1, <1>2, <2>1, <2>2, <2>4, <3>1, <3>2 DEF Less
    <3>4. QED
      BY <2>2, <3>3, LessBudget
  <2>5. QED
    BY <1>4, <2>3, <2>4
<1>5. /\ aaStep'[t] # "post"
      /\ \A m, n \in DOMAIN aaNext'[t] : aaNext'[t][m] = aaNext'[t][n] => m = n
  BY LeavesOnce, NextAfter
<1>6. faults' \in Nat
  BY <1>2
<1>7. QED
  BY <1>1, <1>3, <1>4, <1>5, <1>6, OneTick

LEMMA ReadFirstOnce ==
    ASSUME AaInv, OnceInv, NEW t \in Ticks, AaReadFirst(t)
    PROVE  OnceInv'
<1>1. /\ aaStep[t] = "read" /\ aaMark[Current(t)] = Unset
      /\ UNCHANGED <<aaMark, aaPosts, faults>>
  BY DEF AaReadFirst, NoFault, aaHistory
<1>2. \A i : ~Passed(Current(t), i) /\ t \in Charged(Current(t), i)
  BY <1>1 DEF Passed, Charged, Ahead
<1>3. CASE aaTop[t] = 0
  <2>1. AaLeave(t)
    BY <1>3 DEF AaReadFirst
  <2>2. \A a \in Chars : \A i \in Ids : Passed(a, i)' <=> Passed(a, i)
    BY <1>1 DEF Passed
  <2>3. QED
    BY <1>1, <1>2, <2>1, <2>2, LeaveOnce
<1>4. CASE aaTop[t] # 0
  <2>1. /\ \A u \in Ticks \ {t} : Stays(u)
        /\ aaStep'[t] = "first" /\ aaNext'[t] = aaNext[t] /\ aaTop'[t] = aaTop[t]
    BY <1>4 DEF AaInv, Types, AaReadFirst, AaGo, Stays
  <2>2. ASSUME NEW a \in Chars, NEW i \in Ids
        PROVE  BudgetOf(a, i)'
    <3>1. aaPosts[a][i] \in Nat /\ BudgetOf(a, i) /\ IsFiniteSet(Active) /\ faults \in Nat
      BY DEF AaInv, Types, OnceInv, Budget
    <3>2. Passed(a, i)' <=> Passed(a, i)
      BY <1>1 DEF Passed
    <3>3. CASE a # Current(t)
      <4>1. Same(t, a, i)
        BY <1>1, <2>1, <3>3 DEF Same, Ahead, Current, WillPost, WillLower, WillPass, At
      <4>2. \A u \in Ticks : Same(u, a, i)
        BY <2>1, <4>1, OthersSame
      <4>3. QED
        BY <1>1, <3>1, <3>2, <4>2, SameBudget
    <3>4. CASE a = Current(t)
      <4>1. t \in Charged(a, i) /\ ~Passed(a, i) /\ ~WillPost(t, a, i)'
        BY <1>2, <2>1, <3>4 DEF WillPost
      <4>2. Posters(a, i)' \subseteq Posters(a, i) /\ Charged(a, i)' \subseteq Charged(a, i)
        BY <2>1, <4>1, Shrinks
      <4>3. IsFiniteSet(Active')
        BY <2>1, <3>1, ActiveAfter
      <4>4. Less(t, a, i)
        BY <1>1, <2>1, <3>1, <3>2, <4>1, <4>2, <4>3 DEF Less
      <4>5. QED
        BY <3>1, <4>4, LessBudget
    <3>5. QED
      BY <3>3, <3>4
  <2>3. QED
    BY <1>1, <2>1, <2>2, OneTick DEF OnceInv, Once
<1>5. QED
  BY <1>3, <1>4

LEMMA FirstOnce ==
    ASSUME AaInv, OnceInv, NEW t \in Ticks, AaFirst(t)
    PROVE  OnceInv'
<1>1. /\ aaStep[t] = "first" /\ AaLeave(t) /\ UNCHANGED <<aaPosts, faults>>
      /\ aaMark' = [aaMark EXCEPT ![Current(t)] = aaTop[t]]
  BY DEF AaFirst, NoFault
<1>2. /\ aaMark \in [Chars -> 0..Unset] /\ Current(t) \in Chars
      /\ aaTop[t] \in 0..MaxNotes /\ MaxNotes \in Nat
  BY <1>1, AtOne, AttackAlertAssumption DEF AaInv, Types
<1>3. \A a \in Chars : a # Current(t) => aaMark'[a] = aaMark[a]
  BY <1>1, <1>2
<1>4. ASSUME NEW a \in Chars, NEW i \in Ids, a = Current(t)
      PROVE  Passed(a, i)' \/ WillLower(t, a, i)
  <2>1. aaMark'[a] = aaTop[t] /\ aaTop[t] # Unset
    BY <1>1, <1>2, <1>4 DEF Unset
  <2>2. i <= aaTop[t] \/ aaTop[t] < i
    BY <1>2 DEF Ids
  <2>3. QED
    BY <1>1, <1>4, <2>1, <2>2 DEF Passed, WillLower, At, Unset
<1>5. QED
  BY <1>1, <1>3, <1>4, LeaveOnce

LEMMA SaveOnce ==
    ASSUME AaInv, OnceInv, NEW t \in Ticks, AaSave(t)
    PROVE  OnceInv'
<1>1. /\ aaStep[t] = "post" /\ aaTodo[t] = {} /\ AaLeave(t) /\ UNCHANGED <<aaPosts, faults>>
      /\ aaMark' = [aaMark EXCEPT ![Current(t)] = IF aaTop[t] > aaSeen[t] THEN aaTop[t] ELSE @]
  BY DEF AaSave, NoFault, aaHistory
<1>2. /\ aaMark \in [Chars -> 0..Unset] /\ Current(t) \in Chars /\ aaSeen[t] \in 0..MaxNotes
      /\ aaTop[t] \in 0..MaxNotes /\ MaxNotes \in Nat
  BY <1>1, AtOne, AttackAlertAssumption DEF AaInv, Types
<1>3. \A a \in Chars : a # Current(t) => aaMark'[a] = aaMark[a]
  BY <1>1, <1>2
<1>4. ASSUME NEW a \in Chars, NEW i \in Ids, a = Current(t)
      PROVE  \/ Passed(a, i)' \/ WillLower(t, a, i)
             \/ aaMark' = aaMark /\ t \notin Charged(a, i) /\ ~WillPass(t, a, i)
  <2>1. CASE aaTop[t] > aaSeen[t]
    <3>1. aaMark'[a] = aaTop[t] /\ aaTop[t] # Unset
      BY <1>1, <1>2, <1>4, <2>1 DEF Unset
    <3>2. i <= aaTop[t] \/ aaTop[t] < i
      BY <1>2 DEF Ids
    <3>3. aaSeen[t] < aaTop[t]
      BY <1>2, <2>1
    <3>4. QED
      BY <1>1, <1>4, <3>1, <3>2, <3>3 DEF Passed, WillLower, At, Unset
  <2>2. CASE ~(aaTop[t] > aaSeen[t])
    <3>1. aaMark' = aaMark
      BY <1>1, <1>2, <2>2
    <3>2. ~WillPost(t, a, i) /\ ~WillLower(t, a, i)
      <4>1. ~(aaSeen[t] < aaTop[t])
        BY <1>2, <2>2
      <4>2. QED
        BY <1>1, <4>1 DEF WillPost, WillLower
    <3>3. ~WillPass(t, a, i)
      <4>1. ~(i <= aaTop[t] /\ aaSeen[t] < i)
        BY <1>2, <2>2 DEF Ids
      <4>2. QED
        BY <1>1, <4>1 DEF WillPass
    <3>4. ~Ahead(t, a)
      <4>1. aaNext[t] \in Seq(Chars) /\ aaNext[t] # <<>>
        BY <1>1, AtOne DEF AaInv
      <4>2. a \notin Range(Tail(aaNext[t]))
        BY <1>4, <4>1, Split DEF OnceInv, Once, Current
      <4>3. QED
        BY <1>1, <4>2 DEF Ahead
    <3>5. QED
      BY <3>1, <3>2, <3>3, <3>4 DEF Charged
  <2>3. QED
    BY <2>1, <2>2
<1>5. QED
  BY <1>1, <1>3, <1>4, LeaveOnce

LEMMA ReadOnce ==
    ASSUME AaInv, OnceInv, NEW t \in Ticks, AaRead(t)
    PROVE  OnceInv'
<1> DEFINE c == Current(t)
<1>1. /\ \A u \in Ticks \ {t} : Stays(u)
      /\ aaStep[t] = "read" /\ aaStep'[t] = "post" /\ aaNext'[t] = aaNext[t]
      /\ aaTop'[t] = aaTop[t] /\ aaSeen'[t] = aaMark[c] /\ aaMark[c] # Unset
      /\ aaTodo'[t] = {i \in AaAttacks(t) : i > aaOld[c]}
      /\ UNCHANGED <<aaMark, aaPosts, faults>>
  BY DEF AaInv, Types, AaRead, AaGo, Stays, NoFault
<1>2. aaTodo'[t] \subseteq aaMark[c] + 1 .. aaTop[t]
  BY <1>1 DEF AaAttacks, AaFresh
<1>3. aaMark[c] \in Nat /\ aaTop[t] \in Nat
  BY <1>1, AtOne, AttackAlertAssumption DEF AaInv, Types, Unset
<1> HIDE DEF c
<1>4. ASSUME NEW a \in Chars, NEW i \in Ids
      PROVE  BudgetOf(a, i)'
  <2>1. aaPosts[a][i] \in Nat /\ BudgetOf(a, i) /\ IsFiniteSet(Active) /\ faults \in Nat
    BY DEF AaInv, Types, OnceInv, Budget
  <2>2. Passed(a, i)' <=> Passed(a, i)
    BY <1>1 DEF Passed
  <2>3. CASE a # c
    <3>1. Same(t, a, i)
      BY <1>1, <2>3 DEF Same, Ahead, Current, WillPost, WillLower, WillPass, At, c
    <3>2. \A u \in Ticks : Same(u, a, i)
      BY <1>1, <3>1, OthersSame
    <3>3. QED
      BY <1>1, <2>1, <2>2, <3>2, SameBudget
  <2>4. CASE a = c /\ Passed(a, i)
    <3>1. i <= aaMark[c] /\ i \in Nat
      BY <2>4 DEF Passed, Ids
    <3>2. i \notin aaTodo'[t] /\ ~(aaTop[t] < i /\ aaMark[c] < aaTop[t])
      BY <1>2, <1>3, <3>1
    <3>3. ~WillPost(t, a, i)' /\ ~WillLower(t, a, i)'
      BY <1>1, <3>2 DEF WillPost, WillLower
    <3>4. t \in Charged(a, i)
      BY <1>1, <2>4 DEF Charged, Ahead, c
    <3>5. Posters(a, i)' \subseteq Posters(a, i) /\ Charged(a, i)' \subseteq Charged(a, i)
      BY <1>1, <3>3, <3>4, Shrinks
    <3>6. IsFiniteSet(Active')
      BY <1>1, <2>1, ActiveAfter
    <3>7. Less(t, a, i)
      BY <1>1, <2>1, <2>2, <3>3, <3>4, <3>5, <3>6 DEF Less
    <3>8. QED
      BY <2>1, <3>7, LessBudget
  <2>5. CASE a = c /\ ~Passed(a, i)
    <3>1. t \in Charged(a, i)
      BY <1>1, <2>5 DEF Charged, Ahead, c
    <3>2. Charged(a, i)' \subseteq Charged(a, i)
      BY <1>1, <3>1, Shrinks
    <3>3. IsFiniteSet(Active')
      BY <1>1, <2>1, ActiveAfter
    <3>4. Less(t, a, i)
      BY <1>1, <2>1, <2>2, <2>5, <3>1, <3>2, <3>3 DEF Less
    <3>5. QED
      BY <2>1, <3>4, LessBudget
  <2>6. QED
    BY <2>3, <2>4, <2>5
<1>5. \A m, n \in DOMAIN aaNext'[t] : aaNext'[t][m] = aaNext'[t][n] => m = n
  BY <1>1 DEF OnceInv, Once
<1>6. faults' \in Nat
  BY <1>1 DEF OnceInv
<1>7. QED
  BY <1>1, <1>2, <1>4, <1>5, <1>6, OneTick

LEMMA PostOnce ==
    ASSUME AaInv, OnceInv, NEW t \in Ticks, AaPost(t)
    PROVE  OnceInv'
<1> DEFINE c == Current(t)
<1>1. PICK k \in aaTodo[t] :
        /\ aaTodo' = [aaTodo EXCEPT ![t] = @ \ {k}]
        /\ aaPosts' = [aaPosts EXCEPT ![c][k] = @ + 1]
        /\ NoFault \/ Fault
  BY DEF AaPost
<1>2. /\ \A u \in Ticks \ {t} : Stays(u)
      /\ aaStep[t] = "post" /\ aaStep'[t] = "post" /\ aaNext'[t] = aaNext[t]
      /\ aaTop'[t] = aaTop[t] /\ aaSeen'[t] = aaSeen[t] /\ aaTodo'[t] = aaTodo[t] \ {k}
      /\ UNCHANGED aaMark
  BY <1>1 DEF AaInv, Types, AaPost, Stays, aaGame
<1>3. faults \in Nat /\ faults' \in Nat /\ (faults' = faults \/ faults' = faults + 1)
      /\ IsFiniteSet(Active) /\ Budget
  BY <1>1 DEF OnceInv, NoFault, Fault
<1>4. /\ c \in Chars /\ k \in Ids /\ aaPosts \in [Chars -> [Ids -> Nat]]
      /\ aaTop[t] \in Nat /\ aaSeen[t] \in Nat
      /\ aaNext[t] \in Seq(Chars) /\ aaNext[t] # <<>>
  BY <1>2, AtOne DEF AaInv, Types
<1>5. aaTodo[t] \subseteq aaSeen[t] + 1 .. aaTop[t]
  BY <1>2 DEF OnceInv, Looked
<1>6. c \notin Range(Tail(aaNext[t]))
  BY <1>4, Split DEF OnceInv, Once, Current
<1> HIDE DEF c
<1>7. ASSUME NEW a \in Chars, NEW i \in Ids, ~(a = c /\ i = k)
      PROVE  BudgetOf(a, i)'
  <2>1. aaPosts'[a][i] = aaPosts[a][i] /\ aaPosts[a][i] \in Nat
    BY <1>1, <1>4, <1>7
  <2>2. Passed(a, i)' <=> Passed(a, i)
    BY <1>2 DEF Passed
  <2>3. Same(t, a, i)
    <3>1. At(t, a) => a = c
      BY DEF At, c
    <3>2. At(t, a) => (i \in aaTodo'[t] <=> i \in aaTodo[t])
      BY <1>2, <1>7, <3>1
    <3>3. (Ahead(t, a)' <=> Ahead(t, a)) /\ (At(t, a)' <=> At(t, a))
      BY <1>2 DEF Ahead, At, Current
    <3>4. QED
      BY <1>2, <3>2, <3>3 DEF Same, WillPost, WillLower, WillPass
  <2>4. \A u \in Ticks : Same(u, a, i)
    BY <1>2, <2>3, OthersSame
  <2>5. BudgetOf(a, i) /\ faults <= faults'
    BY <1>3 DEF Budget
  <2>6. QED
    BY <1>3, <2>1, <2>2, <2>4, <2>5, SameBudget
<1>8. ASSUME NEW a \in Chars, a = c
      PROVE  BudgetOf(a, k)'
  <2>1. At(t, a) /\ At(t, a)' /\ aaSeen[t] < k /\ k <= aaTop[t] /\ ~(aaTop[t] < k)
    BY <1>1, <1>2, <1>4, <1>5, <1>8 DEF At, Current, c
  <2>2. WillPost(t, a, k) /\ ~WillLower(t, a, k)
    BY <1>1, <1>2, <2>1 DEF WillPost, WillLower
  <2>3. ~WillPost(t, a, k)' /\ ~WillLower(t, a, k)' /\ WillPass(t, a, k)'
    BY <1>2, <2>1 DEF WillPost, WillLower, WillPass
  <2>4. ~Ahead(t, a)'
    BY <1>2, <1>6, <1>8 DEF Ahead
  <2>5. \A u \in Ticks \ {t} : Same(u, a, k)
    BY <1>2, OthersSame
  <2>6. Charged(a, k)' = Charged(a, k) \ {t} /\ t \in Charged(a, k)
    BY <2>2, <2>3, <2>4, <2>5 DEF Same, Charged
  <2>7. Posters(a, k)' = Posters(a, k) \ {t} /\ t \in Posters(a, k)
    BY <2>2, <2>3, <2>5 DEF Same, Posters
  <2>8. PICK p \in Nat, n \in Nat, q \in Nat, n1 \in Nat, q1 \in Nat, f \in Nat, f1 \in Nat :
          /\ p = aaPosts[a][k] /\ f = faults /\ f1 = faults'
          /\ n = Cardinality(Charged(a, k)) /\ q = Cardinality(Posters(a, k))
          /\ n1 = Cardinality(Charged(a, k)') /\ q1 = Cardinality(Posters(a, k)')
    <3>1. IsFiniteSet(Active')
      BY <1>2, <1>3, ActiveAfter
    <3>2. QED
      BY <1>3, <1>4, <3>1, Sizes, SizesNext
  <2>9. n1 = n - 1 /\ q1 = q - 1
    <3>1. IsFiniteSet(Charged(a, k)) /\ IsFiniteSet(Posters(a, k))
      BY <1>3, Sizes
    <3>2. Cardinality(Charged(a, k) \ {t}) = Cardinality(Charged(a, k)) - 1
      BY <2>6, <3>1, FS_RemoveElement
    <3>3. Cardinality(Posters(a, k) \ {t}) = Cardinality(Posters(a, k)) - 1
      BY <2>7, <3>1, FS_RemoveElement
    <3>4. QED
      BY <2>6, <2>7, <2>8, <3>2, <3>3
  <2>10. aaPosts'[a][k] = p + 1
    BY <1>1, <1>4, <1>8, <2>8
  <2>11. (f1 = f \/ f1 = f + 1) /\ BudgetOf(a, k) /\ (Passed(a, k)' <=> Passed(a, k))
    BY <1>2, <1>3, <1>4, <1>8, <2>8 DEF Budget, Passed
  <2>12. CASE Passed(a, k)
    <3>1. p + q <= f + 1
      BY <2>8, <2>11, <2>12 DEF BudgetOf
    <3>2. (p + 1) + q1 <= f1 + 1
      BY <2>9, <2>11, <3>1
    <3>3. ASSUME NEW u \in Ticks, WillLower(u, a, k)'
          PROVE  (p + 1) + n1 <= f1 + 1
      <4>1. WillLower(u, a, k)
        BY <2>3, <2>5, <3>3 DEF Same
      <4>2. p + n <= f + 1
        BY <2>8, <2>11, <2>12, <4>1 DEF BudgetOf
      <4>3. QED
        BY <2>9, <2>11, <4>2
    <3>4. QED
      BY <2>8, <2>10, <2>11, <2>12, <3>2, <3>3 DEF BudgetOf
  <2>13. CASE ~Passed(a, k)
    <3>1. p + n <= f + 1
      BY <2>8, <2>11, <2>13 DEF BudgetOf
    <3>2. (p + 1) + n1 <= f1 + 1
      BY <2>9, <2>11, <3>1
    <3>3. \E u \in Ticks : (u \in Charged(a, k) \/ WillPass(u, a, k))'
      BY <2>3
    <3>4. QED
      BY <2>8, <2>10, <2>11, <2>13, <3>2, <3>3 DEF BudgetOf
  <2>14. QED
    BY <2>12, <2>13
<1>9. \A a \in Chars : \A i \in Ids : BudgetOf(a, i)'
  <2> SUFFICES ASSUME NEW a \in Chars, NEW i \in Ids
               PROVE  BudgetOf(a, i)'
    OBVIOUS
  <2>1. CASE a = c /\ i = k
    BY <1>8, <2>1
  <2>2. QED
    BY <1>7, <2>1
<1>10. aaTodo'[t] \subseteq aaSeen'[t] + 1 .. aaTop'[t]
  BY <1>2, <1>5
<1>11. \A m, n \in DOMAIN aaNext'[t] : aaNext'[t][m] = aaNext'[t][n] => m = n
  BY <1>2 DEF OnceInv, Once
<1>12. QED
  BY <1>2, <1>3, <1>9, <1>10, <1>11, OneTick

LEMMA CrashOnce ==
    ASSUME AaInv, OnceInv, AaCrash
    PROVE  OnceInv'
<1>1. /\ \A u \in Ticks : aaStep'[u] = "idle" /\ aaNext'[u] = <<>>
      /\ UNCHANGED <<aaMark, aaPosts>> /\ faults' = faults + 1
  BY DEF AaCrash, Fault, aaHistory
<1>2. faults \in Nat /\ IsFiniteSet(Active) /\ Budget
  BY DEF OnceInv
<1>3. Active' = {} /\ IsFiniteSet(Active')
  BY <1>1, FS_EmptySet DEF Active
<1>4. ASSUME NEW a \in Chars, NEW i \in Ids
      PROVE  BudgetOf(a, i)'
  <2>1. /\ Charged(a, i)' = {} /\ Posters(a, i)' = {}
        /\ \A u \in Ticks : ~WillLower(u, a, i)'
    BY <1>1 DEF Charged, Posters, Ahead, WillPost, WillLower, At
  <2>2. Cardinality(Charged(a, i)') = 0 /\ Cardinality(Posters(a, i)') = 0
    BY <2>1, FS_EmptySet
  <2>3. PICK p \in Nat, n \in Nat, q \in Nat, f \in Nat :
          /\ p = aaPosts[a][i] /\ f = faults
          /\ n = Cardinality(Charged(a, i)) /\ q = Cardinality(Posters(a, i))
    BY <1>2, Sizes DEF AaInv, Types
  <2>4. p <= f + 1
    <3>1. p + q <= f + 1 \/ p + n <= f + 1
      BY <1>2, <2>3 DEF Budget, BudgetOf
    <3>2. QED
      BY <3>1
  <2>5. p + 0 <= (f + 1) + 1 /\ p + 0 <= (f + 1) + 0
    BY <2>4
  <2>6. aaPosts'[a][i] = p /\ faults' = f + 1
    BY <1>1, <2>3
  <2>7. CASE Passed(a, i)'
    BY <2>1, <2>2, <2>5, <2>6, <2>7 DEF BudgetOf
  <2>8. CASE ~Passed(a, i)'
    <3>1. p + 0 <= (f + 1) + 0 /\ p + 0 <= (f + 1) + 1
      BY <2>5
    <3>2. QED
      BY <2>2, <2>6, <2>8, <3>1 DEF BudgetOf
  <2>9. QED
    BY <2>7, <2>8
<1>5. Looked' /\ Once'
  BY <1>1 DEF Looked, Once
<1>6. QED
  BY <1>1, <1>2, <1>3, <1>4, <1>5 DEF OnceInv, Budget

LEMMA OnceNext == Distinct /\ AaInv /\ OnceInv /\ [AaNext]_aaVars => OnceInv'
<1> SUFFICES ASSUME Distinct, AaInv, OnceInv, [AaNext]_aaVars
             PROVE  OnceInv'
  OBVIOUS
<1>1. CASE \/ \E a \in Chars : (\E kind \in {"attack", "other"} : Attack(a, kind)) \/ HourPasses(a)
           \/ UNCHANGED aaVars
  <2>1. UNCHANGED <<aaMark, aaStep, aaNext, aaTop, aaSeen, aaTodo, aaPosts, faults>>
    BY <1>1 DEF Attack, HourPasses, NoFault, aaVars, aaTick, aaHistory
  <2>2. Looked' /\ Once' /\ Active' = Active
    BY <2>1 DEF OnceInv, Looked, Once, Active
  <2>3. ASSUME NEW a \in Chars, NEW i \in Ids
        PROVE  BudgetOf(a, i)'
    <3>1. \A u \in Ticks : Same(u, a, i)
      BY <2>1 DEF Same, Ahead, WillPost, WillLower, WillPass, At, Current
    <3>2. Passed(a, i)' <=> Passed(a, i)
      BY <2>1 DEF Passed
    <3>3. aaPosts[a][i] \in Nat /\ BudgetOf(a, i) /\ IsFiniteSet(Active) /\ faults \in Nat
      BY DEF AaInv, Types, OnceInv, Budget
    <3>4. QED
      BY <2>1, <3>1, <3>2, <3>3, SameBudget
  <2>4. QED
    BY <2>1, <2>2, <2>3 DEF OnceInv, Budget
<1>2. ASSUME NEW t \in Ticks, AaStart(t) \/ AaStepOf(t) \/ AaFail(t)
      PROVE  OnceInv'
  BY <1>2, StartOnce, FetchOnce, ReadFirstOnce, FirstOnce, ReadOnce, PostOnce, SaveOnce, FailOnce
  DEF AaStepOf
<1>3. CASE AaCrash
  BY <1>3, CrashOnce
<1>4. QED
  BY <1>1, <1>2, <1>3 DEF AaNext

LEMMA OnceInit == AaInit => OnceInv
<1> SUFFICES ASSUME AaInit
             PROVE  OnceInv
  OBVIOUS
<1>1. /\ \A u \in Ticks : aaStep[u] = "idle" /\ aaNext[u] = <<>>
      /\ \A a \in Chars : \A i \in Ids : aaPosts[a][i] = 0
      /\ \A a \in Chars : aaMark[a] = Unset
      /\ faults = 0
  BY DEF AaInit
<1>2. Active = {} /\ IsFiniteSet(Active)
  BY <1>1, FS_EmptySet DEF Active
<1>3. ASSUME NEW a \in Chars, NEW i \in Ids
      PROVE  BudgetOf(a, i)
  <2>1. Charged(a, i) = {} /\ ~Passed(a, i)
    BY <1>1 DEF Charged, Ahead, WillPost, WillLower, At, Passed
  <2>2. Cardinality(Charged(a, i)) = 0
    BY <2>1, FS_EmptySet
  <2>3. QED
    BY <1>1, <2>1, <2>2 DEF BudgetOf
<1>4. Looked /\ Once
  BY <1>1 DEF Looked, Once
<1>5. QED
  BY <1>1, <1>2, <1>3, <1>4 DEF OnceInv, Budget

LEMMA OnceImplies == AaInv /\ OnceInv => NoneRepeated
<1> SUFFICES ASSUME AaInv, OnceInv, NEW a \in Chars, NEW i \in Ids
             PROVE  aaPosts[a][i] <= 1 + faults
  BY DEF NoneRepeated
<1>1. PICK p \in Nat, n \in Nat, q \in Nat, f \in Nat :
        /\ p = aaPosts[a][i] /\ f = faults
        /\ n = Cardinality(Charged(a, i)) /\ q = Cardinality(Posters(a, i))
  BY Sizes DEF AaInv, Types, OnceInv
<1>2. p + q <= f + 1 \/ p + n <= f + 1
  BY <1>1 DEF OnceInv, Budget, BudgetOf
<1>3. p <= 1 + f
  BY <1>2
<1>4. QED
  BY <1>1, <1>3

\* Where every character is listed once, the watermark passes no attack, and each error,
\* restart or overlapping tick repeats an announcement once at most
\* (structureAttackAlertScheduler.js:384, the loop stops at the watermark).
THEOREM WatermarkHolds == Distinct => (AaSpec => []AaWatermark)
<1> SUFFICES ASSUME Distinct
             PROVE  AaSpec => []AaWatermark
  OBVIOUS
<1>1. AaInit => AaInv /\ OnceInv
  BY AaInit_Inv, OnceInit
<1>2. AaInv /\ OnceInv /\ [AaNext]_aaVars => (AaInv /\ OnceInv)'
  BY AaNext_Inv, OnceNext
<1>3. AaInv /\ OnceInv => AaWatermark
  BY OnceImplies DEF AaInv, AaWatermark
<1>4. QED
  BY <1>1, <1>2, <1>3, PTL DEF AaSpec
-----------------------------------------------------------------------------
(***************************************************************************)
(* The notice of the opening.  What is taken on the day of the start stays *)
(* taken: its key is set, or none of its intervals is left, and no other   *)
(* one of that date is to come.                                            *)
(***************************************************************************)
DtPosting(e) == \E i \in Intervals : dtStep[i] = "open" /\ dtOf[i] = e
DtTaken(e) == dtPosts[dtStart][e] # 0 \/ DtPosting(e)
DtBegun(e) == e < dtDay \/ (e = dtDay /\ dtEleven)

\* No start and no interval is of a day to come, and no interval of today comes before
\* eleven; the server starts once a day.
DtTimes ==
    /\ dtStart <= dtDay
    /\ dtServer = "down" => dtStart # dtDay
    /\ \A i \in Intervals : dtOf[i] # 0 => DtBegun(dtOf[i])

\* Who is about to post saw a start, which has not been announced under its key; it is alone.
DtPending ==
    /\ \A i \in Intervals : dtStep[i] # "wait" =>
          dtOf[i] # 0 /\ dtStart # 0 /\ dtServer # "down"
    /\ \A i \in Intervals : dtStep[i] = "open" =>
          dtServer = "open" /\ dtPosts[dtStart][dtOf[i]] = 0
    /\ \A i, j \in Intervals :
          dtStep[i] = "open" /\ dtStep[j] = "open" /\ dtOf[i] = dtOf[j] => i = j

DtFresh == \A d \in Days : \A e \in Days : d > dtStart => dtPosts[d][e] = 0

DtClosed ==
    dtStart = dtDay => \A e \in Days : DtTaken(e) =>
        /\ dtServer = "open" /\ DtBegun(e)
        /\ e \in dtKeys["open"] \/ \A i \in Intervals : dtOf[i] # e

\* A key that was claimed twice stays for the rest of the date.
DtTwice == \A p \in Phases : \A d \in Days : dtClaims[p][d] = 2 => d \in dtKeys[p]

DtInv ==
    DtTypeOK /\ DtTimes /\ DtPending /\ DtFresh /\ DtClosed /\ DtTwice /\ DtOneNotice
-----------------------------------------------------------------------------
\* A key that is free was claimed once at most.
LEMMA DtClaimsNext ==
    ASSUME DtInv, NEW i \in Intervals, NEW phase \in Phases, DtClaim(i, phase)
    PROVE  dtClaims' \in [Phases -> [Days -> 0..2]] /\ DtTwice'
<1>1. /\ dtOf[i] \in Days /\ dtOf[i] \notin dtKeys[phase]
      /\ dtKeys' = [dtKeys EXCEPT ![phase] = @ \cup {dtOf[i]}]
      /\ dtClaims' = [dtClaims EXCEPT ![phase][dtOf[i]] = @ + 1]
  <2>1. dtOf[i] \in 0..MaxDays /\ dtOf[i] # 0
    BY DEF DtInv, DtTypeOK, DtClaim, DtSees
  <2>2. dtOf[i] \in Days
    BY <2>1, DowntimeAssumption DEF Days
  <2>3. QED
    BY <2>2 DEF DtClaim, DtUnclaimed
<1>2. dtClaims \in [Phases -> [Days -> 0..2]] /\ dtKeys \in [Phases -> SUBSET Days]
  BY DEF DtInv, DtTypeOK
<1>3. dtClaims[phase][dtOf[i]] \in 0..1
  <2>1. dtClaims[phase][dtOf[i]] \in 0..2
    BY <1>1, <1>2
  <2>2. dtClaims[phase][dtOf[i]] # 2
    BY <1>1 DEF DtInv, DtTwice
  <2>3. QED
    BY <2>1, <2>2
<1>4. PICK row \in [Days -> 0..2] :
        row = [dtClaims[phase] EXCEPT ![dtOf[i]] = @ + 1]
  <2>1. dtClaims[phase] \in [Days -> 0..2] /\ dtClaims[phase][dtOf[i]] + 1 \in 0..2
    BY <1>2, <1>3
  <2>2. QED
    BY <1>1, <2>1
<1>5. dtClaims' = [dtClaims EXCEPT ![phase] = row]
  BY <1>1, <1>2, <1>4
<1>6. ASSUME NEW p \in Phases, NEW d \in Days, dtClaims'[p][d] = 2
      PROVE  d \in dtKeys'[p]
  <2>1. CASE p = phase /\ d = dtOf[i]
    BY <1>1, <1>2, <2>1
  <2>2. CASE ~(p = phase /\ d = dtOf[i])
    <3>1. dtClaims'[p][d] = dtClaims[p][d]
      BY <1>1, <1>2, <1>4, <1>5, <2>2
    <3>2. d \in dtKeys[p]
      BY <1>6, <3>1 DEF DtInv, DtTwice
    <3>3. QED
      BY <1>1, <1>2, <3>2
  <2>3. QED
    BY <2>1, <2>2
<1>7. QED
  BY <1>2, <1>4, <1>5, <1>6 DEF DtTwice

\* One notice more, of one start under one key.
LEMMA DtPosted ==
    ASSUME DtInv, NEW i \in Intervals, dtStep[i] # "wait"
    PROVE  /\ Posted(i) \in [Days -> [Days -> Nat]]
           /\ dtStart \in Days /\ dtOf[i] \in Days
           /\ \A d \in Days : \A e \in Days :
                Posted(i)[d][e] =
                  IF dtStep[i] = "open" /\ d = dtStart /\ e = dtOf[i] THEN 1
                  ELSE dtPosts[d][e]
<1>1. dtStep[i] \in Phases /\ dtStart \in Days /\ dtOf[i] \in Days
  <2>1. /\ dtStep[i] \in Phases /\ dtStart \in 0..MaxDays /\ dtOf[i] \in 0..MaxDays
        /\ dtStart # 0 /\ dtOf[i] # 0
    BY DEF DtInv, DtTypeOK, DtPending
  <2>2. QED
    BY <2>1, DowntimeAssumption DEF Days
<1>2. dtPosts \in [Days -> [Days -> Nat]]
  BY DEF DtInv, DtTypeOK
<1>3. PICK row \in [Days -> Nat] :
        row = [dtPosts[dtStart] EXCEPT ![dtOf[i]] = @ + 1]
  <2>1. dtPosts[dtStart] \in [Days -> Nat] /\ dtPosts[dtStart][dtOf[i]] + 1 \in Nat
    BY <1>1, <1>2
  <2>2. QED
    BY <1>1, <2>1
<1>4. Posted(i) = IF dtStep[i] = "open" THEN [dtPosts EXCEPT ![dtStart] = row] ELSE dtPosts
  BY <1>1, <1>2, <1>3 DEF Posted
<1>5. ASSUME NEW d \in Days, NEW e \in Days
      PROVE  Posted(i)[d][e] =
               IF dtStep[i] = "open" /\ d = dtStart /\ e = dtOf[i] THEN 1
               ELSE dtPosts[d][e]
  <2>1. CASE dtStep[i] = "open" /\ d = dtStart /\ e = dtOf[i]
    <3>1. dtPosts[d][e] = 0
      BY <2>1 DEF DtInv, DtPending
    <3>2. QED
      BY <1>1, <1>2, <1>3, <1>4, <2>1, <3>1
  <2>2. CASE ~(dtStep[i] = "open" /\ d = dtStart /\ e = dtOf[i])
    BY <1>1, <1>2, <1>3, <1>4, <2>2
  <2>3. QED
    BY <2>1, <2>2
<1>6. QED
  BY <1>1, <1>2, <1>3, <1>4, <1>5

LEMMA DtTypeNext == DtInv /\ [DtNext]_dtVars => DtTypeOK'
<1> SUFFICES ASSUME DtInv, [DtNext]_dtVars
             PROVE  DtTypeOK'
  OBVIOUS
<1>0. DtTypeOK
  BY DEF DtInv
<1> USE DowntimeAssumption, FaultsAssumption DEF Days, Phases, NoFault, Fault
<1>1. CASE DtEleven
  <2>1. dtOf' \in [Intervals -> 0..MaxDays]
    <3>1. dtDay \in 0..MaxDays /\ dtOf \in [Intervals -> 0..MaxDays]
      BY <1>0 DEF DtTypeOK
    <3>2. CASE dtOf' = dtOf
      BY <3>1, <3>2
    <3>3. CASE \E new \in SUBSET {i \in Intervals : dtOf[i] = 0} :
                 dtOf' = [i \in Intervals |-> IF i \in new THEN dtDay ELSE dtOf[i]]
      BY <3>1, <3>3
    <3>4. QED
      BY <1>1, <3>2, <3>3 DEF DtEleven
  <2>2. QED
    BY <1>0, <1>1, <2>1 DEF DtEleven, DtTypeOK, dtHistory, dtRedis
<1>2. CASE DtMidnight
  <2>1. dtDay' \in Days /\ dtEleven' \in BOOLEAN /\ dtLate' \subseteq Days
    <3>1. dtDay \in Days /\ dtLate \subseteq Days
      BY <1>0 DEF DtTypeOK
    <3>2. dtDay' = dtDay + 1 /\ dtDay < MaxDays /\ dtEleven' = FALSE
      BY <1>2 DEF DtMidnight
    <3>3. dtLate' = dtLate \cup {dtDay} \/ dtLate' = dtLate
      BY <1>2 DEF DtMidnight
    <3>4. dtDay' \in Days
      BY <3>1, <3>2
    <3>5. QED
      BY <3>1, <3>2, <3>3, <3>4
  <2>2. dtClaims' \in [Phases -> [Days -> 0..2]]
    BY <1>2 DEF DtMidnight, NoClaims
  <2>3. UNCHANGED <<dtServer, dtStart, dtUp, dtOf, dtStep, dtKeys, dtPosts, dtFailed, faults>>
    BY <1>2 DEF DtMidnight, dtPoll
  <2>4. QED
    BY <1>0, <2>1, <2>2, <2>3 DEF DtTypeOK
<1>3. CASE DtServerStops
  BY <1>0, <1>3 DEF DtServerStops, DtTypeOK, dtPoll, dtHistory, dtRedis
<1>4. CASE DtOpens
  BY <1>0, <1>4 DEF DtOpens, DtTypeOK, dtPoll, dtHistory, dtRedis
<1>5. CASE DtCrash
  <2>1. faults' \in 0..MaxFaults
    BY <1>0, <1>5 DEF DtCrash, DtTypeOK
  <2>2. dtFailed' \subseteq Days
    <3>1. \A j \in Intervals : dtStep[j] # "wait" => dtStart \in Days
      BY DtPosted DEF DtInv
    <3>2. QED
      BY <1>0, <1>5, <3>1 DEF DtCrash, DtTypeOK
  <2>3. /\ dtOf' \in [Intervals -> 0..MaxDays]
        /\ dtStep' \in [Intervals -> {"wait"} \cup Phases]
    BY <1>5 DEF DtCrash
  <2>4. dtUp' = FALSE
        /\ UNCHANGED <<dtDay, dtEleven, dtServer, dtStart, dtKeys, dtClaims, dtPosts, dtLate>>
    BY <1>5 DEF DtCrash, dtWorld, dtRedis
  <2>5. QED
    BY <1>0, <2>1, <2>2, <2>3, <2>4 DEF DtTypeOK
<1>6. CASE DtBoot
  BY <1>0, <1>6 DEF DtBoot, DtTypeOK, dtWorld, dtPoll, dtHistory, dtRedis
<1>7. ASSUME NEW phase \in Phases, DtServerStarts(phase)
      PROVE  DtTypeOK'
  <2>1. /\ dtServer' \in {"down", "vip", "open"} /\ dtStart' \in 0..MaxDays
        /\ dtFailed' \subseteq Days
    BY <1>0, <1>7 DEF DtServerStarts, DtTypeOK
  <2>2. UNCHANGED <<dtDay, dtEleven, dtUp, dtOf, dtStep, dtKeys, dtClaims, dtPosts, dtLate, faults>>
    BY <1>7 DEF DtServerStarts, dtPoll, dtRedis
  <2>3. QED
    BY <1>0, <2>1, <2>2 DEF DtTypeOK
<1>8. ASSUME NEW phase \in Phases, NEW d \in Days, DtKeyExpires(phase, d)
      PROVE  DtTypeOK'
  BY <1>0, <1>8 DEF DtKeyExpires, DtTypeOK, dtWorld, dtPoll, dtHistory
<1>9. ASSUME NEW i \in Intervals, NEW phase \in Phases, DtClaim(i, phase)
      PROVE  DtTypeOK'
  <2>1. dtClaims' \in [Phases -> [Days -> 0..2]]
    BY <1>9, DtClaimsNext
  <2>2. dtOf[i] \in Days
    BY <1>0, <1>9 DEF DtClaim, DtSees, DtTypeOK
  <2>3. dtKeys' \in [Phases -> SUBSET Days] /\ dtStep' \in [Intervals -> {"wait"} \cup Phases]
    BY <1>0, <1>9, <2>2 DEF DtClaim, DtTypeOK
  <2>4. UNCHANGED <<dtDay, dtEleven, dtServer, dtStart, dtUp, dtOf, dtPosts, dtFailed, dtLate, faults>>
    BY <1>9 DEF DtClaim, dtWorld, dtHistory
  <2>5. QED
    BY <1>0, <2>1, <2>3, <2>4 DEF DtTypeOK
<1>10. ASSUME NEW i \in Intervals, DtEnd(i)
       PROVE  DtTypeOK'
  <2>1. 0 \in 0..MaxDays /\ dtOf \in [Intervals -> 0..MaxDays]
    BY <1>0 DEF DtTypeOK
  <2>2. dtOf' \in [Intervals -> 0..MaxDays]
    BY <1>10, <2>1 DEF DtEnd
  <2>3. UNCHANGED <<dtDay, dtEleven, dtServer, dtStart, dtUp, dtStep, dtKeys, dtClaims, dtPosts,
                    dtFailed, dtLate, faults>>
    BY <1>10 DEF DtEnd, dtWorld, dtHistory, dtRedis
  <2>4. QED
    BY <1>0, <2>2, <2>3 DEF DtTypeOK
<1>11. ASSUME NEW i \in Intervals, DtPost(i)
       PROVE  DtTypeOK'
  <2>1. dtPosts' \in [Days -> [Days -> Nat]]
    BY <1>11, DtPosted DEF DtPost
  <2>2. /\ dtOf' \in [Intervals -> 0..MaxDays]
        /\ dtStep' \in [Intervals -> {"wait"} \cup Phases]
    <3>1. 0 \in 0..MaxDays /\ dtOf \in [Intervals -> 0..MaxDays]
      BY <1>0 DEF DtTypeOK
    <3>2. dtOf' \in [Intervals -> 0..MaxDays]
      BY <1>11, <3>1 DEF DtPost
    <3>3. QED
      BY <1>0, <1>11, <3>2 DEF DtPost, DtTypeOK
  <2>3. UNCHANGED <<dtDay, dtEleven, dtServer, dtStart, dtUp, dtKeys, dtClaims, dtFailed, dtLate, faults>>
    BY <1>11 DEF DtPost, dtWorld, dtRedis
  <2>4. QED
    BY <1>0, <2>1, <2>2, <2>3 DEF DtTypeOK
<1>12. ASSUME NEW i \in Intervals, DtPostFails(i)
       PROVE  DtTypeOK'
  <2>1. dtPosts' \in [Days -> [Days -> Nat]]
    BY <1>0, <1>12, DtPosted DEF DtPostFails, DtTypeOK
  <2>2. dtStart \in Days
    BY <1>12, DtPosted DEF DtPostFails
  <2>3. /\ dtStep' \in [Intervals -> {"wait"} \cup Phases]
        /\ dtFailed' \subseteq Days /\ faults' \in 0..MaxFaults
    BY <1>0, <1>12, <2>2 DEF DtPostFails, DtTypeOK
  <2>4. UNCHANGED <<dtDay, dtEleven, dtServer, dtStart, dtUp, dtOf, dtKeys, dtClaims, dtLate>>
    BY <1>12 DEF DtPostFails, dtWorld, dtRedis
  <2>5. QED
    BY <1>0, <2>1, <2>3, <2>4 DEF DtTypeOK
<1>13. CASE UNCHANGED dtVars
  BY <1>0, <1>13 DEF dtVars, dtWorld, dtPoll, dtHistory, dtRedis, DtTypeOK
<1>14. QED
  BY <1>1, <1>2, <1>3, <1>4, <1>5, <1>6, <1>7, <1>8, <1>9, <1>10, <1>11, <1>12, <1>13
     DEF DtNext, DtStep

LEMMA DtElevenInv == DtInv /\ DtTypeOK' /\ DtEleven => DtInv'
<1> SUFFICES ASSUME DtInv, DtTypeOK', DtEleven
             PROVE  DtInv'
  OBVIOUS
<1>1. \A i \in Intervals : dtOf'[i] = dtOf[i] \/ (dtOf[i] = 0 /\ dtOf'[i] = dtDay)
  BY DEF DtEleven, DtInv, DtTypeOK
<1>2. /\ ~dtEleven /\ dtEleven'
      /\ UNCHANGED <<dtDay, dtServer, dtStart, dtStep, dtKeys, dtClaims, dtPosts>>
  BY DEF DtEleven, dtHistory, dtRedis
<1>3. DtTimes'
  BY <1>1, <1>2 DEF DtInv, DtTimes, DtBegun
<1>4. \A i \in Intervals : dtStep[i] # "wait" => dtOf'[i] = dtOf[i]
  BY <1>1 DEF DtInv, DtPending
<1>5. DtPending'
  BY <1>2, <1>4 DEF DtInv, DtPending
<1>6. DtClosed'
  <2>1. ASSUME dtStart' = dtDay', NEW e \in Days, DtTaken(e)'
        PROVE  /\ dtServer' = "open" /\ DtBegun(e)'
               /\ e \in dtKeys'["open"] \/ \A i \in Intervals : dtOf'[i] # e
    <3>1. DtTaken(e)
      BY <1>2, <1>4, <2>1 DEF DtTaken, DtPosting
    <3>2. /\ dtServer = "open" /\ DtBegun(e)
          /\ e \in dtKeys["open"] \/ \A i \in Intervals : dtOf[i] # e
      BY <1>2, <2>1, <3>1 DEF DtInv, DtClosed
    <3>3. dtDay \in Nat /\ e \in Nat
      BY DowntimeAssumption DEF DtInv, DtTypeOK, Days
    <3>4. e # dtDay
      BY <1>2, <3>2, <3>3 DEF DtBegun
    <3>5. QED
      BY <1>1, <1>2, <3>2, <3>4 DEF DtBegun
  <2>2. QED
    BY <2>1 DEF DtClosed
<1>7. QED
  BY <1>2, <1>3, <1>5, <1>6 DEF DtInv, DtFresh, DtTwice, DtOneNotice

LEMMA DtMidnightInv == DtInv /\ DtTypeOK' /\ DtMidnight => DtInv'
<1> SUFFICES ASSUME DtInv, DtTypeOK', DtMidnight
             PROVE  DtInv'
  OBVIOUS
<1>1. /\ dtDay' = dtDay + 1 /\ dtDay \in Nat /\ dtStart \in Nat
      /\ \A i \in Intervals : dtOf[i] \in Nat
      /\ UNCHANGED <<dtServer, dtStart, dtOf, dtStep, dtKeys, dtPosts>>
  BY DowntimeAssumption DEF DtMidnight, dtPoll, DtInv, DtTypeOK, Days
<1>2. dtStart' < dtDay'
  BY <1>1 DEF DtInv, DtTimes
<1>3. \A i \in Intervals : dtOf'[i] # 0 => DtBegun(dtOf[i])'
  <2>1. \A i \in Intervals : dtOf[i] # 0 => dtOf[i] <= dtDay
    BY <1>1 DEF DtInv, DtTimes, DtBegun
  <2>2. QED
    BY <1>1, <2>1 DEF DtBegun
<1>4. DtTimes'
  BY <1>1, <1>2, <1>3 DEF DtTimes
<1>5. DtClosed'
  BY <1>1, <1>2 DEF DtClosed
<1>6. DtTwice'
  BY DEF DtMidnight, NoClaims, DtTwice
<1>7. QED
  BY <1>1, <1>4, <1>5, <1>6 DEF DtInv, DtPending, DtFresh, DtOneNotice

\* The server was down, so nobody is about to post, and no notice is of this start yet.
LEMMA DtStartsInv ==
    ASSUME NEW phase \in Phases, DtInv, DtTypeOK', DtServerStarts(phase)
    PROVE  DtInv'
<1>1. /\ dtServer = "down" /\ dtServer' = phase /\ dtStart' = dtDay /\ dtDay' = dtDay
      /\ UNCHANGED <<dtEleven, dtOf, dtStep, dtKeys, dtClaims, dtPosts>>
  BY DEF DtServerStarts, dtPoll, dtRedis
<1>2. dtStart \in Nat /\ dtDay \in Nat /\ dtDay \in Days /\ dtStart < dtDay
  BY <1>1, DowntimeAssumption DEF DtInv, DtTypeOK, DtTimes, Days
<1>3. \A i \in Intervals : dtStep[i] = "wait"
  BY <1>1 DEF DtInv, DtPending
<1>4. \A e \in Days : dtPosts[dtDay][e] = 0
  BY <1>2 DEF DtInv, DtFresh
<1>5. DtTimes'
  BY <1>1, <1>2 DEF DtInv, DtTimes, DtBegun, Phases
<1>6. DtPending'
  BY <1>1, <1>3 DEF DtPending
<1>7. DtFresh'
  <2>1. \A d \in Days : d > dtDay => d > dtStart
    BY <1>2 DEF Days
  <2>2. QED
    BY <1>1, <2>1 DEF DtInv, DtFresh
<1>8. \A e \in Days : ~DtTaken(e)'
  BY <1>1, <1>3, <1>4 DEF DtTaken, DtPosting
<1>9. DtClosed'
  BY <1>8 DEF DtClosed
<1>10. QED
  BY <1>1, <1>5, <1>6, <1>7, <1>9 DEF DtInv, DtTwice, DtOneNotice

\* The server changes its phase or stops, or the process comes back.
LEMMA DtWorldInv == DtInv /\ DtTypeOK' /\ (DtServerStops \/ DtOpens \/ DtBoot) => DtInv'
<1> SUFFICES ASSUME DtInv, DtTypeOK', DtServerStops \/ DtOpens \/ DtBoot
             PROVE  DtInv'
  OBVIOUS
<1>1. /\ UNCHANGED <<dtDay, dtEleven, dtStart, dtOf, dtStep, dtKeys, dtClaims, dtPosts>>
      /\ \/ /\ dtServer' = "down" /\ dtStart # dtDay
            /\ \A i \in Intervals : dtStep[i] = "wait"
         \/ dtServer' = "open"
         \/ dtServer' = dtServer
  BY DEF DtServerStops, DtOpens, DtBoot, dtWorld, dtPoll, dtHistory, dtRedis
<1>2. DtTimes'
  BY <1>1 DEF DtInv, DtTimes, DtBegun
<1>3. DtPending'
  BY <1>1 DEF DtInv, DtPending
<1>4. DtClosed'
  BY <1>1 DEF DtInv, DtClosed, DtTaken, DtPosting, DtBegun
<1>5. QED
  BY <1>1, <1>2, <1>3, <1>4 DEF DtInv, DtFresh, DtTwice, DtOneNotice

LEMMA DtCrashInv == DtInv /\ DtTypeOK' /\ DtCrash => DtInv'
<1> SUFFICES ASSUME DtInv, DtTypeOK', DtCrash
             PROVE  DtInv'
  OBVIOUS
<1>1. /\ \A i \in Intervals : dtOf'[i] = 0 /\ dtStep'[i] = "wait"
      /\ UNCHANGED <<dtDay, dtEleven, dtServer, dtStart, dtKeys, dtClaims, dtPosts>>
  BY DEF DtCrash, dtWorld, dtRedis
<1>2. DtTimes' /\ DtPending'
  BY <1>1 DEF DtInv, DtTimes, DtPending
<1>3. DtClosed'
  <2>1. \A e \in Days : e # 0
    BY DEF Days
  <2>2. QED
    BY <1>1, <2>1 DEF DtInv, DtClosed, DtTaken, DtPosting, DtBegun
<1>4. QED
  BY <1>1, <1>2, <1>3 DEF DtInv, DtFresh, DtTwice, DtOneNotice

\* When the key of an announced opening goes, its intervals have seen that and ended.
LEMMA DtExpiresInv ==
    ASSUME NEW phase \in Phases, NEW d \in Days, DtInv, DtTypeOK', DtKeyExpires(phase, d)
    PROVE  DtInv'
<1>1. /\ d # 0 /\ dtClaims[phase][d] # 2
      /\ \A i \in Intervals : dtOf[i] = d => dtStep[i] = "wait" /\ ~DtSees(i, "open")
      /\ dtKeys' = [dtKeys EXCEPT ![phase] = @ \ {d}]
      /\ UNCHANGED <<dtDay, dtEleven, dtServer, dtStart, dtOf, dtStep, dtClaims, dtPosts>>
  BY DEF DtKeyExpires, Alive, Days, dtWorld, dtPoll, dtHistory
<1>2. /\ \A p \in Phases : dtKeys'[p] \subseteq dtKeys[p]
      /\ \A p \in Phases : \A e : e \in dtKeys[p] /\ e \notin dtKeys'[p] => p = phase /\ e = d
  BY <1>1 DEF DtInv, DtTypeOK
<1>3. DtTimes' /\ DtPending'
  BY <1>1 DEF DtInv, DtTimes, DtPending, DtBegun
<1>4. DtTwice'
  BY <1>1, <1>2 DEF DtInv, DtTwice
<1>5. DtClosed'
  <2>1. ASSUME dtStart' = dtDay', NEW e \in Days, DtTaken(e)'
        PROVE  /\ dtServer' = "open" /\ DtBegun(e)'
               /\ e \in dtKeys'["open"] \/ \A i \in Intervals : dtOf'[i] # e
    <3>1. dtStart = dtDay /\ DtTaken(e)
      BY <1>1, <2>1 DEF DtTaken, DtPosting
    <3>2. /\ dtServer = "open" /\ DtBegun(e)
          /\ e \in dtKeys["open"] \/ \A i \in Intervals : dtOf[i] # e
      BY <3>1 DEF DtInv, DtClosed
    <3>3. CASE e = d
      <4>1. \A i \in Intervals : dtOf[i] # e
        BY <1>1, <3>1, <3>2, <3>3 DEF DtSees
      <4>2. QED
        BY <1>1, <3>2, <4>1 DEF DtBegun
    <3>4. CASE e # d
      BY <1>1, <1>2, <3>2, <3>4 DEF DtBegun, Phases
    <3>5. QED
      BY <3>3, <3>4
  <2>2. QED
    BY <2>1 DEF DtClosed
<1>6. QED
  BY <1>1, <1>3, <1>4, <1>5 DEF DtInv, DtFresh, DtOneNotice

\* SET NX: what is claimed was not taken, because the key of what is taken is set.
LEMMA DtClaimInv ==
    ASSUME NEW phase \in Phases, NEW i \in Intervals, DtInv, DtTypeOK', DtClaim(i, phase)
    PROVE  DtInv'
<1>1. /\ dtOf[i] # 0 /\ dtStep[i] = "wait" /\ dtServer = phase /\ dtStart = dtDay
      /\ dtOf[i] \notin dtKeys[phase]
      /\ dtKeys' = [dtKeys EXCEPT ![phase] = @ \cup {dtOf[i]}]
      /\ dtStep' = [dtStep EXCEPT ![i] = phase]
      /\ UNCHANGED <<dtDay, dtEleven, dtServer, dtStart, dtOf, dtPosts>>
  BY DEF DtClaim, DtSees, DtUnclaimed, dtWorld, dtHistory
<1>2. /\ dtStep'[i] = phase /\ \A j \in Intervals : j # i => dtStep'[j] = dtStep[j]
      /\ \A p \in Phases : dtKeys[p] \subseteq dtKeys'[p]
      /\ dtOf[i] \in dtKeys'[phase]
  BY <1>1 DEF DtInv, DtTypeOK
<1>3. /\ phase \in {"vip", "open"} /\ dtOf[i] \in Days /\ dtDay # 0 /\ DtBegun(dtOf[i])
  <2>1. dtOf[i] \in 0..MaxDays /\ dtDay \in 1..MaxDays
    BY DEF DtInv, DtTypeOK, Days
  <2>2. dtOf[i] \in Days /\ dtDay # 0
    BY <1>1, <2>1, DowntimeAssumption DEF Days
  <2>3. DtBegun(dtOf[i])
    BY <1>1 DEF DtInv, DtTimes
  <2>4. QED
    BY <2>2, <2>3 DEF Phases
<1>4. phase = "open" => ~DtTaken(dtOf[i])
  BY <1>1, <1>3 DEF DtInv, DtClosed
<1>5. DtTimes'
  BY <1>1 DEF DtInv, DtTimes, DtBegun
<1>6. DtPending'
  <2>1. \A j \in Intervals : dtStep'[j] # "wait" =>
            dtOf'[j] # 0 /\ dtStart' # 0 /\ dtServer' # "down"
    BY <1>1, <1>2, <1>3 DEF DtInv, DtPending
  <2>2. \A j \in Intervals : dtStep'[j] = "open" =>
            dtServer' = "open" /\ dtPosts'[dtStart'][dtOf'[j]] = 0
    BY <1>1, <1>2, <1>4 DEF DtInv, DtPending, DtTaken
  <2>3. phase = "open" => \A j \in Intervals : dtStep[j] = "open" => dtOf[j] # dtOf[i]
    BY <1>4 DEF DtTaken, DtPosting
  <2>4. \A j, k \in Intervals :
            dtStep'[j] = "open" /\ dtStep'[k] = "open" /\ dtOf'[j] = dtOf'[k] => j = k
    BY <1>1, <1>2, <2>3 DEF DtInv, DtPending
  <2>5. QED
    BY <2>1, <2>2, <2>4 DEF DtPending
<1>7. DtClosed'
  <2>1. ASSUME NEW e \in Days, DtTaken(e)'
        PROVE  /\ dtServer' = "open" /\ DtBegun(e)'
               /\ e \in dtKeys'["open"] \/ \A j \in Intervals : dtOf'[j] # e
    <3>1. CASE DtTaken(e)
      BY <1>1, <1>2, <3>1 DEF DtInv, DtClosed, DtBegun, Phases
    <3>2. CASE ~DtTaken(e)
      <4>1. e = dtOf[i] /\ phase = "open"
        BY <1>1, <1>2, <2>1, <3>2 DEF DtTaken, DtPosting
      <4>2. QED
        BY <1>1, <1>2, <1>3, <4>1 DEF DtBegun
    <3>3. QED
      BY <3>1, <3>2
  <2>2. QED
    BY <2>1 DEF DtClosed
<1>8. QED
  BY <1>1, <1>5, <1>6, <1>7, DtClaimsNext DEF DtInv, DtFresh, DtOneNotice

LEMMA DtEndInv ==
    ASSUME NEW i \in Intervals, DtInv, DtTypeOK', DtEnd(i)
    PROVE  DtInv'
<1>1. /\ dtStep[i] = "wait" /\ dtOf' = [dtOf EXCEPT ![i] = 0]
      /\ UNCHANGED <<dtDay, dtEleven, dtServer, dtStart, dtStep, dtKeys, dtClaims, dtPosts>>
  BY DEF DtEnd, DtSees, dtWorld, dtHistory, dtRedis
<1>2. dtOf'[i] = 0 /\ \A j \in Intervals : j # i => dtOf'[j] = dtOf[j]
  BY <1>1 DEF DtInv, DtTypeOK
<1>3. DtTimes' /\ DtPending'
  BY <1>1, <1>2 DEF DtInv, DtTimes, DtPending, DtBegun
<1>4. DtClosed'
  <2>1. \A e \in Days : e # 0
    BY DEF Days
  <2>2. \A e \in Days : DtTaken(e)' => DtTaken(e)
    BY <1>1, <1>2 DEF DtTaken, DtPosting
  <2>3. QED
    BY <1>1, <1>2, <2>1, <2>2 DEF DtInv, DtClosed, DtBegun
<1>5. QED
  BY <1>1, <1>3, <1>4 DEF DtInv, DtFresh, DtTwice, DtOneNotice

\* Who posts was alone with its key, and what it posts stays taken.
LEMMA DtPostInv ==
    ASSUME NEW i \in Intervals, DtInv, DtTypeOK', DtPost(i) \/ DtPostFails(i)
    PROVE  DtInv'
<1>1. /\ dtStep[i] # "wait"
      /\ dtOf' = dtOf \/ dtOf' = [dtOf EXCEPT ![i] = IF dtStep[i] = "open" THEN 0 ELSE @]
      /\ dtStep' = [dtStep EXCEPT ![i] = "wait"]
      /\ dtPosts' = dtPosts \/ dtPosts' = Posted(i)
      /\ UNCHANGED <<dtDay, dtEleven, dtServer, dtStart, dtKeys, dtClaims>>
  BY DEF DtPost, DtPostFails, dtWorld, dtRedis
<1>2. /\ \A j \in Intervals : dtOf'[j] \in {0, dtOf[j]} /\ (j # i => dtOf'[j] = dtOf[j])
      /\ dtStep'[i] = "wait" /\ \A j \in Intervals : j # i => dtStep'[j] = dtStep[j]
  BY <1>1 DEF DtInv, DtTypeOK
<1>3. /\ dtStart \in Days /\ dtOf[i] \in Days
      /\ \A d \in Days : \A e \in Days :
           \/ dtPosts'[d][e] = dtPosts[d][e]
           \/ /\ dtStep[i] = "open" /\ d = dtStart /\ e = dtOf[i]
              /\ dtPosts'[d][e] = 1
  BY <1>1, DtPosted
<1>4. DtTimes'
  BY <1>1, <1>2 DEF DtInv, DtTimes, DtBegun
<1>5. DtPending'
  <2>1. \A j \in Intervals : dtStep'[j] # "wait" =>
            j # i /\ dtStep'[j] = dtStep[j] /\ dtOf'[j] = dtOf[j] /\ dtOf[j] # 0
    BY <1>2 DEF DtInv, DtPending
  <2>2. \A j \in Intervals : dtStep'[j] # "wait" =>
            dtOf'[j] # 0 /\ dtStart' # 0 /\ dtServer' # "down"
    BY <1>1, <2>1 DEF DtInv, DtPending
  <2>3. ASSUME NEW j \in Intervals, dtStep'[j] = "open"
        PROVE  dtServer' = "open" /\ dtPosts'[dtStart'][dtOf'[j]] = 0
    <3>1. /\ j # i /\ dtStep[j] = "open" /\ dtOf'[j] = dtOf[j] /\ dtOf[j] \in Days
          /\ dtServer = "open" /\ dtPosts[dtStart][dtOf[j]] = 0
      BY <2>1, <2>3, DtPosted DEF DtInv, DtPending
    <3>2. dtStep[i] = "open" => dtOf[j] # dtOf[i]
      BY <3>1 DEF DtInv, DtPending
    <3>3. QED
      BY <1>1, <1>3, <3>1, <3>2
  <2>4. \A j, k \in Intervals :
            dtStep'[j] = "open" /\ dtStep'[k] = "open" /\ dtOf'[j] = dtOf'[k] => j = k
    BY <2>1 DEF DtInv, DtPending
  <2>5. QED
    BY <2>2, <2>3, <2>4 DEF DtPending
<1>6. DtFresh'
  <2>1. \A d \in Days : d > dtStart => d # dtStart
    BY <1>3 DEF Days
  <2>2. QED
    BY <1>1, <1>3, <2>1 DEF DtInv, DtFresh
<1>7. DtClosed'
  <2>1. ASSUME NEW e \in Days, DtTaken(e)'
        PROVE  DtTaken(e)
    <3>1. CASE DtPosting(e)'
      BY <1>2, <2>1, <3>1 DEF DtTaken, DtPosting
    <3>2. CASE dtPosts'[dtStart'][e] # 0
      BY <1>1, <1>3, <3>2 DEF DtTaken, DtPosting
    <3>3. QED
      BY <2>1, <3>1, <3>2 DEF DtTaken
  <2>2. \A e \in Days : e # 0
    BY DEF Days
  <2>3. QED
    BY <1>1, <1>2, <2>1, <2>2 DEF DtInv, DtClosed, DtBegun
<1>8. DtOneNotice'
  <2>1. ASSUME NEW d \in Days, NEW e \in Days
        PROVE  dtPosts'[d][e] <= 1
    BY <1>3 DEF DtInv, DtOneNotice
  <2>2. QED
    BY <2>1 DEF DtOneNotice
<1>9. QED
  BY <1>1, <1>4, <1>5, <1>6, <1>7, <1>8 DEF DtInv, DtTwice

LEMMA DtNextInv == DtInv /\ [DtNext]_dtVars => DtInv'
<1> SUFFICES ASSUME DtInv, [DtNext]_dtVars
             PROVE  DtInv'
  OBVIOUS
<1>1. DtTypeOK'
  BY DtTypeNext
<1>2. CASE DtNext
  BY <1>1, <1>2, DtElevenInv, DtMidnightInv, DtStartsInv, DtWorldInv, DtCrashInv, DtExpiresInv,
     DtClaimInv, DtEndInv, DtPostInv
     DEF DtNext, DtStep, Phases
<1>3. CASE UNCHANGED dtVars
  <2>1. UNCHANGED <<dtDay, dtEleven, dtServer, dtStart, dtOf, dtStep, dtKeys, dtClaims, dtPosts>>
    BY <1>3 DEF dtVars, dtWorld, dtPoll, dtHistory, dtRedis
  <2>2. QED
    BY <1>1, <2>1 DEF DtInv, DtTimes, DtPending, DtFresh, DtClosed, DtTaken, DtPosting, DtBegun,
       DtTwice, DtOneNotice
<1>4. QED
  BY <1>2, <1>3

LEMMA DtInitInv == DtInit => DtInv
<1> SUFFICES ASSUME DtInit
             PROVE  DtInv
  OBVIOUS
<1>1. MaxDays \in Nat /\ MaxDays >= 1 /\ MaxFaults \in Nat
  BY DowntimeAssumption, FaultsAssumption
<1>2. DtTypeOK
  <2>1. 1 \in Days /\ 0 \in 0..MaxDays /\ 0 \in 0..MaxFaults
    BY <1>1 DEF Days
  <2>2. NoClaims \in [Phases -> [Days -> 0..2]]
    BY DEF NoClaims
  <2>3. QED
    BY <2>1, <2>2 DEF DtInit, DtTypeOK, Phases
<1>3. DtTimes /\ DtPending /\ DtClosed
  BY DEF DtInit, DtTimes, DtPending, DtClosed
<1>4. \A d \in Days : \A e \in Days : dtPosts[d][e] = 0
  BY DEF DtInit, Phases
<1>5. DtFresh /\ DtOneNotice
  BY <1>4 DEF DtFresh, DtOneNotice
<1>6. DtTwice
  BY DEF DtInit, NoClaims, DtTwice
<1>7. QED
  BY <1>2, <1>3, <1>5, <1>6 DEF DtInv

(***************************************************************************)
(* An opening of the server is announced once under a key at most, however *)
(* many intervals poll, whatever posts fail, and although the keys expire  *)
(* while intervals live: an interval sees the opening before its key goes  *)
(* (dtScheduler.js:109, :168-177).                                         *)
(***************************************************************************)
THEOREM OpeningOnce == DtSpec => []DtOneNotice
<1>1. DtInv => DtOneNotice
  BY DEF DtInv
<1>2. QED
  BY <1>1, DtInitInv, DtNextInv, PTL DEF DtSpec
=============================================================================
