---------------------------- MODULE AttackAlert ----------------------------
(***************************************************************************)
(* The alerts of attacked structures.  Every ten minutes a tick goes       *)
(* through the anchor characters: it asks ESI for the notifications of     *)
(* one, newest first, announces on Discord those above the character's     *)
(* watermark in Redis, and moves the watermark when it is through.         *)
(* node-cron does not wait for a tick that is still running.               *)
(***************************************************************************)
EXTENDS Faults, Sequences, SequencesExt, FiniteSets, FiniteSetsExt

CONSTANTS
    Anchors,      \* EVE_ANCHOR_CHARIDS, in the order of the variable
    Ticks,        \* ticks that may run at the same time
    MaxNotes      \* bound on notifications, of all characters

ASSUME AttackAlertAssumption ==
    /\ Anchors \in Seq(ToSet(Anchors)) /\ Anchors # <<>>
    /\ MaxNotes \in Nat

VARIABLES
    aaNotes,      \* the notifications of each character; the id is the position
    aaOld,        \* up to which id they are older than an hour
    aaMark,       \* bonsai:structure_alert:max_notification_id, or Unset
    aaPosts,      \* how often each was announced
    aaStep,       \* of each tick
    aaNext,       \* the characters a tick has yet to process, the current one first
    aaTop,        \* the newest id in the list ESI returned
    aaSeen,       \* the watermark the tick read
    aaTodo,       \* the ids it has yet to announce
    aaBase,       \* the first watermark, below which nothing is announced; the highest,
                  \* when ticks that overlapped set one each
    aaExcused     \* ids that were too old when looked at, or whose webhook failed

aaGame == <<aaNotes, aaOld>>
aaTick == <<aaStep, aaNext, aaTop, aaSeen, aaTodo>>
aaHistory == <<aaPosts, aaBase, aaExcused>>
aaVars == <<aaGame, aaMark, aaTick, aaHistory, faults>>

Chars == ToSet(Anchors)
Ids == 1..MaxNotes
Unset == MaxNotes + 1

AaTypeOK ==
    /\ aaNotes \in [Chars -> Seq({"attack", "other"})]
    /\ aaOld \in [Chars -> 0..MaxNotes]
    /\ aaMark \in [Chars -> 0..Unset]
    /\ aaPosts \in [Chars -> [Ids -> Nat]]
    /\ aaStep \in [Ticks -> {"idle", "fetch", "read", "first", "post", "mark"}]
    /\ aaNext \in [Ticks -> Seq(Chars)]
    /\ aaTop \in [Ticks -> 0..MaxNotes]
    /\ aaSeen \in [Ticks -> 0..MaxNotes]
    /\ aaTodo \in [Ticks -> SUBSET Ids]
    /\ aaBase \in [Chars -> 0..Unset]
    /\ aaExcused \in [Chars -> SUBSET Ids]
    /\ faults \in 0..MaxFaults

AaInit ==
    /\ aaNotes = [a \in Chars |-> <<>>]
    /\ aaOld = [a \in Chars |-> 0]
    /\ aaMark = [a \in Chars |-> Unset]
    /\ aaPosts = [a \in Chars |-> [i \in Ids |-> 0]]
    /\ aaStep = [t \in Ticks |-> "idle"]
    /\ aaNext = [t \in Ticks |-> <<>>]
    /\ aaTop = [t \in Ticks |-> 0]
    /\ aaSeen = [t \in Ticks |-> 0]
    /\ aaTodo = [t \in Ticks |-> {}]
    /\ aaBase = [a \in Chars |-> Unset]
    /\ aaExcused = [a \in Chars |-> {}]
    /\ faults = 0
-----------------------------------------------------------------------------
(***************************************************************************)
(* The game.                                                               *)
(***************************************************************************)
\* A notification of a handled type, or another one (also of a corporation to ignore).
Attack(a, kind) ==
    /\ Cardinality({n \in Chars \X Ids : n[2] <= Len(aaNotes[n[1]])}) < MaxNotes
    /\ aaNotes' = [aaNotes EXCEPT ![a] = Append(@, kind)]
    /\ NoFault /\ UNCHANGED <<aaOld, aaMark, aaTick, aaHistory>>

HourPasses(a) ==
    /\ aaOld[a] < Len(aaNotes[a])
    /\ aaOld' = [aaOld EXCEPT ![a] = Len(aaNotes[a])]
    /\ NoFault /\ UNCHANGED <<aaNotes, aaMark, aaTick, aaHistory>>
-----------------------------------------------------------------------------
(***************************************************************************)
(* A tick.                                                                 *)
(***************************************************************************)
AaGo(t, step) == aaStep' = [aaStep EXCEPT ![t] = step]
Current(t) == Head(aaNext[t])

\* On to the next character, or the end of the tick.
AaLeave(t) ==
    /\ aaNext' = [aaNext EXCEPT ![t] = Tail(@)]
    /\ AaGo(t, IF Len(aaNext[t]) > 1 THEN "fetch" ELSE "idle")
    /\ aaTop' = [aaTop EXCEPT ![t] = 0]
    /\ aaSeen' = [aaSeen EXCEPT ![t] = 0]
    /\ aaTodo' = [aaTodo EXCEPT ![t] = {}]

\* Beside a tick that takes more than ten minutes it is a fault.
AaStart(t) ==
    /\ aaStep[t] = "idle"
    /\ IF \E u \in Ticks : aaStep[u] # "idle" THEN Fault ELSE NoFault
    /\ AaGo(t, "fetch")
    /\ aaNext' = [aaNext EXCEPT ![t] = Anchors]
    /\ UNCHANGED <<aaGame, aaMark, aaTop, aaSeen, aaTodo, aaHistory>>

AaFetch(t) ==
    /\ aaStep[t] = "fetch"
    /\ AaGo(t, "read")
    /\ aaTop' = [aaTop EXCEPT ![t] = Len(aaNotes[Current(t)])]
    /\ NoFault /\ UNCHANGED <<aaGame, aaMark, aaNext, aaSeen, aaTodo, aaHistory>>

\* The first run of a character saves the newest id and announces nothing.
AaReadFirst(t) ==
    /\ aaStep[t] = "read" /\ aaMark[Current(t)] = Unset
    /\ IF aaTop[t] = 0
       THEN AaLeave(t)
       ELSE AaGo(t, "first") /\ UNCHANGED <<aaNext, aaTop, aaSeen, aaTodo>>
    /\ NoFault /\ UNCHANGED <<aaGame, aaMark, aaHistory>>

AaFirst(t) ==
    /\ aaStep[t] = "first"
    /\ aaMark' = [aaMark EXCEPT ![Current(t)] = aaTop[t]]
    /\ aaBase' = [aaBase EXCEPT ![Current(t)] = IF @ = Unset THEN aaTop[t] ELSE Max({@, aaTop[t]})]
    /\ AaLeave(t)
    /\ NoFault /\ UNCHANGED <<aaGame, aaPosts, aaExcused>>

\* Seeded bug: the newest one is taken for the watermark.
AaFreshButTop(t) == aaMark[Current(t)] + 1 .. aaTop[t] - 1

\* What the loop looks at: down to the watermark.
AaFresh(t) == aaMark[Current(t)] + 1 .. aaTop[t]

AaAttacks(t) == {i \in AaFresh(t) : aaNotes[Current(t)][i] = "attack"}

AaRead(t) ==
    /\ aaStep[t] = "read" /\ aaMark[Current(t)] # Unset
    /\ aaSeen' = [aaSeen EXCEPT ![t] = aaMark[Current(t)]]
    /\ aaTodo' = [aaTodo EXCEPT ![t] = {i \in AaAttacks(t) : i > aaOld[Current(t)]}]
    /\ aaExcused' = [aaExcused EXCEPT ![Current(t)] =
                        @ \cup {i \in AaAttacks(t) : i <= aaOld[Current(t)]}]
    /\ AaGo(t, "post")
    /\ NoFault /\ UNCHANGED <<aaGame, aaMark, aaNext, aaTop, aaPosts, aaBase>>

\* sendAlertEmbed of the newest of them.  A webhook that fails is only logged; it counts as
\* an announcement, for it may have been posted.
AaPost(t) ==
    /\ aaStep[t] = "post"
    /\ \E i \in aaTodo[t] :
        /\ \A j \in aaTodo[t] : j <= i
        /\ aaTodo' = [aaTodo EXCEPT ![t] = @ \ {i}]
        /\ aaPosts' = [aaPosts EXCEPT ![Current(t)][i] = @ + 1]
        /\ \/ NoFault /\ UNCHANGED aaExcused
           \/ Fault /\ aaExcused' = [aaExcused EXCEPT ![Current(t)] = @ \cup {i}]
    /\ UNCHANGED <<aaGame, aaMark, aaStep, aaNext, aaTop, aaSeen, aaBase>>

\* One SET when the loop is through, if it moved.
AaSave(t) ==
    /\ aaStep[t] = "post" /\ aaTodo[t] = {}
    /\ aaMark' = [aaMark EXCEPT ![Current(t)] =
                     IF aaTop[t] > aaSeen[t] THEN aaTop[t] ELSE @]
    /\ AaLeave(t)
    /\ NoFault /\ UNCHANGED <<aaGame, aaHistory>>

\* Seeded bug: the watermark is moved whatever happened.
AaFailMarking(t) ==
    /\ Fault
    /\ aaStep[t] # "idle"
    /\ aaMark' = [aaMark EXCEPT ![Current(t)] =
                     IF aaTop[t] > aaSeen[t] THEN aaTop[t] ELSE @]
    /\ AaLeave(t)
    /\ UNCHANGED <<aaGame, aaHistory>>

\* No token, no list, or Redis or a lookup throws: the catch of the tick goes on.
AaFail(t) ==
    /\ Fault
    /\ aaStep[t] # "idle"
    /\ AaLeave(t)
    /\ UNCHANGED <<aaGame, aaMark, aaHistory>>

AaCrash ==
    /\ Fault
    /\ \E t \in Ticks : aaStep[t] # "idle"
    /\ aaStep' = [t \in Ticks |-> "idle"]
    /\ aaNext' = [t \in Ticks |-> <<>>]
    /\ aaTop' = [t \in Ticks |-> 0]
    /\ aaSeen' = [t \in Ticks |-> 0]
    /\ aaTodo' = [t \in Ticks |-> {}]
    /\ UNCHANGED <<aaGame, aaMark, aaHistory>>
-----------------------------------------------------------------------------
AaStepOf(t) ==
    \/ AaFetch(t) \/ AaReadFirst(t) \/ AaFirst(t) \/ AaRead(t) \/ AaPost(t) \/ AaSave(t)

AaNext ==
    \/ \E a \in Chars :
        \/ \E kind \in {"attack", "other"} : Attack(a, kind)
        \/ HourPasses(a)
    \/ \E t \in Ticks : AaStart(t) \/ AaStepOf(t) \/ AaFail(t)
    \/ AaCrash

AaSpec == AaInit /\ [][AaNext]_aaVars
-----------------------------------------------------------------------------
\* Announced, or it need not be.
Dealt(a, i) == aaNotes[a][i] = "attack" => aaPosts[a][i] > 0 \/ i \in aaExcused[a]
NonePassed ==
    \A a \in Chars : aaMark[a] # Unset => \A i \in aaBase[a] + 1 .. aaMark[a] : Dealt(a, i)
NoneRepeated == \A a \in Chars : \A i \in Ids : aaPosts[a][i] <= 1 + faults

(***************************************************************************)
(* The watermark passes no attack that was not announced, but for one that *)
(* was already an hour old, or whose webhook failed: no error, restart or  *)
(* overlapping tick makes it (structureAttackAlertScheduler.js:424, the    *)
(* SET after the loop).  And nothing is announced again but after a fault: *)
(* each error, restart or overlap repeats an announcement once at most     *)
(* (structureAttackAlertScheduler.js:384).                                 *)
(***************************************************************************)
AaWatermark == NonePassed /\ NoneRepeated

(***************************************************************************)
(* Once no new ones come, every attack after the first run of its          *)
(* character is announced, or was too old, or its webhook failed; the      *)
(* errors of one character do not stop the others                          *)
(* (structureAttackAlertScheduler.js:455).                                 *)
(***************************************************************************)
AaAnnounced ==
    <>[](\A a \in Chars : aaNotes[a] # <<>> =>
            /\ aaBase[a] # Unset
            /\ \A i \in aaBase[a] + 1 .. Len(aaNotes[a]) : Dealt(a, i))
=============================================================================
