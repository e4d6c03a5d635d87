----------------------------- MODULE StockSync -----------------------------
(***************************************************************************)
(* The stock of one structure: the tick (every five minutes, when the      *)
(* structure is due) and the registration command read the corporation's   *)
(* hangar from ESI, look up the names of its ships, and write one sample   *)
(* per type and name into StockLog, cleaning up what should not stay.      *)
(* Nothing keeps two of them apart, and there is no transaction.           *)
(*                                                                         *)
(* Of the log, a state keeps for every type and name the quantity of the   *)
(* last sample, 0 if there is none: what the stock page shows.             *)
(***************************************************************************)
EXTENDS Naturals, FiniteSets, Sequences, SequencesExt

CONSTANTS
    Items,        \* item_ids
    Types,
    TypeOf,       \* the type of each item
    Copies,       \* singletons that cannot be named: blueprint copies
    Names,        \* custom names, of ships
    Null,         \* no name
    Targeted,     \* types and names that may get a target
    Syncs,        \* calls of syncStructure that may run at the same time
    BatchLen,     \* IDS_PER_REQUEST
    MaxChanges,   \* bound on changes of the hangar and of targets
    MaxFaults     \* bound on errors of ESI and MySQL, and crashes

ASSUME StockAssumption ==
    /\ IsFiniteSet(Items)
    /\ TypeOf \in [Items -> Types]
    /\ Copies \subseteq Items
    /\ {Null, "out", "packed", "plain"} \cap Names = {}
    /\ Targeted \subseteq Types \X (Names \cup {Null})
    /\ BatchLen \in Nat \ {0}
    /\ MaxChanges \in Nat /\ MaxFaults \in Nat

VARIABLES
    hangar,      \* what an item is in the game: out, packed, plain, or its name
    targets,     \* StockTarget
    log,         \* StockLog
    due,         \* nextSyncAt has passed, or is not in the map
    pc,
    assets,      \* out, packed or singleton: what ESI returned of each item
    batches,     \* the name requests that are not answered
    found,       \* the names that came back
    failed,      \* hadFailures
    wanted,      \* the targets it read
    named,       \* existingNamedCombos
    nulls,       \* existingNullCombos
    changes, faults,
    kept,        \* the targets that stayed since it started
    moved,       \* the hangar changed since it asked for the assets
    beenNamed    \* types of which a ship ever had a name

work == <<pc, assets, batches, found, failed, wanted, named, nulls>>
vars == <<hangar, targets, log, due, work, changes, faults, kept, moved, beenNamed>>

Combos == Types \X (Names \cup {Null})
\* What an item can be.
Looks(i) == {"out", "plain"} \cup IF i \in Copies THEN {} ELSE {"packed"} \cup Names
Steps == {"idle", "assets", "names", "targets", "named", "dropNamed", "nulls", "dropNulls",
          "insert", "next"}

TypeOK ==
    /\ hangar \in [Items -> {"out", "packed", "plain"} \cup Names]
    /\ targets \subseteq Combos
    /\ log \in [Combos -> 0..Cardinality(Items)]
    /\ due \in BOOLEAN
    /\ pc \in [Syncs -> Steps]
    /\ assets \in [Syncs -> [Items -> {"out", "packed", "single"}]]
    /\ batches \in [Syncs -> SUBSET Seq(Items)]
    /\ found \in [Syncs -> [Items -> Names \cup {Null}]]
    /\ failed \in [Syncs -> BOOLEAN]
    /\ wanted \in [Syncs -> SUBSET Combos]
    /\ named \in [Syncs -> SUBSET Combos]
    /\ nulls \in [Syncs -> SUBSET Types]
    /\ changes \in 0..MaxChanges /\ faults \in 0..MaxFaults
    /\ kept \in [Syncs -> SUBSET Combos]
    /\ moved \in [Syncs -> BOOLEAN]
    /\ beenNamed \subseteq Types

NamedTypes(h) == {TypeOf[i] : i \in {j \in Items : h[j] \in Names}}

Init ==
    /\ hangar \in [Items -> {"out", "packed", "plain"} \cup Names]
    /\ \A i \in Items : hangar[i] \in Looks(i)
    /\ targets = {}
    /\ log = [c \in Combos |-> 0]
    /\ due = TRUE
    /\ pc = [k \in Syncs |-> "idle"]
    /\ assets = [k \in Syncs |-> [i \in Items |-> "out"]]
    /\ batches = [k \in Syncs |-> {}]
    /\ found = [k \in Syncs |-> [i \in Items |-> Null]]
    /\ failed = [k \in Syncs |-> FALSE]
    /\ wanted = [k \in Syncs |-> {}]
    /\ named = [k \in Syncs |-> {}]
    /\ nulls = [k \in Syncs |-> {}]
    /\ changes = 0 /\ faults = 0
    /\ kept = [k \in Syncs |-> {}]
    /\ moved = [k \in Syncs |-> FALSE]
    /\ beenNamed = NamedTypes(hangar)
-----------------------------------------------------------------------------
(***************************************************************************)
(* The game and the stock page.                                            *)
(***************************************************************************)
Change == changes < MaxChanges /\ changes' = changes + 1

\* An item comes, goes, is packed, assembled or named.
Move(i, look) ==
    /\ Change
    /\ look \in Looks(i) /\ look # hangar[i]
    /\ hangar' = [hangar EXCEPT ![i] = look]
    /\ moved' = [k \in Syncs |-> TRUE]
    /\ beenNamed' = beenNamed \cup NamedTypes(hangar')
    /\ UNCHANGED <<targets, log, due, work, faults, kept>>

\* PATCH targets, with a quantity or with 0.
EditTarget(c) ==
    /\ Change
    /\ targets' = (targets \ {c}) \cup ({c} \ targets)
    /\ kept' = [k \in Syncs |-> kept[k] \cap targets']
    /\ UNCHANGED <<hangar, log, due, work, faults, moved, beenNamed>>

TimePasses ==
    /\ ~due
    /\ due' = TRUE
    /\ UNCHANGED <<hangar, targets, log, work, changes, faults, kept, moved, beenNamed>>
-----------------------------------------------------------------------------
(***************************************************************************)
(* syncStructure.                                                          *)
(***************************************************************************)
GoTo(k, s) == pc' = [pc EXCEPT ![k] = s]
Fault == faults < MaxFaults /\ faults' = faults + 1

\* What a sync holds goes with it.
Reset(k) ==
    /\ GoTo(k, "idle")
    /\ assets' = [assets EXCEPT ![k] = [i \in Items |-> "out"]]
    /\ batches' = [batches EXCEPT ![k] = {}]
    /\ found' = [found EXCEPT ![k] = [i \in Items |-> Null]]
    /\ failed' = [failed EXCEPT ![k] = FALSE]
    /\ wanted' = [wanted EXCEPT ![k] = {}]
    /\ named' = [named EXCEPT ![k] = {}]
    /\ nulls' = [nulls EXCEPT ![k] = {}]
    /\ kept' = [kept EXCEPT ![k] = {}]
    /\ moved' = [moved EXCEPT ![k] = FALSE]

Start(k) ==
    /\ pc[k] = "idle"
    /\ GoTo(k, "assets")
    /\ kept' = [kept EXCEPT ![k] = targets]
    /\ UNCHANGED <<hangar, targets, log, due, assets, batches, found, failed, wanted, named,
                   nulls, changes, faults, moved, beenNamed>>

\* The tick starts a sync of a structure that is due, the command always.
Tick(k) == due /\ Start(k)
Register(k) == ~due /\ Start(k)

Chunks(s) == {SubSeq(s, n * BatchLen + 1,
                     IF (n + 1) * BatchLen < Len(s) THEN (n + 1) * BatchLen ELSE Len(s))
                : n \in 0..((Len(s) - 1) \div BatchLen)}

\* All pages or nothing.
FetchAssets(k) ==
    /\ pc[k] = "assets"
    /\ assets' = [assets EXCEPT ![k] =
                    [i \in Items |-> IF hangar[i] \in {"out", "packed"} THEN hangar[i]
                                                                       ELSE "single"]]
    /\ LET ids == {i \in Items : assets'[k][i] = "single"} IN
       IF ids = {} THEN GoTo(k, "targets") /\ UNCHANGED batches
                   ELSE /\ GoTo(k, "names")
                        /\ batches' = [batches EXCEPT ![k] = Chunks(SetToSeq(ids))]
    /\ moved' = [moved EXCEPT ![k] = FALSE]
    /\ UNCHANGED <<hangar, targets, log, due, found, failed, wanted, named, nulls, changes,
                   faults, kept, beenNamed>>

Nameable(i) == i \notin Copies /\ hangar[i] \notin {"out", "packed"}
Rejected(b) == \E i \in Range(b) : ~Nameable(i)

Answered(k, rest) ==
    /\ batches' = [batches EXCEPT ![k] = rest]
    /\ GoTo(k, IF rest = {} THEN "targets" ELSE "names")
    /\ UNCHANGED <<hangar, targets, log, due, assets, wanted, named, nulls, changes, kept,
                   moved, beenNamed>>

GotNames(k, b) ==
    /\ pc[k] = "names" /\ b \in batches[k]
    /\ ~Rejected(b)
    /\ found' = [found EXCEPT ![k] =
                   [i \in Items |-> IF i \in Range(b) /\ hangar[i] \in Names THEN hangar[i]
                                                                            ELSE @[i]]]
    /\ Answered(k, batches[k] \ {b})
    /\ UNCHANGED <<failed, faults>>

\* Seeded bug: a rejected batch has no names at all.
RejectAll(k, b) ==
    /\ pc[k] = "names" /\ b \in batches[k]
    /\ Rejected(b)
    /\ Answered(k, batches[k] \ {b})
    /\ UNCHANGED <<found, failed, faults>>

\* 404: one id cannot be named, and the batch is split to find it; it alone
\* has no name.
Bisect(k, b) ==
    /\ pc[k] = "names" /\ b \in batches[k]
    /\ Rejected(b)
    /\ LET mid == Len(b) \div 2 IN
       Answered(k, (batches[k] \ {b}) \cup
                   IF Len(b) = 1 THEN {}
                   ELSE {SubSeq(b, 1, mid), SubSeq(b, mid + 1, Len(b))})
    /\ UNCHANGED <<found, failed, faults>>

\* Three attempts fail otherwise.
NamesFail(k, b) ==
    /\ pc[k] = "names" /\ b \in batches[k]
    /\ Fault
    /\ failed' = [failed EXCEPT ![k] = TRUE]
    /\ Answered(k, batches[k] \ {b})
    /\ UNCHANGED found

\* Seeded bug: the cleaning runs without the names that are missing.
CleanAnyway(k) ==
    /\ pc[k] = "targets"
    /\ wanted' = [wanted EXCEPT ![k] = targets]
    /\ GoTo(k, "named")
    /\ UNCHANGED <<hangar, targets, log, due, assets, batches, found, failed, named, nulls,
                   changes, faults, kept, moved, beenNamed>>

\* If names are missing, the cleaning is skipped.
ReadTargets(k) ==
    /\ pc[k] = "targets"
    /\ wanted' = [wanted EXCEPT ![k] = targets]
    /\ GoTo(k, IF failed[k] THEN "insert" ELSE "named")
    /\ UNCHANGED <<hangar, targets, log, due, assets, batches, found, failed, named, nulls,
                   changes, faults, kept, moved, beenNamed>>

ReadNamed(k) ==
    /\ pc[k] = "named"
    /\ named' = [named EXCEPT ![k] = {c \in Combos : c[2] # Null /\ log[c] > 0}]
    /\ GoTo(k, "dropNamed")
    /\ UNCHANGED <<hangar, targets, log, due, assets, batches, found, failed, wanted, nulls,
                   changes, faults, kept, moved, beenNamed>>

\* The entries: items of one type and name, added up.
NameOf(k, i) == IF assets[k][i] = "single" THEN found[k][i] ELSE Null
Count(k, c) == Cardinality({i \in Items : /\ assets[k][i] # "out"
                                          /\ c = <<TypeOf[i], NameOf(k, i)>>})

\* Seeded bug: only what is in this sample is deleted.
DropSampled(k) ==
    /\ pc[k] = "dropNamed"
    /\ log' = [c \in Combos |-> IF c \in named[k] \ wanted[k] /\ Count(k, c) > 0
                               THEN 0 ELSE log[c]]
    /\ GoTo(k, "nulls")
    /\ UNCHANGED <<hangar, targets, due, assets, batches, found, failed, wanted, named, nulls,
                   changes, faults, kept, moved, beenNamed>>

\* Ships without a target have no history.
DropNamed(k) ==
    /\ pc[k] = "dropNamed"
    /\ log' = [c \in Combos |-> IF c \in named[k] \ wanted[k] THEN 0 ELSE log[c]]
    /\ GoTo(k, "nulls")
    /\ UNCHANGED <<hangar, targets, due, assets, batches, found, failed, wanted, named, nulls,
                   changes, faults, kept, moved, beenNamed>>

ShipTypes(k) == {c[1] : c \in named[k] \cup {d \in Combos : d[2] # Null /\ Count(k, d) > 0}}

ReadNulls(k) ==
    /\ pc[k] = "nulls"
    /\ nulls' = [nulls EXCEPT ![k] = {t \in ShipTypes(k) : log[<<t, Null>>] > 0}]
    /\ GoTo(k, "dropNulls")
    /\ UNCHANGED <<hangar, targets, log, due, assets, batches, found, failed, wanted, named,
                   changes, faults, kept, moved, beenNamed>>

\* A type that had named ships and has no unnamed one now loses the rows
\* without a name.
DropNulls(k) ==
    /\ pc[k] = "dropNulls"
    /\ log' = [c \in Combos |->
                 IF c[2] = Null /\ c[1] \in nulls[k] /\ Count(k, c) = 0 THEN 0 ELSE log[c]]
    /\ GoTo(k, "insert")
    /\ UNCHANGED <<hangar, targets, due, assets, batches, found, failed, wanted, named, nulls,
                   changes, faults, kept, moved, beenNamed>>

\* Seeded bug: the quantity is added to what was there.
InsertAdding(k) ==
    /\ pc[k] = "insert"
    /\ log' = [c \in Combos |-> log[c] + Count(k, c)]
    /\ GoTo(k, "next")
    /\ UNCHANGED <<hangar, targets, due, assets, batches, found, failed, wanted, named, nulls,
                   changes, faults, kept, moved, beenNamed>>

Insert(k) ==
    /\ pc[k] = "insert"
    /\ log' = [c \in Combos |-> IF Count(k, c) > 0 THEN Count(k, c) ELSE log[c]]
    /\ GoTo(k, "next")
    /\ UNCHANGED <<hangar, targets, due, assets, batches, found, failed, wanted, named, nulls,
                   changes, faults, kept, moved, beenNamed>>

ScheduleNext(k) ==
    /\ pc[k] = "next"
    /\ due' = FALSE
    /\ Reset(k)
    /\ UNCHANGED <<hangar, targets, log, changes, faults, beenNamed>>

\* No token, no assets, or MySQL rejects: the tick tries again in an hour;
\* an error in the command leaves the schedule alone.
SyncFails(k) ==
    /\ pc[k] \notin {"idle", "names", "next"}
    /\ Fault
    /\ due' \in {due, FALSE}
    /\ Reset(k)
    /\ UNCHANGED <<hangar, targets, log, changes, beenNamed>>

\* The worker restarts; the map with the times is empty.
Restart ==
    /\ Fault
    /\ due' = TRUE
    /\ pc' = [k \in Syncs |-> "idle"]
    /\ assets' = [k \in Syncs |-> [i \in Items |-> "out"]]
    /\ batches' = [k \in Syncs |-> {}]
    /\ found' = [k \in Syncs |-> [i \in Items |-> Null]]
    /\ failed' = [k \in Syncs |-> FALSE]
    /\ wanted' = [k \in Syncs |-> {}]
    /\ named' = [k \in Syncs |-> {}]
    /\ nulls' = [k \in Syncs |-> {}]
    /\ kept' = [k \in Syncs |-> {}]
    /\ moved' = [k \in Syncs |-> FALSE]
    /\ UNCHANGED <<hangar, targets, log, changes, beenNamed>>
-----------------------------------------------------------------------------
Sync(k) ==
    \/ FetchAssets(k)
    \/ \E b \in batches[k] : GotNames(k, b) \/ Bisect(k, b)
    \/ ReadTargets(k) \/ ReadNamed(k) \/ DropNamed(k) \/ ReadNulls(k) \/ DropNulls(k)
    \/ Insert(k) \/ ScheduleNext(k)

Next ==
    \/ \E i \in Items : \E look \in Looks(i) : Move(i, look)
    \/ \E c \in Targeted : EditTarget(c)
    \/ TimePasses
    \/ \E k \in Syncs : \/ Tick(k) \/ Register(k) \/ Sync(k) \/ SyncFails(k)
                        \/ \E b \in batches[k] : NamesFail(k, b)
    \/ Restart

Spec == Init /\ [][Next]_vars

\* The clock runs, ticks find a structure that is due, awaits are answered.
Fairness ==
    /\ WF_vars(TimePasses)
    /\ WF_vars(\E k \in Syncs : Tick(k))
    /\ \A k \in Syncs : WF_vars(Sync(k))
FairSpec == Spec /\ Fairness
-----------------------------------------------------------------------------
\* getAssetNames.js - one id that cannot be named costs no other its name: a
\* lookup without failures in a hangar that stays as it was finds every name.
LookupExact ==
    \A k \in Syncs : pc[k] \notin {"idle", "assets", "names"} /\ ~failed[k] /\ ~moved[k] =>
        \A i \in Items : assets[k][i] = "single" =>
            found[k][i] = IF hangar[i] \in Names THEN hangar[i] ELSE Null

Present(c) == Cardinality({i \in Items : hangar[i] # "out" /\
    c = <<TypeOf[i], IF hangar[i] \in Names THEN hangar[i] ELSE Null>>})

\* Between its deletions and its rows.
Rewriting(k) == pc[k] \in {"nulls", "dropNulls", "insert"}

\* stockSyncScheduler.js:351-417 - the two clean-ups delete only what should go,
\* whatever else runs and fails.  The rows of a named ship with a target stay,
\* unless the target was set or cleared while a sync ran; those of a named ship
\* that is there go only in a sync that is about to write them again, or whose
\* hangar changed: what a lookup did not find is not taken for gone.  Plain
\* goods, of types no ship of which was ever named, never lose theirs.
HistoryKept ==
    [][\A c \in Combos : log[c] > 0 /\ log'[c] = 0 =>
          /\ c[2] # Null =>
                /\ \E k \in Syncs : pc[k] # "idle" /\ c \notin kept[k]
                /\ \/ Present(c) = 0
                   \/ \E k \in Syncs : pc[k] = "dropNamed" /\ (moved[k] \/ Count(k, c) > 0)
          /\ c[2] = Null => c[1] \in beenNamed]_vars

\* Once the hangar and the targets stay as they are, the page shows what is
\* there, except while a sync rewrites it, and no named ship that is gone and
\* has no target, whatever late writes, failed lookups and restarts came before.
Settles ==
    <>[](\A c \in Combos :
          /\ Present(c) > 0 => log[c] = Present(c) \/ \E k \in Syncs : Rewriting(k)
          /\ Present(c) = 0 /\ c[2] # Null /\ c \notin targets => log[c] = 0)
=============================================================================
