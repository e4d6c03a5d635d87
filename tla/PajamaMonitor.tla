--------------------------- MODULE PajamaMonitor ---------------------------
(***************************************************************************)
(* The pajama monitor of a tenant worker: characters who leave a monitored *)
(* structure with a CA implant get a window opened in their game client.   *)
(*                                                                         *)
(* Six loops share Redis sets.  Each takes a snapshot, asks ESI about the  *)
(* characters in it, in any order, and writes what it found once all have  *)
(* answered; the others go on meanwhile.  A loop never overlaps itself.    *)
(* The game, its logins, docks and undocks, is the environment.            *)
(***************************************************************************)
EXTENDS Naturals, FiniteSets

CONSTANTS
    Chars,          \* registered characters, all seen in the last 30 days
    Wearers,        \* those with a CA implant
    Monitored,      \* the structures of the anchor corporations
    Space,          \* anywhere else
    Threshold,      \* PAJAMA_TOKEN_FAIL_THRESHOLD
    FaultKinds,     \* which of "token", "dead", "esi", "anchor", "redis", "restart", "outage" occur
    MaxFaults,      \* bound on faults
    MaxMoves        \* bound on logins, logouts, docks and undocks

ASSUME PajamaAssumption ==
    /\ Wearers \subseteq Chars
    /\ Space \notin Monitored
    /\ Threshold \in Nat \ {0}
    /\ MaxFaults \in Nat
    /\ MaxMoves \in Nat

VARIABLES
    logged, at,                                 \* the game
    tokens,      \* characters whose refresh token is valid
    others,      \* characters beside Chars still get tokens in every window
    hot, target, online, docking, structures,   \* Redis sets
    tokenfail,                                  \* Redis hash
    recent,      \* a token succeeded within PAJAMA_TOKEN_SUCCESS_WINDOW_MS
    phase,       \* where each loop is
    todo,        \* characters of its snapshot that have not answered
    known,       \* the structures it read
    found,       \* what it will write
    also,        \* offline: to be added to docking; undock: to be alerted
    skip,        \* the docking snapshot of the offline loop
    undocks, alerts, moves, faults,
    blind        \* a structure was missing from a list it should be in

game == <<logged, at, tokens, others>>
redis == <<hot, target, online, docking, structures>>
health == <<tokenfail, recent>>
loops == <<phase, todo, known, found, also, skip>>
history == <<undocks, alerts, moves>>
vars == <<game, redis, health, loops, history, faults, blind>>

Loops == {"classify", "target", "offline", "refresh", "undock", "dock"}
Sets == {"hot", "target", "online", "docking", "structures"}

TypeOK ==
    /\ logged \subseteq Chars
    /\ at \in [Chars -> Monitored \cup {Space}]
    /\ tokens \subseteq Chars
    /\ hot \subseteq Chars /\ target \subseteq Chars
    /\ online \subseteq Chars /\ docking \subseteq Chars
    /\ structures \subseteq Monitored
    /\ tokenfail \in [Chars -> 0..Threshold]
    /\ recent \in BOOLEAN
    /\ phase \in [Loops -> {"idle", "ask", "write", "second"}]
    /\ todo \in [Loops -> SUBSET Chars]
    /\ known \in [Loops -> SUBSET Monitored]
    /\ found \in [Loops -> SUBSET Chars]
    /\ also \in [Loops -> SUBSET Chars]
    /\ skip \subseteq Chars
    /\ undocks \in [Chars -> Nat] /\ alerts \in [Chars -> Nat]
    /\ moves \in 0..MaxMoves
    /\ faults \in 0..MaxFaults
    /\ others \in BOOLEAN /\ blind \in BOOLEAN

Nothing == [l \in Loops |-> {}]

Init ==
    /\ logged \in SUBSET Chars /\ tokens = Chars
    /\ at \in [Chars -> Monitored \cup {Space}]
    /\ hot = {} /\ target = {} /\ online = {} /\ docking = {} /\ structures = {}
    /\ tokenfail = [c \in Chars |-> 0] /\ recent = FALSE
    /\ phase = [l \in Loops |-> "idle"]
    /\ todo = Nothing /\ known = Nothing /\ found = Nothing /\ also = Nothing
    /\ skip = {}
    /\ undocks = [c \in Chars |-> 0] /\ alerts = [c \in Chars |-> 0]
    /\ moves = 0 /\ faults = 0
    /\ others = TRUE /\ blind = FALSE

-----------------------------------------------------------------------------
(***************************************************************************)
(* The game.                                                               *)
(***************************************************************************)
Move == moves < MaxMoves /\ moves' = moves + 1

Login(c) ==
    /\ Move
    /\ c \notin logged
    /\ logged' = logged \cup {c}
    /\ UNCHANGED <<at, tokens, others, redis, health, loops, undocks, alerts, faults, blind>>

Logout(c) ==
    /\ Move
    /\ c \in logged
    /\ logged' = logged \ {c}
    /\ UNCHANGED <<at, tokens, others, redis, health, loops, undocks, alerts, faults, blind>>

Dock(c, s) ==
    /\ Move
    /\ c \in logged /\ at[c] = Space
    /\ at' = [at EXCEPT ![c] = s]
    /\ UNCHANGED <<logged, tokens, others, redis, health, loops, undocks, alerts, faults, blind>>

Undock(c) ==
    /\ Move
    /\ c \in logged /\ at[c] # Space
    /\ at' = [at EXCEPT ![c] = Space]
    /\ undocks' = [undocks EXCEPT ![c] = @ + 1]
    /\ UNCHANGED <<logged, tokens, others, redis, health, loops, alerts, faults, blind>>

-----------------------------------------------------------------------------
(***************************************************************************)
(* Faults.                                                                 *)
(***************************************************************************)
Fault(kind) == kind \in FaultKinds /\ faults < MaxFaults /\ faults' = faults + 1

\* The user revokes the token.
TokenDies(c) ==
    /\ Fault("dead")
    /\ c \in tokens
    /\ tokens' = tokens \ {c}
    /\ UNCHANGED <<logged, at, others, redis, health, loops, history, blind>>

\* The worker restarts: Redis stays, lastSuccessAt and the loops do not.
Restart ==
    /\ Fault("restart")
    /\ phase' = [l \in Loops |-> "idle"]
    /\ todo' = Nothing /\ known' = Nothing /\ found' = Nothing /\ also' = Nothing
    /\ skip' = {}
    /\ recent' = FALSE
    /\ UNCHANGED <<game, redis, tokenfail, history, blind>>

\* From now on nobody outside Chars gets a token.
OthersFail ==
    /\ Fault("outage")
    /\ others
    /\ others' = FALSE
    /\ UNCHANGED <<logged, at, tokens, redis, health, loops, history, blind>>

\* Some other character's token succeeds.
OthersSucceed ==
    /\ others /\ ~recent
    /\ recent' = TRUE
    /\ UNCHANGED <<game, redis, tokenfail, loops, history, faults, blind>>

\* No success for a whole window.  The loops ask about everyone in target,
\* online and docking at least every 60 s, the window is 120 s.
WindowPasses ==
    /\ recent /\ ~others
    /\ (target \cup online \cup docking) \cap tokens = {}
    /\ recent' = FALSE
    /\ UNCHANGED <<game, redis, tokenfail, loops, history, faults, blind>>

-----------------------------------------------------------------------------
(***************************************************************************)
(* Redis.  Errors are logged and swallowed: a read returns nothing, a      *)
(* write does nothing.                                                     *)
(***************************************************************************)

\* Of the sets read, those in bad could not be.
Reads(bad) == IF bad = {} THEN UNCHANGED faults ELSE Fault("redis")
Got(S, k, bad) == IF k \in bad THEN {} ELSE S

Wrote(old, new, now) == \/ now = new /\ UNCHANGED faults
                        \/ now = old /\ Fault("redis")

-----------------------------------------------------------------------------
(***************************************************************************)
(* The snapshot of each loop.                                              *)
(***************************************************************************)
StartAsking(l, S, ss) ==
    /\ S # {}
    /\ phase' = [phase EXCEPT ![l] = "ask"]
    /\ todo' = [todo EXCEPT ![l] = S]
    /\ known' = [known EXCEPT ![l] = ss]
    /\ UNCHANGED <<found, also>>

ReadRegistered ==
    /\ phase["classify"] = "idle"
    /\ StartAsking("classify", Chars, {})
    /\ UNCHANGED <<game, redis, health, skip, history, faults, blind>>

ReadHot ==
    /\ phase["target"] = "idle"
    /\ \E bad \in SUBSET {"hot"} :
        LET S == Got(hot, "hot", bad) IN
        /\ Reads(bad)
        /\ IF S = {} THEN target' = {} /\ UNCHANGED <<phase, todo, known, found, also>>
                     ELSE UNCHANGED target /\ StartAsking("target", S, {})
    /\ UNCHANGED <<game, hot, online, docking, structures, health, skip, history, blind>>

ReadOffline ==
    /\ phase["offline"] = "idle"
    /\ \E bad \in SUBSET {"target", "online", "structures", "docking"} :
        /\ Reads(bad)
        /\ skip' = Got(docking, "docking", bad)
        /\ StartAsking("offline", Got(target, "target", bad) \ Got(online, "online", bad),
                       Got(structures, "structures", bad))
    /\ UNCHANGED <<game, redis, health, history, blind>>

\* Seeded bug: who is docked is left to the undock loop.
ReadOnlineUndocked ==
    /\ phase["refresh"] = "idle"
    /\ StartAsking("refresh", online \ docking, {})
    /\ UNCHANGED <<game, redis, health, skip, history, faults, blind>>

ReadOnline ==
    /\ phase["refresh"] = "idle"
    /\ StartAsking("refresh", online, {})
    /\ UNCHANGED <<game, redis, health, skip, history, faults, blind>>

ReadDocking ==
    /\ phase["undock"] = "idle"
    /\ \E bad \in SUBSET {"structures"} :
        /\ Reads(bad)
        /\ StartAsking("undock", docking, Got(structures, "structures", bad))
        /\ blind' = (blind \/ bad # {})
    /\ UNCHANGED <<game, redis, health, skip, history>>

ReadUnconfirmed ==
    /\ phase["dock"] = "idle"
    /\ structures # {}
    /\ \E bad \in SUBSET {"docking"} :
        /\ Reads(bad)
        /\ StartAsking("dock", online \ Got(docking, "docking", bad), structures)
    /\ UNCHANGED <<game, redis, health, skip, history, blind>>

-----------------------------------------------------------------------------
(***************************************************************************)
(* One character of a snapshot.                                            *)
(***************************************************************************)
\* These write even if they found nobody.
Replacing == {"classify", "target"}

\* The character has answered; it is in the loop's findings if F, A hold.
Answer(l, c, F, A) ==
    /\ todo' = [todo EXCEPT ![l] = @ \ {c}]
    /\ found' = [found EXCEPT ![l] = IF F THEN @ \cup {c} ELSE @]
    /\ also' = [also EXCEPT ![l] = IF A THEN @ \cup {c} ELSE @]
    /\ phase' = [phase EXCEPT ![l] =
                    IF todo'[l] # {} THEN "ask"
                    ELSE IF found'[l] = {} /\ l \notin Replacing THEN "idle" ELSE "write"]
    /\ UNCHANGED <<known, skip>>

\* getMonitorToken succeeds: the counter is removed.
Granted(c) ==
    /\ c \in tokens
    /\ tokenfail' = [tokenfail EXCEPT ![c] = 0]
    /\ recent' = TRUE

\* getMonitorToken fails: count, and at the threshold, unless everyone seems
\* to fail, drop the character from every set.
Refused(l, c) ==
    /\ l # "classify" /\ c \in todo[l]
    /\ \/ c \notin tokens /\ UNCHANGED faults
       \/ c \in tokens /\ Fault("token")
    /\ IF tokenfail[c] + 1 >= Threshold /\ recent
       THEN /\ tokenfail' = [tokenfail EXCEPT ![c] = 0]
            /\ hot' = hot \ {c} /\ target' = target \ {c}
            /\ online' = online \ {c} /\ docking' = docking \ {c}
       ELSE /\ tokenfail' = [tokenfail EXCEPT ![c] = IF @ < Threshold THEN @ + 1 ELSE @]
            /\ UNCHANGED <<hot, target, online, docking>>
    /\ Answer(l, c, FALSE, FALSE)
    /\ UNCHANGED <<game, structures, recent, history, blind>>

\* Did ESI answer this call?
Esi(ok) == IF ok THEN UNCHANGED faults ELSE Fault("esi")

\* The classification asks for tokens itself and counts nothing.
AskLastLogin(c) ==
    /\ c \in todo["classify"]
    /\ \/ c \notin tokens /\ Answer("classify", c, FALSE, FALSE) /\ UNCHANGED faults
       \/ c \in tokens /\ \E ok \in BOOLEAN : Esi(ok) /\ Answer("classify", c, ok, FALSE)
    /\ UNCHANGED <<game, redis, health, history, blind>>

AskImplants(c) ==
    /\ c \in todo["target"]
    /\ Granted(c)
    /\ \E ok \in BOOLEAN : Esi(ok) /\ Answer("target", c, ok /\ c \in Wearers, FALSE)
    /\ UNCHANGED <<game, redis, history, blind>>

AskOnline(c) ==
    /\ c \in todo["offline"]
    /\ Granted(c)
    /\ \E on, loc \in BOOLEAN :
        /\ IF on /\ loc THEN UNCHANGED faults ELSE Fault("esi")
        /\ Answer("offline", c, on /\ c \in logged,
                  on /\ c \in logged /\ c \notin skip /\ loc /\ at[c] \in known["offline"])
    /\ UNCHANGED <<game, redis, history, blind>>

AskStillOnline(c) ==
    /\ c \in todo["refresh"]
    /\ Granted(c)
    /\ \E ok \in BOOLEAN : Esi(ok) /\ Answer("refresh", c, ok /\ c \notin logged, FALSE)
    /\ UNCHANGED <<game, redis, history, blind>>

\* Seeded bug: no location counts as outside.
AskAnyLocation(c) ==
    /\ c \in todo["undock"]
    /\ Granted(c)
    /\ \E loc, imp \in BOOLEAN :
        LET left == ~loc \/ at[c] \notin known["undock"] IN
        /\ IF loc /\ imp THEN UNCHANGED faults ELSE Fault("esi")
        /\ Answer("undock", c, left, left /\ imp /\ c \in Wearers)
    /\ UNCHANGED <<game, redis, history, blind>>

\* Outside every structure it knows: to be removed, and alerted if ESI also
\* returns the implants.
AskStillDocked(c) ==
    /\ c \in todo["undock"]
    /\ Granted(c)
    /\ \E loc, imp \in BOOLEAN :
        LET left == loc /\ at[c] \notin known["undock"] IN
        /\ IF loc /\ imp THEN UNCHANGED faults ELSE Fault("esi")
        /\ Answer("undock", c, left, left /\ imp /\ c \in Wearers)
    /\ UNCHANGED <<game, redis, history, blind>>

AskDocked(c) ==
    /\ c \in todo["dock"]
    /\ Granted(c)
    /\ \E ok \in BOOLEAN : Esi(ok) /\ Answer("dock", c, ok /\ at[c] \in known["dock"], FALSE)
    /\ UNCHANGED <<game, redis, history, blind>>

-----------------------------------------------------------------------------
(***************************************************************************)
(* The writes.                                                             *)
(***************************************************************************)
Finish(l) ==
    /\ phase' = [phase EXCEPT ![l] = "idle"]
    /\ known' = [known EXCEPT ![l] = {}]
    /\ found' = [found EXCEPT ![l] = {}]
    /\ also' = [also EXCEPT ![l] = {}]
    /\ skip' = IF l = "offline" THEN {} ELSE skip
    /\ UNCHANGED todo

\* On to the second write of the loop.
Second(l) ==
    /\ phase' = [phase EXCEPT ![l] = "second"]
    /\ UNCHANGED <<todo, known, found, also, skip>>

WriteHot ==
    /\ phase["classify"] = "write"
    /\ Wrote(hot, found["classify"], hot')
    /\ Second("classify")
    /\ UNCHANGED <<game, target, online, docking, structures, health, history, blind>>

\* Seeded bug: an entry without an id is kept.
WriteAnyStructure ==
    /\ phase["classify"] = "second"
    /\ structures' = Monitored \cup {Space}
    /\ Finish("classify")
    /\ UNCHANGED <<game, hot, target, online, docking, health, history, faults, blind>>

\* One token and one ESI call per anchor corporation; those that fail are
\* left out, and the list is replaced by what came back.
WriteStructures ==
    /\ phase["classify"] = "second"
    /\ \/ Wrote(structures, Monitored, structures')
       \/ Fault("anchor") /\ structures' \in SUBSET Monitored
    /\ blind' = (blind \/ structures' # Monitored)
    /\ Finish("classify")
    /\ UNCHANGED <<game, hot, target, online, docking, health, history>>

WriteTarget ==
    /\ phase["target"] = "write"
    /\ Wrote(target, found["target"], target')
    /\ Finish("target")
    /\ UNCHANGED <<game, hot, online, docking, structures, health, history, blind>>

WriteOnline ==
    /\ phase["offline"] = "write"
    /\ Wrote(online, online \cup found["offline"], online')
    /\ Second("offline")
    /\ UNCHANGED <<game, hot, target, docking, structures, health, history, blind>>

WriteArrivals ==
    /\ phase["offline"] = "second"
    /\ Wrote(docking, docking \cup also["offline"], docking')
    /\ Finish("offline")
    /\ UNCHANGED <<game, hot, target, online, structures, health, history, blind>>

RemoveOnline ==
    /\ phase["refresh"] = "write"
    /\ Wrote(online, online \ found["refresh"], online')
    /\ Second("refresh")
    /\ UNCHANGED <<game, hot, target, docking, structures, health, history, blind>>

RemoveDocking ==
    /\ phase["refresh"] = "second"
    /\ Wrote(docking, docking \ found["refresh"], docking')
    /\ Finish("refresh")
    /\ UNCHANGED <<game, hot, target, online, structures, health, history, blind>>

\* The windows are opened; whether they were is not looked at.
SendAlerts ==
    /\ phase["undock"] = "write"
    /\ alerts' = [c \in Chars |-> IF c \in also["undock"] THEN alerts[c] + 1 ELSE alerts[c]]
    /\ Second("undock")
    /\ UNCHANGED <<game, redis, health, undocks, moves, faults, blind>>

RemoveUndocked ==
    /\ phase["undock"] = "second"
    /\ Wrote(docking, docking \ found["undock"], docking')
    /\ Finish("undock")
    /\ UNCHANGED <<game, hot, target, online, structures, health, history, blind>>

WriteDocking ==
    /\ phase["dock"] = "write"
    /\ Wrote(docking, docking \cup found["dock"], docking')
    /\ Finish("dock")
    /\ UNCHANGED <<game, hot, target, online, structures, health, history, blind>>

-----------------------------------------------------------------------------
Classify == ReadRegistered \/ (\E c \in Chars : AskLastLogin(c)) \/ WriteHot \/ WriteStructures
RunTargetPoll == ReadHot \/ (\E c \in Chars : AskImplants(c) \/ Refused("target", c)) \/ WriteTarget
RunOfflineCheck ==
    ReadOffline \/ (\E c \in Chars : AskOnline(c) \/ Refused("offline", c))
                \/ WriteOnline \/ WriteArrivals
RunOnlineRefresh ==
    ReadOnline \/ (\E c \in Chars : AskStillOnline(c) \/ Refused("refresh", c))
               \/ RemoveOnline \/ RemoveDocking
RunUndockCheck ==
    ReadDocking \/ (\E c \in Chars : AskStillDocked(c) \/ Refused("undock", c))
                \/ SendAlerts \/ RemoveUndocked
RunDockingPoll ==
    ReadUnconfirmed \/ (\E c \in Chars : AskDocked(c) \/ Refused("dock", c)) \/ WriteDocking

Game == \E c \in Chars : \/ Login(c) \/ Logout(c) \/ Undock(c)
                         \/ \E s \in Monitored : Dock(c, s)

Next ==
    \/ Classify \/ RunTargetPoll \/ RunOfflineCheck
    \/ RunOnlineRefresh \/ RunUndockCheck \/ RunDockingPoll
    \/ OthersSucceed \/ OthersFail \/ WindowPasses
    \/ Game \/ Restart \/ \E c \in Chars : TokenDies(c)

Spec == Init /\ [][Next]_vars

\* Every loop is rescheduled in its finally block and its awaits are answered.
Fairness ==
    /\ WF_vars(Classify) /\ WF_vars(RunTargetPoll) /\ WF_vars(RunOfflineCheck)
    /\ WF_vars(RunOnlineRefresh) /\ WF_vars(RunUndockCheck) /\ WF_vars(RunDockingPoll)
    /\ WF_vars(OthersSucceed)
FairSpec == Spec /\ Fairness

-----------------------------------------------------------------------------
\* As long as the loops know all structures, nobody who stayed where they
\* were is told that they undocked: no error, answer or late write of the six
\* loops is read as an undock.
NoFalseAlarm == blind \/ \A c \in Chars : alerts[c] > 0 => undocks[c] > 0

\* state.js:11 - several loops update one key, and the atomic SADD and SREM
\* rule out their races: one undock opens at most one window.
AlertOncePerUndock == \A c \in Chars : alerts[c] <= undocks[c]

\* Once the game is quiet, the sets show it, whatever the loops overwrote
\* before: no snapshot written late leaves a lasting trace, and a character
\* whose token was revoked is gone for good.  Only when no other token
\* succeeds is a revoked one kept, since the service may be down.
WorldIsSeen ==
    <>[](\/ ~others /\ tokens # Chars
         \/ /\ hot = tokens
            /\ target = Wearers \cap tokens
            /\ online = Wearers \cap tokens \cap logged
            /\ docking \ (tokens \ logged)
                = {c \in Wearers \cap tokens \cap logged : at[c] \in Monitored})
=============================================================================
