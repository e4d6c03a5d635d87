---------------------------- MODULE PajamaProofs ----------------------------
(***************************************************************************)
(* Safety of the pajama monitor: for every set of characters and           *)
(* structures, every order of the six loops, and any number of moves and   *)
(* faults.                                                                 *)
(***************************************************************************)
EXTENDS PajamaMonitor, TLAPS

\* Who is taken for docked, by a set or by a loop that is about to write it or to ask again.
Inside == docking \cup also["offline"] \cup found["dock"] \cup todo["undock"]

\* They are, or they have undocked since.
Docked == \A c \in Chars : c \in Inside /\ undocks[c] = 0 => at[c] \in Monitored

\* Nobody is taken for docked before the list of structures was there, and from then on it
\* is complete; so is the copy of it that an undock check holds.
Complete ==
    ~blind =>
        /\ structures \in {{}, Monitored}
        /\ Inside # {} => structures = Monitored
        /\ \A l \in {"offline", "dock"} : known[l] # {} => structures = Monitored
        /\ todo["undock"] # {} => known["undock"] = Monitored

\* Who has an alert, or is about to get one, has undocked.
Alerted == ~blind => \A c \in Chars : c \in also["undock"] \/ alerts[c] > 0 => undocks[c] > 0

\* Only a check that asks has somebody left to ask about.
Waiting == todo["undock"] # {} => phase["undock"] = "ask"

PjInv == TypeOK /\ Docked /\ Complete /\ Alerted /\ Waiting
-----------------------------------------------------------------------------
(***************************************************************************)
(* Types.                                                                  *)
(***************************************************************************)
GameTypes ==
    /\ logged \subseteq Chars /\ tokens \subseteq Chars /\ others \in BOOLEAN
    /\ at \in [Chars -> Monitored \cup {Space}]
RedisTypes ==
    /\ hot \subseteq Chars /\ target \subseteq Chars
    /\ online \subseteq Chars /\ docking \subseteq Chars
    /\ structures \subseteq Monitored
HealthTypes == tokenfail \in [Chars -> 0..Threshold] /\ recent \in BOOLEAN
LoopTypes ==
    /\ phase \in [Loops -> {"idle", "ask", "write", "second"}]
    /\ todo \in [Loops -> SUBSET Chars]
    /\ known \in [Loops -> SUBSET Monitored]
    /\ found \in [Loops -> SUBSET Chars]
    /\ also \in [Loops -> SUBSET Chars]
    /\ skip \subseteq Chars
HistoryTypes ==
    /\ undocks \in [Chars -> Nat] /\ alerts \in [Chars -> Nat]
    /\ moves \in 0..MaxMoves /\ faults \in 0..MaxFaults /\ blind \in BOOLEAN

LEMMA TypeParts ==
    TypeOK <=> GameTypes /\ RedisTypes /\ HealthTypes /\ LoopTypes /\ HistoryTypes
BY DEF TypeOK, GameTypes, RedisTypes, HealthTypes, LoopTypes, HistoryTypes

LEMMA TypePartsNext ==
    GameTypes' /\ RedisTypes' /\ HealthTypes' /\ LoopTypes' /\ HistoryTypes' => TypeOK'
BY DEF TypeOK, GameTypes, RedisTypes, HealthTypes, LoopTypes, HistoryTypes

LEMMA FaultType ==
    ASSUME faults \in 0..MaxFaults, UNCHANGED faults \/ \E kind : Fault(kind)
    PROVE  faults' \in 0..MaxFaults
BY PajamaAssumption DEF Fault

\* A step of a loop that begins to ask.
LEMMA AskingTypes ==
    ASSUME LoopTypes, NEW l \in Loops, NEW S \in SUBSET Chars, NEW ss \in SUBSET Monitored,
           StartAsking(l, S, ss), skip' \subseteq Chars
    PROVE  LoopTypes'
BY DEF LoopTypes, StartAsking

\* One answer: the loop goes on asking, writes, or is done.
LEMMA AnswerTypes ==
    ASSUME LoopTypes, NEW l \in Loops, NEW c \in Chars, NEW F \in BOOLEAN, NEW A \in BOOLEAN,
           Answer(l, c, F, A)
    PROVE  LoopTypes'
<1>1. todo' \in [Loops -> SUBSET Chars]
  BY DEF LoopTypes, Answer
<1>2. found' \in [Loops -> SUBSET Chars] /\ also' \in [Loops -> SUBSET Chars]
  BY DEF LoopTypes, Answer
<1>3. phase' \in [Loops -> {"idle", "ask", "write", "second"}]
  BY DEF LoopTypes, Answer
<1>4. QED
  BY <1>1, <1>2, <1>3 DEF LoopTypes, Answer

LEMMA FinishTypes ==
    ASSUME LoopTypes, NEW l \in Loops, Finish(l)
    PROVE  LoopTypes'
BY DEF LoopTypes, Finish

LEMMA SecondTypes ==
    ASSUME LoopTypes, NEW l \in Loops, Second(l)
    PROVE  LoopTypes'
BY DEF LoopTypes, Second

LEMMA GrantedTypes ==
    ASSUME HealthTypes, NEW c \in Chars, Granted(c)
    PROVE  HealthTypes'
BY PajamaAssumption DEF HealthTypes, Granted

LEMMA LoopNames == {"classify", "target", "offline", "refresh", "undock", "dock"} = Loops
BY DEF Loops

\* What ESI says of one character is an answer to the loop that asked.
LEMMA AskAnswers ==
    ASSUME NEW c \in Chars,
           \/ AskLastLogin(c) \/ AskImplants(c) \/ AskOnline(c) \/ AskStillOnline(c)
           \/ AskStillDocked(c) \/ AskDocked(c)
    PROVE  \E l \in Loops : \E F, A \in BOOLEAN : Answer(l, c, F, A)
<1> USE LoopNames
<1>1. CASE AskLastLogin(c)
  BY <1>1 DEF AskLastLogin
<1>2. CASE AskImplants(c)
  BY <1>2 DEF AskImplants
<1>3. CASE AskOnline(c)
  BY <1>3 DEF AskOnline
<1>4. CASE AskStillOnline(c)
  BY <1>4 DEF AskStillOnline
<1>5. CASE AskStillDocked(c)
  BY <1>5 DEF AskStillDocked
<1>6. CASE AskDocked(c)
  BY <1>6 DEF AskDocked
<1>7. QED
  BY <1>1, <1>2, <1>3, <1>4, <1>5, <1>6

LEMMA Typing == TypeOK /\ [Next]_vars => TypeOK'
<1> SUFFICES ASSUME TypeOK, [Next]_vars
             PROVE  TypeOK'
  OBVIOUS
<1> USE LoopNames
<1>0. GameTypes /\ RedisTypes /\ HealthTypes /\ LoopTypes /\ HistoryTypes
  BY TypeParts
<1>1. ASSUME NEW c \in Chars, Login(c) \/ Logout(c) \/ Undock(c) \/ \E s \in Monitored : Dock(c, s)
      PROVE  TypeOK'
  <2>1. GameTypes'
    BY <1>0, <1>1 DEF Login, Logout, Undock, Dock, GameTypes
  <2>2. HistoryTypes'
    BY <1>0, <1>1, PajamaAssumption DEF Login, Logout, Undock, Dock, Move, HistoryTypes
  <2>3. UNCHANGED <<redis, health, loops>>
    BY <1>1 DEF Login, Logout, Undock, Dock
  <2>4. RedisTypes' /\ HealthTypes' /\ LoopTypes'
    BY <1>0, <2>3 DEF redis, health, loops, RedisTypes, HealthTypes, LoopTypes
  <2>5. QED
    BY <2>1, <2>2, <2>4, TypePartsNext
<1>2. CASE (\E c \in Chars : TokenDies(c)) \/ OthersFail \/ OthersSucceed \/ WindowPasses
  <2>1. GameTypes' /\ HealthTypes'
    BY <1>0, <1>2 DEF TokenDies, OthersFail, OthersSucceed, WindowPasses, game, health,
                      GameTypes, HealthTypes
  <2>2. HistoryTypes'
    BY <1>0, <1>2, FaultType
    DEF TokenDies, OthersFail, OthersSucceed, WindowPasses, history, HistoryTypes
  <2>3. UNCHANGED <<redis, loops>>
    BY <1>2 DEF TokenDies, OthersFail, OthersSucceed, WindowPasses
  <2>4. RedisTypes' /\ LoopTypes'
    BY <1>0, <2>3 DEF redis, loops, RedisTypes, LoopTypes
  <2>5. QED
    BY <2>1, <2>2, <2>4, TypePartsNext
<1>3. CASE Restart
  <2>1. LoopTypes'
    BY <1>3 DEF Restart, Nothing, LoopTypes
  <2>2. HistoryTypes'
    BY <1>0, <1>3, FaultType DEF Restart, history, HistoryTypes
  <2>3. GameTypes' /\ RedisTypes' /\ HealthTypes'
    BY <1>0, <1>3 DEF Restart, game, redis, GameTypes, RedisTypes, HealthTypes
  <2>4. QED
    BY <2>1, <2>2, <2>3, TypePartsNext
<1>4. CASE ReadRegistered \/ ReadHot \/ ReadOffline \/ ReadOnline \/ ReadDocking \/ ReadUnconfirmed
  <2>1. LoopTypes'
    <3>1. CASE ReadRegistered
      <4>1. StartAsking("classify", Chars, {}) /\ skip' \subseteq Chars
        BY <1>0, <3>1 DEF ReadRegistered, LoopTypes
      <4>2. Chars \in SUBSET Chars /\ {} \in SUBSET Monitored
        OBVIOUS
      <4>3. QED
        BY <1>0, <4>1, <4>2, AskingTypes
    <3>2. CASE ReadHot
      <4>1. PICK bad \in SUBSET {"hot"} :
              LET S == Got(hot, "hot", bad) IN
                IF S = {} THEN UNCHANGED <<phase, todo, known, found, also>>
                          ELSE StartAsking("target", S, {})
        BY <3>2 DEF ReadHot
      <4>2. Got(hot, "hot", bad) \in SUBSET Chars /\ skip' = skip
        BY <1>0, <3>2 DEF ReadHot, Got, RedisTypes
      <4>3. CASE Got(hot, "hot", bad) = {}
        BY <1>0, <4>1, <4>2, <4>3 DEF LoopTypes
      <4>4. CASE Got(hot, "hot", bad) # {}
        <5>1. StartAsking("target", Got(hot, "hot", bad), {}) /\ skip' \subseteq Chars
          BY <1>0, <4>1, <4>2, <4>4 DEF LoopTypes
        <5>2. {} \in SUBSET Monitored
          OBVIOUS
        <5>3. QED
          BY <1>0, <4>2, <5>1, <5>2, AskingTypes
      <4>5. QED
        BY <4>3, <4>4
    <3>3. CASE ReadOffline
      <4>1. PICK bad \in SUBSET {"target", "online", "structures", "docking"} :
              /\ skip' = Got(docking, "docking", bad)
              /\ StartAsking("offline", Got(target, "target", bad) \ Got(online, "online", bad),
                             Got(structures, "structures", bad))
        BY <3>3 DEF ReadOffline
      <4>2. /\ Got(docking, "docking", bad) \subseteq Chars
            /\ Got(target, "target", bad) \ Got(online, "online", bad) \in SUBSET Chars
            /\ Got(structures, "structures", bad) \in SUBSET Monitored
        BY <1>0 DEF Got, RedisTypes
      <4>3. QED
        BY <1>0, <4>1, <4>2, AskingTypes
    <3>4. CASE ReadOnline
      <4>1. StartAsking("refresh", online, {}) /\ skip' \subseteq Chars
        BY <1>0, <3>4 DEF ReadOnline, LoopTypes
      <4>2. online \in SUBSET Chars /\ {} \in SUBSET Monitored
        BY <1>0 DEF RedisTypes
      <4>3. QED
        BY <1>0, <4>1, <4>2, AskingTypes
    <3>5. CASE ReadDocking
      <4>1. PICK bad \in SUBSET {"structures"} :
              StartAsking("undock", docking, Got(structures, "structures", bad))
        BY <3>5 DEF ReadDocking
      <4>2. docking \in SUBSET Chars /\ Got(structures, "structures", bad) \in SUBSET Monitored
        BY <1>0 DEF Got, RedisTypes
      <4>3. QED
        BY <1>0, <3>5, <4>1, <4>2, AskingTypes DEF ReadDocking, LoopTypes
    <3>6. CASE ReadUnconfirmed
      <4>1. PICK bad \in SUBSET {"docking"} :
              StartAsking("dock", online \ Got(docking, "docking", bad), structures)
        BY <3>6 DEF ReadUnconfirmed
      <4>2. online \ Got(docking, "docking", bad) \in SUBSET Chars /\ structures \in SUBSET Monitored
        BY <1>0 DEF RedisTypes
      <4>3. QED
        BY <1>0, <3>6, <4>1, <4>2, AskingTypes DEF ReadUnconfirmed, LoopTypes
    <3>7. QED
      BY <1>4, <3>1, <3>2, <3>3, <3>4, <3>5, <3>6
  <2>2. HistoryTypes'
    <3>1. UNCHANGED faults \/ \E kind : Fault(kind)
      BY <1>4 DEF ReadRegistered, ReadHot, ReadOffline, ReadOnline, ReadDocking, ReadUnconfirmed, Reads
    <3>2. blind' \in BOOLEAN /\ UNCHANGED history
      BY <1>0, <1>4 DEF ReadRegistered, ReadHot, ReadOffline, ReadOnline, ReadDocking, ReadUnconfirmed,
                        HistoryTypes
    <3>3. QED
      BY <1>0, <3>1, <3>2, FaultType DEF HistoryTypes, history
  <2>3. UNCHANGED <<game, hot, online, docking, structures, health>> /\ target' \in {target, {}}
    BY <1>4 DEF ReadRegistered, ReadHot, ReadOffline, ReadOnline, ReadDocking, ReadUnconfirmed, redis
  <2>4. GameTypes' /\ RedisTypes' /\ HealthTypes'
    BY <1>0, <2>3 DEF game, health, GameTypes, RedisTypes, HealthTypes
  <2>5. QED
    BY <2>1, <2>2, <2>4, TypePartsNext
<1>5. ASSUME NEW l \in Loops, NEW c \in Chars, Refused(l, c)
      PROVE  TypeOK'
  <2>1. LoopTypes'
    BY <1>0, <1>5, AnswerTypes DEF Refused
  <2>2. HistoryTypes'
    BY <1>0, <1>5, FaultType DEF Refused, history, HistoryTypes
  <2>3. HealthTypes'
    <3>1. tokenfail[c] \in 0..Threshold /\ Threshold \in Nat \ {0}
      BY <1>0, PajamaAssumption DEF HealthTypes
    <3>2. PICK n \in 0..Threshold : tokenfail' = [tokenfail EXCEPT ![c] = n]
      BY <1>0, <1>5, <3>1 DEF Refused, HealthTypes
    <3>3. QED
      BY <1>0, <1>5, <3>2 DEF Refused, HealthTypes
  <2>4. GameTypes' /\ RedisTypes'
    BY <1>0, <1>5 DEF Refused, game, GameTypes, RedisTypes
  <2>5. QED
    BY <2>1, <2>2, <2>3, <2>4, TypePartsNext
<1>6. ASSUME NEW c \in Chars,
             \/ AskLastLogin(c) \/ AskImplants(c) \/ AskOnline(c) \/ AskStillOnline(c)
             \/ AskStillDocked(c) \/ AskDocked(c)
      PROVE  TypeOK'
  <2>1. \E l \in Loops : \E F, A \in BOOLEAN : Answer(l, c, F, A)
    BY <1>6, AskAnswers
  <2>2. LoopTypes'
    BY <1>0, <2>1, AnswerTypes
  <2>3. HistoryTypes'
    <3>1. UNCHANGED faults \/ \E kind : Fault(kind)
      BY <1>6 DEF AskLastLogin, AskImplants, AskOnline, AskStillOnline, AskStillDocked, AskDocked, Esi
    <3>2. UNCHANGED <<history, blind>>
      BY <1>6 DEF AskLastLogin, AskImplants, AskOnline, AskStillOnline, AskStillDocked, AskDocked
    <3>3. QED
      BY <1>0, <3>1, <3>2, FaultType DEF HistoryTypes, history
  <2>4. HealthTypes'
    <3>1. UNCHANGED health \/ Granted(c)
      BY <1>6 DEF AskLastLogin, AskImplants, AskOnline, AskStillOnline, AskStillDocked, AskDocked
    <3>2. QED
      BY <1>0, <3>1, GrantedTypes DEF health, HealthTypes
  <2>5. UNCHANGED <<game, redis>>
    BY <1>6 DEF AskLastLogin, AskImplants, AskOnline, AskStillOnline, AskStillDocked, AskDocked
  <2>6. GameTypes' /\ RedisTypes'
    BY <1>0, <2>5 DEF game, redis, GameTypes, RedisTypes
  <2>7. QED
    BY <2>2, <2>3, <2>4, <2>6, TypePartsNext
<1>7. CASE \/ WriteHot \/ WriteStructures \/ WriteTarget \/ WriteOnline \/ WriteArrivals
           \/ RemoveOnline \/ RemoveDocking \/ SendAlerts \/ RemoveUndocked \/ WriteDocking
  <2>1. LoopTypes'
    <3>1. \E l \in Loops : Finish(l) \/ Second(l)
      BY <1>7 DEF WriteHot, WriteStructures, WriteTarget, WriteOnline, WriteArrivals, RemoveOnline,
                  RemoveDocking, SendAlerts, RemoveUndocked, WriteDocking
    <3>2. QED
      BY <1>0, <3>1, FinishTypes, SecondTypes
  <2>2. RedisTypes'
    <3>1. /\ hot' \in {hot, found["classify"]} /\ target' \in {target, found["target"]}
          /\ online' \in {online, online \cup found["offline"], online \ found["refresh"]}
          /\ docking' \in {docking, docking \cup also["offline"], docking \ found["refresh"],
                           docking \ found["undock"], docking \cup found["dock"]}
          /\ structures' = structures \/ structures' \in SUBSET Monitored
      BY <1>7 DEF WriteHot, WriteStructures, WriteTarget, WriteOnline, WriteArrivals, RemoveOnline,
                  RemoveDocking, SendAlerts, RemoveUndocked, WriteDocking, Wrote, redis
    <3>2. \A l \in Loops : found[l] \subseteq Chars /\ also[l] \subseteq Chars
      BY <1>0 DEF LoopTypes
    <3>3. QED
      BY <1>0, <3>1, <3>2 DEF RedisTypes
  <2>3. HistoryTypes'
    <3>1. UNCHANGED faults \/ \E kind : Fault(kind)
      BY <1>7 DEF WriteHot, WriteStructures, WriteTarget, WriteOnline, WriteArrivals, RemoveOnline,
                  RemoveDocking, SendAlerts, RemoveUndocked, WriteDocking, Wrote
    <3>2. blind' \in BOOLEAN /\ UNCHANGED <<undocks, moves>>
      BY <1>0, <1>7 DEF WriteHot, WriteStructures, WriteTarget, WriteOnline, WriteArrivals, RemoveOnline,
                  RemoveDocking, SendAlerts, RemoveUndocked, WriteDocking, HistoryTypes, history
    <3>3. alerts' \in [Chars -> Nat]
      BY <1>0, <1>7 DEF WriteHot, WriteStructures, WriteTarget, WriteOnline, WriteArrivals, RemoveOnline,
                  RemoveDocking, SendAlerts, RemoveUndocked, WriteDocking, HistoryTypes, history
    <3>4. QED
      BY <1>0, <3>1, <3>2, <3>3, FaultType DEF HistoryTypes
  <2>4. UNCHANGED <<game, health>>
    BY <1>7 DEF WriteHot, WriteStructures, WriteTarget, WriteOnline, WriteArrivals, RemoveOnline,
                RemoveDocking, SendAlerts, RemoveUndocked, WriteDocking
  <2>5. GameTypes' /\ HealthTypes'
    BY <1>0, <2>4 DEF game, health, GameTypes, HealthTypes
  <2>6. QED
    BY <2>1, <2>2, <2>3, <2>5, TypePartsNext
<1>8. CASE UNCHANGED vars
  BY <1>8 DEF vars, game, redis, health, loops, history, TypeOK
<1>9. QED
  BY <1>1, <1>2, <1>3, <1>4, <1>5, <1>6, <1>7, <1>8
  DEF Next, Classify, RunTargetPoll, RunOfflineCheck, RunOnlineRefresh, RunUndockCheck,
      RunDockingPoll, Game

LEMMA InitTypes == Init => TypeOK
<1> SUFFICES ASSUME Init
             PROVE  TypeOK
  OBVIOUS
<1>1. GameTypes /\ RedisTypes /\ LoopTypes
  BY DEF Init, Nothing, GameTypes, RedisTypes, LoopTypes
<1>2. 0 \in 0..Threshold /\ 0 \in 0..MaxMoves /\ 0 \in 0..MaxFaults /\ 0 \in Nat
  BY PajamaAssumption
<1>3. HealthTypes
  BY <1>2 DEF Init, HealthTypes
<1>4. HistoryTypes
  BY <1>2 DEF Init, HistoryTypes
<1>5. QED
  BY <1>1, <1>3, <1>4, TypeParts

\* Redis, the loops and the counters of failed tokens hold what they may hold; no counter
\* passes the threshold (getMonitorToken.js).
THEOREM MonitorTypeCorrect == Spec => []TypeOK
<1>1. QED
  BY InitTypes, Typing, PTL DEF Spec
-----------------------------------------------------------------------------
(***************************************************************************)
(* No false alarm.                                                         *)
(***************************************************************************)
\* A step after which nobody more is taken for docked, no list grew, and the players and the
\* structures stayed as they were.
LEMMA Fewer ==
    ASSUME Docked, Complete, Alerted,
           UNCHANGED <<at, undocks, alerts, structures, blind>>,
           Inside' \subseteq Inside,
           \A l \in {"offline", "dock"} : known'[l] \in {known[l], {}},
           todo'["undock"] \subseteq todo["undock"],
           todo'["undock"] # {} => known'["undock"] = known["undock"],
           also'["undock"] \subseteq also["undock"]
    PROVE  Docked' /\ Complete' /\ Alerted'
<1>1. Docked'
  BY DEF Docked
<1>2. Complete'
  BY DEF Complete
<1>3. Alerted'
  BY DEF Alerted
<1>4. QED
  BY <1>1, <1>2, <1>3

\* A snapshot changes nothing in the other loops.
LEMMA Asking ==
    ASSUME LoopTypes, NEW l \in Loops, NEW S, NEW ss, StartAsking(l, S, ss)
    PROVE  /\ todo'[l] = S /\ known'[l] = ss
           /\ \A k \in Loops \ {l} : todo'[k] = todo[k] /\ known'[k] = known[k]
           /\ UNCHANGED <<found, also>>
BY DEF LoopTypes, StartAsking

LEMMA Answering ==
    ASSUME LoopTypes, NEW l \in Loops, NEW c \in Chars, NEW F \in BOOLEAN, NEW A \in BOOLEAN,
           Answer(l, c, F, A)
    PROVE  /\ todo'[l] \subseteq todo[l]
           /\ found'[l] \subseteq found[l] \cup {c} /\ (~F => found'[l] = found[l])
           /\ also'[l] \subseteq also[l] \cup {c} /\ (~A => also'[l] = also[l])
           /\ \A k \in Loops \ {l} : todo'[k] = todo[k] /\ found'[k] = found[k] /\ also'[k] = also[k]
           /\ UNCHANGED known
<1>1. todo' = [todo EXCEPT ![l] = todo[l] \ {c}] /\ UNCHANGED known
  BY DEF LoopTypes, Answer
<1>2. /\ found' = [found EXCEPT ![l] = IF F THEN found[l] \cup {c} ELSE found[l]]
      /\ also' = [also EXCEPT ![l] = IF A THEN also[l] \cup {c} ELSE also[l]]
  BY DEF LoopTypes, Answer
<1>3. todo'[l] = todo[l] \ {c} /\ \A k \in Loops \ {l} : todo'[k] = todo[k]
  BY <1>1 DEF LoopTypes
<1>4. /\ found'[l] = IF F THEN found[l] \cup {c} ELSE found[l]
      /\ also'[l] = IF A THEN also[l] \cup {c} ELSE also[l]
      /\ \A k \in Loops \ {l} : found'[k] = found[k] /\ also'[k] = also[k]
  BY <1>2 DEF LoopTypes
<1>5. found'[l] \subseteq found[l] \cup {c} /\ also'[l] \subseteq also[l] \cup {c}
  BY <1>4, Zenon
<1>6. QED
  BY <1>1, <1>3, <1>4, <1>5, Zenon

LEMMA Finishing ==
    ASSUME LoopTypes, NEW l \in Loops, Finish(l)
    PROVE  /\ known'[l] = {} /\ found'[l] = {} /\ also'[l] = {}
           /\ \A k \in Loops \ {l} : known'[k] = known[k] /\ found'[k] = found[k] /\ also'[k] = also[k]
           /\ UNCHANGED todo
BY DEF LoopTypes, Finish

\* An answer that takes nobody for docked and alerts nobody.
LEMMA AnswerFewer ==
    ASSUME LoopTypes, Docked, Complete, Alerted,
           NEW l \in Loops, NEW c \in Chars, NEW F \in BOOLEAN, Answer(l, c, F, FALSE),
           l # "dock" \/ ~F,
           docking' \subseteq docking, UNCHANGED <<at, undocks, alerts, structures, blind>>
    PROVE  Docked' /\ Complete' /\ Alerted'
<1> USE LoopNames
<1>1. /\ todo'["undock"] \subseteq todo["undock"] /\ UNCHANGED known
      /\ also'["undock"] \subseteq also["undock"] /\ also'["offline"] \subseteq also["offline"]
      /\ found'["dock"] \subseteq found["dock"]
  <2>1. /\ todo'[l] \subseteq todo[l]
        /\ (~F => found'[l] = found[l]) /\ also'[l] = also[l]
        /\ \A k \in Loops \ {l} : todo'[k] = todo[k] /\ found'[k] = found[k] /\ also'[k] = also[k]
        /\ UNCHANGED known
    <3>1. also' = [also EXCEPT ![l] = also[l]] /\ (~F => found' = [found EXCEPT ![l] = found[l]])
      BY DEF LoopTypes, Answer
    <3>2. also'[l] = also[l] /\ (~F => found'[l] = found[l])
      BY <3>1 DEF LoopTypes
    <3>3. /\ todo'[l] \subseteq todo[l] /\ UNCHANGED known
          /\ \A k \in Loops \ {l} : todo'[k] = todo[k] /\ found'[k] = found[k] /\ also'[k] = also[k]
      BY DEF LoopTypes, Answer
    <3>4. QED
      BY <3>2, <3>3, Zenon
  <2>2. QED
    BY <2>1
<1>2. Inside' \subseteq Inside
  BY <1>1 DEF Inside
<1>3. QED
  BY <1>1, <1>2, Fewer

LEMMA Waiting_Step == TypeOK /\ Waiting /\ [Next]_vars => Waiting'
<1> SUFFICES ASSUME TypeOK, Waiting, [Next]_vars
             PROVE  Waiting'
  OBVIOUS
<1> USE LoopNames
<1>0. LoopTypes
  BY TypeParts
<1>1. CASE UNCHANGED <<todo, phase>>
  BY <1>1 DEF Waiting
<1>2. CASE Restart
  BY <1>2 DEF Restart, Nothing, Waiting
<1>3. ASSUME NEW l \in Loops, NEW S, NEW ss, StartAsking(l, S, ss)
      PROVE  Waiting'
  BY <1>0, <1>3 DEF StartAsking, LoopTypes, Waiting
<1>4. ASSUME NEW l \in Loops, NEW c \in Chars, NEW F \in BOOLEAN, NEW A \in BOOLEAN, Answer(l, c, F, A)
      PROVE  Waiting'
  BY <1>0, <1>4 DEF Answer, LoopTypes, Waiting
<1>5. ASSUME NEW l \in Loops, phase[l] \in {"write", "second"}, Finish(l) \/ Second(l)
      PROVE  Waiting'
  BY <1>0, <1>5 DEF Finish, Second, LoopTypes, Waiting
<1>6. CASE Game \/ (\E c \in Chars : TokenDies(c)) \/ OthersFail \/ OthersSucceed \/ WindowPasses \/ UNCHANGED vars
  BY <1>1, <1>6 DEF Game, Login, Logout, Dock, Undock, TokenDies, OthersFail, OthersSucceed,
                    WindowPasses, vars, loops
<1>7. CASE ReadRegistered \/ ReadOffline \/ ReadOnline \/ ReadDocking \/ ReadUnconfirmed
  BY <1>3, <1>7 DEF ReadRegistered, ReadOffline, ReadOnline, ReadDocking, ReadUnconfirmed
<1>8. CASE ReadHot
  BY <1>1, <1>3, <1>8 DEF ReadHot
<1>9. ASSUME NEW l \in Loops, NEW c \in Chars, Refused(l, c)
      PROVE  Waiting'
  BY <1>4, <1>9 DEF Refused
<1>10. ASSUME NEW c \in Chars,
              \/ AskLastLogin(c) \/ AskImplants(c) \/ AskOnline(c) \/ AskStillOnline(c)
              \/ AskStillDocked(c) \/ AskDocked(c)
       PROVE  Waiting'
  <2>1. \E l \in Loops : \E F, A \in BOOLEAN : Answer(l, c, F, A)
    BY <1>10, AskAnswers
  <2>2. QED
    BY <1>4, <2>1
<1>11. CASE \/ WriteHot \/ WriteStructures \/ WriteTarget \/ WriteOnline \/ WriteArrivals
            \/ RemoveOnline \/ RemoveDocking \/ SendAlerts \/ RemoveUndocked \/ WriteDocking
  BY <1>5, <1>11 DEF WriteHot, WriteStructures, WriteTarget, WriteOnline, WriteArrivals, RemoveOnline,
                  RemoveDocking, SendAlerts, RemoveUndocked, WriteDocking
<1>12. QED
  BY <1>2, <1>6, <1>7, <1>8, <1>9, <1>10, <1>11
  DEF Next, Classify, RunTargetPoll, RunOfflineCheck, RunOnlineRefresh, RunUndockCheck, RunDockingPoll

LEMMA NoFalseAlarm_Step == PjInv /\ [Next]_vars => Docked' /\ Complete' /\ Alerted'
<1> SUFFICES ASSUME PjInv, [Next]_vars
             PROVE  Docked' /\ Complete' /\ Alerted'
  OBVIOUS
<1> USE LoopNames
<1>0. /\ TypeOK /\ Docked /\ Complete /\ Alerted /\ Waiting
      /\ GameTypes /\ RedisTypes /\ HealthTypes /\ LoopTypes /\ HistoryTypes
  BY TypeParts DEF PjInv
<1>1. ASSUME NEW c \in Chars, Login(c) \/ Logout(c)
      PROVE  Docked' /\ Complete' /\ Alerted'
  <2>1. UNCHANGED <<at, undocks, alerts, structures, blind, docking, todo, known, found, also>>
    BY <1>1 DEF Login, Logout, redis, loops
  <2>2. QED
    BY <1>0, <2>1, Fewer DEF Inside
<1>2. ASSUME NEW c \in Chars, NEW s \in Monitored, Dock(c, s)
      PROVE  Docked' /\ Complete' /\ Alerted'
  <2>1. /\ UNCHANGED <<undocks, alerts, structures, blind, docking, todo, known, found, also>>
        /\ at' = [at EXCEPT ![c] = s] /\ Inside' = Inside
    BY <1>2 DEF Dock, redis, loops, Inside
  <2>2. Docked'
    BY <1>0, <2>1 DEF Docked, GameTypes
  <2>3. Complete' /\ Alerted'
    BY <1>0, <2>1 DEF Complete, Alerted
  <2>4. QED
    BY <2>2, <2>3
<1>3. ASSUME NEW c \in Chars, Undock(c)
      PROVE  Docked' /\ Complete' /\ Alerted'
  <2>1. /\ UNCHANGED <<alerts, structures, blind, docking, todo, known, found, also>>
        /\ at' = [at EXCEPT ![c] = Space] /\ undocks' = [undocks EXCEPT ![c] = undocks[c] + 1]
        /\ Inside' = Inside
    BY <1>3 DEF Undock, redis, loops, Inside
  <2>2. \A d \in Chars : undocks[d] \in Nat /\ undocks'[d] = IF d = c THEN undocks[d] + 1 ELSE undocks[d]
    BY <1>0, <2>1 DEF HistoryTypes
  <2>3. Docked'
    BY <1>0, <2>1, <2>2 DEF Docked, GameTypes
  <2>4. Complete' /\ Alerted'
    BY <1>0, <2>1, <2>2 DEF Complete, Alerted
  <2>5. QED
    BY <2>3, <2>4
<1>4. CASE \/ (\E c \in Chars : TokenDies(c)) \/ OthersFail \/ OthersSucceed \/ WindowPasses
           \/ UNCHANGED vars
  <2>1. UNCHANGED <<at, undocks, alerts, structures, blind, docking, todo, known, found, also>>
    BY <1>4 DEF TokenDies, OthersFail, OthersSucceed, WindowPasses, vars, game, redis, loops, history
  <2>2. QED
    BY <1>0, <2>1, Fewer DEF Inside
<1>5. CASE Restart
  <2>1. /\ UNCHANGED <<at, undocks, alerts, structures, blind, docking>>
        /\ \A l \in Loops : todo'[l] = {} /\ known'[l] = {} /\ found'[l] = {} /\ also'[l] = {}
    BY <1>5 DEF Restart, Nothing, game, redis, history
  <2>2. Inside' \subseteq Inside
    BY <2>1 DEF Inside
  <2>3. QED
    BY <1>0, <2>1, <2>2, Fewer
<1>6. CASE ReadRegistered \/ ReadHot \/ ReadOnline
  <2>1. /\ UNCHANGED <<at, undocks, alerts, structures, blind, docking, found, also>>
        /\ todo'["undock"] = todo["undock"]
        /\ \A l \in {"offline", "dock", "undock"} : known'[l] = known[l]
    BY <1>0, <1>6, Asking DEF ReadRegistered, ReadHot, ReadOnline, game, redis, history
  <2>2. Inside' = Inside
    BY <2>1 DEF Inside
  <2>3. QED
    BY <1>0, <2>1, <2>2, Fewer
<1>7. CASE ReadOffline \/ ReadUnconfirmed
  <2>1. /\ UNCHANGED <<at, undocks, alerts, structures, blind, docking, found, also>>
        /\ todo'["undock"] = todo["undock"] /\ known'["undock"] = known["undock"]
        /\ \A l \in {"offline", "dock"} : known'[l] \in {known[l], structures, {}}
    <3>1. CASE ReadOffline
      <4>1. PICK bad \in SUBSET {"target", "online", "structures", "docking"} :
              StartAsking("offline", Got(target, "target", bad) \ Got(online, "online", bad),
                          Got(structures, "structures", bad))
        BY <3>1 DEF ReadOffline
      <4>2. Got(structures, "structures", bad) \in {structures, {}}
        BY DEF Got
      <4>3. QED
        BY <1>0, <3>1, <4>1, <4>2, Asking DEF ReadOffline, game, redis, history
    <3>2. CASE ReadUnconfirmed
      <4>1. PICK bad \in SUBSET {"docking"} :
              StartAsking("dock", online \ Got(docking, "docking", bad), structures)
        BY <3>2 DEF ReadUnconfirmed
      <4>2. QED
        BY <1>0, <3>2, <4>1, Asking DEF ReadUnconfirmed, game, redis, history
    <3>3. QED
      BY <1>7, <3>1, <3>2
  <2>2. Inside' = Inside
    BY <2>1 DEF Inside
  <2>3. Docked' /\ Alerted'
    BY <1>0, <2>1, <2>2 DEF Docked, Alerted
  <2>4. Complete'
    BY <1>0, <2>1, <2>2 DEF Complete
  <2>5. QED
    BY <2>3, <2>4
<1>8. CASE ReadDocking
  <2>1. PICK bad \in SUBSET {"structures"} :
          /\ StartAsking("undock", docking, Got(structures, "structures", bad))
          /\ blind' = (blind \/ bad # {})
    BY <1>8 DEF ReadDocking
  <2>2. /\ UNCHANGED <<at, undocks, alerts, structures, docking, found, also>>
        /\ todo'["undock"] = docking
        /\ \A l \in {"offline", "dock"} : known'[l] = known[l]
        /\ known'["undock"] = Got(structures, "structures", bad)
    BY <1>0, <1>8, <2>1, Asking DEF ReadDocking, game, redis, history
  <2>3. Inside' \subseteq Inside
    BY <2>2 DEF Inside
  <2>4. Docked' /\ Alerted'
    BY <1>0, <2>1, <2>2, <2>3 DEF Docked, Alerted
  <2>5. ~blind' => ~blind /\ known'["undock"] = structures
    BY <2>1, <2>2 DEF Got
  <2>6. docking \subseteq Inside
    BY DEF Inside
  <2>7. Complete'
    BY <1>0, <2>2, <2>3, <2>5, <2>6 DEF Complete
  <2>8. QED
    BY <2>4, <2>7
<1>9. ASSUME NEW l \in Loops, NEW c \in Chars, Refused(l, c)
      PROVE  Docked' /\ Complete' /\ Alerted'
  <2>1. /\ UNCHANGED <<at, undocks, alerts, structures, blind>> /\ docking' \subseteq docking
        /\ Answer(l, c, FALSE, FALSE)
    BY <1>9 DEF Refused, game, history
  <2>2. QED
    BY <1>0, <2>1, AnswerFewer
<1>10. ASSUME NEW c \in Chars, AskLastLogin(c) \/ AskImplants(c) \/ AskStillOnline(c)
       PROVE  Docked' /\ Complete' /\ Alerted'
  <2>1. UNCHANGED <<at, undocks, alerts, structures, blind, docking>>
    BY <1>10 DEF AskLastLogin, AskImplants, AskStillOnline, game, redis, history
  <2>2. PICK l \in {"classify", "target", "refresh"} : \E F \in BOOLEAN : Answer(l, c, F, FALSE)
    BY <1>10 DEF AskLastLogin, AskImplants, AskStillOnline
  <2>3. QED
    BY <1>0, <2>1, <2>2, AnswerFewer
<1>11. ASSUME NEW c \in Chars, AskOnline(c) \/ AskDocked(c)
       PROVE  Docked' /\ Complete' /\ Alerted'
  <2>1. UNCHANGED <<at, undocks, alerts, structures, blind, docking>>
    BY <1>11 DEF AskOnline, AskDocked, game, redis, history
  <2>2. PICK l \in {"offline", "dock"}, F \in BOOLEAN, A \in BOOLEAN :
          Answer(l, c, F, A) /\ (A => l = "offline") /\ (A \/ (F /\ l = "dock") => at[c] \in known[l])
    <3>1. CASE AskOnline(c)
      BY <3>1 DEF AskOnline
    <3>2. CASE AskDocked(c)
      BY <3>2 DEF AskDocked
    <3>3. QED
      BY <1>11, <3>1, <3>2
  <2>3. /\ UNCHANGED known /\ todo'["undock"] \subseteq todo["undock"]
        /\ also'["undock"] \subseteq also["undock"]
        /\ \A x : x \in found'["dock"] \cup also'["offline"] =>
              x \in found["dock"] \cup also["offline"] \/ (x = c /\ at[c] \in known[l])
    <3>1. l \in Loops /\ Answer(l, c, F, A)
      BY <2>2
    <3>2. /\ todo'[l] \subseteq todo[l] /\ UNCHANGED known
          /\ found'[l] \subseteq found[l] \cup {c} /\ also'[l] \subseteq also[l] \cup {c}
          /\ \A k \in Loops \ {l} : todo'[k] = todo[k] /\ found'[k] = found[k] /\ also'[k] = also[k]
      BY <1>0, <3>1, Answering
    <3>3. /\ also'[l] = also[l] \/ (l = "offline" /\ at[c] \in known[l])
          /\ l = "dock" => found'[l] = found[l] \/ at[c] \in known[l]
      <4>1. (~F => found'[l] = found[l]) /\ (~A => also'[l] = also[l])
        BY <1>0, <3>1, Answering
      <4>2. CASE A
        BY <2>2, <4>2, Zenon
      <4>3. CASE ~A
        BY <2>2, <4>1, <4>3, Zenon
      <4>4. QED
        BY <4>2, <4>3, Zenon
    <3>4. CASE l = "offline"
      BY <3>2, <3>3, <3>4
    <3>5. CASE l = "dock"
      BY <3>2, <3>3, <3>5
    <3>6. QED
      BY <2>2, <3>4, <3>5
  <2>4. Inside' \subseteq Inside \/ (at[c] \in known[l] /\ Inside' \subseteq Inside \cup {c})
    BY <2>1, <2>3 DEF Inside
  <2>5. known[l] \subseteq Monitored
    BY <1>0, <2>2 DEF LoopTypes
  <2>6. Docked'
    BY <1>0, <2>1, <2>4, <2>5 DEF Docked
  <2>7. Complete'
    BY <1>0, <2>1, <2>2, <2>3, <2>4 DEF Complete
  <2>8. Alerted'
    BY <1>0, <2>1, <2>3 DEF Alerted
  <2>9. QED
    BY <2>6, <2>7, <2>8
<1>12. ASSUME NEW c \in Chars, AskStillDocked(c)
       PROVE  Docked' /\ Complete' /\ Alerted'
  <2>1. UNCHANGED <<at, undocks, alerts, structures, blind, docking>> /\ c \in todo["undock"]
    BY <1>12 DEF AskStillDocked, game, redis, history
  <2>2. PICK F \in BOOLEAN, A \in BOOLEAN :
          Answer("undock", c, F, A) /\ (A => at[c] \notin known["undock"])
    BY <1>12 DEF AskStillDocked
  <2>3. /\ UNCHANGED known /\ todo'["undock"] \subseteq todo["undock"]
        /\ found'["dock"] = found["dock"] /\ also'["offline"] = also["offline"]
        /\ \A x : x \in also'["undock"] => x \in also["undock"] \/ (x = c /\ at[c] \notin known["undock"])
    <3>1. /\ todo'["undock"] \subseteq todo["undock"] /\ UNCHANGED known
          /\ also'["undock"] \subseteq also["undock"] \cup {c}
          /\ \A k \in Loops \ {"undock"} : found'[k] = found[k] /\ also'[k] = also[k]
      BY <1>0, <2>2, Answering
    <3>2. also'["undock"] = also["undock"] \/ at[c] \notin known["undock"]
      <4>1. ~A => also'["undock"] = also["undock"]
        BY <1>0, <2>2, Answering
      <4>2. QED
        BY <2>2, <4>1, Zenon
    <3>3. QED
      BY <3>1, <3>2
  <2>4. Inside' \subseteq Inside /\ c \in Inside
    BY <2>1, <2>3 DEF Inside
  <2>5. Docked' /\ Complete'
    BY <1>0, <2>1, <2>3, <2>4 DEF Docked, Complete
  <2>6. ~blind /\ at[c] \notin known["undock"] => undocks[c] > 0
    <3>1. ~blind => known["undock"] = Monitored
      BY <1>0, <2>1 DEF Complete
    <3>2. undocks[c] \in Nat
      BY <1>0 DEF HistoryTypes
    <3>3. QED
      BY <1>0, <2>4, <3>1, <3>2 DEF Docked
  <2>7. Alerted'
    BY <1>0, <2>1, <2>3, <2>6 DEF Alerted
  <2>8. QED
    BY <2>5, <2>7
<1>13. CASE SendAlerts
  <2>1. /\ UNCHANGED <<at, undocks, structures, blind, docking, todo, known, found, also>>
        /\ \A c \in Chars : alerts'[c] > 0 => c \in also["undock"] \/ alerts[c] > 0
    BY <1>13 DEF SendAlerts, Second, game, redis
  <2>2. Inside' = Inside
    BY <2>1 DEF Inside
  <2>3. Docked' /\ Complete'
    BY <1>0, <2>1, <2>2 DEF Docked, Complete
  <2>4. Alerted'
    BY <1>0, <2>1 DEF Alerted
  <2>5. QED
    BY <2>3, <2>4
<1>14. CASE WriteStructures
  <2>1. /\ UNCHANGED <<at, undocks, alerts, docking>> /\ Finish("classify")
        /\ ~blind' => ~blind /\ structures' = Monitored
    BY <1>14 DEF WriteStructures, game, history
  <2>2. /\ UNCHANGED todo
        /\ \A l \in {"offline", "dock", "undock"} : known'[l] = known[l] /\ found'[l] = found[l] /\ also'[l] = also[l]
    BY <1>0, <2>1, Finishing
  <2>3. Inside' = Inside
    BY <2>1, <2>2 DEF Inside
  <2>4. Docked' /\ Complete'
    BY <1>0, <2>1, <2>2, <2>3 DEF Docked, Complete
  <2>5. Alerted'
    BY <1>0, <2>1, <2>2 DEF Alerted
  <2>6. QED
    BY <2>4, <2>5
<1>15. CASE WriteHot \/ WriteOnline \/ RemoveOnline
  <2>1. UNCHANGED <<at, undocks, alerts, structures, blind, docking, todo, known, found, also>>
    BY <1>15 DEF WriteHot, WriteOnline, RemoveOnline, Second, game, history
  <2>2. QED
    BY <1>0, <2>1, Fewer DEF Inside
<1>16. CASE WriteTarget \/ WriteArrivals \/ RemoveDocking \/ RemoveUndocked \/ WriteDocking
  <2>1. UNCHANGED <<at, undocks, alerts, structures, blind>>
    BY <1>16 DEF WriteTarget, WriteArrivals, RemoveDocking, RemoveUndocked, WriteDocking, game, history
  <2>2. PICK l \in Loops :
          /\ Finish(l) /\ phase[l] # "ask"
          /\ docking' \subseteq docking \cup (IF l = "offline" THEN also[l] ELSE {})
                                     \cup (IF l = "dock" THEN found[l] ELSE {})
    BY <1>16 DEF WriteTarget, WriteArrivals, RemoveDocking, RemoveUndocked, WriteDocking, Wrote
  <2>3. /\ UNCHANGED todo
        /\ \A k \in Loops : /\ known'[k] \in {known[k], {}}
                            /\ found'[k] \subseteq found[k] /\ also'[k] \subseteq also[k]
        /\ l # "undock" => known'["undock"] = known["undock"]
        /\ l = "undock" => todo["undock"] = {}
    BY <1>0, <2>2, Finishing DEF Waiting
  <2>4. Inside' \subseteq Inside
    BY <2>2, <2>3 DEF Inside
  <2>5. QED
    BY <1>0, <2>1, <2>3, <2>4, Fewer
<1>17. QED
  BY <1>1, <1>2, <1>3, <1>4, <1>5, <1>6, <1>7, <1>8, <1>9, <1>10, <1>11, <1>12, <1>13, <1>14,
     <1>15, <1>16
  DEF Next, Classify, RunTargetPoll, RunOfflineCheck, RunOnlineRefresh, RunUndockCheck,
      RunDockingPoll, Game

\* As long as the monitor has the full list of structures, nobody who stayed docked gets a
\* window, whatever the six loops overwrite and however late they write (undockPoller.js).
THEOREM NobodyAlarmedFalsely == Spec => []NoFalseAlarm
<1>1. Init => PjInv
  <2> SUFFICES ASSUME Init
               PROVE  PjInv
    OBVIOUS
  <2>1. TypeOK
    BY InitTypes
  <2>2. Inside = {} /\ Docked /\ Complete /\ Alerted /\ Waiting
    BY LoopNames DEF Init, Nothing, Inside, Docked, Complete, Alerted, Waiting
  <2>3. QED
    BY <2>1, <2>2 DEF PjInv
<1>2. PjInv /\ [Next]_vars => PjInv'
  BY Typing, Waiting_Step, NoFalseAlarm_Step DEF PjInv
<1>3. PjInv => NoFalseAlarm
  BY DEF PjInv, Alerted, NoFalseAlarm
<1>4. QED
  BY <1>1, <1>2, <1>3, PTL DEF Spec

=============================================================================
