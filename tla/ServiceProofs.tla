--------------------------- MODULE ServiceProofs ----------------------------
(***************************************************************************)
(* Safety of the services beside the command path, for every number of     *)
(* requests, links, browsers, pilots, goods, orders, items and commands,   *)
(* every length of a queue, and any number of faults.                      *)
(***************************************************************************)
EXTENDS WebLogin, Autocomplete, FleetCommand, MarketCache, StationOrders, HangarStock,
        DevBridge, FunctionTheorems, FiniteSetTheorems, WellFoundedInduction, TLAPS

(***************************************************************************)
(* The login.  A token is good for one login because a visit that has a    *)
(* payload took it out of Redis in the same step, and a token is issued    *)
(* once: whoever reads it later finds nothing.                             *)
(***************************************************************************)
WlInv ==
    /\ WlTypeOK
    /\ wlKey \subseteq wlIssued
    /\ \A v \in Visits :
        /\ wlPayload[v] \in wlIssued \cup {Nobody}
        /\ wlPayload[v] \notin wlKey
        /\ wlPc[v] = "idle" => wlPayload[v] = Nobody
        /\ wlCookie[v] \in {Nobody, wlPayload[v]}
    /\ \A v, u \in Visits : wlPayload[v] # Nobody /\ wlPayload[v] = wlPayload[u] => v = u

LEMMA WlInit_Inv == WlInit => WlInv
BY WebLoginAssumption, FaultsAssumption DEF WlInit, WlInv, WlTypeOK

LEMMA WlNext_Inv == WlInv /\ [WlNext]_wlVars => WlInv'
<1> SUFFICES ASSUME WlInv, [WlNext]_wlVars
             PROVE  WlInv'
  OBVIOUS
<1> USE WebLoginAssumption, FaultsAssumption DEF WlInv, WlTypeOK, Fault, NoFault
<1>1. ASSUME NEW l \in Links, WlIssue(l)
      PROVE  WlInv'
  BY <1>1 DEF WlIssue
<1>2. ASSUME NEW l \in Links, WlExpire(l)
      PROVE  WlInv'
  BY <1>2 DEF WlExpire
<1>3. ASSUME NEW v \in Visits, NEW l \in Links, WlConsume(v, l)
      PROVE  WlInv'
  <2>1. CASE l \in wlKey
    BY <1>3, <2>1 DEF WlConsume, WlTake
  <2>2. CASE l \notin wlKey
    BY <1>3, <2>2 DEF WlConsume, WlTake
  <2>3. QED
    BY <2>1, <2>2
<1>4. ASSUME NEW v \in Visits, WlRedirect(v)
      PROVE  WlInv'
  BY <1>4 DEF WlRedirect
<1>5. ASSUME NEW v \in Visits, WlFail(v)
      PROVE  WlInv'
  BY <1>5 DEF WlFail
<1>6. ASSUME NEW v \in Visits, WlSessionEnds(v)
      PROVE  WlInv'
  BY <1>6 DEF WlSessionEnds
<1>7. CASE UNCHANGED wlVars
  BY <1>7 DEF wlVars
<1>8. QED
  BY <1>1, <1>2, <1>3, <1>4, <1>5, <1>6, <1>7 DEF WlNext

\* A link logs in one browser at most, and none before it was issued, however many requests
\* with it run at the same time and whatever Redis answers (magicLink.js:43, GETDEL).
THEOREM OneLogin == WlSpec => []WlOneLogin
<1>1. WlInv => WlOneLogin
  BY DEF WlInv, WlOneLogin
<1>2. QED
  BY WlInit_Inv, WlNext_Inv, <1>1, PTL DEF WlSpec

(***************************************************************************)
(* The suggestions.  Whatever is in the key of a request, or about to be   *)
(* set there, was found for that request.                                  *)
(***************************************************************************)
AcInv ==
    /\ AcTypeOK
    /\ AcOwnChoices
    /\ \A k \in Keystrokes : acKey[k] \in {k, Empty, Nothing}
    /\ acFound # Nothing => acTaken # Nothing /\ acFound \in {acTaken, Empty}

LEMMA AcInit_Inv == AcInit => AcInv
BY AutocompleteAssumption, FaultsAssumption
DEF AcInit, AcInv, AcTypeOK, AcOwnChoices

LEMMA AcNext_Inv == AcInv /\ [AcNext]_acVars => AcInv'
<1> SUFFICES ASSUME AcInv, [AcNext]_acVars
             PROVE  AcInv'
  OBVIOUS
<1> USE AutocompleteAssumption, FaultsAssumption
    DEF AcInv, AcTypeOK, AcOwnChoices, Fault, NoFault, acMaster, acWorker, ResKey, Respond, AcIdle
<1>1. ASSUME NEW k \in Keystrokes, AcRefuse(k)
      PROVE  AcInv'
  BY <1>1 DEF AcRefuse
<1>2. ASSUME NEW k \in Keystrokes, AcPush(k)
      PROVE  AcInv'
  BY <1>2 DEF AcPush
<1>3. ASSUME NEW k \in Keystrokes, AcHit(k)
      PROVE  AcInv'
  BY <1>3 DEF AcHit
<1>4. ASSUME NEW k \in Keystrokes, AcDeadline(k)
      PROVE  AcInv'
  BY <1>4 DEF AcDeadline
<1>5. ASSUME NEW k \in Keystrokes, AcRedisFails(k)
      PROVE  AcInv'
  <2>1. acList' \in Seq(Keystrokes)
    BY <1>5, Append(acList, k) \in Seq(Keystrokes) DEF AcRedisFails
  <2>2. faults' \in 0..MaxFaults
    BY <1>5 DEF AcRedisFails
  <2>3. acShown' = [acShown EXCEPT ![k] = Empty] /\ acPc' = [acPc EXCEPT ![k] = "answered"]
    BY <1>5 DEF AcRedisFails
  <2>4. UNCHANGED <<acDel, acKey, acTaken, acFound>>
    BY <1>5 DEF AcRedisFails
  <2>5. QED
    BY <2>1, <2>2, <2>3, <2>4
<1>6. ASSUME NEW k \in Keystrokes, AcDelete(k)
      PROVE  AcInv'
  BY <1>6 DEF AcDelete
<1>7. ASSUME NEW k \in Keystrokes, AcExpire(k)
      PROVE  AcInv'
  BY <1>7 DEF AcExpire
<1>8. CASE AcMasterCrash
  BY <1>8 DEF AcMasterCrash
<1>9. CASE AcPop
  <2>1. Head(acList) \in Keystrokes /\ Tail(acList) \in Seq(Keystrokes)
    BY <1>9 DEF AcPop
  <2>2. QED
    BY <1>9, <2>1 DEF AcPop
<1>10. CASE AcExecute
  BY <1>10 DEF AcExecute
<1>11. CASE AcSet
  BY <1>11 DEF AcSet
<1>12. CASE AcLose
  BY <1>12 DEF AcLose
<1>13. CASE UNCHANGED acVars
  BY <1>13 DEF acVars
<1>14. QED
  BY <1>1, <1>2, <1>3, <1>4, <1>5, <1>6, <1>7, <1>8, <1>9, <1>10, <1>11, <1>12, <1>13 DEF AcNext

\* No request is ever shown the choices of another one, in whatever order answers, deadlines,
\* deletions and expiries come (handleAutocomplete.js:35, autocompleteConsumer.js:78).
THEOREM OwnChoices == AcSpec => []AcOwnChoices
<1>1. AcInv => AcOwnChoices
  BY DEF AcInv
<1>2. QED
  BY AcInit_Inv, AcNext_Inv, <1>1, PTL DEF AcSpec

(***************************************************************************)
(* The fleet.  Without a fault nobody left, and whoever empties the seat   *)
(* goes on to fill it; the seat a command fills stops the others.          *)
(***************************************************************************)
FcInv ==
    /\ FcTypeOK
    /\ FcSeatFilled
    /\ faults = 0 => fcMembers = Pilots
    /\ \A c \in FcCmds : fcPc[c] = "demote" => fcFound[c] \in Pilots

LEMMA FcInit_Inv == FcInit => FcInv
BY FleetAssumption, FaultsAssumption DEF FcInit, FcInv, FcTypeOK, FcSeatFilled

LEMMA FcNext_Inv == FcInv /\ [FcNext]_fcVars => FcInv'
<1> SUFFICES ASSUME FcInv, [FcNext]_fcVars
             PROVE  FcInv'
  OBVIOUS
<1> USE FleetAssumption, FaultsAssumption
    DEF FcInv, FcTypeOK, FcSeatFilled, Fault, NoFault, FcGo, Seat, CanSeat, Unseat
<1>1. ASSUME NEW p \in Pilots, Leaves(p)
      PROVE  FcInv'
  BY <1>1 DEF Leaves
<1>2. ASSUME NEW p \in Pilots, HandsOver(p)
      PROVE  FcInv'
  BY <1>2 DEF HandsOver
<1>3. ASSUME NEW c \in FcCmds, FcFleet(c)
      PROVE  FcInv'
  BY <1>3 DEF FcFleet
<1>4. ASSUME NEW c \in FcCmds, FcReadMembers(c)
      PROVE  FcInv'
  BY <1>4 DEF FcReadMembers, FcAfterMembers
<1>5. ASSUME NEW c \in FcCmds, FcDemote(c)
      PROVE  FcInv'
  BY <1>5 DEF FcDemote
<1>6. ASSUME NEW c \in FcCmds, FcPromote(c)
      PROVE  FcInv'
  BY <1>6 DEF FcPromote
<1>7. ASSUME NEW c \in FcCmds, FcFails(c)
      PROVE  FcInv'
  BY <1>7 DEF FcFails
<1>8. CASE UNCHANGED fcVars
  BY <1>8 DEF fcVars
<1>9. QED
  BY <1>1, <1>2, <1>3, <1>4, <1>5, <1>6, <1>7, <1>8 DEF FcNext

\* Without an error of ESI and without a player who leaves, the fleet has a commander, or a
\* command that is about to promote one (fleetCommander.js:247).
THEOREM SeatFilled == FcSpec => []FcSeatFilled
<1>1. FcInv => FcSeatFilled
  BY DEF FcInv
<1>2. QED
  BY FcInit_Inv, FcNext_Inv, <1>1, PTL DEF FcSpec
-----------------------------------------------------------------------------
\* What is left of a queue when its first entry starts.
LEMMA QueueFacts ==
    ASSUME NEW S, NEW s \in Seq(S)
    PROVE  /\ s # <<>> =>
                /\ Head(s) \in S /\ Tail(s) \in Seq(S) /\ Tail(s) # s
                /\ 1 \in DOMAIN s /\ Head(s) = s[1]
                /\ \A k \in DOMAIN Tail(s) : k + 1 \in DOMAIN s /\ Tail(s)[k] = s[k + 1] /\ k \in Nat \ {0}
           /\ \A e \in S :
                /\ Append(s, e) \in Seq(S)
                /\ \A k \in DOMAIN Append(s, e) :
                    \/ k \in DOMAIN s /\ Append(s, e)[k] = s[k]
                    \/ k = Len(s) + 1 /\ k \notin DOMAIN s /\ Append(s, e)[k] = e
<1>1. ASSUME s # <<>>
      PROVE  /\ Head(s) \in S /\ Tail(s) \in Seq(S) /\ Len(Tail(s)) = Len(s) - 1
             /\ Len(s) \in Nat \ {0} /\ Head(s) = s[1] /\ DOMAIN s = 1..Len(s)
             /\ DOMAIN Tail(s) = 1..Len(s) - 1
             /\ \A k \in 1..Len(s) - 1 : Tail(s)[k] = s[k + 1]
  BY <1>1
<1>2. ASSUME s # <<>>
      PROVE  Tail(s) # s
  <2>1. Len(s) \in DOMAIN s /\ Len(s) \notin DOMAIN Tail(s)
    BY <1>1, <1>2
  <2>2. QED
    BY <2>1, Zenon
<1>3. ASSUME NEW e \in S
      PROVE  /\ Append(s, e) \in Seq(S) /\ Len(s) \in Nat /\ DOMAIN s = 1..Len(s)
             /\ DOMAIN Append(s, e) = 1..Len(s) + 1
             /\ \A k \in 1..Len(s) : Append(s, e)[k] = s[k]
             /\ Append(s, e)[Len(s) + 1] = e
  OBVIOUS
<1>4. ASSUME NEW e \in S, NEW k \in DOMAIN Append(s, e)
      PROVE  \/ k \in DOMAIN s /\ Append(s, e)[k] = s[k]
             \/ k = Len(s) + 1 /\ k \notin DOMAIN s /\ Append(s, e)[k] = e
  BY <1>3, <1>4
<1>5. QED
  BY <1>1, <1>2, <1>3, <1>4

-----------------------------------------------------------------------------
(***************************************************************************)
(* The invariant.  Who fetches a price, or is about to, has its lock, as   *)
(* long as none ran out; what waits in a worker's queue has the lock       *)
(* already and waits there once, and is an item of the worker's command.   *)
(***************************************************************************)
Steps == {"idle", "get", "lock", "wait", "done"} \cup Holding

McTypes ==
    /\ mcLock \in [Goods -> MarketWorkers \cup {Unlocked}]
    /\ mcPc \in [MarketWorkers -> [Goods -> Steps]]
    /\ mcQueue \in [MarketWorkers -> Seq(Goods)]
Locks ==
    ~mcSlow => \A w \in MarketWorkers : \A g \in Goods : mcPc[w][g] \in Holding => mcLock[g] = w
Queues ==
    \A w \in MarketWorkers :
        /\ \A k \in DOMAIN mcQueue[w] : mcPc[w][mcQueue[w][k]] = "queued"
        /\ \A j, k \in DOMAIN mcQueue[w] : mcQueue[w][j] = mcQueue[w][k] => j = k
Asked == \A w \in MarketWorkers : \A g \in Goods : mcPc[w][g] # "idle" => g \in ListOf[w]
McInv == McTypes /\ Locks /\ Queues /\ Asked

LEMMA McInit_Inv == McInit => McInv
<1> SUFFICES ASSUME McInit
             PROVE  McInv
  OBVIOUS
<1>1. McTypes
  BY DEF McInit, McTypes, Steps
<1>2. Locks
  BY DEF McInit, Locks, Holding
<1>3. Queues
  BY DEF McInit, Queues
<1>4. Asked
  BY DEF McInit, Asked
<1>5. QED
  BY <1>1, <1>2, <1>3, <1>4 DEF McInv

\* A call that goes on with a step that needs no lock.
LEMMA FreeStep ==
    ASSUME McInv, NEW w \in MarketWorkers, NEW g \in Goods,
           mcPc[w][g] \notin {"idle", "queued"}, NEW step \in Steps \ Holding, McGo(w, g, step),
           UNCHANGED <<mcLock, mcQueue, mcSlow>>
    PROVE  McInv'
<1>1. McTypes'
  BY DEF McInv, McTypes, McGo
<1>2. Locks'
  BY DEF McInv, McTypes, Locks, McGo
<1>3. Queues'
  <2> USE DEF Queues
  <2> TAKE v \in MarketWorkers
  <2>1. \A k \in DOMAIN mcQueue[v] : mcQueue[v][k] \in Goods
    BY DEF McInv, McTypes
  <2>2. QED
    BY <2>1 DEF McInv, McTypes, Queues, McGo
<1>4. Asked'
  BY DEF McInv, McTypes, Asked, McGo
<1>5. QED
  BY <1>1, <1>2, <1>3, <1>4 DEF McInv

\* The end of a fetch: the queue moves up by one, and what was first in it fetches.
LEMMA FetchEnds ==
    ASSUME McInv, NEW w \in MarketWorkers, NEW g \in Goods, NEW step \in {"put", "unlock"},
           mcPc[w][g] = "fetch", McFinally(w), McFetchEnds(w, g, step),
           UNCHANGED <<mcLock, mcSlow>>
    PROVE  McInv'
<1>1. CASE mcQueue[w] = <<>>
  <2>1. mcQueue' = mcQueue /\ mcPc' = [mcPc EXCEPT ![w] = [h \in Goods |-> IF h = g THEN step ELSE mcPc[w][h]]]
    BY <1>1 DEF McFinally, McFetchEnds
  <2>2. McTypes'
    BY <2>1 DEF McInv, McTypes, Steps, Holding
  <2>3. Locks'
    BY <2>1 DEF McInv, McTypes, Locks, Holding
  <2>4. Queues'
    <3> USE DEF Queues
    <3> TAKE v \in MarketWorkers
    <3>1. \A k \in DOMAIN mcQueue[v] : mcQueue[v][k] \in Goods
      BY DEF McInv, McTypes
    <3>2. QED
      BY <2>1, <3>1 DEF McInv, McTypes, Queues
  <2>5. Asked'
    BY <2>1 DEF McInv, McTypes, Asked
  <2>6. QED
    BY <2>2, <2>3, <2>4, <2>5 DEF McInv
<1>2. CASE mcQueue[w] # <<>>
  <2> DEFINE first == Head(mcQueue[w])
  <2>1. /\ first \in Goods /\ Tail(mcQueue[w]) \in Seq(Goods) /\ Tail(mcQueue[w]) # mcQueue[w]
        /\ 1 \in DOMAIN mcQueue[w] /\ first = mcQueue[w][1]
        /\ \A k \in DOMAIN Tail(mcQueue[w]) :
              k + 1 \in DOMAIN mcQueue[w] /\ Tail(mcQueue[w])[k] = mcQueue[w][k + 1] /\ k \in Nat \ {0}
    BY <1>2, QueueFacts DEF McInv, McTypes
  <2>2. mcPc[w][first] = "queued" /\ first # g
    BY <2>1 DEF McInv, Queues
  <2>3. mcQueue' = [mcQueue EXCEPT ![w] = Tail(mcQueue[w])]
    BY <1>2 DEF McFinally
  <2>4. mcPc' = [mcPc EXCEPT ![w] = [h \in Goods |->
                    IF h = g THEN step ELSE IF h = first THEN "fetch" ELSE mcPc[w][h]]]
    BY <2>1, <2>2, <2>3 DEF McFetchEnds, McInv, McTypes
  <2> HIDE DEF first
  <2>5. McTypes'
    BY <2>1, <2>3, <2>4 DEF McInv, McTypes, Steps, Holding
  <2>6. Locks'
    BY <2>1, <2>2, <2>4 DEF McInv, McTypes, Locks, Holding
  <2>7. Queues'
    <3> USE DEF Queues
    <3> TAKE v \in MarketWorkers
    <3>1. \A k \in DOMAIN mcQueue[v] : mcQueue[v][k] \in Goods
      BY DEF McInv, McTypes
    <3>2. CASE v # w
      <4>1. mcQueue'[v] = mcQueue[v] /\ mcPc'[v] = mcPc[v]
        BY <2>3, <2>4, <3>2 DEF McInv, McTypes
      <4>2. QED
        BY <4>1 DEF McInv, Queues
    <3>3. CASE v = w
      <4>1. mcQueue'[w] = Tail(mcQueue[w])
        BY <2>3 DEF McInv, McTypes
      <4>2. ASSUME NEW k \in DOMAIN Tail(mcQueue[w])
            PROVE  mcPc'[w][Tail(mcQueue[w])[k]] = "queued"
        <5>1. k + 1 \in DOMAIN mcQueue[w] /\ k + 1 # 1 /\ Tail(mcQueue[w])[k] = mcQueue[w][k + 1]
          BY <2>1
        <5>2. mcQueue[w][k + 1] # first /\ mcPc[w][mcQueue[w][k + 1]] = "queued"
          BY <2>1, <5>1 DEF McInv, Queues
        <5>3. mcQueue[w][k + 1] # g /\ mcQueue[w][k + 1] \in Goods
          BY <3>1, <3>3, <5>1, <5>2
        <5>4. QED
          BY <2>4, <5>1, <5>2, <5>3 DEF McInv, McTypes
      <4>3. ASSUME NEW j \in DOMAIN Tail(mcQueue[w]), NEW k \in DOMAIN Tail(mcQueue[w]),
                   Tail(mcQueue[w])[j] = Tail(mcQueue[w])[k]
            PROVE  j = k
        <5>1. j + 1 = k + 1 /\ j \in Nat /\ k \in Nat
          BY <2>1, <4>3 DEF McInv, Queues
        <5>2. QED
          BY <5>1
      <4>4. QED
        BY <3>3, <4>1, <4>2, <4>3
    <3>4. QED
      BY <3>2, <3>3
  <2>8. Asked'
    BY <2>1, <2>2, <2>4 DEF McInv, McTypes, Asked
  <2>9. QED
    BY <2>5, <2>6, <2>7, <2>8 DEF McInv
<1>3. QED
  BY <1>1, <1>2

LEMMA McNext_Inv == McInv /\ [McNext]_mcVars => McInv'
<1> SUFFICES ASSUME McInv, [McNext]_mcVars
             PROVE  McInv'
  OBVIOUS
<1>0. /\ \A w \in MarketWorkers : \A k \in DOMAIN mcQueue[w] : mcQueue[w][k] \in Goods
      /\ <<>> \in Seq(Goods) /\ DOMAIN <<>> = {}
  BY DEF McInv, McTypes
<1>1. ASSUME NEW w \in MarketWorkers, McCommand(w)
      PROVE  McInv'
  <2>1. McTypes'
    BY <1>1 DEF McCommand, mcLimiter, McInv, McTypes, Steps
  <2>2. Locks'
    BY <1>1 DEF McCommand, McInv, McTypes, Locks, Holding
  <2>3. Queues'
    BY <1>0, <1>1 DEF McCommand, mcLimiter, McInv, McTypes, Queues
  <2>4. Asked'
    BY <1>1 DEF McCommand, McInv, McTypes, Asked
  <2>5. QED
    BY <2>1, <2>2, <2>3, <2>4 DEF McInv
<1>2. ASSUME NEW w \in MarketWorkers, McReply(w)
      PROVE  McInv'
  <2>1. McTypes'
    BY <1>2 DEF McReply, mcLimiter, McInv, McTypes, Steps
  <2>2. Locks'
    BY <1>2 DEF McReply, McInv, McTypes, Locks, Holding
  <2>3. Queues'
    <3>1. DOMAIN mcQueue[w] = {}
      BY <1>0, <1>2 DEF McReply, McInv, Queues, Asked
    <3>2. QED
      BY <1>0, <1>2, <3>1 DEF McReply, mcLimiter, McInv, McTypes, Queues
  <2>4. Asked'
    BY <1>2 DEF McReply, McInv, McTypes, Asked
  <2>5. QED
    BY <2>1, <2>2, <2>3, <2>4 DEF McInv
<1>3. ASSUME NEW w \in MarketWorkers, McCrash(w)
      PROVE  McInv'
  <2>1. McTypes'
    BY <1>0, <1>3 DEF McCrash, McInv, McTypes, Steps
  <2>2. Locks'
    BY <1>3 DEF McCrash, McInv, McTypes, Locks, Holding
  <2>3. Queues'
    BY <1>0, <1>3 DEF McCrash, McInv, McTypes, Queues
  <2>4. Asked'
    BY <1>3 DEF McCrash, McInv, McTypes, Asked
  <2>5. QED
    BY <2>1, <2>2, <2>3, <2>4 DEF McInv
<1>4. ASSUME NEW w \in MarketWorkers, NEW g \in Goods, McGet(w, g)
      PROVE  McInv'
  <2>1. CASE McGo(w, g, "lock")
    BY <1>4, <2>1, FreeStep DEF McGet, mcLimiter, Steps, Holding
  <2>2. CASE McGo(w, g, "done")
    BY <1>4, <2>2, FreeStep DEF McGet, mcLimiter, Steps, Holding
  <2>3. QED
    BY <1>4, <2>1, <2>2 DEF McGet, McReturn
<1>5. ASSUME NEW w \in MarketWorkers, NEW g \in Goods, McLocked(w, g)
      PROVE  McInv'
  <2> USE <1>5 DEF McLocked, McTakesLock, McGo
  <2>1. mcLock' = [mcLock EXCEPT ![g] = w] /\ mcLock[g] = Unlocked /\ mcPc[w][g] = "lock"
    OBVIOUS
  <2>2. PICK step \in {"fetch", "queued"} :
          /\ mcPc' = [mcPc EXCEPT ![w][g] = step]
          /\ step = "fetch" => mcQueue' = mcQueue
          /\ step = "queued" => mcQueue' = [mcQueue EXCEPT ![w] = Append(@, g)]
    OBVIOUS
  <2>3. Append(mcQueue[w], g) \in Seq(Goods)
    BY QueueFacts DEF McInv, McTypes
  <2>4. McTypes'
    BY <2>1, <2>2, <2>3 DEF McInv, McTypes, Steps, Holding
  <2>5. Locks'
    <3> USE DEF Locks
    <3> SUFFICES ASSUME ~mcSlow', NEW v \in MarketWorkers, NEW h \in Goods, mcPc'[v][h] \in Holding
                 PROVE  mcLock'[h] = v
      OBVIOUS
    <3>1. CASE h = g /\ v # w
      <4>1. mcPc[v][g] \in Holding /\ ~mcSlow
        BY <2>2, <3>1 DEF McInv, McTypes
      <4>2. QED
        BY <2>1, <4>1, MarketCacheAssumption DEF McInv
    <3>2. CASE h = g /\ v = w
      BY <2>1, <3>2 DEF McInv, McTypes
    <3>3. CASE h # g
      BY <2>1, <2>2, <3>3 DEF McInv, McTypes
    <3>4. QED
      BY <3>1, <3>2, <3>3
  <2>6. Queues'
    <3>1. CASE step = "fetch"
      BY <1>0, <2>1, <2>2, <3>1 DEF McInv, McTypes, Queues
    <3>2. CASE step = "queued"
      <4> USE DEF Queues
      <4> TAKE v \in MarketWorkers
      <4>1. CASE v # w
        BY <1>0, <2>2, <3>2, <4>1 DEF McInv, McTypes
      <4>2. CASE v = w
        <5>1. mcQueue'[w] = Append(mcQueue[w], g) /\ mcPc'[w] = [mcPc[w] EXCEPT ![g] = "queued"]
          BY <2>2, <3>2 DEF McInv, McTypes
        <5>2. \A k \in DOMAIN Append(mcQueue[w], g) :
                \/ /\ k \in DOMAIN mcQueue[w] /\ Append(mcQueue[w], g)[k] = mcQueue[w][k]
                   /\ mcQueue[w][k] \in Goods \ {g} /\ mcPc[w][mcQueue[w][k]] = "queued"
                \/ k = Len(mcQueue[w]) + 1 /\ Append(mcQueue[w], g)[k] = g
          BY <1>0, <2>1, QueueFacts DEF McInv, McTypes
        <5>3. \A h \in Goods : mcPc'[w][h] = IF h = g THEN "queued" ELSE mcPc[w][h]
          BY <5>1 DEF McInv, McTypes
        <5>4. QED
          BY <4>2, <5>1, <5>2, <5>3 DEF McInv
      <4>3. QED
        BY <4>1, <4>2
    <3>3. QED
      BY <3>1, <3>2
  <2>7. Asked'
    BY <2>1, <2>2 DEF McInv, McTypes, Asked
  <2>8. QED
    BY <2>4, <2>5, <2>6, <2>7 DEF McInv
<1>6. ASSUME NEW w \in MarketWorkers, NEW g \in Goods, McBusy(w, g)
      PROVE  McInv'
  BY <1>6, FreeStep DEF McBusy, mcLimiter, Steps, Holding
<1>7. ASSUME NEW w \in MarketWorkers, NEW g \in Goods, McRecheck(w, g)
      PROVE  McInv'
  <2>1. CASE McGo(w, g, "lock")
    BY <1>7, <2>1, FreeStep DEF McRecheck, mcLimiter, Steps, Holding
  <2>2. CASE McGo(w, g, "done")
    BY <1>7, <2>2, FreeStep DEF McRecheck, mcLimiter, Steps, Holding
  <2>3. QED
    BY <1>7, <2>1, <2>2 DEF McRecheck, McReturn
<1>8. ASSUME NEW w \in MarketWorkers, NEW g \in Goods, McFetched(w, g)
      PROVE  McInv'
  BY <1>8, FetchEnds DEF McFetched
<1>9. ASSUME NEW w \in MarketWorkers, NEW g \in Goods, McFetchFails(w, g)
      PROVE  McInv'
  BY <1>9, FetchEnds DEF McFetchFails
<1>10. ASSUME NEW w \in MarketWorkers, NEW g \in Goods, McPut(w, g)
       PROVE  McInv'
  <2> USE <1>10 DEF McPut, McGo, mcLimiter
  <2>1. McTypes'
    BY DEF McInv, McTypes, Steps, Holding
  <2>2. Locks'
    BY DEF McInv, McTypes, Locks, Holding
  <2>3. Queues'
    BY <1>0 DEF McInv, McTypes, Queues
  <2>4. Asked'
    BY DEF McInv, McTypes, Asked
  <2>5. QED
    BY <2>1, <2>2, <2>3, <2>4 DEF McInv
<1>11. ASSUME NEW w \in MarketWorkers, NEW g \in Goods, McUnlock(w, g)
       PROVE  McInv'
  <2> USE <1>11 DEF McUnlock, McGo, mcLimiter
  <2>1. McTypes'
    BY DEF McInv, McTypes, Steps, Holding
  <2>2. Locks'
    BY DEF McInv, McTypes, Locks, Holding
  <2>3. Queues'
    BY <1>0 DEF McInv, McTypes, Queues
  <2>4. Asked'
    BY DEF McInv, McTypes, Asked
  <2>5. QED
    BY <2>1, <2>2, <2>3, <2>4 DEF McInv
<1>12. ASSUME NEW w \in MarketWorkers, NEW g \in Goods, McRedisFails(w, g)
       PROVE  McInv'
  <2>1. CASE mcPc[w][g] = "put"
    <3>0. /\ mcPc' = [mcPc EXCEPT ![w][g] = "unlock"]
          /\ UNCHANGED <<mcLock, mcQueue, mcSlow>>
      BY <1>12, <2>1 DEF McRedisFails, McGo, mcLimiter
    <3> USE <2>1, <3>0
    <3>1. McTypes'
      BY DEF McInv, McTypes, Steps, Holding
    <3>2. Locks'
      BY DEF McInv, McTypes, Locks, Holding
    <3>3. Queues'
      BY <1>0 DEF McInv, McTypes, Queues
    <3>4. Asked'
      BY DEF McInv, McTypes, Asked
    <3>5. QED
      BY <3>1, <3>2, <3>3, <3>4 DEF McInv
  <2>2. CASE mcPc[w][g] # "put"
    BY <1>12, <2>2, FreeStep DEF McRedisFails, McReturn, mcLimiter, Steps, Holding
  <2>3. QED
    BY <2>1, <2>2
<1>13. ASSUME NEW g \in Goods, McCacheExpires(g)
       PROVE  McInv'
  BY <1>13 DEF McCacheExpires, mcCall, mcLimiter, McInv, McTypes, Locks, Queues, Asked
<1>14. ASSUME NEW g \in Goods, McLockExpires(g)
       PROVE  McInv'
  <2> USE <1>14 DEF McLockExpires, mcCall, mcLimiter
  <2>1. McTypes'
    BY DEF McInv, McTypes
  <2>2. Locks'
    <3> USE DEF Locks
    <3> SUFFICES ASSUME ~mcSlow', NEW v \in MarketWorkers, NEW h \in Goods, mcPc'[v][h] \in Holding
                 PROVE  mcLock'[h] = v
      OBVIOUS
    <3>1. ~mcSlow /\ mcPc[mcLock[g]][g] \notin Holding /\ mcPc[v][h] \in Holding
      OBVIOUS
    <3>2. mcLock[h] = v /\ h # g
      BY <3>1 DEF McInv
    <3>3. QED
      BY <3>2 DEF McInv, McTypes
  <2>3. Queues'
    BY DEF McInv, Queues
  <2>4. Asked'
    BY DEF McInv, McTypes, Asked
  <2>5. QED
    BY <2>1, <2>2, <2>3, <2>4 DEF McInv
<1>15. CASE UNCHANGED mcVars
  BY <1>15 DEF mcVars, mcCall, mcLimiter, McInv, McTypes, Locks, Queues, Asked
<1>16. QED
  BY <1>1, <1>2, <1>3, <1>4, <1>5, <1>6, <1>7, <1>8, <1>9, <1>10, <1>11, <1>12, <1>13, <1>14,
     <1>15 DEF McNext, McStep

\* One price is fetched by one worker at a time as long as no lock ran out under a living
\* holder, although the lock is deleted by whoever has finished (esiMarketCache.js:142): who
\* deletes it is then the one who set it.
THEOREM OneFetch == McSpec => []McOneFetch
<1>1. McInv => McOneFetch
  BY DEF McInv, Locks, McOneFetch
<1>2. QED
  BY McInit_Inv, McNext_Inv, <1>1, PTL DEF McSpec
-----------------------------------------------------------------------------
(***************************************************************************)
(* The price of a station.  FoldSet reads the orders of a page in an order *)
(* of its own: by induction over the sets of orders it keeps the best one. *)
(***************************************************************************)
LEMMA Least ==
    ASSUME NEW T \in SUBSET Nat, T # {}
    PROVE  \E n \in T : \A m \in T : n <= m
<1>1. \E n \in T : \A m \in T : ~(m < n)
  <2>1. PICK n \in T : \A m \in T : <<m, n>> \notin OpToRel(<, Nat)
    BY NatLessThanWellFounded, WFMin
  <2>2. \A m \in T : ~(m < n)
    BY <2>1 DEF OpToRel
  <2>3. QED
    BY <2>2
<1>2. QED
  BY <1>1

\* Induction over the subsets of a finite set: of those that lack a property, one has no
\* smaller one.
LEMMA Smallest ==
    ASSUME NEW S, IsFiniteSet(S), NEW T \in SUBSET (SUBSET S), T # {}
    PROVE  \E s \in T : \A x \in s : s \ {x} \notin T
<1> DEFINE sizes == {Cardinality(s) : s \in T}
<1>1. \A s \in T : IsFiniteSet(s) /\ Cardinality(s) \in Nat
  BY FS_Subset, FS_CardinalityType
<1>2. sizes \in SUBSET Nat /\ sizes # {}
  BY <1>1
<1>3. PICK n \in sizes : \A m \in sizes : n <= m
  <2> HIDE DEF sizes
  <2>1. QED
    BY <1>2, Least
<1>4. PICK s \in T : n = Cardinality(s)
  OBVIOUS
<1>5. ASSUME NEW x \in s, s \ {x} \in T
      PROVE  FALSE
  <2>1. Cardinality(s \ {x}) = n - 1 /\ n \in Nat
    BY <1>1, <1>4, FS_RemoveElement
  <2>2. n <= Cardinality(s \ {x})
    BY <1>3, <1>5
  <2>3. QED
    BY <2>1, <2>2
<1>6. QED
  BY <1>5

NoWorse(side, p, q) == IF side = "sell" THEN p <= q ELSE p >= q
IsBest(side, r, ps) ==
    IF ps = {} THEN r = NoPrice ELSE r \in ps /\ \A p \in ps : NoWorse(side, r, p)

\* One more order: what the loop keeps is the best of those it has read.
LEMMA OneMore ==
    ASSUME NEW side, NEW ps \in SUBSET (Nat \ {0}), NEW b, IsBest(side, b, ps), NEW p \in Nat \ {0}
    PROVE  IsBest(side, IF Better(side, p, b) THEN p ELSE b, ps \cup {p})
<1>1. CASE ps = {}
  <2>1. Better(side, p, b) /\ ps \cup {p} = {p}
    BY <1>1 DEF IsBest, Better
  <2>2. NoWorse(side, p, p)
    BY DEF NoWorse
  <2>3. IsBest(side, p, {p})
    BY <2>2 DEF IsBest
  <2>4. QED
    BY <2>1, <2>3
<1>2. CASE ps # {}
  <2>1. b \in ps /\ b \in Nat \ {0} /\ \A q \in ps : NoWorse(side, b, q)
    BY <1>2 DEF IsBest
  <2>2. CASE Better(side, p, b)
    <3>1. \A q \in ps : NoWorse(side, p, q)
      BY <2>1, <2>2 DEF NoWorse, Better, NoPrice
    <3>2. NoWorse(side, p, p)
      BY DEF NoWorse
    <3>3. QED
      BY <2>2, <3>1, <3>2 DEF IsBest
  <2>3. CASE ~Better(side, p, b)
    <3>1. NoWorse(side, b, p)
      BY <2>1, <2>3 DEF NoWorse, Better, NoPrice
    <3>2. QED
      BY <2>1, <2>3, <3>1 DEF IsBest
  <2>4. QED
    BY <2>2, <2>3
<1>3. QED
  BY <1>1, <1>2

LEMMA OneBest ==
    ASSUME NEW side, NEW ps \in SUBSET (Nat \ {0}), NEW b, IsBest(side, b, ps),
           NEW c, IsBest(side, c, ps)
    PROVE  b = c
<1>1. CASE ps = {}
  BY <1>1 DEF IsBest
<1>2. CASE ps # {}
  <2>1. b \in Nat /\ c \in Nat /\ NoWorse(side, b, c) /\ NoWorse(side, c, b)
    BY <1>2 DEF IsBest
  <2>2. QED
    BY <2>1 DEF NoWorse
<1>3. QED
  BY <1>1, <1>2

\* The orders of a page, in whatever order they come: read is what was read before it.
Read(ps, b) == ps \cup ({b} \ {NoPrice})

LEMMA HasBest ==
    ASSUME NEW side, NEW S \in SUBSET (Nat \ {0}), IsFiniteSet(S), NEW b \in Nat
    PROVE  \A s \in SUBSET S : \E r : IsBest(side, r, Read(s, b))
<1> DEFINE T == {s \in SUBSET S : ~\E r : IsBest(side, r, Read(s, b))}
<1>1. SUFFICES ASSUME T # {} PROVE FALSE
  OBVIOUS
<1>2. PICK s \in T : \A x \in s : s \ {x} \notin T
  <2>1. T \in SUBSET (SUBSET S)
    OBVIOUS
  <2> HIDE DEF T
  <2>2. QED
    BY <1>1, <2>1, Smallest
<1>3. CASE s = {}
  <2>1. IsBest(side, b, Read(s, b))
    <3>1. CASE b = NoPrice
      BY <1>3, <3>1 DEF IsBest, Read
    <3>2. CASE b # NoPrice
      <4>1. Read(s, b) = {b} /\ NoWorse(side, b, b)
        BY <1>3, <3>2 DEF Read, NoWorse
      <4>2. QED
        BY <4>1 DEF IsBest
    <3>3. QED
      BY <3>1, <3>2
  <2>2. QED
    BY <2>1
<1>4. CASE s # {}
  <2>1. PICK x \in s : TRUE
    BY <1>4
  <2>2. PICK r : IsBest(side, r, Read(s \ {x}, b))
    BY <1>2, <2>1
  <2>3. Read(s \ {x}, b) \in SUBSET (Nat \ {0}) /\ x \in Nat \ {0}
    BY <2>1 DEF Read, NoPrice
  <2>4. Read(s, b) = Read(s \ {x}, b) \cup {x}
    BY <2>1 DEF Read
  <2>5. \E q : IsBest(side, q, Read(s \ {x}, b) \cup {x})
    BY <2>2, <2>3, OneMore
  <2>6. QED
    BY <2>4, <2>5
<1>5. QED
  BY <1>3, <1>4

\* What FoldSet computes: of the orders of a page and what was read before, the best.
LEMMA FoldBest ==
    ASSUME NEW side, NEW S \in SUBSET (Nat \ {0}), IsFiniteSet(S), NEW b \in Nat
    PROVE  IsBest(side, BestOf(side, S, b), Read(S, b))
<1> DEFINE F(f) == f = [s \in SUBSET S |->
                IF s = {} THEN b
                ELSE LET x == CHOOSE z \in s : TRUE
                     IN  IF Better(side, x, f[s \ {x}]) THEN x ELSE f[s \ {x}]]
           g == [s \in SUBSET S |-> CHOOSE r : IsBest(side, r, Read(s, b))]
           fold == CHOOSE f : F(f)
<1>1. \A s \in SUBSET S : IsBest(side, g[s], Read(s, b)) /\ Read(s, b) \in SUBSET (Nat \ {0})
  BY HasBest DEF Read, NoPrice
<1>2. F(g)
  <2>1. g[{}] = b
    <3>1. IsBest(side, b, Read({}, b))
      BY DEF IsBest, Read, NoPrice, NoWorse
    <3>2. IsBest(side, g[{}], Read({}, b)) /\ Read({}, b) \in SUBSET (Nat \ {0})
      BY <1>1
    <3> HIDE DEF g
    <3>3. QED
      BY <3>1, <3>2, OneBest
  <2>2. ASSUME NEW s \in SUBSET S, s # {}, NEW x \in s
        PROVE  g[s] = IF Better(side, x, g[s \ {x}]) THEN x ELSE g[s \ {x}]
    <3> DEFINE y == IF Better(side, x, g[s \ {x}]) THEN x ELSE g[s \ {x}]
    <3>1. /\ IsBest(side, g[s], Read(s, b)) /\ Read(s, b) \in SUBSET (Nat \ {0})
          /\ IsBest(side, g[s \ {x}], Read(s \ {x}, b)) /\ Read(s \ {x}, b) \in SUBSET (Nat \ {0})
      BY <1>1
    <3>2. Read(s, b) = Read(s \ {x}, b) \cup {x} /\ x \in Nat \ {0}
      BY <2>2 DEF Read
    <3> HIDE DEF g
    <3>3. IsBest(side, y, Read(s, b))
      <4>1. PICK c : c = g[s \ {x}]
        OBVIOUS
      <4>2. IsBest(side, IF Better(side, x, c) THEN x ELSE c, Read(s \ {x}, b) \cup {x})
        BY <3>1, <3>2, <4>1, OneMore
      <4>3. QED
        BY <3>2, <4>1, <4>2
    <3>4. QED
      BY <3>1, <3>3, OneBest
  <2>3. ASSUME NEW s \in SUBSET S
        PROVE  g[s] = IF s = {} THEN b
                      ELSE LET x == CHOOSE z \in s : TRUE
                           IN  IF Better(side, x, g[s \ {x}]) THEN x ELSE g[s \ {x}]
    <3> HIDE DEF g
    <3>1. CASE s = {}
      BY <2>1, <3>1
    <3>2. CASE s # {}
      <4>1. (CHOOSE z \in s : TRUE) \in s
        BY <3>2
      <4>2. QED
        BY <2>2, <3>2, <4>1
    <3>3. QED
      BY <3>1, <3>2
  <2>4. g = [s \in SUBSET S |-> g[s]]
    OBVIOUS
  <2> HIDE DEF g
  <2>5. QED
    BY <2>3, <2>4
<1>3. F(fold)
  BY <1>2
<1>4. \A s \in SUBSET S : IsBest(side, fold[s], Read(s, b))
  <2> DEFINE T == {s \in SUBSET S : ~IsBest(side, fold[s], Read(s, b))}
  <2> HIDE DEF fold
  <2>1. SUFFICES ASSUME T # {} PROVE FALSE
    OBVIOUS
  <2>2. PICK s \in T : \A x \in s : s \ {x} \notin T
    <3>1. T \in SUBSET (SUBSET S)
      OBVIOUS
    <3> HIDE DEF T
    <3>2. QED
      BY <2>1, <3>1, Smallest
  <2>3. CASE s = {}
    <3>1. fold[s] = b
      BY <1>3, <2>3
    <3>2. IsBest(side, b, Read({}, b))
      BY DEF IsBest, Read, NoPrice, NoWorse
    <3>3. QED
      BY <2>3, <3>1, <3>2
  <2>4. CASE s # {}
    <3>1. PICK x \in s : x = CHOOSE z \in s : TRUE
      BY <2>4
    <3>2. fold[s] = IF Better(side, x, fold[s \ {x}]) THEN x ELSE fold[s \ {x}]
      BY <1>3, <2>4, <3>1
    <3>3. /\ IsBest(side, fold[s \ {x}], Read(s \ {x}, b))
          /\ Read(s \ {x}, b) \in SUBSET (Nat \ {0}) /\ x \in Nat \ {0}
          /\ Read(s, b) = Read(s \ {x}, b) \cup {x}
      BY <2>2 DEF Read, NoPrice
    <3>4. IsBest(side, fold[s], Read(s \ {x}, b) \cup {x})
      BY <3>2, <3>3, OneMore
    <3>5. QED
      BY <3>3, <3>4
  <2>5. QED
    BY <2>3, <2>4
<1>5. BestOf(side, S, b) = fold[S]
  BY DEF BestOf, FoldSet, MapThenFoldSet
<1>6. QED
  <2> HIDE DEF fold
  <2>1. QED
    BY <1>4, <1>5

\* The best of a page and of what was best before it is the best of all that was read.
LEMMA BestOfBoth ==
    ASSUME NEW side, NEW old \in SUBSET (Nat \ {0}), NEW ps \in SUBSET (Nat \ {0}),
           NEW b, IsBest(side, b, old), NEW c, IsBest(side, c, Read(ps, b))
    PROVE  IsBest(side, c, old \cup ps)
<1>1. CASE old = {}
  <2>1. b = NoPrice
    BY <1>1 DEF IsBest
  <2>2. Read(ps, b) = old \cup ps
    BY <1>1, <2>1 DEF Read
  <2>3. QED
    BY <2>2
<1>2. CASE old # {}
  <2>1. b \in old /\ b \in Nat \ {0} /\ \A q \in old : NoWorse(side, b, q)
    BY <1>2 DEF IsBest
  <2>2. Read(ps, b) = ps \cup {b}
    BY <2>1 DEF Read, NoPrice
  <2>3. c \in ps \cup {b} /\ \A q \in ps \cup {b} : NoWorse(side, c, q)
    BY <2>2 DEF IsBest
  <2>4. \A q \in old : NoWorse(side, c, q)
    <3>1. c \in Nat /\ NoWorse(side, c, b)
      BY <2>1, <2>3
    <3>2. ASSUME NEW q \in old
          PROVE  NoWorse(side, c, q)
      <4>1. q \in Nat /\ NoWorse(side, b, q)
        BY <2>1
      <4>2. QED
        BY <2>1, <3>1, <4>1 DEF NoWorse
    <3>3. QED
      BY <3>2
  <2>5. QED
    BY <1>2, <2>1, <2>3, <2>4 DEF IsBest
<1>3. QED
  BY <1>1, <1>2

LEMMA BookPages ==
    ASSUME NEW book \in Books
    PROVE  /\ Len(book) \in Nat \ {0} /\ DOMAIN book = 1..Len(book) /\ book # <<>>
           /\ \A i \in 1..Len(book) :
                book[i] \in SUBSET (Nat \ {0}) /\ book[i] \subseteq Prices /\ IsFiniteSet(book[i])
<1>1. PICK n \in 1..MaxPages : book \in [1..n -> SUBSET Prices]
  BY DEF Books
<1>2. n \in Nat \ {0} /\ book \in Seq(SUBSET Prices)
  BY <1>1, StationOrdersAssumption
<1>3. Len(book) = n /\ DOMAIN book = 1..n
  BY <1>1, <1>2
<1>4. book # <<>>
  BY <1>2, <1>3
<1>5. ASSUME NEW i \in 1..Len(book)
      PROVE  book[i] \in SUBSET (Nat \ {0}) /\ book[i] \subseteq Prices /\ IsFiniteSet(book[i])
  <2>1. book[i] \in SUBSET Prices
    BY <1>1, <1>3, <1>5
  <2>2. QED
    BY <2>1, StationOrdersAssumption, FS_Subset
<1>6. QED
  BY <1>2, <1>3, <1>4, <1>5

PagesRead(s) == 1..soAt[s] - 1
OrdersRead(s) == UNION {BookOf(s)[i] : i \in PagesRead(s)}

\* What the loop knows of a list: the best of the pages read, and the first that has an order.
SoSide(s) ==
    /\ soAt[s] \in 1..PageCap + 1 /\ soAt[s] <= Len(BookOf(s)) + 1
    /\ soHit[s] \in 0..PageCap /\ soBest[s] \in Prices \cup {NoPrice}
    /\ IsBest(s, soBest[s], OrdersRead(s))
    /\ soHit[s] = 0 => \A i \in PagesRead(s) : BookOf(s)[i] = {}
    /\ soHit[s] # 0 =>
        /\ soHit[s] \in PagesRead(s) /\ BookOf(s)[soHit[s]] # {}
        /\ \A i \in 1..soHit[s] - 1 : BookOf(s)[i] = {}
        /\ soAt[s] <= soHit[s] + ExtraPages + 1

SoInv ==
    /\ soAt \in [Sides -> Nat] /\ soHit \in [Sides -> Nat] /\ soBest \in [Sides -> Nat]
    /\ IF soSell = <<>>
       THEN SoInit
       ELSE soSell \in Books /\ soBuy \in Books /\ \A s \in Sides : SoSide(s)

LEMMA SoInitInv == SoInit => SoInv
BY DEF SoInit, SoInv, NoPrice

LEMMA SoQueryInv == SoInv /\ SoQuery => SoInv'
<1> SUFFICES ASSUME SoInv, SoQuery
             PROVE  SoInv'
  OBVIOUS
<1>1. /\ soSell' \in Books /\ soBuy' \in Books /\ UNCHANGED <<soAt, soBest, soHit>> /\ SoInit
  BY DEF SoQuery, SoInv
<1>2. soSell' # <<>>
  BY <1>1, BookPages
<1>3. ASSUME NEW s \in Sides
      PROVE  SoSide(s)'
  <2>1. soAt'[s] = 1 /\ soBest'[s] = NoPrice /\ soHit'[s] = 0
    BY <1>1 DEF SoInit
  <2>2. BookOf(s)' \in Books
    BY <1>1 DEF BookOf
  <2>3. Len(BookOf(s)') \in Nat
    BY <2>2, BookPages
  <2>4. PagesRead(s)' = {} /\ OrdersRead(s)' = {}
    BY <2>1 DEF PagesRead, OrdersRead
  <2>5. IsBest(s, soBest'[s], OrdersRead(s)')
    BY <2>1, <2>4 DEF IsBest
  <2>6. QED
    BY <2>1, <2>3, <2>4, <2>5, StationOrdersAssumption DEF SoSide
<1>4. QED
  BY <1>1, <1>2, <1>3 DEF SoInv

\* One turn of the loop, for one of the lists.
LEMMA SoPageSide ==
    ASSUME SoInv, SoPage, NEW s \in Sides
    PROVE  SoSide(s)'
<1>1. /\ soSell \in Books /\ soBuy \in Books /\ SoSide(s)
      /\ soAt \in [Sides -> Nat] /\ soHit \in [Sides -> Nat] /\ soBest \in [Sides -> Nat]
  BY DEF SoInv, SoPage
<1>2. BookOf(s)' = BookOf(s) /\ BookOf(s) \in Books
  BY <1>1 DEF SoPage, BookOf
<1>3. CASE ~ShouldFetch(s)
  <2>1. soAt'[s] = soAt[s] /\ soHit'[s] = soHit[s] /\ soBest'[s] = soBest[s]
    BY <1>1, <1>3 DEF SoPage
  <2>2. QED
    BY <1>1, <1>2, <2>1 DEF SoSide, PagesRead, OrdersRead
<1>4. CASE ShouldFetch(s)
  <2> DEFINE book == BookOf(s)
             at == soAt[s]
             hit == soHit[s]
  <2>1. /\ at \in Nat /\ at >= 1 /\ at <= Len(book) /\ at <= PageCap /\ PageCap \in Nat
        /\ ExtraPages \in Nat /\ hit \in Nat /\ Len(book) \in Nat
        /\ hit = 0 \/ at <= hit + ExtraPages
    BY <1>1, <1>2, <1>4, BookPages, StationOrdersAssumption DEF SoSide, ShouldFetch
  <2>2. /\ soAt'[s] = at + 1
        /\ soBest'[s] = BestOf(s, book[at], soBest[s])
        /\ soHit'[s] = IF hit = 0 /\ book[at] # {} THEN at ELSE hit
    BY <1>1, <1>4 DEF SoPage
  <2>3. PagesRead(s)' = PagesRead(s) \cup {at} /\ PagesRead(s) = 1..at - 1
    BY <2>1, <2>2 DEF PagesRead
  <2>4. OrdersRead(s)' = OrdersRead(s) \cup book[at]
    BY <1>2, <2>3 DEF OrdersRead
  <2>5. /\ book[at] \in SUBSET (Nat \ {0}) /\ book[at] \subseteq Prices /\ IsFiniteSet(book[at])
    BY <1>2, <2>1, BookPages
  <2>6. OrdersRead(s) \in SUBSET (Nat \ {0}) /\ OrdersRead(s) \subseteq Prices
    <3>1. \A i \in PagesRead(s) : i \in 1..Len(book)
      BY <2>1, <2>3
    <3>2. \A i \in PagesRead(s) : book[i] \in SUBSET (Nat \ {0}) /\ book[i] \subseteq Prices
      BY <1>2, <3>1, BookPages
    <3>3. QED
      BY <3>2 DEF OrdersRead
  <2>7. IsBest(s, soBest'[s], OrdersRead(s)')
    <3>1. IsBest(s, soBest[s], OrdersRead(s)) /\ soBest[s] \in Nat
      BY <1>1 DEF SoSide
    <3>2. IsBest(s, soBest'[s], Read(book[at], soBest[s]))
      BY <2>2, <2>5, <3>1, FoldBest
    <3>3. QED
      BY <2>4, <2>5, <2>6, <3>1, <3>2, BestOfBoth
  <2>8. soBest'[s] \in Prices \cup {NoPrice}
    BY <2>4, <2>5, <2>6, <2>7 DEF IsBest
  <2>9. soAt'[s] \in 1..PageCap + 1 /\ soAt'[s] <= Len(BookOf(s)') + 1 /\ soHit'[s] \in 0..PageCap
    <3>1. hit \in 0..PageCap
      BY <1>1 DEF SoSide
    <3>2. QED
      BY <1>2, <2>1, <2>2, <3>1
  <2>10. CASE hit # 0
    <3>1. /\ hit \in PagesRead(s) /\ book[hit] # {} /\ \A i \in 1..hit - 1 : book[i] = {}
          /\ soHit'[s] = hit
      BY <1>1, <2>2, <2>10 DEF SoSide
    <3>2. soAt'[s] <= soHit'[s] + ExtraPages + 1
      BY <2>1, <2>2, <2>10, <3>1
    <3>3. QED
      BY <1>2, <2>3, <2>7, <2>8, <2>9, <2>10, <3>1, <3>2 DEF SoSide
  <2>11. CASE hit = 0
    <3>1. \A i \in 1..at - 1 : book[i] = {}
      BY <1>1, <2>3, <2>11 DEF SoSide
    <3>2. CASE book[at] = {}
      <4>1. \A i \in PagesRead(s)' : BookOf(s)'[i] = {}
        BY <1>2, <2>3, <3>1, <3>2
      <4>2. QED
        BY <2>2, <2>7, <2>8, <2>9, <2>11, <3>2, <4>1 DEF SoSide
    <3>3. CASE book[at] # {}
      <4>1. soHit'[s] = at /\ soHit'[s] \in PagesRead(s)'
        BY <2>2, <2>3, <2>11, <3>3
      <4>2. soAt'[s] <= soHit'[s] + ExtraPages + 1
        BY <2>1, <2>2, <4>1
      <4>3. QED
        BY <1>2, <2>1, <2>7, <2>8, <2>9, <3>1, <3>3, <4>1, <4>2 DEF SoSide
    <3>4. QED
      BY <3>2, <3>3
  <2>12. QED
    BY <2>10, <2>11
<1>5. QED
  BY <1>3, <1>4

LEMMA SoNextInv == SoInv /\ [SoNext]_soVars => SoInv'
<1> SUFFICES ASSUME SoInv, [SoNext]_soVars
             PROVE  SoInv'
  OBVIOUS
<1>1. CASE SoPage
  <2>1. soSell # <<>> /\ UNCHANGED <<soSell, soBuy>> /\ soSell \in Books /\ soBuy \in Books
    BY <1>1 DEF SoPage, SoInv
  <2>2. \A s \in Sides : SoSide(s)'
    BY <1>1, SoPageSide
  <2>3. /\ soAt' = [s \in Sides |-> soAt'[s]] /\ soHit' = [s \in Sides |-> soHit'[s]]
        /\ soBest' = [s \in Sides |-> soBest'[s]]
    BY <1>1 DEF SoPage
  <2>4. \A s \in Sides : soAt'[s] \in Nat /\ soHit'[s] \in Nat /\ soBest'[s] \in Nat
    <3>1. \A s \in Sides : /\ soAt'[s] \in 1..PageCap + 1 /\ soHit'[s] \in 0..PageCap
                           /\ soBest'[s] \in Prices \cup {NoPrice}
      BY <2>2 DEF SoSide
    <3>2. Prices \cup {NoPrice} \subseteq Nat /\ PageCap \in Nat
      BY StationOrdersAssumption DEF NoPrice
    <3>3. QED
      BY <3>1, <3>2
  <2>5. QED
    BY <2>1, <2>2, <2>3, <2>4 DEF SoInv
<1>2. CASE UNCHANGED soVars
  <2>1. UNCHANGED <<soSell, soBuy, soAt, soBest, soHit>>
    BY <1>2 DEF soVars
  <2>2. \A s \in Sides : SoSide(s) => SoSide(s)'
    BY <2>1 DEF SoSide, PagesRead, OrdersRead, BookOf
  <2>3. QED
    BY <2>1, <2>2 DEF SoInv, SoInit
<1>3. QED
  BY <1>1, <1>2, SoQueryInv DEF SoNext

\* Min and Max of a list's orders are the best of them.
LEMMA BestIs ==
    ASSUME NEW s \in Sides, NEW ps \in SUBSET (Nat \ {0}), NEW b, IsBest(s, b, ps)
    PROVE  b = CASE ps = {} -> NoPrice
                 [] ps # {} /\ s = "sell" -> Min(ps)
                 [] OTHER -> Max(ps)
<1>1. CASE ps = {}
  BY <1>1 DEF IsBest
<1>2. CASE ps # {} /\ s = "sell"
  <2>1. b \in ps /\ \A p \in ps : b <= p
    BY <1>2 DEF IsBest, NoWorse
  <2>2. Min(ps) \in ps /\ \A p \in ps : Min(ps) <= p
    BY <2>1 DEF Min
  <2>3. b \in Nat /\ Min(ps) \in Nat /\ b <= Min(ps) /\ Min(ps) <= b
    BY <2>1, <2>2
  <2>4. QED
    BY <1>2, <2>3
<1>3. CASE ps # {} /\ s # "sell"
  <2>1. b \in ps /\ \A p \in ps : b >= p
    BY <1>3 DEF IsBest, NoWorse
  <2>2. Max(ps) \in ps /\ \A p \in ps : Max(ps) >= p
    BY <2>1 DEF Max
  <2>3. b \in Nat /\ Max(ps) \in Nat /\ b >= Max(ps) /\ Max(ps) >= b
    BY <2>1, <2>2
  <2>4. QED
    BY <1>3, <2>3
<1>4. QED
  BY <1>1, <1>2, <1>3

\* A list that ended: the pages read are those the answer speaks of.
LEMMA SoEndOf ==
    ASSUME NEW s \in Sides, SoSide(s), BookOf(s) \in Books, ~ShouldFetch(s)
    PROVE  /\ Covered(BookOf(s)) = PagesRead(s)
           /\ Hits(BookOf(s)) # {} /\ soAt[s] <= PageCap => soHit[s] # 0
<1> DEFINE book == BookOf(s)
           at == soAt[s]
           hit == soHit[s]
<1>1. /\ at \in Nat /\ at >= 1 /\ at <= PageCap + 1 /\ at <= Len(book) + 1
      /\ PageCap \in Nat /\ ExtraPages \in Nat /\ Len(book) \in Nat /\ hit \in Nat
      /\ DOMAIN book = 1..Len(book)
      /\ at > Len(book) \/ at > PageCap \/ (hit # 0 /\ at > hit + ExtraPages)
  BY BookPages, StationOrdersAssumption DEF SoSide, ShouldFetch
<1>2. PagesRead(s) = 1..at - 1 /\ PagesRead(s) \subseteq DOMAIN book
  BY <1>1 DEF PagesRead
<1>3. Hits(book) \subseteq 1..Len(book)
  BY <1>1 DEF Hits
<1>4. CASE hit = 0
  <2>1. \A h \in Hits(book) : h >= at
    BY <1>1, <1>2, <1>4 DEF SoSide, Hits
  <2>2. Hits(book) # {} => Min(Hits(book)) \in Hits(book)
    <3>1. \A T \in SUBSET Nat : T # {} => \E n \in T : \A m \in T : n <= m
      BY Least
    <3>2. Hits(book) \in SUBSET Nat
      BY <1>3
    <3>3. QED
      BY <3>1, <3>2 DEF Min
  <2>3. ASSUME NEW i \in PagesRead(s)
        PROVE  i \in Covered(book)
    <3>1. i \in DOMAIN book /\ i <= PageCap /\ i \in Nat /\ i < at
      BY <1>1, <1>2
    <3>2. ASSUME NEW h \in Hits(book)
          PROVE  i <= Min(Hits(book)) + ExtraPages
      <4>1. Min(Hits(book)) \in Nat /\ Min(Hits(book)) >= at
        BY <1>3, <2>1, <2>2
      <4>2. QED
        BY <1>1, <3>1, <4>1
    <3>3. QED
      BY <3>1, <3>2 DEF Covered
  <2>4. ASSUME NEW i \in Covered(book)
        PROVE  i \in PagesRead(s)
    <3>1. i \in 1..Len(book) /\ i <= PageCap
      BY <1>1 DEF Covered
    <3>2. QED
      BY <1>1, <1>2, <1>4, <3>1
  <2>5. Hits(book) # {} => at > PageCap
    <3>1. ASSUME NEW h \in Hits(book)
          PROVE  at > PageCap
      <4>1. h \in Nat /\ h <= Len(book) /\ h >= at
        BY <1>3, <2>1
      <4>2. QED
        BY <1>1, <1>4, <4>1
    <3>2. QED
      BY <3>1
  <2>6. QED
    BY <1>1, <2>3, <2>4, <2>5
<1>5. CASE hit # 0
  <2>1. /\ hit \in 1..at - 1 /\ book[hit] # {} /\ at <= hit + ExtraPages + 1
        /\ \A i \in 1..hit - 1 : book[i] = {}
    BY <1>2, <1>5 DEF SoSide
  <2>2. hit \in Hits(book) /\ \A h \in Hits(book) : h >= hit
    BY <1>1, <1>3, <2>1 DEF Hits
  <2>3. Min(Hits(book)) = hit
    <3>1. Min(Hits(book)) \in Hits(book) /\ \A h \in Hits(book) : Min(Hits(book)) <= h
      BY <2>2 DEF Min
    <3>2. Min(Hits(book)) \in Nat /\ Min(Hits(book)) >= hit /\ Min(Hits(book)) <= hit
      BY <1>3, <2>2, <3>1
    <3>3. QED
      BY <1>1, <3>2
  <2>4. ASSUME NEW i \in 1..Len(book)
        PROVE  i \in Covered(book) <=> i \in PagesRead(s)
    <3>1. i \in Covered(book) <=> i <= PageCap /\ i <= hit + ExtraPages
      BY <1>1, <2>2, <2>3 DEF Covered
    <3>2. i \in PagesRead(s) <=> i < at
      BY <1>1, <1>2
    <3>3. QED
      BY <1>1, <2>1, <3>1, <3>2
  <2>5. Covered(book) \subseteq 1..Len(book) /\ PagesRead(s) \subseteq 1..Len(book)
    BY <1>1, <1>2 DEF Covered
  <2>6. QED
    BY <1>5, <2>4, <2>5
<1>6. QED
  BY <1>4, <1>5

LEMMA SoInvBest == SoInv => SoBestPrice
<1> SUFFICES ASSUME SoInv, SoEnded, NEW s \in Sides
             PROVE  LET seen == UNION {BookOf(s)[i] : i \in Covered(BookOf(s))} IN
                    /\ soBest[s] = CASE seen = {} -> NoPrice
                                     [] seen # {} /\ s = "sell" -> Min(seen)
                                     [] OTHER -> Max(seen)
                    /\ soBest[s] = NoPrice /\ ~Capped => Hits(BookOf(s)) = {}
  BY DEF SoBestPrice
<1>1. SoSide(s) /\ BookOf(s) \in Books /\ ~ShouldFetch(s)
  BY DEF SoInv, SoEnded, BookOf
<1>2. /\ Covered(BookOf(s)) = PagesRead(s)
      /\ Hits(BookOf(s)) # {} /\ soAt[s] <= PageCap => soHit[s] # 0
  BY <1>1, SoEndOf
<1>3. OrdersRead(s) \in SUBSET (Nat \ {0})
  <2>1. \A i \in PagesRead(s) : i \in 1..Len(BookOf(s))
    BY <1>1, BookPages DEF PagesRead, SoSide
  <2>2. \A i \in PagesRead(s) : BookOf(s)[i] \in SUBSET (Nat \ {0})
    BY <1>1, <2>1, BookPages
  <2>3. QED
    BY <2>2 DEF OrdersRead
<1>4. IsBest(s, soBest[s], OrdersRead(s))
  BY <1>1 DEF SoSide
<1>5. OrdersRead(s) = UNION {BookOf(s)[i] : i \in Covered(BookOf(s))}
  BY <1>2 DEF OrdersRead
<1>6. ASSUME soBest[s] = NoPrice, ~Capped
      PROVE  Hits(BookOf(s)) = {}
  <2>1. OrdersRead(s) = {}
    BY <1>3, <1>4, <1>6 DEF IsBest, NoPrice
  <2>2. soHit[s] = 0
    BY <1>1, <2>1 DEF SoSide, OrdersRead
  <2>3. soAt[s] <= PageCap
    BY <1>1, <1>6, StationOrdersAssumption DEF Capped, SoSide
  <2>4. QED
    BY <1>2, <2>2, <2>3
<1>7. QED
  BY <1>3, <1>4, <1>5, <1>6, BestIs

(***************************************************************************)
(* The answer of fetchStationOrders is the best price of the pages it      *)
(* speaks of, for every two lists of orders, every cap and every number of *)
(* extra pages, and no price means that there is none                      *)
(* (esiMarketCache.js:281).                                                *)
(***************************************************************************)
THEOREM BestPriceHolds == SoSpec => []SoBestPrice
BY SoInitInv, SoNextInv, SoInvBest, PTL DEF SoSpec
-----------------------------------------------------------------------------
(***************************************************************************)
(* The dev bridge: no developer command is dropped unseen.                 *)
(***************************************************************************)
(***************************************************************************)
(* Streams and batches.                                                    *)
(***************************************************************************)
\* What an append does to the entries.
LEMMA AppendSet ==
    ASSUME NEW S, NEW s \in Seq(S), NEW e \in S
    PROVE  Append(s, e) \in Seq(S) /\ ToSet(Append(s, e)) = ToSet(s) \cup {e}
<1>1. /\ Append(s, e) \in Seq(S)
      /\ DOMAIN s = 1..Len(s) /\ Len(s) \in Nat
      /\ DOMAIN Append(s, e) = 1..Len(s) + 1
      /\ \A k \in 1..Len(s) : Append(s, e)[k] = s[k]
      /\ Append(s, e)[Len(s) + 1] = e
  OBVIOUS
<1>2. QED
  BY <1>1 DEF ToSet

\* What goes and what stays when the first entry is taken.
LEMMA TakeSet ==
    ASSUME NEW S, NEW s \in Seq(S), s # <<>>
    PROVE  /\ Head(s) \in S /\ Tail(s) \in Seq(S)
           /\ ToSet(s) = {Head(s)} \cup ToSet(Tail(s))
<1>1. /\ Len(s) \in Nat \ {0} /\ DOMAIN s = 1..Len(s)
      /\ Head(s) = s[1] /\ Head(s) \in S
      /\ Tail(s) \in Seq(S)
      /\ Len(Tail(s)) = Len(s) - 1 /\ DOMAIN Tail(s) = 1..Len(s) - 1
      /\ \A k \in 1..Len(s) - 1 : Tail(s)[k] = s[k + 1]
  OBVIOUS
<1>2. ASSUME NEW k \in 1..Len(s)
      PROVE  s[k] \in {Head(s)} \cup ToSet(Tail(s))
  <2>1. CASE k = 1
    BY <1>1, <2>1
  <2>2. CASE k # 1
    <3>1. k - 1 \in 1..Len(s) - 1 /\ Tail(s)[k - 1] = s[k]
      BY <1>1, <2>2
    <3>2. QED
      BY <1>1, <3>1 DEF ToSet
  <2>3. QED
    BY <2>1, <2>2
<1>3. QED
  BY <1>1, <1>2 DEF ToSet

\* A receive returns a sequence of commands.
LEMMA BatchType == \A batch \in DbBatches : batch \in Seq(DevCmds)
<1> TAKE batch \in DbBatches
<1>1. PICK s \in SUBSET DevCmds : batch \in SetToSeqs(s)
  BY DEF DbBatches, SetToAllKPermutations
<1>2. Cardinality(s) \in Nat
  BY DevBridgeAssumption, FS_Subset, FS_CardinalityType
<1>3. batch \in [1..Cardinality(s) -> s]
  BY <1>1 DEF SetToSeqs
<1>4. QED
  BY <1>2, <1>3
-----------------------------------------------------------------------------
(***************************************************************************)
(* The invariant.  A message is deleted only when its command is Beyond    *)
(* the queue, and a result only when it was shown.                         *)
(***************************************************************************)
Seen(c) == dbReply[c] \in {"failed", "answer"} \/ c \in dbLost
OnItsWay(c) == c \in ToSet(dbStream) \/ c \in ToSet(dbResults) \/ dbQueue[c] > 0
Beyond(c) == Seen(c) \/ OnItsWay(c)

Forwarded == dbBatch # <<>> /\ dbStep = "delete" => Beyond(Head(dbBatch))
Held ==
    /\ dbHold # NoCmd => dbQueue[dbHold] > 0
    /\ dbHandled => dbHold # NoCmd /\ dbReply[dbHold] = "answer"
Routed ==
    \A c \in DevCmds :
        /\ c \in dbPending => dbRouter[c] = "done"
        /\ dbRouter[c] # "done" => dbReply[c] = "none"
Traced == \A c \in DevCmds : dbRouter[c] = "idle" \/ c \in dbSqs \/ Beyond(c)

DbInv == DbTypeOK /\ Forwarded /\ Held /\ Routed /\ Traced

LEMMA DbInit_Inv == DbInit => DbInv
<1> SUFFICES ASSUME DbInit
             PROVE  DbInv
  OBVIOUS
<1> USE DevBridgeAssumption, FaultsAssumption DEF DbInit
<1>0. dbHandled \in BOOLEAN
  BY Zenon
<1>1. DbTypeOK
  BY <1>0 DEF DbTypeOK
<1>2. Forwarded /\ Held
  BY DEF Forwarded, Held
<1>3. Routed /\ Traced
  BY DEF Routed, Traced
<1>4. QED
  BY <1>1, <1>2, <1>3 DEF DbInv

LEMMA DbNext_Inv == DbInv /\ [DbNext]_dbVars => DbInv'
<1> SUFFICES ASSUME DbInv, [DbNext]_dbVars
             PROVE  DbInv'
  OBVIOUS
<1> USE DevBridgeAssumption, FaultsAssumption
    DEF DbInv, DbTypeOK, Fault, NoFault, dbProd, dbDev, dbRedis, dbPoll, DbShow, DbRouterAt,
        DbTakePending, DbLeaveBatch
<1>0. /\ dbBatch # <<>> => Head(dbBatch) \in DevCmds
      /\ dbHold # NoCmd => dbQueue[dbHold] \in Nat \ {0}
  BY TakeSet DEF Held
<1>1. ASSUME NEW c \in DevCmds, DbPublish(c)
      PROVE  DbInv'
  BY <1>1 DEF DbPublish, Forwarded, Held, Routed, Traced, Beyond, Seen, OnItsWay
<1>2. ASSUME NEW c \in DevCmds, DbPublishFails(c)
      PROVE  DbInv'
  <2>1. DbTypeOK'
    BY <1>2 DEF DbPublishFails
  <2>2. Forwarded'
    BY <1>0, <1>2 DEF DbPublishFails, Forwarded, Beyond, Seen, OnItsWay
  <2>3. Held'
    BY <1>2 DEF DbPublishFails, Held, Routed
  <2>4. Routed'
    BY <1>2 DEF DbPublishFails, Routed
  <2>5. Traced'
    BY <1>2 DEF DbPublishFails, Traced, Beyond, Seen, OnItsWay
  <2>6. QED
    BY <2>1, <2>2, <2>3, <2>4, <2>5
<1>3. ASSUME NEW c \in DevCmds, DbRegister(c)
      PROVE  DbInv'
  <2>0. dbHandled' \in BOOLEAN
    BY <1>3, Zenon DEF DbRegister
  <2>1. DbTypeOK'
    BY <1>3, <2>0, <1>0 DEF DbRegister
  <2>2. Forwarded'
    BY <1>3, <1>0 DEF DbRegister, Held, Routed, Forwarded, Beyond, Seen, OnItsWay
  <2>3. Held'
    BY <1>3 DEF DbRegister, Held, Routed
  <2>4. Routed'
    BY <1>3 DEF DbRegister, Routed
  <2>5. Traced'
    BY <1>3 DEF DbRegister, Held, Routed, Traced, Beyond, Seen, OnItsWay
  <2>6. QED
    BY <2>1, <2>2, <2>3, <2>4, <2>5
<1>4. ASSUME NEW c \in DevCmds, DbPollReceive(c)
      PROVE  DbInv'
  <2>0. dbHandled' \in BOOLEAN
    BY <1>4, Zenon DEF DbPollReceive
  <2>1. DbTypeOK'
    BY <1>4, <2>0, <1>0 DEF DbPollReceive
  <2>2. Forwarded'
    BY <1>4, <1>0 DEF DbPollReceive, Held, Routed, Forwarded, Beyond, Seen, OnItsWay
  <2>3. Held'
    BY <1>4 DEF DbPollReceive, Held, Routed
  <2>4. Routed'
    BY <1>4 DEF DbPollReceive, Routed
  <2>5. Traced'
    BY <1>4 DEF DbPollReceive, Held, Routed, Traced, Beyond, Seen, OnItsWay
  <2>6. QED
    BY <2>1, <2>2, <2>3, <2>4, <2>5
<1>5. ASSUME NEW batch \in DbBatches, DbReceive(batch)
      PROVE  DbInv'
  BY <1>5, BatchType DEF DbReceive, Forwarded, Held, Routed, Traced, Beyond, Seen, OnItsWay
<1>6. CASE DbForward
  <2>1. /\ Head(dbBatch) \in DevCmds
        /\ dbStream' \in Seq(DevCmds)
        /\ ToSet(dbStream') = ToSet(dbStream) \cup {Head(dbBatch)}
    BY <1>6, TakeSet, AppendSet DEF DbForward
  <2>2. QED
    BY <1>6, <2>1 DEF DbForward, Forwarded, Held, Routed, Traced, Beyond, Seen, OnItsWay
<1>7. CASE DbDelete
  <2>1. Head(dbBatch) \in DevCmds /\ Tail(dbBatch) \in Seq(DevCmds)
    BY <1>7, TakeSet DEF DbDelete
  <2>2. QED
    BY <1>7, <2>1 DEF DbDelete, Forwarded, Held, Routed, Traced, Beyond, Seen, OnItsWay
<1>8. CASE DbAbort
  <2>1. /\ dbStream' \in Seq(DevCmds)
        /\ ToSet(dbStream) \subseteq ToSet(dbStream')
    <3>1. CASE dbStream' = dbStream
      BY <3>1
    <3>2. CASE dbStream' = Append(dbStream, Head(dbBatch))
      BY <1>0, <1>8, <3>2, AppendSet DEF DbAbort
    <3>3. QED
      BY <1>8, <3>1, <3>2 DEF DbAbort
  <2>2. <<>> \in Seq(DevCmds)
    OBVIOUS
  <2>3. QED
    BY <1>8, <2>1, <2>2 DEF DbAbort, Forwarded, Held, Routed, Traced, Beyond, Seen, OnItsWay
<1>9. CASE DbExecute
  <2>1. /\ dbStream' \in Seq(DevCmds) /\ dbResults' \in Seq(DevCmds)
        /\ ToSet(dbStream) = {Head(dbStream)} \cup ToSet(dbStream')
        /\ ToSet(dbResults') = ToSet(dbResults) \cup {Head(dbStream)}
    BY <1>9, TakeSet, AppendSet DEF DbExecute
  <2>2. QED
    BY <1>9, <2>1 DEF DbExecute, Forwarded, Held, Routed, Traced, Beyond, Seen, OnItsWay
<1>10. CASE DbExecuteFails
  <2>1. /\ Head(dbStream) \in DevCmds /\ dbStream' \in Seq(DevCmds)
        /\ ToSet(dbStream) = {Head(dbStream)} \cup ToSet(dbStream')
    BY <1>10, TakeSet DEF DbExecuteFails
  <2>2. QED
    BY <1>10, <2>1 DEF DbExecuteFails, Forwarded, Held, Routed, Traced, Beyond, Seen, OnItsWay
<1>11. CASE DbPublishResult
  <2>1. /\ Head(dbResults) \in DevCmds /\ dbResults' \in Seq(DevCmds)
        /\ ToSet(dbResults) = {Head(dbResults)} \cup ToSet(dbResults')
    BY <1>11, TakeSet DEF DbPublishResult
  <2>2. QED
    BY <1>11, <2>1 DEF DbPublishResult, Forwarded, Held, Routed, Traced, Beyond, Seen, OnItsWay
<1>12. CASE DbPublishResultFails
  <2>1. /\ Head(dbResults) \in DevCmds /\ dbResults' \in Seq(DevCmds)
        /\ ToSet(dbResults) = {Head(dbResults)} \cup ToSet(dbResults')
    BY <1>12, TakeSet DEF DbPublishResultFails
  <2>2. QED
    BY <1>12, <2>1
    DEF DbPublishResultFails, Forwarded, Held, Routed, Traced, Beyond, Seen, OnItsWay
<1>13. CASE DbAnswer
  <2>0. dbHandled' \in BOOLEAN
    BY <1>13, Zenon DEF DbAnswer
  <2>1. DbTypeOK'
    BY <1>13, <2>0, <1>0 DEF DbAnswer
  <2>2. Forwarded'
    BY <1>13, <1>0 DEF DbAnswer, Held, Routed, Forwarded, Beyond, Seen, OnItsWay
  <2>3. Held'
    BY <1>13 DEF DbAnswer, Held, Routed
  <2>4. Routed'
    BY <1>13 DEF DbAnswer, Routed
  <2>5. Traced'
    BY <1>13 DEF DbAnswer, Held, Routed, Traced, Beyond, Seen, OnItsWay
  <2>6. QED
    BY <2>1, <2>2, <2>3, <2>4, <2>5
<1>14. CASE DbAnswerFails
  <2>0. dbHandled' \in BOOLEAN
    BY <1>14, Zenon DEF DbAnswerFails
  <2>1. DbTypeOK'
    BY <1>14, <2>0, <1>0 DEF DbAnswerFails
  <2>2. Forwarded'
    BY <1>14, <1>0 DEF DbAnswerFails, Held, Routed, Forwarded, Beyond, Seen, OnItsWay
  <2>3. Held'
    BY <1>14 DEF DbAnswerFails, Held, Routed
  <2>4. Routed'
    BY <1>14 DEF DbAnswerFails, Routed
  <2>5. Traced'
    BY <1>14 DEF DbAnswerFails, Held, Routed, Traced, Beyond, Seen, OnItsWay
  <2>6. QED
    BY <2>1, <2>2, <2>3, <2>4, <2>5
<1>15. CASE DbUnhandled
  <2>0. dbHandled' \in BOOLEAN
    BY <1>15, Zenon DEF DbUnhandled
  <2>1. DbTypeOK'
    BY <1>15, <2>0, <1>0 DEF DbUnhandled
  <2>2. Forwarded'
    BY <1>15, <1>0 DEF DbUnhandled, Held, Routed, Forwarded, Beyond, Seen, OnItsWay
  <2>3. Held'
    BY <1>15 DEF DbUnhandled, Held, Routed
  <2>4. Routed'
    BY <1>15 DEF DbUnhandled, Routed
  <2>5. Traced'
    BY <1>15 DEF DbUnhandled, Held, Routed, Traced, Beyond, Seen, OnItsWay
  <2>6. QED
    BY <2>1, <2>2, <2>3, <2>4, <2>5
<1>16. CASE DbPollDelete
  <2>0. dbHandled' \in BOOLEAN
    BY <1>16, Zenon DEF DbPollDelete
  <2>1. DbTypeOK'
    BY <1>16, <2>0, <1>0 DEF DbPollDelete
  <2>2. Forwarded'
    BY <1>16, <1>0 DEF DbPollDelete, Held, Routed, Forwarded, Beyond, Seen, OnItsWay
  <2>3. Held'
    BY <1>16 DEF DbPollDelete, Held, Routed
  <2>4. Routed'
    BY <1>16 DEF DbPollDelete, Routed
  <2>5. Traced'
    BY <1>16 DEF DbPollDelete, Held, Routed, Traced, Beyond, Seen, OnItsWay
  <2>6. QED
    BY <2>1, <2>2, <2>3, <2>4, <2>5
<1>17. CASE DbPollDeleteFails
  <2>0. dbHandled' \in BOOLEAN
    BY <1>17, Zenon DEF DbPollDeleteFails
  <2>1. DbTypeOK'
    BY <1>17, <2>0, <1>0 DEF DbPollDeleteFails
  <2>2. Forwarded'
    BY <1>17, <1>0 DEF DbPollDeleteFails, Held, Routed, Forwarded, Beyond, Seen, OnItsWay
  <2>3. Held'
    BY <1>17 DEF DbPollDeleteFails, Held, Routed
  <2>4. Routed'
    BY <1>17 DEF DbPollDeleteFails, Routed
  <2>5. Traced'
    BY <1>17 DEF DbPollDeleteFails, Held, Routed, Traced, Beyond, Seen, OnItsWay
  <2>6. QED
    BY <2>1, <2>2, <2>3, <2>4, <2>5
<1>18. CASE DbCrash
  <2>0. dbHandled' \in BOOLEAN
    BY <1>18, Zenon DEF DbCrash
  <2>1. DbTypeOK'
    BY <1>18, <2>0, <1>0 DEF DbCrash
  <2>2. Forwarded'
    BY <1>18, <1>0 DEF DbCrash, Held, Routed, Forwarded, Beyond, Seen, OnItsWay
  <2>3. Held'
    BY <1>18 DEF DbCrash, Held, Routed
  <2>4. Routed'
    BY <1>18 DEF DbCrash, Routed
  <2>5. Traced'
    BY <1>18 DEF DbCrash, Held, Routed, Traced, Beyond, Seen, OnItsWay
  <2>6. QED
    BY <2>1, <2>2, <2>3, <2>4, <2>5
<1>19. CASE UNCHANGED dbVars
  BY <1>19 DEF dbVars, Forwarded, Held, Routed, Traced, Beyond, Seen, OnItsWay
<1>20. QED
  BY <1>1, <1>2, <1>3, <1>4, <1>5, <1>6, <1>7, <1>8, <1>9, <1>10, <1>11, <1>12, <1>13, <1>14,
     <1>15, <1>16, <1>17, <1>18, <1>19 DEF DbNext

\* A command that was published is in a queue or a stream, or its user saw the answer or the
\* failure, or a step that drops it was seen: whatever calls fail, whichever messages come
\* again, whenever a master restarts (runDevSqsCommandConsumer.js:96, startProdBridge.js:64).
THEOREM CommandKept == DbSpec => []DbCommandKept
<1>1. DbInv => DbCommandKept
  BY DEF DbInv, Traced, Beyond, Seen, OnItsWay, DbCommandKept
<1>2. QED
  BY DbInit_Inv, DbNext_Inv, <1>1, PTL DEF DbSpec
-----------------------------------------------------------------------------
(***************************************************************************)
(* The hangar.  A chain of rows leads from the structure to what the walk  *)
(* looks at; ids grow along it, because what an item lies in has a lower   *)
(* one.                                                                    *)
(***************************************************************************)
Climbs(rows, s) ==
    /\ s \in Seq(rows) /\ s # <<>>
    /\ s[1].loc = Structure
    /\ \A k \in 1..Len(s) - 1 : s[k + 1].loc = s[k].id
    /\ \A j, k \in 1..Len(s) : j < k => s[j].id < s[k].id

Top(s) == s[Len(s)]
BoxBefore(s) == IF Len(s) = 1 THEN NoBox ELSE s[Len(s) - 1].id

\* The division the walk gives the end of a chain: of the nearest hangar, unless something
\* fitted comes after the first.
NoHangar(s) == \A k \in 1..Len(s) : ~IsRoot(s[k])
InHangar(s, sag) ==
    \E first, last \in 1..Len(s) :
        /\ IsRoot(s[first]) /\ IsRoot(s[last]) /\ sag = s[last].flag
        /\ \A k \in 1..Len(s) : IsRoot(s[k]) => first <= k /\ k <= last
        /\ \A k \in 1..Len(s) : k > first => s[k].flag # "other"
Way(s, sag) == IF sag = NoSag THEN NoHangar(s) ELSE InHangar(s, sag)

\* Something fitted after the first hangar.
Blocked(s) ==
    \E first, k \in 1..Len(s) :
        /\ IsRoot(s[first]) /\ \A j \in 1..Len(s) : IsRoot(s[j]) => first <= j
        /\ k > first /\ s[k].flag = "other"

Rising == {r \in AssetRows : r.loc < r.id}

LEMMA RowFacts ==
    ASSUME NEW r \in Rising
    PROVE  /\ r.id \in Nat \ {0} /\ r.loc \in Nat /\ r.id \in Stuff /\ r.loc \in Stuff \cup {Structure}
           /\ r.loc < r.id
           /\ IsRoot(r) => r.flag # NoSag /\ r.flag # "other"
           /\ ~IsRoot(r) => r.flag \in {"content", "other"}
<1>1. /\ r \in AssetRows /\ r.loc < r.id
  BY DEF Rising
<1>2. r.id \in Stuff /\ r.loc \in Stuff \cup {Structure} /\ r.flag \in Flags
  BY <1>1 DEF AssetRows
<1>3. r.id \in Nat \ {0} /\ r.loc \in Nat
  <2>1. Stuff \subseteq Nat \ {0}
    BY HangarAssumption
  <2>2. \A x \in Stuff \cup {Structure} : x \in Nat
    BY <2>1 DEF Structure
  <2>3. QED
    BY <1>2, <2>1, <2>2
<1>4. QED
  BY <1>1, <1>2, <1>3, HangarAssumption DEF IsRoot, Flags

LEMMA LastRow ==
    ASSUME NEW rows \in SUBSET Rising, NEW s, Climbs(rows, s)
    PROVE  /\ Len(s) \in Nat \ {0} /\ DOMAIN s = 1..Len(s)
           /\ \A k \in 1..Len(s) : s[k] \in rows
           /\ Top(s) \in rows
<1>1. /\ Len(s) \in Nat \ {0} /\ DOMAIN s = 1..Len(s)
      /\ \A k \in 1..Len(s) : s[k] \in rows
  BY DEF Climbs
<1>2. QED
  BY <1>1 DEF Top

\* A row that lies in the end of a chain makes a chain.
LEMMA OneUp ==
    ASSUME NEW rows \in SUBSET Rising, NEW s, Climbs(rows, s),
           NEW c \in rows, c.loc = Top(s).id
    PROVE  LET t == Append(s, c) IN
           /\ Climbs(rows, t) /\ Len(t) = Len(s) + 1 /\ Top(t) = c /\ t[Len(s) + 1] = c
           /\ \A k \in 1..Len(s) : t[k] = s[k]
           /\ BoxBefore(t) = Top(s).id
<1> DEFINE t == Append(s, c)
           n == Len(s)
<1>1. /\ n \in Nat \ {0} /\ \A k \in 1..n : s[k] \in rows
  BY LastRow
<1>2. /\ t \in Seq(rows) /\ t # <<>> /\ Len(t) = n + 1 /\ t[n + 1] = c
      /\ \A k \in 1..n : t[k] = s[k]
  BY <1>1 DEF Climbs
<1> HIDE DEF t
<1>3. t[1].loc = Structure
  BY <1>1, <1>2 DEF Climbs
<1>4. \A k \in 1..n : t[k + 1].loc = t[k].id
  <2>1. ASSUME NEW k \in 1..n
        PROVE  t[k + 1].loc = t[k].id
    <3>1. CASE k = n
      BY <1>1, <1>2, <3>1 DEF Top
    <3>2. CASE k # n
      <4>1. k \in 1..n - 1 /\ k + 1 \in 1..n
        BY <1>1, <3>2
      <4>2. QED
        BY <1>2, <4>1 DEF Climbs
    <3>3. QED
      BY <3>1, <3>2
  <2>2. QED
    BY <2>1
<1>5. \A k \in 1..n : s[k].id < c.id
  <2>1. s[n].id \in Nat /\ c.id \in Nat /\ s[n].id < c.id
    BY <1>1, RowFacts DEF Top
  <2>2. ASSUME NEW k \in 1..n
        PROVE  s[k].id < c.id
    <3>1. s[k].id \in Nat
      BY <1>1, RowFacts
    <3>2. k = n \/ s[k].id < s[n].id
      BY <1>1 DEF Climbs
    <3>3. QED
      BY <2>1, <3>1, <3>2
  <2>3. QED
    BY <2>2
<1>6. \A j, k \in 1..n + 1 : j < k => t[j].id < t[k].id
  <2>1. ASSUME NEW j \in 1..n + 1, NEW k \in 1..n + 1, j < k
        PROVE  t[j].id < t[k].id
    <3>1. j \in 1..n
      BY <1>1, <2>1
    <3>2. CASE k = n + 1
      BY <1>2, <1>5, <3>1, <3>2
    <3>3. CASE k # n + 1
      <4>1. k \in 1..n
        BY <1>1, <3>3
      <4>2. QED
        BY <1>2, <2>1, <3>1, <4>1 DEF Climbs
    <3>4. QED
      BY <3>2, <3>3
  <2>2. QED
    BY <2>1
<1>7. Climbs(rows, t)
  <2>1. Len(t) - 1 = n
    BY <1>1, <1>2
  <2>2. QED
    BY <1>2, <1>3, <1>4, <1>6, <2>1 DEF Climbs
<1>8. Top(t) = c
  BY <1>2 DEF Top
<1>9. BoxBefore(t) = Top(s).id
  <2>1. Len(t) # 1 /\ Len(t) - 1 = n /\ n \in 1..n
    BY <1>1, <1>2
  <2>2. QED
    BY <1>2, <2>1 DEF BoxBefore, Top
<1>10. QED
  BY <1>2, <1>7, <1>8, <1>9 DEF t

\* Where it leads: as Followed says, and with the division the next entry gets.
LEMMA OneWayUp ==
    ASSUME NEW rows \in SUBSET Rising, NEW s, Climbs(rows, s),
           NEW c \in rows, c.loc = Top(s).id, NEW sag, Way(s, sag), Followed(sag, c)
    PROVE  Way(Append(s, c), IF IsRoot(c) THEN c.flag ELSE sag)
<1> DEFINE n == Len(s)
<1>0. /\ n \in Nat \ {0} /\ \A k \in 1..n : s[k] \in rows
  BY LastRow
<1>1. PICK t : t = Append(s, c)
  OBVIOUS
<1>2. Len(t) = n + 1 /\ t[n + 1] = c /\ \A k \in 1..n : t[k] = s[k]
  BY <1>1, OneUp
<1>3. /\ IsRoot(c) => c.flag # NoSag /\ c.flag # "other"
      /\ ~IsRoot(c) => c.flag \in {"content", "other"}
  BY RowFacts
<1>4. CASE IsRoot(c) /\ NoHangar(s)
  <2>1. InHangar(t, c.flag)
    <3>1. \A k \in 1..n + 1 : IsRoot(t[k]) => k = n + 1
      BY <1>0, <1>2, <1>4 DEF NoHangar
    <3>2. n + 1 \in 1..n + 1 /\ \A k \in 1..n + 1 : k <= n + 1 /\ ~(k > n + 1)
      BY <1>0
    <3>3. QED
      BY <1>2, <1>4, <3>1, <3>2 DEF InHangar
  <2>2. QED
    BY <1>1, <1>3, <1>4, <2>1 DEF Way
<1>5. CASE IsRoot(c) /\ sag # NoSag
  <2>1. PICK first \in 1..n, last \in 1..n :
          /\ IsRoot(s[first]) /\ IsRoot(s[last]) /\ sag = s[last].flag
          /\ \A k \in 1..n : IsRoot(s[k]) => first <= k /\ k <= last
          /\ \A k \in 1..n : k > first => s[k].flag # "other"
    BY <1>5 DEF Way, InHangar
  <2>2. InHangar(t, c.flag)
    <3>1. first \in 1..n + 1 /\ n + 1 \in 1..n + 1 /\ IsRoot(t[first]) /\ IsRoot(t[n + 1])
      BY <1>0, <1>2, <1>5, <2>1
    <3>2. ASSUME NEW k \in 1..n + 1
          PROVE  /\ IsRoot(t[k]) => first <= k /\ k <= n + 1
                 /\ k > first => t[k].flag # "other"
      <4>1. CASE k = n + 1
        BY <1>0, <1>2, <1>3, <1>5, <2>1, <4>1
      <4>2. CASE k # n + 1
        <5>1. k \in 1..n
          BY <1>0, <4>2
        <5>2. QED
          BY <1>0, <1>2, <2>1, <5>1
      <4>3. QED
        BY <4>1, <4>2
    <3>3. c.flag = t[n + 1].flag
      BY <1>2
    <3>4. QED
      BY <1>2, <3>1, <3>2, <3>3 DEF InHangar
  <2>3. QED
    BY <1>1, <1>3, <1>5, <2>2 DEF Way
<1>6. CASE ~IsRoot(c) /\ sag = NoSag
  <2>1. NoHangar(t)
    <3>1. \A k \in 1..n : ~IsRoot(s[k])
      BY <1>6 DEF Way, NoHangar
    <3>2. \A k \in 1..n + 1 : k = n + 1 \/ k \in 1..n
      BY <1>0
    <3>3. QED
      BY <1>2, <1>6, <3>1, <3>2 DEF NoHangar
  <2>2. QED
    BY <1>1, <1>6, <2>1 DEF Way
<1>7. CASE ~IsRoot(c) /\ sag # NoSag
  <2>1. PICK first \in 1..n, last \in 1..n :
          /\ IsRoot(s[first]) /\ IsRoot(s[last]) /\ sag = s[last].flag
          /\ \A k \in 1..n : IsRoot(s[k]) => first <= k /\ k <= last
          /\ \A k \in 1..n : k > first => s[k].flag # "other"
    BY <1>7 DEF Way, InHangar
  <2>2. c.flag # "other"
    BY <1>7 DEF Followed
  <2>3. InHangar(t, sag)
    <3>1. /\ first \in 1..n + 1 /\ last \in 1..n + 1 /\ IsRoot(t[first]) /\ IsRoot(t[last])
          /\ sag = t[last].flag
      BY <1>0, <1>2, <2>1
    <3>2. ASSUME NEW k \in 1..n + 1
          PROVE  /\ IsRoot(t[k]) => first <= k /\ k <= last
                 /\ k > first => t[k].flag # "other"
      <4>1. CASE k = n + 1
        BY <1>2, <1>7, <2>2, <4>1
      <4>2. CASE k # n + 1
        <5>1. k \in 1..n
          BY <1>0, <4>2
        <5>2. QED
          BY <1>2, <2>1, <5>1
      <4>3. QED
        BY <4>1, <4>2
    <3>3. QED
      BY <1>2, <3>1, <3>2 DEF InHangar
  <2>4. QED
    BY <1>1, <1>7, <2>3 DEF Way
<1>8. QED
  BY <1>4, <1>5, <1>6, <1>7 DEF Way

\* What is not followed is fitted, and everything in it counts for nothing.
LEMMA BlockedUp ==
    ASSUME NEW rows \in SUBSET Rising, NEW s, Climbs(rows, s),
           NEW c \in rows, c.loc = Top(s).id,
           Blocked(s) \/ \E sag : Way(s, sag) /\ ~Followed(sag, c)
    PROVE  Blocked(Append(s, c))
<1> DEFINE n == Len(s)
<1>0. /\ n \in Nat \ {0} /\ \A k \in 1..n : s[k] \in rows
  BY LastRow
<1>1. PICK t : t = Append(s, c)
  OBVIOUS
<1>2. Len(t) = n + 1 /\ t[n + 1] = c /\ \A k \in 1..n : t[k] = s[k]
  BY <1>1, OneUp
<1>3. \A k \in 1..n + 1 : k = n + 1 \/ k \in 1..n
  BY <1>0
<1>4. CASE Blocked(s)
  <2>1. PICK first \in 1..n, k \in 1..n :
          /\ IsRoot(s[first]) /\ \A j \in 1..n : IsRoot(s[j]) => first <= j
          /\ k > first /\ s[k].flag = "other"
    BY <1>4 DEF Blocked
  <2>2. first \in 1..n + 1 /\ k \in 1..n + 1 /\ first <= n + 1
    BY <1>0, <2>1
  <2>3. \A j \in 1..n + 1 : IsRoot(t[j]) => first <= j
    BY <1>2, <1>3, <2>1, <2>2
  <2>4. IsRoot(t[first]) /\ t[k].flag = "other"
    BY <1>2, <2>1
  <2>5. QED
    BY <1>1, <1>2, <2>1, <2>2, <2>3, <2>4 DEF Blocked
<1>5. CASE \E sag : Way(s, sag) /\ ~Followed(sag, c)
  <2>1. PICK sag : Way(s, sag) /\ ~Followed(sag, c)
    BY <1>5
  <2>2. c.flag = "other"
    BY <2>1, RowFacts DEF Followed
  <2>3. PICK first \in 1..n :
          IsRoot(s[first]) /\ \A k \in 1..n : IsRoot(s[k]) => first <= k
    BY <2>1 DEF Followed, Way, InHangar
  <2>4. first \in 1..n + 1 /\ n + 1 \in 1..n + 1 /\ n + 1 > first /\ first <= n + 1
    BY <1>0, <2>3
  <2>5. \A j \in 1..n + 1 : IsRoot(t[j]) => first <= j
    BY <1>2, <1>3, <2>3, <2>4
  <2>6. IsRoot(t[first]) /\ t[n + 1].flag = "other"
    BY <1>2, <2>2, <2>3
  <2>7. QED
    BY <1>1, <1>2, <2>4, <2>5, <2>6 DEF Blocked
<1>6. QED
  BY <1>4, <1>5

\* No chain is longer than there are items.
LEMMA ClimbsIsChain ==
    ASSUME hsRows \subseteq Rising, NEW s, Climbs(hsRows, s)
    PROVE  s \in ChainsTo(Top(s).id)
<1> DEFINE n == Len(s)
           f == [k \in 1..n |-> s[k].id]
<1>1. /\ n \in Nat \ {0} /\ DOMAIN s = 1..n /\ \A k \in 1..n : s[k] \in hsRows
  BY LastRow
<1>2. \A k \in 1..n : s[k].id \in Stuff /\ s[k].id \in Nat
  BY <1>1, RowFacts
<1>3. f \in Injection(1..n, Stuff)
  <2>1. f \in [1..n -> Stuff]
    BY <1>2
  <2>2. ASSUME NEW j \in 1..n, NEW k \in 1..n, f[j] = f[k]
        PROVE  j = k
    <3>1. s[j].id = s[k].id /\ s[j].id \in Nat
      BY <1>2, <2>2
    <3>2. ~(j < k) /\ ~(k < j)
      BY <1>2, <3>1 DEF Climbs
    <3>3. QED
      BY <1>1, <3>2
  <2> HIDE DEF f
  <2>3. QED
    BY <2>1, <2>2, Fun_IsInj
<1>4. n <= Cardinality(Stuff) /\ Cardinality(Stuff) \in Nat
  <2>1. IsFiniteSet(Stuff)
    BY HangarAssumption
  <2>2. Cardinality(1..n) = n
    BY <1>1, FS_Interval
  <2> HIDE DEF f
  <2>3. Cardinality(1..n) <= Cardinality(Stuff)
    BY <1>3, <2>1, FS_Injection
  <2>4. QED
    BY <2>1, <2>2, <2>3, FS_CardinalityType
<1>5. s \in [1..n -> hsRows] /\ n \in 1..Cardinality(Stuff)
  BY <1>1, <1>4 DEF Climbs
<1>6. s \in Chains
  BY <1>5 DEF Chains, Climbs
<1>7. QED
  BY <1>6 DEF ChainsTo, Top

\* The division and the container of the end of a chain are one of its places.
LEMMA PlaceOfChain ==
    ASSUME hsRows \subseteq Rising, NEW s, Climbs(hsRows, s), NEW sag, InHangar(s, sag)
    PROVE  [sag |-> sag, box |-> IF IsRoot(Top(s)) THEN NoBox ELSE BoxBefore(s)] \in PlacesOf(Top(s).id)
<1> DEFINE n == Len(s)
<1>1. /\ n \in Nat \ {0} /\ DOMAIN s = 1..n
  BY LastRow
<1>2. PICK first \in 1..n, last \in 1..n :
        /\ IsRoot(s[first]) /\ IsRoot(s[last]) /\ sag = s[last].flag
        /\ \A k \in 1..n : IsRoot(s[k]) => first <= k /\ k <= last
        /\ \A k \in 1..n : k > first => s[k].flag # "other"
  BY DEF InHangar
<1>3. /\ first \in RootsOf(s) /\ last \in RootsOf(s) /\ RootsOf(s) \subseteq 1..n
      /\ \A k \in RootsOf(s) : first <= k /\ k <= last
  BY <1>1, <1>2 DEF RootsOf
<1>4. Min(RootsOf(s)) = first
  <2>1. Min(RootsOf(s)) \in RootsOf(s) /\ \A k \in RootsOf(s) : Min(RootsOf(s)) <= k
    BY <1>3 DEF Min
  <2>2. Min(RootsOf(s)) \in Nat /\ Min(RootsOf(s)) <= first /\ first <= Min(RootsOf(s)) /\ first \in Nat
    BY <1>1, <1>3, <2>1
  <2>3. QED
    BY <2>2
<1>5. Max(RootsOf(s)) = last
  <2>1. Max(RootsOf(s)) \in RootsOf(s) /\ \A k \in RootsOf(s) : Max(RootsOf(s)) >= k
    BY <1>1, <1>3 DEF Max
  <2>2. Max(RootsOf(s)) \in Nat /\ Max(RootsOf(s)) >= last /\ last >= Max(RootsOf(s)) /\ last \in Nat
    BY <1>1, <1>3, <2>1
  <2>3. QED
    BY <2>2
<1>6. Open(s)
  BY <1>1, <1>2, <1>3, <1>4 DEF Open
<1>7. n = 1 => IsRoot(Top(s))
  BY <1>2 DEF Top
<1>8. s \in ChainsTo(Top(s).id)
  BY ClimbsIsChain
<1>9. [sag |-> s[Max(RootsOf(s))].flag,
       box |-> IF IsRoot(s[Len(s)]) THEN NoBox ELSE s[Len(s) - 1].id] \in PlacesOf(Top(s).id)
  BY <1>6, <1>8 DEF PlacesOf
<1>10. QED
  BY <1>2, <1>5, <1>7, <1>9 DEF Top, BoxBefore

LEMMA ClosedChain ==
    ASSUME hsRows \subseteq Rising, NEW s, Climbs(hsRows, s), NoHangar(s) \/ Blocked(s)
    PROVE  ~Open(s)
<1> DEFINE n == Len(s)
<1>1. /\ n \in Nat \ {0} /\ DOMAIN s = 1..n
  BY LastRow
<1>2. CASE NoHangar(s)
  BY <1>1, <1>2 DEF NoHangar, Open, RootsOf
<1>3. CASE Blocked(s)
  <2>1. PICK first \in 1..n, k \in 1..n :
          /\ IsRoot(s[first]) /\ \A j \in 1..n : IsRoot(s[j]) => first <= j
          /\ k > first /\ s[k].flag = "other"
    BY <1>3 DEF Blocked
  <2>2. /\ first \in RootsOf(s) /\ RootsOf(s) \subseteq 1..n /\ \A j \in RootsOf(s) : first <= j
    BY <1>1, <2>1 DEF RootsOf
  <2>3. Min(RootsOf(s)) = first
    <3>1. Min(RootsOf(s)) \in RootsOf(s) /\ \A j \in RootsOf(s) : Min(RootsOf(s)) <= j
      BY <2>2 DEF Min
    <3>2. /\ Min(RootsOf(s)) \in Nat /\ Min(RootsOf(s)) <= first
          /\ first <= Min(RootsOf(s)) /\ first \in Nat
      BY <1>1, <2>2, <3>1
    <3>3. QED
      BY <3>2
  <2>4. QED
    BY <1>1, <2>1, <2>3 DEF Open
<1>4. QED
  BY <1>2, <1>3

-----------------------------------------------------------------------------
(***************************************************************************)
(* The walk.  What it looks at is the end of a chain with that division;   *)
(* what it has seen lies where it says, and nothing it would follow is     *)
(* missing.                                                                *)
(***************************************************************************)
Leads(rows, e) ==
    \E s : Climbs(rows, s) /\ Top(s) = e.row /\ Way(s, e.sag) /\ e.parent = BoxBefore(s)

SeenRow(r) == r.id \in hsVisited \/ \E e \in hsFrontier : e.row = r

\* An item that was visited: how, what it was counted as, and that its contents come next.
Visited(i) ==
    \E s, sag :
        /\ Climbs(hsRows, s) /\ Top(s).id = i /\ Way(s, sag)
        /\ IF sag = NoSag
           THEN i \notin DOMAIN hsStock
           ELSE /\ i \in DOMAIN hsStock
                /\ hsStock[i] =
                     [sag |-> sag, box |-> IF IsRoot(Top(s)) THEN NoBox ELSE BoxBefore(s)]
        /\ \A r \in Below(i) : Followed(sag, r) => SeenRow(r)

Entries == [row : AssetRows, sag : Sags \cup {NoSag}, parent : Stuff \cup {NoBox}]

Walk ==
    /\ hsRows \subseteq Rising
    /\ hsRows # {} => \A i \in Stuff : \E r \in hsRows : r.id = i
    /\ hsFrontier \subseteq Entries /\ \A e \in hsFrontier : e.row \in hsRows /\ Leads(hsRows, e)
    /\ hsVisited \subseteq Stuff /\ DOMAIN hsStock \subseteq hsVisited
    /\ \A r \in hsRows : r.loc = Structure => SeenRow(r)
    /\ \A i \in hsVisited : Visited(i)

LEMMA WalkInit == HsInit => Walk
BY DEF HsInit, Walk

LEMMA FirstChain ==
    ASSUME NEW rows \in SUBSET Rising, NEW r \in rows, r.loc = Structure
    PROVE  Leads(rows, [row |-> r, sag |-> IF IsRoot(r) THEN r.flag ELSE NoSag, parent |-> NoBox])
<1> DEFINE s == <<r>>
<1>1. s \in Seq(rows) /\ s # <<>> /\ Len(s) = 1 /\ s[1] = r
  OBVIOUS
<1> HIDE DEF s
<1>2. Climbs(rows, s)
  BY <1>1 DEF Climbs
<1>3. Top(s) = r /\ BoxBefore(s) = NoBox
  BY <1>1 DEF Top, BoxBefore
<1>4. IsRoot(r) => r.flag # NoSag
  BY RowFacts
<1>5. IsRoot(r) => InHangar(s, r.flag)
  BY <1>1 DEF InHangar
<1>6. ~IsRoot(r) => NoHangar(s)
  BY <1>1 DEF NoHangar
<1>7. Way(s, IF IsRoot(r) THEN r.flag ELSE NoSag)
  BY <1>4, <1>5, <1>6 DEF Way
<1>8. QED
  BY <1>2, <1>3, <1>7 DEF Leads

LEMMA WalkFetch == Walk /\ HsFetch => Walk'
<1> SUFFICES ASSUME Walk, HsFetch
             PROVE  Walk'
  OBVIOUS
<1>1. PICK forest \in Forests, again \in Again : hsRows' = forest \cup again
  BY DEF HsFetch
<1>2. hsRows' \subseteq Rising
  <2>1. forest \subseteq Rising
    BY DEF Forests, kSubset, Rising
  <2>2. again \subseteq Rising
    <3>1. ASSUME NEW i \in Listed2, NEW s \in Sags
          PROVE  [id |-> i, loc |-> Structure, flag |-> s] \in Rising
      <4>1. i \in Stuff /\ Structure < i
        BY HangarAssumption DEF Structure
      <4>2. [id |-> i, loc |-> Structure, flag |-> s] \in AssetRows
        BY <4>1 DEF AssetRows, Flags
      <4>3. QED
        BY <4>1, <4>2 DEF Rising
    <3>2. QED
      BY <3>1 DEF Again
  <2>3. QED
    BY <1>1, <2>1, <2>2
<1>3. \A i \in Stuff : \E r \in hsRows' : r.id = i
  BY <1>1 DEF Forests
<1>4. hsVisited = {} /\ hsVisited' = {} /\ hsStock' = hsStock /\ DOMAIN hsStock \subseteq {}
  <2>1. hsRows = {} /\ UNCHANGED <<hsStock, hsVisited>>
    BY DEF HsFetch
  <2>2. \A i \in hsVisited : FALSE
    <3>1. \A s : ~Climbs({}, s)
      <4>1. ASSUME NEW s, Climbs({}, s)
            PROVE  FALSE
        <5>1. {} \in SUBSET Rising
          OBVIOUS
        <5>2. Top(s) \in {}
          BY <4>1, <5>1, LastRow
        <5>3. QED
          BY <5>2
      <4>2. QED
        BY <4>1
    <3>2. QED
      BY <2>1, <3>1 DEF Walk, Visited
  <2>3. QED
    BY <2>1, <2>2 DEF Walk
<1>5. hsFrontier' = {[row |-> r, sag |-> IF IsRoot(r) THEN r.flag ELSE NoSag, parent |-> NoBox]
                       : r \in {q \in hsRows' : q.loc = Structure}}
  BY DEF HsFetch
<1>6. \A e \in hsFrontier' : e \in Entries /\ e.row \in hsRows' /\ Leads(hsRows', e)
  <2>1. ASSUME NEW r \in hsRows', r.loc = Structure
        PROVE  LET e == [row |-> r, sag |-> IF IsRoot(r) THEN r.flag ELSE NoSag, parent |-> NoBox]
               IN  e \in Entries /\ e.row \in hsRows' /\ Leads(hsRows', e)
    <3>1. r \in AssetRows
      BY <1>2 DEF Rising
    <3>2. (IF IsRoot(r) THEN r.flag ELSE NoSag) \in Sags \cup {NoSag}
      BY DEF IsRoot
    <3>3. QED
      BY <1>2, <2>1, <3>1, <3>2, FirstChain DEF Entries
  <2>2. QED
    BY <1>5, <2>1
<1>7. \A r \in hsRows' : r.loc = Structure => SeenRow(r)'
  <2>1. ASSUME NEW r \in hsRows', r.loc = Structure
        PROVE  \E e \in hsFrontier' : e.row = r
    <3>1. PICK e : e = [row |-> r, sag |-> IF IsRoot(r) THEN r.flag ELSE NoSag, parent |-> NoBox]
      OBVIOUS
    <3>2. e \in hsFrontier' /\ e.row = r
      BY <1>5, <2>1, <3>1
    <3>3. QED
      BY <3>2
  <2>2. QED
    BY <2>1 DEF SeenRow
<1>8. QED
  BY <1>2, <1>3, <1>4, <1>6, <1>7 DEF Walk

\* What one turn of the loop does, in parts.
Next2(e, c) == [row |-> c, sag |-> IF IsRoot(c) THEN c.flag ELSE e.sag, parent |-> e.row.id]
Level(entries) ==
    LET ids == {e.row.id : e \in hsFrontier} \ hsVisited
        counted == {e \in entries : e.sag # NoSag} IN
    /\ entries \subseteq hsFrontier /\ {e.row.id : e \in entries} = ids
    /\ hsVisited' = hsVisited \cup ids
    /\ hsStock' = [i \in DOMAIN hsStock \cup {e.row.id : e \in counted} |->
            IF i \in DOMAIN hsStock THEN hsStock[i]
            ELSE LET e == CHOOSE f \in counted : f.row.id = i
                 IN [sag |-> e.sag, box |-> ContainerOf(e)]]
    /\ hsFrontier' = UNION {{Next2(e, c) : c \in {d \in Below(e.row.id) : Followed(e.sag, d)}}
                              : e \in entries}
    /\ hsRows' = hsRows

LEMMA LevelParts == HsLevel => \E entries : Level(entries)
BY DEF HsLevel, Level, Next2

LEMMA WalkLevel == Walk /\ HsLevel => Walk'
<1> SUFFICES ASSUME Walk, HsLevel
             PROVE  Walk'
  OBVIOUS
<1>1. PICK entries : Level(entries)
  BY LevelParts
<1> DEFINE ids == {e.row.id : e \in hsFrontier} \ hsVisited
           counted == {e \in entries : e.sag # NoSag}
<1>2. /\ entries \subseteq hsFrontier /\ {e.row.id : e \in entries} = ids
      /\ hsVisited' = hsVisited \cup ids /\ hsRows' = hsRows
      /\ \A e \in hsFrontier : e.row.id \in hsVisited'
  BY <1>1 DEF Level
<1>3. /\ \A e \in entries : \A c \in Below(e.row.id) : Followed(e.sag, c) => Next2(e, c) \in hsFrontier'
      /\ \A x \in hsFrontier' : \E e \in entries : \E c \in Below(e.row.id) :
            Followed(e.sag, c) /\ x = Next2(e, c)
  BY <1>1 DEF Level
<1>4. /\ DOMAIN hsStock' = DOMAIN hsStock \cup {e.row.id : e \in counted}
      /\ \A i \in DOMAIN hsStock : hsStock'[i] = hsStock[i]
      /\ \A i \in {e.row.id : e \in counted} : i \notin DOMAIN hsStock =>
            \E e \in counted : e.row.id = i /\ hsStock'[i] = [sag |-> e.sag, box |-> ContainerOf(e)]
  <2>1. hsStock' = [i \in DOMAIN hsStock \cup {e.row.id : e \in counted} |->
            IF i \in DOMAIN hsStock THEN hsStock[i]
            ELSE LET e == CHOOSE f \in counted : f.row.id = i
                 IN [sag |-> e.sag, box |-> ContainerOf(e)]]
    BY <1>1 DEF Level
  <2>2. ASSUME NEW i \in {e.row.id : e \in counted}, i \notin DOMAIN hsStock
        PROVE  \E e \in counted : e.row.id = i /\ hsStock'[i] = [sag |-> e.sag, box |-> ContainerOf(e)]
    <3>1. PICK e : e = CHOOSE f \in counted : f.row.id = i
      OBVIOUS
    <3>2. e \in counted /\ e.row.id = i
      BY <2>2, <3>1
    <3>3. hsStock'[i] = [sag |-> e.sag, box |-> ContainerOf(e)]
      BY <2>1, <2>2, <3>1
    <3>4. QED
      BY <3>2, <3>3
  <2> HIDE DEF counted
  <2>3. QED
    BY <2>1, <2>2
<1>5. \A e \in hsFrontier : e \in Entries /\ e.row \in hsRows /\ e.row.id \in Stuff /\ Leads(hsRows, e)
  BY DEF Walk, Entries, AssetRows
<1>6. \A r : SeenRow(r) => SeenRow(r)'
  BY <1>2 DEF SeenRow
<1>7. \A x \in hsFrontier' : x \in Entries /\ x.row \in hsRows' /\ Leads(hsRows', x)
  <2>1. ASSUME NEW e \in entries, NEW c \in Below(e.row.id), Followed(e.sag, c)
        PROVE  Next2(e, c) \in Entries /\ Next2(e, c).row \in hsRows /\ Leads(hsRows, Next2(e, c))
    <3>1. /\ c \in hsRows /\ c.loc = e.row.id /\ hsRows \in SUBSET Rising
          /\ e \in hsFrontier
      BY <1>2, <2>1 DEF Below, Walk
    <3>2. c \in AssetRows /\ e.row.id \in Stuff /\ e.sag \in Sags \cup {NoSag}
      BY <1>5, <3>1 DEF Rising, Entries
    <3>3. Next2(e, c) \in Entries /\ Next2(e, c).row = c
      BY <3>2 DEF Next2, Entries, IsRoot
    <3>4. PICK s : Climbs(hsRows, s) /\ Top(s) = e.row /\ Way(s, e.sag) /\ e.parent = BoxBefore(s)
      BY <1>5, <3>1 DEF Leads
    <3>5. PICK t : t = Append(s, c)
      OBVIOUS
    <3>6. Climbs(hsRows, t) /\ Top(t) = c /\ BoxBefore(t) = e.row.id
      <4>1. c \in hsRows /\ c.loc = Top(s).id /\ Top(s).id = e.row.id
        BY <3>1, <3>4
      <4>2. /\ Climbs(hsRows, Append(s, c)) /\ Top(Append(s, c)) = c
            /\ BoxBefore(Append(s, c)) = Top(s).id
        BY <3>1, <3>4, <4>1, OneUp
      <4>3. QED
        BY <3>5, <4>1, <4>2
    <3>7. Way(t, IF IsRoot(c) THEN c.flag ELSE e.sag)
      BY <2>1, <3>1, <3>4, <3>5, OneWayUp
    <3>8. Leads(hsRows, Next2(e, c))
      BY <3>6, <3>7 DEF Leads, Next2
    <3>9. QED
      BY <3>1, <3>3, <3>8
  <2>2. QED
    BY <1>2, <1>3, <2>1
<1>8. \A e \in entries : \A r \in Below(e.row.id) : Followed(e.sag, r) => SeenRow(r)'
  <2>1. ASSUME NEW e \in entries, NEW r \in Below(e.row.id), Followed(e.sag, r)
        PROVE  SeenRow(r)'
    <3>1. Next2(e, r) \in hsFrontier' /\ Next2(e, r).row = r
      BY <1>3, <2>1 DEF Next2
    <3>2. QED
      BY <3>1 DEF SeenRow
  <2>2. QED
    BY <2>1
<1>9. \A e \in entries : e.row.id \in ids
  BY <1>2
<1>10. DOMAIN hsStock' \subseteq hsVisited' /\ hsVisited' \subseteq Stuff
  <2>1. ids \subseteq Stuff
    BY <1>5
  <2>2. {e.row.id : e \in counted} \subseteq ids
    BY <1>9
  <2> HIDE DEF ids, counted
  <2>3. QED
    BY <1>2, <1>4, <2>1, <2>2 DEF Walk
<1>11. \A i \in hsVisited : Visited(i)'
  <2>1. ASSUME NEW i \in hsVisited
        PROVE  Visited(i)'
    <3>1. PICK s, sag :
            /\ Climbs(hsRows, s) /\ Top(s).id = i /\ Way(s, sag)
            /\ IF sag = NoSag
               THEN i \notin DOMAIN hsStock
               ELSE /\ i \in DOMAIN hsStock
                    /\ hsStock[i] =
                         [sag |-> sag, box |-> IF IsRoot(Top(s)) THEN NoBox ELSE BoxBefore(s)]
            /\ \A r \in Below(i) : Followed(sag, r) => SeenRow(r)
      BY <2>1 DEF Walk, Visited
    <3>2. i \notin ids /\ i \notin {e.row.id : e \in counted}
      BY <1>9
    <3>3. /\ i \in DOMAIN hsStock' <=> i \in DOMAIN hsStock
          /\ i \in DOMAIN hsStock => hsStock'[i] = hsStock[i]
      BY <1>4, <3>2
    <3>4. \A r \in Below(i)' : Followed(sag, r) => SeenRow(r)'
      BY <1>2, <1>6, <3>1 DEF Below
    <3>5. QED
      BY <1>2, <3>1, <3>3, <3>4 DEF Visited
  <2>2. QED
    BY <2>1
<1>12. \A i \in ids : Visited(i)'
  <2>1. ASSUME NEW i \in ids
        PROVE  Visited(i)'
    <3>1. i \notin DOMAIN hsStock
      BY <2>1 DEF Walk
    <3>2. CASE i \in {e.row.id : e \in counted}
      <4>1. PICK e \in counted : e.row.id = i /\ hsStock'[i] = [sag |-> e.sag, box |-> ContainerOf(e)]
        BY <1>4, <3>1, <3>2
      <4>2. e \in entries /\ e \in hsFrontier /\ e.sag # NoSag
        BY <1>2, <4>1
      <4>3. PICK s : Climbs(hsRows, s) /\ Top(s) = e.row /\ Way(s, e.sag) /\ e.parent = BoxBefore(s)
        BY <1>5, <4>2 DEF Leads
      <4>4. i \in DOMAIN hsStock'
        BY <1>4, <3>2
      <4>5. hsStock'[i] = [sag |-> e.sag, box |-> IF IsRoot(Top(s)) THEN NoBox ELSE BoxBefore(s)]
        BY <4>1, <4>3 DEF ContainerOf
      <4>6. \A r \in Below(i)' : Followed(e.sag, r) => SeenRow(r)'
        BY <1>2, <1>8, <4>1, <4>2 DEF Below
      <4> HIDE DEF ids, counted
      <4>7. QED
        BY <1>2, <4>1, <4>2, <4>3, <4>4, <4>5, <4>6 DEF Visited
    <3>3. CASE i \notin {e.row.id : e \in counted}
      <4>1. PICK e \in entries : e.row.id = i
        BY <1>2, <2>1
      <4>2. e \in hsFrontier /\ e.sag = NoSag
        BY <1>2, <3>3, <4>1
      <4>3. PICK s : Climbs(hsRows, s) /\ Top(s) = e.row /\ Way(s, e.sag)
        BY <1>5, <4>2 DEF Leads
      <4>4. i \notin DOMAIN hsStock'
        BY <1>4, <3>1, <3>3
      <4>5. \A r \in Below(i)' : Followed(e.sag, r) => SeenRow(r)'
        BY <1>2, <1>8, <4>1 DEF Below
      <4> HIDE DEF ids, counted
      <4>6. QED
        BY <1>2, <4>1, <4>2, <4>3, <4>4, <4>5 DEF Visited
    <3>4. QED
      BY <3>2, <3>3
  <2>2. QED
    BY <2>1
<1>13. QED
  <2>1. \A i \in hsVisited' : Visited(i)'
    <3> HIDE DEF ids
    <3>1. QED
      BY <1>2, <1>11, <1>12
  <2>2. \A r \in hsRows' : r.loc = Structure => SeenRow(r)'
    BY <1>2, <1>6 DEF Walk
  <2>3. hsRows' \subseteq Rising /\ (hsRows' # {} => \A i \in Stuff : \E r \in hsRows' : r.id = i)
    BY <1>2 DEF Walk
  <2>4. hsFrontier' \subseteq Entries /\ \A e \in hsFrontier' : e.row \in hsRows' /\ Leads(hsRows', e)
    BY <1>7
  <2>5. QED
    BY <1>10, <2>1, <2>2, <2>3, <2>4 DEF Walk

\* When the walk is through, what it has not counted lies in something fitted, or outside.
LEMMA WalkPlaces ==
    ASSUME Walk, hsFrontier = {}, hsRows # {}, NEW i \in Stuff
    PROVE  IF i \in DOMAIN hsStock
           THEN hsStock[i] \in PlacesOf(i)
           ELSE \E s \in ChainsTo(i) : ~Open(s)
<1> DEFINE Lost(j) == \E s : Climbs(hsRows, s) /\ Top(s).id = j /\ Blocked(s)
           T == {j \in Stuff : j \notin hsVisited /\ ~Lost(j)}
<1>1. T = {}
  <2>1. SUFFICES ASSUME T # {} PROVE FALSE
    OBVIOUS
  <2>2. PICK j \in T : \A m \in T : j <= m
    <3>1. T \in SUBSET Nat
      BY HangarAssumption
    <3> HIDE DEF T
    <3>2. QED
      BY <2>1, <3>1, Least
  <2>3. PICK r \in hsRows : r.id = j
    BY DEF Walk
  <2>4. /\ r \in Rising /\ ~SeenRow(r) /\ hsRows \in SUBSET Rising
    BY <2>2, <2>3 DEF Walk, SeenRow
  <2>5. r.loc \in Stuff /\ r.loc < j /\ r.loc \in Nat /\ j \in Nat
    BY <2>3, <2>4, RowFacts DEF Walk
  <2>6. r.loc \notin T
    BY <2>2, <2>5
  <2>7. \E s : Climbs(hsRows, s) /\ Top(s).id = r.loc /\ Blocked(Append(s, r))
    <3>1. CASE Lost(r.loc)
      <4>1. PICK s : Climbs(hsRows, s) /\ Top(s).id = r.loc /\ Blocked(s)
        BY <3>1
      <4>2. QED
        BY <2>4, <4>1, BlockedUp
    <3>2. CASE r.loc \in hsVisited
      <4>1. PICK s, sag :
              /\ Climbs(hsRows, s) /\ Top(s).id = r.loc /\ Way(s, sag)
              /\ \A q \in Below(r.loc) : Followed(sag, q) => SeenRow(q)
        BY <3>2 DEF Walk, Visited
      <4>2. ~Followed(sag, r)
        BY <2>4, <4>1 DEF Below
      <4>3. Blocked(Append(s, r))
        BY <2>4, <4>1, <4>2, BlockedUp
      <4>4. QED
        BY <4>1, <4>3
    <3>3. QED
      BY <2>5, <2>6, <3>1, <3>2
  <2>8. PICK s : Climbs(hsRows, s) /\ Top(s).id = r.loc /\ Blocked(Append(s, r))
    BY <2>7
  <2>9. Climbs(hsRows, Append(s, r)) /\ Top(Append(s, r)) = r
    BY <2>4, <2>8, OneUp
  <2>10. Lost(j)
    BY <2>3, <2>8, <2>9
  <2>11. QED
    BY <2>2, <2>10
<1>2. hsRows \subseteq Rising
  BY DEF Walk
<1>3. CASE i \notin hsVisited
  <2>1. PICK s : Climbs(hsRows, s) /\ Top(s).id = i /\ Blocked(s)
    BY <1>1, <1>3
  <2>2. s \in ChainsTo(i) /\ ~Open(s)
    BY <1>2, <2>1, ClimbsIsChain, ClosedChain
  <2>3. i \notin DOMAIN hsStock
    BY <1>3 DEF Walk
  <2>4. QED
    BY <2>2, <2>3
<1>4. CASE i \in hsVisited
  <2>1. PICK s, sag :
          /\ Climbs(hsRows, s) /\ Top(s).id = i /\ Way(s, sag)
          /\ IF sag = NoSag
             THEN i \notin DOMAIN hsStock
             ELSE /\ i \in DOMAIN hsStock
                  /\ hsStock[i] =
                       [sag |-> sag, box |-> IF IsRoot(Top(s)) THEN NoBox ELSE BoxBefore(s)]
    <3>1. Visited(i)
      BY <1>4 DEF Walk
    <3>2. QED
      BY <3>1 DEF Visited
  <2>2. CASE sag = NoSag
    <3>1. NoHangar(s) /\ i \notin DOMAIN hsStock
      BY <2>1, <2>2 DEF Way
    <3>2. s \in ChainsTo(i) /\ ~Open(s)
      BY <1>2, <2>1, <3>1, ClimbsIsChain, ClosedChain
    <3>3. QED
      BY <3>1, <3>2
  <2>3. CASE sag # NoSag
    <3>1. InHangar(s, sag)
      BY <2>1, <2>3 DEF Way
    <3>2. QED
      BY <1>2, <2>1, <2>3, <3>1, PlaceOfChain
  <2>4. QED
    BY <2>2, <2>3
<1>5. QED
  BY <1>3, <1>4
-----------------------------------------------------------------------------
(***************************************************************************)
(* The page.  FoldSet adds the rows of a page in an order of its own: by   *)
(* induction over the sets of rows, the sum is the number of items whose   *)
(* row is among them.                                                      *)
(***************************************************************************)
SumOf(rows) == FoldSet(LAMBDA r, n : n + r.quantity, 0, rows)

LEMMA PageSum ==
    ASSUME NEW K, IsFiniteSet(K), NEW row, row \in [K -> {row[i] : i \in K}],
           \A i \in K : row[i].quantity = Cardinality({j \in K : row[j] = row[i]}),
           NEW R \in SUBSET {row[i] : i \in K}
    PROVE  SumOf(R) = Cardinality({i \in K : row[i] \in R})
<1> DEFINE Of(s) == {i \in K : row[i] \in s}
           F(f) == f = [s \in SUBSET R |->
                IF s = {} THEN 0
                ELSE LET x == CHOOSE z \in s : TRUE IN f[s \ {x}] + x.quantity]
           g == [s \in SUBSET R |-> Cardinality(Of(s))]
           fold == CHOOSE f : F(f)
<1>1. \A s : IsFiniteSet(Of(s)) /\ Cardinality(Of(s)) \in Nat
  BY FS_Subset, FS_CardinalityType
<1>2. Cardinality(Of({})) = 0
  <2>1. Of({}) = {}
    OBVIOUS
  <2>2. QED
    BY <2>1, FS_EmptySet
<1>3. ASSUME NEW s \in SUBSET R, NEW x \in s
      PROVE  Cardinality(Of(s)) = Cardinality(Of(s \ {x})) + x.quantity
  <2>1. PICK i \in K : row[i] = x
    OBVIOUS
  <2>2. x.quantity = Cardinality(Of({x}))
    <3>1. Of({x}) = {j \in K : row[j] = row[i]}
      BY <2>1
    <3>2. QED
      BY <2>1, <3>1
  <2>3. Of(s) = Of(s \ {x}) \cup Of({x}) /\ Of(s \ {x}) \cap Of({x}) = {}
    OBVIOUS
  <2> HIDE DEF Of
  <2>4. Cardinality(Of(s)) = Cardinality(Of(s \ {x})) + Cardinality(Of({x})) - Cardinality({})
    <3>1. PICK a, b : a = Of(s \ {x}) /\ b = Of({x}) /\ IsFiniteSet(a) /\ IsFiniteSet(b)
      BY <1>1
    <3>2. Cardinality(a \cup b) = Cardinality(a) + Cardinality(b) - Cardinality(a \cap b)
      BY <3>1, FS_Union
    <3>3. a \cup b = Of(s) /\ a \cap b = {}
      BY <2>3, <3>1
    <3>4. QED
      BY <3>1, <3>2, <3>3
  <2>5. QED
    BY <1>1, <2>2, <2>4, FS_EmptySet
<1> HIDE DEF Of
<1>4. F(g)
  <2>1. ASSUME NEW s \in SUBSET R
        PROVE  g[s] = IF s = {} THEN 0
                      ELSE LET x == CHOOSE z \in s : TRUE IN g[s \ {x}] + x.quantity
    <3>1. CASE s = {}
      BY <1>2, <3>1
    <3>2. CASE s # {}
      <4>1. PICK x \in s : x = CHOOSE z \in s : TRUE
        BY <3>2
      <4>2. g[s] = g[s \ {x}] + x.quantity
        BY <1>3
      <4> HIDE DEF g
      <4>3. QED
        BY <3>2, <4>1, <4>2
    <3>3. QED
      BY <3>1, <3>2
  <2>2. g = [s \in SUBSET R |-> g[s]]
    OBVIOUS
  <2> HIDE DEF g
  <2>3. QED
    BY <2>1, <2>2
<1>5. F(fold)
  BY <1>4
<1>6. IsFiniteSet(R)
  <2>1. row \in Surjection(K, {row[i] : i \in K})
    <3>1. \A x \in {row[i] : i \in K} : \E i \in K : row[i] = x
      OBVIOUS
    <3>2. QED
      BY <3>1, Fun_IsSurj
  <2>2. IsFiniteSet({row[i] : i \in K})
    BY <2>1, FS_Surjection
  <2>3. QED
    BY <2>2, FS_Subset
<1>7. \A s \in SUBSET R : fold[s] = Cardinality(Of(s))
  <2> DEFINE T == {s \in SUBSET R : fold[s] # Cardinality(Of(s))}
  <2> HIDE DEF fold
  <2>1. SUFFICES ASSUME T # {} PROVE FALSE
    OBVIOUS
  <2>2. PICK s \in T : \A x \in s : s \ {x} \notin T
    <3>1. T \in SUBSET (SUBSET R)
      OBVIOUS
    <3> HIDE DEF T
    <3>2. QED
      BY <1>6, <2>1, <3>1, Smallest
  <2>3. CASE s = {}
    BY <1>2, <1>5, <2>2, <2>3
  <2>4. CASE s # {}
    <3>1. PICK x \in s : x = CHOOSE z \in s : TRUE
      BY <2>4
    <3>2. fold[s] = fold[s \ {x}] + x.quantity
      BY <1>5, <2>4, <3>1
    <3>3. fold[s \ {x}] = Cardinality(Of(s \ {x}))
      BY <2>2
    <3>4. QED
      BY <1>3, <2>2, <3>2, <3>3
  <2>5. QED
    BY <2>3, <2>4
<1>8. SumOf(R) = fold[R]
  BY DEF SumOf, FoldSet, MapThenFoldSet
<1>9. QED
  <2> HIDE DEF fold
  <2>1. fold[R] = Cardinality(Of(R))
    BY <1>7
  <2>2. QED
    BY <1>8, <2>1 DEF Of

Kept(rules) == {i \in DOMAIN hsStock : Tracked(hsStock[i], rules)}
LogRow(i, rules) ==
    [type |-> StuffType[i], sag |-> hsStock[i].sag, box |-> hsStock[i].box, name |-> StuffName[i],
     quantity |-> Cardinality({j \in Kept(rules) : KeyOf(j) = KeyOf(i)})]

\* The rows are written when the walk is through, one for each kind of item that is tracked.
Written ==
    hsLog # {} =>
        /\ hsFrontier = {} /\ hsRows # {}
        /\ hsLog = {LogRow(i, hsRules) : i \in Kept(hsRules)}

HsInv == Walk /\ Written

LEMMA HsInitInv == HsInit => HsInv
BY WalkInit DEF HsInv, HsInit, Written

LEMMA HsNextInv == HsInv /\ [HsNext]_hsVars => HsInv'
<1> SUFFICES ASSUME HsInv, [HsNext]_hsVars
             PROVE  HsInv'
  OBVIOUS
<1>1. CASE HsFetch
  <2>1. hsLog' = {}
    BY <1>1 DEF HsFetch, HsInv, Written
  <2>2. QED
    BY <1>1, <2>1, WalkFetch DEF HsInv, Written
<1>2. CASE HsLevel
  <2>1. hsLog' = {}
    BY <1>2 DEF HsLevel, HsInv, Written
  <2>2. QED
    BY <1>2, <2>1, WalkLevel DEF HsInv, Written
<1>3. ASSUME NEW rules \in RuleSets, HsWrite(rules)
      PROVE  HsInv'
  <2>1. UNCHANGED <<hsRows, hsFrontier, hsStock, hsVisited>> /\ hsFrontier = {} /\ hsRows # {}
    BY <1>3 DEF HsWrite
  <2>2. Walk'
    <3>1. \A r : SeenRow(r) => SeenRow(r)'
      BY <2>1 DEF SeenRow
    <3>2. \A i \in hsVisited : Visited(i) => Visited(i)'
      BY <2>1, <3>1 DEF Visited, Below
    <3>3. QED
      BY <2>1, <3>1, <3>2 DEF HsInv, Walk
  <2>3. hsLog' = {LogRow(i, hsRules)' : i \in Kept(hsRules)'}
    BY <1>3 DEF HsWrite, LogRow, Kept, KeyOf
  <2>4. QED
    BY <2>1, <2>2, <2>3 DEF HsInv, Written
<1>4. CASE UNCHANGED hsVars
  <2>1. UNCHANGED <<hsRows, hsFrontier, hsStock, hsVisited, hsRules, hsLog>>
    BY <1>4 DEF hsVars
  <2>2. \A r : SeenRow(r) => SeenRow(r)'
    BY <2>1 DEF SeenRow
  <2>3. \A i \in hsVisited : Visited(i) => Visited(i)'
    BY <2>1, <2>2 DEF Visited, Below
  <2>4. Walk'
    BY <2>1, <2>2, <2>3 DEF HsInv, Walk
  <2>5. Written'
    <3>1. hsLog # {} => hsLog' = {LogRow(i, hsRules)' : i \in Kept(hsRules)'}
      BY <2>1 DEF HsInv, Written, LogRow, Kept, KeyOf
    <3>2. QED
      BY <2>1, <3>1 DEF HsInv, Written
  <2>6. QED
    BY <2>4, <2>5 DEF HsInv
<1>5. QED
  BY <1>1, <1>2, <1>3, <1>4 DEF HsNext

\* A page shows the number of the tracked items it is about.
LEMMA PageShows ==
    ASSUME HsInv, hsLog # {}, NEW type, NEW name, NEW sag, NEW box
    PROVE  Stocked(type, name, sag, box) =
                Cardinality({i \in DOMAIN hsStock :
                    /\ StuffType[i] = type /\ StuffName[i] = name
                    /\ Tracked(hsStock[i], hsRules)
                    /\ Matches([sag |-> hsStock[i].sag, box |-> hsStock[i].box], sag, box)})
<1> DEFINE K == Kept(hsRules)
           row == [i \in K |-> LogRow(i, hsRules)]
           R == {r \in hsLog : r.type = type /\ r.name = name /\ Matches(r, sag, box)}
<1>1. IsFiniteSet(K)
  <2>1. K \in SUBSET Stuff
    BY DEF Kept, HsInv, Walk
  <2>2. QED
    BY <2>1, HangarAssumption, FS_Subset
<1>2. row \in [K -> {row[i] : i \in K}]
  OBVIOUS
<1>3. \A i, j \in K : row[j] = row[i] <=> KeyOf(j) = KeyOf(i)
  <2>1. ASSUME NEW i \in K, NEW j \in K
        PROVE  row[j] = row[i] <=> KeyOf(j) = KeyOf(i)
    <3>1. row[i] = LogRow(i, hsRules) /\ row[j] = LogRow(j, hsRules)
      OBVIOUS
    <3>2. ASSUME row[j] = row[i]
          PROVE  KeyOf(j) = KeyOf(i)
      <4>1. /\ row[j].type = row[i].type /\ row[j].sag = row[i].sag
            /\ row[j].box = row[i].box /\ row[j].name = row[i].name
        BY <3>2
      <4>2. QED
        BY <3>1, <4>1 DEF LogRow, KeyOf
    <3>3. ASSUME KeyOf(j) = KeyOf(i)
          PROVE  row[j] = row[i]
      <4>1. /\ StuffType[j] = StuffType[i] /\ hsStock[j].sag = hsStock[i].sag
            /\ hsStock[j].box = hsStock[i].box /\ StuffName[j] = StuffName[i]
        BY <3>3 DEF KeyOf
      <4>2. {k \in Kept(hsRules) : KeyOf(k) = KeyOf(j)} = {k \in Kept(hsRules) : KeyOf(k) = KeyOf(i)}
        BY <3>3
      <4>3. QED
        BY <3>1, <4>1, <4>2 DEF LogRow
    <3>4. QED
      BY <3>2, <3>3
  <2>2. QED
    BY <2>1
<1>4. \A i \in K : row[i].quantity = Cardinality({j \in K : row[j] = row[i]})
  <2>1. ASSUME NEW i \in K
        PROVE  row[i].quantity = Cardinality({j \in K : row[j] = row[i]})
    <3>1. {j \in K : row[j] = row[i]} = {j \in K : KeyOf(j) = KeyOf(i)}
      BY <1>3
    <3>2. row[i].quantity = Cardinality({j \in K : KeyOf(j) = KeyOf(i)})
      BY DEF LogRow
    <3>3. QED
      BY <3>1, <3>2
  <2>2. QED
    BY <2>1
<1>5. hsLog = {row[i] : i \in K}
  BY DEF HsInv, Written
<1>6. R \in SUBSET {row[i] : i \in K}
  BY <1>5
<1>7. Stocked(type, name, sag, box) = Cardinality({i \in K : row[i] \in R})
  <2> HIDE DEF K, row, R
  <2>1. PICK k, f, q : k = K /\ f = row /\ q = R
    OBVIOUS
  <2>2. SumOf(q) = Cardinality({i \in k : f[i] \in q})
    BY <1>1, <1>2, <1>4, <1>6, <2>1, PageSum
  <2>3. QED
    BY <2>1, <2>2 DEF Stocked, SumOf, R
<1>8. {i \in K : row[i] \in R} =
        {i \in DOMAIN hsStock :
            /\ StuffType[i] = type /\ StuffName[i] = name
            /\ Tracked(hsStock[i], hsRules)
            /\ Matches([sag |-> hsStock[i].sag, box |-> hsStock[i].box], sag, box)}
  <2>1. ASSUME NEW i \in K
        PROVE  row[i] \in R <=>
                /\ StuffType[i] = type /\ StuffName[i] = name
                /\ Matches([sag |-> hsStock[i].sag, box |-> hsStock[i].box], sag, box)
    <3>1. row[i] \in hsLog
      BY <1>5
    <3>2. /\ row[i].type = StuffType[i] /\ row[i].name = StuffName[i]
          /\ row[i].sag = hsStock[i].sag /\ row[i].box = hsStock[i].box
      BY DEF LogRow
    <3>3. QED
      BY <3>1, <3>2 DEF Matches
  <2>2. QED
    BY <2>1 DEF Kept
<1>9. QED
  BY <1>7, <1>8

(***************************************************************************)
(* Every item is on the page once, under the hangar and the container it   *)
(* lies in, for every hangar however deep, items that are listed twice,    *)
(* every rule and every filter of the page (stockSyncScheduler.js:224,     *)
(* stock.js:52).                                                           *)
(***************************************************************************)
THEOREM PagesExact == HsSpec => []HsPageExact
<1>1. ASSUME HsInv
      PROVE  HsPageExact
  <2>1. SUFFICES ASSUME hsLog # {}
                 PROVE  HsPageExact
    BY DEF HsPageExact
  <2>2. Walk /\ hsFrontier = {} /\ hsRows # {}
    BY <1>1, <2>1 DEF HsInv, Written
  <2>3. \A i \in Stuff :
          IF i \in DOMAIN hsStock
          THEN hsStock[i] \in PlacesOf(i)
          ELSE \E s \in ChainsTo(i) : ~Open(s)
    BY <2>2, WalkPlaces
  <2>4. \A type, name, sag, box :
          Stocked(type, name, sag, box) =
                Cardinality({i \in DOMAIN hsStock :
                    /\ StuffType[i] = type /\ StuffName[i] = name
                    /\ Tracked(hsStock[i], hsRules)
                    /\ Matches([sag |-> hsStock[i].sag, box |-> hsStock[i].box], sag, box)})
    BY <1>1, <2>1, PageShows
  <2>5. QED
    BY <2>3, <2>4 DEF HsPageExact
<1>2. QED
  BY <1>1, HsInitInv, HsNextInv, PTL DEF HsSpec
=============================================================================
