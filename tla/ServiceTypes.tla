---------------------------- MODULE ServiceTypes ----------------------------
(***************************************************************************)
(* Type correctness of the services beside the command path, one by one    *)
(* and all together: what the invariants of ServiceProofs and NoticeProofs *)
(* leave open.                                                             *)
(***************************************************************************)
EXTENDS MCServices, ServiceProofs, NoticeProofs

(***************************************************************************)
(* The limiter of the market cache.  esiRunning is the number of fetches   *)
(* of the worker that are under way, so it returns to 0 and not below; and *)
(* nothing waits in the queue while a slot is free.                        *)
(***************************************************************************)
Fetching(w) == {g \in Goods : mcPc[w][g] = "fetch"}

Slots ==
    \A w \in MarketWorkers :
        /\ IsFiniteSet(Fetching(w)) /\ mcRunning[w] = Cardinality(Fetching(w))
        /\ mcQueue[w] # <<>> => mcRunning[w] = Limit

\* A call counts the SETs that failed while it tries to get the lock.
Tries ==
    \A w \in MarketWorkers : \A g \in Goods :
        /\ mcTries[w][g] # 0 => mcPc[w][g] \in {"lock", "wait"}
        /\ mcPc[w][g] = "lock" => mcTries[w][g] < LockRetries

McLimits == McInv /\ McTypeOK /\ Slots /\ Tries

\* The limiter of one worker, after a step of it.
LEMMA OneLimiter ==
    ASSUME McLimits, McInv', NEW w \in MarketWorkers,
           \A v \in MarketWorkers \ {w} :
              mcPc'[v] = mcPc[v] /\ mcRunning'[v] = mcRunning[v] /\ mcQueue'[v] = mcQueue[v],
           mcRunning' \in [MarketWorkers -> Nat], mcRunning'[w] <= Limit,
           IsFiniteSet(Fetching(w)'), mcRunning'[w] = Cardinality(Fetching(w)'),
           mcQueue'[w] # <<>> => mcRunning'[w] = Limit
    PROVE  Slots' /\ mcRunning' \in [MarketWorkers -> 0..Limit]
<1>1. \A v \in MarketWorkers \ {w} : Fetching(v)' = Fetching(v)
  BY DEF Fetching
<1>2. Slots'
  BY <1>1 DEF McLimits, Slots
<1>3. ASSUME NEW v \in MarketWorkers
      PROVE  mcRunning'[v] \in 0..Limit
  <2>1. Limit \in Nat /\ mcRunning[v] \in 0..Limit /\ mcRunning'[v] \in Nat
    BY MarketCacheAssumption DEF McLimits, McTypeOK
  <2>2. QED
    BY <2>1
<1>4. QED
  BY <1>2, <1>3

\* A step that starts and ends no fetch.
LEMMA SameSlots ==
    ASSUME McLimits, UNCHANGED mcLimiter,
           \A w \in MarketWorkers : Fetching(w)' = Fetching(w)
    PROVE  Slots' /\ mcRunning' \in [MarketWorkers -> 0..Limit]
BY DEF McLimits, McTypeOK, Slots, mcLimiter

\* A call that goes on.
LEMMA GoesOn ==
    ASSUME McLimits, NEW w \in MarketWorkers, NEW g \in Goods, NEW step, McGo(w, g, step)
    PROVE  /\ \A v \in MarketWorkers : \A h \in Goods :
                mcPc'[v][h] = IF v = w /\ h = g THEN step ELSE mcPc[v][h]
           /\ mcPc[w][g] # "fetch" /\ step # "fetch" =>
                \A v \in MarketWorkers : Fetching(v)' = Fetching(v)
<1>1. \A v \in MarketWorkers : \A h \in Goods :
        mcPc'[v][h] = IF v = w /\ h = g THEN step ELSE mcPc[v][h]
  BY DEF McGo, McLimits, McTypeOK
<1>2. QED
  BY <1>1 DEF Fetching

\* So does one that returns: what it counted is forgotten.
LEMMA Returns ==
    ASSUME McLimits, NEW w \in MarketWorkers, NEW g \in Goods, McReturn(w, g),
           mcPc[w][g] # "fetch"
    PROVE  /\ \A v \in MarketWorkers : Fetching(v)' = Fetching(v)
           /\ mcTries' \in [MarketWorkers -> [Goods -> 0..LockRetries]] /\ Tries'
<1>1. McGo(w, g, "done") /\ mcTries' = [mcTries EXCEPT ![w][g] = 0]
  BY DEF McReturn
<1>2. /\ \A v \in MarketWorkers : \A h \in Goods :
            mcPc'[v][h] = IF v = w /\ h = g THEN "done" ELSE mcPc[v][h]
      /\ \A v \in MarketWorkers : Fetching(v)' = Fetching(v)
  BY <1>1, GoesOn
<1>3. /\ mcTries' \in [MarketWorkers -> [Goods -> 0..LockRetries]]
      /\ \A v \in MarketWorkers : \A h \in Goods :
            mcTries'[v][h] = IF v = w /\ h = g THEN 0 ELSE mcTries[v][h]
  BY <1>1, MarketCacheAssumption DEF McLimits, McTypeOK
<1>4. QED
  BY <1>2, <1>3 DEF McLimits, Tries

\* And one that goes on without a SET that failed.
LEMMA SameTries ==
    ASSUME McLimits, UNCHANGED mcTries,
           \A w \in MarketWorkers : \A g \in Goods : mcPc'[w][g] # mcPc[w][g] =>
              /\ mcPc'[w][g] = "lock" => mcTries[w][g] < LockRetries
              /\ mcPc[w][g] \in {"lock", "wait"} => mcPc'[w][g] = "lock"
    PROVE  mcTries' \in [MarketWorkers -> [Goods -> 0..LockRetries]] /\ Tries'
BY DEF McLimits, McTypeOK, Tries

LEMMA McLimitsStep ==
    ASSUME McLimits, McInv', McNext
    PROVE  /\ Slots' /\ mcRunning' \in [MarketWorkers -> 0..Limit]
           /\ Tries' /\ mcTries' \in [MarketWorkers -> [Goods -> 0..LockRetries]]
<1> DEFINE Done == /\ Slots' /\ mcRunning' \in [MarketWorkers -> 0..Limit]
                   /\ Tries' /\ mcTries' \in [MarketWorkers -> [Goods -> 0..LockRetries]]
<1> SUFFICES Done
  OBVIOUS
<1>0. /\ Limit \in Nat \ {0} /\ LockRetries \in Nat \ {0} /\ IsFiniteSet({}) /\ Cardinality({}) = 0
      /\ \A w \in MarketWorkers : mcRunning[w] \in 0..Limit /\ mcQueue[w] \in Seq(Goods)
      /\ mcRunning \in [MarketWorkers -> Nat]
  BY MarketCacheAssumption, FS_EmptySet DEF McLimits, McTypeOK
<1>1. ASSUME NEW w \in MarketWorkers, McCommand(w)
      PROVE  Done
  <2>1. /\ \A v \in MarketWorkers \ {w} : mcPc'[v] = mcPc[v]
        /\ \A g \in Goods : mcPc[w][g] = "idle" /\ mcPc'[w][g] \in {"get", "idle"}
        /\ UNCHANGED <<mcTries, mcLimiter>>
    BY <1>1 DEF McCommand, McLimits, McTypeOK
  <2>2. \A v \in MarketWorkers : Fetching(v)' = Fetching(v)
    BY <2>1 DEF Fetching
  <2>3. \A v \in MarketWorkers : \A g \in Goods : mcPc'[v][g] # mcPc[v][g] =>
            mcPc'[v][g] # "lock" /\ mcPc[v][g] \notin {"lock", "wait"}
    BY <2>1
  <2>4. QED
    BY <2>1, <2>2, <2>3, SameSlots, SameTries
<1>2. ASSUME NEW w \in MarketWorkers, McReply(w)
      PROVE  Done
  <2>1. /\ \A v \in MarketWorkers \ {w} : mcPc'[v] = mcPc[v]
        /\ \A g \in Goods : mcPc[w][g] \in {"done", "idle"} /\ mcPc'[w][g] = "idle"
        /\ UNCHANGED <<mcTries, mcLimiter>>
    BY <1>2 DEF McReply, McLimits, McTypeOK, McInv, Asked
  <2>2. \A v \in MarketWorkers : Fetching(v)' = Fetching(v)
    BY <2>1 DEF Fetching
  <2>3. \A v \in MarketWorkers : \A g \in Goods : mcPc'[v][g] # mcPc[v][g] =>
            mcPc'[v][g] # "lock" /\ mcPc[v][g] \notin {"lock", "wait"}
    BY <2>1
  <2>4. QED
    BY <2>1, <2>2, <2>3, SameSlots, SameTries
<1>3. ASSUME NEW w \in MarketWorkers, McCrash(w)
      PROVE  Done
  <2>1. /\ mcPc' = [mcPc EXCEPT ![w] = [g \in Goods |-> "idle"]]
        /\ mcTries' = [mcTries EXCEPT ![w] = [g \in Goods |-> 0]]
        /\ mcQueue' = [mcQueue EXCEPT ![w] = <<>>]
        /\ mcRunning' = [mcRunning EXCEPT ![w] = 0]
    BY <1>3 DEF McCrash
  <2>2. Fetching(w)' = {}
    BY <2>1 DEF Fetching, McLimits, McTypeOK
  <2>3. Slots' /\ mcRunning' \in [MarketWorkers -> 0..Limit]
    <3>1. IsFiniteSet(Fetching(w)') /\ Cardinality(Fetching(w)') = 0
      BY <1>0, <2>2
    <3>2. /\ mcRunning'[w] = 0 /\ mcRunning'[w] <= Limit /\ mcRunning' \in [MarketWorkers -> Nat]
          /\ \A v \in MarketWorkers \ {w} : mcRunning'[v] = mcRunning[v]
      BY <1>0, <2>1
    <3>3. /\ mcQueue'[w] = <<>>
          /\ \A v \in MarketWorkers \ {w} : mcPc'[v] = mcPc[v] /\ mcQueue'[v] = mcQueue[v]
      BY <2>1 DEF McLimits, McTypeOK
    <3>4. QED
      BY <3>1, <3>2, <3>3, OneLimiter
  <2>4. mcTries' \in [MarketWorkers -> [Goods -> 0..LockRetries]]
    BY <1>0, <2>1 DEF McLimits, McTypeOK
  <2>5. Tries'
    BY <2>1 DEF McLimits, McTypeOK, Tries
  <2>6. QED
    BY <2>3, <2>4, <2>5
<1>4. ASSUME NEW w \in MarketWorkers, NEW g \in Goods, McGet(w, g)
      PROVE  Done
  <2>1. mcPc[w][g] = "get" /\ mcTries[w][g] = 0 /\ UNCHANGED mcLimiter
    BY <1>4 DEF McGet, McLimits, Tries
  <2>2. CASE McReturn(w, g)
    BY <2>1, <2>2, Returns, SameSlots
  <2>3. CASE McGo(w, g, "lock") /\ UNCHANGED mcTries
    BY <1>0, <2>1, <2>3, GoesOn, SameSlots, SameTries
  <2>4. QED
    BY <1>4, <2>2, <2>3 DEF McGet
<1>5. ASSUME NEW w \in MarketWorkers, NEW g \in Goods, McLocked(w, g)
      PROVE  Done
  <2>1. /\ mcPc[w][g] = "lock" /\ mcTries' = [mcTries EXCEPT ![w][g] = 0]
        /\ \E step \in {"fetch", "queued"} : McGo(w, g, step)
    BY <1>5 DEF McLocked
  <2>2. /\ \A v \in MarketWorkers : \A h \in Goods :
             (v # w \/ h # g) => mcPc'[v][h] = mcPc[v][h]
        /\ mcPc'[w][g] \in {"fetch", "queued"}
    BY <2>1, GoesOn
  <2>3. mcTries' \in [MarketWorkers -> [Goods -> 0..LockRetries]]
    BY <1>0, <2>1 DEF McLimits, McTypeOK
  <2>4. Tries'
    BY <2>1, <2>2 DEF McLimits, McTypeOK, Tries
  <2>5. CASE McHasSlot(w)
    <3>1. /\ mcRunning[w] < Limit /\ UNCHANGED mcQueue
          /\ mcRunning' = [mcRunning EXCEPT ![w] = @ + 1]
          /\ mcPc' = [mcPc EXCEPT ![w][g] = "fetch"]
      BY <1>5, <2>5 DEF McLocked, McHasSlot, McGo
    <3>2. Fetching(w)' = Fetching(w) \cup {g} /\ g \notin Fetching(w)
      BY <2>1, <3>1 DEF Fetching, McLimits, McTypeOK
    <3>3. /\ IsFiniteSet(Fetching(w)')
          /\ Cardinality(Fetching(w)') = Cardinality(Fetching(w)) + 1
      BY <3>2, FS_AddElement DEF McLimits, Slots
    <3>4. /\ mcRunning'[w] = mcRunning[w] + 1 /\ mcRunning'[w] <= Limit
          /\ mcRunning' \in [MarketWorkers -> Nat]
      BY <1>0, <3>1
    <3>5. mcRunning'[w] = Cardinality(Fetching(w)') /\ mcQueue[w] = <<>>
      BY <1>0, <3>1, <3>3, <3>4 DEF McLimits, Slots
    <3>6. \A v \in MarketWorkers \ {w} : mcPc'[v] = mcPc[v] /\ mcRunning'[v] = mcRunning[v]
      BY <3>1 DEF McLimits, McTypeOK
    <3>7. QED
      BY <2>3, <2>4, <3>1, <3>3, <3>4, <3>5, <3>6, OneLimiter
  <2>6. CASE ~McHasSlot(w)
    <3>1. /\ mcRunning[w] = Limit /\ UNCHANGED mcRunning
          /\ mcQueue' = [mcQueue EXCEPT ![w] = Append(@, g)]
          /\ mcPc' = [mcPc EXCEPT ![w][g] = "queued"]
      BY <1>0, <1>5, <2>6 DEF McLocked, McHasSlot, McGo
    <3>2. Fetching(w)' = Fetching(w)
      BY <2>1, <3>1 DEF Fetching, McLimits, McTypeOK
    <3>3. IsFiniteSet(Fetching(w)') /\ mcRunning'[w] = Cardinality(Fetching(w)')
      BY <3>1, <3>2 DEF McLimits, Slots
    <3>4. \A v \in MarketWorkers \ {w} : mcPc'[v] = mcPc[v] /\ mcQueue'[v] = mcQueue[v]
      BY <3>1 DEF McLimits, McTypeOK
    <3>5. /\ mcRunning' = mcRunning /\ mcRunning' \in [MarketWorkers -> Nat]
          /\ mcRunning'[w] = Limit /\ mcRunning'[w] <= Limit
      BY <1>0, <3>1
    <3>6. Slots' /\ mcRunning' \in [MarketWorkers -> 0..Limit]
      BY <3>3, <3>4, <3>5, OneLimiter
    <3>7. QED
      BY <2>3, <2>4, <3>6
  <2>7. QED
    BY <2>5, <2>6
<1>6. ASSUME NEW w \in MarketWorkers, NEW g \in Goods, McBusy(w, g)
      PROVE  Done
  <2>1. /\ mcPc[w][g] = "lock" /\ McGo(w, g, "wait") /\ UNCHANGED mcLimiter
        /\ mcTries' = [mcTries EXCEPT ![w][g] = @ + 1]
    BY <1>6 DEF McBusy
  <2>2. /\ \A v \in MarketWorkers : Fetching(v)' = Fetching(v)
        /\ \A v \in MarketWorkers : \A h \in Goods :
              mcPc'[v][h] = IF v = w /\ h = g THEN "wait" ELSE mcPc[v][h]
    BY <2>1, GoesOn
  <2>3. mcTries[w][g] \in 0..LockRetries /\ mcTries[w][g] < LockRetries
    BY <2>1 DEF McLimits, McTypeOK, Tries
  <2>4. mcTries[w][g] + 1 \in 0..LockRetries
    BY <1>0, <2>3
  <2>5. mcTries' \in [MarketWorkers -> [Goods -> 0..LockRetries]]
    BY <2>1, <2>4 DEF McLimits, McTypeOK
  <2>6. Tries'
    BY <2>1, <2>2 DEF McLimits, McTypeOK, Tries
  <2>7. QED
    BY <2>1, <2>2, <2>5, <2>6, SameSlots
<1>7. ASSUME NEW w \in MarketWorkers, NEW g \in Goods, McRecheck(w, g)
      PROVE  Done
  <2>1. mcPc[w][g] = "wait" /\ UNCHANGED mcLimiter
    BY <1>7 DEF McRecheck
  <2>2. CASE McReturn(w, g)
    BY <2>1, <2>2, Returns, SameSlots
  <2>3. CASE mcTries[w][g] < LockRetries /\ McGo(w, g, "lock") /\ UNCHANGED mcTries
    BY <2>1, <2>3, GoesOn, SameSlots, SameTries
  <2>4. QED
    BY <1>7, <2>2, <2>3 DEF McRecheck
<1>8. ASSUME NEW w \in MarketWorkers, NEW g \in Goods, NEW step \in {"put", "unlock"},
             mcPc[w][g] = "fetch", McFinally(w), McFetchEnds(w, g, step), UNCHANGED mcTries
      PROVE  Done
  <2>1. CASE mcQueue[w] = <<>>
    <3>1. /\ mcRunning' = [mcRunning EXCEPT ![w] = @ - 1] /\ UNCHANGED mcQueue
          /\ mcPc' = [mcPc EXCEPT ![w] = [h \in Goods |-> IF h = g THEN step ELSE mcPc[w][h]]]
      BY <1>8, <2>1 DEF McFinally, McFetchEnds
    <3>2. Fetching(w)' = Fetching(w) \ {g} /\ g \in Fetching(w)
      BY <1>8, <3>1 DEF Fetching, McLimits, McTypeOK
    <3>3. /\ IsFiniteSet(Fetching(w)')
          /\ Cardinality(Fetching(w)') = Cardinality(Fetching(w)) - 1
          /\ Cardinality(Fetching(w)') \in Nat
      BY <3>2, FS_RemoveElement, FS_CardinalityType DEF McLimits, Slots
    <3>4. /\ mcRunning'[w] = mcRunning[w] - 1 /\ mcRunning'[w] = Cardinality(Fetching(w)')
          /\ \A v \in MarketWorkers \ {w} : mcRunning'[v] = mcRunning[v]
      BY <1>0, <3>1, <3>3 DEF McLimits, Slots
    <3>5. mcRunning'[w] <= Limit /\ mcRunning' \in [MarketWorkers -> Nat]
      BY <1>0, <3>1, <3>3, <3>4
    <3>6. \A v \in MarketWorkers \ {w} : mcPc'[v] = mcPc[v]
      BY <3>1 DEF McLimits, McTypeOK
    <3>7. Slots' /\ mcRunning' \in [MarketWorkers -> 0..Limit]
      BY <2>1, <3>1, <3>3, <3>4, <3>5, <3>6, OneLimiter
    <3>8. \A v \in MarketWorkers : \A h \in Goods :
            mcPc'[v][h] = IF v = w /\ h = g THEN step ELSE mcPc[v][h]
      BY <3>1 DEF McLimits, McTypeOK
    <3>9. QED
      BY <1>8, <3>7, <3>8, SameTries
  <2>2. CASE mcQueue[w] # <<>>
    <3>1. PICK first \in Goods :
            /\ mcPc[w][first] = "queued" /\ mcQueue' = [mcQueue EXCEPT ![w] = Tail(@)]
            /\ UNCHANGED mcRunning
            /\ mcPc' = [mcPc EXCEPT ![w] = [h \in Goods |->
                    IF h = g THEN step ELSE IF h = first THEN "fetch" ELSE mcPc[w][h]]]
      <4> DEFINE head == Head(mcQueue[w])
      <4>1. /\ head \in Goods /\ Tail(mcQueue[w]) # mcQueue[w]
            /\ 1 \in DOMAIN mcQueue[w] /\ head = mcQueue[w][1]
        BY <1>0, <2>2, QueueFacts
      <4>2. mcPc[w][head] = "queued" /\ head # g
        BY <1>8, <4>1 DEF McLimits, McInv, Queues
      <4>3. mcQueue' = [mcQueue EXCEPT ![w] = Tail(@)] /\ UNCHANGED mcRunning
        BY <1>8, <2>2 DEF McFinally
      <4>4. mcQueue'[w] # mcQueue[w]
        BY <4>1, <4>3 DEF McLimits, McTypeOK
      <4>5. mcPc' = [mcPc EXCEPT ![w] = [h \in Goods |->
                    IF h = g THEN step ELSE IF h = head THEN "fetch" ELSE mcPc[w][h]]]
        BY <1>8, <4>2, <4>4 DEF McFetchEnds
      <4> HIDE DEF head
      <4>6. QED
        BY <4>1, <4>2, <4>3, <4>5
    <3>2. /\ Fetching(w)' = (Fetching(w) \ {g}) \cup {first}
          /\ g \in Fetching(w) /\ first \notin Fetching(w) \ {g}
      BY <1>8, <3>1 DEF Fetching, McLimits, McTypeOK
    <3>3. IsFiniteSet(Fetching(w) \ {g}) /\ Cardinality(Fetching(w) \ {g}) = mcRunning[w] - 1
      BY <3>2, FS_RemoveElement DEF McLimits, Slots
    <3>4. IsFiniteSet(Fetching(w)') /\ Cardinality(Fetching(w)') = mcRunning[w] - 1 + 1
      BY <3>2, <3>3, FS_AddElement
    <3>5. Cardinality(Fetching(w)') = mcRunning'[w]
      BY <1>0, <3>1, <3>4
    <3>6. mcRunning'[w] = Limit /\ mcRunning'[w] <= Limit
      BY <1>0, <2>2, <3>1 DEF McLimits, Slots
    <3>7. \A v \in MarketWorkers \ {w} : mcPc'[v] = mcPc[v] /\ mcQueue'[v] = mcQueue[v]
      BY <3>1 DEF McLimits, McTypeOK
    <3>8. Slots' /\ mcRunning' \in [MarketWorkers -> 0..Limit]
      BY <1>0, <3>1, <3>4, <3>5, <3>6, <3>7, OneLimiter
    <3>9. \A v \in MarketWorkers : \A h \in Goods : mcPc'[v][h] # mcPc[v][h] =>
            mcPc'[v][h] # "lock" /\ mcPc[v][h] \notin {"lock", "wait"}
      BY <1>8, <3>1 DEF McLimits, McTypeOK
    <3>10. QED
      BY <1>8, <3>8, <3>9, SameTries
  <2>3. QED
    BY <2>1, <2>2
<1>9. ASSUME NEW w \in MarketWorkers, NEW g \in Goods, McPut(w, g) \/ McUnlock(w, g)
      PROVE  Done
  <2>1. /\ mcPc[w][g] \in {"put", "unlock"} /\ UNCHANGED <<mcTries, mcLimiter>>
        /\ \E step \in {"unlock", "done"} : McGo(w, g, step)
    BY <1>9 DEF McPut, McUnlock
  <2>2. QED
    BY <2>1, GoesOn, SameSlots, SameTries
<1>10. ASSUME NEW w \in MarketWorkers, NEW g \in Goods, McRedisFails(w, g)
       PROVE  Done
  <2>1. mcPc[w][g] \in {"get", "lock", "wait", "put"} /\ UNCHANGED mcLimiter
    BY <1>10 DEF McRedisFails
  <2>2. CASE McReturn(w, g)
    BY <2>1, <2>2, Returns, SameSlots
  <2>3. CASE mcPc[w][g] = "put" /\ McGo(w, g, "unlock") /\ UNCHANGED mcTries
    BY <2>1, <2>3, GoesOn, SameSlots, SameTries
  <2>4. QED
    BY <1>10, <2>2, <2>3 DEF McRedisFails
<1>11. ASSUME NEW g \in Goods, McCacheExpires(g) \/ McLockExpires(g)
       PROVE  Done
  <2>1. UNCHANGED <<mcPc, mcTries, mcLimiter>>
    BY <1>11 DEF McCacheExpires, McLockExpires, mcCall
  <2>2. \A w \in MarketWorkers : Fetching(w)' = Fetching(w)
    BY <2>1 DEF Fetching
  <2>3. QED
    BY <2>1, <2>2, SameSlots, SameTries
<1>12. ASSUME NEW w \in MarketWorkers, NEW g \in Goods, McFetched(w, g) \/ McFetchFails(w, g)
       PROVE  Done
  BY <1>8, <1>12 DEF McFetched, McFetchFails
<1>13. QED
  BY <1>1, <1>2, <1>3, <1>4, <1>5, <1>6, <1>7, <1>9, <1>10, <1>11, <1>12 DEF McNext, McStep

LEMMA McLimitsNext == McLimits /\ [McNext]_mcVars => McLimits'
<1> SUFFICES ASSUME McLimits, [McNext]_mcVars
             PROVE  McLimits'
  OBVIOUS
<1>1. McInv'
  BY McNext_Inv DEF McLimits
<1>2. CASE McNext
  <2>0. /\ Fault \/ NoFault
        /\ mcCached' = mcCached \/ \E g \in Goods : mcCached' \in {mcCached \cup {g}, mcCached \ {g}}
        /\ mcCommands' = mcCommands \/ (mcCommands < MaxCommands /\ mcCommands' = mcCommands + 1)
        /\ mcSlow' = mcSlow \/ \E g \in Goods : mcSlow' = (mcSlow \/ mcPc[mcLock[g]][g] \in Holding)
    BY <1>2 DEF McNext, McStep, McCommand, McReply, McCrash, McGet, McLocked, McBusy, McRecheck,
       McFetched, McFetchFails, McPut, McUnlock, McRedisFails, McCacheExpires, McLockExpires
  <2>1. mcCached' \subseteq Goods
    BY <2>0 DEF McLimits, McTypeOK
  <2>2. mcSlow' \in BOOLEAN
    BY <2>0 DEF McLimits, McTypeOK
  <2>3. mcCommands' \in 0..MaxCommands
    BY <2>0, MarketCacheAssumption DEF McLimits, McTypeOK
  <2>4. faults' \in 0..MaxFaults
    BY <2>0, FaultsAssumption DEF McLimits, McTypeOK, Fault, NoFault
  <2>5. QED
    BY <1>1, <1>2, <2>1, <2>2, <2>3, <2>4, McLimitsStep DEF McLimits, McTypeOK, McInv, McTypes, Steps, Holding
<1>3. CASE UNCHANGED mcVars
  <2>1. UNCHANGED <<mcCached, mcLock, mcPc, mcTries, mcQueue, mcRunning, mcCommands, mcSlow, faults>>
    BY <1>3 DEF mcVars, mcCall, mcLimiter
  <2>2. \A w : Fetching(w)' = Fetching(w)
    BY <2>1 DEF Fetching
  <2>3. QED
    BY <1>1, <2>1, <2>2 DEF McLimits, McTypeOK, Slots, Tries
<1>4. QED
  BY <1>2, <1>3

LEMMA McLimitsInit == McInit => McLimits
<1> SUFFICES ASSUME McInit
             PROVE  McLimits
  OBVIOUS
<1>1. \A w \in MarketWorkers : Fetching(w) = {}
  BY DEF McInit, Fetching
<1>2. Slots
  BY <1>1, FS_EmptySet DEF McInit, Slots
<1>3. McTypeOK
  <2>1. /\ 0 \in 0..MaxFaults /\ 0 \in 0..Limit /\ 0 \in 0..LockRetries /\ 0 \in 0..MaxCommands
        /\ <<>> \in Seq(Goods)
    BY MarketCacheAssumption, FaultsAssumption
  <2>2. QED
    BY <2>1 DEF McInit, McTypeOK
<1>4. Tries
  BY MarketCacheAssumption DEF McInit, Tries
<1>5. QED
  BY <1>2, <1>3, <1>4, McInit_Inv DEF McLimits
-----------------------------------------------------------------------------
(***************************************************************************)
(* The price of a station and the hangar: their invariants say more than   *)
(* their types.                                                            *)
(***************************************************************************)
LEMMA SoTypes == SoInv => SoTypeOK
<1> SUFFICES ASSUME SoInv
             PROVE  SoTypeOK
  OBVIOUS
<1>0. PageCap \in Nat \ {0}
  BY StationOrdersAssumption
<1>1. CASE soSell = <<>>
  BY <1>0, <1>1 DEF SoInv, SoInit, SoTypeOK, Sides
<1>2. CASE soSell # <<>>
  <2>1. \A s \in Sides : /\ soAt[s] \in 1..PageCap + 1 /\ soHit[s] \in 0..PageCap
                         /\ soBest[s] \in Prices \cup {NoPrice}
    BY <1>2 DEF SoInv, SoSide
  <2>2. QED
    BY <1>2, <2>1 DEF SoInv, SoTypeOK
<1>3. QED
  BY <1>1, <1>2

HsRuled == HsInv /\ hsRules \in RuleSets \cup {{}}

LEMMA HsRuledInit == HsInit => HsRuled
BY HsInitInv DEF HsInit, HsRuled

LEMMA HsRuledNext == HsRuled /\ [HsNext]_hsVars => HsRuled'
BY HsNextInv DEF HsRuled, HsNext, HsFetch, HsLevel, HsWrite, hsVars

LEMMA HsTypes == HsRuled => HsTypeOK
<1> SUFFICES ASSUME HsRuled
             PROVE  HsTypeOK
  OBVIOUS
<1>1. Walk /\ Written
  BY DEF HsRuled, HsInv
<1>2. ASSUME NEW i \in DOMAIN hsStock
      PROVE  hsStock[i] \in Places
  <2>1. PICK s, sag :
          /\ Climbs(hsRows, s) /\ Way(s, sag) /\ sag # NoSag
          /\ hsStock[i] = [sag |-> sag, box |-> IF IsRoot(Top(s)) THEN NoBox ELSE BoxBefore(s)]
    <3>1. Visited(i)
      BY <1>1, <1>2 DEF Walk
    <3>2. QED
      BY <1>2, <3>1 DEF Visited
  <2>2. sag \in Sags
    BY <2>1 DEF Way, InHangar, IsRoot
  <2>3. s \in Seq(hsRows) /\ s # <<>>
    BY <2>1 DEF Climbs
  <2>4. Len(s) # 1 => s[Len(s) - 1] \in hsRows
    <3>1. PICK n \in Nat \ {0} : n = Len(s)
      BY <2>3
    <3>2. \A k \in 1..n : s[k] \in hsRows
      BY <2>3, <3>1
    <3>3. n # 1 => n - 1 \in 1..n
      OBVIOUS
    <3>4. QED
      BY <3>1, <3>2, <3>3
  <2>5. BoxBefore(s) \in Stuff \cup {NoBox}
    BY <1>1, <2>4 DEF BoxBefore, Walk, Rising, AssetRows
  <2>6. QED
    BY <2>1, <2>2, <2>5 DEF Places
<1>3. ASSUME NEW r \in hsLog
      PROVE  r.sag \in Sags /\ r.quantity \in 1..Cardinality(Stuff)
  <2>1. PICK i \in Kept(hsRules) : r = LogRow(i, hsRules)
    BY <1>1, <1>3 DEF Written
  <2> DEFINE alike == {j \in Kept(hsRules) : KeyOf(j) = KeyOf(i)}
  <2>2. i \in DOMAIN hsStock /\ i \in alike /\ alike \subseteq Stuff
    BY <1>1, <2>1 DEF Kept, Walk
  <2>3. r.sag = hsStock[i].sag /\ r.quantity = Cardinality(alike)
    BY <2>1 DEF LogRow
  <2> HIDE DEF alike
  <2>4. r.sag \in Sags
    BY <1>2, <2>2, <2>3 DEF Places
  <2>5. /\ IsFiniteSet(alike) /\ Cardinality(alike) \in Nat /\ Cardinality(Stuff) \in Nat
        /\ Cardinality(alike) <= Cardinality(Stuff)
    BY <2>2, HangarAssumption, FS_Subset, FS_CardinalityType
  <2>6. Cardinality(alike) # 0
    BY <2>2, <2>5, FS_EmptySet
  <2>7. QED
    BY <2>3, <2>4, <2>5, <2>6
<1>4. hsRows \subseteq AssetRows
  BY <1>1 DEF Walk, Rising
<1>5. QED
  BY <1>1, <1>2, <1>3, <1>4 DEF HsTypeOK, HsRuled, Walk, Entries
-----------------------------------------------------------------------------
(***************************************************************************)
(* The alerts.                                                             *)
(***************************************************************************)
AaTyped == AaInv /\ faults \in 0..MaxFaults

LEMMA AaTypedNext == AaTyped /\ [AaNext]_aaVars => AaTyped'
<1> SUFFICES ASSUME AaTyped, [AaNext]_aaVars
             PROVE  AaTyped'
  OBVIOUS
<1>1. Fault \/ UNCHANGED faults
  BY DEF AaNext, Attack, HourPasses, AaStart, AaStepOf, AaFetch, AaReadFirst, AaFirst, AaRead,
     AaPost, AaSave, AaFail, AaCrash, aaVars, NoFault
<1>2. faults' \in 0..MaxFaults
  BY <1>1, FaultsAssumption DEF AaTyped, Fault
<1>3. QED
  BY <1>2, AaNext_Inv DEF AaTyped

LEMMA AaTypes == AaTyped => AaTypeOK
BY DEF AaTyped, AaInv, Types, AaTypeOK
-----------------------------------------------------------------------------
(***************************************************************************)
(* All of them.  A service that does nothing stays as it was, but for the  *)
(* faults it shares with the others.                                       *)
(***************************************************************************)
LEMMA Resting ==
    ASSUME ServicesTypeOK, faults' \in 0..MaxFaults
    PROVE  /\ UNCHANGED restAc => AcTypeOK'
           /\ UNCHANGED restWl => WlTypeOK'
           /\ UNCHANGED restDb => DbTypeOK'
           /\ UNCHANGED restAa => AaTypeOK'
           /\ UNCHANGED restMc => McTypeOK'
           /\ UNCHANGED soVars => SoTypeOK'
           /\ UNCHANGED restDt => DtTypeOK'
           /\ UNCHANGED restFc => FcTypeOK'
           /\ UNCHANGED hsVars => HsTypeOK'
<1>1. UNCHANGED restAc => AcTypeOK'
  BY DEF ServicesTypeOK, AcTypeOK, restAc
<1>2. UNCHANGED restWl => WlTypeOK'
  BY DEF ServicesTypeOK, WlTypeOK, restWl
<1>3. UNCHANGED restDb => DbTypeOK'
  BY DEF ServicesTypeOK, DbTypeOK, restDb, dbProd, dbDev, dbRedis, dbPoll
<1>4. UNCHANGED restAa => AaTypeOK'
  BY DEF ServicesTypeOK, AaTypeOK, restAa, aaGame, aaTick, aaHistory
<1>5. UNCHANGED restMc => McTypeOK'
  BY DEF ServicesTypeOK, McTypeOK, restMc, mcCall, mcLimiter
<1>6. UNCHANGED soVars => SoTypeOK'
  BY DEF ServicesTypeOK, SoTypeOK, soVars
<1>7. UNCHANGED restDt => DtTypeOK'
  BY DEF ServicesTypeOK, DtTypeOK, restDt, dtWorld, dtPoll, dtRedis, dtHistory
<1>8. UNCHANGED restFc => FcTypeOK'
  BY DEF ServicesTypeOK, FcTypeOK, restFc
<1>9. UNCHANGED hsVars => HsTypeOK'
  BY DEF ServicesTypeOK, HsTypeOK, hsVars
<1>10. QED
  BY <1>1, <1>2, <1>3, <1>4, <1>5, <1>6, <1>7, <1>8, <1>9

\* The service in focus has its own invariant.
InFocus ==
    /\ focus = "Autocomplete" => AcInv
    /\ focus = "WebLogin" => WlInv
    /\ focus = "DevBridge" => DbInv
    /\ focus = "AttackAlert" => AaTyped
    /\ focus = "MarketCache" => McLimits
    /\ focus = "StationOrders" => SoInv
    /\ focus = "DowntimeNotice" => DtInv
    /\ focus = "FleetCommand" => FcInv
    /\ focus = "HangarStock" => HsRuled

ServicesInv == ServicesTypeOK /\ InFocus

LEMMA ServicesInit == Init => ServicesInv
<1> SUFFICES ASSUME Init
             PROVE  ServicesInv
  OBVIOUS
<1>1. /\ AcInit /\ WlInit /\ DbInit /\ AaInit /\ McInit /\ SoInit /\ DtInit /\ FcInit /\ HsInit
  BY DEF Init
<1>2. /\ AcInv /\ WlInv /\ DbInv /\ AaInv /\ McLimits /\ SoInv /\ DtInv /\ FcInv /\ HsRuled
  BY <1>1, AcInit_Inv, WlInit_Inv, DbInit_Inv, AaInit_Inv, McLimitsInit, SoInitInv, DtInitInv,
     FcInit_Inv, HsRuledInit
<1>3. AaTyped
  BY <1>2 DEF AaTyped, AcInv, AcTypeOK
<1>4. ServicesTypeOK
  BY <1>2, <1>3, AaTypes, SoTypes, HsTypes
     DEF ServicesTypeOK, AcInv, WlInv, DbInv, McLimits, DtInv, FcInv
<1>5. QED
  BY <1>2, <1>3, <1>4 DEF ServicesInv, InFocus

LEMMA ServicesNext == ServicesInv /\ [Next]_vars => ServicesInv'
<1> SUFFICES ASSUME ServicesInv, [Next]_vars
             PROVE  ServicesInv'
  OBVIOUS
<1>0. ServicesTypeOK /\ InFocus /\ faults \in 0..MaxFaults
  BY DEF ServicesInv, ServicesTypeOK, AcTypeOK
<1>1. CASE Ac(AcNext)
  <2>1. /\ focus = "Autocomplete" /\ focus' = focus /\ AcNext
        /\ UNCHANGED <<restWl, restDb, restAa, restMc, soVars, restDt, restFc, hsVars>>
    BY <1>1 DEF Ac, On, In
  <2>2. AcInv'
    BY <1>0, <2>1, AcNext_Inv DEF InFocus
  <2>3. AcTypeOK' /\ faults' \in 0..MaxFaults
    BY <2>2 DEF AcInv, AcTypeOK
  <2>4. ServicesTypeOK'
    BY <1>0, <2>1, <2>3, Resting DEF ServicesTypeOK
  <2>5. QED
    BY <2>1, <2>2, <2>4 DEF ServicesInv, InFocus
<1>2. CASE Wl(WlNext)
  <2>1. /\ focus = "WebLogin" /\ focus' = focus /\ WlNext
        /\ UNCHANGED <<restAc, restDb, restAa, restMc, soVars, restDt, restFc, hsVars>>
    BY <1>2 DEF Wl, On, In
  <2>2. WlInv'
    BY <1>0, <2>1, WlNext_Inv DEF InFocus
  <2>3. WlTypeOK' /\ faults' \in 0..MaxFaults
    BY <2>2 DEF WlInv, WlTypeOK
  <2>4. ServicesTypeOK'
    BY <1>0, <2>1, <2>3, Resting DEF ServicesTypeOK
  <2>5. QED
    BY <2>1, <2>2, <2>4 DEF ServicesInv, InFocus
<1>3. CASE Db(DbNext)
  <2>1. /\ focus = "DevBridge" /\ focus' = focus /\ DbNext
        /\ UNCHANGED <<restAc, restWl, restAa, restMc, soVars, restDt, restFc, hsVars>>
    BY <1>3 DEF Db, On, In
  <2>2. DbInv'
    BY <1>0, <2>1, DbNext_Inv DEF InFocus
  <2>3. DbTypeOK' /\ faults' \in 0..MaxFaults
    BY <2>2 DEF DbInv, DbTypeOK
  <2>4. ServicesTypeOK'
    BY <1>0, <2>1, <2>3, Resting DEF ServicesTypeOK
  <2>5. QED
    BY <2>1, <2>2, <2>4 DEF ServicesInv, InFocus
<1>4. CASE Aa(AaNext)
  <2>1. /\ focus = "AttackAlert" /\ focus' = focus /\ AaNext
        /\ UNCHANGED <<restAc, restWl, restDb, restMc, soVars, restDt, restFc, hsVars>>
    BY <1>4 DEF Aa, On, In
  <2>2. AaTyped'
    BY <1>0, <2>1, AaTypedNext DEF InFocus
  <2>3. AaTypeOK' /\ faults' \in 0..MaxFaults
    <3>1. AaTyped' => AaTypeOK'
      BY AaTypes, PTL
    <3>2. faults' \in 0..MaxFaults
      BY <2>2 DEF AaTyped
    <3>3. QED
      BY <2>2, <3>1, <3>2
  <2>4. ServicesTypeOK'
    BY <1>0, <2>1, <2>3, Resting DEF ServicesTypeOK
  <2>5. QED
    BY <2>1, <2>2, <2>4 DEF ServicesInv, InFocus
<1>5. CASE Mc(McNext)
  <2>1. /\ focus = "MarketCache" /\ focus' = focus /\ McNext
        /\ UNCHANGED <<restAc, restWl, restDb, restAa, soVars, restDt, restFc, hsVars>>
    BY <1>5 DEF Mc, On, In
  <2>2. McLimits'
    BY <1>0, <2>1, McLimitsNext DEF InFocus
  <2>3. McTypeOK' /\ faults' \in 0..MaxFaults
    BY <2>2 DEF McLimits, McTypeOK
  <2>4. ServicesTypeOK'
    BY <1>0, <2>1, <2>3, Resting DEF ServicesTypeOK
  <2>5. QED
    BY <2>1, <2>2, <2>4 DEF ServicesInv, InFocus
<1>6. CASE So(SoNext)
  <2>1. /\ focus = "StationOrders" /\ focus' = focus /\ SoNext
        /\ UNCHANGED <<restAc, restWl, restDb, restAa, restMc, restDt, restFc, hsVars, faults>>
    BY <1>6 DEF So, On, In
  <2>2. SoInv'
    BY <1>0, <2>1, SoNextInv DEF InFocus
  <2>3. SoTypeOK' /\ faults' \in 0..MaxFaults
    <3>1. SoInv' => SoTypeOK'
      BY SoTypes, PTL
    <3>2. faults' \in 0..MaxFaults
      BY <1>0, <2>1
    <3>3. QED
      BY <2>2, <3>1, <3>2
  <2>4. ServicesTypeOK'
    BY <1>0, <2>1, <2>3, Resting DEF ServicesTypeOK
  <2>5. QED
    BY <2>1, <2>2, <2>4 DEF ServicesInv, InFocus
<1>7. CASE Dt(DtNext)
  <2>1. /\ focus = "DowntimeNotice" /\ focus' = focus /\ DtNext
        /\ UNCHANGED <<restAc, restWl, restDb, restAa, restMc, soVars, restFc, hsVars>>
    BY <1>7 DEF Dt, On, In
  <2>2. DtInv'
    BY <1>0, <2>1, DtNextInv DEF InFocus
  <2>3. DtTypeOK' /\ faults' \in 0..MaxFaults
    BY <2>2 DEF DtInv, DtTypeOK
  <2>4. ServicesTypeOK'
    BY <1>0, <2>1, <2>3, Resting DEF ServicesTypeOK
  <2>5. QED
    BY <2>1, <2>2, <2>4 DEF ServicesInv, InFocus
<1>8. CASE Fc(FcNext)
  <2>1. /\ focus = "FleetCommand" /\ focus' = focus /\ FcNext
        /\ UNCHANGED <<restAc, restWl, restDb, restAa, restMc, soVars, restDt, hsVars>>
    BY <1>8 DEF Fc, On, In
  <2>2. FcInv'
    BY <1>0, <2>1, FcNext_Inv DEF InFocus
  <2>3. FcTypeOK' /\ faults' \in 0..MaxFaults
    BY <2>2 DEF FcInv, FcTypeOK
  <2>4. ServicesTypeOK'
    BY <1>0, <2>1, <2>3, Resting DEF ServicesTypeOK
  <2>5. QED
    BY <2>1, <2>2, <2>4 DEF ServicesInv, InFocus
<1>9. CASE Hs(HsNext)
  <2>1. /\ focus = "HangarStock" /\ focus' = focus /\ HsNext
        /\ UNCHANGED <<restAc, restWl, restDb, restAa, restMc, soVars, restDt, restFc, faults>>
    BY <1>9 DEF Hs, On, In
  <2>2. HsRuled'
    BY <1>0, <2>1, HsRuledNext DEF InFocus
  <2>3. HsTypeOK' /\ faults' \in 0..MaxFaults
    <3>1. HsRuled' => HsTypeOK'
      BY HsTypes, PTL
    <3>2. faults' \in 0..MaxFaults
      BY <1>0, <2>1
    <3>3. QED
      BY <2>2, <3>1, <3>2
  <2>4. ServicesTypeOK'
    BY <1>0, <2>1, <2>3, Resting DEF ServicesTypeOK
  <2>5. QED
    BY <2>1, <2>2, <2>4 DEF ServicesInv, InFocus
<1>10. CASE UNCHANGED vars
  <2>1. UNCHANGED <<focus, acVars, wlVars, dbVars, aaVars, mcVars, soVars, dtVars, fcVars, hsVars>>
    BY <1>10 DEF vars
  <2>2. UNCHANGED <<focus, faults, restAc, restWl, restDb, restAa, restMc, soVars, restDt, restFc, hsVars>>
    BY <2>1 DEF acVars, wlVars, dbVars, aaVars, mcVars, dtVars, fcVars,
       restAc, restWl, restDb, restAa, restMc, restDt, restFc
  <2>3. ServicesTypeOK'
    BY <1>0, <2>2, Resting DEF ServicesTypeOK
  <2>4. InFocus'
    BY <1>0, <2>1, AcNext_Inv, WlNext_Inv, DbNext_Inv, AaTypedNext, McLimitsNext, SoNextInv,
       DtNextInv, FcNext_Inv, HsRuledNext DEF InFocus
  <2>5. QED
    BY <2>3, <2>4 DEF ServicesInv
<1>11. QED
  BY <1>1, <1>2, <1>3, <1>4, <1>5, <1>6, <1>7, <1>8, <1>9, <1>10 DEF Next

(***************************************************************************)
(* Type correctness of the services for all values of their constants: in  *)
(* particular a worker never has more fetches at ESI than ESI_CONCURRENCY, *)
(* and esiRunning never falls below 0 (esiMarketCache.js:28-51).           *)
(***************************************************************************)
THEOREM ServicesTypeCorrect == Spec => []ServicesTypeOK
<1>1. ServicesInv => ServicesTypeOK
  BY DEF ServicesInv
<1>2. QED
  BY ServicesInit, ServicesNext, <1>1, PTL DEF Spec
=============================================================================
