---------------------------- MODULE MarketCache ----------------------------
(***************************************************************************)
(* The prices of the market command: getMarketPrice for every item of the  *)
(* list, all at once, through a cache in Redis (60 s), a lock per price    *)
(* (30 s) and a queue that bounds the requests a worker has at ESI.        *)
(* A worker runs one command at a time; the workers share Redis.           *)
(***************************************************************************)
EXTENDS Faults, Sequences, FiniteSets

CONSTANTS
    MarketWorkers,
    Goods,            \* items
    ListOf,           \* those a worker's commands ask for
    Limit,            \* ESI_CONCURRENCY
    LockRetries,      \* LOCK_RETRIES
    MaxCommands,      \* bound on commands
    Unlocked          \* no lock

ASSUME MarketCacheAssumption ==
    /\ ListOf \in [MarketWorkers -> SUBSET Goods]
    /\ Limit \in Nat \ {0} /\ LockRetries \in Nat \ {0}
    /\ MaxCommands \in Nat
    /\ Unlocked \notin MarketWorkers

VARIABLES
    mcCached,     \* the prices in the cache
    mcLock,       \* the worker that set the lock (the value is "1" for all)
    mcPc,         \* getMarketPrice, per worker and item
    mcTries,      \* SETs of the lock that failed
    mcQueue,      \* esiQueue of each worker
    mcRunning,    \* esiRunning
    mcCommands,   \* commands so far
    mcSlow        \* a lock ran out while its holder was alive

mcCall == <<mcPc, mcTries>>
mcLimiter == <<mcQueue, mcRunning>>
mcVars == <<mcCached, mcLock, mcCall, mcLimiter, mcCommands, mcSlow, faults>>

McTypeOK ==
    /\ mcCached \subseteq Goods
    /\ mcLock \in [Goods -> MarketWorkers \cup {Unlocked}]
    /\ mcPc \in [MarketWorkers -> [Goods ->
                    {"idle", "get", "lock", "wait", "queued", "fetch", "put", "unlock", "done"}]]
    /\ mcTries \in [MarketWorkers -> [Goods -> 0..LockRetries]]
    /\ mcQueue \in [MarketWorkers -> Seq(Goods)]
    /\ mcRunning \in [MarketWorkers -> 0..Limit]
    /\ mcCommands \in 0..MaxCommands
    /\ mcSlow \in BOOLEAN
    /\ faults \in 0..MaxFaults

McInit ==
    /\ mcCached = {}
    /\ mcLock = [g \in Goods |-> Unlocked]
    /\ mcPc = [w \in MarketWorkers |-> [g \in Goods |-> "idle"]]
    /\ mcTries = [w \in MarketWorkers |-> [g \in Goods |-> 0]]
    /\ mcQueue = [w \in MarketWorkers |-> <<>>]
    /\ mcRunning = [w \in MarketWorkers |-> 0]
    /\ mcCommands = 0
    /\ mcSlow = FALSE
    /\ faults = 0
-----------------------------------------------------------------------------
McGo(w, g, step) == mcPc' = [mcPc EXCEPT ![w][g] = step]

\* It returns a price, a stale one, or throws: the row of the command is there.
McReturn(w, g) == McGo(w, g, "done") /\ mcTries' = [mcTries EXCEPT ![w][g] = 0]

\* The command asks for all its items at once.
McCommand(w) ==
    /\ \A g \in Goods : mcPc[w][g] = "idle"
    /\ mcPc' = [mcPc EXCEPT ![w] = [g \in Goods |-> IF g \in ListOf[w] THEN "get" ELSE "idle"]]
    /\ mcCommands < MaxCommands /\ mcCommands' = mcCommands + 1
    /\ NoFault /\ UNCHANGED <<mcCached, mcLock, mcTries, mcLimiter, mcSlow>>

\* Promise.all has them all.
McReply(w) ==
    /\ \A g \in ListOf[w] : mcPc[w][g] = "done"
    /\ mcPc' = [mcPc EXCEPT ![w] = [g \in Goods |-> "idle"]]
    /\ NoFault /\ UNCHANGED <<mcCached, mcLock, mcTries, mcLimiter, mcCommands, mcSlow>>

McGet(w, g) ==
    /\ mcPc[w][g] = "get"
    /\ IF g \in mcCached
       THEN McReturn(w, g)
       ELSE McGo(w, g, "lock") /\ UNCHANGED mcTries
    /\ NoFault /\ UNCHANGED <<mcCached, mcLock, mcLimiter, mcCommands, mcSlow>>

\* Seeded bug: SET without NX.
McIgnoresLock(g) == TRUE

\* SET NX.
McTakesLock(g) == mcLock[g] = Unlocked

\* Seeded bug: esiRunning is not compared with the limit.
McAlwaysSlot(w) == TRUE

McHasSlot(w) == mcRunning[w] < Limit

\* With the lock, runWithLimit starts the fetch or queues it.
McLocked(w, g) ==
    /\ mcPc[w][g] = "lock" /\ McTakesLock(g)
    /\ mcLock' = [mcLock EXCEPT ![g] = w]
    /\ mcTries' = [mcTries EXCEPT ![w][g] = 0]
    /\ IF McHasSlot(w)
       THEN /\ McGo(w, g, "fetch")
            /\ mcRunning' = [mcRunning EXCEPT ![w] = @ + 1]
            /\ UNCHANGED mcQueue
       ELSE /\ McGo(w, g, "queued")
            /\ mcQueue' = [mcQueue EXCEPT ![w] = Append(@, g)]
            /\ UNCHANGED mcRunning
    /\ NoFault /\ UNCHANGED <<mcCached, mcCommands, mcSlow>>

McBusy(w, g) ==
    /\ mcPc[w][g] = "lock" /\ ~McTakesLock(g)
    /\ mcTries' = [mcTries EXCEPT ![w][g] = @ + 1]
    /\ McGo(w, g, "wait")
    /\ NoFault /\ UNCHANGED <<mcCached, mcLock, mcLimiter, mcCommands, mcSlow>>

\* After the back-off: the price is there, or the lock is tried again, or it was the last
\* try, and the call returns a stale price or throws.
McRecheck(w, g) ==
    /\ mcPc[w][g] = "wait"
    /\ \/ g \in mcCached /\ McReturn(w, g)
       \/ /\ g \notin mcCached /\ mcTries[w][g] < LockRetries
          /\ McGo(w, g, "lock") /\ UNCHANGED mcTries
       \/ g \notin mcCached /\ mcTries[w][g] = LockRetries /\ McReturn(w, g)
    /\ NoFault /\ UNCHANGED <<mcCached, mcLock, mcLimiter, mcCommands, mcSlow>>

\* Seeded bug: the queue is not looked at.
McFinallyIdle(w) ==
    /\ UNCHANGED mcQueue
    /\ mcRunning' = [mcRunning EXCEPT ![w] = @ - 1]

\* What the finally of runWithLimit does: the next of the queue runs.
McFinally(w) ==
    IF mcQueue[w] = <<>>
    THEN mcRunning' = [mcRunning EXCEPT ![w] = @ - 1] /\ UNCHANGED mcQueue
    ELSE mcQueue' = [mcQueue EXCEPT ![w] = Tail(@)] /\ UNCHANGED mcRunning

\* The step a fetch ends with, and the queued fetch that starts.
McFetchEnds(w, g, step) ==
    mcPc' = [mcPc EXCEPT ![w] = [h \in Goods |->
        CASE h = g -> step
          [] mcQueue'[w] # mcQueue[w] /\ h = Head(mcQueue[w]) -> "fetch"
          [] OTHER -> mcPc[w][h]]]

McFetched(w, g) ==
    /\ mcPc[w][g] = "fetch"
    /\ McFinally(w) /\ McFetchEnds(w, g, "put")
    /\ NoFault /\ UNCHANGED <<mcCached, mcLock, mcTries, mcCommands, mcSlow>>

McFetchFails(w, g) ==
    /\ Fault
    /\ mcPc[w][g] = "fetch"
    /\ McFinally(w) /\ McFetchEnds(w, g, "unlock")
    /\ UNCHANGED <<mcCached, mcLock, mcTries, mcCommands, mcSlow>>

McPut(w, g) ==
    /\ mcPc[w][g] = "put"
    /\ mcCached' = mcCached \cup {g}
    /\ McGo(w, g, "unlock")
    /\ NoFault /\ UNCHANGED <<mcLock, mcTries, mcLimiter, mcCommands, mcSlow>>

\* The DEL of the finally, whoever holds the lock by now; a rejected DEL is swallowed.
McUnlock(w, g) ==
    /\ mcPc[w][g] = "unlock"
    /\ McGo(w, g, "done")
    /\ \/ mcLock' = [mcLock EXCEPT ![g] = Unlocked] /\ NoFault
       \/ UNCHANGED mcLock /\ Fault
    /\ UNCHANGED <<mcCached, mcTries, mcLimiter, mcCommands, mcSlow>>

\* Redis throws out of the call: the row has an error.
McRedisFails(w, g) ==
    /\ Fault
    /\ mcPc[w][g] \in {"get", "lock", "wait", "put"}
    /\ IF mcPc[w][g] = "put"
       THEN McGo(w, g, "unlock") /\ UNCHANGED mcTries
       ELSE McReturn(w, g)
    /\ UNCHANGED <<mcCached, mcLock, mcLimiter, mcCommands, mcSlow>>

McCacheExpires(g) ==
    /\ g \in mcCached
    /\ mcCached' = mcCached \ {g}
    /\ NoFault /\ UNCHANGED <<mcLock, mcCall, mcLimiter, mcCommands, mcSlow>>

Holding == {"queued", "fetch", "put", "unlock"}

McLockExpires(g) ==
    /\ mcLock[g] # Unlocked
    /\ mcLock' = [mcLock EXCEPT ![g] = Unlocked]
    /\ mcSlow' = (mcSlow \/ mcPc[mcLock[g]][g] \in Holding)
    /\ NoFault /\ UNCHANGED <<mcCached, mcCall, mcLimiter, mcCommands>>

McCrash(w) ==
    /\ Fault
    /\ \E g \in Goods : mcPc[w][g] # "idle"
    /\ mcPc' = [mcPc EXCEPT ![w] = [g \in Goods |-> "idle"]]
    /\ mcTries' = [mcTries EXCEPT ![w] = [g \in Goods |-> 0]]
    /\ mcQueue' = [mcQueue EXCEPT ![w] = <<>>]
    /\ mcRunning' = [mcRunning EXCEPT ![w] = 0]
    /\ UNCHANGED <<mcCached, mcLock, mcCommands, mcSlow>>
-----------------------------------------------------------------------------
McStep(w, g) ==
    \/ McGet(w, g) \/ McLocked(w, g) \/ McBusy(w, g) \/ McRecheck(w, g)
    \/ McFetched(w, g) \/ McPut(w, g) \/ McUnlock(w, g)

McNext ==
    \/ \E w \in MarketWorkers :
        \/ McCommand(w) \/ McReply(w) \/ McCrash(w)
        \/ \E g \in Goods : McStep(w, g) \/ McFetchFails(w, g) \/ McRedisFails(w, g)
    \/ \E g \in Goods : McCacheExpires(g) \/ McLockExpires(g)

McSpec == McInit /\ [][McNext]_mcVars
-----------------------------------------------------------------------------
(***************************************************************************)
(* One price is fetched by one worker at a time, as long as no lock ran    *)
(* out under a living holder: errors, crashes and locks left behind        *)
(* included (esiMarketCache.js:142, DEL whoever holds it).                 *)
(***************************************************************************)
McOneFetch ==
    ~mcSlow => \A g \in Goods : \A v, w \in MarketWorkers :
        mcPc[v][g] \in Holding \ {"unlock"} /\ mcPc[w][g] \in Holding \ {"unlock"} => v = w

(***************************************************************************)
(* A command gets all its rows, with a price or an error, unless the       *)
(* worker dies: no call waits for ever for a lock or a slot                *)
(* (marketPrice.js:191, Promise.all over the rows).                        *)
(***************************************************************************)
McAllRows == <>[](\A w \in MarketWorkers : \A g \in Goods : mcPc[w][g] \in {"done", "idle"})
=============================================================================
