----------------------------- MODULE WorkerBoot -----------------------------
(***************************************************************************)
(* The boot of tenant workers: create the tenant's database if needed,     *)
(* take the Redis lock bonsai:migrate:lock:{tenant}, run "prisma migrate   *)
(* deploy" as a child process, check the TenantMeta row, release the lock, *)
(* and on any error sleep and try again, a bounded number of times.        *)
(*                                                                         *)
(* All processes of the model use one database: several instances of one   *)
(* tenant, and, by a configuration mistake, workers of other tenants.      *)
(* Time is counted in units of the retry delay; a unit passes in Tick.     *)
(***************************************************************************)
EXTENDS Naturals

CONSTANTS
    Procs,        \* started processes; a restart is another process
    Tenants,
    TenantOf,     \* the TENANT each process was started with
    Nobody,       \* the lock key does not exist
    TTL,          \* TENANT_MIGRATE_LOCK_TTL_SEC
    Attempts,     \* DB_CONNECT_RETRY_ATTEMPTS
    Delay,        \* DB_CONNECT_RETRY_DELAY_MS
    MaxHold,      \* bound on the time from SET NX to DEL or to the child's end
    MaxFaults     \* bound on crashes, database and Redis errors, failed migrations

ASSUME BootAssumption ==
    /\ Nobody \notin Procs
    /\ TenantOf \in [Procs -> Tenants]
    /\ TTL \in Nat \ {0}
    /\ Attempts \in Nat \ {0}
    /\ Delay \in Nat
    /\ MaxHold \in Nat
    /\ MaxFaults \in Nat

VARIABLES
    pc,        \* where initializeWorker is
    attempt,   \* its loop counter
    wake,      \* what is left of its sleep
    held,      \* time since the process got the lock
    lock, ttl, \* the lock keys: owner and time to live
    children,  \* processes whose child "prisma migrate deploy" is running
    minted,    \* TenantMeta ids generated so far; they grow
    id,        \* the id a process has generated for its upsert
    meta,      \* the id of each tenant's committed TenantMeta row, 0 if there is none
    raced,     \* tenants whose row was being inserted when a process passed the check
    faults

metas == <<minted, id, meta, raced>>
vars == <<pc, attempt, wake, held, lock, ttl, children, metas, faults>>

\* From SET NX to DEL.
Holding == {"locked", "migrate", "upsert", "insert", "check", "releaseOk", "releaseFail"}
BootStep == {"off", "create", "lock", "sleep", "ready", "exit", "dead"} \cup Holding

\* A process between SET NX and DEL, or whose child outlived it.
Busy(p) == pc[p] \in Holding \/ p \in children

TypeOK ==
    /\ pc \in [Procs -> BootStep]
    /\ attempt \in [Procs -> 0..Attempts]
    /\ wake \in [Procs -> 0..Delay]
    /\ held \in [Procs -> 0..MaxHold]
    /\ lock \in [Tenants -> Procs \cup {Nobody}]
    /\ ttl \in [Tenants -> 0..TTL]
    /\ children \subseteq Procs
    /\ minted \in Nat
    /\ id \in [Procs -> Nat] /\ meta \in [Tenants -> Nat]
    /\ raced \in [Procs -> SUBSET Tenants]
    /\ faults \in 0..MaxFaults

Init ==
    /\ pc = [p \in Procs |-> "off"]
    /\ attempt = [p \in Procs |-> 0]
    /\ wake = [p \in Procs |-> 0]
    /\ held = [p \in Procs |-> 0]
    /\ lock = [t \in Tenants |-> Nobody]
    /\ ttl = [t \in Tenants |-> 0]
    /\ children = {}
    /\ minted = 0
    /\ id = [p \in Procs |-> 0] /\ meta = [t \in Tenants |-> 0]
    /\ raced = [p \in Procs |-> {}]
    /\ faults = 0

-----------------------------------------------------------------------------
GoTo(p, s) == pc' = [pc EXCEPT ![p] = s]

Fault == faults < MaxFaults /\ faults' = faults + 1

\* Seeded bug: one attempt too many.
RetryOnceMore(p) ==
    IF attempt[p] <= Attempts
    THEN /\ GoTo(p, "sleep")
         /\ wake' = [wake EXCEPT ![p] = Delay]
         /\ attempt' = [attempt EXCEPT ![p] = @ + 1]
    ELSE GoTo(p, "exit") /\ UNCHANGED <<wake, attempt>>

\* The catch block of the boot loop: sleep, or give up at the last attempt.
Retry(p) ==
    IF attempt[p] < Attempts
    THEN /\ GoTo(p, "sleep")
         /\ wake' = [wake EXCEPT ![p] = Delay]
         /\ attempt' = [attempt EXCEPT ![p] = @ + 1]
    ELSE GoTo(p, "exit") /\ UNCHANGED <<wake, attempt>>

Start(p) ==
    /\ pc[p] = "off"
    /\ GoTo(p, "create")
    /\ attempt' = [attempt EXCEPT ![p] = 1]
    /\ UNCHANGED <<wake, held, lock, ttl, children, metas, faults>>

CreateDb(p) ==
    /\ pc[p] = "create"
    /\ GoTo(p, "lock")
    /\ UNCHANGED <<attempt, wake, held, lock, ttl, children, metas, faults>>

\* MySQL or Redis rejects before the lock is taken.
DbFails(p) ==
    /\ pc[p] \in {"create", "lock"}
    /\ Fault
    /\ Retry(p)
    /\ UNCHANGED <<held, lock, ttl, children, metas>>

\* Seeded bug: SET without NX.
AcquireAnyway(p) ==
    /\ pc[p] = "lock"
    /\ lock' = [lock EXCEPT ![TenantOf[p]] = p]
    /\ ttl' = [ttl EXCEPT ![TenantOf[p]] = TTL]
    /\ held' = [held EXCEPT ![p] = 0]
    /\ GoTo(p, "locked")
    /\ UNCHANGED <<attempt, wake, children, metas, faults>>

\* SET key pid NX EX ttl.
Acquire(p) ==
    /\ pc[p] = "lock"
    /\ lock[TenantOf[p]] = Nobody
    /\ lock' = [lock EXCEPT ![TenantOf[p]] = p]
    /\ ttl' = [ttl EXCEPT ![TenantOf[p]] = TTL]
    /\ held' = [held EXCEPT ![p] = 0]
    /\ GoTo(p, "locked")
    /\ UNCHANGED <<attempt, wake, children, metas, faults>>

\* Seeded bug: the lock is taken inside the try, and the finally block runs.
RefusedReleasing(p) ==
    /\ pc[p] = "lock"
    /\ lock[TenantOf[p]] # Nobody
    /\ lock' = [lock EXCEPT ![TenantOf[p]] = Nobody]
    /\ ttl' = [ttl EXCEPT ![TenantOf[p]] = 0]
    /\ Retry(p)
    /\ UNCHANGED <<held, children, metas, faults>>

\* The throw of acquireMigrateLock is outside the try: nothing is released.
Refused(p) ==
    /\ pc[p] = "lock"
    /\ lock[TenantOf[p]] # Nobody
    /\ Retry(p)
    /\ UNCHANGED <<held, lock, ttl, children, metas, faults>>

\* Seeded bug: a spawn that fails is not listened to.
SpawnDeaf(p) ==
    /\ pc[p] = "locked"
    /\ children' \in {children, children \cup {p}}
    /\ GoTo(p, "migrate")
    /\ UNCHANGED <<attempt, wake, held, lock, ttl, metas, faults>>

SpawnMigrate(p) ==
    /\ pc[p] = "locked"
    /\ children' = children \cup {p}
    /\ GoTo(p, "migrate")
    /\ UNCHANGED <<attempt, wake, held, lock, ttl, metas, faults>>

\* The child ends; if the worker died meanwhile, nobody notices.
MigrateEnds(p) ==
    /\ p \in children
    /\ children' = children \ {p}
    /\ IF pc[p] = "migrate" THEN GoTo(p, "upsert") ELSE UNCHANGED pc
    /\ UNCHANGED <<attempt, wake, held, lock, ttl, metas, faults>>

\* Exit code other than 0.
MigrateFails(p) ==
    /\ p \in children
    /\ pc[p] = "migrate"
    /\ Fault
    /\ children' = children \ {p}
    /\ GoTo(p, "releaseFail")
    /\ UNCHANGED <<attempt, wake, held, lock, ttl, metas>>

\* The first half of the upsert: an id is generated, and the row is looked up.
FindMeta(p) ==
    /\ pc[p] = "upsert"
    /\ IF meta[TenantOf[p]] # 0
       THEN GoTo(p, "check") /\ UNCHANGED <<minted, id>>
       ELSE /\ minted' = minted + 1
            /\ id' = [id EXCEPT ![p] = minted + 1]
            /\ GoTo(p, "insert")
    /\ UNCHANGED <<attempt, wake, held, lock, ttl, children, meta, raced, faults>>

Inserted(p) == IF meta[TenantOf[p]] = 0 THEN [meta EXCEPT ![TenantOf[p]] = id[p]] ELSE meta

\* The second half: the row is committed; tenantKey is unique, so if a row of
\* the tenant has appeared meanwhile, the insert is rejected.
InsertMeta(p) ==
    /\ pc[p] = "insert"
    /\ meta' = Inserted(p)
    /\ GoTo(p, IF meta[TenantOf[p]] = 0 THEN "check" ELSE "releaseFail")
    /\ UNCHANGED <<attempt, wake, held, lock, ttl, children, minted, id, raced, faults>>

\* findFirst returns the row with the lowest id.
Oldest(t) == meta[t] # 0 /\ \A u \in Tenants \ {t} : meta[u] # 0 => meta[t] < meta[u]

\* What the check passes is noted with whoever is inserting at that moment.
Check(p, passes) ==
    /\ pc[p] = "check"
    /\ GoTo(p, IF passes THEN "releaseOk" ELSE "exit")
    /\ raced' = [raced EXCEPT ![p] = {TenantOf[q] : q \in {r \in Procs : pc[r] = "insert"}}]
    /\ UNCHANGED <<attempt, wake, held, lock, ttl, children, minted, id, meta, faults>>

\* Seeded bug: the check looks for this tenant's row, which was just upserted.
CheckOwnRow(p) == Check(p, meta[TenantOf[p]] # 0)

\* The oldest row must be this tenant's; otherwise the process exits on the
\* spot, and the finally block with its DEL does not run.
CheckMeta(p) == Check(p, Oldest(TenantOf[p]))

\* A rejected insert may have been committed all the same.
MetaFails(p) ==
    /\ pc[p] \in {"upsert", "insert", "check"}
    /\ Fault
    /\ meta' \in {meta} \cup (IF pc[p] = "insert" THEN {Inserted(p)} ELSE {})
    /\ GoTo(p, "releaseFail")
    /\ UNCHANGED <<attempt, wake, held, lock, ttl, children, minted, id, raced>>

\* DEL key, whoever owns it.
Release(p) ==
    /\ pc[p] \in {"releaseOk", "releaseFail"}
    /\ lock' = [lock EXCEPT ![TenantOf[p]] = Nobody]
    /\ ttl' = [ttl EXCEPT ![TenantOf[p]] = 0]
    /\ IF pc[p] = "releaseOk" THEN GoTo(p, "ready") /\ UNCHANGED <<attempt, wake>>
                              ELSE Retry(p)
    /\ UNCHANGED <<held, children, metas, faults>>

\* The DEL is rejected: even a successful attempt is made again.
ReleaseFails(p) ==
    /\ pc[p] \in {"releaseOk", "releaseFail"}
    /\ Fault
    /\ Retry(p)
    /\ UNCHANGED <<held, lock, ttl, children, metas>>

WakeUp(p) ==
    /\ pc[p] = "sleep"
    /\ wake[p] = 0
    /\ GoTo(p, "create")
    /\ UNCHANGED <<attempt, wake, held, lock, ttl, children, metas, faults>>

\* A worker dies; a running child does not die with it, and an insert under way may
\* be committed.
Crash(p) ==
    /\ pc[p] \notin {"off", "ready", "exit", "dead"}
    /\ Fault
    /\ GoTo(p, "dead")
    /\ meta' \in {meta} \cup (IF pc[p] = "insert" THEN {Inserted(p)} ELSE {})
    /\ UNCHANGED <<attempt, wake, held, lock, ttl, children, minted, id, raced>>

Less(n) == IF n = 0 THEN 0 ELSE n - 1

\* Seeded bug: the key is set without EX.
TickForever ==
    /\ \A p \in Procs : Busy(p) => held[p] < MaxHold
    /\ wake' = [p \in Procs |-> Less(wake[p])]
    /\ held' = [p \in Procs |-> IF Busy(p) THEN held[p] + 1 ELSE held[p]]
    /\ UNCHANGED <<pc, attempt, lock, ttl, children, metas, faults>>

\* One unit of time passes: sleeps shorten, locks expire.
Tick ==
    /\ \A p \in Procs : Busy(p) => held[p] < MaxHold
    /\ wake' = [p \in Procs |-> Less(wake[p])]
    /\ held' = [p \in Procs |-> IF Busy(p) THEN held[p] + 1 ELSE held[p]]
    /\ ttl' = [t \in Tenants |-> Less(ttl[t])]
    /\ lock' = [t \in Tenants |-> IF ttl[t] <= 1 THEN Nobody ELSE lock[t]]
    /\ UNCHANGED <<pc, attempt, children, metas, faults>>

Boot(p) ==
    \/ CreateDb(p) \/ Acquire(p) \/ Refused(p) \/ SpawnMigrate(p)
    \/ MigrateEnds(p) \/ FindMeta(p) \/ InsertMeta(p) \/ CheckMeta(p) \/ Release(p) \/ WakeUp(p)

Next ==
    \/ \E p \in Procs : \/ Start(p) \/ Boot(p) \/ Crash(p)
                        \/ DbFails(p) \/ MigrateFails(p) \/ MetaFails(p) \/ ReleaseFails(p)
    \/ Tick

Spec == Init /\ [][Next]_vars

\* Awaits are answered, a child ends, and time passes.
Fairness == (\A p \in Procs : WF_vars(Boot(p))) /\ WF_vars(Tick)
FairSpec == Spec /\ Fairness

-----------------------------------------------------------------------------
\* README.md:137 - only the process that got the lock migrates: no two
\* migrations of one tenant run at the same time, also when the first one's
\* worker died and its child goes on.
MigrationsExclusive ==
    \A p, q \in children : TenantOf[p] = TenantOf[q] => p = q

\* What makes the unconditional DEL safe: whoever is between SET NX and DEL
\* still owns the key, so it never deletes the lock of a successor.
HoldersOwnLock ==
    \A p \in Procs : pc[p] \in Holding => lock[TenantOf[p]] = p

\* README.md:138 - what the fail-fast check guarantees: workers of two tenants
\* serve one database only if the row of one was being inserted at the
\* moment the other passed the check; a database that is settled, or settles
\* after a crash or a rejected insert, stays with one tenant.
OneTenantUnlessRaced ==
    \A p, q \in Procs : pc[p] = "ready" /\ pc[q] = "ready" =>
        \/ TenantOf[p] = TenantOf[q]
        \/ TenantOf[p] \in raced[q] \/ TenantOf[q] \in raced[p]

\* A worker that starts does not hang: it serves, gives up or dies.
BootEnds ==
    \A p \in Procs : pc[p] = "create" ~> pc[p] \in {"ready", "exit", "dead"}

\* A lock left behind by a crash or by process.exit does not stay.
LockGoesAway ==
    \A p \in Procs : lock[TenantOf[p]] = p ~> lock[TenantOf[p]] # p
=============================================================================
