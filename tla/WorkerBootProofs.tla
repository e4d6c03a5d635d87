-------------------------- MODULE WorkerBootProofs --------------------------
(***************************************************************************)
(* Theorems about WorkerBoot for every number of processes, tenants,       *)
(* attempts and faults.                                                    *)
(***************************************************************************)
EXTENDS WorkerBoot, TLAPS

\* What TLC cannot enumerate and the lock needs: a migration, with what comes
\* after it, is shorter than the lock's time to live.
Timely == MaxHold < TTL

\* Time passes for the lock and for its holder alike: whoever is busy owns
\* the key, and what is left of it is what the holder has not used.
Owned(p) ==
    Busy(p) => /\ lock[TenantOf[p]] = p
               /\ ttl[TenantOf[p]] + held[p] = TTL

\* A child belongs to a worker that waits for it, or that is dead.
ChildOf(p) == p \in children => pc[p] \in {"migrate", "dead"}

\* An id that is at least as old as i, in a committed row of t or in an insert under way.
Older(t, i) ==
    \/ meta[t] # 0 /\ meta[t] <= i
    \/ \E p \in Procs : pc[p] = "insert" /\ TenantOf[p] = t /\ id[p] <= i

\* Past the check the process's own row is there, and another tenant has an older id only if
\* that was being inserted when the check passed: what is generated later is younger.
Passed(q) == pc[q] \in {"releaseOk", "ready"}
OwnRow(q) ==
    Passed(q) => /\ meta[TenantOf[q]] # 0
                 /\ \A t \in Tenants \ {TenantOf[q]} :
                        Older(t, meta[TenantOf[q]]) => t \in raced[q]

LockInv == TypeOK /\ \A p \in Procs : ChildOf(p) /\ Owned(p)
Generated == \A t \in Tenants : meta[t] <= minted
MetaInv == TypeOK /\ Generated /\ (\A p \in Procs : id[p] <= minted /\ OwnRow(p))

-----------------------------------------------------------------------------
(***************************************************************************)
(* Type correctness.                                                       *)
(***************************************************************************)

LEMMA RetryTyped ==
    ASSUME TypeOK, NEW p \in Procs, Retry(p)
    PROVE  /\ pc' \in [Procs -> BootStep]
           /\ attempt' \in [Procs -> 0..Attempts]
           /\ wake' \in [Procs -> 0..Delay]
<1>1. CASE attempt[p] < Attempts
  <2>1. attempt[p] + 1 \in 0..Attempts /\ Delay \in 0..Delay
    BY <1>1, BootAssumption DEF TypeOK
  <2>2. QED
    BY <1>1, <2>1 DEF Retry, GoTo, TypeOK, BootStep
<1>2. CASE ~(attempt[p] < Attempts)
  BY <1>2 DEF Retry, GoTo, TypeOK, BootStep
<1>3. QED
  BY <1>1, <1>2

LEMMA FaultTyped ==
    ASSUME TypeOK, Fault
    PROVE  faults' \in 0..MaxFaults
BY BootAssumption DEF TypeOK, Fault

LEMMA InitTyped == Init => TypeOK
BY BootAssumption DEF Init, TypeOK, BootStep

LEMMA StepTyped ==
    ASSUME TypeOK, [Next]_vars
    PROVE  TypeOK'
<1> USE DEF metas
<1>a. CASE UNCHANGED vars
  BY <1>a DEF vars, TypeOK
<1>b. ASSUME NEW p \in Procs
      PROVE  /\ Start(p) => TypeOK'
             /\ CreateDb(p) => TypeOK'
             /\ DbFails(p) => TypeOK'
             /\ Acquire(p) => TypeOK'
             /\ Refused(p) => TypeOK'
             /\ SpawnMigrate(p) => TypeOK'
             /\ MigrateEnds(p) => TypeOK'
             /\ MigrateFails(p) => TypeOK'
             /\ FindMeta(p) => TypeOK'
             /\ InsertMeta(p) => TypeOK'
             /\ CheckMeta(p) => TypeOK'
             /\ MetaFails(p) => TypeOK'
             /\ Release(p) => TypeOK'
             /\ ReleaseFails(p) => TypeOK'
             /\ WakeUp(p) => TypeOK'
             /\ Crash(p) => TypeOK'
  <2>t. TenantOf[p] \in Tenants /\ TTL \in 0..TTL /\ 0 \in 0..TTL /\ 0 \in 0..MaxHold
        /\ 1 \in 0..Attempts
    BY BootAssumption
  <2>1. Start(p) => TypeOK'
    BY <2>t DEF Start, GoTo, TypeOK, BootStep
  <2>2. CreateDb(p) => TypeOK'
    BY DEF CreateDb, GoTo, TypeOK, BootStep
  <2>3. DbFails(p) => TypeOK'
    BY RetryTyped, FaultTyped DEF DbFails, TypeOK
  <2>4. Acquire(p) => TypeOK'
    BY <2>t DEF Acquire, GoTo, TypeOK, BootStep, Holding
  <2>5. Refused(p) => TypeOK'
    BY RetryTyped DEF Refused, TypeOK
  <2>6. SpawnMigrate(p) => TypeOK'
    BY DEF SpawnMigrate, GoTo, TypeOK, BootStep, Holding
  <2>7. MigrateEnds(p) => TypeOK'
    BY DEF MigrateEnds, GoTo, TypeOK, BootStep, Holding
  <2>8. MigrateFails(p) => TypeOK'
    BY FaultTyped DEF MigrateFails, GoTo, TypeOK, BootStep, Holding
  <2>m. Inserted(p) \in [Tenants -> Nat]
    BY DEF Inserted, TypeOK
  <2>8a. FindMeta(p) => TypeOK'
    BY <2>t DEF FindMeta, GoTo, TypeOK, BootStep, Holding
  <2>9. InsertMeta(p) => TypeOK'
    BY <2>m DEF InsertMeta, GoTo, TypeOK, BootStep, Holding
  <2>10. CheckMeta(p) => TypeOK'
    BY BootAssumption DEF CheckMeta, Check, GoTo, TypeOK, BootStep, Holding
  <2>11. ASSUME MetaFails(p) PROVE TypeOK'
    <3>1. meta' \in [Tenants -> Nat]
      BY <2>11, <2>m DEF MetaFails, TypeOK
    <3>2. QED
      BY <2>11, <3>1, FaultTyped DEF MetaFails, GoTo, TypeOK, BootStep, Holding
  <2>12. ASSUME Release(p) PROVE TypeOK'
    <3>1. lock' \in [Tenants -> Procs \cup {Nobody}] /\ ttl' \in [Tenants -> 0..TTL]
      BY <2>12, <2>t DEF Release, TypeOK
    <3>2. /\ pc' \in [Procs -> BootStep]
          /\ attempt' \in [Procs -> 0..Attempts]
          /\ wake' \in [Procs -> 0..Delay]
      <4>1. CASE Retry(p)
        BY <4>1, RetryTyped
      <4>2. CASE GoTo(p, "ready") /\ UNCHANGED <<attempt, wake>>
        BY <4>2 DEF GoTo, TypeOK, BootStep
      <4>3. QED
        BY <2>12, <4>1, <4>2 DEF Release
    <3>3. QED
      BY <2>12, <3>1, <3>2 DEF Release, TypeOK
  <2>13. ReleaseFails(p) => TypeOK'
    BY RetryTyped, FaultTyped DEF ReleaseFails, TypeOK
  <2>14. WakeUp(p) => TypeOK'
    BY DEF WakeUp, GoTo, TypeOK, BootStep
  <2>15. ASSUME Crash(p) PROVE TypeOK'
    <3>1. meta' \in [Tenants -> Nat]
      BY <2>15, <2>m DEF Crash, TypeOK
    <3>2. QED
      BY <2>15, <3>1, FaultTyped DEF Crash, GoTo, TypeOK, BootStep
  <2>16. QED
    BY <2>1, <2>2, <2>3, <2>4, <2>5, <2>6, <2>7, <2>8, <2>8a, <2>9, <2>10, <2>11, <2>12,
       <2>13, <2>14, <2>15
<1>c. CASE Tick
  <2>0. \A m, n \in Nat : n <= m => Less(n) \in 0..m
    BY DEF Less
  <2>1. wake' \in [Procs -> 0..Delay]
    <3>1. /\ wake \in [Procs -> 0..Delay] /\ Delay \in Nat
          /\ wake' = [p \in Procs |-> Less(wake[p])]
      BY <1>c, BootAssumption DEF Tick, TypeOK
    <3>2. QED
      BY <2>0, <3>1
  <2>2. held' \in [Procs -> 0..MaxHold]
    BY <1>c, BootAssumption DEF Tick, TypeOK
  <2>3. ttl' \in [Tenants -> 0..TTL]
    <3>1. /\ ttl \in [Tenants -> 0..TTL] /\ TTL \in Nat
          /\ ttl' = [t \in Tenants |-> Less(ttl[t])]
      BY <1>c, BootAssumption DEF Tick, TypeOK
    <3>2. QED
      BY <2>0, <3>1
  <2>4. lock' \in [Tenants -> Procs \cup {Nobody}]
    BY <1>c DEF Tick, TypeOK
  <2>5. QED
    BY <1>c, <2>1, <2>2, <2>3, <2>4 DEF Tick, TypeOK
<1>q. QED
  BY <1>a, <1>b, <1>c DEF Next, Boot

\* The model's variables have their types.
THEOREM BootTypeCorrect == Spec => []TypeOK
BY InitTyped, StepTyped, PTL DEF Spec

-----------------------------------------------------------------------------
(***************************************************************************)
(* The lock.                                                               *)
(***************************************************************************)

LEMMA InitOwned == Init => LockInv
BY InitTyped DEF Init, LockInv, ChildOf, Owned, Busy, Holding

\* A step that leaves the keys alone and makes nobody busy keeps the lock.
LEMMA QuietKeeps ==
    ASSUME LockInv, UNCHANGED <<lock, ttl, held>>,
           \A q \in Procs : (Busy(q))' => Busy(q)
    PROVE  \A q \in Procs : Owned(q)'
BY DEF LockInv, Owned

LEMMA StepOwned ==
    ASSUME Timely, LockInv, [Next]_vars
    PROVE  LockInv'
<1>t. TypeOK'
  BY StepTyped DEF LockInv
<1>a. CASE UNCHANGED vars
  BY <1>a, <1>t DEF vars, LockInv, ChildOf, Owned, Busy
<1>b. ASSUME NEW p \in Procs,
             \/ Start(p) \/ CreateDb(p) \/ DbFails(p) \/ Refused(p) \/ WakeUp(p)
             \/ SpawnMigrate(p) \/ MigrateEnds(p) \/ MigrateFails(p)
             \/ FindMeta(p) \/ InsertMeta(p) \/ CheckMeta(p) \/ MetaFails(p)
             \/ ReleaseFails(p) \/ Crash(p)
      PROVE  LockInv'
  <2>1. UNCHANGED <<lock, ttl, held>>
    BY <1>b DEF Start, CreateDb, DbFails, Refused, WakeUp, SpawnMigrate, MigrateEnds,
         MigrateFails, FindMeta, InsertMeta, CheckMeta, Check, MetaFails, ReleaseFails, Crash
  <2>2. \A q \in Procs : q # p => pc'[q] = pc[q] /\ (q \in children' <=> q \in children)
    BY <1>b DEF Start, CreateDb, DbFails, Refused, WakeUp, SpawnMigrate, MigrateEnds,
         MigrateFails, FindMeta, InsertMeta, CheckMeta, Check, MetaFails, ReleaseFails, Crash,
         Retry, GoTo,
         LockInv, TypeOK
  <2>3. /\ pc'[p] \in Holding => pc[p] \in Holding
        /\ p \in children' => p \in children \/ pc[p] \in Holding
        /\ p \in children' => pc'[p] \in {"migrate", "dead"}
    <3>1. p \in children => pc[p] \in {"migrate", "dead"}
      BY DEF LockInv, ChildOf
    <3>2. CASE Start(p) \/ CreateDb(p) \/ WakeUp(p)
      BY <3>1, <3>2 DEF Start, CreateDb, WakeUp, GoTo, Holding, LockInv, TypeOK
    <3>3. CASE DbFails(p) \/ Refused(p) \/ ReleaseFails(p)
      BY <3>1, <3>3 DEF DbFails, Refused, ReleaseFails, Retry, GoTo, Holding, LockInv, TypeOK
    <3>4. CASE SpawnMigrate(p) \/ FindMeta(p) \/ InsertMeta(p) \/ CheckMeta(p)
      BY <3>1, <3>4 DEF SpawnMigrate, FindMeta, InsertMeta, CheckMeta, Check, GoTo, Holding,
           LockInv, TypeOK
    <3>5. CASE MigrateEnds(p) \/ MigrateFails(p) \/ MetaFails(p) \/ Crash(p)
      BY <3>1, <3>5 DEF MigrateEnds, MigrateFails, MetaFails, Crash, GoTo, Holding,
           LockInv, TypeOK
    <3>6. QED
      BY <1>b, <3>2, <3>3, <3>4, <3>5
  <2>4. \A q \in Procs : (Busy(q))' => Busy(q)
    BY <2>2, <2>3 DEF Busy
  <2>5. \A q \in Procs : ChildOf(q)'
    BY <2>2, <2>3 DEF LockInv, ChildOf
  <2>6. QED
    BY <1>t, <2>1, <2>4, <2>5, QuietKeeps DEF LockInv
<1>c. ASSUME NEW p \in Procs, Acquire(p) PROVE LockInv'
  <2>1. /\ pc[p] = "lock" /\ lock[TenantOf[p]] = Nobody
        /\ pc' = [pc EXCEPT ![p] = "locked"]
        /\ lock' = [lock EXCEPT ![TenantOf[p]] = p]
        /\ ttl' = [ttl EXCEPT ![TenantOf[p]] = TTL]
        /\ held' = [held EXCEPT ![p] = 0]
        /\ children' = children
    BY <1>c DEF Acquire, GoTo
  <2>2. Owned(p)'
    <3>1. TenantOf[p] \in Tenants /\ TTL + 0 = TTL
      BY BootAssumption
    <3>2. lock'[TenantOf[p]] = p /\ ttl'[TenantOf[p]] = TTL /\ held'[p] = 0
      BY <2>1, <3>1 DEF LockInv, TypeOK
    <3>3. QED
      BY <3>1, <3>2 DEF Owned
  <2>3. ASSUME NEW q \in Procs, q # p PROVE Owned(q)'
    <3>1. Busy(q)' => Busy(q)
      BY <2>1, <2>3 DEF Busy, LockInv, TypeOK
    <3>2. Busy(q) => TenantOf[q] # TenantOf[p]
      BY <2>1, BootAssumption DEF LockInv, Owned
    <3>3. QED
      BY <2>1, <2>3, <3>1, <3>2, BootAssumption DEF Owned, LockInv, TypeOK
  <2>4. \A q \in Procs : ChildOf(q)'
    BY <2>1 DEF ChildOf, LockInv, TypeOK
  <2>5. QED
    BY <1>t, <2>2, <2>3, <2>4 DEF LockInv
<1>d. ASSUME NEW p \in Procs, Release(p) PROVE LockInv'
  <2>1. /\ pc[p] \in {"releaseOk", "releaseFail"}
        /\ \E s \in {"ready", "sleep", "exit"} : pc' = [pc EXCEPT ![p] = s]
        /\ lock' = [lock EXCEPT ![TenantOf[p]] = Nobody]
        /\ ttl' = [ttl EXCEPT ![TenantOf[p]] = 0]
        /\ children' = children /\ held' = held
    BY <1>d DEF Release, Retry, GoTo
  <2>2. PICK s \in {"ready", "sleep", "exit"} : pc' = [pc EXCEPT ![p] = s]
    BY <2>1
  <2>3. p \notin children /\ lock[TenantOf[p]] = p
    BY <2>1 DEF LockInv, ChildOf, Owned, Busy, Holding
  <2>4. ~Busy(p)'
    BY <2>1, <2>2, <2>3 DEF Busy, Holding, LockInv, TypeOK
  <2>5. ASSUME NEW q \in Procs, q # p PROVE Owned(q)'
    <3>1. Busy(q)' => Busy(q)
      BY <2>1, <2>2, <2>5 DEF Busy, LockInv, TypeOK
    <3>2. Busy(q) => TenantOf[q] # TenantOf[p]
      BY <2>3, <2>5 DEF LockInv, Owned
    <3>3. QED
      BY <2>1, <3>1, <3>2, BootAssumption DEF Owned, LockInv, TypeOK
  <2>6. \A q \in Procs : ChildOf(q)'
    BY <2>1, <2>2, <2>3 DEF ChildOf, LockInv, TypeOK
  <2>7. QED
    BY <1>t, <2>4, <2>5, <2>6 DEF LockInv, Owned
<1>e. CASE Tick
  <2>1. ASSUME NEW q \in Procs PROVE Owned(q)' /\ ChildOf(q)'
    <3>1. pc' = pc /\ children' = children
      BY <1>e DEF Tick
    <3>2. CASE Busy(q)
      <4>1. /\ lock[TenantOf[q]] = q
            /\ ttl[TenantOf[q]] + held[q] = TTL
            /\ TenantOf[q] \in Tenants
            /\ ttl[TenantOf[q]] \in Nat /\ held[q] \in Nat
        BY <3>2, BootAssumption DEF LockInv, Owned, TypeOK
      <4>2. held[q] < MaxHold
        BY <1>e, <3>2 DEF Tick
      <4>3. ttl[TenantOf[q]] > 1
        BY <4>1, <4>2, BootAssumption DEF Timely
      <4>4. lock'[TenantOf[q]] = q /\ ttl'[TenantOf[q]] = ttl[TenantOf[q]] - 1
        BY <1>e, <4>1, <4>3 DEF Tick, Less
      <4>5. held'[q] = held[q] + 1
        BY <1>e, <3>2 DEF Tick
      <4>6. QED
        BY <3>1, <4>1, <4>4, <4>5 DEF Owned, ChildOf, LockInv
    <3>3. CASE ~Busy(q)
      BY <3>1, <3>3 DEF Owned, Busy, ChildOf, LockInv
    <3>4. QED
      BY <3>2, <3>3
  <2>2. QED
    BY <1>t, <2>1 DEF LockInv
<1>q. QED
  BY <1>a, <1>b, <1>c, <1>d, <1>e DEF Next, Boot

LEMMA OwnedSafe == LockInv => MigrationsExclusive /\ HoldersOwnLock
<1>1. LockInv => \A p \in children : p \in Procs /\ lock[TenantOf[p]] = p
  BY DEF LockInv, TypeOK, Owned, Busy
<1>2. LockInv => MigrationsExclusive
  BY <1>1 DEF MigrationsExclusive
<1>3. LockInv => HoldersOwnLock
  BY DEF LockInv, Owned, Busy, HoldersOwnLock
<1>4. QED
  BY <1>2, <1>3

\* If every holder is done before its lock expires, no two migrations of a
\* tenant overlap, whoever crashes, fails or retries (acquireMigrateLock).
THEOREM MigrationsNeverOverlap == Timely /\ Spec => []MigrationsExclusive
<1>1. SUFFICES ASSUME Timely PROVE Spec => []MigrationsExclusive
  OBVIOUS
<1>2. LockInv /\ [Next]_vars => LockInv'
  BY <1>1, StepOwned
<1>3. QED
  BY <1>2, InitOwned, OwnedSafe, PTL DEF Spec

\* Under the same condition the DEL of releaseMigrateLock, which looks at no
\* owner, only ever removes the lock of the process that executes it.
THEOREM DelIsOwn == Timely /\ Spec => []HoldersOwnLock
<1>1. SUFFICES ASSUME Timely PROVE Spec => []HoldersOwnLock
  OBVIOUS
<1>2. LockInv /\ [Next]_vars => LockInv'
  BY <1>1, StepOwned
<1>3. QED
  BY <1>2, InitOwned, OwnedSafe, PTL DEF Spec

-----------------------------------------------------------------------------
(***************************************************************************)
(* The fail-fast check.                                                    *)
(***************************************************************************)

LEMMA InitOwnRow == Init => MetaInv
BY InitTyped DEF Init, MetaInv, Generated, OwnRow, Passed

\* A step that generates no id and commits none, and after which nobody inserts or has passed
\* who did not before.
LEMMA MetaKept ==
    ASSUME MetaInv, TypeOK', UNCHANGED metas,
           \A q \in Procs : /\ pc'[q] = "insert" => pc[q] = "insert"
                            /\ Passed(q)' => Passed(q)
    PROVE  MetaInv'
<1>1. Generated' /\ \A q \in Procs : id'[q] <= minted'
  BY DEF MetaInv, Generated, metas
<1>2. ASSUME NEW q \in Procs, Passed(q)'
      PROVE  /\ meta'[TenantOf[q]] # 0
             /\ \A t \in Tenants \ {TenantOf[q]} :
                    Older(t, meta[TenantOf[q]])' => t \in raced'[q]
  BY <1>2 DEF MetaInv, OwnRow, Older, metas
<1>3. QED
  BY <1>1, <1>2 DEF MetaInv, OwnRow, Older, metas

\* A step that commits the row of an insert under way.
LEMMA MetaCommitted ==
    ASSUME MetaInv, TypeOK', NEW p \in Procs, pc[p] = "insert", meta' = Inserted(p),
           UNCHANGED <<minted, id, raced>>,
           \A q \in Procs : /\ pc'[q] = "insert" => pc[q] = "insert"
                            /\ Passed(q)' => Passed(q)
    PROVE  MetaInv'
<1>1. /\ TenantOf[p] \in Tenants
      /\ \A t \in Tenants : \/ meta'[t] = meta[t]
                            \/ t = TenantOf[p] /\ meta[t] = 0 /\ meta'[t] = id[p]
  BY BootAssumption DEF Inserted, MetaInv, TypeOK
<1>2. Generated' /\ \A q \in Procs : id'[q] <= minted'
  BY <1>1 DEF MetaInv, Generated
<1>3. ASSUME NEW q \in Procs, Passed(q)'
      PROVE  /\ meta'[TenantOf[q]] # 0
             /\ \A t \in Tenants \ {TenantOf[q]} :
                    Older(t, meta[TenantOf[q]])' => t \in raced'[q]
  <2>1. /\ Passed(q) /\ TenantOf[q] \in Tenants
        /\ meta[TenantOf[q]] # 0 /\ meta'[TenantOf[q]] = meta[TenantOf[q]]
    BY <1>1, <1>3, BootAssumption DEF MetaInv, OwnRow
  <2>2. ASSUME NEW t \in Tenants \ {TenantOf[q]}, Older(t, meta[TenantOf[q]])'
        PROVE  Older(t, meta[TenantOf[q]])
    BY <1>1, <2>1, <2>2 DEF Older
  <2>3. QED
    BY <2>1, <2>2 DEF MetaInv, OwnRow
<1>4. QED
  BY <1>2, <1>3 DEF MetaInv, OwnRow, Older

\* A new id is younger than everything that is there.
LEMMA MetaMinted ==
    ASSUME MetaInv, TypeOK', NEW p \in Procs, FindMeta(p)
    PROVE  MetaInv'
<1>1. /\ UNCHANGED <<meta, raced>>
      /\ \A q \in Procs \ {p} : pc'[q] = pc[q] /\ id'[q] = id[q]
      /\ ~Passed(p)'
      /\ minted \in Nat /\ minted <= minted' /\ minted' \in Nat
      /\ \/ pc'[p] = "check" /\ id'[p] = id[p]
         \/ id'[p] = minted + 1 /\ minted' = minted + 1
  BY DEF FindMeta, GoTo, Passed, MetaInv, TypeOK
<1>2. Generated' /\ \A q \in Procs : id'[q] <= minted'
  <2>1. /\ \A t \in Tenants : meta[t] \in Nat /\ meta[t] <= minted
        /\ \A q \in Procs : id[q] \in Nat /\ id[q] <= minted
    BY DEF MetaInv, Generated, TypeOK
  <2>2. QED
    BY <1>1, <2>1 DEF Generated
<1>3. ASSUME NEW q \in Procs, Passed(q)'
      PROVE  /\ meta'[TenantOf[q]] # 0
             /\ \A t \in Tenants \ {TenantOf[q]} :
                    Older(t, meta[TenantOf[q]])' => t \in raced'[q]
  <2>1. Passed(q) /\ TenantOf[q] \in Tenants
    BY <1>1, <1>3, BootAssumption DEF Passed
  <2>2. meta[TenantOf[q]] \in Nat /\ meta[TenantOf[q]] <= minted
    BY <2>1 DEF MetaInv, Generated, TypeOK
  <2>3. ASSUME NEW t \in Tenants, Older(t, meta[TenantOf[q]])'
        PROVE  Older(t, meta[TenantOf[q]])
    <3>1. CASE meta'[t] # 0 /\ meta'[t] <= meta'[TenantOf[q]]
      BY <1>1, <3>1 DEF Older
    <3>2. ASSUME NEW r \in Procs, pc'[r] = "insert", TenantOf[r] = t,
                 id'[r] <= meta[TenantOf[q]]
          PROVE  r # p
      BY <1>1, <2>2, <3>2
    <3>3. QED
      BY <1>1, <2>3, <3>1, <3>2 DEF Older
  <2>4. QED
    BY <1>1, <2>1, <2>3 DEF MetaInv, OwnRow
<1>4. QED
  BY <1>1, <1>2, <1>3 DEF MetaInv, OwnRow, Older

LEMMA MetaChecked ==
    ASSUME MetaInv, TypeOK', NEW p \in Procs, CheckMeta(p)
    PROVE  MetaInv'
<1>1. /\ UNCHANGED <<minted, id, meta>> /\ pc'[p] # "insert"
      /\ \A q \in Procs \ {p} : pc'[q] = pc[q] /\ raced'[q] = raced[q]
      /\ Passed(p)' => Oldest(TenantOf[p])
      /\ raced'[p] = {TenantOf[q] : q \in {r \in Procs : pc[r] = "insert"}}
  BY DEF CheckMeta, Check, GoTo, Passed, MetaInv, TypeOK
<1>2. Generated' /\ \A q \in Procs : id'[q] <= minted'
  BY <1>1 DEF MetaInv, Generated
<1>3. \A t, i : Older(t, i)' => Older(t, i)
  BY <1>1 DEF Older
<1>4. ASSUME NEW q \in Procs, Passed(q)'
      PROVE  /\ meta[TenantOf[q]] # 0
             /\ \A t \in Tenants \ {TenantOf[q]} :
                    Older(t, meta[TenantOf[q]]) => t \in raced'[q]
  <2>1. CASE q # p
    BY <1>1, <1>4, <2>1 DEF MetaInv, OwnRow, Passed
  <2>2. CASE q = p
    <3>1. /\ TenantOf[p] \in Tenants /\ \A t \in Tenants : meta[t] \in Nat
          /\ meta[TenantOf[p]] # 0
          /\ \A t \in Tenants \ {TenantOf[p]} : meta[t] # 0 => meta[TenantOf[p]] < meta[t]
      BY <1>1, <1>4, <2>2, BootAssumption DEF Oldest, MetaInv, TypeOK
    <3>2. ASSUME NEW t \in Tenants \ {TenantOf[p]}, Older(t, meta[TenantOf[p]])
          PROVE  t \in raced'[p]
      <4>1. ~(meta[t] # 0 /\ meta[t] <= meta[TenantOf[p]])
        BY <3>1
      <4>2. \E r \in Procs : pc[r] = "insert" /\ TenantOf[r] = t
        BY <3>2, <4>1 DEF Older
      <4>3. QED
        BY <1>1, <4>2
    <3>3. QED
      BY <2>2, <3>1, <3>2
  <2>3. QED
    BY <2>1, <2>2
<1>5. QED
  BY <1>1, <1>2, <1>3, <1>4 DEF MetaInv, OwnRow

LEMMA StepOwnRow ==
    ASSUME MetaInv, [Next]_vars
    PROVE  MetaInv'
<1>t. TypeOK' /\ TypeOK
  BY StepTyped DEF MetaInv
<1>a. CASE UNCHANGED vars
  BY <1>a, <1>t, MetaKept DEF vars, metas, Passed
<1>b. ASSUME NEW p \in Procs, InsertMeta(p) \/ MetaFails(p) \/ Crash(p)
      PROVE  MetaInv'
  <2>1. /\ UNCHANGED <<minted, id, raced>>
        /\ \/ meta' = meta
           \/ pc[p] = "insert" /\ meta' = Inserted(p)
        /\ \A q \in Procs : q # p => pc'[q] = pc[q]
        /\ pc'[p] \in {"check", "releaseFail", "dead"}
    BY <1>b, <1>t DEF InsertMeta, MetaFails, Crash, GoTo, TypeOK
  <2>2. \A q \in Procs : /\ pc'[q] = "insert" => pc[q] = "insert"
                         /\ Passed(q)' => Passed(q)
    BY <2>1 DEF Passed
  <2>3. QED
    BY <1>t, <2>1, <2>2, MetaKept, MetaCommitted DEF metas
<1>c. ASSUME NEW p \in Procs,
             \/ Start(p) \/ CreateDb(p) \/ DbFails(p) \/ Refused(p) \/ WakeUp(p)
             \/ Acquire(p) \/ SpawnMigrate(p) \/ MigrateEnds(p) \/ MigrateFails(p)
             \/ Release(p) \/ ReleaseFails(p)
      PROVE  MetaInv'
  <2>1. UNCHANGED metas /\ \A q \in Procs : q # p => pc'[q] = pc[q]
    BY <1>c, <1>t DEF Start, CreateDb, DbFails, Refused, WakeUp, Acquire, SpawnMigrate,
         MigrateEnds, MigrateFails, Release, ReleaseFails, Retry, GoTo, TypeOK
  <2>2. /\ pc'[p] = "insert" => pc[p] = "insert"
        /\ Passed(p)' => Passed(p)
    <3>1. CASE Start(p) \/ CreateDb(p) \/ WakeUp(p) \/ Acquire(p)
      BY <3>1, <1>t DEF Start, CreateDb, WakeUp, Acquire, GoTo, Passed, TypeOK
    <3>2. CASE DbFails(p) \/ Refused(p) \/ ReleaseFails(p)
      BY <3>2, <1>t DEF DbFails, Refused, ReleaseFails, Retry, GoTo, Passed, TypeOK
    <3>3. CASE SpawnMigrate(p) \/ MigrateFails(p)
      BY <3>3, <1>t DEF SpawnMigrate, MigrateFails, GoTo, Passed, TypeOK
    <3>4. CASE Release(p)
      BY <3>4, <1>t DEF Release, Retry, GoTo, Passed, TypeOK
    <3>5. CASE MigrateEnds(p)
      BY <3>5, <1>t DEF MigrateEnds, GoTo, Passed, TypeOK
    <3>6. QED
      BY <1>c, <3>1, <3>2, <3>3, <3>4, <3>5
  <2>3. \A q \in Procs : /\ pc'[q] = "insert" => pc[q] = "insert"
                         /\ Passed(q)' => Passed(q)
    BY <2>1, <2>2 DEF Passed
  <2>4. QED
    BY <1>t, <2>1, <2>3, MetaKept
<1>d. CASE Tick
  BY <1>d, <1>t, MetaKept DEF Tick, metas, Passed
<1>q. QED
  BY <1>t, <1>a, <1>b, <1>c, <1>d, MetaMinted, MetaChecked DEF Next, Boot

\* ensureAndValidateTenantMeta: two workers that serve one database serve the same tenant,
\* unless the row of one was being inserted, with an id generated before, at the moment the
\* other passed the check; with any interleaving of their boots, crashes and rejected inserts,
\* and no help of the lock.
THEOREM FailFastUnlessRaced == Spec => []OneTenantUnlessRaced
<1>1. ASSUME MetaInv, NEW p \in Procs, NEW q \in Procs, pc[p] = "ready", pc[q] = "ready",
             TenantOf[p] # TenantOf[q]
      PROVE  TenantOf[p] \in raced[q] \/ TenantOf[q] \in raced[p]
  <2>1. /\ TenantOf[p] \in Tenants /\ TenantOf[q] \in Tenants
        /\ meta[TenantOf[p]] \in Nat /\ meta[TenantOf[q]] \in Nat
        /\ meta[TenantOf[p]] # 0 /\ meta[TenantOf[q]] # 0
    BY <1>1, BootAssumption DEF MetaInv, TypeOK, OwnRow, Passed
  <2>2. \/ Older(TenantOf[p], meta[TenantOf[q]])
        \/ Older(TenantOf[q], meta[TenantOf[p]])
    BY <2>1 DEF Older
  <2>3. QED
    BY <1>1, <2>1, <2>2 DEF MetaInv, OwnRow, Passed
<1>2. MetaInv => OneTenantUnlessRaced
  BY <1>1 DEF OneTenantUnlessRaced
<1>3. QED
  BY <1>2, InitOwnRow, StepOwnRow, PTL DEF Spec
=============================================================================
