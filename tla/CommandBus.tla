----------------------------- MODULE CommandBus -----------------------------
(***************************************************************************)
(* The command path of the bot: a Discord interaction is routed by the     *)
(* master to the Redis stream of its tenant, executed by the tenant's      *)
(* worker (or forwarded to the global worker), and its result travels      *)
(* through the stream bonsai:result back to the master, which looks it up  *)
(* in pendingMap and edits the deferred reply.                             *)
(*                                                                         *)
(* A stream is modelled by what its one consumer group can still see: the  *)
(* entries past the group's last-delivered id (a queue) and the entries    *)
(* delivered but not acknowledged (the pending entries list, PEL).  An     *)
(* entry added while the group does not exist is never delivered, because  *)
(* ensureGroup creates the group at "$".  No consumer ever claims or       *)
(* re-reads a PEL: every read asks for ">" only.                           *)
(***************************************************************************)
EXTENDS Naturals, Sequences, FiniteSets

CONSTANTS
    Interactions,  \* slash commands typed by users
    Jobs,          \* commands published by the orchestrator's schedulers
    Tenants,       \* tenant keys, one worker process each
    Global,        \* the tenant key "global" (worker-global)
    NoTenant,      \* what resolveTenantKey returns for an unmapped channel
    TenantOf,      \* the tenant a command's channel maps to
    Market,        \* commands named in GLOBAL_MARKET_COMMANDS
    Unknown,       \* commands the worker's commandMap does not hold
    Announced,     \* commands whose result may ask for a channel broadcast
    BatchSize,     \* COUNT of xReadGroup (10 in the code)
    MaxFaults      \* bound on crashes, Redis and Discord errors

Cmds == Interactions \cup Jobs
Workers == Tenants \cup {Global}

ASSUME CommandAssumption ==
    /\ Interactions \cap Jobs = {}
    /\ Global \notin Tenants
    /\ NoTenant \notin Workers
    /\ TenantOf \in [Cmds -> Tenants \cup {NoTenant}]
    /\ \A j \in Jobs : TenantOf[j] # NoTenant
    /\ Market \subseteq Cmds
    /\ Unknown \subseteq Cmds
    /\ Announced \subseteq Cmds
    /\ BatchSize \in Nat \ {0}
    /\ MaxFaults \in Nat

(***************************************************************************)
(* A result is the pair of the command it answers (inReplyTo) and what it  *)
(* says: "ok" and "err" are outcomes of execute(), "cast" is an ok outcome *)
(* whose meta asks for a channel broadcast, "routeErr" is the answer of a  *)
(* tenant worker that could not forward a market command.                  *)
(***************************************************************************)
Outcome == {"ok", "err", "cast"}
Body == Outcome \cup {"routeErr"}
ResultMsg == [id : Cmds, body : Body]
Notice == {"phrase", "failed", "denied"}  \* the router's own editReply texts

VARIABLES
    route,     \* where routeInteraction is, for each command
    pending,   \* keys of pendingMap
    edits,     \* editReply calls Discord has not answered yet, in order
    reply,     \* what the user sees
    cmdGroup, cmdQueue, cmdPel,  \* streams bonsai:cmd:{tenant}
    resGroup, resQueue, resPel,  \* stream bonsai:result
    wpc, wbatch, wout,           \* worker loop: step, batch, outcome in hand
    mpc, mbatch,                 \* master's result loop: step, batch
    faults,
    asked,     \* history: commands some xAdd published
    executed,  \* history: how often execute() ran
    answered,  \* history: results passed to editReply
    posts,     \* history: channel broadcasts
    handled,   \* history: commands a result of which reached handleResult
    lost       \* history: commands an entry of which was thrown away

routerVars == <<route, pending, edits, reply>>
cmdVars    == <<cmdGroup, cmdQueue, cmdPel>>
resVars    == <<resGroup, resQueue, resPel>>
workerVars == <<wpc, wbatch, wout>>
masterVars == <<mpc, mbatch>>
history    == <<asked, executed, answered, posts, handled, lost>>
vars == <<routerVars, cmdVars, resVars, workerVars, masterVars, faults, history>>

RouteStep == {"idle", "accepted", "published", "phrasing", "closing", "done", "gone"}
WorkerStep == {"down", "read", "entry", "forwarded", "routeErr", "executed", "sent"}
MasterStep == {"down", "booting", "read", "entry", "lookup", "editing", "ack", "dead"}

TypeOK ==
    /\ route \in [Cmds -> RouteStep]
    /\ pending \subseteq Interactions
    /\ edits \in [Interactions -> Seq(Notice \cup Body)]
    /\ reply \in [Interactions -> {"none", "deferred"} \cup Notice \cup Body]
    /\ cmdGroup \in [Workers -> BOOLEAN]
    /\ cmdQueue \in [Workers -> Seq(Cmds)]
    /\ cmdPel \in [Workers -> SUBSET Cmds]
    /\ resGroup \in BOOLEAN
    /\ resQueue \in Seq(ResultMsg)
    /\ resPel \subseteq ResultMsg
    /\ wpc \in [Workers -> WorkerStep]
    /\ wbatch \in [Workers -> Seq(Cmds)]
    /\ wout \in [Workers -> Outcome]
    /\ mpc \in MasterStep
    /\ mbatch \in Seq(ResultMsg)
    /\ faults \in Nat
    /\ asked \subseteq Cmds
    /\ executed \in [Cmds -> Nat]
    /\ answered \in [Interactions -> SUBSET Body]
    /\ posts \in [Cmds -> Nat]
    /\ handled \subseteq Cmds
    /\ lost \subseteq Cmds

Init ==
    /\ route = [c \in Cmds |-> "idle"]
    /\ pending = {}
    /\ edits = [i \in Interactions |-> <<>>]
    /\ reply = [i \in Interactions |-> "none"]
    /\ cmdGroup = [w \in Workers |-> FALSE]
    /\ cmdQueue = [w \in Workers |-> <<>>]
    /\ cmdPel = [w \in Workers |-> {}]
    /\ resGroup = FALSE
    /\ resQueue = <<>>
    /\ resPel = {}
    /\ wpc = [w \in Workers |-> "down"]
    /\ wbatch = [w \in Workers |-> <<>>]
    /\ wout = [w \in Workers |-> "err"]
    /\ mpc = "down"
    /\ mbatch = <<>>
    /\ faults = 0
    /\ asked = {}
    /\ executed = [c \in Cmds |-> 0]
    /\ answered = [i \in Interactions |-> {}]
    /\ posts = [c \in Cmds |-> 0]
    /\ handled = {}
    /\ lost = {}

-----------------------------------------------------------------------------
(***************************************************************************)
(* Redis and the environment.                                              *)
(***************************************************************************)
Elems(s) == {s[k] : k \in 1..Len(s)}

\* One more crash or error, within the bound.
Fault == faults < MaxFaults /\ faults' = faults + 1

\* XADD to a command stream: only an existing group will ever see the entry.
XAddCmd(w, c) ==
    /\ cmdQueue' = IF cmdGroup[w] THEN [cmdQueue EXCEPT ![w] = Append(@, c)]
                                  ELSE cmdQueue
    /\ lost' = IF cmdGroup[w] THEN lost ELSE lost \cup {c}
    /\ UNCHANGED <<cmdGroup, cmdPel>>

\* XADD to bonsai:result.
XAddResult(r) ==
    /\ resQueue' = IF resGroup THEN Append(resQueue, r) ELSE resQueue
    /\ lost' = IF resGroup THEN lost ELSE lost \cup {r.id}
    /\ UNCHANGED <<resGroup, resPel>>

\* How many entries one XREADGROUP of ">" delivers.
BatchLen(q) == IF Len(q) < BatchSize THEN Len(q) ELSE BatchSize

\* A stream key is deleted (the case the NOGROUP branches recover from).
DropCmdStream(w) ==
    /\ cmdGroup[w]
    /\ Fault
    /\ cmdGroup' = [cmdGroup EXCEPT ![w] = FALSE]
    /\ cmdQueue' = [cmdQueue EXCEPT ![w] = <<>>]
    /\ cmdPel' = [cmdPel EXCEPT ![w] = {}]
    /\ lost' = lost \cup Elems(cmdQueue[w]) \cup cmdPel[w]
    /\ UNCHANGED <<routerVars, resVars, workerVars, masterVars,
                   asked, executed, answered, posts, handled>>

DropResultStream ==
    /\ resGroup
    /\ Fault
    /\ resGroup' = FALSE
    /\ resQueue' = <<>>
    /\ resPel' = {}
    /\ lost' = lost \cup {r.id : r \in Elems(resQueue) \cup resPel}
    /\ UNCHANGED <<routerVars, cmdVars, workerVars, masterVars,
                   asked, executed, answered, posts, handled>>

-----------------------------------------------------------------------------
(***************************************************************************)
(* The master process as a whole.                                          *)
(***************************************************************************)
MasterUp == mpc # "down"

\* The process ends: pendingMap, the handlers in progress and the editReply
\* calls not sent yet go with it.  killed is the interaction whose rejection
\* nobody caught, if that is why it ends.
MasterExit(killed) ==
    /\ mpc' = "down"
    /\ mbatch' = <<>>
    /\ pending' = {}
    /\ edits' = [i \in Interactions |-> <<>>]
    /\ route' = [c \in Cmds |-> IF c \in killed \/ route[c] \notin {"idle", "done"}
                                THEN "gone" ELSE route[c]]
    /\ UNCHANGED <<reply, cmdVars, resVars, workerVars, history>>

CrashMaster == MasterUp /\ Fault /\ MasterExit({})

\* The router serves interactions while the result loop is still creating
\* its group: startProdBridge is not awaited.
BootMaster ==
    /\ mpc = "down"
    /\ mpc' = "booting"
    /\ UNCHANGED <<routerVars, cmdVars, resVars, workerVars, mbatch, faults, history>>

-----------------------------------------------------------------------------
(***************************************************************************)
(* routeInteraction, split at its awaits.                                  *)
(***************************************************************************)
Receive(i) ==
    /\ MasterUp
    /\ route[i] = "idle"
    /\ route' = [route EXCEPT ![i] = "accepted"]
    /\ reply' = [reply EXCEPT ![i] = "deferred"]
    /\ UNCHANGED <<pending, edits, cmdVars, resVars, workerVars, masterVars, faults, history>>

\* deferReply is outside the try block: its rejection is an unhandled
\* rejection, on which the master shuts down.
DeferFails(i) ==
    /\ MasterUp
    /\ route[i] = "idle"
    /\ Fault
    /\ MasterExit({i})

\* The channel maps to no tenant: publishProdCommand throws before any xAdd.
RefuseChannel(i) ==
    /\ route[i] = "accepted"
    /\ TenantOf[i] = NoTenant
    /\ route' = [route EXCEPT ![i] = "closing"]
    /\ edits' = [edits EXCEPT ![i] = Append(@, "denied")]
    /\ UNCHANGED <<pending, reply, cmdVars, resVars, workerVars, masterVars, faults, history>>

\* Seeded bug: the interaction is registered before the xAdd, the phrase still
\* set after it.
PublishRegistered(i) ==
    /\ route[i] = "accepted"
    /\ TenantOf[i] # NoTenant
    /\ route' = [route EXCEPT ![i] = "published"]
    /\ pending' = pending \cup {i}
    /\ XAddCmd(TenantOf[i], i)
    /\ asked' = asked \cup {i}
    /\ UNCHANGED <<edits, reply, resVars, workerVars, masterVars, faults,
                   executed, answered, posts, handled>>

\* Redis appends the envelope; the handler still waits for the reply of xAdd
\* and has not registered the interaction.
Publish(i) ==
    /\ route[i] = "accepted"
    /\ TenantOf[i] # NoTenant
    /\ route' = [route EXCEPT ![i] = "published"]
    /\ XAddCmd(TenantOf[i], i)
    /\ asked' = asked \cup {i}
    /\ UNCHANGED <<pending, edits, reply, resVars, workerVars, masterVars, faults,
                   executed, answered, posts, handled>>

PublishFails(i) ==
    /\ route[i] = "accepted"
    /\ TenantOf[i] # NoTenant
    /\ Fault
    /\ route' = [route EXCEPT ![i] = "closing"]
    /\ edits' = [edits EXCEPT ![i] = Append(@, "failed")]
    /\ UNCHANGED <<pending, reply, cmdVars, resVars, workerVars, masterVars, history>>

\* pendingMap.set, and in the same turn the editReply with the waiting phrase.
Register(i) ==
    /\ route[i] = "published"
    /\ route' = [route EXCEPT ![i] = "phrasing"]
    /\ pending' = pending \cup {i}
    /\ edits' = [edits EXCEPT ![i] = Append(@, "phrase")]
    /\ UNCHANGED <<reply, cmdVars, resVars, workerVars, masterVars, faults, history>>

\* Discord applies the oldest editReply of an interaction; whoever awaited it
\* goes on: the result loop if it was a result, else the router.
EditApplied(i) ==
    /\ edits[i] # <<>>
    /\ reply' = [reply EXCEPT ![i] = Head(edits[i])]
    /\ edits' = [edits EXCEPT ![i] = Tail(@)]
    /\ IF Head(edits[i]) \in Body
       THEN mpc' = "ack" /\ UNCHANGED route
       ELSE route' = [route EXCEPT ![i] = "done"] /\ UNCHANGED mpc
    /\ UNCHANGED <<pending, cmdVars, resVars, workerVars, mbatch, faults, history>>

\* The phrase could not be set: the catch block edits the reply once more,
\* although the command is published and registered.
PhraseFails(i) ==
    /\ edits[i] # <<>>
    /\ Head(edits[i]) = "phrase"
    /\ Fault
    /\ route' = [route EXCEPT ![i] = "closing"]
    /\ edits' = [edits EXCEPT ![i] = Append(Tail(@), "failed")]
    /\ UNCHANGED <<pending, reply, cmdVars, resVars, workerVars, masterVars, history>>

\* The editReply of the catch block rejects: nobody handles it.
ClosingFails(i) ==
    /\ edits[i] # <<>>
    /\ Head(edits[i]) \in {"failed", "denied"}
    /\ Fault
    /\ MasterExit({})

\* A rejected result edit is caught by the result loop, which acks anyway.
AnswerFails(i) ==
    /\ edits[i] # <<>>
    /\ Head(edits[i]) \in Body
    /\ Fault
    /\ edits' = [edits EXCEPT ![i] = Tail(@)]
    /\ mpc' = "ack"
    /\ UNCHANGED <<route, pending, reply, cmdVars, resVars, workerVars, mbatch, history>>

\* A scheduler of the orchestrator publishes a command nobody waits for.
PublishJob(j) ==
    /\ route[j] = "idle"
    /\ route' = [route EXCEPT ![j] = "done"]
    /\ XAddCmd(TenantOf[j], j)
    /\ asked' = asked \cup {j}
    /\ UNCHANGED <<pending, edits, reply, resVars, workerVars, masterVars, faults,
                   executed, answered, posts, handled>>

-----------------------------------------------------------------------------
(***************************************************************************)
(* runRedisStreamsCommandConsumer, one loop per worker.                    *)
(***************************************************************************)
Current(w) == Head(wbatch[w])
Step(w, s) == wpc' = [wpc EXCEPT ![w] = s]

\* A market command in the hands of a tenant worker.
MustForward(w, c) == w # Global /\ c \in Market

NextEntry(w) ==
    /\ wbatch' = [wbatch EXCEPT ![w] = Tail(@)]
    /\ Step(w, IF Tail(wbatch[w]) = <<>> THEN "read" ELSE "entry")

BootWorker(w) ==
    /\ wpc[w] = "down"
    /\ cmdGroup' = [cmdGroup EXCEPT ![w] = TRUE]
    /\ Step(w, "read")
    /\ UNCHANGED <<routerVars, cmdQueue, cmdPel, resVars, wbatch, wout, masterVars, faults, history>>

ReadCmds(w) ==
    /\ wpc[w] = "read"
    /\ cmdGroup[w]
    /\ cmdQueue[w] # <<>>
    /\ LET q == cmdQueue[w]
           n == BatchLen(q)
       IN  /\ wbatch' = [wbatch EXCEPT ![w] = SubSeq(q, 1, n)]
           /\ cmdQueue' = [cmdQueue EXCEPT ![w] = SubSeq(q, n + 1, Len(q))]
           /\ cmdPel' = [cmdPel EXCEPT ![w] = @ \cup Elems(SubSeq(q, 1, n))]
    /\ Step(w, "entry")
    /\ UNCHANGED <<routerVars, cmdGroup, resVars, wout, masterVars, faults, history>>

\* NOGROUP: the group is created again, at the end of the stream.
RecreateCmdGroup(w) ==
    /\ wpc[w] = "read"
    /\ ~cmdGroup[w]
    /\ cmdGroup' = [cmdGroup EXCEPT ![w] = TRUE]
    /\ UNCHANGED <<routerVars, cmdQueue, cmdPel, resVars, workerVars, masterVars, faults, history>>

Forward(w) ==
    /\ wpc[w] = "entry"
    /\ MustForward(w, Current(w))
    /\ XAddCmd(Global, Current(w))
    /\ Step(w, "forwarded")
    /\ UNCHANGED <<routerVars, resVars, wbatch, wout, masterVars, faults,
                   asked, executed, answered, posts, handled>>

\* Either call of the try block rejects: the forward itself, or the xAck
\* after a forward that succeeded.
ForwardFails(w) ==
    /\ \/ wpc[w] = "entry" /\ MustForward(w, Current(w))
       \/ wpc[w] = "forwarded"
    /\ Fault
    /\ Step(w, "routeErr")
    /\ UNCHANGED <<routerVars, cmdVars, resVars, wbatch, wout, masterVars, history>>

\* Seeded bug: the exception of execute() leaves no outcome.
ExecuteUncaught(w) ==
    /\ wpc[w] = "entry"
    /\ ~MustForward(w, Current(w))
    /\ Current(w) \notin Unknown
    /\ executed' = [executed EXCEPT ![Current(w)] = @ + 1]
    /\ \E o \in {"ok", "none"} : wout' = [wout EXCEPT ![w] = o]
    /\ Step(w, "executed")
    /\ UNCHANGED <<routerVars, cmdVars, resVars, wbatch, masterVars, faults,
                   asked, answered, posts, handled, lost>>

Execute(w) ==
    /\ wpc[w] = "entry"
    /\ ~MustForward(w, Current(w))
    /\ Current(w) \notin Unknown
    /\ executed' = [executed EXCEPT ![Current(w)] = @ + 1]
    /\ \E o \in IF Current(w) \in Announced THEN Outcome ELSE {"ok", "err"} :
          wout' = [wout EXCEPT ![w] = o]
    /\ Step(w, "executed")
    /\ UNCHANGED <<routerVars, cmdVars, resVars, wbatch, masterVars, faults,
                   asked, answered, posts, handled, lost>>

\* Seeded bug: an unknown command is acknowledged without a result.
SkipUnknown(w) ==
    /\ wpc[w] = "entry"
    /\ ~MustForward(w, Current(w))
    /\ Current(w) \in Unknown
    /\ Step(w, "sent")
    /\ UNCHANGED <<routerVars, cmdVars, resVars, wbatch, wout, masterVars, faults, history>>

RejectUnknown(w) ==
    /\ wpc[w] = "entry"
    /\ ~MustForward(w, Current(w))
    /\ Current(w) \in Unknown
    /\ wout' = [wout EXCEPT ![w] = "err"]
    /\ Step(w, "executed")
    /\ UNCHANGED <<routerVars, cmdVars, resVars, wbatch, masterVars, faults, history>>

PublishResult(w) ==
    /\ wpc[w] \in {"executed", "routeErr"}
    /\ XAddResult([id |-> Current(w),
                   body |-> IF wpc[w] = "routeErr" THEN "routeErr" ELSE wout[w]])
    /\ Step(w, "sent")
    /\ UNCHANGED <<routerVars, cmdVars, wbatch, wout, masterVars, faults,
                   asked, executed, answered, posts, handled>>

\* Seeded bug: the entry may be acknowledged before its result is published.
AckCmdEarly(w) ==
    /\ wpc[w] \in {"forwarded", "executed", "sent"}
    /\ cmdPel' = [cmdPel EXCEPT ![w] = @ \ {Current(w)}]
    /\ NextEntry(w)
    /\ UNCHANGED <<routerVars, cmdGroup, cmdQueue, resVars, wout, masterVars, faults, history>>

AckCmd(w) ==
    /\ wpc[w] \in {"forwarded", "sent"}
    /\ cmdPel' = [cmdPel EXCEPT ![w] = @ \ {Current(w)}]
    /\ NextEntry(w)
    /\ UNCHANGED <<routerVars, cmdGroup, cmdQueue, resVars, wout, masterVars, faults, history>>

\* Seeded bug: the loop goes on with the entry that failed.
RetryEntry(w) ==
    /\ wpc[w] \in {"executed", "routeErr", "sent"}
    /\ Fault
    /\ Step(w, "entry")
    /\ UNCHANGED <<routerVars, cmdVars, resVars, wbatch, wout, masterVars, history>>

\* The xAdd of a result or the xAck after it rejects: the loop's catch gives
\* up the rest of the batch, which stays in the PEL.
AbortBatch(w) ==
    /\ wpc[w] \in {"executed", "routeErr", "sent"}
    /\ Fault
    /\ wbatch' = [wbatch EXCEPT ![w] = <<>>]
    /\ Step(w, "read")
    /\ UNCHANGED <<routerVars, cmdVars, resVars, wout, masterVars, history>>

\* A crash, a Redis client error, or a failed recreation of the group: the
\* process exits, and its restart is a new consumer.
CrashWorker(w) ==
    /\ wpc[w] # "down"
    /\ Fault
    /\ wbatch' = [wbatch EXCEPT ![w] = <<>>]
    /\ Step(w, "down")
    /\ UNCHANGED <<routerVars, cmdVars, resVars, wout, masterVars, history>>

-----------------------------------------------------------------------------
(***************************************************************************)
(* runRedisStreamsResultConsumer and handleResult, in the master.          *)
(***************************************************************************)
Arrived == Head(mbatch)

EnsureResultGroup ==
    /\ \/ mpc = "booting"
       \/ mpc = "read" /\ ~resGroup
    /\ resGroup' = TRUE
    /\ mpc' = "read"
    /\ UNCHANGED <<routerVars, cmdVars, resQueue, resPel, workerVars, mbatch, faults, history>>

\* ensureGroup throws, at the start or inside the loop's catch: the promise of
\* the loop rejects and Promise.allSettled swallows it; the router lives on.
ResultLoopDies ==
    /\ \/ mpc = "booting"
       \/ mpc = "read" /\ ~resGroup
    /\ Fault
    /\ mpc' = "dead"
    /\ UNCHANGED <<routerVars, cmdVars, resVars, workerVars, mbatch, history>>

ReadResults ==
    /\ mpc = "read"
    /\ resGroup
    /\ resQueue # <<>>
    /\ LET n == BatchLen(resQueue)
       IN  /\ mbatch' = SubSeq(resQueue, 1, n)
           /\ resQueue' = SubSeq(resQueue, n + 1, Len(resQueue))
           /\ resPel' = resPel \cup Elems(SubSeq(resQueue, 1, n))
    /\ mpc' = "entry"
    /\ UNCHANGED <<routerVars, cmdVars, resGroup, workerVars, faults, history>>

\* A result whose meta asks for it is posted into its channel first.
Broadcast ==
    /\ mpc = "entry"
    /\ Arrived.body = "cast"
    /\ mpc' = "lookup"
    /\ \/ posts' = [posts EXCEPT ![Arrived.id] = @ + 1] /\ UNCHANGED faults
       \/ Fault /\ UNCHANGED posts
    /\ UNCHANGED <<routerVars, cmdVars, resVars, workerVars, mbatch,
                   asked, executed, answered, handled, lost>>

AtLookup == mpc = "lookup" \/ (mpc = "entry" /\ Arrived.body # "cast")

\* No pendingMap entry: the result is dropped (and acked by the loop).
NoPending ==
    /\ AtLookup
    /\ Arrived.id \notin pending
    /\ mpc' = "ack"
    /\ handled' = handled \cup {Arrived.id}
    /\ lost' = IF Arrived.id \in Interactions THEN lost \cup {Arrived.id} ELSE lost
    /\ UNCHANGED <<routerVars, cmdVars, resVars, workerVars, mbatch, faults,
                   asked, executed, answered, posts>>

\* Seeded bug: the entry stays in pendingMap.
DeliverKeeping ==
    /\ AtLookup
    /\ Arrived.id \in pending
    /\ edits' = [edits EXCEPT ![Arrived.id] = Append(@, Arrived.body)]
    /\ answered' = [answered EXCEPT ![Arrived.id] = @ \cup {Arrived.body}]
    /\ handled' = handled \cup {Arrived.id}
    /\ mpc' = "editing"
    /\ UNCHANGED <<route, pending, reply, cmdVars, resVars, workerVars, mbatch, faults,
                   asked, executed, posts, lost>>

\* The entry leaves pendingMap before editReply is awaited.
Deliver ==
    /\ AtLookup
    /\ Arrived.id \in pending
    /\ pending' = pending \ {Arrived.id}
    /\ edits' = [edits EXCEPT ![Arrived.id] = Append(@, Arrived.body)]
    /\ answered' = [answered EXCEPT ![Arrived.id] = @ \cup {Arrived.body}]
    /\ handled' = handled \cup {Arrived.id}
    /\ mpc' = "editing"
    /\ UNCHANGED <<route, reply, cmdVars, resVars, workerVars, mbatch, faults,
                   asked, executed, posts, lost>>

AckResult ==
    /\ mpc = "ack"
    /\ resPel' = resPel \ {Arrived}
    /\ mbatch' = Tail(mbatch)
    /\ mpc' = IF Tail(mbatch) = <<>> THEN "read" ELSE "entry"
    /\ UNCHANGED <<routerVars, cmdVars, resGroup, resQueue, workerVars, faults, history>>

\* Seeded bug: the result is handled again when its xAck rejects.
RetryResult ==
    /\ mpc = "ack"
    /\ Fault
    /\ mpc' = "entry"
    /\ UNCHANGED <<routerVars, cmdVars, resVars, workerVars, mbatch, history>>

AckResultFails ==
    /\ mpc = "ack"
    /\ Fault
    /\ mbatch' = <<>>
    /\ mpc' = "read"
    /\ UNCHANGED <<routerVars, cmdVars, resVars, workerVars, history>>

-----------------------------------------------------------------------------
RouterNext(i) ==
    \/ Receive(i) \/ DeferFails(i) \/ RefuseChannel(i) \/ Publish(i) \/ PublishFails(i)
    \/ Register(i) \/ EditApplied(i) \/ PhraseFails(i) \/ ClosingFails(i) \/ AnswerFails(i)

WorkerNext(w) ==
    \/ BootWorker(w) \/ ReadCmds(w) \/ RecreateCmdGroup(w) \/ Forward(w) \/ ForwardFails(w)
    \/ Execute(w) \/ RejectUnknown(w) \/ PublishResult(w) \/ AckCmd(w) \/ AbortBatch(w)
    \/ CrashWorker(w) \/ DropCmdStream(w)

MasterNext ==
    \/ BootMaster \/ CrashMaster \/ EnsureResultGroup \/ ResultLoopDies \/ ReadResults
    \/ Broadcast \/ NoPending \/ Deliver \/ AckResult \/ AckResultFails \/ DropResultStream

Next ==
    \/ \E i \in Interactions : RouterNext(i)
    \/ \E j \in Jobs : PublishJob(j)
    \/ \E w \in Workers : WorkerNext(w)
    \/ MasterNext

Spec == Init /\ [][Next]_vars

\* Every await is eventually answered, and a loop with work goes on.  Nothing
\* obliges a user to type, a scheduler to fire, a process to be started or an
\* error to happen.
Fairness ==
    /\ \A i \in Interactions :
          WF_vars(RefuseChannel(i) \/ Publish(i) \/ Register(i) \/ EditApplied(i))
    /\ \A w \in Workers :
          WF_vars(ReadCmds(w) \/ RecreateCmdGroup(w) \/ Forward(w) \/ Execute(w)
                  \/ RejectUnknown(w) \/ PublishResult(w) \/ AckCmd(w))
    /\ WF_vars(EnsureResultGroup \/ ReadResults \/ Broadcast \/ NoPending \/ Deliver \/ AckResult)

FairSpec == Spec /\ Fairness

-----------------------------------------------------------------------------
(***************************************************************************)
(* Properties.                                                             *)
(***************************************************************************)
\* No command is executed twice: not by a forward whose xAck fails, not by a
\* worker that crashes after executing, not by a stream that is recreated.
AtMostOneExecution == \A c \in Cmds : executed[c] <= 1

\* A result is announced in its channel at most once, although
\* the POST comes before the acknowledgement of its result.
BroadcastOnce == \A c \in Cmds : posts[c] <= 1

\* An entry of the command, or of a result for it, is still in a stream.
InCmdStream(w, c) == c \in Elems(cmdQueue[w]) \/ c \in cmdPel[w]
InResultStream(c) == \E r \in Elems(resQueue) \cup resPel : r.id = c

\* Acknowledgements lose nothing: a published command is in a stream, or its
\* result is, or its result reached the master, or an entry of it was thrown
\* away by one of the steps that record it in lost (published to a stream
\* without group, stream deleted, result without pendingMap entry).  Redis
\* errors and crashes strand entries in a PEL but never make one vanish.
NothingVanishes ==
    \A c \in asked :
        \/ c \in handled \cup lost
        \/ \E w \in Workers : InCmdStream(w, c)
        \/ InResultStream(c)

\* The command path implements the promise of RequestReply.
Promise == INSTANCE RequestReply WITH runs <- executed, answers <- answered
KeepsPromise == Promise!Spec

\* What the user reads once the result is there is never replaced by the
\* waiting phrase or by an error text of the router.
AnswerIsFinal ==
    [][\A i \in Interactions : reply[i] \in Body => reply'[i] = reply[i]]_vars

\* Without errors, the user sees the result of every published command unless
\* an entry of it was thrown away.
AnsweredOrLost ==
    \A i \in Interactions : (i \in asked) ~> (i \in lost \/ reply[i] \in Body)

\* README.md, core data flow: after the command is published and registered,
\* its result ends in the final editReply.
EveryCommandAnswered ==
    \A i \in Interactions : (i \in asked) ~> (reply[i] \in Body)

-----------------------------------------------------------------------------
(***************************************************************************)
(* Inductive strengthenings, used by the proofs in CommandBusProofs.       *)
(***************************************************************************)
\* A loop that is at an entry has one in its batch; a result in an editReply
\* queue is the one the result loop is waiting for.
BatchInHand ==
    /\ \A w \in Workers : wbatch[w] = <<>> <=> wpc[w] \in {"down", "read"}
    /\ \A w \in Workers : wpc[w] = "forwarded" => w # Global
    /\ mpc \in {"entry", "lookup", "editing", "ack"} => mbatch # <<>>
    /\ \A i \in Interactions : \A k \in 1..Len(edits[i]) :
          edits[i][k] \in Body => mpc = "editing"
    /\ \A i, h \in Interactions : \A k \in 1..Len(edits[i]) : \A l \in 1..Len(edits[h]) :
          edits[i][k] \in Body /\ edits[h][l] \in Body => i = h /\ k = l

\* What a worker acknowledges next is safe elsewhere.
Settled(c) == c \in handled \cup lost \/ InResultStream(c)
SafeToAck ==
    /\ \A w \in Workers : wpc[w] = "sent" => Settled(Current(w))
    /\ \A w \in Workers :
          wpc[w] = "forwarded" => Settled(Current(w)) \/ InCmdStream(Global, Current(w))
    /\ mpc \in {"editing", "ack"} => Arrived.id \in handled

\* The entries a worker may still execute or forward.
Unique(s) == \A k, l \in 1..Len(s) : s[k] = s[l] => k = l
BatchTodo(w) ==
    IF wpc[w] = "entry" THEN Elems(wbatch[w])
    ELSE IF wbatch[w] = <<>> THEN {} ELSE Elems(Tail(wbatch[w]))
Todo(w) == Elems(cmdQueue[w]) \cup BatchTodo(w)

\* Each published command is in the hands of at most one worker, once, and of
\* none after it was executed.
OneHolder ==
    /\ \A w \in Workers : /\ Unique(cmdQueue[w])
                          /\ Unique(wbatch[w])
                          /\ Elems(cmdQueue[w]) \cap BatchTodo(w) = {}
    /\ \A c \in Cmds : route[c] \in {"idle", "accepted"} => c \notin asked
    /\ \A w \in Workers : Todo(w) \subseteq asked
    /\ \A w \in Tenants : \A c \in Todo(w) : w = TenantOf[c] /\ c \notin Todo(Global)
    /\ \A c \in Cmds : executed[c] > 0 => c \in asked /\ \A w \in Workers : c \notin Todo(w)
=============================================================================
