----------------------------- MODULE DevBridge -----------------------------
(***************************************************************************)
(* /dev: a command that runs on a developer's machine.  The production     *)
(* master publishes it to SNS and registers the interaction; the SQS queue *)
(* of the developer gets it; the developer's master forwards it into its   *)
(* own Redis stream and only then deletes the message; its worker answers  *)
(* into bonsai:result, which goes back through SNS into the result queue   *)
(* of the production master, which deletes a message it could answer with. *)
(*                                                                         *)
(* SQS hands a message that is not deleted out again.  A batch is handled  *)
(* before the messages of it come back (VisibilityTimeout 30 s).           *)
(***************************************************************************)
EXTENDS Faults, Sequences, FiniteSets, SequencesExt

CONSTANTS
    DevCmds,      \* commands, by envelope id
    NoCmd         \* no message

ASSUME DevBridgeAssumption == NoCmd \notin DevCmds /\ IsFiniteSet(DevCmds)

VARIABLES
    dbRouter,     \* routeInteraction of each command
    dbPending,    \* pendingMap
    dbReply,      \* what the user sees
    dbSqs,        \* messages in the developer's queue
    dbBatch,      \* the messages the developer's master has yet to handle
    dbStep,       \* what it does with the first of them
    dbStream,     \* bonsai:cmd:{tenant} of the developer
    dbResults,    \* bonsai:result of the developer
    dbQueue,      \* messages in the production result queue
    dbHold,       \* the message the production master handles
    dbHandled,    \* handleResult returned true
    dbLost        \* commands, or their results, a step dropped for good

dbProd == <<dbRouter, dbPending, dbReply>>
dbDev == <<dbSqs, dbBatch, dbStep>>
dbRedis == <<dbStream, dbResults>>
dbPoll == <<dbQueue, dbHold, dbHandled>>
dbVars == <<dbProd, dbDev, dbRedis, dbPoll, dbLost, faults>>

DbTypeOK ==
    /\ dbRouter \in [DevCmds -> {"idle", "published", "done"}]
    /\ dbPending \subseteq DevCmds
    /\ dbReply \in [DevCmds -> {"none", "waiting", "failed", "answer"}]
    /\ dbSqs \subseteq DevCmds
    /\ dbBatch \in Seq(DevCmds)
    /\ dbStep \in {"forward", "delete"}
    /\ dbStream \in Seq(DevCmds) /\ dbResults \in Seq(DevCmds)
    /\ dbQueue \in [DevCmds -> Nat]
    /\ dbHold \in DevCmds \cup {NoCmd}
    /\ dbHandled \in BOOLEAN
    /\ dbLost \subseteq DevCmds
    /\ faults \in 0..MaxFaults

DbInit ==
    /\ dbRouter = [c \in DevCmds |-> "idle"]
    /\ dbPending = {}
    /\ dbReply = [c \in DevCmds |-> "none"]
    /\ dbSqs = {}
    /\ dbBatch = <<>> /\ dbStep = "forward"
    /\ dbStream = <<>> /\ dbResults = <<>>
    /\ dbQueue = [c \in DevCmds |-> 0]
    /\ dbHold = NoCmd /\ dbHandled = FALSE
    /\ dbLost = {}
    /\ faults = 0
-----------------------------------------------------------------------------
(***************************************************************************)
(* The router of the production master.                                    *)
(***************************************************************************)
DbShow(c, text) == dbReply' = [dbReply EXCEPT ![c] = text]
DbRouterAt(c, step) == dbRouter' = [dbRouter EXCEPT ![c] = step]

\* publishJson: SNS puts the message into the queue of targetDev.
DbPublish(c) ==
    /\ dbRouter[c] = "idle"
    /\ DbRouterAt(c, "published")
    /\ dbSqs' = dbSqs \cup {c}
    /\ NoFault /\ UNCHANGED <<dbPending, dbReply, dbBatch, dbStep, dbRedis, dbPoll, dbLost>>

\* It throws, with the message published or not; no developer, no tenant: not.
DbPublishFails(c) ==
    /\ Fault
    /\ dbRouter[c] = "idle"
    /\ DbRouterAt(c, "done") /\ DbShow(c, "failed")
    /\ dbSqs' \in {dbSqs, dbSqs \cup {c}}
    /\ UNCHANGED <<dbPending, dbBatch, dbStep, dbRedis, dbPoll, dbLost>>

DbRegister(c) ==
    /\ dbRouter[c] = "published"
    /\ DbRouterAt(c, "done") /\ DbShow(c, "waiting")
    /\ dbPending' = dbPending \cup {c}
    /\ NoFault /\ UNCHANGED <<dbDev, dbRedis, dbPoll, dbLost>>
-----------------------------------------------------------------------------
(***************************************************************************)
(* The developer's master: commands.                                       *)
(***************************************************************************)
\* Up to ten messages, in no particular order.
DbReceive(batch) ==
    /\ dbBatch = <<>> /\ batch # <<>>
    /\ ToSet(batch) \subseteq dbSqs
    /\ dbBatch' = batch /\ dbStep' = "forward"
    /\ NoFault /\ UNCHANGED <<dbProd, dbSqs, dbRedis, dbPoll, dbLost>>

DbForward ==
    /\ dbBatch # <<>> /\ dbStep = "forward"
    /\ dbStream' = Append(dbStream, Head(dbBatch))
    /\ dbStep' = "delete"
    /\ NoFault /\ UNCHANGED <<dbProd, dbSqs, dbBatch, dbResults, dbPoll, dbLost>>

DbDelete ==
    /\ dbBatch # <<>> /\ dbStep = "delete"
    /\ dbSqs' = dbSqs \ {Head(dbBatch)}
    /\ dbBatch' = Tail(dbBatch) /\ dbStep' = "forward"
    /\ NoFault /\ UNCHANGED <<dbProd, dbRedis, dbPoll, dbLost>>

\* Seeded bug: the message is deleted, forwarded or not.
DbDropBatch ==
    /\ dbBatch' = <<>> /\ dbStep' = "forward"
    /\ dbSqs' = dbSqs \ {Head(dbBatch)}

\* What is left of the batch when onCmd or the deletion throws.
DbLeaveBatch == dbBatch' = <<>> /\ dbStep' = "forward" /\ UNCHANGED dbSqs

\* onCmd or the deletion throws, or the process ends; the call may have had its effect.
DbAbort ==
    /\ Fault
    /\ dbBatch # <<>>
    /\ \/ dbStep = "forward" /\ dbStream' \in {dbStream, Append(dbStream, Head(dbBatch))}
       \/ dbStep = "delete" /\ UNCHANGED dbStream
    /\ DbLeaveBatch
    /\ UNCHANGED <<dbProd, dbResults, dbPoll, dbLost>>
-----------------------------------------------------------------------------
(***************************************************************************)
(* The developer's worker (as in CommandBus) and the result bridge.        *)
(***************************************************************************)
DbExecute ==
    /\ dbStream # <<>>
    /\ dbStream' = Tail(dbStream) /\ dbResults' = Append(dbResults, Head(dbStream))
    /\ NoFault /\ UNCHANGED <<dbProd, dbDev, dbPoll, dbLost>>

DbExecuteFails ==
    /\ Fault
    /\ dbStream # <<>>
    /\ dbStream' = Tail(dbStream) /\ dbLost' = dbLost \cup {Head(dbStream)}
    /\ UNCHANGED <<dbProd, dbDev, dbResults, dbPoll>>

\* onResult publishes to SNS; the entry is acknowledged, also when that throws.
DbPublishResult ==
    /\ dbResults # <<>>
    /\ dbResults' = Tail(dbResults)
    /\ dbQueue' = [dbQueue EXCEPT ![Head(dbResults)] = @ + 1]
    /\ NoFault /\ UNCHANGED <<dbProd, dbDev, dbStream, dbHold, dbHandled, dbLost>>

DbPublishResultFails ==
    /\ Fault
    /\ dbResults # <<>>
    /\ dbResults' = Tail(dbResults) /\ dbLost' = dbLost \cup {Head(dbResults)}
    /\ UNCHANGED <<dbProd, dbDev, dbStream, dbPoll>>
-----------------------------------------------------------------------------
(***************************************************************************)
(* The result queue of the production master.                              *)
(***************************************************************************)
DbPollReceive(c) ==
    /\ dbHold = NoCmd /\ dbQueue[c] > 0
    /\ dbHold' = c /\ dbHandled' = FALSE
    /\ NoFault /\ UNCHANGED <<dbProd, dbDev, dbRedis, dbQueue, dbLost>>

\* The pendingMap entry goes before the reply is edited.
DbTakePending == dbPending' = dbPending \ {dbHold}

\* handleResult finds the interaction and edits the reply.
DbAnswer ==
    /\ dbHold \in dbPending /\ ~dbHandled
    /\ DbTakePending
    /\ DbShow(dbHold, "answer")
    /\ dbHandled' = TRUE
    /\ NoFault /\ UNCHANGED <<dbRouter, dbDev, dbRedis, dbQueue, dbHold, dbLost>>

\* The edit is rejected: the interaction is forgotten and the message stays.
DbAnswerFails ==
    /\ Fault
    /\ dbHold \in dbPending /\ ~dbHandled
    /\ DbTakePending
    /\ dbLost' = dbLost \cup {dbHold}
    /\ dbHold' = NoCmd
    /\ UNCHANGED <<dbRouter, dbReply, dbDev, dbRedis, dbQueue, dbHandled>>

\* Seeded bug: every message is deleted.
DbUnhandledDeleted ==
    /\ dbHold # NoCmd /\ dbHold \notin dbPending /\ ~dbHandled
    /\ dbHold' = NoCmd
    /\ dbQueue' = [dbQueue EXCEPT ![dbHold] = @ - 1]
    /\ NoFault /\ UNCHANGED <<dbProd, dbDev, dbRedis, dbHandled, dbLost>>

\* A message nobody waits for (yet) is not deleted.
DbUnhandled ==
    /\ dbHold # NoCmd /\ dbHold \notin dbPending /\ ~dbHandled
    /\ dbHold' = NoCmd
    /\ NoFault /\ UNCHANGED <<dbProd, dbDev, dbRedis, dbQueue, dbHandled, dbLost>>

DbPollDelete ==
    /\ dbHandled /\ dbHold # NoCmd
    /\ dbQueue' = [dbQueue EXCEPT ![dbHold] = @ - 1]
    /\ dbHold' = NoCmd /\ dbHandled' = FALSE
    /\ NoFault /\ UNCHANGED <<dbProd, dbDev, dbRedis, dbLost>>

DbPollDeleteFails ==
    /\ Fault
    /\ dbHandled /\ dbHold # NoCmd
    /\ dbHold' = NoCmd /\ dbHandled' = FALSE
    /\ UNCHANGED <<dbProd, dbDev, dbRedis, dbQueue, dbLost>>

\* The production master restarts: pendingMap is empty.
DbCrash ==
    /\ Fault
    /\ dbPending # {} \/ dbHold # NoCmd \/ \E c \in DevCmds : dbRouter[c] = "published"
    /\ dbRouter' = [c \in DevCmds |-> IF dbRouter[c] = "published" THEN "done" ELSE dbRouter[c]]
    /\ dbLost' = dbLost \cup dbPending \cup {c \in DevCmds : dbRouter[c] = "published"}
    /\ dbPending' = {} /\ dbHold' = NoCmd /\ dbHandled' = FALSE
    /\ UNCHANGED <<dbReply, dbDev, dbRedis, dbQueue>>
-----------------------------------------------------------------------------
\* The batches a receive may return.
DbBatches == SetToAllKPermutations(DevCmds)

DbNext ==
    \/ \E c \in DevCmds :
        \/ DbPublish(c) \/ DbPublishFails(c) \/ DbRegister(c)
        \/ DbPollReceive(c)
    \/ \E batch \in DbBatches : DbReceive(batch)
    \/ DbForward \/ DbDelete \/ DbAbort
    \/ DbExecute \/ DbExecuteFails \/ DbPublishResult \/ DbPublishResultFails
    \/ DbAnswer \/ DbAnswerFails \/ DbUnhandled \/ DbPollDelete \/ DbPollDeleteFails
    \/ DbCrash

DbSpec == DbInit /\ [][DbNext]_dbVars
-----------------------------------------------------------------------------
(***************************************************************************)
(* A command that was published is somewhere, or was answered, or a step   *)
(* that drops it for good was seen: no error or crash of the forwarding    *)
(* master drops one (runDevSqsCommandConsumer.js:96: deleted when it is in *)
(* the stream), and no result that finds no interaction is dropped         *)
(* (startProdBridge.js:64).                                                *)
(***************************************************************************)
DbCommandKept ==
    \A c \in DevCmds :
        \/ dbRouter[c] = "idle" \/ dbReply[c] \in {"failed", "answer"}
        \/ c \in dbLost
        \/ c \in dbSqs
        \/ c \in ToSet(dbStream) \/ c \in ToSet(dbResults)
        \/ dbQueue[c] > 0

(***************************************************************************)
(* No user waits for ever, unless the command or its result was dropped: a *)
(* result that comes before the interaction is registered comes back       *)
(* (interactionRouter.js:66 after publishDevCommand).                      *)
(***************************************************************************)
DbAnswered == <>[](\A c \in DevCmds : dbReply[c] = "waiting" => c \in dbLost)
=============================================================================
