-------------------------- MODULE CommandBusProofs --------------------------
(***************************************************************************)
(* Theorems about CommandBus for every number of interactions, jobs,       *)
(* tenants and faults.                                                     *)
(***************************************************************************)
EXTENDS CommandBus, TLAPS

-----------------------------------------------------------------------------
(***************************************************************************)
(* Sequences as the streams use them.                                      *)
(***************************************************************************)

\* What XADD does to the entries of a stream.
LEMMA AppendFacts ==
    ASSUME NEW S, NEW s \in Seq(S), NEW e \in S
    PROVE  /\ Append(s, e) \in Seq(S)
           /\ Elems(Append(s, e)) = Elems(s) \cup {e}
           /\ Append(s, e) # <<>>
           /\ Unique(s) /\ e \notin Elems(s) => Unique(Append(s, e))
<1>1. /\ Append(s, e) \in Seq(S)
      /\ Len(Append(s, e)) = Len(s) + 1
      /\ \A k \in 1..Len(s) : Append(s, e)[k] = s[k]
      /\ Append(s, e)[Len(s) + 1] = e
      /\ Len(s) \in Nat
  OBVIOUS
<1>2. Elems(Append(s, e)) = Elems(s) \cup {e}
  BY <1>1 DEF Elems
<1>3. Unique(s) /\ e \notin Elems(s) => Unique(Append(s, e))
  BY <1>1 DEF Elems, Unique
<1>4. QED
  BY <1>1, <1>2, <1>3

\* Going on to the next entry of a batch.
LEMMA TailFacts ==
    ASSUME NEW S, NEW s \in Seq(S), s # <<>>
    PROVE  /\ Head(s) \in S
           /\ Tail(s) \in Seq(S)
           /\ Head(s) \in Elems(s)
           /\ Elems(s) = {Head(s)} \cup Elems(Tail(s))
           /\ Len(s) \in Nat \ {0} /\ Len(Tail(s)) = Len(s) - 1
           /\ \A k \in 1..Len(Tail(s)) : Tail(s)[k] = s[k + 1]
           /\ Head(s) = s[1]
           /\ Unique(s) => Unique(Tail(s)) /\ Head(s) \notin Elems(Tail(s))
<1>1. /\ Len(s) \in Nat \ {0}
      /\ Head(s) = s[1] /\ Head(s) \in S
      /\ Tail(s) \in Seq(S)
      /\ Len(Tail(s)) = Len(s) - 1
      /\ \A k \in 1..Len(Tail(s)) : Tail(s)[k] = s[k + 1]
  OBVIOUS
<1>2. ASSUME NEW k \in 1..Len(s) PROVE s[k] \in {Head(s)} \cup Elems(Tail(s))
  <2>1. CASE k = 1
    BY <1>1, <2>1
  <2>2. CASE k # 1
    <3>1. k - 1 \in 1..Len(Tail(s)) /\ Tail(s)[k - 1] = s[k]
      BY <1>1, <2>2
    <3>2. QED
      BY <3>1 DEF Elems
  <2>3. QED
    BY <2>1, <2>2
<1>3. Elems(s) = {Head(s)} \cup Elems(Tail(s)) /\ Head(s) \in Elems(s)
  BY <1>1, <1>2 DEF Elems
<1>4. Unique(s) => Unique(Tail(s)) /\ Head(s) \notin Elems(Tail(s))
  BY <1>1 DEF Unique, Elems
<1>5. QED
  BY <1>1, <1>3, <1>4

\* What one XREADGROUP takes from the entries past the group's cursor.
LEMMA ReadFacts ==
    ASSUME NEW S, NEW q \in Seq(S), q # <<>>
    PROVE  LET batch == SubSeq(q, 1, BatchLen(q))
               rest  == SubSeq(q, BatchLen(q) + 1, Len(q))
           IN  /\ batch \in Seq(S) /\ batch # <<>> /\ rest \in Seq(S)
               /\ Elems(batch) \cup Elems(rest) = Elems(q)
               /\ Unique(q) => /\ Unique(batch) /\ Unique(rest)
                               /\ Elems(batch) \cap Elems(rest) = {}
<1> DEFINE n == BatchLen(q)
           batch == SubSeq(q, 1, n)
           rest == SubSeq(q, n + 1, Len(q))
<1>1. Len(q) \in Nat \ {0} /\ n \in 1..Len(q)
  BY CommandAssumption DEF BatchLen
<1>2. /\ batch \in Seq(S) /\ Len(batch) = n
      /\ \A k \in 1..n : batch[k] = q[k]
  BY <1>1
<1>3. /\ rest \in Seq(S) /\ Len(rest) = Len(q) - n
      /\ \A k \in 1..(Len(q) - n) : rest[k] = q[k + n]
  BY <1>1
<1> HIDE DEF batch, rest, n
<1>4. ASSUME NEW k \in 1..Len(q) PROVE q[k] \in Elems(batch) \cup Elems(rest)
  <2>1. CASE k <= n
    BY <1>1, <1>2, <2>1 DEF Elems
  <2>2. CASE ~(k <= n)
    <3>1. k - n \in 1..(Len(q) - n) /\ rest[k - n] = q[k]
      BY <1>1, <1>3, <2>2
    <3>2. QED
      BY <1>3, <3>1 DEF Elems
  <2>3. QED
    BY <2>1, <2>2
<1>5. Elems(batch) \cup Elems(rest) = Elems(q)
  <2>1. Elems(batch) \subseteq Elems(q)
    BY <1>1, <1>2 DEF Elems
  <2>2. Elems(rest) \subseteq Elems(q)
    BY <1>1, <1>3 DEF Elems
  <2>3. Elems(q) \subseteq Elems(batch) \cup Elems(rest)
    BY <1>4 DEF Elems
  <2>4. QED
    BY <2>1, <2>2, <2>3
<1>6. ASSUME Unique(q)
      PROVE  Unique(batch) /\ Unique(rest) /\ Elems(batch) \cap Elems(rest) = {}
  <2>1. Unique(batch)
    BY <1>1, <1>2, <1>6 DEF Unique
  <2>2. Unique(rest)
    BY <1>1, <1>3, <1>6 DEF Unique
  <2>3. ASSUME NEW k \in 1..Len(batch), NEW l \in 1..Len(rest), batch[k] = rest[l]
        PROVE  FALSE
    BY <1>1, <1>2, <1>3, <1>6, <2>3 DEF Unique
  <2>4. QED
    BY <2>1, <2>2, <2>3 DEF Elems
<1>7. batch # <<>>
  BY <1>1, <1>2
<1>8. QED
  BY <1>2, <1>3, <1>5, <1>6, <1>7 DEF batch, rest, n

-----------------------------------------------------------------------------
(***************************************************************************)
(* Type correctness.                                                       *)
(***************************************************************************)
TypeInv == TypeOK /\ BatchInHand

\* XADD to a command stream keeps the types of what it writes.
LEMMA XAddCmdType ==
    ASSUME TypeOK, NEW w \in Workers, NEW c \in Cmds, XAddCmd(w, c)
    PROVE  /\ cmdGroup' \in [Workers -> BOOLEAN]
           /\ cmdQueue' \in [Workers -> Seq(Cmds)]
           /\ cmdPel' \in [Workers -> SUBSET Cmds]
           /\ lost' \subseteq Cmds
<1>1. cmdQueue[w] \in Seq(Cmds)
  BY DEF TypeOK
<1>2. Append(cmdQueue[w], c) \in Seq(Cmds)
  BY <1>1, AppendFacts
<1>3. QED
  BY <1>2 DEF TypeOK, XAddCmd

\* The initial state satisfies the invariant.
LEMMA TypeInvInit == Init => TypeInv
<1> SUFFICES ASSUME Init PROVE TypeInv
  OBVIOUS
<1> USE DEF Init
<1>1. /\ <<>> \in Seq(Cmds) /\ <<>> \in Seq(ResultMsg)
      /\ <<>> \in Seq(Notice \cup Body)
  OBVIOUS
<1>2. TypeOK
  BY <1>1 DEF TypeOK, RouteStep, WorkerStep, MasterStep, Outcome
<1>3. BatchInHand
  BY DEF BatchInHand
<1>4. QED
  BY <1>2, <1>3 DEF TypeInv

\* Every step of the router keeps it.
LEMMA TypeInvRouter ==
    ASSUME TypeInv, NEW i \in Interactions, RouterNext(i)
    PROVE  TypeInv'
<1> USE DEF TypeInv
<1>0. i \in Cmds /\ edits[i] \in Seq(Notice \cup Body)
  BY DEF TypeOK, Cmds
<1>1. CASE Receive(i)
  BY <1>1, <1>0 DEF Receive, TypeOK, BatchInHand, RouteStep, Notice, Body, Outcome,
     cmdVars, resVars, workerVars, masterVars, history
<1>2. CASE DeferFails(i) \/ ClosingFails(i)
  <2>1. Fault /\ \E killed \in SUBSET Interactions : MasterExit(killed)
    BY <1>2 DEF DeferFails, ClosingFails
  <2>2. TypeOK'
    BY <2>1 DEF Fault, MasterExit, TypeOK, RouteStep, MasterStep,
       cmdVars, resVars, workerVars, history
  <2>3. BatchInHand'
    BY <2>1 DEF MasterExit, TypeOK, BatchInHand, workerVars
  <2>4. QED
    BY <2>2, <2>3
<1>3. CASE RefuseChannel(i) \/ PublishFails(i) \/ Register(i)
  <2>1. PICK e \in Notice : /\ edits' = [edits EXCEPT ![i] = Append(@, e)]
                            /\ UNCHANGED <<mpc, mbatch, wpc, wbatch>>
    BY <1>3 DEF RefuseChannel, PublishFails, Register, Notice, workerVars, masterVars
  <2>2. Append(edits[i], e) \in Seq(Notice \cup Body)
    BY <1>0, AppendFacts
  <2>3. TypeOK'
    <3>1. route' \in [Cmds -> RouteStep]
      BY <1>0, <1>3 DEF RefuseChannel, PublishFails, Register, TypeOK, RouteStep
    <3>2. pending' \subseteq Interactions
      BY <1>0, <1>3 DEF RefuseChannel, PublishFails, Register, TypeOK
    <3>3. faults' \in Nat
      BY <1>0, <1>3 DEF RefuseChannel, PublishFails, Register, TypeOK, Fault
    <3>4. edits' \in [Interactions -> Seq(Notice \cup Body)]
      BY <2>1, <2>2 DEF TypeOK
    <3>5. UNCHANGED <<reply, cmdVars, resVars, workerVars, masterVars, history>>
      BY <1>3 DEF RefuseChannel, PublishFails, Register
    <3>6. QED
      BY <3>1, <3>2, <3>3, <3>4, <3>5 DEF TypeOK, cmdVars, resVars, workerVars, masterVars, history
  <2>4. \A k \in 1..Len(edits'[i]) : edits'[i][k] \in Body =>
            k \in 1..Len(edits[i]) /\ edits'[i][k] = edits[i][k]
    BY <1>0, <2>1 DEF TypeOK, Notice, Body, Outcome
  <2>5. BatchInHand'
    BY <2>1, <2>4 DEF TypeOK, BatchInHand
  <2>6. QED
    BY <2>3, <2>5
<1>4. CASE Publish(i)
  <2>1. TenantOf[i] \in Workers
    BY <1>4, <1>0, CommandAssumption DEF Publish, Workers
  <2>2. TypeOK'
    BY <1>4, <1>0, <2>1, XAddCmdType DEF Publish, TypeOK, RouteStep,
       resVars, workerVars, masterVars
  <2>3. BatchInHand'
    BY <1>4 DEF Publish, BatchInHand, workerVars, masterVars
  <2>4. QED
    BY <2>2, <2>3
<1>5. CASE EditApplied(i) \/ AnswerFails(i)
  <2>1. /\ edits[i] # <<>>
        /\ Head(edits[i]) \in Notice \cup Body
        /\ Tail(edits[i]) \in Seq(Notice \cup Body)
    BY <1>0, <1>5, TailFacts DEF EditApplied, AnswerFails
  <2>2. edits' = [edits EXCEPT ![i] = Tail(@)] /\ UNCHANGED <<mbatch, wpc, wbatch>>
    BY <1>5 DEF EditApplied, AnswerFails, workerVars
  <2>3. TypeOK'
    <3>1. reply' \in [Interactions -> {"none", "deferred"} \cup Notice \cup Body]
      BY <1>5, <2>1 DEF EditApplied, AnswerFails, TypeOK
    <3>2. route' \in [Cmds -> RouteStep]
      BY <1>0, <1>5 DEF EditApplied, AnswerFails, TypeOK, RouteStep
    <3>3. mpc' \in MasterStep
      BY <1>0, <1>5 DEF EditApplied, AnswerFails, TypeOK, MasterStep
    <3>4. faults' \in Nat
      BY <1>0, <1>5 DEF EditApplied, AnswerFails, TypeOK, Fault
    <3>5. edits' \in [Interactions -> Seq(Notice \cup Body)]
      BY <2>1, <2>2 DEF TypeOK
    <3>6. UNCHANGED <<pending, cmdVars, resVars, workerVars, mbatch, history>>
      BY <1>5 DEF EditApplied, AnswerFails
    <3>7. QED
      BY <3>1, <3>2, <3>3, <3>4, <3>5, <3>6 DEF TypeOK, cmdVars, resVars, workerVars, history
  <2>4. \A k \in 1..Len(Tail(edits[i])) :
            k + 1 \in 1..Len(edits[i]) /\ Tail(edits[i])[k] = edits[i][k + 1]
    BY <1>0, <2>1, TailFacts
  <2>5. 1 \in 1..Len(edits[i]) /\ edits[i][1] = Head(edits[i])
    BY <1>0, <2>1, TailFacts
  <2>6. CASE Head(edits[i]) \in Body
    <3>1. mpc = "editing" /\ mpc' = "ack"
      BY <1>5, <2>5, <2>6 DEF EditApplied, AnswerFails, BatchInHand
    <3>2. \A h \in Interactions : \A k \in 1..Len(edits'[h]) : edits'[h][k] \notin Body
      <4> SUFFICES ASSUME NEW h \in Interactions, NEW k \in 1..Len(edits'[h]),
                          edits'[h][k] \in Body
                   PROVE  FALSE
        OBVIOUS
      <4>1. CASE h = i
        <5>1. k + 1 \in 1..Len(edits[i]) /\ edits[i][k + 1] \in Body /\ k + 1 # 1
          BY <2>2, <2>4, <4>1 DEF TypeOK
        <5>2. QED
          BY <5>1, <2>5, <2>6 DEF BatchInHand
      <4>2. CASE h # i
        <5>1. k \in 1..Len(edits[h]) /\ edits[h][k] \in Body
          BY <2>2, <4>2 DEF TypeOK
        <5>2. QED
          BY <4>2, <5>1, <2>5, <2>6 DEF BatchInHand
      <4>3. QED
        BY <4>1, <4>2
    <3>3. QED
      BY <2>2, <2>3, <3>1, <3>2 DEF BatchInHand
  <2>7. CASE Head(edits[i]) \notin Body
    <3>1. UNCHANGED mpc
      BY <1>5, <2>7 DEF EditApplied, AnswerFails
    <3>2. \A k \in 1..Len(edits'[i]) :
            k + 1 \in 1..Len(edits[i]) /\ edits'[i][k] = edits[i][k + 1]
      BY <2>2, <2>4 DEF TypeOK
    <3>3. \A h \in Interactions : h # i => edits'[h] = edits[h]
      BY <2>2 DEF TypeOK
    <3>4. \A h \in Interactions : \A k \in 1..Len(edits'[h]) :
            edits'[h][k] \in Body => mpc' = "editing"
      BY <3>1, <3>2, <3>3 DEF BatchInHand
    <3>5. ASSUME NEW g \in Interactions, NEW h \in Interactions,
                 NEW k \in 1..Len(edits'[g]), NEW l \in 1..Len(edits'[h]),
                 edits'[g][k] \in Body, edits'[h][l] \in Body
          PROVE  g = h /\ k = l
      <4>1. PICK k1 \in 1..Len(edits[g]) : edits[g][k1] = edits'[g][k]
                                           /\ k1 = IF g = i THEN k + 1 ELSE k
        BY <3>2, <3>3
      <4>2. PICK l1 \in 1..Len(edits[h]) : edits[h][l1] = edits'[h][l]
                                           /\ l1 = IF h = i THEN l + 1 ELSE l
        BY <3>2, <3>3
      <4>3. g = h /\ k1 = l1
        BY <3>5, <4>1, <4>2 DEF BatchInHand
      <4>4. QED
        BY <4>1, <4>2, <4>3
    <3>6. QED
      BY <2>2, <2>3, <3>1, <3>4, <3>5 DEF BatchInHand
  <2>8. QED
    BY <2>6, <2>7
<1>6. CASE PhraseFails(i)
  <2>1. /\ Tail(edits[i]) \in Seq(Notice \cup Body)
        /\ Len(Tail(edits[i])) \in Nat
        /\ \A k \in 1..Len(Tail(edits[i])) :
              k + 1 \in 1..Len(edits[i]) /\ Tail(edits[i])[k] = edits[i][k + 1]
    BY <1>0, <1>6, TailFacts DEF PhraseFails
  <2>2. Append(Tail(edits[i]), "failed") \in Seq(Notice \cup Body)
    BY <2>1, AppendFacts DEF Notice
  <2>3. TypeOK'
    BY <1>0, <1>6, <2>2 DEF PhraseFails, TypeOK, RouteStep, Fault,
       cmdVars, resVars, workerVars, masterVars, history
  <2>4. /\ UNCHANGED <<mpc, mbatch, wpc, wbatch>>
        /\ edits' = [edits EXCEPT ![i] = Append(Tail(@), "failed")]
    BY <1>6 DEF PhraseFails, workerVars, masterVars
  <2>5. \A k \in 1..Len(edits'[i]) : edits'[i][k] \in Body =>
            k + 1 \in 1..Len(edits[i]) /\ edits'[i][k] = edits[i][k + 1]
    <3>1. edits'[i] = Append(Tail(edits[i]), "failed")
      BY <2>4 DEF TypeOK
    <3>2. "failed" \notin Body
      BY DEF Body, Outcome
    <3>3. QED
      BY <2>1, <3>1, <3>2
  <2>6. \A h \in Interactions : h # i => edits'[h] = edits[h]
    BY <2>4 DEF TypeOK
  <2>7. \A h \in Interactions : \A k \in 1..Len(edits'[h]) :
            edits'[h][k] \in Body => mpc' = "editing"
    BY <2>4, <2>5, <2>6 DEF BatchInHand
  <2>8. ASSUME NEW g \in Interactions, NEW h \in Interactions,
               NEW k \in 1..Len(edits'[g]), NEW l \in 1..Len(edits'[h]),
               edits'[g][k] \in Body, edits'[h][l] \in Body
        PROVE  g = h /\ k = l
    <3>1. PICK k1 \in 1..Len(edits[g]) : edits[g][k1] = edits'[g][k]
                                         /\ k1 = IF g = i THEN k + 1 ELSE k
      BY <2>5, <2>6, <2>8
    <3>2. PICK l1 \in 1..Len(edits[h]) : edits[h][l1] = edits'[h][l]
                                         /\ l1 = IF h = i THEN l + 1 ELSE l
      BY <2>5, <2>6, <2>8
    <3>3. g = h /\ k1 = l1
      BY <2>8, <3>1, <3>2 DEF BatchInHand
    <3>4. QED
      BY <3>1, <3>2, <3>3
  <2>9. QED
    BY <2>3, <2>4, <2>7, <2>8 DEF BatchInHand
<1>7. QED
  BY <1>1, <1>2, <1>3, <1>4, <1>5, <1>6 DEF RouterNext

\* The current entry of a worker that has one.
LEMMA CurrentFacts ==
    ASSUME TypeInv, NEW w \in Workers, wpc[w] \notin {"down", "read"}
    PROVE  /\ wbatch[w] \in Seq(Cmds) /\ wbatch[w] # <<>>
           /\ Current(w) \in Cmds
           /\ Tail(wbatch[w]) \in Seq(Cmds)
<1>1. wbatch[w] \in Seq(Cmds) /\ wbatch[w] # <<>>
  BY DEF TypeInv, TypeOK, BatchInHand
<1>2. QED
  BY <1>1, TailFacts DEF Current

\* Every step of a worker keeps the invariant.
LEMMA TypeInvWorker ==
    ASSUME TypeInv, NEW w \in Workers, WorkerNext(w)
    PROVE  TypeInv'
<1> USE DEF TypeInv
<1>0. /\ wpc[w] \in WorkerStep
      /\ wbatch[w] \in Seq(Cmds) /\ cmdQueue[w] \in Seq(Cmds)
      /\ <<>> \in Seq(Cmds)
      /\ \A s : [wpc EXCEPT ![w] = s][w] = s
  BY DEF TypeOK
<1>1. CASE BootWorker(w) \/ RecreateCmdGroup(w)
  <2>1. TypeOK'
    <3>1. cmdGroup' \in [Workers -> BOOLEAN]
      BY <1>1 DEF BootWorker, RecreateCmdGroup, TypeOK
    <3>2. wpc' \in [Workers -> WorkerStep] /\ wbatch' = wbatch /\ wout' = wout
      BY <1>1 DEF BootWorker, RecreateCmdGroup, Step, TypeOK, WorkerStep, workerVars
    <3>3. UNCHANGED <<routerVars, cmdQueue, cmdPel, resVars, masterVars, faults, history>>
      BY <1>1 DEF BootWorker, RecreateCmdGroup
    <3>4. QED
      BY <3>1, <3>2, <3>3 DEF TypeOK, routerVars, resVars, masterVars, history
  <2>2. BatchInHand'
    <3>1. UNCHANGED <<edits, mpc, mbatch, wbatch>>
      BY <1>1 DEF BootWorker, RecreateCmdGroup, routerVars, workerVars, masterVars
    <3>2. wpc' = wpc \/ (wpc[w] = "down" /\ wpc' = [wpc EXCEPT ![w] = "read"])
      BY <1>1 DEF BootWorker, RecreateCmdGroup, Step, workerVars
    <3>3. wpc \in [Workers -> WorkerStep]
      BY DEF TypeOK
    <3>4. \A v \in Workers : /\ wbatch'[v] = <<>> <=> wpc'[v] \in {"down", "read"}
                             /\ wpc'[v] = "forwarded" => v # Global
      BY <3>1, <3>2, <3>3 DEF BatchInHand
    <3>5. QED
      BY <3>1, <3>4 DEF BatchInHand
  <2>3. QED
    BY <2>1, <2>2
<1>2. CASE ReadCmds(w)
  <2> DEFINE batch == SubSeq(cmdQueue[w], 1, BatchLen(cmdQueue[w]))
             rest == SubSeq(cmdQueue[w], BatchLen(cmdQueue[w]) + 1, Len(cmdQueue[w]))
  <2>1. batch \in Seq(Cmds) /\ batch # <<>> /\ rest \in Seq(Cmds)
    BY <1>0, <1>2, ReadFacts DEF ReadCmds
  <2>2. Elems(batch) \subseteq Cmds
    BY <2>1 DEF Elems
  <2>3. /\ wbatch' = [wbatch EXCEPT ![w] = batch]
        /\ cmdQueue' = [cmdQueue EXCEPT ![w] = rest]
        /\ cmdPel' = [cmdPel EXCEPT ![w] = @ \cup Elems(batch)]
        /\ wpc' = [wpc EXCEPT ![w] = "entry"]
        /\ UNCHANGED <<routerVars, cmdGroup, resVars, wout, masterVars, faults, history>>
    BY <1>2 DEF ReadCmds, Step
  <2> HIDE DEF batch, rest
  <2>4. TypeOK'
    BY <2>1, <2>2, <2>3 DEF TypeOK, WorkerStep, routerVars, resVars, masterVars, history
  <2>5. BatchInHand'
    BY <2>1, <2>3 DEF TypeOK, BatchInHand, routerVars, masterVars
  <2>6. QED
    BY <2>4, <2>5
<1>3. CASE Forward(w)
  <2>1. Current(w) \in Cmds /\ Global \in Workers
    BY <1>3, CurrentFacts DEF Forward, Workers
  <2>2. TypeOK'
    BY <1>3, <2>1, XAddCmdType
    DEF Forward, Step, TypeOK, WorkerStep, routerVars, resVars, masterVars
  <2>3. BatchInHand'
    BY <1>3 DEF Forward, MustForward, Step, TypeOK, BatchInHand, routerVars, masterVars
  <2>4. QED
    BY <2>2, <2>3
<1>4. CASE ForwardFails(w)
  <2>1. TypeOK'
    BY <1>4 DEF ForwardFails, Fault, Step, TypeOK, WorkerStep,
       routerVars, cmdVars, resVars, masterVars, history
  <2>2. BatchInHand'
    BY <1>4 DEF ForwardFails, Step, TypeOK, BatchInHand, routerVars, masterVars
  <2>3. QED
    BY <2>1, <2>2
<1>5. CASE Execute(w) \/ RejectUnknown(w)
  <2>1. Current(w) \in Cmds /\ wpc[w] = "entry"
    BY <1>5, CurrentFacts DEF Execute, RejectUnknown
  <2>2. executed' \in [Cmds -> Nat]
    <3>1. executed \in [Cmds -> Nat]
      BY DEF TypeOK
    <3>2. CASE Execute(w)
      <4>1. executed' = [executed EXCEPT ![Current(w)] = @ + 1]
        BY <3>2 DEF Execute
      <4>2. QED
        BY <2>1, <3>1, <4>1
    <3>3. CASE RejectUnknown(w)
      BY <3>1, <3>3 DEF RejectUnknown, history
    <3>4. QED
      BY <1>5, <3>2, <3>3
  <2>3. \E o \in Outcome : wout' = [wout EXCEPT ![w] = o]
    <3>1. CASE Execute(w)
      <4>1. (IF Current(w) \in Announced THEN Outcome ELSE {"ok", "err"}) \subseteq Outcome
        BY DEF Outcome
      <4>2. QED
        BY <3>1, <4>1 DEF Execute
    <3>2. CASE RejectUnknown(w)
      BY <3>2 DEF RejectUnknown, Outcome
    <3>3. QED
      BY <1>5, <3>1, <3>2
  <2>4. /\ wpc' = [wpc EXCEPT ![w] = "executed"]
        /\ UNCHANGED <<routerVars, cmdVars, resVars, wbatch, masterVars, faults,
                       asked, answered, posts, handled, lost>>
    BY <1>5 DEF Execute, RejectUnknown, Step, history
  <2>5. TypeOK'
    BY <2>2, <2>3, <2>4 DEF TypeOK, WorkerStep, routerVars, cmdVars, resVars, masterVars
  <2>6. BatchInHand'
    BY <2>1, <2>4 DEF TypeOK, BatchInHand, routerVars, masterVars
  <2>7. QED
    BY <2>5, <2>6
<1>6. CASE PublishResult(w)
  <2> DEFINE r == [id |-> Current(w),
                   body |-> IF wpc[w] = "routeErr" THEN "routeErr" ELSE wout[w]]
  <2>1. Current(w) \in Cmds
    BY <1>6, CurrentFacts DEF PublishResult
  <2>2. r \in ResultMsg
    BY <2>1 DEF ResultMsg, Body, TypeOK
  <2>3. XAddResult(r) /\ r.id = Current(w)
    BY <1>6 DEF PublishResult
  <2> HIDE DEF r
  <2>4. Append(resQueue, r) \in Seq(ResultMsg)
    BY <2>2, AppendFacts DEF TypeOK
  <2>5. /\ resQueue' \in Seq(ResultMsg) /\ lost' \subseteq Cmds
        /\ UNCHANGED <<resGroup, resPel>>
    BY <2>1, <2>3, <2>4 DEF XAddResult, TypeOK
  <2>6. /\ wpc' = [wpc EXCEPT ![w] = "sent"]
        /\ wpc[w] \in {"executed", "routeErr"}
        /\ UNCHANGED <<routerVars, cmdVars, wbatch, wout, masterVars, faults,
                       asked, executed, answered, posts, handled>>
    BY <1>6 DEF PublishResult, Step
  <2>7. TypeOK'
    BY <2>5, <2>6 DEF TypeOK, WorkerStep, routerVars, cmdVars, masterVars
  <2>8. BatchInHand'
    BY <2>6 DEF TypeOK, BatchInHand, routerVars, masterVars
  <2>9. QED
    BY <2>7, <2>8
<1>7. CASE AckCmd(w)
  <2>1. Tail(wbatch[w]) \in Seq(Cmds)
    BY <1>7, CurrentFacts DEF AckCmd
  <2>2. /\ wpc' = [wpc EXCEPT ![w] = IF Tail(wbatch[w]) = <<>> THEN "read" ELSE "entry"]
        /\ wbatch' = [wbatch EXCEPT ![w] = Tail(@)]
        /\ cmdPel' = [cmdPel EXCEPT ![w] = @ \ {Current(w)}]
        /\ UNCHANGED <<routerVars, cmdGroup, cmdQueue, resVars, wout, masterVars, faults, history>>
    BY <1>7 DEF AckCmd, NextEntry, Step
  <2>3. TypeOK'
    BY <2>1, <2>2 DEF TypeOK, WorkerStep, routerVars, resVars, masterVars, history
  <2>4. BatchInHand'
    <3>1. UNCHANGED <<edits, mpc, mbatch>>
      BY <2>2 DEF routerVars, masterVars
    <3>2. wpc \in [Workers -> WorkerStep] /\ wbatch \in [Workers -> Seq(Cmds)]
      BY DEF TypeOK
    <3>3. \A v \in Workers : /\ wbatch'[v] = <<>> <=> wpc'[v] \in {"down", "read"}
                             /\ wpc'[v] = "forwarded" => v # Global
      BY <2>2, <3>2 DEF BatchInHand
    <3>4. QED
      BY <3>1, <3>3 DEF BatchInHand
  <2>5. QED
    BY <2>3, <2>4
<1>8. CASE AbortBatch(w) \/ CrashWorker(w)
  <2>1. TypeOK'
    <3>1. wpc' \in [Workers -> WorkerStep] /\ wbatch' \in [Workers -> Seq(Cmds)]
      BY <1>8, <1>0 DEF AbortBatch, CrashWorker, Step, TypeOK, WorkerStep
    <3>2. faults' \in Nat
      BY <1>8 DEF AbortBatch, CrashWorker, Fault, TypeOK
    <3>3. UNCHANGED <<routerVars, cmdVars, resVars, wout, masterVars, history>>
      BY <1>8 DEF AbortBatch, CrashWorker
    <3>4. QED
      BY <3>1, <3>2, <3>3 DEF TypeOK, routerVars, cmdVars, resVars, masterVars, history
  <2>2. BatchInHand'
    BY <1>8 DEF AbortBatch, CrashWorker, Step, TypeOK, BatchInHand, routerVars, masterVars
  <2>3. QED
    BY <2>1, <2>2
<1>9. CASE DropCmdStream(w)
  <2>1. Elems(cmdQueue[w]) \subseteq Cmds
    BY <1>0 DEF Elems
  <2>2. TypeOK'
    BY <1>9, <1>0, <2>1 DEF DropCmdStream, Fault, TypeOK,
       routerVars, resVars, workerVars, masterVars
  <2>3. BatchInHand'
    BY <1>9 DEF DropCmdStream, BatchInHand, routerVars, workerVars, masterVars
  <2>4. QED
    BY <2>2, <2>3
<1>10. QED
  BY <1>1, <1>2, <1>3, <1>4, <1>5, <1>6, <1>7, <1>8, <1>9 DEF WorkerNext

\* Every step of the master's result loop keeps the invariant.
LEMMA TypeInvMaster ==
    ASSUME TypeInv, MasterNext
    PROVE  TypeInv'
<1> USE DEF TypeInv
<1>0. <<>> \in Seq(ResultMsg) /\ mbatch \in Seq(ResultMsg) /\ resQueue \in Seq(ResultMsg)
  BY DEF TypeOK
<1>1. CASE BootMaster
  BY <1>1 DEF BootMaster, TypeOK, BatchInHand, MasterStep,
     routerVars, cmdVars, resVars, workerVars, history
<1>2. CASE CrashMaster
  <2>1. Fault /\ MasterExit({})
    BY <1>2 DEF CrashMaster
  <2>2. TypeOK'
    BY <2>1 DEF Fault, MasterExit, TypeOK, RouteStep, MasterStep,
       cmdVars, resVars, workerVars, history
  <2>3. BatchInHand'
    BY <2>1 DEF MasterExit, TypeOK, BatchInHand, workerVars
  <2>4. QED
    BY <2>2, <2>3
<1>3. CASE EnsureResultGroup
  <2>1. TypeOK'
    BY <1>3 DEF EnsureResultGroup, TypeOK, MasterStep,
       routerVars, cmdVars, workerVars, history
  <2>2. mpc # "editing" /\ mpc' = "read" /\ UNCHANGED <<edits, wpc, wbatch>>
    BY <1>3 DEF EnsureResultGroup, routerVars, workerVars
  <2>3. BatchInHand'
    BY <2>2 DEF BatchInHand
  <2>4. QED
    BY <2>1, <2>3
<1>4. CASE ResultLoopDies
  <2>1. TypeOK'
    BY <1>4 DEF ResultLoopDies, Fault, TypeOK, MasterStep,
       routerVars, cmdVars, resVars, workerVars, history
  <2>2. mpc # "editing" /\ mpc' = "dead" /\ UNCHANGED <<edits, wpc, wbatch>>
    BY <1>4 DEF ResultLoopDies, routerVars, workerVars
  <2>3. BatchInHand'
    BY <2>2 DEF BatchInHand
  <2>4. QED
    BY <2>1, <2>3
<1>5. CASE ReadResults
  <2> DEFINE batch == SubSeq(resQueue, 1, BatchLen(resQueue))
             rest == SubSeq(resQueue, BatchLen(resQueue) + 1, Len(resQueue))
  <2>1. batch \in Seq(ResultMsg) /\ batch # <<>> /\ rest \in Seq(ResultMsg)
    BY <1>0, <1>5, ReadFacts DEF ReadResults
  <2>2. Elems(batch) \subseteq ResultMsg
    BY <2>1 DEF Elems
  <2>3. /\ mbatch' = batch /\ resQueue' = rest /\ resPel' = resPel \cup Elems(batch)
        /\ mpc = "read" /\ mpc' = "entry"
        /\ UNCHANGED <<routerVars, cmdVars, resGroup, workerVars, faults, history>>
    BY <1>5 DEF ReadResults
  <2> HIDE DEF batch, rest
  <2>4. TypeOK'
    BY <2>1, <2>2, <2>3 DEF TypeOK, MasterStep, routerVars, cmdVars, workerVars, history
  <2>5. BatchInHand'
    BY <2>1, <2>3 DEF BatchInHand, routerVars, workerVars
  <2>6. QED
    BY <2>4, <2>5
<1>6. CASE Broadcast
  <2>1. posts' \in [Cmds -> Nat] /\ faults' \in Nat
    BY <1>6 DEF Broadcast, Fault, TypeOK
  <2>2. /\ mpc = "entry" /\ mpc' = "lookup"
        /\ UNCHANGED <<routerVars, cmdVars, resVars, workerVars, mbatch,
                       asked, executed, answered, handled, lost>>
    BY <1>6 DEF Broadcast
  <2>3. TypeOK'
    BY <2>1, <2>2 DEF TypeOK, MasterStep, routerVars, cmdVars, resVars, workerVars
  <2>4. BatchInHand'
    BY <2>2 DEF BatchInHand, routerVars, workerVars
  <2>5. QED
    BY <2>3, <2>4
<1>7. CASE NoPending
  <2>1. mpc \in {"entry", "lookup"} /\ mpc' = "ack"
    BY <1>7 DEF NoPending, AtLookup
  <2>2. Arrived \in ResultMsg
    BY <1>0, <2>1, TailFacts DEF Arrived, BatchInHand
  <2>3. Arrived.id \in Cmds
    BY <2>2 DEF ResultMsg
  <2>4. handled' \subseteq Cmds /\ lost' \subseteq Cmds
    BY <1>7, <2>3 DEF NoPending, TypeOK
  <2>5. UNCHANGED <<routerVars, cmdVars, resVars, workerVars, mbatch, faults,
                    asked, executed, answered, posts>>
    BY <1>7 DEF NoPending
  <2>6. TypeOK'
    BY <2>1, <2>4, <2>5 DEF TypeOK, MasterStep, routerVars, cmdVars, resVars, workerVars
  <2>7. BatchInHand'
    BY <2>1, <2>5 DEF BatchInHand, routerVars, workerVars
  <2>8. QED
    BY <2>6, <2>7
<1>8. CASE Deliver
  <2>1. mpc \in {"entry", "lookup"} /\ mpc' = "editing" /\ mbatch # <<>>
    BY <1>8 DEF Deliver, AtLookup, BatchInHand
  <2>2. Arrived \in ResultMsg
    BY <1>0, <2>1, TailFacts DEF Arrived
  <2>3. Arrived.id \in Interactions /\ Arrived.id \in Cmds /\ Arrived.body \in Body
    BY <1>8, <2>2 DEF ResultMsg, Deliver, TypeOK
  <2> DEFINE h == Arrived.id
             b == Arrived.body
  <2>4. /\ edits' = [edits EXCEPT ![h] = Append(@, b)]
        /\ pending' = pending \ {h}
        /\ answered' = [answered EXCEPT ![h] = @ \cup {b}]
        /\ handled' = handled \cup {h}
        /\ UNCHANGED <<route, reply, cmdVars, resVars, workerVars, mbatch, faults,
                       asked, executed, posts, lost>>
    BY <1>8 DEF Deliver
  <2> HIDE DEF h, b
  <2>5. h \in Interactions /\ h \in Cmds /\ b \in Body
    BY <2>3 DEF h, b
  <2>6. edits[h] \in Seq(Notice \cup Body) /\ Append(edits[h], b) \in Seq(Notice \cup Body)
    BY <2>5, AppendFacts DEF TypeOK
  <2>7. TypeOK'
    BY <2>1, <2>4, <2>5, <2>6 DEF TypeOK, MasterStep, cmdVars, resVars, workerVars
  <2>8. \A g \in Interactions : \A k \in 1..Len(edits[g]) : edits[g][k] \notin Body
    BY <2>1 DEF BatchInHand
  <2>9. /\ edits'[h] = Append(edits[h], b)
        /\ \A g \in Interactions : g # h => edits'[g] = edits[g]
    BY <2>4, <2>5 DEF TypeOK
  <2>10. \A g \in Interactions : \A k \in 1..Len(edits'[g]) :
            edits'[g][k] \in Body => g = h /\ k = Len(edits[h]) + 1
    BY <2>6, <2>8, <2>9
  <2>11. BatchInHand'
    BY <2>1, <2>4, <2>10 DEF BatchInHand, workerVars
  <2>12. QED
    BY <2>7, <2>11
<1>9. CASE AckResult
  <2>1. Tail(mbatch) \in Seq(ResultMsg) /\ mpc = "ack"
    BY <1>0, <1>9, TailFacts DEF AckResult, BatchInHand
  <2>2. /\ mpc' = IF Tail(mbatch) = <<>> THEN "read" ELSE "entry"
        /\ mbatch' = Tail(mbatch)
        /\ resPel' = resPel \ {Arrived}
        /\ UNCHANGED <<routerVars, cmdVars, resGroup, resQueue, workerVars, faults, history>>
    BY <1>9 DEF AckResult
  <2>3. TypeOK'
    BY <2>1, <2>2 DEF TypeOK, MasterStep, routerVars, cmdVars, workerVars, history
  <2>4. BatchInHand'
    BY <2>1, <2>2 DEF BatchInHand, routerVars, workerVars
  <2>5. QED
    BY <2>3, <2>4
<1>10. CASE AckResultFails
  <2>1. TypeOK'
    BY <1>10, <1>0 DEF AckResultFails, Fault, TypeOK, MasterStep,
       routerVars, cmdVars, resVars, workerVars, history
  <2>2. mpc = "ack" /\ mpc' = "read" /\ UNCHANGED <<edits, wpc, wbatch>>
    BY <1>10 DEF AckResultFails, routerVars, workerVars
  <2>3. BatchInHand'
    BY <2>2 DEF BatchInHand
  <2>4. QED
    BY <2>1, <2>3
<1>11. CASE DropResultStream
  <2>1. /\ faults' = faults + 1
        /\ resGroup' = FALSE /\ resQueue' = <<>> /\ resPel' = {}
        /\ UNCHANGED <<routerVars, cmdVars, workerVars, masterVars,
                       asked, executed, answered, posts, handled>>
    BY <1>11 DEF DropResultStream, Fault
  <2>2. Elems(resQueue) \cup resPel \subseteq ResultMsg
    BY <1>0 DEF Elems, TypeOK
  <2>3. \A r \in ResultMsg : r.id \in Cmds
    BY DEF ResultMsg
  <2>4. {r.id : r \in Elems(resQueue) \cup resPel} \subseteq Cmds
    BY <2>2, <2>3
  <2>5. lost' \subseteq Cmds
    BY <1>11, <2>4 DEF DropResultStream, TypeOK
  <2>6. <<>> \in Seq(ResultMsg)
    OBVIOUS
  <2>7. TypeOK'
    <3>1. faults' \in Nat
      <4>1. faults \in Nat
        BY DEF TypeOK
      <4>2. QED
        BY <2>1, <4>1
    <3>2. resQueue' \in Seq(ResultMsg) /\ resPel' \subseteq ResultMsg
      BY <2>1, <2>6
    <3>3. QED
      BY <2>1, <2>5, <3>1, <3>2 DEF TypeOK, routerVars, cmdVars, workerVars, masterVars
  <2>8. BatchInHand'
    BY <1>0, <2>1 DEF BatchInHand, routerVars, workerVars, masterVars
  <2>9. QED
    BY <2>7, <2>8
<1>12. QED
  BY <1>1, <1>2, <1>3, <1>4, <1>5, <1>6, <1>7, <1>8, <1>9, <1>10, <1>11 DEF MasterNext

\* So does the publication of a scheduled command.
LEMMA TypeInvJob ==
    ASSUME TypeInv, NEW j \in Jobs, PublishJob(j)
    PROVE  TypeInv'
<1>1. j \in Cmds /\ TenantOf[j] \in Workers
  BY CommandAssumption DEF Cmds, Workers
<1>2. TypeOK'
  <2>1. TypeOK /\ XAddCmd(TenantOf[j], j)
    BY DEF PublishJob, TypeInv
  <2>2. /\ cmdGroup' \in [Workers -> BOOLEAN]
        /\ cmdQueue' \in [Workers -> Seq(Cmds)]
        /\ cmdPel' \in [Workers -> SUBSET Cmds]
        /\ lost' \subseteq Cmds
    BY <1>1, <2>1, XAddCmdType
  <2>3. QED
    BY <1>1, <2>1, <2>2 DEF PublishJob, TypeOK, RouteStep, resVars, workerVars, masterVars
<1>3. BatchInHand'
  BY DEF PublishJob, TypeInv, BatchInHand, workerVars, masterVars
<1>4. QED
  BY <1>2, <1>3 DEF TypeInv

LEMMA TypeInvStep == TypeInv /\ [Next]_vars => TypeInv'
<1> SUFFICES ASSUME TypeInv, [Next]_vars PROVE TypeInv'
  OBVIOUS
<1>1. CASE UNCHANGED vars
  BY <1>1 DEF TypeInv, TypeOK, BatchInHand, vars,
     routerVars, cmdVars, resVars, workerVars, masterVars, history
<1>2. CASE Next
  BY <1>2, TypeInvRouter, TypeInvWorker, TypeInvMaster, TypeInvJob DEF Next
<1>3. QED
  BY <1>1, <1>2

\* The invariant that every later proof starts from.
LEMMA TypeInvAlways == Spec => []TypeInv
BY TypeInvInit, TypeInvStep, PTL DEF Spec

\* Type correctness of the command path: in particular a worker that holds an
\* entry has one, and only the result loop awaits a result's editReply.
THEOREM TypeCorrect == Spec => []TypeOK
<1>1. TypeInv => TypeOK
  BY DEF TypeInv
<1>2. QED
  BY <1>1, TypeInvAlways, PTL
-----------------------------------------------------------------------------
(***************************************************************************)
(* Safety of the command path, on top of the type invariant.  First        *)
(* argument: no acknowledgement makes a command vanish.  An entry leaves   *)
(* a PEL only by the XACK of the loop that holds it, and SafeToAck says    *)
(* that whatever that loop acknowledges is already in another stream, was  *)
(* handled, or was recorded as lost.                                       *)
(***************************************************************************)
Kept == TypeInv /\ SafeToAck /\ NothingVanishes

\* A step that takes nothing out of a stream keeps every command traceable, if
\* what a loop holds for its next acknowledgement stays what it was.
LEMMA KeptByGrowth ==
    ASSUME Kept,
           \A c \in Cmds : Settled(c) => Settled(c)',
           \A c \in Cmds : \A w \in Workers :
              InCmdStream(w, c) => \/ Settled(c)'
                                   \/ InCmdStream(w, c)'
                                   \/ InCmdStream(Global, c)',
           \A c \in asked' : c \in asked \/ c \in lost' \/ \E w \in Workers : InCmdStream(w, c)',
           \A w \in Workers : wpc'[w] = "sent" =>
              Settled(Current(w))' \/ (wpc[w] = "sent" /\ wbatch'[w] = wbatch[w]),
           \A w \in Workers : wpc'[w] = "forwarded" =>
              \/ Settled(Current(w))'
              \/ InCmdStream(Global, Current(w))'
              \/ (wpc[w] = "forwarded" /\ wbatch'[w] = wbatch[w]),
           mpc' \in {"editing", "ack"} =>
              \/ Arrived.id' \in handled'
              \/ (mpc \in {"editing", "ack"} /\ mbatch' = mbatch /\ handled \subseteq handled')
    PROVE  SafeToAck' /\ NothingVanishes'
<1> USE DEF Kept
<1>0. Global \in Workers
  BY DEF Workers
<1>1. ASSUME NEW w \in Workers, wpc[w] \in {"sent", "forwarded"}
      PROVE  Current(w) \in Cmds
  BY <1>1, TailFacts DEF TypeInv, TypeOK, BatchInHand, Current
<1>2. ASSUME NEW w \in Workers, wpc'[w] = "sent"
      PROVE  Settled(Current(w))'
  <2>1. CASE wpc[w] = "sent" /\ wbatch'[w] = wbatch[w]
    <3>1. Current(w) \in Cmds /\ Settled(Current(w)) /\ Current(w)' = Current(w)
      BY <1>1, <2>1 DEF SafeToAck, Current
    <3>2. QED
      BY <3>1
  <2>2. QED
    BY <1>2, <2>1
<1>3. ASSUME NEW w \in Workers, wpc'[w] = "forwarded"
      PROVE  Settled(Current(w))' \/ InCmdStream(Global, Current(w))'
  <2>1. CASE wpc[w] = "forwarded" /\ wbatch'[w] = wbatch[w]
    <3>1. Current(w) \in Cmds /\ Current(w)' = Current(w)
      BY <1>1, <2>1 DEF Current
    <3>2. Settled(Current(w)) \/ InCmdStream(Global, Current(w))
      BY <2>1 DEF SafeToAck
    <3>3. QED
      BY <1>0, <3>1, <3>2
  <2>2. QED
    BY <1>3, <2>1
<1>4. mpc' \in {"editing", "ack"} => Arrived.id' \in handled'
  BY DEF SafeToAck, Arrived
<1>5. ASSUME NEW c \in asked, c \in Cmds
      PROVE  Settled(c)' \/ \E w \in Workers : InCmdStream(w, c)'
  <2>1. Settled(c) \/ \E w \in Workers : InCmdStream(w, c)
    BY DEF NothingVanishes, Settled
  <2>2. QED
    BY <1>0, <1>5, <2>1
<1>6. asked \subseteq Cmds
  BY DEF TypeInv, TypeOK
<1>7. NothingVanishes'
  BY <1>5, <1>6 DEF NothingVanishes, Settled
<1>8. QED
  BY <1>2, <1>3, <1>4, <1>7 DEF SafeToAck

\* A step that leaves the streams alone and hands no new entry to a loop.
LEMMA KeptQuietly ==
    ASSUME Kept,
           UNCHANGED <<cmdQueue, cmdPel, resQueue, resPel, asked>>,
           handled \subseteq handled', lost \subseteq lost',
           \A w \in Workers : wpc'[w] \in {"sent", "forwarded"} =>
              wpc'[w] = wpc[w] /\ wbatch'[w] = wbatch[w],
           mpc' \in {"editing", "ack"} =>
              \/ Arrived.id' \in handled'
              \/ (mpc \in {"editing", "ack"} /\ mbatch' = mbatch)
    PROVE  SafeToAck' /\ NothingVanishes'
<1>1. \A c \in Cmds : Settled(c) => Settled(c)'
  BY DEF Settled, InResultStream
<1>2. \A c \in Cmds : \A w \in Workers : InCmdStream(w, c) => InCmdStream(w, c)'
  BY DEF InCmdStream
<1>3. QED
  BY <1>1, <1>2, KeptByGrowth

\* The master ending never strands a result: it only forgets its batch.
LEMMA KeptByExit ==
    ASSUME Kept, NEW killed, MasterExit(killed)
    PROVE  SafeToAck' /\ NothingVanishes'
BY KeptQuietly DEF MasterExit, cmdVars, resVars, workerVars, history

\* Publishing a command: it is in its stream, or recorded as lost.
LEMMA KeptByXAddCmd ==
    ASSUME Kept, NEW w \in Workers, NEW c \in Cmds, XAddCmd(w, c),
           asked' = asked \/ asked' = asked \cup {c},
           UNCHANGED <<resVars, wbatch, masterVars, handled>>,
           \A v \in Workers : wpc'[v] = "sent" => wpc[v] = "sent",
           \A v \in Workers : wpc'[v] = "forwarded" =>
              wpc[v] = "forwarded" \/ (w = Global /\ Current(v) = c)
    PROVE  SafeToAck' /\ NothingVanishes'
<1>1. TypeOK
  BY DEF Kept, TypeInv
<1>2. lost \subseteq lost'
  BY DEF XAddCmd
<1>3. \A d \in Cmds : Settled(d) => Settled(d)'
  BY <1>2 DEF Settled, InResultStream, resVars
<1>4. cmdPel' = cmdPel
  BY DEF XAddCmd
<1>5. \A v \in Workers : Elems(cmdQueue[v]) \subseteq Elems(cmdQueue'[v])
  <2> TAKE v \in Workers
  <2>1. cmdQueue[v] \in Seq(Cmds)
    BY <1>1 DEF TypeOK
  <2>2. CASE cmdQueue'[v] = cmdQueue[v]
    BY <2>2
  <2>3. CASE cmdQueue'[v] = Append(cmdQueue[v], c)
    BY <2>1, <2>3, AppendFacts
  <2>4. QED
    BY <1>1, <2>2, <2>3 DEF XAddCmd, TypeOK
<1>6. \A d \in Cmds : \A v \in Workers : InCmdStream(v, d) => InCmdStream(v, d)'
  BY <1>4, <1>5 DEF InCmdStream
<1>7. c \in lost' \/ InCmdStream(w, c)'
  <2>1. cmdQueue[w] \in Seq(Cmds)
    BY <1>1 DEF TypeOK
  <2>2. CASE cmdGroup[w]
    <3>1. cmdQueue'[w] = Append(cmdQueue[w], c)
      BY <1>1, <2>2 DEF XAddCmd, TypeOK
    <3>2. c \in Elems(cmdQueue'[w])
      BY <2>1, <3>1, AppendFacts
    <3>3. QED
      BY <3>2 DEF InCmdStream
  <2>3. CASE ~cmdGroup[w]
    BY <2>3 DEF XAddCmd
  <2>4. QED
    BY <2>2, <2>3
<1>8. \A d \in asked' : d \in asked \/ d \in lost' \/ \E v \in Workers : InCmdStream(v, d)'
  BY <1>7
<1>9. \A v \in Workers : wpc'[v] = "forwarded" =>
         \/ Settled(Current(v))'
         \/ InCmdStream(Global, Current(v))'
         \/ (wpc[v] = "forwarded" /\ wbatch'[v] = wbatch[v])
  <2> SUFFICES ASSUME NEW v \in Workers, wpc'[v] = "forwarded", w = Global, Current(v) = c
               PROVE  Settled(Current(v))' \/ InCmdStream(Global, Current(v))'
    OBVIOUS
  <2>1. Current(v)' = c
    BY DEF Current
  <2>2. c \in lost' => Settled(c)'
    BY DEF Settled
  <2>3. QED
    BY <1>7, <2>1, <2>2
<1>10. QED
  BY <1>3, <1>6, <1>8, <1>9, KeptByGrowth DEF masterVars, Arrived

LEMMA KeptByRouter ==
    ASSUME Kept, NEW i \in Interactions, RouterNext(i)
    PROVE  SafeToAck' /\ NothingVanishes'
<1>1. CASE Receive(i)
  BY <1>1, KeptQuietly DEF Receive, cmdVars, resVars, workerVars, masterVars, history
<1>2. CASE DeferFails(i)
  BY <1>2, KeptByExit DEF DeferFails
<1>3. CASE RefuseChannel(i)
  BY <1>3, KeptQuietly DEF RefuseChannel, cmdVars, resVars, workerVars, masterVars, history
<1>4. CASE Publish(i)
  <2>1. i \in Cmds /\ TenantOf[i] \in Workers
    BY <1>4, CommandAssumption DEF Publish, Cmds, Workers
  <2>2. QED
    BY <1>4, <2>1, KeptByXAddCmd DEF Publish, workerVars
<1>5. CASE PublishFails(i)
  BY <1>5, KeptQuietly DEF PublishFails, cmdVars, resVars, workerVars, masterVars, history
<1>6. CASE Register(i)
  BY <1>6, KeptQuietly DEF Register, cmdVars, resVars, workerVars, masterVars, history
<1>7. CASE EditApplied(i) \/ AnswerFails(i)
  <2>1. /\ UNCHANGED <<cmdQueue, cmdPel, resQueue, resPel, asked, handled, lost>>
        /\ UNCHANGED <<wpc, wbatch, mbatch>>
        /\ edits[i] # <<>>
        /\ mpc' = mpc \/ Head(edits[i]) \in Body
    BY <1>7 DEF EditApplied, AnswerFails, cmdVars, resVars, workerVars, history
  <2>2. edits[i] \in Seq(Notice \cup Body)
    BY DEF Kept, TypeInv, TypeOK
  <2>3. Len(edits[i]) \in Nat \ {0} /\ Head(edits[i]) = edits[i][1]
    BY <2>1, <2>2
  <2>4. 1 \in 1..Len(edits[i])
    BY <2>3
  <2>5. Head(edits[i]) \in Body => mpc = "editing"
    BY <2>3, <2>4 DEF Kept, TypeInv, BatchInHand
  <2>6. QED
    BY <2>1, <2>5, KeptQuietly
<1>8. CASE PhraseFails(i)
  BY <1>8, KeptQuietly DEF PhraseFails, cmdVars, resVars, workerVars, masterVars, history
<1>9. CASE ClosingFails(i)
  BY <1>9, KeptByExit DEF ClosingFails
<1>10. QED
  BY <1>1, <1>2, <1>3, <1>4, <1>5, <1>6, <1>7, <1>8, <1>9 DEF RouterNext

\* Taking entries from a command stream moves them into the PEL; only an XACK
\* and the deletion of the key take one out.
LEMMA KeptByWorker ==
    ASSUME Kept, NEW w \in Workers, WorkerNext(w)
    PROVE  SafeToAck' /\ NothingVanishes'
<1>0. TypeOK /\ BatchInHand /\ SafeToAck /\ Global \in Workers
  BY DEF Kept, TypeInv, Workers
<1>1. CASE BootWorker(w)
  BY <1>1, <1>0, KeptQuietly DEF BootWorker, Step, TypeOK, resVars, masterVars, history
<1>2. CASE ReadCmds(w)
  <2> DEFINE q == cmdQueue[w]
             batch == SubSeq(q, 1, BatchLen(q))
             rest == SubSeq(q, BatchLen(q) + 1, Len(q))
  <2>1. q \in Seq(Cmds) /\ q # <<>>
    BY <1>0, <1>2 DEF TypeOK, ReadCmds
  <2>2. Elems(batch) \cup Elems(rest) = Elems(q)
    BY <2>1, ReadFacts
  <2>3. /\ cmdQueue' = [cmdQueue EXCEPT ![w] = rest]
        /\ cmdPel' = [cmdPel EXCEPT ![w] = @ \cup Elems(batch)]
        /\ wbatch' = [wbatch EXCEPT ![w] = batch]
        /\ wpc' = [wpc EXCEPT ![w] = "entry"]
        /\ UNCHANGED <<resVars, masterVars, history>>
    BY <1>2 DEF ReadCmds, Step
  <2> HIDE DEF batch, rest
  <2>4. \A c \in Cmds : \A v \in Workers : InCmdStream(v, c) => InCmdStream(v, c)'
    BY <1>0, <2>2, <2>3 DEF InCmdStream, TypeOK
  <2>5. \A c \in Cmds : Settled(c) => Settled(c)'
    BY <2>3 DEF Settled, InResultStream, resVars, history
  <2>6. \A v \in Workers : wpc'[v] \in {"sent", "forwarded"} =>
           wpc'[v] = wpc[v] /\ wbatch'[v] = wbatch[v]
    BY <1>0, <2>3 DEF TypeOK
  <2>7. QED
    BY <2>3, <2>4, <2>5, <2>6, KeptByGrowth DEF masterVars, history
<1>3. CASE RecreateCmdGroup(w)
  BY <1>3, KeptQuietly DEF RecreateCmdGroup, resVars, workerVars, masterVars, history
<1>4. CASE Forward(w)
  <2>1. wbatch[w] # <<>>
    BY <1>0, <1>4 DEF Forward, BatchInHand
  <2>2. Current(w) \in Cmds
    BY <1>0, <2>1, TailFacts DEF TypeOK, Current
  <2>3. /\ XAddCmd(Global, Current(w))
        /\ wpc' = [wpc EXCEPT ![w] = "forwarded"]
        /\ UNCHANGED <<resVars, wbatch, masterVars, handled, asked>>
    BY <1>4 DEF Forward, Step
  <2>4. \A v \in Workers : wpc'[v] = "sent" => wpc[v] = "sent"
    BY <1>0, <2>3 DEF TypeOK
  <2>5. \A v \in Workers : wpc'[v] = "forwarded" =>
           wpc[v] = "forwarded" \/ Current(v) = Current(w)
    BY <1>0, <2>3 DEF TypeOK
  <2>6. QED
    BY <1>0, <2>2, <2>3, <2>4, <2>5, KeptByXAddCmd
<1>5. CASE ForwardFails(w)
  BY <1>5, <1>0, KeptQuietly DEF ForwardFails, Step, TypeOK, cmdVars, resVars, masterVars, history
<1>6. CASE Execute(w)
  BY <1>6, <1>0, KeptQuietly DEF Execute, Step, TypeOK, cmdVars, resVars, masterVars
<1>7. CASE RejectUnknown(w)
  BY <1>7, <1>0, KeptQuietly DEF RejectUnknown, Step, TypeOK, cmdVars, resVars, masterVars, history
<1>8. CASE PublishResult(w)
  <2>1. wbatch[w] # <<>>
    BY <1>0, <1>8 DEF PublishResult, BatchInHand
  <2>2. Current(w) \in Cmds
    BY <1>0, <2>1, TailFacts DEF TypeOK, Current
  <2>3. [id |-> Current(w), body |-> IF wpc[w] = "routeErr" THEN "routeErr" ELSE wout[w]]
           \in ResultMsg
    BY <1>0, <2>2 DEF TypeOK, ResultMsg, Body
  <2>4. PICK r \in ResultMsg : r.id = Current(w) /\ XAddResult(r)
    BY <1>8, <2>3 DEF PublishResult
  <2>5. /\ wpc' = [wpc EXCEPT ![w] = "sent"]
        /\ UNCHANGED <<cmdVars, wbatch, masterVars, asked, handled>>
    BY <1>8 DEF PublishResult, Step
  <2>6. resQueue \in Seq(ResultMsg)
    BY <1>0 DEF TypeOK
  <2>7. Elems(resQueue) \subseteq Elems(resQueue') /\ resPel' = resPel /\ lost \subseteq lost'
    BY <2>4, <2>6, AppendFacts DEF XAddResult
  <2>8. r.id \in lost' \/ r \in Elems(resQueue')
    BY <2>4, <2>6, AppendFacts DEF XAddResult
  <2>9. \A c \in Cmds : Settled(c) => Settled(c)'
    BY <2>5, <2>7 DEF Settled, InResultStream
  <2>10. \A c \in Cmds : \A v \in Workers : InCmdStream(v, c) => InCmdStream(v, c)'
    BY <2>5 DEF InCmdStream, cmdVars
  <2>11. Settled(Current(w))'
    <3>1. Current(w)' = r.id
      BY <2>4, <2>5 DEF Current
    <3>2. QED
      BY <2>8, <3>1 DEF Settled, InResultStream
  <2>12. \A v \in Workers : wpc'[v] = "sent" =>
            Settled(Current(v))' \/ (wpc[v] = "sent" /\ wbatch'[v] = wbatch[v])
    BY <1>0, <2>5, <2>11 DEF TypeOK
  <2>13. \A v \in Workers : wpc'[v] = "forwarded" =>
            wpc[v] = "forwarded" /\ wbatch'[v] = wbatch[v]
    BY <1>0, <2>5 DEF TypeOK
  <2>14. QED
    BY <2>5, <2>9, <2>10, <2>12, <2>13, KeptByGrowth DEF masterVars
<1>9. CASE AckCmd(w)
  <2>1. /\ wpc[w] \in {"forwarded", "sent"}
        /\ cmdPel' = [cmdPel EXCEPT ![w] = @ \ {Current(w)}]
        /\ UNCHANGED <<cmdQueue, resVars, masterVars, history>>
        /\ \A v \in Workers : wpc'[v] \in {"sent", "forwarded"} =>
              wpc'[v] = wpc[v] /\ wbatch'[v] = wbatch[v]
    BY <1>0, <1>9 DEF AckCmd, NextEntry, Step, TypeOK
  <2>2. \A c \in Cmds : Settled(c) => Settled(c)'
    BY <2>1 DEF Settled, InResultStream, resVars, history
  <2>3. \A c \in Cmds : \A v \in Workers :
           InCmdStream(v, c) => InCmdStream(v, c)' \/ (v = w /\ c = Current(w))
    BY <1>0, <2>1 DEF InCmdStream, TypeOK
  <2>4. Settled(Current(w)) \/ (w # Global /\ InCmdStream(Global, Current(w)))
    BY <1>0, <2>1 DEF SafeToAck, BatchInHand
  <2>5. \A c \in Cmds : w # Global /\ InCmdStream(Global, c) => InCmdStream(Global, c)'
    BY <1>0, <2>1 DEF InCmdStream, TypeOK
  <2>6. \A c \in Cmds : \A v \in Workers :
           InCmdStream(v, c) => Settled(c)' \/ InCmdStream(v, c)' \/ InCmdStream(Global, c)'
    BY <2>2, <2>3, <2>4, <2>5
  <2>7. QED
    BY <2>1, <2>2, <2>6, KeptByGrowth DEF masterVars, history
<1>10. CASE AbortBatch(w) \/ CrashWorker(w)
  BY <1>10, <1>0, KeptQuietly DEF AbortBatch, CrashWorker, Step, TypeOK,
     cmdVars, resVars, masterVars, history
<1>11. CASE DropCmdStream(w)
  <2>1. /\ cmdQueue' = [cmdQueue EXCEPT ![w] = <<>>]
        /\ cmdPel' = [cmdPel EXCEPT ![w] = {}]
        /\ lost' = lost \cup Elems(cmdQueue[w]) \cup cmdPel[w]
        /\ UNCHANGED <<resVars, workerVars, masterVars, asked, handled>>
    BY <1>11 DEF DropCmdStream
  <2>2. \A c \in Cmds : Settled(c) => Settled(c)'
    BY <2>1 DEF Settled, InResultStream, resVars
  <2>3. \A c \in Cmds : \A v \in Workers : InCmdStream(v, c) => InCmdStream(v, c)' \/ c \in lost'
    BY <1>0, <2>1 DEF InCmdStream, TypeOK
  <2>4. \A c \in Cmds : \A v \in Workers : InCmdStream(v, c) => InCmdStream(v, c)' \/ Settled(c)'
    BY <2>3 DEF Settled
  <2>5. QED
    BY <2>1, <2>2, <2>4, KeptByGrowth DEF workerVars, masterVars
<1>12. QED
  BY <1>1, <1>2, <1>3, <1>4, <1>5, <1>6, <1>7, <1>8, <1>9, <1>10, <1>11 DEF WorkerNext

\* A result leaves the PEL of bonsai:result only after handleResult saw it.
LEMMA KeptByMaster ==
    ASSUME Kept, MasterNext
    PROVE  SafeToAck' /\ NothingVanishes'
<1>0. TypeOK /\ BatchInHand /\ SafeToAck
  BY DEF Kept, TypeInv
<1>1. CASE BootMaster
  BY <1>1, KeptQuietly DEF BootMaster, cmdVars, resVars, workerVars, history
<1>2. CASE CrashMaster
  BY <1>2, KeptByExit DEF CrashMaster
<1>3. CASE EnsureResultGroup
  BY <1>3, KeptQuietly DEF EnsureResultGroup, cmdVars, workerVars, history
<1>4. CASE ResultLoopDies
  BY <1>4, KeptQuietly DEF ResultLoopDies, cmdVars, resVars, workerVars, history
<1>5. CASE ReadResults
  <2> DEFINE batch == SubSeq(resQueue, 1, BatchLen(resQueue))
             rest == SubSeq(resQueue, BatchLen(resQueue) + 1, Len(resQueue))
  <2>1. resQueue \in Seq(ResultMsg) /\ resQueue # <<>>
    BY <1>0, <1>5 DEF TypeOK, ReadResults
  <2>2. Elems(batch) \cup Elems(rest) = Elems(resQueue)
    BY <2>1, ReadFacts
  <2>3. /\ resQueue' = rest
        /\ resPel' = resPel \cup Elems(batch)
        /\ mpc' = "entry"
        /\ UNCHANGED <<cmdVars, workerVars, history>>
    BY <1>5 DEF ReadResults
  <2> HIDE DEF batch, rest
  <2>4. \A c \in Cmds : Settled(c) => Settled(c)'
    BY <2>2, <2>3 DEF Settled, InResultStream, history
  <2>5. \A c \in Cmds : \A w \in Workers : InCmdStream(w, c) => InCmdStream(w, c)'
    BY <2>3 DEF InCmdStream, cmdVars
  <2>6. QED
    BY <2>3, <2>4, <2>5, KeptByGrowth DEF workerVars, history
<1>6. CASE Broadcast
  BY <1>6, KeptQuietly DEF Broadcast, cmdVars, resVars, workerVars
<1>7. CASE NoPending
  <2>1. lost \subseteq lost' /\ handled \subseteq handled' /\ Arrived.id \in handled'
    BY <1>7 DEF NoPending
  <2>2. Arrived.id' = Arrived.id
    BY <1>7 DEF NoPending, Arrived
  <2>3. QED
    BY <1>7, <2>1, <2>2, KeptQuietly DEF NoPending, cmdVars, resVars, workerVars
<1>8. CASE Deliver
  <2>1. handled \subseteq handled' /\ Arrived.id \in handled'
    BY <1>8 DEF Deliver
  <2>2. Arrived.id' = Arrived.id
    BY <1>8 DEF Deliver, Arrived
  <2>3. QED
    BY <1>8, <2>1, <2>2, KeptQuietly DEF Deliver, cmdVars, resVars, workerVars
<1>9. CASE AckResult
  <2>1. /\ resPel' = resPel \ {Arrived}
        /\ UNCHANGED <<cmdVars, resQueue, workerVars, history>>
        /\ mpc' \in {"read", "entry"}
    BY <1>9 DEF AckResult
  <2>2. Arrived.id \in handled
    BY <1>0, <1>9 DEF AckResult, SafeToAck
  <2>3. \A c \in Cmds : InResultStream(c) => InResultStream(c)' \/ c = Arrived.id
    BY <2>1 DEF InResultStream
  <2>4. \A c \in Cmds : Settled(c) => Settled(c)'
    BY <2>1, <2>2, <2>3 DEF Settled, history
  <2>5. \A c \in Cmds : \A w \in Workers : InCmdStream(w, c) => InCmdStream(w, c)'
    BY <2>1 DEF InCmdStream, cmdVars
  <2>6. QED
    BY <2>1, <2>4, <2>5, KeptByGrowth DEF workerVars, history
<1>10. CASE AckResultFails
  BY <1>10, KeptQuietly DEF AckResultFails, cmdVars, resVars, workerVars, history
<1>11. CASE DropResultStream
  <2>1. /\ lost' = lost \cup {r.id : r \in Elems(resQueue) \cup resPel}
        /\ UNCHANGED <<cmdVars, workerVars, masterVars, asked, handled>>
    BY <1>11 DEF DropResultStream
  <2>2. \A c \in Cmds : Settled(c) => c \in handled' \cup lost'
    BY <2>1 DEF Settled, InResultStream
  <2>3. \A c \in Cmds : Settled(c) => Settled(c)'
    BY <2>2 DEF Settled
  <2>4. \A c \in Cmds : \A w \in Workers : InCmdStream(w, c) => InCmdStream(w, c)'
    BY <2>1 DEF InCmdStream, cmdVars
  <2>5. QED
    BY <2>1, <2>3, <2>4, KeptByGrowth DEF workerVars, masterVars
<1>12. QED
  BY <1>1, <1>2, <1>3, <1>4, <1>5, <1>6, <1>7, <1>8, <1>9, <1>10, <1>11 DEF MasterNext

LEMMA KeptInit == Init => Kept
<1> SUFFICES ASSUME Init PROVE SafeToAck /\ NothingVanishes
  BY TypeInvInit DEF Kept
<1>1. SafeToAck
  BY DEF Init, SafeToAck
<1>2. NothingVanishes
  BY DEF Init, NothingVanishes
<1>3. QED
  BY <1>1, <1>2

LEMMA KeptStep == Kept /\ [Next]_vars => Kept'
<1> SUFFICES ASSUME Kept, [Next]_vars PROVE SafeToAck' /\ NothingVanishes'
  BY TypeInvStep DEF Kept
<1>1. CASE UNCHANGED vars
  BY <1>1, KeptQuietly DEF vars, routerVars, cmdVars, resVars, workerVars, masterVars, history
<1>2. ASSUME NEW j \in Jobs, PublishJob(j) PROVE SafeToAck' /\ NothingVanishes'
  <2>1. j \in Cmds /\ TenantOf[j] \in Workers
    BY CommandAssumption DEF Cmds, Workers
  <2>2. QED
    BY <1>2, <2>1, KeptByXAddCmd DEF PublishJob, workerVars
<1>3. QED
  BY <1>1, <1>2, KeptByRouter, KeptByWorker, KeptByMaster DEF Next

\* No acknowledgement loses a command: whatever crashes, Redis errors and stream
\* deletions happen in the router, the workers and the result loop, a published
\* command is in a stream, or its result is, or its result reached the master,
\* or the step that threw it away is one of the three that say so.
THEOREM NoCommandVanishes == Spec => []NothingVanishes
<1>1. Spec => []Kept
  BY KeptInit, KeptStep, PTL DEF Spec
<1>2. Kept => NothingVanishes
  BY DEF Kept
<1>3. QED
  BY <1>1, <1>2, PTL

-----------------------------------------------------------------------------
(***************************************************************************)
(* Second argument: no command is executed twice.  The entries a worker    *)
(* may still execute are the undelivered ones and the rest of its batch;   *)
(* OneHolder says that a command is among those of at most one worker, at  *)
(* most once, and of none after it was executed.                           *)
(***************************************************************************)
Held == TypeInv /\ OneHolder /\ AtMostOneExecution

Waiting == {"idle", "accepted"}

\* A step that gives no worker a new entry.
LEMMA HeldByShrinking ==
    ASSUME Held, UNCHANGED <<asked, executed>>,
           \A c \in Cmds : route'[c] \in Waiting => route[c] \in Waiting,
           \A w \in Workers : /\ Unique(cmdQueue'[w])
                              /\ Unique(wbatch'[w])
                              /\ Elems(cmdQueue'[w]) \cap BatchTodo(w)' = {}
                              /\ Todo(w)' \subseteq Todo(w)
    PROVE  OneHolder' /\ AtMostOneExecution'
<1>1. Tenants \subseteq Workers /\ Global \in Workers
  BY DEF Workers
<1>2. OneHolder /\ AtMostOneExecution
  BY DEF Held
<1>3. AtMostOneExecution'
  BY <1>2 DEF AtMostOneExecution
<1>4. \A w \in Tenants : \A c \in Todo(w)' : w = TenantOf[c] /\ c \notin Todo(Global)'
  BY <1>1, <1>2 DEF OneHolder
<1>5. \A w \in Workers : Todo(w)' \subseteq asked'
  BY <1>2 DEF OneHolder
<1>6. \A c \in Cmds : executed'[c] > 0 => c \in asked' /\ \A w \in Workers : c \notin Todo(w)'
  BY <1>2 DEF OneHolder
<1>7. \A c \in Cmds : route'[c] \in {"idle", "accepted"} => c \notin asked'
  BY <1>2 DEF OneHolder, Waiting
<1>8. QED
  BY <1>3, <1>4, <1>5, <1>6, <1>7 DEF OneHolder

\* In particular one that leaves queues and batches alone; a worker that goes
\* past an entry has one less to execute.
LEMMA HeldInPlace ==
    ASSUME Held, UNCHANGED <<asked, executed, cmdQueue, wbatch>>,
           \A c \in Cmds : route'[c] \in Waiting => route[c] \in Waiting,
           \A w \in Workers : wpc'[w] = "entry" => wpc[w] = "entry"
    PROVE  OneHolder' /\ AtMostOneExecution'
<1>1. TypeOK /\ BatchInHand /\ OneHolder
  BY DEF Held, TypeInv
<1>2. ASSUME NEW w \in Workers
      PROVE  /\ BatchTodo(w)' \subseteq BatchTodo(w)
             /\ Unique(cmdQueue'[w])
             /\ Unique(wbatch'[w])
             /\ Elems(cmdQueue'[w]) \cap BatchTodo(w)' = {}
             /\ Todo(w)' \subseteq Todo(w)
  <2>1. BatchTodo(w)' \subseteq BatchTodo(w)
    <3>1. CASE wpc'[w] = "entry"
      BY <1>2, <3>1 DEF BatchTodo
    <3>2. CASE wbatch[w] = <<>>
      BY <1>1, <1>2, <3>2 DEF BatchTodo, BatchInHand
    <3>3. CASE wpc'[w] # "entry" /\ wbatch[w] # <<>>
      <4>1. wbatch[w] \in Seq(Cmds)
        BY <1>1 DEF TypeOK
      <4>2. Elems(Tail(wbatch[w])) \subseteq Elems(wbatch[w])
        BY <3>3, <4>1, TailFacts
      <4>3. QED
        BY <3>3, <4>2 DEF BatchTodo
    <3>4. QED
      BY <3>1, <3>2, <3>3
  <2>2. Unique(cmdQueue[w]) /\ Unique(wbatch[w]) /\ Elems(cmdQueue[w]) \cap BatchTodo(w) = {}
    BY <1>1 DEF OneHolder
  <2>3. QED
    BY <2>1, <2>2 DEF Todo
<1>3. QED
  BY <1>2, HeldByShrinking

LEMMA HeldByExit ==
    ASSUME Held, NEW killed, MasterExit(killed)
    PROVE  OneHolder' /\ AtMostOneExecution'
<1>1. \A c \in Cmds : route'[c] \in Waiting => route[c] \in Waiting
  BY DEF MasterExit, Waiting
<1>2. QED
  BY <1>1, HeldInPlace DEF MasterExit, cmdVars, workerVars, history

\* XADD gives the command to the worker of the stream and to nobody else.
LEMMA XAddEntries ==
    ASSUME TypeOK, NEW w \in Workers, NEW c \in Cmds, XAddCmd(w, c),
           c \notin Elems(cmdQueue[w]),
           \A v \in Workers : Unique(cmdQueue[v])
    PROVE  \A v \in Workers :
              /\ Unique(cmdQueue'[v])
              /\ Elems(cmdQueue'[v]) \subseteq Elems(cmdQueue[v]) \cup {c}
              /\ v # w => cmdQueue'[v] = cmdQueue[v]
<1> TAKE v \in Workers
<1>1. cmdQueue[v] \in Seq(Cmds)
  BY DEF TypeOK
<1>2. CASE cmdQueue'[v] = cmdQueue[v]
  BY <1>2
<1>3. CASE v = w /\ cmdQueue'[v] = Append(cmdQueue[v], c)
  BY <1>1, <1>3, AppendFacts
<1>4. QED
  BY <1>2, <1>3 DEF XAddCmd, TypeOK

LEMMA HeldByPublish ==
    ASSUME Held, NEW c \in Cmds, TenantOf[c] \in Tenants, XAddCmd(TenantOf[c], c),
           route[c] \in Waiting, route'[c] \notin Waiting,
           \A d \in Cmds : d # c => route'[d] = route[d],
           asked' = asked \cup {c}, UNCHANGED <<wpc, wbatch, executed>>
    PROVE  OneHolder' /\ AtMostOneExecution'
<1> DEFINE t == TenantOf[c]
<1>0. TypeOK /\ OneHolder /\ AtMostOneExecution
  BY DEF Held, TypeInv
<1>1. Tenants \subseteq Workers /\ Global \in Workers /\ Global \notin Tenants /\ t \in Workers
  BY CommandAssumption DEF Workers
<1>2. c \notin asked
  BY <1>0 DEF OneHolder, Waiting
<1>3. \A w \in Workers : c \notin Todo(w)
  BY <1>0, <1>2 DEF OneHolder
<1>4. \A w \in Workers : /\ Unique(cmdQueue'[w])
                         /\ Elems(cmdQueue'[w]) \subseteq Elems(cmdQueue[w]) \cup {c}
                         /\ w # t => cmdQueue'[w] = cmdQueue[w]
  BY <1>0, <1>1, <1>3, XAddEntries DEF OneHolder, Todo
<1>5. \A w \in Workers : BatchTodo(w)' = BatchTodo(w)
  BY DEF BatchTodo
<1>6. \A w \in Workers : /\ Todo(w)' \subseteq Todo(w) \cup {c}
                         /\ w # t => Todo(w)' = Todo(w)
  BY <1>4, <1>5 DEF Todo
<1>7. \A w \in Workers : Elems(cmdQueue'[w]) \cap BatchTodo(w)' = {}
  <2> TAKE w \in Workers
  <2>1. Elems(cmdQueue[w]) \cap BatchTodo(w) = {}
    BY <1>0 DEF OneHolder
  <2>2. QED
    BY <1>3, <1>4, <1>5, <2>1 DEF Todo
<1>8. \A w \in Workers : Todo(w)' \subseteq asked'
  BY <1>0, <1>6 DEF OneHolder
<1>9. \A w \in Tenants : \A d \in Todo(w)' : w = TenantOf[d] /\ d \notin Todo(Global)'
  <2> TAKE w \in Tenants
  <2> TAKE d \in Todo(w)'
  <2>1. CASE d = c
    BY <1>1, <1>3, <1>6, <2>1
  <2>2. CASE d # c
    <3>1. d \in Todo(w)
      BY <1>1, <1>6, <2>2
    <3>2. QED
      BY <1>0, <1>1, <1>6, <3>1 DEF OneHolder
  <2>3. QED
    BY <2>1, <2>2
<1>10. \A d \in Cmds : executed'[d] > 0 => d \in asked' /\ \A w \in Workers : d \notin Todo(w)'
  <2> SUFFICES ASSUME NEW d \in Cmds, executed[d] > 0
               PROVE  d \in asked' /\ \A w \in Workers : d \notin Todo(w)'
    OBVIOUS
  <2>1. d \in asked /\ \A w \in Workers : d \notin Todo(w)
    BY <1>0 DEF OneHolder
  <2>2. QED
    BY <1>2, <1>6, <2>1
<1>11. \A d \in Cmds : route'[d] \in {"idle", "accepted"} => d \notin asked'
  BY <1>0 DEF OneHolder, Waiting
<1>12. AtMostOneExecution'
  BY <1>0 DEF AtMostOneExecution
<1>13. QED
  BY <1>0, <1>4, <1>7, <1>8, <1>9, <1>10, <1>11, <1>12 DEF OneHolder

LEMMA HeldByRouter ==
    ASSUME Held, NEW i \in Interactions, RouterNext(i)
    PROVE  OneHolder' /\ AtMostOneExecution'
<1>0. TypeOK /\ i \in Cmds
  BY DEF Held, TypeInv, Cmds
<1>1. CASE DeferFails(i) \/ ClosingFails(i)
  BY <1>1, HeldByExit DEF DeferFails, ClosingFails
<1>2. CASE Publish(i)
  <2>1. TenantOf[i] \in Tenants
    BY <1>0, <1>2, CommandAssumption DEF Publish
  <2>2. /\ route[i] \in Waiting /\ route'[i] \notin Waiting
        /\ \A d \in Cmds : d # i => route'[d] = route[d]
    BY <1>0, <1>2 DEF Publish, TypeOK, Waiting
  <2>3. QED
    BY <1>0, <1>2, <2>1, <2>2, HeldByPublish DEF Publish, workerVars
<1>3. CASE \/ Receive(i) \/ RefuseChannel(i) \/ PublishFails(i) \/ Register(i)
           \/ EditApplied(i) \/ PhraseFails(i) \/ AnswerFails(i)
  <2>1. \A c \in Cmds : route'[c] \in Waiting => route[c] \in Waiting
    BY <1>0, <1>3 DEF Receive, RefuseChannel, PublishFails, Register, EditApplied,
       PhraseFails, AnswerFails, TypeOK, Waiting
  <2>2. UNCHANGED <<asked, executed, cmdQueue, wbatch, wpc>>
    BY <1>3 DEF Receive, RefuseChannel, PublishFails, Register, EditApplied,
       PhraseFails, AnswerFails, cmdVars, workerVars, history
  <2>3. QED
    BY <2>1, <2>2, HeldInPlace
<1>4. QED
  BY <1>1, <1>2, <1>3 DEF RouterNext

\* Executing takes the command from its only holder.
LEMMA HeldByExecute ==
    ASSUME Held, NEW w \in Workers, Execute(w)
    PROVE  OneHolder' /\ AtMostOneExecution'
<1> DEFINE c == Current(w)
<1>0. TypeOK /\ BatchInHand /\ OneHolder /\ AtMostOneExecution
  BY DEF Held, TypeInv
<1>1. Tenants \subseteq Workers /\ Global \in Workers /\ Workers = Tenants \cup {Global}
  BY DEF Workers
<1>2. wbatch[w] \in Seq(Cmds) /\ wbatch[w] # <<>> /\ wpc[w] = "entry"
  <2>1. wpc[w] = "entry"
    BY DEF Execute
  <2>2. QED
    BY <1>0, <2>1 DEF TypeOK, BatchInHand
<1>3. /\ c \in Cmds /\ c \in Elems(wbatch[w]) /\ c \notin Elems(Tail(wbatch[w]))
      /\ Elems(Tail(wbatch[w])) \subseteq Elems(wbatch[w])
  <2>1. Unique(wbatch[w])
    BY <1>0 DEF OneHolder
  <2>2. QED
    BY <1>2, <2>1, TailFacts DEF Current
<1>4. c \in BatchTodo(w) /\ c \in Todo(w)
  BY <1>2, <1>3 DEF BatchTodo, Todo
<1>5. \A v \in Workers : v # w => c \notin Todo(v)
  BY <1>0, <1>1, <1>4 DEF OneHolder
<1>6. c \in asked /\ executed[c] = 0
  <2>1. c \in asked /\ ~(executed[c] > 0)
    BY <1>0, <1>3, <1>4 DEF OneHolder
  <2>2. executed[c] \in Nat
    BY <1>0, <1>3 DEF TypeOK
  <2>3. QED
    BY <2>1, <2>2
<1>7. /\ UNCHANGED <<route, cmdQueue, wbatch, asked>>
      /\ executed' = [executed EXCEPT ![c] = @ + 1]
      /\ wpc' = [wpc EXCEPT ![w] = "executed"]
  BY DEF Execute, Step, routerVars, cmdVars
<1> HIDE DEF c
<1>8. \A v \in Workers : v # w => BatchTodo(v)' = BatchTodo(v)
  BY <1>0, <1>7 DEF BatchTodo, TypeOK
<1>9. BatchTodo(w)' = Elems(Tail(wbatch[w])) /\ BatchTodo(w) = Elems(wbatch[w])
  BY <1>0, <1>2, <1>7 DEF BatchTodo, TypeOK
<1>10. c \notin Todo(w)'
  BY <1>0, <1>3, <1>4, <1>7, <1>9 DEF OneHolder, Todo
<1>11. \A v \in Workers : Todo(v)' \subseteq Todo(v) /\ BatchTodo(v)' \subseteq BatchTodo(v)
  BY <1>3, <1>7, <1>8, <1>9 DEF Todo
<1>12. \A v \in Workers : c \notin Todo(v)'
  BY <1>5, <1>10, <1>11
<1>13. \A d \in Cmds : executed'[d] > 0 => executed[d] > 0 \/ d = c
  BY <1>0, <1>7 DEF TypeOK
<1>14. \A d \in Cmds : executed'[d] > 0 => d \in asked' /\ \A v \in Workers : d \notin Todo(v)'
  <2> SUFFICES ASSUME NEW d \in Cmds, executed'[d] > 0
               PROVE  d \in asked' /\ \A v \in Workers : d \notin Todo(v)'
    OBVIOUS
  <2>1. CASE d = c
    BY <1>6, <1>7, <1>12, <2>1
  <2>2. CASE d # c
    <3>1. executed[d] > 0
      BY <1>13, <2>2
    <3>2. d \in asked /\ \A v \in Workers : d \notin Todo(v)
      BY <1>0, <3>1 DEF OneHolder
    <3>3. QED
      BY <1>7, <1>11, <3>2
  <2>3. QED
    BY <2>1, <2>2
<1>15. AtMostOneExecution'
  <2>1. /\ executed'[c] = executed[c] + 1
        /\ \A d \in Cmds : d # c => executed'[d] = executed[d]
    BY <1>0, <1>3, <1>7 DEF TypeOK
  <2>2. executed'[c] = 1
    BY <1>6, <2>1
  <2>3. \A d \in Cmds : executed'[d] <= 1
    BY <1>0, <2>1, <2>2 DEF AtMostOneExecution
  <2>4. QED
    BY <2>3 DEF AtMostOneExecution
<1>16. \A v \in Workers : /\ Unique(cmdQueue'[v])
                          /\ Unique(wbatch'[v])
                          /\ Elems(cmdQueue'[v]) \cap BatchTodo(v)' = {}
  <2> TAKE v \in Workers
  <2>1. Unique(cmdQueue[v]) /\ Unique(wbatch[v]) /\ Elems(cmdQueue[v]) \cap BatchTodo(v) = {}
    BY <1>0 DEF OneHolder
  <2>2. QED
    BY <1>7, <1>11, <2>1
<1>17. \A v \in Workers : Todo(v)' \subseteq asked'
  BY <1>0, <1>7, <1>11 DEF OneHolder
<1>18. \A v \in Tenants : \A d \in Todo(v)' : v = TenantOf[d] /\ d \notin Todo(Global)'
  <2> TAKE v \in Tenants
  <2> TAKE d \in Todo(v)'
  <2>1. d \in Todo(v)
    BY <1>1, <1>11
  <2>2. QED
    BY <1>0, <1>1, <1>11, <2>1 DEF OneHolder
<1>19. \A d \in Cmds : route'[d] \in {"idle", "accepted"} => d \notin asked'
  BY <1>0, <1>7 DEF OneHolder
<1>20. QED
  BY <1>14, <1>15, <1>16, <1>17, <1>18, <1>19 DEF OneHolder

\* Forwarding hands the command over to the global worker.
LEMMA HeldByForward ==
    ASSUME Held, NEW w \in Workers, Forward(w)
    PROVE  OneHolder' /\ AtMostOneExecution'
<1> DEFINE c == Current(w)
<1>0. TypeOK /\ BatchInHand /\ OneHolder /\ AtMostOneExecution
  BY DEF Held, TypeInv
<1>1. /\ Tenants \subseteq Workers /\ Global \in Workers /\ Global \notin Tenants
      /\ w # Global /\ w \in Tenants
  BY CommandAssumption DEF Workers, Forward, MustForward
<1>2. wbatch[w] \in Seq(Cmds) /\ wbatch[w] # <<>> /\ wpc[w] = "entry"
  BY <1>0 DEF Forward, TypeOK, BatchInHand
<1>3. /\ c \in Cmds /\ c \in Elems(wbatch[w]) /\ c \notin Elems(Tail(wbatch[w]))
      /\ Elems(Tail(wbatch[w])) \subseteq Elems(wbatch[w])
  <2>1. Unique(wbatch[w])
    BY <1>0 DEF OneHolder
  <2>2. QED
    BY <1>2, <2>1, TailFacts DEF Current
<1>4. c \in BatchTodo(w) /\ c \in Todo(w)
  BY <1>2, <1>3 DEF BatchTodo, Todo
<1>5. /\ c \notin Todo(Global) /\ c \in asked /\ w = TenantOf[c]
      /\ \A v \in Tenants : v # w => c \notin Todo(v)
  BY <1>0, <1>1, <1>4 DEF OneHolder
<1>6. ~(executed[c] > 0)
  BY <1>0, <1>3, <1>4 DEF OneHolder
<1>7. /\ UNCHANGED <<route, wbatch, asked, executed>>
      /\ XAddCmd(Global, c)
      /\ wpc' = [wpc EXCEPT ![w] = "forwarded"]
  BY DEF Forward, Step, routerVars
<1> HIDE DEF c
<1>8. \A v \in Workers : /\ Unique(cmdQueue'[v])
                         /\ Elems(cmdQueue'[v]) \subseteq Elems(cmdQueue[v]) \cup {c}
                         /\ v # Global => cmdQueue'[v] = cmdQueue[v]
  BY <1>0, <1>1, <1>3, <1>5, <1>7, XAddEntries DEF OneHolder, Todo
<1>9. \A v \in Workers : v # w => BatchTodo(v)' = BatchTodo(v)
  BY <1>0, <1>7 DEF BatchTodo, TypeOK
<1>10. BatchTodo(w)' = Elems(Tail(wbatch[w])) /\ BatchTodo(w) = Elems(wbatch[w])
  BY <1>0, <1>2, <1>7 DEF BatchTodo, TypeOK
<1>11. \A v \in Workers : BatchTodo(v)' \subseteq BatchTodo(v)
  BY <1>3, <1>9, <1>10
<1>12. c \notin Todo(w)'
  BY <1>0, <1>1, <1>3, <1>4, <1>8, <1>10 DEF OneHolder, Todo
<1>13. \A v \in Tenants : Todo(v)' \subseteq Todo(v) /\ c \notin Todo(v)'
  BY <1>1, <1>5, <1>8, <1>11, <1>12 DEF Todo
<1>14. Todo(Global)' \subseteq Todo(Global) \cup {c}
  BY <1>1, <1>8, <1>11 DEF Todo
<1>15. \A v \in Workers : /\ Unique(cmdQueue'[v])
                          /\ Unique(wbatch'[v])
                          /\ Elems(cmdQueue'[v]) \cap BatchTodo(v)' = {}
  <2> TAKE v \in Workers
  <2>1. Unique(wbatch[v]) /\ Elems(cmdQueue[v]) \cap BatchTodo(v) = {}
    BY <1>0 DEF OneHolder
  <2>2. CASE v = Global
    BY <1>1, <1>5, <1>7, <1>8, <1>11, <2>1, <2>2 DEF Todo
  <2>3. CASE v # Global
    BY <1>7, <1>8, <1>11, <2>1, <2>3
  <2>4. QED
    BY <2>2, <2>3
<1>16. \A v \in Workers : Todo(v)' \subseteq asked'
  <2> TAKE v \in Workers
  <2>1. Todo(v) \subseteq asked
    BY <1>0 DEF OneHolder
  <2>2. QED
    BY <1>5, <1>7, <1>13, <1>14, <2>1 DEF Workers
<1>17. \A v \in Tenants : \A d \in Todo(v)' : v = TenantOf[d] /\ d \notin Todo(Global)'
  <2> TAKE v \in Tenants
  <2> TAKE d \in Todo(v)'
  <2>1. d \in Todo(v) /\ d # c
    BY <1>13
  <2>2. QED
    BY <1>0, <1>14, <2>1 DEF OneHolder
<1>18. \A d \in Cmds : executed'[d] > 0 => d \in asked' /\ \A v \in Workers : d \notin Todo(v)'
  <2> SUFFICES ASSUME NEW d \in Cmds, executed[d] > 0
               PROVE  d \in asked' /\ \A v \in Workers : d \notin Todo(v)'
    BY <1>7
  <2>1. d \in asked /\ d # c /\ \A v \in Workers : d \notin Todo(v)
    BY <1>0, <1>6 DEF OneHolder
  <2>2. QED
    BY <1>7, <1>13, <1>14, <2>1 DEF Workers
<1>19. \A d \in Cmds : route'[d] \in {"idle", "accepted"} => d \notin asked'
  BY <1>0, <1>7 DEF OneHolder
<1>20. AtMostOneExecution'
  BY <1>0, <1>7 DEF AtMostOneExecution
<1>21. QED
  BY <1>15, <1>16, <1>17, <1>18, <1>19, <1>20 DEF OneHolder

LEMMA HeldByWorker ==
    ASSUME Held, NEW w \in Workers, WorkerNext(w)
    PROVE  OneHolder' /\ AtMostOneExecution'
<1>0. TypeOK /\ BatchInHand /\ OneHolder
  BY DEF Held, TypeInv
<1>1. CASE BootWorker(w) \/ RecreateCmdGroup(w) \/ ForwardFails(w) \/ RejectUnknown(w) \/ PublishResult(w)
  <2>1. UNCHANGED <<route, cmdQueue, wbatch, asked, executed>>
    BY <1>1 DEF BootWorker, RecreateCmdGroup, ForwardFails, RejectUnknown, PublishResult,
       routerVars, cmdVars, workerVars, history
  <2>2. \A v \in Workers : wpc'[v] = "entry" => wpc[v] = "entry"
    BY <1>0, <1>1 DEF BootWorker, RecreateCmdGroup, ForwardFails, RejectUnknown, PublishResult,
       Step, workerVars, TypeOK
  <2>3. QED
    BY <2>1, <2>2, HeldInPlace
<1>2. CASE ReadCmds(w)
  <2> DEFINE q == cmdQueue[w]
             batch == SubSeq(q, 1, BatchLen(q))
             rest == SubSeq(q, BatchLen(q) + 1, Len(q))
  <2>1. q \in Seq(Cmds) /\ q # <<>> /\ wpc[w] = "read" /\ wbatch[w] = <<>> /\ Unique(q)
    BY <1>0, <1>2 DEF TypeOK, ReadCmds, BatchInHand, OneHolder
  <2>2. /\ Elems(batch) \cup Elems(rest) = Elems(q)
        /\ Unique(batch) /\ Unique(rest) /\ Elems(batch) \cap Elems(rest) = {}
    BY <2>1, ReadFacts
  <2>3. /\ cmdQueue' = [cmdQueue EXCEPT ![w] = rest]
        /\ wbatch' = [wbatch EXCEPT ![w] = batch]
        /\ wpc' = [wpc EXCEPT ![w] = "entry"]
        /\ UNCHANGED <<route, asked, executed>>
    BY <1>2 DEF ReadCmds, Step, routerVars, history
  <2> HIDE DEF batch, rest
  <2>4. cmdQueue'[w] = rest /\ BatchTodo(w)' = Elems(batch) /\ wbatch'[w] = batch
    BY <1>0, <2>3 DEF TypeOK, BatchTodo
  <2>5. \A v \in Workers : v # w => cmdQueue'[v] = cmdQueue[v] /\ wbatch'[v] = wbatch[v]
                                    /\ BatchTodo(v)' = BatchTodo(v)
    BY <1>0, <2>3 DEF TypeOK, BatchTodo
  <2>6. \A v \in Workers : /\ Unique(cmdQueue'[v])
                           /\ Unique(wbatch'[v])
                           /\ Elems(cmdQueue'[v]) \cap BatchTodo(v)' = {}
                           /\ Todo(v)' \subseteq Todo(v)
    <3> TAKE v \in Workers
    <3>1. CASE v = w
      BY <2>2, <2>4, <3>1 DEF Todo
    <3>2. CASE v # w
      BY <1>0, <2>5, <3>2 DEF Todo, OneHolder
    <3>3. QED
      BY <3>1, <3>2
  <2>7. QED
    BY <2>3, <2>6, HeldByShrinking
<1>3. CASE AckCmd(w)
  <2>1. wpc[w] \in {"forwarded", "sent"} /\ wbatch[w] # <<>> /\ wbatch[w] \in Seq(Cmds)
    <3>1. wpc[w] \in {"forwarded", "sent"}
      BY <1>3 DEF AckCmd
    <3>2. QED
      BY <1>0, <3>1 DEF BatchInHand, TypeOK
  <2> DEFINE tail == Tail(wbatch[w])
  <2>2. tail \in Seq(Cmds) /\ (Unique(wbatch[w]) => Unique(tail))
    BY <2>1, TailFacts
  <2> HIDE DEF tail
  <2>3. /\ wbatch' = [wbatch EXCEPT ![w] = tail]
        /\ wpc' = [wpc EXCEPT ![w] = IF tail = <<>> THEN "read" ELSE "entry"]
        /\ UNCHANGED <<route, cmdQueue, asked, executed>>
    BY <1>3 DEF AckCmd, NextEntry, Step, routerVars, history, tail
  <2>4. BatchTodo(w) = Elems(tail)
    BY <2>1 DEF BatchTodo, tail
  <2>5. wbatch'[w] = tail /\ wpc'[w] = (IF tail = <<>> THEN "read" ELSE "entry")
    BY <1>0, <2>3 DEF TypeOK
  <2>6. BatchTodo(w)' \subseteq BatchTodo(w)
    BY <2>2, <2>4, <2>5 DEF BatchTodo
  <2>7. \A v \in Workers : v # w => wbatch'[v] = wbatch[v] /\ BatchTodo(v)' = BatchTodo(v)
    BY <1>0, <2>3 DEF TypeOK, BatchTodo
  <2>8. \A v \in Workers : /\ Unique(cmdQueue'[v])
                           /\ Unique(wbatch'[v])
                           /\ Elems(cmdQueue'[v]) \cap BatchTodo(v)' = {}
                           /\ Todo(v)' \subseteq Todo(v)
    <3> TAKE v \in Workers
    <3>1. Unique(cmdQueue[v]) /\ Unique(wbatch[v]) /\ Elems(cmdQueue[v]) \cap BatchTodo(v) = {}
      BY <1>0 DEF OneHolder
    <3>2. Unique(wbatch'[v]) /\ BatchTodo(v)' \subseteq BatchTodo(v)
      BY <2>2, <2>5, <2>6, <2>7, <3>1
    <3>3. QED
      BY <2>3, <3>1, <3>2 DEF Todo
  <2>9. QED
    BY <2>3, <2>8, HeldByShrinking
<1>4. CASE AbortBatch(w) \/ CrashWorker(w)
  <2>1. /\ wbatch' = [wbatch EXCEPT ![w] = <<>>]
        /\ \A v \in Workers : v # w => wpc'[v] = wpc[v]
        /\ wpc'[w] \in {"read", "down"}
        /\ UNCHANGED <<route, cmdQueue, asked, executed>>
    BY <1>0, <1>4 DEF AbortBatch, CrashWorker, Step, TypeOK, routerVars, cmdVars, history
  <2>2. wbatch'[w] = <<>> /\ BatchTodo(w)' = {}
    BY <1>0, <2>1 DEF TypeOK, BatchTodo
  <2>3. \A v \in Workers : v # w => wbatch'[v] = wbatch[v] /\ BatchTodo(v)' = BatchTodo(v)
    BY <1>0, <2>1 DEF TypeOK, BatchTodo
  <2>4. Unique(<<>>)
    BY DEF Unique
  <2>5. \A v \in Workers : /\ Unique(cmdQueue'[v])
                           /\ Unique(wbatch'[v])
                           /\ Elems(cmdQueue'[v]) \cap BatchTodo(v)' = {}
                           /\ Todo(v)' \subseteq Todo(v)
    BY <1>0, <2>1, <2>2, <2>3, <2>4 DEF OneHolder, Todo
  <2>6. QED
    BY <2>1, <2>5, HeldByShrinking
<1>5. CASE DropCmdStream(w)
  <2>1. /\ cmdQueue' = [cmdQueue EXCEPT ![w] = <<>>]
        /\ UNCHANGED <<route, wpc, wbatch, asked, executed>>
    BY <1>5 DEF DropCmdStream, routerVars, workerVars
  <2>2. Unique(<<>>) /\ Elems(<<>>) = {}
    BY DEF Unique, Elems
  <2>3. \A v \in Workers : BatchTodo(v)' = BatchTodo(v)
    BY <2>1 DEF BatchTodo
  <2>4. \A v \in Workers : cmdQueue'[v] = cmdQueue[v] \/ cmdQueue'[v] = <<>>
    BY <1>0, <2>1 DEF TypeOK
  <2>5. \A v \in Workers : /\ Unique(cmdQueue'[v])
                           /\ Unique(wbatch'[v])
                           /\ Elems(cmdQueue'[v]) \cap BatchTodo(v)' = {}
                           /\ Todo(v)' \subseteq Todo(v)
    BY <1>0, <2>1, <2>2, <2>3, <2>4 DEF OneHolder, Todo
  <2>6. QED
    BY <2>1, <2>5, HeldByShrinking
<1>6. QED
  BY <1>1, <1>2, <1>3, <1>4, <1>5, HeldByExecute, HeldByForward DEF WorkerNext

LEMMA HeldByMaster ==
    ASSUME Held, MasterNext
    PROVE  OneHolder' /\ AtMostOneExecution'
<1>1. CASE CrashMaster
  BY <1>1, HeldByExit DEF CrashMaster
<1>2. CASE ~CrashMaster
  <2>1. UNCHANGED <<route, cmdQueue, wpc, wbatch, asked, executed>>
    BY <1>2 DEF MasterNext, BootMaster, EnsureResultGroup, ResultLoopDies, ReadResults,
       Broadcast, NoPending, Deliver, AckResult, AckResultFails, DropResultStream,
       routerVars, cmdVars, workerVars, history
  <2>2. QED
    BY <2>1, HeldInPlace
<1>3. QED
  BY <1>1, <1>2

LEMMA HeldInit == Init => Held
<1> SUFFICES ASSUME Init PROVE OneHolder /\ AtMostOneExecution
  BY TypeInvInit DEF Held
<1>1. \A w \in Workers : cmdQueue[w] = <<>> /\ wbatch[w] = <<>> /\ wpc[w] = "down"
  BY DEF Init
<1>2. Unique(<<>>) /\ Elems(<<>>) = {}
  BY DEF Unique, Elems
<1>3. \A w \in Workers : Todo(w) = {} /\ BatchTodo(w) = {}
  BY <1>1, <1>2 DEF Todo, BatchTodo
<1>4. \A c \in Cmds : executed[c] = 0 /\ asked = {}
  BY DEF Init
<1>5. Tenants \subseteq Workers
  BY DEF Workers
<1>6. QED
  BY <1>1, <1>2, <1>3, <1>4, <1>5 DEF OneHolder, AtMostOneExecution

LEMMA HeldStep == Held /\ [Next]_vars => Held'
<1> SUFFICES ASSUME Held, [Next]_vars PROVE OneHolder' /\ AtMostOneExecution'
  BY TypeInvStep DEF Held
<1>1. CASE UNCHANGED vars
  BY <1>1, HeldInPlace DEF vars, routerVars, cmdVars, resVars, workerVars, masterVars, history
<1>2. ASSUME NEW j \in Jobs, PublishJob(j) PROVE OneHolder' /\ AtMostOneExecution'
  <2>1. j \in Cmds /\ TenantOf[j] \in Tenants
    BY CommandAssumption DEF Cmds
  <2>2. TypeOK
    BY DEF Held, TypeInv
  <2>3. /\ route[j] \in Waiting /\ route'[j] \notin Waiting
        /\ \A d \in Cmds : d # j => route'[d] = route[d]
    BY <1>2, <2>1, <2>2 DEF PublishJob, TypeOK, Waiting
  <2>4. QED
    BY <1>2, <2>1, <2>3, HeldByPublish DEF PublishJob, workerVars
<1>3. QED
  BY <1>1, <1>2, HeldByRouter, HeldByWorker, HeldByMaster DEF Next

\* No command is executed twice, whatever crashes, Redis errors and stream
\* deletions happen between its publication and its result: a forward whose
\* xAck fails, a worker that dies after execute(), a group that is recreated.
THEOREM NoDoubleExecution == Spec => []AtMostOneExecution
<1>1. Spec => []Held
  BY HeldInit, HeldStep, PTL DEF Spec
<1>2. Held => AtMostOneExecution
  BY DEF Held
<1>3. QED
  BY <1>1, <1>2, PTL
-----------------------------------------------------------------------------
(***************************************************************************)
(* What the command path promises: the implementation of RequestReply, and *)
(* one announcement per command.  What a worker or the master holds is     *)
(* about a published command and says what happened to it (Sincere), and   *)
(* who can still be answered was not answered before (Open).               *)
(***************************************************************************)
Honest(c, b) == Promise!Justified(c, b)
Reports == Elems(resQueue) \cup Elems(mbatch)
Sincere ==
    /\ \A r \in Reports : r.id \in asked /\ Honest(r.id, r.body)
    /\ \A w \in Workers :
        /\ Elems(wbatch[w]) \subseteq asked
        /\ wpc[w] = "executed" => Honest(Current(w), wout[w])
        /\ wpc[w] \in {"forwarded", "routeErr"} => Current(w) \in Market
Open ==
    \A i \in Interactions :
        /\ i \in pending => answered[i] = {}
        /\ route[i] \in {"idle", "accepted", "published"} => answered[i] = {} /\ i \notin pending
Promised == Held /\ Sincere /\ Open

\* The steps that RequestReply speaks of.
Silent == UNCHANGED <<asked, executed, answered>>

LEMMA StepKinds ==
    ASSUME [Next]_vars
    PROVE  \/ Silent
           \/ \E i \in Interactions : Publish(i)
           \/ \E j \in Jobs : PublishJob(j)
           \/ \E w \in Workers : Execute(w)
           \/ Deliver
<1>1. CASE UNCHANGED vars
  BY <1>1 DEF vars, history, Silent
<1>2. ASSUME NEW i \in Interactions, RouterNext(i), ~Publish(i) PROVE Silent
  BY <1>2 DEF RouterNext, Receive, DeferFails, RefuseChannel, PublishFails, Register, EditApplied,
     PhraseFails, ClosingFails, AnswerFails, MasterExit, history, Silent
<1>3. ASSUME NEW w \in Workers, WorkerNext(w), ~Execute(w) PROVE Silent
  BY <1>3 DEF WorkerNext, BootWorker, ReadCmds, RecreateCmdGroup, Forward, ForwardFails,
     RejectUnknown, PublishResult, AckCmd, AbortBatch, CrashWorker, DropCmdStream, history, Silent
<1>4. ASSUME MasterNext, ~Deliver PROVE Silent
  BY <1>4 DEF MasterNext, BootMaster, CrashMaster, MasterExit, EnsureResultGroup, ResultLoopDies,
     ReadResults, Broadcast, NoPending, AckResult, AckResultFails, DropResultStream, history, Silent
<1>5. QED
  BY <1>1, <1>2, <1>3, <1>4 DEF Next

\* What a worker executes was published and not executed yet.
LEMMA ExecuteFacts ==
    ASSUME Held, NEW w \in Workers, Execute(w)
    PROVE  /\ Current(w) \in Cmds /\ Current(w) \in asked \ Unknown
           /\ executed[Current(w)] = 0
           /\ executed' = [executed EXCEPT ![Current(w)] = 1]
           /\ UNCHANGED <<asked, answered>>
<1>1. TypeInv /\ TypeOK /\ OneHolder /\ wpc[w] = "entry"
  BY DEF Held, TypeInv, Execute
<1>2. Current(w) \in Cmds /\ Current(w) \in Elems(wbatch[w])
  <2>1. wbatch[w] \in Seq(Cmds) /\ wbatch[w] # <<>>
    BY <1>1, CurrentFacts
  <2>2. QED
    BY <2>1, TailFacts DEF Current
<1>3. Current(w) \in Todo(w)
  BY <1>1, <1>2 DEF Todo, BatchTodo
<1>4. Current(w) \in asked /\ ~(executed[Current(w)] > 0)
  BY <1>1, <1>2, <1>3 DEF OneHolder
<1>5. executed[Current(w)] = 0
  BY <1>1, <1>2, <1>4 DEF TypeOK
<1>6. QED
  BY <1>2, <1>4, <1>5 DEF Execute

\* What was said of a command stays true.
LEMMA HonestStays ==
    ASSUME Held, [Next]_vars
    PROVE  /\ asked \subseteq asked'
           /\ \A c \in Cmds, b \in Body : Honest(c, b) => Honest(c, b)'
<1>1. CASE Silent
  BY <1>1 DEF Silent, Honest, Promise!Justified
<1>2. CASE \E i \in Interactions : Publish(i)
  BY <1>2 DEF Publish, Honest, Promise!Justified
<1>3. CASE \E j \in Jobs : PublishJob(j)
  BY <1>3 DEF PublishJob, Honest, Promise!Justified
<1>4. ASSUME NEW w \in Workers, Execute(w)
      PROVE  asked' = asked /\ \A c \in Cmds : executed[c] = 1 => executed'[c] = 1
  <2>1. executed \in [Cmds -> Nat]
    BY DEF Held, TypeInv, TypeOK
  <2>2. QED
    BY <1>4, <2>1, ExecuteFacts
<1>5. CASE \E w \in Workers : Execute(w)
  BY <1>4, <1>5 DEF Honest, Promise!Justified
<1>6. CASE Deliver
  BY <1>6 DEF Deliver, Honest, Promise!Justified
<1>7. QED
  BY <1>1, <1>2, <1>3, <1>5, <1>6, StepKinds

-----------------------------------------------------------------------------
\* Who can still be answered.
LEMMA OpenStep ==
    ASSUME Held, Open, [Next]_vars
    PROVE  Open'
<1>0. TypeOK
  BY DEF Held, TypeInv
<1>1. ASSUME UNCHANGED <<route, pending, answered>> PROVE Open'
  BY <1>1 DEF Open
<1>2. ASSUME NEW killed, MasterExit(killed) PROVE Open'
  BY <1>0, <1>2 DEF MasterExit, history, Open, TypeOK, Cmds
<1>3. ASSUME NEW i \in Interactions, RouterNext(i) PROVE Open'
  <2>1. CASE DeferFails(i) \/ ClosingFails(i)
    BY <1>2, <2>1 DEF DeferFails, ClosingFails
  <2>2. CASE \/ Receive(i) \/ RefuseChannel(i) \/ Publish(i) \/ PublishFails(i)
             \/ EditApplied(i) \/ PhraseFails(i) \/ AnswerFails(i)
    <3>1. UNCHANGED <<pending, answered>>
      BY <2>2 DEF Receive, RefuseChannel, Publish, PublishFails, EditApplied, PhraseFails,
         AnswerFails, history
    <3>2. \A h \in Interactions : route'[h] \in {"idle", "accepted", "published"}
                                  => route[h] \in {"idle", "accepted", "published"}
      BY <1>0, <2>2 DEF Receive, RefuseChannel, Publish, PublishFails, EditApplied, PhraseFails,
         AnswerFails, TypeOK, Cmds
    <3>3. QED
      BY <3>1, <3>2 DEF Open
  <2>3. CASE Register(i)
    BY <1>0, <2>3 DEF Register, Open, TypeOK, Cmds, history
  <2>4. QED
    BY <1>3, <2>1, <2>2, <2>3 DEF RouterNext
<1>4. ASSUME NEW j \in Jobs, PublishJob(j) PROVE Open'
  BY <1>0, <1>4 DEF PublishJob, Open, TypeOK, Cmds
<1>5. ASSUME NEW w \in Workers, WorkerNext(w) PROVE Open'
  BY <1>1, <1>5 DEF WorkerNext, BootWorker, ReadCmds, RecreateCmdGroup, Forward, ForwardFails, Execute,
     RejectUnknown, PublishResult, AckCmd, AbortBatch, CrashWorker, DropCmdStream, history, routerVars
<1>6. ASSUME MasterNext PROVE Open'
  <2>1. CASE CrashMaster
    BY <1>2, <2>1 DEF CrashMaster
  <2>2. CASE Deliver
    <3>1. /\ UNCHANGED route
          /\ pending' = pending \ {Arrived.id}
          /\ answered' = [answered EXCEPT ![Arrived.id] = @ \cup {Arrived.body}]
          /\ Arrived.id \in pending
      BY <2>2 DEF Deliver
    <3>2. \A i \in Interactions : i # Arrived.id => answered'[i] = answered[i]
      BY <1>0, <3>1 DEF TypeOK
    <3>3. QED
      BY <3>1, <3>2 DEF Open
  <2>3. CASE ~CrashMaster /\ ~Deliver
    <3>1. UNCHANGED <<route, pending, answered>>
      BY <1>6, <2>3 DEF MasterNext, BootMaster, EnsureResultGroup, ResultLoopDies, ReadResults,
         Broadcast, NoPending, AckResult, AckResultFails, DropResultStream, history, routerVars
    <3>2. QED
      BY <1>1, <3>1
  <2>4. QED
    BY <2>1, <2>2, <2>3
<1>7. QED
  BY <1>1, <1>3, <1>4, <1>5, <1>6 DEF Next, vars, routerVars, history

-----------------------------------------------------------------------------
\* The results on their way.
LEMMA ReportsStep ==
    ASSUME Held, Sincere, [Next]_vars
    PROVE  \A r \in Reports' : r.id \in asked' /\ Honest(r.id, r.body)'
<1>0. TypeOK /\ TypeInv
  BY DEF Held, TypeInv
<1>1. \A r \in Reports : r \in ResultMsg
  BY <1>0 DEF Reports, Elems, TypeOK
<1>11. \A r \in Reports : r.id \in asked' /\ Honest(r.id, r.body)'
  BY <1>1, HonestStays DEF Sincere, ResultMsg
<1>2. ASSUME Reports' \subseteq Reports
      PROVE  \A r \in Reports' : r.id \in asked' /\ Honest(r.id, r.body)'
  BY <1>2, <1>11
<1>3. ASSUME UNCHANGED <<resQueue, mbatch>> PROVE Reports' \subseteq Reports
  BY <1>3 DEF Reports
<1>4. ASSUME mbatch' = <<>>, UNCHANGED resQueue PROVE Reports' \subseteq Reports
  BY <1>4 DEF Reports, Elems
<1>5. ASSUME NEW w \in Workers, PublishResult(w)
      PROVE  \A r \in Reports' : r.id \in asked' /\ Honest(r.id, r.body)'
  <2> DEFINE body == IF wpc[w] = "routeErr" THEN "routeErr" ELSE wout[w]
  <2>1. /\ wpc[w] \in {"executed", "routeErr"}
        /\ UNCHANGED mbatch
        /\ XAddResult([id |-> Current(w), body |-> body])
    BY <1>5 DEF PublishResult, masterVars
  <2>2. /\ wbatch[w] \in Seq(Cmds) /\ wbatch[w] # <<>>
        /\ Current(w) \in Cmds /\ Current(w) \in Elems(wbatch[w])
    <3>1. wbatch[w] \in Seq(Cmds) /\ wbatch[w] # <<>> /\ Current(w) \in Cmds
      BY <1>0, <2>1, CurrentFacts
    <3>2. QED
      BY <3>1, TailFacts DEF Current
  <2>3. body \in Body
    BY <1>0, <2>1 DEF TypeOK, Body
  <2>4. Honest(Current(w), body)
    <3>1. CASE wpc[w] = "executed"
      BY <3>1 DEF Sincere
    <3>2. CASE wpc[w] = "routeErr"
      BY <3>2 DEF Sincere, Honest, Promise!Justified
    <3>3. QED
      BY <2>1, <3>1, <3>2
  <2> HIDE DEF body
  <2>5. PICK new \in ResultMsg : new.id = Current(w) /\ new.body = body /\ XAddResult(new)
    BY <2>1, <2>2, <2>3 DEF ResultMsg
  <2>6. Reports' \subseteq Reports \cup {new}
    <3>1. CASE resQueue' = resQueue
      BY <2>1, <3>1 DEF Reports
    <3>2. CASE resQueue' = Append(resQueue, new)
      <4>1. resQueue \in Seq(ResultMsg)
        BY <1>0 DEF TypeOK
      <4>2. QED
        BY <2>1, <3>2, <4>1, AppendFacts DEF Reports
    <3>3. QED
      BY <2>5, <3>1, <3>2 DEF XAddResult
  <2>7. new.id \in asked' /\ Honest(new.id, new.body)'
    <3>1. new.id \in asked /\ Honest(new.id, new.body) /\ new.id \in Cmds /\ new.body \in Body
      BY <2>2, <2>3, <2>4, <2>5 DEF Sincere
    <3>2. QED
      BY <3>1, HonestStays
  <2>8. QED
    BY <1>11, <2>6, <2>7
<1>6. ASSUME NEW w \in Workers, WorkerNext(w), ~PublishResult(w) PROVE Reports' \subseteq Reports
  <2>1. UNCHANGED <<resQueue, mbatch>>
    BY <1>6 DEF WorkerNext, BootWorker, ReadCmds, RecreateCmdGroup, Forward, ForwardFails, Execute,
       RejectUnknown, AckCmd, AbortBatch, CrashWorker, DropCmdStream, resVars, masterVars
  <2>2. QED
    BY <1>3, <2>1
<1>7. ASSUME NEW i \in Interactions, RouterNext(i) PROVE Reports' \subseteq Reports
  <2>1. UNCHANGED resQueue /\ (mbatch' = mbatch \/ mbatch' = <<>>)
    BY <1>7 DEF RouterNext, Receive, DeferFails, RefuseChannel, Publish, PublishFails, Register,
       EditApplied, PhraseFails, ClosingFails, AnswerFails, MasterExit, resVars, masterVars
  <2>2. QED
    BY <1>3, <1>4, <2>1
<1>8. ASSUME NEW j \in Jobs, PublishJob(j) PROVE Reports' \subseteq Reports
  BY <1>3, <1>8 DEF PublishJob, resVars, masterVars
<1>9. ASSUME MasterNext PROVE Reports' \subseteq Reports
  <2>1. CASE ReadResults
    <3>1. /\ resQueue \in Seq(ResultMsg) /\ resQueue # <<>>
          /\ mbatch' = SubSeq(resQueue, 1, BatchLen(resQueue))
          /\ resQueue' = SubSeq(resQueue, BatchLen(resQueue) + 1, Len(resQueue))
      BY <1>0, <2>1 DEF ReadResults, TypeOK
    <3>2. QED
      BY <3>1, ReadFacts DEF Reports
  <2>2. CASE AckResult
    <3>1. mbatch \in Seq(ResultMsg) /\ mbatch # <<>>
      BY <1>0, <2>2 DEF AckResult, TypeInv, TypeOK, BatchInHand
    <3>2. Elems(Tail(mbatch)) \subseteq Elems(mbatch)
      BY <3>1, TailFacts
    <3>3. QED
      BY <2>2, <3>2 DEF AckResult, resVars, Reports
  <2>3. CASE DropResultStream
    BY <2>3 DEF DropResultStream, masterVars, Reports, Elems
  <2>4. CASE CrashMaster \/ AckResultFails
    BY <1>4, <2>4 DEF CrashMaster, MasterExit, AckResultFails, resVars
  <2>5. CASE BootMaster \/ EnsureResultGroup \/ ResultLoopDies \/ Broadcast \/ NoPending \/ Deliver
    <3>1. UNCHANGED <<resQueue, mbatch>>
      BY <2>5 DEF BootMaster, EnsureResultGroup, ResultLoopDies, Broadcast, NoPending, Deliver, resVars
    <3>2. QED
      BY <1>3, <3>1
  <2>6. QED
    BY <1>9, <2>1, <2>2, <2>3, <2>4, <2>5 DEF MasterNext
<1>10. CASE UNCHANGED vars
  BY <1>2, <1>3, <1>10 DEF vars, resVars, masterVars
<1>12. QED
  BY <1>2, <1>5, <1>6, <1>7, <1>8, <1>9, <1>10 DEF Next


-----------------------------------------------------------------------------
\* A worker of which nothing changes, or that goes back to reading.
LEMMA HandsStay ==
    ASSUME Held, Sincere, [Next]_vars, NEW w \in Workers,
           \/ wbatch'[w] = wbatch[w] /\ wpc'[w] = wpc[w] /\ wout'[w] = wout[w]
           \/ wbatch'[w] = wbatch[w] /\ wpc'[w] \in {"down", "read", "entry", "sent"}
           \/ wbatch'[w] = <<>> /\ wpc'[w] \in {"down", "read"}
    PROVE  /\ Elems(wbatch'[w]) \subseteq asked'
           /\ wpc'[w] = "executed" => Honest(Current(w), wout[w])'
           /\ wpc'[w] \in {"forwarded", "routeErr"} => Current(w)' \in Market
<1>1. /\ Elems(wbatch[w]) \subseteq asked
      /\ wpc[w] = "executed" => Honest(Current(w), wout[w])
      /\ wpc[w] \in {"forwarded", "routeErr"} => Current(w) \in Market
  BY DEF Sincere
<1>2. asked \subseteq asked' /\ Elems(<<>>) = {}
  BY HonestStays DEF Elems
<1>3. ASSUME wbatch'[w] = wbatch[w], wpc'[w] = wpc[w], wout'[w] = wout[w], wpc'[w] = "executed"
      PROVE  Honest(Current(w), wout[w])'
  <2>1. Current(w) \in Cmds /\ wout[w] \in Body
    BY <1>3, CurrentFacts DEF Held, TypeInv, TypeOK, Body
  <2>2. PICK c \in Cmds, b \in Body : c = Current(w) /\ b = wout[w]
    BY <2>1
  <2>3. c = Current(w)' /\ b = wout'[w]
    BY <1>3, <2>2 DEF Current
  <2>4. Honest(c, b)'
    BY <1>1, <1>3, <2>2, HonestStays
  <2>5. QED
    BY <2>3, <2>4 DEF Honest, Promise!Justified
<1>4. wbatch'[w] = wbatch[w] => Current(w)' = Current(w)
  BY DEF Current
<1>5. QED
  BY <1>1, <1>2, <1>3, <1>4

\* What the workers hold.
InHand(w) ==
    /\ Elems(wbatch[w]) \subseteq asked
    /\ wpc[w] = "executed" => Honest(Current(w), wout[w])
    /\ wpc[w] \in {"forwarded", "routeErr"} => Current(w) \in Market

LEMMA InHandByWorker ==
    ASSUME Held, Sincere, [Next]_vars, NEW w \in Workers, WorkerNext(w)
    PROVE  InHand(w)'
<1>0. TypeOK /\ TypeInv /\ OneHolder
  BY DEF Held, TypeInv
<1>1. /\ Elems(wbatch[w]) \subseteq asked
      /\ wpc[w] \in {"forwarded", "routeErr"} => Current(w) \in Market
      /\ asked \subseteq asked'
  BY HonestStays DEF Sincere
<1>2. CASE BootWorker(w) \/ PublishResult(w)
  <2>1. wbatch'[w] = wbatch[w] /\ wpc'[w] \in {"down", "read", "entry", "sent"}
    BY <1>0, <1>2 DEF BootWorker, PublishResult, Step, TypeOK
  <2>2. QED
    BY <2>1, HandsStay DEF InHand
<1>3. CASE RecreateCmdGroup(w) \/ DropCmdStream(w)
  BY <1>3, HandsStay DEF RecreateCmdGroup, DropCmdStream, workerVars, InHand
<1>4. CASE AbortBatch(w) \/ CrashWorker(w)
  <2>1. wbatch'[w] = <<>> /\ wpc'[w] \in {"down", "read"}
    BY <1>0, <1>4 DEF AbortBatch, CrashWorker, Step, TypeOK
  <2>2. QED
    BY <2>1, HandsStay DEF InHand
<1>5. CASE ReadCmds(w)
  <2>1. cmdQueue[w] \in Seq(Cmds) /\ cmdQueue[w] # <<>>
    BY <1>0, <1>5 DEF ReadCmds, TypeOK
  <2>2. wpc'[w] = "entry" /\ wbatch'[w] = SubSeq(cmdQueue[w], 1, BatchLen(cmdQueue[w]))
    BY <1>0, <1>5 DEF ReadCmds, Step, TypeOK
  <2>3. Elems(wbatch'[w]) \subseteq Elems(cmdQueue[w])
    BY <2>1, <2>2, ReadFacts
  <2>4. Elems(cmdQueue[w]) \subseteq asked
    BY <1>0 DEF OneHolder, Todo
  <2>5. QED
    BY <1>1, <2>2, <2>3, <2>4 DEF InHand
<1>6. CASE AckCmd(w)
  <2>1. wbatch[w] \in Seq(Cmds) /\ wbatch[w] # <<>>
    BY <1>0, <1>6, CurrentFacts DEF AckCmd
  <2>2. wbatch'[w] = Tail(wbatch[w]) /\ wpc'[w] \in {"read", "entry"}
    BY <1>0, <1>6 DEF AckCmd, NextEntry, Step, TypeOK
  <2>3. QED
    BY <1>1, <2>1, <2>2, TailFacts DEF InHand
<1>7. CASE Forward(w) \/ ForwardFails(w)
  <2>1. wbatch' = wbatch /\ wpc'[w] \in {"forwarded", "routeErr"}
    BY <1>0, <1>7 DEF Forward, ForwardFails, Step, TypeOK
  <2>2. Current(w) \in Market
    BY <1>1, <1>7 DEF Forward, ForwardFails, MustForward
  <2>3. QED
    BY <1>1, <2>1, <2>2 DEF InHand, Current
<1>8. CASE Execute(w)
  <2>1. /\ wbatch' = wbatch /\ wpc'[w] = "executed" /\ wout'[w] \in Outcome
        /\ executed'[Current(w)] = 1
    <3>1. executed'[Current(w)] = 1
      BY <1>0, <1>8, ExecuteFacts DEF TypeOK
    <3>2. QED
      BY <1>0, <1>8, <3>1 DEF Execute, Step, Outcome, TypeOK
  <2>2. Honest(Current(w), wout[w])'
    BY <2>1 DEF Honest, Promise!Justified, Current, Outcome
  <2>3. QED
    BY <1>1, <2>1, <2>2 DEF InHand
<1>9. CASE RejectUnknown(w)
  <2>1. wbatch' = wbatch /\ wpc'[w] = "executed" /\ wout'[w] = "err" /\ Current(w) \in Unknown
    BY <1>0, <1>9 DEF RejectUnknown, Step, TypeOK
  <2>2. Honest(Current(w), wout[w])'
    BY <2>1 DEF Honest, Promise!Justified, Current
  <2>3. QED
    BY <1>1, <2>1, <2>2 DEF InHand
<1>10. QED
  BY <1>2, <1>3, <1>4, <1>5, <1>6, <1>7, <1>8, <1>9 DEF WorkerNext

LEMMA InHandStep ==
    ASSUME Held, Sincere, [Next]_vars, NEW v \in Workers
    PROVE  InHand(v)'
<1>0. TypeOK
  BY DEF Held, TypeInv
<1>1. ASSUME wbatch'[v] = wbatch[v], wpc'[v] = wpc[v], wout'[v] = wout[v] PROVE InHand(v)'
  BY <1>1, HandsStay DEF InHand
<1>2. ASSUME NEW w \in Workers, WorkerNext(w), w # v PROVE InHand(v)'
  <2>1. wbatch'[v] = wbatch[v] /\ wpc'[v] = wpc[v] /\ wout'[v] = wout[v]
    BY <1>0, <1>2 DEF WorkerNext, BootWorker, ReadCmds, RecreateCmdGroup, Forward, ForwardFails,
       Execute, RejectUnknown, PublishResult, AckCmd, NextEntry, AbortBatch, CrashWorker,
       DropCmdStream, Step, workerVars, TypeOK
  <2>2. QED
    BY <1>1, <2>1
<1>3. ASSUME NEW i \in Interactions, RouterNext(i) PROVE InHand(v)'
  BY <1>1, <1>3 DEF RouterNext, Receive, DeferFails, RefuseChannel, Publish, PublishFails, Register,
     EditApplied, PhraseFails, ClosingFails, AnswerFails, MasterExit, workerVars
<1>4. ASSUME NEW j \in Jobs, PublishJob(j) PROVE InHand(v)'
  BY <1>1, <1>4 DEF PublishJob, workerVars
<1>5. ASSUME MasterNext PROVE InHand(v)'
  BY <1>1, <1>5 DEF MasterNext, BootMaster, CrashMaster, MasterExit, EnsureResultGroup,
     ResultLoopDies, ReadResults, Broadcast, NoPending, Deliver, AckResult, AckResultFails,
     DropResultStream, workerVars
<1>6. CASE UNCHANGED vars
  BY <1>1, <1>6 DEF vars, workerVars
<1>7. QED
  BY <1>2, <1>3, <1>4, <1>5, <1>6, InHandByWorker DEF Next

-----------------------------------------------------------------------------
LEMMA PromisedInit == Init => Promised
<1> SUFFICES ASSUME Init PROVE Promised
  OBVIOUS
<1>1. Elems(<<>>) = {}
  BY DEF Elems
<1>2. Sincere
  BY <1>1 DEF Init, Sincere, Reports
<1>3. Open
  BY DEF Init, Open
<1>4. QED
  BY <1>2, <1>3, HeldInit DEF Promised

LEMMA PromisedStep == Promised /\ [Next]_vars => Promised'
<1> SUFFICES ASSUME Promised, [Next]_vars PROVE Promised'
  OBVIOUS
<1>1. Held /\ Sincere /\ Open
  BY DEF Promised
<1>2. Sincere'
  BY <1>1, ReportsStep, InHandStep DEF Sincere, InHand
<1>3. QED
  BY <1>1, <1>2, HeldStep, OpenStep DEF Promised

\* Every step is one of RequestReply or none.
LEMMA StepKept ==
    ASSUME Promised, [Next]_vars
    PROVE  [Promise!Next]_<<asked, executed, answered>>
<1>0. Held /\ Sincere /\ Open /\ TypeInv /\ TypeOK /\ OneHolder
  BY DEF Promised, Held, TypeInv
<1>1. CASE Silent
  BY <1>1 DEF Silent
<1>2. ASSUME NEW i \in Interactions, Publish(i) PROVE Promise!Ask(i) /\ i \in Promise!Cmds
  <2>1. i \in Cmds /\ i \notin asked
    BY <1>0, <1>2 DEF Publish, OneHolder, Cmds
  <2>2. QED
    BY <1>2, <2>1 DEF Publish, Promise!Ask, Promise!Cmds
<1>3. ASSUME NEW j \in Jobs, PublishJob(j) PROVE Promise!Ask(j) /\ j \in Promise!Cmds
  <2>1. j \in Cmds /\ j \notin asked
    BY <1>0, <1>3 DEF PublishJob, OneHolder, Cmds
  <2>2. QED
    BY <1>3, <2>1 DEF PublishJob, Promise!Ask, Promise!Cmds
<1>4. ASSUME NEW w \in Workers, Execute(w)
      PROVE  Promise!Run(Current(w)) /\ Current(w) \in Promise!Cmds
  BY <1>0, <1>4, ExecuteFacts DEF Promise!Run, Promise!Cmds, Cmds
<1>5. CASE Deliver
  <2>1. mbatch \in Seq(ResultMsg) /\ mbatch # <<>>
    BY <1>0, <1>5 DEF Deliver, AtLookup, BatchInHand, TypeInv, TypeOK
  <2>2. Arrived \in ResultMsg /\ Arrived \in Reports
    BY <2>1, TailFacts DEF Arrived, Reports
  <2>3. Arrived.id \in asked /\ Honest(Arrived.id, Arrived.body) /\ Arrived.body \in Body
    BY <1>0, <2>2 DEF Sincere, ResultMsg
  <2>4. Arrived.id \in Interactions /\ answered[Arrived.id] = {}
    BY <1>0, <1>5 DEF Deliver, Open, TypeOK
  <2>5. answered' = [answered EXCEPT ![Arrived.id] = {Arrived.body}]
    <3>1. answered' = [answered EXCEPT ![Arrived.id] = @ \cup {Arrived.body}]
      BY <1>5 DEF Deliver
    <3>2. QED
      BY <2>4, <3>1
  <2>6. Promise!Answer(Arrived.id, Arrived.body)
    BY <1>5, <2>3, <2>4, <2>5 DEF Deliver, Promise!Answer, Honest
  <2>7. QED
    BY <2>3, <2>4, <2>6 DEF Promise!Next, Body, Outcome
<1>6. QED
  BY <1>1, <1>2, <1>3, <1>4, <1>5, StepKinds DEF Promise!Next

\* The command path implements RequestReply: whatever crashes, errors and deletions happen, a
\* command is asked for once, run at most once and after that, and an interaction is given at
\* most one answer, which reports on an execution that took place, or is the refusal of an
\* unknown command or of one that could not be forwarded.
THEOREM PromiseKept == Spec => KeepsPromise
<1>1. Init => Promise!Init
  BY DEF Init, Promise!Init, Promise!Cmds, Cmds
<1>2. Spec => []Promised
  BY PromisedInit, PromisedStep, PTL DEF Spec
<1>3. QED
  BY <1>1, <1>2, StepKept, PTL DEF Spec, KeepsPromise, Promise!Spec
-----------------------------------------------------------------------------
(***************************************************************************)
(* Second argument: one announcement.  A result that asks for one exists   *)
(* in one place at most: with the worker that executed the command, in the *)
(* result stream, or in what the master has yet to handle of its batch;    *)
(* and in none after it was posted.  Only an execution makes one.          *)
(***************************************************************************)
IsCast(r, c) == r.id = c /\ r.body = "cast"
Casts(s, c) == \E k \in 1..Len(s) : IsCast(s[k], c)
Lone(s) == \A c \in Cmds : \A k, l \in 1..Len(s) : IsCast(s[k], c) /\ IsCast(s[l], c) => k = l
Due(c) ==
    /\ mbatch # <<>>
    /\ IF mpc = "entry" THEN Casts(mbatch, c) ELSE Casts(Tail(mbatch), c)
Holds(w, c) == wpc[w] = "executed" /\ wout[w] = "cast" /\ Current(w) = c
OneCast ==
    /\ Lone(resQueue) /\ Lone(mbatch)
    /\ \A c \in Cmds :
        /\ Casts(resQueue, c) => ~Due(c) /\ posts[c] = 0 /\ executed[c] > 0
        /\ Due(c) => posts[c] = 0 /\ executed[c] > 0
        /\ posts[c] > 0 => executed[c] > 0
        /\ posts[c] <= 1
        /\ \A w \in Workers : Holds(w, c) =>
            /\ ~Casts(resQueue, c) /\ ~Due(c) /\ posts[c] = 0 /\ executed[c] > 0
            /\ \A v \in Workers : Holds(v, c) => v = w
CastInv == Held /\ OneCast

\* What XADD, going on in a batch and XREADGROUP do to the announcements.
LEMMA CastAppend ==
    ASSUME NEW s \in Seq(ResultMsg), NEW r \in ResultMsg
    PROVE  /\ \A c \in Cmds : Casts(Append(s, r), c) => Casts(s, c) \/ IsCast(r, c)
           /\ Lone(s) /\ (\A c \in Cmds : ~(IsCast(r, c) /\ Casts(s, c))) => Lone(Append(s, r))
<1>1. /\ Len(Append(s, r)) = Len(s) + 1 /\ Len(s) \in Nat
      /\ \A k \in 1..Len(s) : Append(s, r)[k] = s[k]
      /\ Append(s, r)[Len(s) + 1] = r
  OBVIOUS
<1>2. QED
  BY <1>1 DEF Casts, Lone

LEMMA CastTail ==
    ASSUME NEW s \in Seq(ResultMsg), s # <<>>
    PROVE  /\ \A c \in Cmds : Casts(Tail(s), c) => Casts(s, c)
           /\ Lone(s) => Lone(Tail(s))
           /\ Lone(s) => \A c \in Cmds : IsCast(Head(s), c) => Casts(s, c) /\ ~Casts(Tail(s), c)
<1>1. /\ Len(s) \in Nat \ {0} /\ Len(Tail(s)) = Len(s) - 1 /\ Head(s) = s[1]
      /\ \A k \in 1..Len(Tail(s)) : Tail(s)[k] = s[k + 1] /\ k + 1 \in 1..Len(s) /\ k + 1 # 1
      /\ 1 \in 1..Len(s)
  BY TailFacts
<1>2. \A k, l \in 1..Len(Tail(s)) : k + 1 = l + 1 => k = l
  BY <1>1
<1>3. QED
  BY <1>1, <1>2 DEF Casts, Lone

LEMMA CastRead ==
    ASSUME NEW q \in Seq(ResultMsg), q # <<>>, Lone(q)
    PROVE  LET batch == SubSeq(q, 1, BatchLen(q))
               rest  == SubSeq(q, BatchLen(q) + 1, Len(q))
           IN  /\ Lone(batch) /\ Lone(rest)
               /\ \A c \in Cmds : Casts(batch, c) \/ Casts(rest, c) => Casts(q, c)
               /\ \A c \in Cmds : ~(Casts(batch, c) /\ Casts(rest, c))
<1> DEFINE n == BatchLen(q)
           batch == SubSeq(q, 1, n)
           rest == SubSeq(q, n + 1, Len(q))
<1>1. Len(q) \in Nat \ {0} /\ n \in 1..Len(q)
  BY CommandAssumption DEF BatchLen
<1>2. Len(batch) = n /\ \A k \in 1..n : batch[k] = q[k] /\ k \in 1..Len(q)
  BY <1>1
<1>3. /\ Len(rest) = Len(q) - n
      /\ \A k \in 1..(Len(q) - n) : rest[k] = q[k + n] /\ k + n \in 1..Len(q) /\ k + n \notin 1..n
      /\ \A k, l \in 1..(Len(q) - n) : k + n = l + n => k = l
  BY <1>1
<1> HIDE DEF n, batch, rest
<1>4. Lone(batch) /\ \A c \in Cmds : Casts(batch, c) => Casts(q, c)
  BY <1>2 DEF Lone, Casts
<1>5. Lone(rest) /\ \A c \in Cmds : Casts(rest, c) => Casts(q, c)
  BY <1>3 DEF Lone, Casts
<1>6. \A c \in Cmds : ~(Casts(batch, c) /\ Casts(rest, c))
  BY <1>2, <1>3 DEF Lone, Casts
<1>7. QED
  BY <1>4, <1>5, <1>6 DEF n, batch, rest

LEMMA NoCast == Lone(<<>>) /\ \A c : ~Casts(<<>>, c)
BY DEF Lone, Casts

\* A step that makes no announcement and moves none.
LEMMA CastByShrinking ==
    ASSUME OneCast, UNCHANGED posts,
           \A c \in Cmds : executed[c] > 0 => executed'[c] > 0,
           Lone(resQueue)', Lone(mbatch)',
           \A c \in Cmds :
              /\ Casts(resQueue, c)' => Casts(resQueue, c)
              /\ Due(c)' => Due(c)
              /\ \A w \in Workers : Holds(w, c)' => Holds(w, c)
    PROVE  OneCast'
BY DEF OneCast

\* The master's loop stays, stops, or turns to the next entry.
LEMMA CastInPlace ==
    ASSUME CastInv, UNCHANGED <<posts, executed, resQueue, wpc, wout, wbatch>>,
           \/ UNCHANGED mbatch /\ (mpc' = "entry" => mpc = "entry")
           \/ mbatch' = <<>>
    PROVE  OneCast'
<1>0. OneCast /\ mbatch \in Seq(ResultMsg)
  BY DEF CastInv, Held, TypeInv, TypeOK
<1>1. Lone(mbatch)'
  BY <1>0, NoCast DEF OneCast
<1>2. Lone(resQueue)' /\ \A c \in Cmds : Casts(resQueue, c)' => Casts(resQueue, c)
  BY <1>0 DEF OneCast
<1>3. \A c \in Cmds : Due(c)' => Due(c)
  BY <1>0, CastTail DEF Due
<1>4. \A c \in Cmds : \A w \in Workers : Holds(w, c)' => Holds(w, c)
  BY DEF Holds, Current
<1>5. QED
  BY <1>0, <1>1, <1>2, <1>3, <1>4, CastByShrinking

LEMMA CastByRouter ==
    ASSUME CastInv, NEW i \in Interactions, RouterNext(i)
    PROVE  OneCast'
<1>1. UNCHANGED <<posts, executed, resQueue, wpc, wout, wbatch>>
  BY DEF RouterNext, Receive, DeferFails, RefuseChannel, Publish, PublishFails, Register, EditApplied,
     PhraseFails, ClosingFails, AnswerFails, MasterExit, resVars, workerVars, history
<1>2. \/ UNCHANGED mbatch /\ (mpc' = "entry" => mpc = "entry")
      \/ mbatch' = <<>>
  BY DEF RouterNext, Receive, DeferFails, RefuseChannel, Publish, PublishFails, Register, EditApplied,
     PhraseFails, ClosingFails, AnswerFails, MasterExit, masterVars
<1>3. QED
  BY <1>1, <1>2, CastInPlace

\* An execution may make the first announcement of its command.
LEMMA CastByExecute ==
    ASSUME CastInv, NEW w \in Workers, Execute(w)
    PROVE  OneCast'
<1> DEFINE c == Current(w)
<1>0. OneCast /\ Held /\ TypeOK
  BY DEF CastInv, Held, TypeInv
<1>1. c \in Cmds /\ executed[c] = 0 /\ executed' = [executed EXCEPT ![c] = 1]
  BY <1>0, ExecuteFacts
<1>2. UNCHANGED <<posts, resQueue, mbatch, mpc, wbatch>>
  BY DEF Execute, resVars, masterVars
<1>3. /\ \A v \in Workers : v # w => wpc'[v] = wpc[v] /\ wout'[v] = wout[v]
      /\ \A d \in Cmds : d # c => executed'[d] = executed[d]
      /\ executed'[c] = 1
  BY <1>0, <1>1 DEF Execute, Step, TypeOK
<1>4. \A v \in Workers : \A d \in Cmds :
        Holds(v, d)' => (v # w /\ Holds(v, d)) \/ (v = w /\ d = c)
  BY <1>2, <1>3 DEF Holds, Current
<1> HIDE DEF c
<1>5. /\ ~Casts(resQueue, c) /\ ~Due(c) /\ ~(posts[c] > 0)
      /\ \A v \in Workers : ~Holds(v, c)
  BY <1>0, <1>1 DEF OneCast
<1>6. posts[c] = 0
  BY <1>0, <1>1, <1>5 DEF TypeOK
<1>7. \A d \in Cmds : Casts(resQueue, d)' = Casts(resQueue, d) /\ Due(d)' = Due(d)
  BY <1>2 DEF Casts, Due
<1>8. Lone(resQueue)' /\ Lone(mbatch)'
  BY <1>0, <1>2 DEF OneCast
<1>9. ASSUME NEW d \in Cmds
      PROVE  /\ Casts(resQueue, d)' => ~Due(d)' /\ posts'[d] = 0 /\ executed'[d] > 0
             /\ Due(d)' => posts'[d] = 0 /\ executed'[d] > 0
             /\ posts'[d] > 0 => executed'[d] > 0
             /\ posts'[d] <= 1
             /\ \A u \in Workers : Holds(u, d)' =>
                  /\ ~Casts(resQueue, d)' /\ ~Due(d)' /\ posts'[d] = 0 /\ executed'[d] > 0
                  /\ \A v \in Workers : Holds(v, d)' => v = u
  <2>1. CASE d = c
    BY <1>2, <1>3, <1>4, <1>5, <1>6, <1>7, <2>1
  <2>2. CASE d # c
    BY <1>0, <1>2, <1>3, <1>4, <1>7, <2>2 DEF OneCast
  <2>3. QED
    BY <2>1, <2>2
<1>10. QED
  BY <1>8, <1>9 DEF OneCast

\* The announcement goes from the worker into the stream.
LEMMA CastByResult ==
    ASSUME CastInv, NEW w \in Workers, PublishResult(w)
    PROVE  OneCast'
<1> DEFINE body == IF wpc[w] = "routeErr" THEN "routeErr" ELSE wout[w]
<1>0. OneCast /\ Held /\ TypeOK /\ TypeInv /\ resQueue \in Seq(ResultMsg)
  BY DEF CastInv, Held, TypeInv, TypeOK
<1>1. /\ wpc[w] \in {"executed", "routeErr"} /\ Current(w) \in Cmds /\ body \in Body
      /\ UNCHANGED <<posts, executed, mbatch, mpc, wbatch, wout>>
      /\ XAddResult([id |-> Current(w), body |-> body])
  BY <1>0, CurrentFacts DEF PublishResult, masterVars, TypeOK, Body
<1>2. PICK r \in ResultMsg : r.id = Current(w) /\ r.body = body /\ XAddResult(r)
  BY <1>1 DEF ResultMsg
<1>3. \A c \in Cmds : IsCast(r, c) => Holds(w, c)
  BY <1>1, <1>2 DEF IsCast, Holds
<1> HIDE DEF body
<1>4. resQueue' = resQueue \/ resQueue' = Append(resQueue, r)
  BY <1>2 DEF XAddResult
<1>5. \A c \in Cmds : ~(IsCast(r, c) /\ Casts(resQueue, c))
  BY <1>0, <1>3 DEF OneCast
<1>6. Lone(resQueue)' /\ Lone(mbatch)'
  BY <1>0, <1>1, <1>4, <1>5, CastAppend DEF OneCast
<1>7. \A c \in Cmds : Casts(resQueue, c)' => Casts(resQueue, c) \/ Holds(w, c)
  BY <1>0, <1>3, <1>4, CastAppend
<1>8. wpc' = [wpc EXCEPT ![w] = "sent"]
  BY DEF PublishResult, Step
<1>9. \A v \in Workers : \A c \in Cmds : Holds(v, c)' => v # w /\ Holds(v, c)
  BY <1>0, <1>1, <1>8 DEF Holds, Current, TypeOK
<1>10. \A c \in Cmds : Due(c)' = Due(c)
  BY <1>1 DEF Due
<1>11. ASSUME NEW d \in Cmds
      PROVE  /\ Casts(resQueue, d)' => ~Due(d)' /\ posts'[d] = 0 /\ executed'[d] > 0
             /\ Due(d)' => posts'[d] = 0 /\ executed'[d] > 0
             /\ posts'[d] > 0 => executed'[d] > 0
             /\ posts'[d] <= 1
             /\ \A u \in Workers : Holds(u, d)' =>
                  /\ ~Casts(resQueue, d)' /\ ~Due(d)' /\ posts'[d] = 0 /\ executed'[d] > 0
                  /\ \A v \in Workers : Holds(v, d)' => v = u
  BY <1>0, <1>1, <1>7, <1>9, <1>10 DEF OneCast
<1>12. QED
  BY <1>6, <1>11 DEF OneCast

LEMMA CastByWorker ==
    ASSUME CastInv, NEW w \in Workers, WorkerNext(w)
    PROVE  OneCast'
<1>0. OneCast /\ Held /\ TypeOK
  BY DEF CastInv, Held, TypeInv
<1>1. CASE ~Execute(w) /\ ~PublishResult(w)
  <2>1. UNCHANGED <<posts, executed, resQueue, mbatch, mpc>>
    BY <1>1 DEF WorkerNext, BootWorker, ReadCmds, RecreateCmdGroup, Forward, ForwardFails,
       RejectUnknown, AckCmd, AbortBatch, CrashWorker, DropCmdStream, resVars, masterVars, history
  <2>2. /\ \A v \in Workers : v # w => wbatch'[v] = wbatch[v] /\ wpc'[v] = wpc[v] /\ wout'[v] = wout[v]
        /\ \/ wbatch'[w] = wbatch[w] /\ wpc'[w] = wpc[w] /\ wout'[w] = wout[w]
           \/ wpc'[w] # "executed" \/ wout'[w] # "cast"
    BY <1>0, <1>1 DEF WorkerNext, BootWorker, ReadCmds, RecreateCmdGroup, Forward, ForwardFails,
       RejectUnknown, AckCmd, NextEntry, AbortBatch, CrashWorker, DropCmdStream, Step, workerVars, TypeOK
  <2>3. \A c \in Cmds : \A v \in Workers : Holds(v, c)' => Holds(v, c)
    BY <2>2 DEF Holds, Current
  <2>4. /\ Lone(resQueue)' /\ Lone(mbatch)'
        /\ \A c \in Cmds : Casts(resQueue, c)' = Casts(resQueue, c) /\ Due(c)' = Due(c)
    BY <1>0, <2>1 DEF OneCast, Due
  <2>5. QED
    BY <1>0, <2>1, <2>3, <2>4, CastByShrinking
<1>2. QED
  BY <1>1, CastByExecute, CastByResult

\* The master reads announcements, posts them, or passes them.
LEMMA CastByMaster ==
    ASSUME CastInv, MasterNext
    PROVE  OneCast'
<1>0. OneCast /\ Held /\ TypeOK /\ TypeInv /\ mbatch \in Seq(ResultMsg) /\ resQueue \in Seq(ResultMsg)
  BY DEF CastInv, Held, TypeInv, TypeOK
<1>1. UNCHANGED <<executed, wpc, wout, wbatch>>
  BY DEF MasterNext, BootMaster, CrashMaster, MasterExit, EnsureResultGroup, ResultLoopDies,
     ReadResults, Broadcast, NoPending, Deliver, AckResult, AckResultFails, DropResultStream,
     workerVars, history
<1>2. \A c \in Cmds : \A w \in Workers : Holds(w, c)' = Holds(w, c)
  BY <1>1 DEF Holds, Current
<1>3. CASE BootMaster \/ CrashMaster \/ EnsureResultGroup \/ ResultLoopDies \/ NoPending
           \/ Deliver \/ AckResultFails
  <2>1. UNCHANGED <<posts, resQueue>>
    BY <1>3 DEF BootMaster, CrashMaster, MasterExit, EnsureResultGroup, ResultLoopDies, NoPending,
       Deliver, AckResultFails, resVars, history
  <2>2. \/ UNCHANGED mbatch /\ (mpc' = "entry" => mpc = "entry")
        \/ mbatch' = <<>>
    BY <1>3 DEF BootMaster, CrashMaster, MasterExit, EnsureResultGroup, ResultLoopDies, NoPending,
       Deliver, AckResultFails
  <2>3. QED
    BY <1>1, <2>1, <2>2, CastInPlace
<1>4. CASE DropResultStream
  <2>1. UNCHANGED <<posts, mbatch, mpc>> /\ resQueue' = <<>>
    BY <1>4 DEF DropResultStream, masterVars
  <2>2. /\ Lone(resQueue)' /\ Lone(mbatch)'
        /\ \A c \in Cmds : ~Casts(resQueue, c)' /\ Due(c)' = Due(c)
    BY <1>0, <2>1, NoCast DEF OneCast, Due
  <2>3. QED
    BY <1>0, <1>1, <1>2, <2>1, <2>2, CastByShrinking
<1>5. CASE AckResult
  <2>1. /\ UNCHANGED <<posts, resQueue>> /\ mpc = "ack" /\ mbatch # <<>>
        /\ mbatch' = Tail(mbatch) /\ (mbatch' # <<>> => mpc' = "entry")
    BY <1>0, <1>5 DEF AckResult, history, TypeInv, BatchInHand
  <2>2. Lone(resQueue)' /\ Lone(mbatch)'
    BY <1>0, <2>1, CastTail DEF OneCast
  <2>3. \A c \in Cmds : (Casts(resQueue, c)' => Casts(resQueue, c)) /\ (Due(c)' => Due(c))
    BY <2>1 DEF Due
  <2>4. QED
    BY <1>0, <1>1, <1>2, <2>1, <2>2, <2>3, CastByShrinking
<1>6. CASE ReadResults
  <2>1. /\ UNCHANGED posts /\ mpc' = "entry" /\ resQueue # <<>>
        /\ mbatch' = SubSeq(resQueue, 1, BatchLen(resQueue))
        /\ resQueue' = SubSeq(resQueue, BatchLen(resQueue) + 1, Len(resQueue))
    BY <1>6 DEF ReadResults, history
  <2>2. /\ Lone(resQueue)' /\ Lone(mbatch)'
        /\ \A c \in Cmds :
            /\ Casts(mbatch, c)' \/ Casts(resQueue, c)' => Casts(resQueue, c)
            /\ ~(Casts(mbatch, c)' /\ Casts(resQueue, c)')
    BY <1>0, <2>1, CastRead DEF OneCast
  <2>3. \A c \in Cmds : Due(c)' => Casts(mbatch, c)'
    BY <2>1 DEF Due
  <2>4. QED
    BY <1>0, <1>1, <1>2, <2>1, <2>2, <2>3 DEF OneCast
<1>7. CASE Broadcast
  <2>1. /\ mpc = "entry" /\ Arrived.body = "cast" /\ mpc' = "lookup"
        /\ UNCHANGED <<resQueue, mbatch>>
        /\ posts' = posts \/ posts' = [posts EXCEPT ![Arrived.id] = @ + 1]
    BY <1>7 DEF Broadcast, resVars
  <2>2. mbatch # <<>> /\ Arrived \in ResultMsg /\ Arrived.id \in Cmds /\ Head(mbatch) = Arrived
    <3>1. mbatch # <<>>
      BY <1>0, <2>1 DEF TypeInv, BatchInHand
    <3>2. Head(mbatch) \in ResultMsg
      BY <1>0, <3>1, TailFacts
    <3>3. QED
      BY <3>1, <3>2 DEF Arrived, ResultMsg
  <2>3. PICK c \in Cmds : c = Arrived.id
    BY <2>2
  <2>4. IsCast(Head(mbatch), c)
    BY <2>1, <2>2, <2>3 DEF IsCast
  <2>5. Due(c) /\ ~Due(c)' /\ \A d \in Cmds : Due(d)' => Due(d)
    BY <1>0, <2>1, <2>2, <2>4, CastTail DEF OneCast, Due
  <2>6. posts[c] = 0 /\ executed[c] > 0 /\ ~Casts(resQueue, c) /\ \A w \in Workers : ~Holds(w, c)
    BY <1>0, <2>5 DEF OneCast
  <2>7. posts'[c] \in {0, 1} /\ \A d \in Cmds : d # c => posts'[d] = posts[d]
    BY <1>0, <2>1, <2>3, <2>6 DEF TypeOK
  <2>8. ASSUME NEW d \in Cmds
        PROVE  /\ Casts(resQueue, d)' => ~Due(d)' /\ posts'[d] = 0 /\ executed'[d] > 0
               /\ Due(d)' => posts'[d] = 0 /\ executed'[d] > 0
               /\ posts'[d] > 0 => executed'[d] > 0
               /\ posts'[d] <= 1
               /\ \A u \in Workers : Holds(u, d)' =>
                    /\ ~Casts(resQueue, d)' /\ ~Due(d)' /\ posts'[d] = 0 /\ executed'[d] > 0
                    /\ \A v \in Workers : Holds(v, d)' => v = u
    <3>1. CASE d = c
      BY <1>1, <1>2, <2>1, <2>5, <2>6, <2>7, <3>1
    <3>2. CASE d # c
      BY <1>0, <1>1, <1>2, <2>1, <2>5, <2>7, <3>2 DEF OneCast
    <3>3. QED
      BY <3>1, <3>2
  <2>9. QED
    BY <1>0, <2>1, <2>8 DEF OneCast
<1>8. QED
  BY <1>3, <1>4, <1>5, <1>6, <1>7 DEF MasterNext

\* A result is announced in its channel at most once, for any number of commands, crashes, failed
\* acknowledgements and deleted streams: what was posted is never handled again, although the
\* POST comes before the XACK.
THEOREM OneAnnouncement == Spec => []BroadcastOnce
<1>1. Init => CastInv
  <2> SUFFICES ASSUME Init PROVE OneCast
    BY HeldInit DEF CastInv
  <2>1. \A w \in Workers : wpc[w] = "down"
    BY DEF Init
  <2>2. QED
    BY <2>1, NoCast DEF Init, OneCast, Due, Holds
<1>2. CastInv /\ [Next]_vars => CastInv'
  <2> SUFFICES ASSUME CastInv, [Next]_vars PROVE OneCast'
    BY HeldStep DEF CastInv
  <2>1. CASE UNCHANGED vars
    BY <2>1, CastInPlace DEF vars, resVars, workerVars, masterVars, history
  <2>2. ASSUME NEW j \in Jobs, PublishJob(j) PROVE OneCast'
    BY <2>2, CastInPlace DEF PublishJob, resVars, workerVars, masterVars
  <2>3. QED
    BY <2>1, <2>2, CastByRouter, CastByWorker, CastByMaster DEF Next
<1>3. CastInv => BroadcastOnce
  BY DEF CastInv, OneCast, BroadcastOnce
<1>4. QED
  BY <1>1, <1>2, <1>3, PTL DEF Spec
-----------------------------------------------------------------------------
(***************************************************************************)
(* The answer stays.  Of the edits of an interaction that Discord has not  *)
(* applied yet, a result is the last one, and there is only one: whoever   *)
(* passes it to editReply took the interaction out of pendingMap first,    *)
(* and the router adds nothing behind it.  The one step that would is the  *)
(* catch block of the waiting phrase, when the result overtook the phrase. *)
(***************************************************************************)
Fresh == {"idle", "accepted", "published"}

\* What is still outstanding for an interaction.
AnswerLast(i) ==
    /\ route[i] \in Fresh => i \notin pending /\ edits[i] = <<>>
    /\ i \in pending \/ route[i] \in Fresh \/ edits[i] # <<>> => reply[i] \notin Body
    /\ \A k \in 1..Len(edits[i]) :
          edits[i][k] \in Body => k = Len(edits[i]) /\ i \notin pending

Outstanding == TypeInv /\ \A i \in Interactions : AnswerLast(i)

\* The edit with the phrase fails, if it does, before the result is passed to editReply.
PhraseInTime == \A i \in Interactions : PhraseFails(i) => i \in pending

Unreplaced == \A i \in Interactions : reply[i] \in Body => reply'[i] = reply[i]

\* A step that sends no edit and applies none.
LEMMA NoEdit ==
    ASSUME Outstanding, UNCHANGED <<pending, edits, reply>>,
           \A i \in Interactions : route'[i] \in Fresh => route[i] \in Fresh
    PROVE  (\A i \in Interactions : AnswerLast(i)') /\ Unreplaced
BY DEF Outstanding, AnswerLast, Unreplaced

\* A step that touches one interaction only.
LEMMA OneInteraction ==
    ASSUME Outstanding, NEW i \in Interactions, AnswerLast(i)',
           reply[i] \in Body => reply'[i] = reply[i],
           \A h \in Interactions \ {i} :
              /\ route'[h] = route[h] /\ edits'[h] = edits[h] /\ reply'[h] = reply[h]
              /\ h \in pending' <=> h \in pending
    PROVE  (\A h \in Interactions : AnswerLast(h)') /\ Unreplaced
<1>1. ASSUME NEW h \in Interactions \ {i}
      PROVE  AnswerLast(h)' /\ (reply[h] \in Body => reply'[h] = reply[h])
  BY <1>1 DEF Outstanding, AnswerLast
<1>2. QED
  BY <1>1 DEF Unreplaced

LEMMA AnswerStaysRouter ==
    ASSUME Outstanding, NEW i \in Interactions, RouterNext(i), PhraseInTime
    PROVE  (\A h \in Interactions : AnswerLast(h)') /\ Unreplaced
<1>0. /\ i \in Cmds /\ edits[i] \in Seq(Notice \cup Body) /\ TypeOK /\ AnswerLast(i)
      /\ Notice \cap Body = {} /\ {"none", "deferred"} \cap Body = {}
      /\ {"phrase", "failed", "denied"} \cap Body = {}
  BY DEF Outstanding, TypeInv, TypeOK, Cmds, Notice, Body, Outcome
<1>1. CASE Receive(i)
  <2>1. /\ route[i] \in Fresh /\ reply'[i] = "deferred"
        /\ UNCHANGED <<pending, edits>>
        /\ \A h \in Interactions \ {i} : route'[h] = route[h] /\ reply'[h] = reply[h]
    BY <1>0, <1>1 DEF Receive, TypeOK, Fresh
  <2>2. AnswerLast(i)' /\ (reply[i] \in Body => reply'[i] = reply[i])
    BY <1>0, <2>1 DEF AnswerLast
  <2>3. QED
    BY <2>1, <2>2, OneInteraction
<1>2. CASE DeferFails(i) \/ ClosingFails(i)
  <2>1. \E killed \in SUBSET Interactions : MasterExit(killed)
    BY <1>2 DEF DeferFails, ClosingFails
  <2>2. \A h \in Interactions : /\ edits'[h] = <<>> /\ h \notin pending' /\ reply'[h] = reply[h]
                                /\ route'[h] \in Fresh => route[h] \in Fresh
    BY <2>1 DEF MasterExit, Fresh, Cmds
  <2>3. QED
    BY <2>2 DEF Outstanding, AnswerLast, Unreplaced
<1>3. CASE RefuseChannel(i) \/ PublishFails(i) \/ Register(i)
  <2>0. /\ route[i] \in Fresh /\ reply' = reply /\ pending' \in {pending, pending \cup {i}}
        /\ \E step \in {"closing", "phrasing"} : route' = [route EXCEPT ![i] = step]
        /\ \E e \in Notice : edits' = [edits EXCEPT ![i] = Append(@, e)]
    BY <1>3 DEF RefuseChannel, PublishFails, Register, Fresh, Notice
  <2>1. /\ route[i] \in Fresh /\ route'[i] \notin Fresh
        /\ reply' = reply /\ pending' \in {pending, pending \cup {i}}
        /\ \E e \in Notice : edits' = [edits EXCEPT ![i] = Append(@, e)]
        /\ \A h \in Interactions \ {i} : route'[h] = route[h]
    BY <1>0, <2>0 DEF TypeOK, Fresh, Cmds
  <2>2. PICK e \in Notice : edits'[i] = Append(<<>>, e)
    BY <1>0, <2>1 DEF AnswerLast, TypeOK
  <2>3. Len(edits'[i]) = 1 /\ edits'[i][1] = e /\ e \notin Body
    BY <1>0, <2>2
  <2>4. AnswerLast(i)' /\ (reply[i] \in Body => reply'[i] = reply[i])
    BY <1>0, <2>1, <2>3 DEF AnswerLast
  <2>5. \A h \in Interactions \ {i} : edits'[h] = edits[h]
    BY <1>0, <2>1 DEF TypeOK
  <2>6. QED
    BY <2>1, <2>4, <2>5, OneInteraction
<1>4. CASE Publish(i)
  <2>1. \A h \in Interactions : route'[h] \in Fresh => route[h] \in Fresh
    BY <1>0, <1>4 DEF Publish, TypeOK, Fresh
  <2>2. QED
    BY <1>4, <2>1, NoEdit DEF Publish
<1>5. CASE EditApplied(i) \/ AnswerFails(i)
  <2>1. /\ edits[i] # <<>> /\ edits' = [edits EXCEPT ![i] = Tail(@)]
        /\ reply' \in {reply, [reply EXCEPT ![i] = Head(edits[i])]}
        /\ pending' = pending
        /\ route' \in {route, [route EXCEPT ![i] = "done"]}
    BY <1>5 DEF EditApplied, AnswerFails
  <2>2. /\ Len(edits[i]) \in Nat /\ Len(edits[i]) > 0 /\ edits[i][1] = Head(edits[i])
        /\ Tail(edits[i]) \in Seq(Notice \cup Body)
        /\ Len(Tail(edits[i])) = Len(edits[i]) - 1
        /\ \A k \in 1..Len(Tail(edits[i])) :
              k + 1 \in 1..Len(edits[i]) /\ Tail(edits[i])[k] = edits[i][k + 1]
    BY <1>0, <2>1, TailFacts
  <2>3. /\ edits'[i] = Tail(edits[i]) /\ route[i] \notin Fresh /\ route'[i] \notin Fresh
        /\ reply[i] \notin Body /\ reply'[i] \in {reply[i], Head(edits[i])}
    BY <1>0, <2>1 DEF AnswerLast, TypeOK, Fresh
  <2>4. \A h \in Interactions \ {i} :
            route'[h] = route[h] /\ edits'[h] = edits[h] /\ reply'[h] = reply[h]
    BY <1>0, <2>1 DEF TypeOK, Cmds
  <2>5. CASE Head(edits[i]) \in Body
    <3>1. Len(edits[i]) = 1 /\ i \notin pending
      <4>1. 1 \in 1..Len(edits[i]) /\ edits[i][1] \in Body
        BY <2>2, <2>5
      <4>2. QED
        BY <1>0, <4>1 DEF AnswerLast
    <3>2. edits'[i] = <<>> /\ Len(edits'[i]) = 0
      BY <2>2, <2>3, <3>1
    <3>3. \A k \in 1..Len(edits'[i]) : FALSE
      BY <3>2
    <3>4. AnswerLast(i)'
      BY <2>1, <2>3, <3>1, <3>2, <3>3 DEF AnswerLast
    <3>5. QED
      BY <2>1, <2>3, <2>4, <3>4, OneInteraction
  <2>6. CASE Head(edits[i]) \notin Body
    <3>1. \A k \in 1..Len(edits'[i]) :
            edits'[i][k] \in Body => k = Len(edits'[i]) /\ i \notin pending
      BY <1>0, <2>2, <2>3 DEF AnswerLast
    <3>2. AnswerLast(i)'
      BY <2>1, <2>3, <2>6, <3>1 DEF AnswerLast
    <3>3. QED
      BY <2>1, <2>3, <2>4, <3>2, OneInteraction
  <2>7. QED
    BY <2>5, <2>6
<1>6. CASE PhraseFails(i)
  <2>0. i \in pending
    BY <1>6 DEF PhraseInTime
  <2>1. /\ i \in pending /\ edits[i] # <<>> /\ route'[i] = "closing"
        /\ edits'[i] = Append(Tail(edits[i]), "failed")
        /\ UNCHANGED <<pending, reply>>
        /\ \A h \in Interactions \ {i} : route'[h] = route[h] /\ edits'[h] = edits[h]
    BY <1>0, <1>6, <2>0 DEF PhraseFails, TypeOK, Cmds
  <2>2. /\ Tail(edits[i]) \in Seq(Notice \cup Body) /\ Len(Tail(edits[i])) \in Nat
        /\ \A k \in 1..Len(Tail(edits[i])) :
              k + 1 \in 1..Len(edits[i]) /\ Tail(edits[i])[k] = edits[i][k + 1]
    BY <1>0, <2>1, TailFacts
  <2>3. \A k \in 1..Len(edits'[i]) : edits'[i][k] \notin Body
    <3>1. \A k \in 1..Len(Tail(edits[i])) : Tail(edits[i])[k] \notin Body
      BY <1>0, <2>1, <2>2 DEF AnswerLast
    <3>2. QED
      BY <1>0, <2>1, <2>2, <3>1
  <2>4. AnswerLast(i)' /\ reply[i] \notin Body
    BY <1>0, <2>1, <2>3 DEF AnswerLast, Fresh
  <2>5. QED
    BY <2>1, <2>4, OneInteraction
<1>7. QED
  BY <1>1, <1>2, <1>3, <1>4, <1>5, <1>6 DEF RouterNext

LEMMA AnswerStaysMaster ==
    ASSUME Outstanding, MasterNext
    PROVE  (\A h \in Interactions : AnswerLast(h)') /\ Unreplaced
<1>0. TypeOK /\ BatchInHand /\ mbatch \in Seq(ResultMsg)
  BY DEF Outstanding, TypeInv, TypeOK
<1>1. CASE CrashMaster
  <2>1. \A h \in Interactions : /\ edits'[h] = <<>> /\ h \notin pending' /\ reply'[h] = reply[h]
                                /\ route'[h] \in Fresh => route[h] \in Fresh
    BY <1>1 DEF CrashMaster, MasterExit, Fresh, Cmds
  <2>2. QED
    BY <2>1 DEF Outstanding, AnswerLast, Unreplaced
<1>2. CASE Deliver
  <2>1. mbatch # <<>> /\ Arrived \in ResultMsg
    BY <1>0, <1>2, TailFacts DEF Deliver, AtLookup, BatchInHand, Arrived
  <2>2. PICK h \in Interactions, b \in Body :
            /\ h \in pending /\ pending' = pending \ {h}
            /\ edits' = [edits EXCEPT ![h] = Append(@, b)] /\ UNCHANGED <<route, reply>>
    BY <1>0, <1>2, <2>1 DEF Deliver, ResultMsg, TypeOK
  <2>3. edits[h] \in Seq(Notice \cup Body) /\ edits'[h] = Append(edits[h], b)
    BY <1>0, <2>2 DEF TypeOK
  <2>4. AnswerLast(h)' /\ reply[h] \notin Body
    BY <2>2, <2>3 DEF Outstanding, AnswerLast
  <2>5. \A g \in Interactions \ {h} : edits'[g] = edits[g]
    BY <1>0, <2>2 DEF TypeOK
  <2>6. QED
    BY <2>2, <2>4, <2>5, OneInteraction
<1>3. CASE UNCHANGED routerVars
  BY <1>3, NoEdit DEF routerVars
<1>4. QED
  BY <1>1, <1>2, <1>3 DEF MasterNext, BootMaster, EnsureResultGroup, ResultLoopDies, ReadResults,
     Broadcast, NoPending, AckResult, AckResultFails, DropResultStream

\* What the user reads once the result is there is never replaced by the waiting phrase or an
\* error text, for any number of commands, crashes, lost entries and failed edits, unless the
\* edit with the phrase fails after the result overtook it (interactionRouter.js:99-107).
THEOREM AnswerStays == Spec /\ [][PhraseInTime]_vars => AnswerIsFinal
<1>1. Init => Outstanding
  BY TypeInvInit DEF Init, Outstanding, AnswerLast, Body, Outcome, Cmds
<1>2. Outstanding /\ [Next]_vars /\ [PhraseInTime]_vars => Outstanding' /\ [Unreplaced]_vars
  <2> SUFFICES ASSUME Outstanding, [Next]_vars, [PhraseInTime]_vars
               PROVE  (\A i \in Interactions : AnswerLast(i)') /\ [Unreplaced]_vars
    BY TypeInvStep DEF Outstanding
  <2>1. CASE UNCHANGED vars
    BY <2>1, NoEdit DEF vars, routerVars
  <2>2. CASE PhraseInTime
    <3>1. ASSUME NEW i \in Interactions, RouterNext(i)
          PROVE  (\A h \in Interactions : AnswerLast(h)') /\ Unreplaced
      BY <2>2, <3>1, AnswerStaysRouter
    <3>2. ASSUME NEW j \in Jobs, PublishJob(j)
          PROVE  (\A h \in Interactions : AnswerLast(h)') /\ Unreplaced
      <4>1. \A h \in Interactions : route'[h] \in Fresh => route[h] \in Fresh
        BY <3>2 DEF PublishJob, Outstanding, TypeInv, TypeOK, Cmds, Fresh
      <4>2. QED
        BY <3>2, <4>1, NoEdit DEF PublishJob
    <3>3. ASSUME NEW w \in Workers, WorkerNext(w)
          PROVE  (\A h \in Interactions : AnswerLast(h)') /\ Unreplaced
      <4>1. UNCHANGED routerVars
        BY <3>3 DEF WorkerNext, BootWorker, ReadCmds, RecreateCmdGroup, Forward, ForwardFails,
           Execute, RejectUnknown, PublishResult, AckCmd, AbortBatch, CrashWorker, DropCmdStream
      <4>2. QED
        BY <4>1, NoEdit DEF routerVars
    <3>4. CASE UNCHANGED vars
      BY <2>1, <3>4
    <3>5. QED
      BY <3>1, <3>2, <3>3, <3>4, AnswerStaysMaster DEF Next
  <2>3. QED
    BY <2>1, <2>2
<1>3. [][Unreplaced]_vars => AnswerIsFinal
  BY DEF Unreplaced, AnswerIsFinal
<1>4. QED
  BY <1>1, <1>2, <1>3, PTL DEF Spec
=============================================================================
