---------------------------- MODULE Autocomplete ----------------------------
(***************************************************************************)
(* The suggestions shown while an option is typed.  Discord sends a        *)
(* request per keystroke; the master pushes it on the tenant's list and    *)
(* polls the key of the answer until a deadline; the tenant worker, on a   *)
(* connection of its own, pops the requests one at a time, asks the        *)
(* command for its choices and sets the key for ten seconds.               *)
(***************************************************************************)
EXTENDS Faults, Sequences

CONSTANTS
    Keystrokes,   \* requests; each gets a requestId, so they name the keys too
    Empty,        \* no choices
    Nothing       \* no key, no request, no answer

ASSUME AutocompleteAssumption == {Empty, Nothing} \cap Keystrokes = {} /\ Empty # Nothing

VARIABLES
    acPc,       \* of each request in the master
    acShown,    \* what Discord was answered
    acList,     \* bonsai:ac:{tenant}
    acKey,      \* bonsai:ac:res:{requestId}: the request whose choices it holds, or Empty
    acDel,      \* DELs the master sent and does not await
    acTaken,    \* the request the worker popped
    acFound     \* the choices it is about to set

acVars == <<acPc, acShown, acList, acKey, acDel, acTaken, acFound, faults>>
acMaster == <<acPc, acShown, acDel>>
acWorker == <<acTaken, acFound>>

AcTypeOK ==
    /\ acPc \in [Keystrokes -> {"typing", "polling", "answered", "gone"}]
    /\ acShown \in [Keystrokes -> Keystrokes \cup {Empty, Nothing}]
    /\ acList \in Seq(Keystrokes)
    /\ acKey \in [Keystrokes -> Keystrokes \cup {Empty, Nothing}]
    /\ acDel \subseteq Keystrokes
    /\ acTaken \in Keystrokes \cup {Nothing}
    /\ acFound \in Keystrokes \cup {Empty, Nothing}
    /\ faults \in 0..MaxFaults

AcInit ==
    /\ acPc = [k \in Keystrokes |-> "typing"]
    /\ acShown = [k \in Keystrokes |-> Nothing]
    /\ acList = <<>>
    /\ acKey = [k \in Keystrokes |-> Nothing]
    /\ acDel = {}
    /\ acTaken = Nothing /\ acFound = Nothing
    /\ faults = 0
-----------------------------------------------------------------------------
(***************************************************************************)
(* The master.                                                             *)
(***************************************************************************)
Respond(k, choices) ==
    /\ acPc' = [acPc EXCEPT ![k] = "answered"]
    /\ acShown' = [acShown EXCEPT ![k] = choices]

\* Seeded bug: a key for all requests.
ResKeyOfUser(k) == CHOOSE first \in Keystrokes : TRUE

\* The key that holds the answer to a request.
ResKey(k) == k

\* A channel without a tenant: no choices, and nothing is sent.
AcRefuse(k) ==
    /\ acPc[k] = "typing"
    /\ Respond(k, Empty)
    /\ NoFault /\ UNCHANGED <<acDel, acList, acKey, acWorker>>

AcPush(k) ==
    /\ acPc[k] = "typing"
    /\ acPc' = [acPc EXCEPT ![k] = "polling"]
    /\ acList' = Append(acList, k)
    /\ NoFault /\ UNCHANGED <<acShown, acDel, acKey, acWorker>>

\* A poll finds the key.
AcHit(k) ==
    /\ acPc[k] = "polling" /\ acKey[ResKey(k)] # Nothing
    /\ Respond(k, acKey[ResKey(k)])
    /\ acDel' = acDel \cup {ResKey(k)}
    /\ NoFault /\ UNCHANGED <<acList, acKey, acWorker>>

AcDeadline(k) ==
    /\ acPc[k] = "polling"
    /\ Respond(k, Empty)
    /\ acDel' = acDel \cup {ResKey(k)}
    /\ NoFault /\ UNCHANGED <<acList, acKey, acWorker>>

\* RPUSH or GET throws: the router answers without choices, and deletes nothing.  The
\* request of an RPUSH that threw may be on the list.
AcRedisFails(k) ==
    /\ Fault
    /\ \/ acPc[k] = "typing" /\ acList' \in {acList, Append(acList, k)}
       \/ acPc[k] = "polling" /\ UNCHANGED acList
    /\ Respond(k, Empty)
    /\ UNCHANGED <<acDel, acKey, acWorker>>

\* A DEL takes effect, or is lost with the connection.
AcDelete(k) ==
    /\ k \in acDel
    /\ acDel' = acDel \ {k}
    /\ \/ acKey' = [acKey EXCEPT ![k] = Nothing] /\ NoFault
       \/ UNCHANGED acKey /\ Fault
    /\ UNCHANGED <<acPc, acShown, acList, acWorker>>

\* The polls end with the process.
AcMasterCrash ==
    /\ Fault
    /\ \E k \in Keystrokes : acPc[k] = "polling"
    /\ acPc' = [k \in Keystrokes |-> IF acPc[k] = "polling" THEN "gone" ELSE acPc[k]]
    /\ acDel' = {}
    /\ UNCHANGED <<acShown, acList, acKey, acWorker>>
-----------------------------------------------------------------------------
(***************************************************************************)
(* The worker.                                                             *)
(***************************************************************************)
AcPop ==
    /\ acTaken = Nothing /\ acList # <<>>
    /\ acTaken' = Head(acList) /\ acList' = Tail(acList)
    /\ NoFault /\ UNCHANGED <<acMaster, acKey, acFound>>

\* The command's autocomplete; without one, or when it throws, there are no choices.
AcExecute ==
    /\ acTaken # Nothing /\ acFound = Nothing
    /\ acFound' \in {acTaken, Empty}
    /\ NoFault /\ UNCHANGED <<acMaster, acList, acKey, acTaken>>

AcIdle == acTaken' = Nothing /\ acFound' = Nothing

AcSet ==
    /\ acFound # Nothing
    /\ acKey' = [acKey EXCEPT ![ResKey(acTaken)] = acFound]
    /\ AcIdle
    /\ NoFault /\ UNCHANGED <<acMaster, acList>>

\* The SET throws, with or without effect, or the worker dies: the request was popped and
\* is not tried again.
AcLose ==
    /\ Fault
    /\ acTaken # Nothing
    /\ \/ acFound # Nothing /\ acKey' = [acKey EXCEPT ![ResKey(acTaken)] = acFound]
       \/ UNCHANGED acKey
    /\ AcIdle
    /\ UNCHANGED <<acMaster, acList>>

\* Seeded bug: a key that does not expire.
AcKept(k) == FALSE

\* EX 10.
AcExpire(k) ==
    /\ acKey[k] # Nothing
    /\ acKey' = [acKey EXCEPT ![k] = Nothing]
    /\ NoFault /\ UNCHANGED <<acMaster, acList, acWorker>>
-----------------------------------------------------------------------------
AcNext ==
    \/ \E k \in Keystrokes :
        \/ AcRefuse(k) \/ AcPush(k) \/ AcHit(k) \/ AcDeadline(k) \/ AcRedisFails(k)
        \/ AcDelete(k) \/ AcExpire(k)
    \/ AcMasterCrash \/ AcPop \/ AcExecute \/ AcSet \/ AcLose

AcSpec == AcInit /\ [][AcNext]_acVars
-----------------------------------------------------------------------------
(***************************************************************************)
(* The choices a user is shown are those of the request they are shown     *)
(* for, although a popped request may be answered after its deadline, when *)
(* the user has typed on and the master polls for another one              *)
(* (handleAutocomplete.js:35, autocompleteConsumer.js:78).                 *)
(***************************************************************************)
AcOwnChoices == \A k \in Keystrokes : acShown[k] \in {k, Empty, Nothing}

(***************************************************************************)
(* Every request is answered unless the master dies, and nothing of it     *)
(* stays in Redis: neither its entry in the list nor a key that was set    *)
(* after the deadline's DEL (handleAutocomplete.js:66).                    *)
(***************************************************************************)
AcLeavesNothing ==
    <>[](/\ \A k \in Keystrokes : acPc[k] # "polling" /\ acKey[k] = Nothing
         /\ acList = <<>> /\ acTaken = Nothing)
=============================================================================
