------------------------------ MODULE WebLogin ------------------------------
(***************************************************************************)
(* Logging in to the stock page: the worker issues a link that is good for *)
(* five minutes and for one login, the API consumes it and sets a session  *)
(* cookie for seven days, and the page asks who is logged in.              *)
(***************************************************************************)
EXTENDS Faults, FiniteSets

CONSTANTS
    Links,        \* tokens
    Visits,       \* requests of /auth/consume, each from a browser of its own
    Nobody        \* no link, no session

ASSUME WebLoginAssumption == Nobody \notin Links

VARIABLES
    wlKey,        \* the tokens Redis holds
    wlIssued,     \* the tokens that were issued
    wlPc,         \* of each visit
    wlPayload,    \* the link whose payload a visit read
    wlCookie      \* the link that opened the session in the visit's browser

wlVars == <<wlKey, wlIssued, wlPc, wlPayload, wlCookie, faults>>

WlTypeOK ==
    /\ wlKey \subseteq Links
    /\ wlIssued \subseteq Links
    /\ wlPc \in [Visits -> {"idle", "consumed", "done"}]
    /\ wlPayload \in [Visits -> Links \cup {Nobody}]
    /\ wlCookie \in [Visits -> Links \cup {Nobody}]
    /\ faults \in 0..MaxFaults

WlInit ==
    /\ wlKey = {} /\ wlIssued = {}
    /\ wlPc = [v \in Visits |-> "idle"]
    /\ wlPayload = [v \in Visits |-> Nobody]
    /\ wlCookie = [v \in Visits |-> Nobody]
    /\ faults = 0
-----------------------------------------------------------------------------
WlIssue(l) ==
    /\ l \notin wlIssued
    /\ wlIssued' = wlIssued \cup {l} /\ wlKey' = wlKey \cup {l}
    /\ NoFault /\ UNCHANGED <<wlPc, wlPayload, wlCookie>>

WlExpire(l) ==
    /\ l \in wlKey
    /\ wlKey' = wlKey \ {l}
    /\ NoFault /\ UNCHANGED <<wlIssued, wlPc, wlPayload, wlCookie>>

\* Seeded bug: GET.
WlPeek(l) == UNCHANGED wlKey

\* What GETDEL leaves.
WlTake(l) == wlKey' = wlKey \ {l}

WlConsume(v, l) ==
    /\ wlPc[v] = "idle" /\ l \in wlIssued
    /\ wlPc' = [wlPc EXCEPT ![v] = "consumed"]
    /\ wlPayload' = [wlPayload EXCEPT ![v] = IF l \in wlKey THEN l ELSE Nobody]
    /\ WlTake(l)
    /\ NoFault /\ UNCHANGED <<wlIssued, wlCookie>>

\* The redirect, with a cookie if there was a payload.
WlRedirect(v) ==
    /\ wlPc[v] = "consumed"
    /\ wlPc' = [wlPc EXCEPT ![v] = "done"]
    /\ wlCookie' = [wlCookie EXCEPT ![v] = wlPayload[v]]
    /\ NoFault /\ UNCHANGED <<wlKey, wlIssued, wlPayload>>

\* Redis answers with an error, or the process dies with the token consumed.
WlFail(v) ==
    /\ Fault
    /\ wlPc[v] \in {"idle", "consumed"}
    /\ wlPc' = [wlPc EXCEPT ![v] = "done"]
    /\ UNCHANGED <<wlKey, wlIssued, wlPayload, wlCookie>>

\* After seven days verifySessionJwt throws.
WlSessionEnds(v) ==
    /\ wlCookie[v] # Nobody
    /\ wlCookie' = [wlCookie EXCEPT ![v] = Nobody]
    /\ NoFault /\ UNCHANGED <<wlKey, wlIssued, wlPc, wlPayload>>
-----------------------------------------------------------------------------
WlNext ==
    \/ \E l \in Links : WlIssue(l) \/ WlExpire(l)
    \/ \E v \in Visits :
        \/ \E l \in Links : WlConsume(v, l)
        \/ WlRedirect(v) \/ WlFail(v) \/ WlSessionEnds(v)

WlSpec == WlInit /\ [][WlNext]_wlVars
-----------------------------------------------------------------------------
(***************************************************************************)
(* A link logs in one browser at most, however many open it at the same    *)
(* time, and none before it was issued (magicLink.js:43: the read and the  *)
(* deletion are one command).                                              *)
(***************************************************************************)
WlOneLogin ==
    /\ \A v \in Visits : wlCookie[v] \in wlIssued \cup {Nobody}
    /\ \A v, u \in Visits :
        wlPayload[v] # Nobody /\ wlPayload[v] = wlPayload[u] => v = u
=============================================================================
