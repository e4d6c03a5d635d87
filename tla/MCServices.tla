----------------------------- MODULE MCServices -----------------------------
(***************************************************************************)
(* Small instances of the services beside the command path.  They share    *)
(* Redis, ESI and Discord but no key and no message, so a behaviour is one *)
(* of one of them (focus) and the others stay as they started: all of them *)
(* together do nothing to one that it does not do alone.                   *)
(***************************************************************************)
EXTENDS Autocomplete, WebLogin, DevBridge, AttackAlert, MarketCache, StationOrders,
        DowntimeNotice, FleetCommand, HangarStock

CONSTANTS
    c1, c2,         \* dev commands
    anchor1, anchor2,
    g1, g2, w1, w2, \* goods, and the workers that ask for them
    p1, p2, p3,     \* pilots
    f1, f2,         \* commands for p1 and p2
    s1, s2,         \* divisions
    hull, ammo

VARIABLE focus
vars == <<focus, acVars, wlVars, dbVars, aaVars, mcVars, soVars, dtVars, fcVars, hsVars>>

MCAnchors == <<anchor1, anchor2>>
MCListOf == [w \in MarketWorkers |-> IF w = w1 THEN {g1, g2} ELSE {g1}]
MCTargetOf == [c \in FcCmds |-> IF c = f1 THEN p1 ELSE p2]
\* Two ships of one name that hold goods, and each other.
MCStuffType == [i \in Stuff |-> IF i = 3 THEN ammo ELSE hull]
MCStuffName == [i \in Stuff |-> IF i = 3 THEN NoName ELSE "box"]
Rule(s, b, t) == [sag |-> s, box |-> b, tracked |-> t]
MCRuleSets ==
    {{}, {Rule(s1, "", FALSE), Rule(s1, "box", TRUE)}, {Rule(s2, "", TRUE), Rule(s2, "box", TRUE)}}
-----------------------------------------------------------------------------
In(service) == focus = service
On(service) == In(service) /\ UNCHANGED focus
restAc == <<acPc, acShown, acList, acKey, acDel, acTaken, acFound>>
restWl == <<wlKey, wlIssued, wlPc, wlPayload, wlCookie>>
restDb == <<dbProd, dbDev, dbRedis, dbPoll, dbLost>>
restAa == <<aaGame, aaMark, aaTick, aaHistory>>
restMc == <<mcCached, mcLock, mcCall, mcLimiter, mcCommands, mcSlow>>
restDt == <<dtWorld, dtUp, dtPoll, dtRedis, dtHistory>>
restFc == <<fcMembers, fcSeat, fcPc, fcFound>>

Ac(A) == On("Autocomplete") /\ A
           /\ UNCHANGED <<restWl, restDb, restAa, restMc, soVars, restDt, restFc, hsVars>>
Wl(A) == On("WebLogin") /\ A
           /\ UNCHANGED <<restAc, restDb, restAa, restMc, soVars, restDt, restFc, hsVars>>
Db(A) == On("DevBridge") /\ A
           /\ UNCHANGED <<restAc, restWl, restAa, restMc, soVars, restDt, restFc, hsVars>>
Aa(A) == On("AttackAlert") /\ A
           /\ UNCHANGED <<restAc, restWl, restDb, restMc, soVars, restDt, restFc, hsVars>>
Mc(A) == On("MarketCache") /\ A
           /\ UNCHANGED <<restAc, restWl, restDb, restAa, soVars, restDt, restFc, hsVars>>
So(A) == On("StationOrders") /\ A
           /\ UNCHANGED <<restAc, restWl, restDb, restAa, restMc, restDt, restFc, hsVars, faults>>
Dt(A) == On("DowntimeNotice") /\ A
           /\ UNCHANGED <<restAc, restWl, restDb, restAa, restMc, soVars, restFc, hsVars>>
Fc(A) == On("FleetCommand") /\ A
           /\ UNCHANGED <<restAc, restWl, restDb, restAa, restMc, soVars, restDt, hsVars>>
Hs(A) == On("HangarStock") /\ A
           /\ UNCHANGED <<restAc, restWl, restDb, restAa, restMc, soVars, restDt, restFc, faults>>

Init ==
    /\ AcInit /\ WlInit /\ DbInit /\ AaInit /\ McInit /\ SoInit /\ DtInit /\ FcInit /\ HsInit
    /\ focus \in {"Autocomplete", "WebLogin", "DevBridge", "AttackAlert", "MarketCache",
                  "StationOrders", "DowntimeNotice", "FleetCommand", "HangarStock"}
    /\ focus = "FleetCommand" \/ fcSeat = p1    \* only there it matters who has the seat

Next ==
    \/ Ac(AcNext) \/ Wl(WlNext) \/ Db(DbNext) \/ Aa(AaNext) \/ Mc(McNext)
    \/ So(SoNext) \/ Dt(DtNext) \/ Fc(FcNext) \/ Hs(HsNext)
Spec == Init /\ [][Next]_vars

\* The loops run, awaits are answered, keys expire; the result queue keeps handing out what
\* is in it.
Fairness ==
    /\ WF_acVars(In("Autocomplete") /\ \E k \in Keystrokes : AcHit(k) \/ AcDeadline(k))
    /\ WF_acVars(In("Autocomplete") /\ \E k \in Keystrokes : AcDelete(k) \/ AcExpire(k))
    /\ WF_acVars(In("Autocomplete") /\ (AcPop \/ AcExecute \/ AcSet))
    /\ WF_dbVars(In("DevBridge") /\ \E c \in DevCmds : DbRegister(c))
    /\ WF_dbVars(In("DevBridge")
                   /\ ((\E batch \in DbBatches : DbReceive(batch)) \/ DbForward \/ DbDelete))
    /\ WF_dbVars(In("DevBridge") /\ (DbExecute \/ DbPublishResult))
    /\ WF_dbVars(In("DevBridge") /\ (DbAnswer \/ DbUnhandled \/ DbPollDelete))
    /\ \A c \in DevCmds : SF_dbVars(In("DevBridge") /\ DbPollReceive(c))
    /\ WF_aaVars(In("AttackAlert") /\ \E t \in Ticks : AaStart(t))
    /\ \A t \in Ticks : WF_aaVars(In("AttackAlert") /\ AaStepOf(t))
    /\ \A w \in MarketWorkers : WF_mcVars(In("MarketCache") /\ \E g \in Goods : McStep(w, g))
    /\ \A i \in Intervals : WF_dtVars(In("DowntimeNotice") /\ DtStep(i))
FairSpec == Spec /\ Fairness
-----------------------------------------------------------------------------
(***************************************************************************)
(* Type correctness of the services; the queue of the market cache never   *)
(* has more requests at ESI than ESI_CONCURRENCY (esiMarketCache.js:28).   *)
(***************************************************************************)
ServicesTypeOK ==
    /\ AcTypeOK /\ WlTypeOK /\ DbTypeOK /\ AaTypeOK /\ McTypeOK
    /\ SoTypeOK /\ DtTypeOK /\ FcTypeOK /\ HsTypeOK
=============================================================================
