--------------------------- MODULE DowntimeNotice ---------------------------
(***************************************************************************)
(* The notice that EVE is open again.  At eleven the orchestrator starts   *)
(* an interval that polls ESI every 30 seconds; when the server has        *)
(* started today it claims a key in Redis and posts, once for the VIP      *)
(* phase and once for the opening, and the interval ends when it finds the *)
(* opening claimed.  The key is that of the date on which the interval was *)
(* started, and lives for twelve hours.  A timer may fire a moment early   *)
(* and then again.                                                         *)
(***************************************************************************)
EXTENDS Faults, FiniteSets

CONSTANTS
    Intervals,    \* intervals that may be alive at the same time
    MaxDays       \* bound on days

ASSUME DowntimeAssumption == MaxDays \in Nat \ {0}

VARIABLES
    dtDay, dtEleven,      \* the date, and whether the hour of the check has come
    dtServer, dtStart,    \* what /status says: vip or open, and the day of start_time
    dtUp,                 \* the orchestrator
    dtOf,                 \* the day an interval was started, 0 if there is none
    dtStep,               \* what the poll of an interval is about to do
    dtKeys,               \* the days whose key is set, of each phase
    dtClaims,             \* how often a key was claimed on this date
    dtPosts,              \* notices of an opening, by the day of start_time and that of the key
    dtFailed,             \* the starts a claimed notice of which failed, or nobody watched
    dtLate                \* the starts whose opening nobody had claimed by midnight

dtWorld == <<dtDay, dtEleven, dtServer, dtStart>>
dtPoll == <<dtOf, dtStep>>
dtRedis == <<dtKeys, dtClaims>>
dtHistory == <<dtPosts, dtFailed, dtLate>>
dtVars == <<dtWorld, dtUp, dtPoll, dtRedis, dtHistory, faults>>

Days == 1..MaxDays
Phases == {"vip", "open"}

DtTypeOK ==
    /\ dtDay \in Days /\ dtEleven \in BOOLEAN
    /\ dtServer \in {"down"} \cup Phases /\ dtStart \in 0..MaxDays
    /\ dtUp \in BOOLEAN
    /\ dtOf \in [Intervals -> 0..MaxDays]
    /\ dtStep \in [Intervals -> {"wait"} \cup Phases]
    /\ dtKeys \in [Phases -> SUBSET Days] /\ dtClaims \in [Phases -> [Days -> 0..2]]
    /\ dtPosts \in [Days -> [Days -> Nat]]
    /\ dtFailed \subseteq Days /\ dtLate \subseteq Days
    /\ faults \in 0..MaxFaults

NoClaims == [p \in Phases |-> [d \in Days |-> 0]]

DtInit ==
    /\ dtDay = 1 /\ dtEleven = FALSE
    /\ dtServer = "open" /\ dtStart = 0
    /\ dtUp = TRUE
    /\ dtOf = [i \in Intervals |-> 0]
    /\ dtStep = [i \in Intervals |-> "wait"]
    /\ dtKeys = [p \in Phases |-> {}] /\ dtClaims = NoClaims
    /\ dtPosts = [d \in Days |-> [e \in Days |-> 0]]
    /\ dtFailed = {} /\ dtLate = {}
    /\ faults = 0
-----------------------------------------------------------------------------
(***************************************************************************)
(* Polls.                                                                  *)
(***************************************************************************)
Alive == {i \in Intervals : dtOf[i] # 0}

\* The start_time that a poll reads is of today.
DtSees(i, phase) ==
    dtOf[i] # 0 /\ dtStep[i] = "wait" /\ dtServer = phase /\ dtStart = dtDay

\* Seeded bug: SET without NX.
DtAlwaysUnclaimed(i, phase) == TRUE

\* SET NX of the key of the interval's day.
DtUnclaimed(i, phase) == dtOf[i] \notin dtKeys[phase]
-----------------------------------------------------------------------------
(***************************************************************************)
(* The clock and the server.                                               *)
(***************************************************************************)
\* scheduleDailyAt: one interval, or two when the timer fired early; none if it is down.
DtEleven ==
    /\ ~dtEleven /\ dtEleven' = TRUE
    /\ IF dtUp
       THEN \E new \in SUBSET {i \in Intervals : dtOf[i] = 0} :
              /\ Cardinality(new) \in {1, 2}
              /\ dtOf' = [i \in Intervals |-> IF i \in new THEN dtDay ELSE dtOf[i]]
       ELSE UNCHANGED dtOf
    /\ NoFault /\ UNCHANGED <<dtDay, dtServer, dtStart, dtUp, dtStep, dtRedis, dtHistory>>

\* Midnight, also in the VIP phase or between two polls: what is not claimed by then is not
\* of today any more.
DtMidnight ==
    /\ dtEleven /\ dtDay < MaxDays
    /\ dtDay' = dtDay + 1 /\ dtEleven' = FALSE
    /\ dtClaims' = NoClaims
    /\ dtLate' = IF /\ dtStart = dtDay
                    /\ \/ dtServer = "vip"
                       \/ \E i \in Alive : DtUnclaimed(i, "open")
                 THEN dtLate \cup {dtDay} ELSE dtLate
    /\ NoFault /\ UNCHANGED <<dtServer, dtStart, dtUp, dtPoll, dtKeys, dtPosts, dtFailed>>

\* Once a day, hours after midnight: a post under way has ended.
DtServerStops ==
    /\ dtServer # "down" /\ dtStart # dtDay
    /\ \A i \in Intervals : dtStep[i] = "wait"
    /\ dtServer' = "down"
    /\ NoFault /\ UNCHANGED <<dtDay, dtEleven, dtStart, dtUp, dtPoll, dtRedis, dtHistory>>

DtServerStarts(phase) ==
    /\ dtServer = "down"
    /\ dtServer' = phase /\ dtStart' = dtDay
    /\ dtFailed' = IF \E i \in Alive : DtUnclaimed(i, "open")
                   THEN dtFailed ELSE dtFailed \cup {dtDay}
    /\ NoFault /\ UNCHANGED <<dtDay, dtEleven, dtUp, dtPoll, dtRedis, dtPosts, dtLate>>

DtOpens ==
    /\ dtServer = "vip"
    /\ dtServer' = "open"
    /\ NoFault /\ UNCHANGED <<dtDay, dtEleven, dtStart, dtUp, dtPoll, dtRedis, dtHistory>>

\* After twelve hours, so that on one date a key is claimed twice at most.  Polls go on
\* meanwhile: a post under way ends, and whoever can see the opening has seen it.
DtKeyExpires(phase, d) ==
    /\ d \in dtKeys[phase] /\ dtClaims[phase][d] < 2
    /\ \A i \in Alive : dtOf[i] = d => dtStep[i] = "wait" /\ ~DtSees(i, "open")
    /\ dtKeys' = [dtKeys EXCEPT ![phase] = @ \ {d}]
    /\ NoFault /\ UNCHANGED <<dtWorld, dtUp, dtPoll, dtClaims, dtHistory>>
-----------------------------------------------------------------------------
(***************************************************************************)
(* What a poll does.                                                       *)
(***************************************************************************)
DtClaim(i, phase) ==
    /\ DtSees(i, phase) /\ DtUnclaimed(i, phase)
    /\ dtKeys' = [dtKeys EXCEPT ![phase] = @ \cup {dtOf[i]}]
    /\ dtClaims' = [dtClaims EXCEPT ![phase][dtOf[i]] = @ + 1]
    /\ dtStep' = [dtStep EXCEPT ![i] = phase]
    /\ NoFault /\ UNCHANGED <<dtWorld, dtUp, dtOf, dtHistory>>

\* The opening is claimed: the interval ends.
DtEnd(i) ==
    /\ DtSees(i, "open") /\ ~DtUnclaimed(i, "open")
    /\ dtOf' = [dtOf EXCEPT ![i] = 0]
    /\ NoFault /\ UNCHANGED <<dtWorld, dtUp, dtStep, dtRedis, dtHistory>>

Posted(i) ==
    IF dtStep[i] = "open" THEN [dtPosts EXCEPT ![dtStart][dtOf[i]] = @ + 1] ELSE dtPosts

\* Seeded bug: the interval ends with any notice.
DtPostLast(i) ==
    /\ dtStep[i] # "wait"
    /\ dtPosts' = Posted(i)
    /\ dtOf' = [dtOf EXCEPT ![i] = 0]
    /\ dtStep' = [dtStep EXCEPT ![i] = "wait"]
    /\ NoFault /\ UNCHANGED <<dtWorld, dtUp, dtRedis, dtFailed, dtLate>>

\* The notice; after that of the opening the interval ends.
DtPost(i) ==
    /\ dtStep[i] # "wait"
    /\ dtPosts' = Posted(i)
    /\ dtOf' = [dtOf EXCEPT ![i] = IF dtStep[i] = "open" THEN 0 ELSE @]
    /\ dtStep' = [dtStep EXCEPT ![i] = "wait"]
    /\ NoFault /\ UNCHANGED <<dtWorld, dtUp, dtRedis, dtFailed, dtLate>>

\* Something throws with the key set, before the notice or after it (the other webhooks, or
\* an answer that is lost): it is not tried again, and the interval goes on.
DtPostFails(i) ==
    /\ Fault
    /\ dtStep[i] # "wait"
    /\ dtPosts' \in {dtPosts, Posted(i)}
    /\ dtStep' = [dtStep EXCEPT ![i] = "wait"]
    /\ dtFailed' = dtFailed \cup {dtStart}
    /\ UNCHANGED <<dtWorld, dtUp, dtOf, dtRedis, dtLate>>

\* The intervals die with the process, and after eleven no new one comes that day.
DtCrash ==
    /\ Fault
    /\ dtUp /\ dtUp' = FALSE
    /\ dtOf' = [i \in Intervals |-> 0]
    /\ dtStep' = [i \in Intervals |-> "wait"]
    /\ dtFailed' = dtFailed \cup (IF dtEleven \/ dtStart = dtDay THEN {dtDay} ELSE {})
                            \cup {dtStart : i \in {j \in Intervals : dtStep[j] # "wait"}}
    /\ UNCHANGED <<dtWorld, dtRedis, dtPosts, dtLate>>

DtBoot ==
    /\ ~dtUp /\ dtUp' = TRUE
    /\ NoFault /\ UNCHANGED <<dtWorld, dtPoll, dtRedis, dtHistory>>
-----------------------------------------------------------------------------
DtStep(i) == DtClaim(i, "vip") \/ DtClaim(i, "open") \/ DtEnd(i) \/ DtPost(i)

DtNext ==
    \/ DtEleven \/ DtMidnight \/ DtServerStops \/ DtOpens \/ DtCrash \/ DtBoot
    \/ \E phase \in Phases :
        \/ DtServerStarts(phase)
        \/ \E d \in Days : DtKeyExpires(phase, d)
    \/ \E i \in Intervals : DtStep(i) \/ DtPostFails(i)

DtSpec == DtInit /\ [][DtNext]_dtVars
-----------------------------------------------------------------------------
(***************************************************************************)
(* No opening of the server is announced twice under one key: neither two  *)
(* intervals of one date, nor one that lived on to the next date, nor a    *)
(* notice that failed, a restart or a key that has expired repeats it      *)
(* (dtScheduler.js:168).                                                   *)
(***************************************************************************)
DtOneNotice ==
    \A d \in Days : \A e \in Days : dtPosts[d][e] <= 1

(***************************************************************************)
(* An opening that an interval watches is announced, but for a claimed     *)
(* notice that failed, and for an opening nobody has claimed by the        *)
(* midnight after the start (dtScheduler.js:123, :139).                    *)
(***************************************************************************)
DtAnnounced ==
    \A d \in Days :
        dtServer = "open" /\ dtStart = d
            ~> d \in dtFailed \cup dtLate \/ \E e \in Days : dtPosts[d][e] > 0

(***************************************************************************)
(* dtScheduler.js:106, "VIP and opening notices are idempotent per date":  *)
(* on one date no poll is about to post what was claimed under the same    *)
(* key before.                                                             *)
(***************************************************************************)
DtOncePerDate ==
    \A i \in Intervals : dtStep[i] # "wait" => dtClaims[dtStep[i]][dtOf[i]] = 1
=============================================================================
