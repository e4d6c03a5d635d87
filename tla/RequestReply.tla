---------------------------- MODULE RequestReply ----------------------------
(***************************************************************************)
(* What the command path promises whatever happens to its processes and    *)
(* streams: a command is executed at most once and only after it was       *)
(* published, and an interaction is given at most one answer, which never  *)
(* claims an outcome of an execution that did not take place.              *)
(***************************************************************************)
EXTENDS Naturals

CONSTANTS Interactions, Jobs, Market, Unknown

VARIABLES
    asked,   \* commands published
    runs,    \* how often each was executed
    answers  \* the answers each interaction was given

Cmds == Interactions \cup Jobs

Init ==
    /\ asked = {}
    /\ runs = [c \in Cmds |-> 0]
    /\ answers = [i \in Interactions |-> {}]

Ask(c) ==
    /\ c \notin asked
    /\ asked' = asked \cup {c}
    /\ UNCHANGED <<runs, answers>>

Run(c) ==
    /\ c \in asked \ Unknown
    /\ runs[c] = 0
    /\ runs' = [runs EXCEPT ![c] = 1]
    /\ UNCHANGED <<asked, answers>>

\* Success and failure are reports on an execution; only an unknown command
\* fails without one, and only a market command can fail to be routed.
Justified(i, b) ==
    \/ b \in {"ok", "err", "cast"} /\ runs[i] = 1
    \/ b = "err" /\ i \in Unknown
    \/ b = "routeErr" /\ i \in Market

Answer(i, b) ==
    /\ i \in asked
    /\ answers[i] = {}
    /\ Justified(i, b)
    /\ answers' = [answers EXCEPT ![i] = {b}]
    /\ UNCHANGED <<asked, runs>>

Next ==
    \/ \E c \in Cmds : Ask(c) \/ Run(c)
    \/ \E i \in Interactions : \E b \in {"ok", "err", "cast", "routeErr"} : Answer(i, b)

Spec == Init /\ [][Next]_<<asked, runs, answers>>
=============================================================================
