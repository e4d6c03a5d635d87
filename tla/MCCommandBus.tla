---------------------------- MODULE MCCommandBus ----------------------------
(***************************************************************************)
(* Small instances of CommandBus.                                          *)
(***************************************************************************)
EXTENDS CommandBus

CONSTANTS i1, i2, i3, j1, t1

\* i1 is an ordinary command, i2 a market command, j1 a scheduled one.
MCTenantOf == [c \in Cmds |-> IF c = i3 THEN NoTenant ELSE t1]

\* All processes are up and have created their groups, which is the state the
\* deployment is in whenever a user types a command.
WarmInit ==
    /\ route = [c \in Cmds |-> "idle"]
    /\ pending = {}
    /\ edits = [i \in Interactions |-> <<>>]
    /\ reply = [i \in Interactions |-> "none"]
    /\ cmdGroup = [w \in Workers |-> TRUE]
    /\ cmdQueue = [w \in Workers |-> <<>>]
    /\ cmdPel = [w \in Workers |-> {}]
    /\ resGroup = TRUE
    /\ resQueue = <<>>
    /\ resPel = {}
    /\ wpc = [w \in Workers |-> "read"]
    /\ wbatch = [w \in Workers |-> <<>>]
    /\ wout = [w \in Workers |-> "err"]
    /\ mpc = "read"
    /\ mbatch = <<>>
    /\ faults = 0
    /\ asked = {}
    /\ executed = [c \in Cmds |-> 0]
    /\ answered = [i \in Interactions |-> {}]
    /\ posts = [c \in Cmds |-> 0]
    /\ handled = {}
    /\ lost = {}

WarmSpec == WarmInit /\ [][Next]_vars
WarmFairSpec == WarmSpec /\ Fairness
=============================================================================
