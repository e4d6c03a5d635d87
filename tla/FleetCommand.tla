---------------------------- MODULE FleetCommand ----------------------------
(***************************************************************************)
(* The command that makes a character the fleet commander.  With the token *)
(* of the fleet's boss it reads the members, moves the commander it found  *)
(* to the place of the character, and promotes the character.  Commands of *)
(* two tenants, and players in the game, change the same fleet.            *)
(***************************************************************************)
EXTENDS Faults

CONSTANTS
    Pilots,       \* characters that may be in the fleet
    FcCmds,       \* commands
    TargetOf,     \* the character each command is for
    NoPilot       \* nobody

ASSUME FleetAssumption == TargetOf \in [FcCmds -> Pilots] /\ NoPilot \notin Pilots

VARIABLES
    fcMembers,    \* the fleet
    fcSeat,       \* the member with the role fleet_commander
    fcPc,         \* of each command
    fcFound       \* the commander a command found among the members

fcVars == <<fcMembers, fcSeat, fcPc, fcFound, faults>>

FcTypeOK ==
    /\ fcMembers \subseteq Pilots
    /\ fcSeat \in fcMembers \cup {NoPilot}
    /\ fcPc \in [FcCmds -> {"idle", "fleet", "members", "demote", "promote", "done", "failed"}]
    /\ fcFound \in [FcCmds -> Pilots \cup {NoPilot}]
    /\ faults \in 0..MaxFaults

FcInit ==
    /\ fcMembers = Pilots
    /\ fcSeat \in Pilots
    /\ fcPc = [c \in FcCmds |-> "idle"]
    /\ fcFound = [c \in FcCmds |-> NoPilot]
    /\ faults = 0
-----------------------------------------------------------------------------
(***************************************************************************)
(* ESI and the game.                                                       *)
(***************************************************************************)
\* PUT of a role: the seat is given only when it is free.
Seat(p) ==
    /\ fcSeat' = IF p \in fcMembers /\ fcSeat = NoPilot THEN p ELSE fcSeat
    /\ UNCHANGED fcMembers
CanSeat(p) == p \in fcMembers /\ fcSeat = NoPilot
Unseat(p) ==
    /\ fcSeat' = IF fcSeat = p THEN NoPilot ELSE fcSeat
    /\ UNCHANGED fcMembers

\* A player leaves, or hands the command over.
Leaves(p) ==
    /\ Fault
    /\ p \in fcMembers
    /\ fcMembers' = fcMembers \ {p}
    /\ fcSeat' = IF fcSeat = p THEN NoPilot ELSE fcSeat
    /\ UNCHANGED <<fcPc, fcFound>>

HandsOver(p) ==
    /\ Fault
    /\ fcSeat # NoPilot /\ p \in fcMembers \ {fcSeat}
    /\ fcSeat' = p
    /\ UNCHANGED <<fcMembers, fcPc, fcFound>>
-----------------------------------------------------------------------------
(***************************************************************************)
(* The command.                                                            *)
(***************************************************************************)
FcGo(c, step) == fcPc' = [fcPc EXCEPT ![c] = step]

\* The character, its token, its fleet and the boss of it; or an error.
FcFleet(c) ==
    /\ fcPc[c] = "idle"
    /\ FcGo(c, IF TargetOf[c] \in fcMembers THEN "members" ELSE "failed")
    /\ NoFault /\ UNCHANGED <<fcMembers, fcSeat, fcFound>>

\* What follows once the members are known.
FcAfterMembers(c) ==
    CASE fcSeat = TargetOf[c] -> "done"
      [] fcSeat = NoPilot     -> "promote"
      [] OTHER                -> "demote"

FcReadMembers(c) ==
    /\ fcPc[c] = "members"
    /\ fcFound' = [fcFound EXCEPT ![c] = fcSeat]
    /\ FcGo(c, FcAfterMembers(c))
    /\ NoFault /\ UNCHANGED <<fcMembers, fcSeat>>

\* Seeded bug: the command ends with the demotion.
FcDemoteOnly(c) ==
    /\ fcPc[c] = "demote"
    /\ IF fcFound[c] \in fcMembers
       THEN Unseat(fcFound[c]) /\ FcGo(c, "done")
       ELSE FcGo(c, "failed") /\ UNCHANGED <<fcMembers, fcSeat>>
    /\ NoFault /\ UNCHANGED fcFound

\* The commander it found becomes a squad member, wherever the seat is by now.
FcDemote(c) ==
    /\ fcPc[c] = "demote"
    /\ IF fcFound[c] \in fcMembers
       THEN Unseat(fcFound[c]) /\ FcGo(c, "promote")
       ELSE FcGo(c, "failed") /\ UNCHANGED <<fcMembers, fcSeat>>
    /\ NoFault /\ UNCHANGED fcFound

\* Refused when the seat is taken or the character has left.
FcPromote(c) ==
    /\ fcPc[c] = "promote"
    /\ FcGo(c, IF CanSeat(TargetOf[c]) THEN "done" ELSE "failed")
    /\ Seat(TargetOf[c])
    /\ NoFault /\ UNCHANGED fcFound

\* A lookup, a token or a PUT fails, the PUT with or without its effect: the command answers
\* with an error, and what it did stays.
FcFails(c) ==
    /\ Fault
    /\ fcPc[c] \in {"idle", "members", "demote", "promote"}
    /\ FcGo(c, "failed")
    /\ \/ UNCHANGED <<fcMembers, fcSeat>>
       \/ fcPc[c] = "demote" /\ Unseat(fcFound[c])
       \/ fcPc[c] = "promote" /\ Seat(TargetOf[c])
    /\ UNCHANGED fcFound
-----------------------------------------------------------------------------
FcNext ==
    \/ \E p \in Pilots : Leaves(p) \/ HandsOver(p)
    \/ \E c \in FcCmds :
        \/ FcFleet(c) \/ FcReadMembers(c) \/ FcDemote(c) \/ FcPromote(c) \/ FcFails(c)

FcSpec == FcInit /\ [][FcNext]_fcVars
-----------------------------------------------------------------------------
(***************************************************************************)
(* Two commands for one fleet leave it with a commander: while the seat is *)
(* empty some command is on its way to fill it, unless ESI failed or a     *)
(* player left (fleetCommander.js:247, the demotion before the promotion). *)
(***************************************************************************)
FcSeatFilled ==
    faults = 0 /\ fcSeat = NoPilot => \E c \in FcCmds : fcPc[c] = "promote"
=============================================================================
