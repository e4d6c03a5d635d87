--------------------------- MODULE MCPajamaMonitor ---------------------------
(***************************************************************************)
(* Small instances of PajamaMonitor.                                       *)
(***************************************************************************)
EXTENDS PajamaMonitor

CONSTANTS c1, s1
=============================================================================
