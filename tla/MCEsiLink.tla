------------------------------ MODULE MCEsiLink ------------------------------
(***************************************************************************)
(* Small instances of EsiLink.                                             *)
(***************************************************************************)
EXTENDS EsiLink

CONSTANTS u1, u2, c1, c2, r1, r2, q1, q2, q3, k1, k2
=============================================================================
