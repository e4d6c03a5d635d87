---------------------------- MODULE MCStockSync ----------------------------
(***************************************************************************)
(* Small instances of StockSync: a ship and a blueprint copy.              *)
(***************************************************************************)
EXTENDS StockSync

CONSTANTS ship, copy, hull, print, x, k1, k2

MCTypeOf == [i \in Items |-> IF i = ship THEN hull ELSE print]
NamedShip == {<<hull, x>>}
UnnamedShip == {<<hull, Null>>}
=============================================================================
