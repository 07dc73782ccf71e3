----------------------------- MODULE MCTownMap ------------------------------
(***************************************************************************)
(* The module TLC runs TownMap and its properties from.                    *)
(***************************************************************************)
EXTENDS TownMapProps
=============================================================================
