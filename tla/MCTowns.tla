------------------------------ MODULE MCTowns -------------------------------
(***************************************************************************)
(* The module TLC runs Towns and its properties from: the default town     *)
(* with the renamed source, another town with a source of its own.         *)
(***************************************************************************)
EXTENDS TownsProps

CONSTANTS milton, hull, old, new, board

TwoTowns == {milton, hull}
ThreeSources == {old, new, board}
TownOf == [s \in ThreeSources |-> IF s = board THEN hull ELSE milton]
=============================================================================
