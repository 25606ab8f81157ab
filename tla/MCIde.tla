-------------------------------- MODULE MCIde --------------------------------
(***************************************************************************)
(* Ide for TLC: sectors of three units, regions of one to four units (0    *)
(* stands for the largest), a sector count that wraps, and an address      *)
(* that carries into the head.                                             *)
(***************************************************************************)
EXTENDS Ide

MCTables == {<<3>>, <<1, 2, 3>>, <<2, 0>>, <<1, 1, 0>>, <<0, 0, 1>>}
=============================================================================
