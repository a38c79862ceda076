-------------------------------- MODULE MCPuzzle --------------------------------
(* Instances of Puzzle for TLC: the page open in two tabs. *)
EXTENDS Puzzle

CONSTANTS t1, t2

TwoTabs == {t1, t2}
=================================================================================
