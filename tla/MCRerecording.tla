--------------------------- MODULE MCRerecording ---------------------------
(* Small instances of Rerecording for TLC.                                 *)
EXTENDS Rerecording, TLC

CONSTANTS Left, Right, Idle

InputSet == {Left, Right}
InputSymmetry == Permutations(InputSet)
=============================================================================
