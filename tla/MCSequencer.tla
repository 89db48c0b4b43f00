---------------------------- MODULE MCSequencer ----------------------------
(* Sequencer for TLC.                                                      *)
EXTENDS Sequencer

CONSTANTS o1, o2, o3

MCOps == {o1, o2, o3}
MCTwoOps == {o1, o2}
OpSymmetry == Permutations(MCOps)
=============================================================================
