---------------------------- MODULE MCJmapState ----------------------------
(* Small instances of JmapState. *)
EXTENDS JmapState, TLC

CONSTANTS m1, m2

MCMsg    == {m1, m2}
Symmetry == Permutations(MCMsg)
=============================================================================
