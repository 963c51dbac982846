---------------------------- MODULE MCWorkspace ----------------------------
(***************************************************************************)
(* Instances of WorkspaceLifecycle for TLC.                                *)
(***************************************************************************)
EXTENDS WorkspaceProperties, TLC

CONSTANTS c1, c2, d1, d2

TwoCallers == {c1, c2}
OneDir     == {d1}
TwoDirs    == {d1, d2}

LifecycleSymmetry == Permutations(TwoCallers) \cup Permutations(TwoDirs)
=============================================================================
