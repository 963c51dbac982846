----------------------------- MODULE MCDbModule -----------------------------
(***************************************************************************)
(* Instances of DbModule for TLC.                                          *)
(***************************************************************************)
EXTENDS DbModuleProperties, TLC

CONSTANTS c1, c2, c3, h1, h2

TwoCallers   == {c1, c2}
ThreeCallers == {c1, c2, c3}
TwoHandles   == {h1, h2}
ClientsOf2   == TwoCallers \cup TwoHandles
ClientsOf3   == ThreeCallers \cup TwoHandles

\* Not of the handles: FreshHandle chooses among them.
CallerSymmetry == Permutations(ThreeCallers)
=============================================================================
