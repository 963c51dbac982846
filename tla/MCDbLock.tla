------------------------------ MODULE MCDbLock ------------------------------
(***************************************************************************)
(* Instances of DbLock for TLC.                                            *)
(***************************************************************************)
EXTENDS DbLockRefinement

CONSTANTS c1, c2, c3, w1, w2

ThreeClients == {c1, c2, c3}
TwoReclaimers == {w1, w2}
=============================================================================
