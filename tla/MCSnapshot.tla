----------------------------- MODULE MCSnapshot -----------------------------
(***************************************************************************)
(* Two namespaces, so that one can be loaded beside the other.  MCSnapshot *)
(* checks the design; each other configuration adds one of the things that *)
(* breaks it.                                                              *)
(***************************************************************************)
EXTENDS SnapshotProperties

MCNamespaces == {"n1", "n2"}
MCShared == {"universe", "cross_namespace"}

MCFaults == {"store stops", "revert"}
CheckoutFaults == {"commit during"}
OverlapFaults == {"overlap"}
LoadStopsFaults == {"load stops", "revert"}
OriginLostFaults == {"origin lost"}
PlainLoadFaults == {"plain load"}
RepairFaults == {"repair any time"}
=============================================================================
