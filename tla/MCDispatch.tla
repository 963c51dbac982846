----------------------------- MODULE MCDispatch -----------------------------
(***************************************************************************)
(* Two opens, so that a load is superseded by the same directory or by the *)
(* other, and two commands, so that both are deferred; a third shows one   *)
(* that passes while two are.                                              *)
(***************************************************************************)
EXTENDS DispatchProperties

MCCommands == {"r1", "r2", "r3"}
MCTwoCommands == {"r1", "r2"}
MCOpens == {"o1", "o2"}
MCDirs == {"d1", "d2"}
=============================================================================
