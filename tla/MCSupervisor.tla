---------------------------- MODULE MCSupervisor ----------------------------
(***************************************************************************)
(* Two requests that may be repeated and one that may not, and enough      *)
(* crashes to leave the restart loop and, after a stable period, enter it  *)
(* again.                                                                  *)
(***************************************************************************)
EXTENDS SupervisorProperties

MCRequests == {"open", "status", "edit"}
MCRetryable == {"open", "status"}
=============================================================================
