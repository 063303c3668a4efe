---------------------------- MODULE MCUpdateTransfer ----------------------------
(***************************************************************************)
(* One peer, this Agent and the Debugger as components, two versions,      *)
(* packages of two chunks, and three updates, so that a later one meets    *)
(* the staging files and the reports of the earlier ones.                  *)
(***************************************************************************)
EXTENDS UpdateTransfer

CONSTANTS p1, debugger

=============================================================================
