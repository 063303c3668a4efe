------------------------------- MODULE MCUpdater -------------------------------
(***************************************************************************)
(* Three executables, one of which does not start, and two helpers one     *)
(* after the other, so that the second finds what the first left.          *)
(***************************************************************************)
EXTENDS Updater

MCVersions == 1..3
MCHealthy  == {1, 2}

=============================================================================
