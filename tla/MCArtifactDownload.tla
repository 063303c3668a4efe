--------------------------- MODULE MCArtifactDownload ---------------------------
(***************************************************************************)
(* Two artifacts that share a block and two providers that may have both.  *)
(* Two block requests are in flight at a time, so that a block waits while *)
(* others are asked for.                                                   *)
(***************************************************************************)
EXTENDS ArtifactDownload

CONSTANTS p1, p2, a1, a2

MCBlocksOf  == [a \in Artifacts |-> IF a = a1 THEN {1, 2, 3} ELSE {3}]
MCManifests == {{1, 2, 3}, {3}}

=============================================================================
