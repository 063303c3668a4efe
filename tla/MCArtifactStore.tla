----------------------------- MODULE MCArtifactStore -----------------------------
(***************************************************************************)
(* Two artifacts that share a block; one of them repeats it. The quota has *)
(* room for the larger one, and not for a manifest more.                   *)
(***************************************************************************)
EXTENDS ArtifactStore, TLC

CONSTANTS b1, b2, a1, a2

MCContent == [a \in Artifacts |-> IF a = a1 THEN <<b1, b2>> ELSE <<b2, b2>>]
MCSize    == [b \in Blocks |-> IF b = b1 THEN 3 ELSE 2]

\* The threads are interchangeable.
AnyThread == Permutations(Threads)

=============================================================================
