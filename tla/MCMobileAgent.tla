----------------------------- MODULE MCMobileAgent -----------------------------
(***************************************************************************)
(* Two Agents, one after the other, and a third start that is refused.     *)
(***************************************************************************)
EXTENDS MobileAgent

=============================================================================
