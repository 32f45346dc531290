---------------------------- MODULE MCPublicPtr ----------------------------
(* Instances of PublicPtr small enough for TLC. *)
EXTENDS PublicPtr

CONSTANTS a1, a2, h1, h2, h3, v0
=============================================================================
