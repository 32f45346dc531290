---------------------------- MODULE MCGamContext ----------------------------
(* Instances of GamContext small enough for TLC. *)
EXTENDS GamContext, TLC

CONSTANTS a1, a2, c1, c2, h1, h2, v0, v1
=============================================================================
