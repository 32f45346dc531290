----------------------------- MODULE MCEndpoint -----------------------------
(* Instances of Endpoint small enough for TLC; ranks are ordered, so that  *)
(* executors are numbers here and not model values.                        *)
EXTENDS Endpoint

(* The two outer ranks are clients of the one between them. *)
OneServer == {<<0, 1>>, <<2, 1>>}
=============================================================================
