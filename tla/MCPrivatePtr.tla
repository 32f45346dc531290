---------------------------- MODULE MCPrivatePtr ----------------------------
(* Instances of PrivatePtr small enough for TLC. *)
EXTENDS PrivatePtr, TLC

CONSTANTS a1, a2, c1, c2, v0, v1

(* Pointers may travel anywhere, back to where they came from included. *)
AnyRoute == {r \in Executor \X Executor : r[1] # r[2]}

(* Nothing distinguishes two addresses or two blocks. *)
Interchangeable == Permutations({a1, a2}) \cup Permutations({c1, c2})
=============================================================================
