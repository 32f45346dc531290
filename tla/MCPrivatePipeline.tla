---------------------------- MODULE MCPrivatePipeline ----------------------------
(* Instances of PrivatePipeline small enough for TLC. *)
EXTENDS PrivatePipeline, TLC

CONSTANTS a1, a2, c1, c2, v0, v1

(* Pointers travel along a pipeline: from lower to higher ranks. *)
Ascending == {r \in Executor \X Executor : r[1] < r[2]}

(* Nothing distinguishes two addresses or two blocks. *)
Interchangeable == Permutations({a1, a2}) \cup Permutations({c1, c2})
=============================================================================
