---------------------------- MODULE MCOwnership ----------------------------
(* A small instance of Ownership for TLC. *)
EXTENDS Ownership, TLC

CONSTANTS ann, bob, north, south

(* The Junior FO ann is in one pod, the Senior FO bob leads two. *)
TwoPods == [u \in Reps |-> IF u = ann THEN {north} ELSE {north, south}]

(* It does not matter which process serves a request. *)
AnyProcess == Permutations(Procs)
=============================================================================
