---------------------------- MODULE MCNextActions ----------------------------
(* Small instances of NextActions for TLC. *)
EXTENDS NextActions, TLC

CONSTANTS r1, r2, ann, bob

BothHaveOne == r1 :> ann @@ r2 :> bob
HasOne == r1 :> ann
=============================================================================
