----------------------------- MODULE MCEvidence -----------------------------
(* A small instance of Evidence for TLC: two steps that one email fits. *)
EXTENDS Evidence

CONSTANTS mail, email

OneEmail == [r \in Records |-> email]
SentOnce == [r \in Records |-> 1]
AllLate  == [t \in Tasks |-> 0]
=============================================================================
