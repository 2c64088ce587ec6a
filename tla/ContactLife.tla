----------------------------- MODULE ContactLife -----------------------------
(***************************************************************************)
(* What the life of a cold contact promises, with no queue, claims, retries*)
(* or CRM: who asks to be left alone is not moved to the CRM after it, and *)
(* is heard until an opt-out from the post-call form, and no other, is     *)
(* lifted; a contact becomes one person at a time, and nobody becomes the  *)
(* person another contact became.                                          *)
(***************************************************************************)
CONSTANTS Contacts, People, Nil

VARIABLES
  place,     \* contact -> "ACTIVE", "MOVED", "OPTED_OUT" or "REMOVED"
  stopped,   \* contacts who asked to be left alone
  liftable,  \* of those, the ones who did so in the form of a call
  became     \* contact -> the person in the CRM they are, or Nil

lvars == <<place, stopped, liftable, became>>

LInit == /\ place = [c \in Contacts |-> "ACTIVE"] /\ became = [c \in Contacts |-> Nil]
         /\ stopped = {} /\ liftable = {}

Move(c, i) == /\ place[c] = "ACTIVE" /\ c \notin stopped
              /\ \A d \in Contacts : became[d] # i
              /\ place' = [place EXCEPT ![c] = "MOVED"] /\ became' = [became EXCEPT ![c] = i]
              /\ UNCHANGED <<stopped, liftable>>

(* A move undone: who asked meanwhile to be left alone is.                 *)
Return(c) == /\ place[c] = "MOVED"
             /\ place' = [place EXCEPT ![c] = IF c \in stopped THEN "OPTED_OUT" ELSE "ACTIVE"]
             /\ became' = [became EXCEPT ![c] = Nil]
             /\ UNCHANGED <<stopped, liftable>>

(* Asked once; where from is not changed by asking again.                  *)
Stop(c) == /\ c \notin stopped
           /\ stopped' = stopped \cup {c}
           /\ liftable' \in {liftable, liftable \cup {c}}
           /\ place' = [place EXCEPT ![c] = IF @ = "MOVED" THEN @ ELSE "OPTED_OUT"]
           /\ UNCHANGED became

Lift(c) == /\ c \in liftable
           /\ stopped' = stopped \ {c} /\ liftable' = liftable \ {c}
           /\ place' = [place EXCEPT ![c] = IF @ = "OPTED_OUT" THEN "ACTIVE" ELSE @]
           /\ UNCHANGED became

Remove(c) == /\ place[c] = "ACTIVE" /\ c \notin stopped
             /\ place' = [place EXCEPT ![c] = "REMOVED"]
             /\ UNCHANGED <<stopped, liftable, became>>

LNext == \E c \in Contacts : \/ \E i \in People : Move(c, i)
                             \/ Return(c) \/ Stop(c) \/ Lift(c) \/ Remove(c)

Spec == LInit /\ [][LNext]_lvars
=============================================================================
