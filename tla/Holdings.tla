------------------------------ MODULE Holdings ------------------------------
(***************************************************************************)
(* What ownership promises, with no locks, pods or roles: things held by   *)
(* reps.  Nothing is taken from a rep who holds it: they give it away, or a*)
(* leader who sees it in their hands does; only what nobody holds, or what *)
(* a removed rep left behind, may be taken.                                *)
(***************************************************************************)
CONSTANTS Procs, Reps, None,
  Things,   \* contacts and forms
  Forms     \* the things that can be finished

VARIABLES
  holder,   \* thing -> the rep who holds it, or None
  active,   \* reps with access
  left,     \* reps whose access was ever removed
  page      \* process -> the thing a leader is handing on, and whose they saw it

hvars == <<holder, active, left, page>>

NoPage == [on |-> None, seen |-> None]
Page   == [on : Things \cup {None}, seen : Reps \cup {None}]

HInit == /\ holder \in [Things -> Reps \cup {None}]
         /\ active = Reps /\ left = {}
         /\ page = [p \in Procs |-> NoPage]

Look(p) == /\ page[p] = NoPage
           /\ \E x \in Things : page' = [page EXCEPT ![p] = [on |-> x, seen |-> holder[x]]]
           /\ UNCHANGED <<holder, active, left>>

(* What the page showed is still so, and the thing changes hands or is let *)
(* go; or nothing happens.                                                 *)
Give(p) ==
  /\ page' = [page EXCEPT ![p] = NoPage]
  /\ UNCHANGED <<active, left>>
  /\ \E x \in Things, to \in Reps \cup {None} :
       /\ page[p] = [on |-> x, seen |-> holder[x]]
       /\ holder' = [holder EXCEPT ![x] = to]

LookAway(p) == /\ page' = [page EXCEPT ![p] = NoPage]
               /\ UNCHANGED <<holder, active, left>>

(* A claim, a first write or a launch; or the last pod taken off a contact. *)
Take(x) == /\ UNCHANGED <<active, left, page>>
           /\ holder[x] \in {None} \cup left
           /\ \E to \in Reps \cup {None} : holder' = [holder EXCEPT ![x] = to]

(* A form is filled in: nobody holds it any more. *)
Finish(x) == /\ UNCHANGED <<active, left, page>>
             /\ holder' = [holder EXCEPT ![x] = None]

(* Access removed: each thing goes to the one replacement, or stays.       *)
Leave(u) == /\ active' = active \ {u} /\ left' = left \cup {u}
            /\ UNCHANGED page
            /\ \/ UNCHANGED holder
               \/ \E r \in active \ {u} : \A x \in Things :
                    holder'[x] = holder[x] \/ (holder[x] = u /\ holder'[x] = r)
            /\ holder' \in [Things -> Reps \cup {None}]

Return(u) == active' = active \cup {u} /\ UNCHANGED <<holder, left, page>>

HNext == \/ \E p \in Procs : Look(p) \/ Give(p) \/ LookAway(p)
         \/ \E x \in Things : Take(x)
         \/ \E x \in Forms : Finish(x)
         \/ \E u \in Reps : Leave(u) \/ Return(u)

Spec == HInit /\ [][HNext]_hvars
=============================================================================
