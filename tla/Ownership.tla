------------------------------ MODULE Ownership ------------------------------
(***************************************************************************)
(* Who owns a cold contact, and whose its work is: src/src/lib/outreach    *)
(* (guard, transfer, ownership), setting a next step, launching a cold     *)
(* campaign, removing a rep's access and changing a rep's pods             *)
(* (actions/users.ts), and handing on call forms (calls/form-tools.ts).    *)
(*                                                                         *)
(* A request is up to three steps of its process: what it reads before its *)
(* transaction (the page, the session), the transaction's locks and reads, *)
(* and its writes and commit.  A contact's row is locked by every write on *)
(* it; the user rows are locked only by access removal and by a change of  *)
(* pods, so whoever else reads a user may write after that user changed.   *)
(* A row that comes to name a user waits for that user's row (the foreign  *)
(* key takes it FOR KEY SHARE), which may be a deadlock: a transaction can *)
(* always be rolled back.  Contacts here are all ACTIVE.                   *)
(***************************************************************************)
EXTENDS Naturals, FiniteSets

CONSTANTS
  Procs,
  Reps,         \* users whose role needs a pod
  Leaders,      \* those who lead their pods; the others are Junior FOs
  Admin,        \* an admin, who owns nothing
  Pods,
  PodsOf,       \* rep -> the pods they start in
  Contacts,     \* cold contacts
  Forms,        \* pending post-call forms
  None,
  Asked,        \* which requests arrive in this instance
  MaxRequests   \* bound: requests in a behaviour

Requests == {"assign", "claim", "next", "setPod", "launch", "remove", "pods", "hand", "strand"}

ASSUME OwnershipAssumption ==
  /\ Leaders \subseteq Reps /\ Admin \notin Reps
  /\ None \notin Reps \cup Pods \cup {Admin} \cup Contacts \cup Forms
  /\ Contacts \cap Forms = {}
  /\ PodsOf \in [Reps -> (SUBSET Pods) \ {{}}]
  /\ Asked \subseteq Requests /\ MaxRequests \in Nat

VARIABLES
  active,    \* reps with access
  pods,      \* rep -> the pods they are in
  contact,   \* contact -> [owner, pod]
  step,      \* contact -> whose its open next step is; form -> who it waits for
  run,       \* contact -> its running enrollment [fo, pod]; fo is None without one
  removed,   \* history: reps whose access was ever removed
  tx,        \* process -> its request
  asked      \* requests so far

vars == <<active, pods, contact, step, run, removed, tx, asked>>

Somebody == Reps \cup {None}
SomePod  == Pods \cup {None}
Subjects == Contacts \cup Forms

Tx == [op : Requests \cup {"none"}, at : {"page", "locked"},
       by   : Reps \cup {Admin},    \* who asks (for "remove" and "pods", the rep it is about)
       on   : Subjects \cup {None}, \* the contact, or the form
       to   : Somebody,             \* the new owner, FO or holder
       pod  : SomePod,              \* the pod chosen, then the pod settled on
       seen : Somebody,             \* the owner or holder read before the transaction
       mine : SUBSET Pods,          \* the asker's pods in the session; "pods": the new ones
       rows : SUBSET Contacts,      \* "strand": the next steps it read
       claims : BOOLEAN]            \* the write claims the contact first

NoPage == [on |-> None, seen |-> None]

NoTx == [op |-> "none", at |-> "page", by |-> Admin, on |-> None, to |-> None, pod |-> None,
         seen |-> None, mine |-> {}, rows |-> {}, claims |-> FALSE]

Idle(p) == tx[p] = NoTx

(* Users locked FOR UPDATE by the other requests, and contacts likewise. *)
LocksUsers(t) == IF t.at = "locked" /\ t.op \in {"remove", "pods"} THEN {t.by, t.to} ELSE {}
LockedUsers(p) == (UNION {LocksUsers(tx[q]) : q \in Procs \ {p}}) \ {None}
LockedContacts(p) == {tx[q].on : q \in {x \in Procs \ {p} : tx[x].at = "locked"}} \cap Contacts

(* effectiveOwner: one whose access was removed counts as nobody. *)
Owner(c) == IF contact[c].owner \in active THEN contact[c].owner ELSE None

LeadsHere(a, mine, c) == a \in Leaders /\ contact[c].pod \in mine

(* workRefusal: who may do a contact's work. *)
MayWork(a, mine, c) ==
  \/ a = Admin
  \/ Owner(c) = None /\ contact[c].pod \in mine \cup {None}
  \/ Owner(c) = a
  \/ LeadsHere(a, mine, c)

(* ownershipRefusal: claim, release, assign. *)
MayClaim(a, mine, c) == /\ a # Admin /\ Owner(c) = None
                        /\ contact[c].pod \in mine \cup {None}
MayRelease(a, mine, c) == a = Admin \/ Owner(c) = a \/ LeadsHere(a, mine, c)
MayAssign(a, mine, c, to) ==
  \/ a = Admin
  \/ a \in Leaders /\ (LeadsHere(a, mine, c) \/ Owner(c) \in {a, None})
  \/ a \in Reps \ Leaders /\ Owner(c) = a /\ to = a

(* ownerRefusal: who may be given this contact. *)
MayOwn(a, mine, c, to) ==
  /\ to \in active
  /\ \/ a \in {Admin, to}
     \/ contact[c].pod \in pods[to]
     \/ contact[c].pod = None /\ (a \in Leaders => pods[to] \cap mine # {})

(* podForOwner: the pods a contact may take, at most one. *)
PodFor(theirs, current, chosen) ==
  IF chosen \in theirs THEN {chosen}
  ELSE IF current \in theirs THEN {current}
  ELSE IF Cardinality(theirs) = 1 THEN theirs
  ELSE {}

NoRun == [fo |-> None, pod |-> None]
Running(c) == run[c].fo # None

(* enrollmentPodClash: a campaign in a pod the new owner is not in. *)
Clash(c, to) == Running(c) /\ run[c].fo # to /\ run[c].pod \notin pods[to]

(* Mutation: a transfer that moves the next step and leaves the campaign. *)
MoveWorkTo_StepOnly(S, to) ==
  /\ step' = [x \in Subjects |-> IF x \in S /\ step[x] # None THEN to ELSE step[x]]
  /\ run' = run

(* moveWorkTo: the open next step and the running campaign go along. *)
MoveWorkTo(S, to) ==
  /\ step' = [x \in Subjects |-> IF x \in S /\ step[x] # None THEN to ELSE step[x]]
  /\ run' = [c \in Contacts |-> IF c \in S /\ Running(c) THEN [run[c] EXCEPT !.fo = to] ELSE run[c]]

(* applyTransfer of one contact; a release leaves no work behind. *)
ApplyTransfer(c, to, pod) ==
  /\ contact' = [contact EXCEPT ![c] = [owner |-> to, pod |-> pod]]
  /\ IF to = None THEN UNCHANGED <<step, run>> ELSE MoveWorkTo({c}, to)

(* The rows that come to name a user wait while that user's row is locked. *)
KeyShare(p) ==
  LET named == {contact'[c].owner : c \in {x \in Contacts : contact'[x].owner # contact[x].owner}}
            \cup {step'[x] : x \in {y \in Subjects : step'[y] # step[y]}}
            \cup {run'[c].fo : c \in {x \in Contacts : run'[x].fo # run[x].fo}}
  IN named \cap LockedUsers(p) = {}

-----------------------------------------------------------------------------
(* A request starts: the session's user, and what the page showed. *)
Ask(p, t) ==
  /\ Idle(p) /\ t.op \in Asked /\ asked < MaxRequests
  /\ asked' = asked + 1
  /\ tx' = [tx EXCEPT ![p] = t]
  /\ UNCHANGED <<active, pods, contact, step, run, removed>>

Session(a) == IF a = Admin THEN {} ELSE pods[a]
Users == active \cup {Admin}

(* A dialog lets a pod be chosen when there are several. *)
Choice(theirs) == {None} \cup (IF Cardinality(theirs) > 1 THEN theirs ELSE {})
Offered(to) == Choice(IF to = None THEN {} ELSE pods[to])

AskAssign(p) == \E a \in Users, c \in Contacts, to \in Somebody : \E pod \in Offered(to) :
  Ask(p, [NoTx EXCEPT !.op = "assign", !.by = a, !.on = c, !.to = to, !.pod = pod,
                      !.seen = contact[c].owner, !.mine = Session(a)])

AskClaim(p) == \E a \in active, c \in Contacts : \E pod \in Offered(a) :
  Ask(p, [NoTx EXCEPT !.op = "claim", !.by = a, !.on = c, !.to = a, !.pod = pod, !.mine = Session(a)])

(* setNextActionAction reads the owner, who will work it, before the lock  *)
(* (bound: an admin sets one only where a rep will work it).               *)
AskNext(p) == \E a \in Users, c \in Contacts :
  LET fo == IF Owner(c) # None THEN Owner(c) ELSE a IN
  /\ fo # Admin
  /\ Ask(p, [NoTx EXCEPT !.op = "next", !.by = a, !.on = c, !.seen = fo, !.mine = Session(a)])

AskSetPod(p) == \E a \in Users, c \in Contacts, pod \in SomePod :
  /\ pod \in Session(a) \cup {None} \/ a = Admin
  /\ Ask(p, [NoTx EXCEPT !.op = "setPod", !.by = a, !.on = c, !.pod = pod, !.mine = Session(a)])

(* activateColdCalendar reads its FOs before it locks the contacts. *)
AskLaunch(p) == \E fo \in active, c \in Contacts : \E pod \in pods[fo] :
  Ask(p, [NoTx EXCEPT !.op = "launch", !.on = c, !.to = fo, !.pod = pod])

(* leaverWork: what they hold, counted before the transaction. *)
RunsOf(u) == {c \in Contacts : run[c].fo = u}
HasWork(u) == \/ \E c \in Contacts : contact[c].owner = u \/ run[c].fo = u
              \/ \E x \in Subjects : step[x] = u

AskRemove(p) == \E u \in active : \E r \in Somebody \ {u} :
  /\ HasWork(u) => r # None
  /\ Ask(p, [NoTx EXCEPT !.op = "remove", !.by = u, !.to = r, !.claims = HasWork(u)])

AskPods(p) == \E u \in Reps, theirs \in (SUBSET Pods) \ {{}} : \E pod \in Choice(theirs) :
  /\ theirs # pods[u]
  /\ Ask(p, [NoTx EXCEPT !.op = "pods", !.by = u, !.mine = theirs, !.pod = pod])

(* handFormTo reads the call and checks the new holder, then updates. *)
AskHand(p) == \E k \in Forms, to \in active :
  /\ step[k] # None
  /\ Ask(p, [NoTx EXCEPT !.op = "hand", !.on = k, !.to = to, !.seen = step[k]])

(* reassignStrandedNextActions reads the rows, then updates them by id. *)
AskStrand(p) == \E u \in Reps \ active, to \in active :
  LET rows == {c \in Contacts : step[c] = u} IN
  /\ rows # {}
  /\ Ask(p, [NoTx EXCEPT !.op = "strand", !.by = u, !.to = to, !.rows = rows])

-----------------------------------------------------------------------------
(* The transaction begins: its locks, and its checks on what it then reads.*)
(* A refusal ends the request with nothing changed.                        *)
Refuse(p) == /\ tx' = [tx EXCEPT ![p] = NoTx]
             /\ UNCHANGED <<active, pods, contact, step, run, removed, asked>>
Hold(p, t) == /\ tx' = [tx EXCEPT ![p] = [t EXCEPT !.at = "locked"]]
              /\ UNCHANGED <<active, pods, contact, step, run, removed, asked>>

Locking(p, op) == tx[p].op = op /\ tx[p].at = "page"
LockContact(p, op) == Locking(p, op) /\ tx[p].on \notin LockedContacts(p)

(* Mutation: an assign that trusts the page it was drawn from. *)
StillSeen_Trusting(t) == TRUE

(* N076: the owner the leader saw is still the owner. *)
StillSeen(t) == t.seen = contact[t.on].owner

MayLetGo(t) == /\ MayRelease(t.by, t.mine, t.on)
               /\ step[t.on] = None /\ ~Running(t.on)

(* The new owner may own it, its campaign can follow, and its pod is known.*)
MayTake(t) == /\ MayOwn(t.by, t.mine, t.on, t.to) /\ ~Clash(t.on, t.to)
              /\ PodFor(pods[t.to], contact[t.on].pod, t.pod) # {}
PodTaken(t) == CHOOSE d \in PodFor(pods[t.to], contact[t.on].pod, t.pod) : TRUE

LockAssign(p) ==
  LET t == tx[p]  c == t.on IN
  /\ LockContact(p, "assign")
  /\ IF StillSeen(t) /\ t.to = None /\ MayLetGo(t) THEN Hold(p, [t EXCEPT !.pod = contact[c].pod])
     ELSE IF StillSeen(t) /\ t.to # None /\ MayAssign(t.by, t.mine, c, t.to) /\ MayTake(t)
     THEN Hold(p, [t EXCEPT !.pod = PodTaken(t)])
     ELSE Refuse(p)

LockClaim(p) ==
  LET t == tx[p]  c == t.on IN
  /\ LockContact(p, "claim")
  /\ IF MayClaim(t.by, t.mine, c) /\ MayTake(t) THEN Hold(p, [t EXCEPT !.pod = PodTaken(t)])
     ELSE Refuse(p)

(* The first write of an unclaimed contact claims it, unless by an admin.  *)
ClaimsFirst(t) == Owner(t.on) = None /\ t.by # Admin
FirstPod(t) == PodFor(t.mine, contact[t.on].pod, None)

LockNext(p) ==
  LET t == tx[p]  c == t.on IN
  /\ LockContact(p, "next")
  /\ IF ~MayWork(t.by, t.mine, c) \/ (ClaimsFirst(t) /\ FirstPod(t) = {}) THEN Refuse(p)
     ELSE IF ClaimsFirst(t)
     THEN Hold(p, [t EXCEPT !.claims = TRUE, !.to = t.by, !.pod = CHOOSE d \in FirstPod(t) : TRUE])
     ELSE Hold(p, t)

(* setContactPod: an owned contact keeps a pod its owner is in. *)
LockSetPod(p) ==
  LET t == tx[p]  c == t.on
      owner == IF ClaimsFirst(t) THEN t.by ELSE Owner(c) IN
  /\ LockContact(p, "setPod")
  /\ IF /\ MayWork(t.by, t.mine, c)
        /\ ClaimsFirst(t) => FirstPod(t) # {}
        /\ owner # None => t.pod \in pods[owner]
     THEN Hold(p, [t EXCEPT !.claims = ClaimsFirst(t), !.to = IF ClaimsFirst(t) THEN t.by ELSE None])
     ELSE Refuse(p)

(* launchRefusal and startContact: an owner other than the FO is left out. *)
LockLaunch(p) ==
  LET t == tx[p]  c == t.on IN
  /\ LockContact(p, "launch")
  /\ IF ~Running(c) /\ Owner(c) \in {None, t.to}
     THEN Hold(p, [t EXCEPT !.claims = (Owner(c) = None)])
     ELSE Refuse(p)

(* setUserAccessAction locks both users and checks the replacement. *)
LockRemove(p) ==
  LET t == tx[p] IN
  /\ Locking(p, "remove")
  /\ {t.by, t.to} \cap LockedUsers(p) = {}
  /\ LET needsTaker == t.claims \/ RunsOf(t.by) # {} IN
     IF needsTaker => /\ t.to \in active
                      /\ \A c \in RunsOf(t.by) : run[c].pod \in pods[t.to]
     THEN Hold(p, [t EXCEPT !.claims = needsTaker])
     ELSE Refuse(p)

(* updateUserAction: live enrollments in a pod they leave refuse it. *)
LockPods(p) ==
  LET t == tx[p] IN
  /\ Locking(p, "pods")
  /\ t.by \notin LockedUsers(p)
  /\ IF \A c \in RunsOf(t.by) : run[c].pod \in t.mine THEN Hold(p, t) ELSE Refuse(p)

-----------------------------------------------------------------------------
(* The transaction writes and commits. *)
Writing(p, op) == tx[p].op = op /\ tx[p].at = "locked"
Done(p) == tx' = [tx EXCEPT ![p] = NoTx] /\ asked' = asked

CommitTransfer(p) ==
  LET t == tx[p] IN
  /\ Writing(p, "assign") \/ Writing(p, "claim")
  /\ ApplyTransfer(t.on, t.to, t.pod)
  /\ KeyShare(p) /\ Done(p)
  /\ UNCHANGED <<active, pods, removed>>

(* setColdNextStep: the claim first, then the one open next step. *)
CommitNext(p) ==
  LET t == tx[p]  c == t.on IN
  /\ Writing(p, "next")
  /\ step' = [step EXCEPT ![c] = t.seen]
  /\ IF t.claims
     THEN /\ contact' = [contact EXCEPT ![c] = [owner |-> t.to, pod |-> t.pod]]
          /\ run' = [run EXCEPT ![c].fo = IF Running(c) THEN t.to ELSE None]
     ELSE UNCHANGED <<contact, run>>
  /\ KeyShare(p) /\ Done(p)
  /\ UNCHANGED <<active, pods, removed>>

(* Mutation: a contact that loses its pod keeps its owner. *)
PodSet_KeepsOwner(row, pod) == [row EXCEPT !.pod = pod]

(* setContactPod: no pod, no owner. *)
PodSet(row, pod) == [owner |-> IF pod = None THEN None ELSE row.owner, pod |-> pod]

CommitSetPod(p) ==
  LET t == tx[p]  c == t.on IN
  /\ Writing(p, "setPod")
  /\ IF t.claims THEN ApplyTransfer(c, t.to, t.pod)
     ELSE /\ contact' = [contact EXCEPT ![c] = PodSet(@, t.pod)]
          /\ UNCHANGED <<step, run>>
  /\ KeyShare(p) /\ Done(p)
  /\ UNCHANGED <<active, pods, removed>>

CommitLaunch(p) ==
  LET t == tx[p]  c == t.on IN
  /\ Writing(p, "launch")
  /\ run' = [run EXCEPT ![c] = [fo |-> t.to, pod |-> t.pod]]
  /\ IF t.claims
     THEN /\ contact' = [contact EXCEPT ![c] = [owner |-> t.to, pod |-> t.pod]]
          /\ step' = [step EXCEPT ![c] = IF @ # None THEN t.to ELSE None]
     ELSE UNCHANGED <<contact, step>>
  /\ KeyShare(p) /\ Done(p)
  /\ UNCHANGED <<active, pods, removed>>

(* handOverLeaverWork: the contacts whose pod the replacement is in go with*)
(* their work; the rest stay, for their pod's leaders.                     *)
Takes(r, c) == /\ PodFor(pods[r], contact[c].pod, None) \ {None} # {}
               /\ contact[c].pod # None => contact[c].pod \in pods[r]
               /\ ~Clash(c, r)

HandOver(u, r) ==
  LET gone == {c \in Contacts : contact[c].owner = u /\ Takes(r, c)} IN
  /\ contact' = [c \in Contacts |-> IF c \notin gone THEN contact[c]
                   ELSE [owner |-> r, pod |-> CHOOSE d \in PodFor(pods[r], contact[c].pod, None) : TRUE]]
  /\ step' = [x \in Subjects |->
       IF x \in gone /\ step[x] # None THEN r
       ELSE IF step[x] = u /\ (x \in Forms \/ contact[x].pod \in pods[r] \cup {None}) THEN r
       ELSE step[x]]
  /\ run' = [c \in Contacts |->
       IF Running(c) /\ (c \in gone \/ run[c].fo = u) THEN [run[c] EXCEPT !.fo = r] ELSE run[c]]

(* It waits for the contacts it hands over. *)
CommitRemove(p) ==
  LET t == tx[p] IN
  /\ Writing(p, "remove")
  /\ IF t.claims
     THEN /\ \A c \in LockedContacts(p) : contact[c].owner # t.by
          /\ HandOver(t.by, t.to)
     ELSE UNCHANGED <<contact, step, run>>
  /\ active' = active \ {t.by} /\ removed' = removed \cup {t.by}
  /\ KeyShare(p) /\ Done(p)
  /\ UNCHANGED pods

(* rehomeContacts, then the new pods: contacts in a pod they leave go along*)
(* to the pod chosen, or to their only one; else it is refused.            *)
Rehomed(t) == {c \in Contacts : contact[c].owner = t.by /\ contact[c].pod \notin t.mine}

CommitPods(p) ==
  LET t == tx[p]  moved == Rehomed(t) IN
  /\ Writing(p, "pods")
  /\ moved \cap LockedContacts(p) = {}
  /\ \/ /\ moved = {}
        /\ pods' = [pods EXCEPT ![t.by] = t.mine]
        /\ UNCHANGED <<contact, step, run>>
     \/ /\ moved # {}
        /\ \E pod \in PodFor(t.mine, None, t.pod) :
             contact' = [c \in Contacts |-> IF c \in moved THEN [owner |-> t.by, pod |-> pod] ELSE contact[c]]
        /\ MoveWorkTo(moved, t.by)
        /\ pods' = [pods EXCEPT ![t.by] = t.mine]
     \/ /\ moved # {} /\ PodFor(t.mine, None, t.pod) = {}
        /\ UNCHANGED <<pods, contact, step, run>>
  /\ KeyShare(p) /\ Done(p)
  /\ UNCHANGED <<active, removed>>

(* Only if nobody filled it or handed it on meanwhile. *)
Hand(p) ==
  LET t == tx[p] IN
  /\ Locking(p, "hand")
  /\ step' = [step EXCEPT ![t.on] = IF @ = t.seen THEN t.to ELSE @]
  /\ UNCHANGED <<contact, run>>
  /\ KeyShare(p) /\ Done(p)
  /\ UNCHANGED <<active, pods, removed>>

Strand(p) ==
  LET t == tx[p] IN
  /\ Locking(p, "strand")
  /\ step' = [x \in Subjects |-> IF x \in t.rows /\ step[x] # None THEN t.to ELSE step[x]]
  /\ UNCHANGED <<contact, run>>
  /\ KeyShare(p) /\ Done(p)
  /\ UNCHANGED <<active, pods, removed>>

-----------------------------------------------------------------------------
(* A timed-out transaction, a deadlock's victim, a process that dies.      *)
Rollback(p) == ~Idle(p) /\ Refuse(p)

(* Restore: access again; what they held was never taken off them. *)
Restore(u) ==
  /\ u \in Reps \ active /\ u \notin UNION {LocksUsers(tx[q]) : q \in Procs}
  /\ active' = active \cup {u}
  /\ UNCHANGED <<pods, contact, step, run, removed, tx, asked>>

(* A next step done, a campaign ended, a form filled. *)
Finish ==
  /\ \/ \E x \in Subjects : /\ step[x] # None /\ step' = [step EXCEPT ![x] = None]
                            /\ tx' = [q \in Procs |-> [tx[q] EXCEPT !.rows = @ \ {x}]]
                            /\ UNCHANGED run
     \/ \E c \in Contacts : /\ Running(c) /\ run' = [run EXCEPT ![c] = NoRun]
                            /\ UNCHANGED <<step, tx>>
  /\ UNCHANGED <<active, pods, contact, removed, asked>>

(* A contact is unclaimed, or a rep in its pod owns it with its work; each *)
(* form waits for someone.                                                 *)
Init ==
  /\ active = Reps /\ removed = {} /\ asked = 0
  /\ pods = PodsOf
  /\ contact \in [Contacts -> [owner : Somebody, pod : SomePod]]
  /\ \A c \in Contacts : contact[c].owner # None => contact[c].pod \in pods[contact[c].owner]
  /\ step \in [Subjects -> Somebody]
  /\ \A c \in Contacts : step[c] = contact[c].owner
  /\ \A k \in Forms : step[k] # None
  /\ run \in [Contacts -> {NoRun} \cup [fo : Reps, pod : Pods]]
  /\ \A c \in Contacts : Running(c) => run[c].fo = contact[c].owner /\ run[c].pod \in pods[run[c].fo]
  /\ tx = [p \in Procs |-> NoTx]

Starts(p) == \/ AskAssign(p) \/ AskClaim(p) \/ AskNext(p) \/ AskSetPod(p) \/ AskLaunch(p)
             \/ AskRemove(p) \/ AskPods(p) \/ AskHand(p) \/ AskStrand(p)
Locks(p) == \/ LockAssign(p) \/ LockClaim(p) \/ LockNext(p) \/ LockSetPod(p) \/ LockLaunch(p)
            \/ LockRemove(p) \/ LockPods(p)
Commits(p) == \/ CommitTransfer(p) \/ CommitNext(p) \/ CommitSetPod(p) \/ CommitLaunch(p)
              \/ CommitRemove(p) \/ CommitPods(p) \/ Hand(p) \/ Strand(p)

Next == \/ \E p \in Procs : Starts(p) \/ Locks(p) \/ Commits(p) \/ Rollback(p)
        \/ \E u \in Reps : Restore(u)
        \/ Finish

-----------------------------------------------------------------------------
(* What a request to hand something on saw. *)
Page(t) == IF t.op \in {"assign", "hand"} THEN [on |-> t.on, seen |-> t.seen] ELSE NoPage

(* Ownership implements Holdings: contacts and forms, and who holds each.  *)
Abstract == INSTANCE Holdings WITH
  Things <- Subjects,
  holder <- [x \in Subjects |-> IF x \in Contacts THEN contact[x].owner ELSE step[x]],
  left   <- removed,
  page   <- [p \in Procs |-> Page(tx[p])]

(* Nobody's contact or form is ever taken by a claim, and what a leader    *)
(* hands on is what they saw held by whom they saw.                        *)
HeldUntilGiven == Abstract!Spec

TypeOK ==
  /\ active \subseteq Reps /\ removed \subseteq Reps /\ Reps \ active \subseteq removed
  /\ pods \in [Reps -> (SUBSET Pods) \ {{}}]
  /\ contact \in [Contacts -> [owner : Somebody, pod : SomePod]]
  /\ \A c \in Contacts : contact[c].owner # None => contact[c].pod # None
  /\ step \in [Subjects -> Somebody]
  /\ run \in [Contacts -> {NoRun} \cup [fo : Reps, pod : Pods]]
  /\ tx \in [Procs -> Tx] /\ asked \in 0 .. MaxRequests

(* A campaign of a rep whose access was removed is never stranded: its     *)
(* contact has no owner, or one without access, so it reads as unclaimed,  *)
(* and the next rep who takes the contact takes the campaign along.        *)
CampaignsHaveSomeone ==
  \A c \in Contacts : Running(c) /\ run[c].fo \notin active => Owner(c) = None

Spec == Init /\ [][Next]_vars
=============================================================================
