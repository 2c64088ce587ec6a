--------------------------- MODULE OwnershipProofs ---------------------------
(***************************************************************************)
(* Proofs about Ownership: its types, that work stays with somebody, and   *)
(* that it implements Holdings.  All three rest on what a transaction that *)
(* holds its locks still knows when it commits (Knows).                    *)
(***************************************************************************)
EXTENDS Ownership, TLAPS

(* What a request was asked about. *)
Fits(t) ==
  /\ t.op \in {"assign", "claim", "next", "setPod", "launch"} => t.on \in Contacts
  /\ t.op = "hand" => t.on \in Forms
  /\ t.op \in {"none", "remove", "pods", "strand"} => t.on = None
  /\ t.op \in {"claim", "launch", "hand", "strand"} => t.to \in Reps
  /\ t.op = "launch" => t.pod \in Pods
  /\ t.op \in {"remove", "pods"} => t.by \in Reps
  /\ t.op = "remove" => t.to # t.by
  /\ t.op = "pods" => t.to = None /\ t.mine # {}
  /\ t.op = "next" /\ t.at = "page" => ~t.claims
  /\ t.at = "locked" => t.op \in {"assign", "claim", "next", "setPod", "launch", "remove", "pods"}

(* The writes that take a contact nobody works. *)
Claims(t) == t.op = "claim" \/ (t.op \in {"next", "setPod", "launch"} /\ t.claims)
Nobodys(c) == contact[c].owner \in {None} \cup removed

(* What a transaction read under its locks is so until it commits. *)
Knows(t) ==
  /\ t.op = "assign" => /\ contact[t.on].owner = t.seen
                        /\ IF t.to = None THEN run[t.on].fo = None ELSE t.pod \in Pods
  /\ Claims(t) => t.to \in Reps /\ t.pod \in Pods /\ Nobodys(t.on)
  /\ t.op = "setPod" /\ ~t.claims /\ t.pod = None => Nobodys(t.on)
  /\ t.op = "launch" /\ ~t.claims => contact[t.on].owner = t.to
  /\ t.op = "remove" => IF t.claims THEN t.to \in active ELSE \A c \in Contacts : run[c].fo # t.by

(* Two transactions lock neither one contact nor one user. *)
Apart(s, t) == /\ s.on \in Contacts => s.on # t.on
               /\ LocksUsers(s) \cap LocksUsers(t) \subseteq {None}

AllFit    == \A p \in Procs : Fits(tx[p])
AllKnow   == \A p \in Procs : tx[p].at = "locked" => Knows(tx[p])
AllApart  == \A p, q \in Procs : p # q /\ tx[p].at = "locked" /\ tx[q].at = "locked" => Apart(tx[p], tx[q])

(* A campaign of somebody without access has their contact's owner. *)
WorkFollows ==
  \A c \in Contacts : run[c].fo \notin active \cup {None} => contact[c].owner \in {run[c].fo, None}

OInv == TypeOK /\ AllFit /\ AllKnow /\ AllApart /\ WorkFollows

Rows == <<active, pods, contact, step, run, removed>>

-----------------------------------------------------------------------------
LEMMA NoTxFits == NoTx \in Tx /\ Fits(NoTx)
BY OwnershipAssumption DEF NoTx, Tx, Fits, Requests, Subjects, Somebody, SomePod

LEMMA InitHolds == Init => OInv
<1> SUFFICES ASSUME Init PROVE OInv
  OBVIOUS
<1>1. TypeOK
  BY OwnershipAssumption, NoTxFits DEF Init, TypeOK, Somebody, SomePod, NoRun
<1>2. AllFit /\ AllKnow /\ AllApart
  BY NoTxFits DEF Init, AllFit, AllKnow, AllApart, NoTx
<1>3. WorkFollows
  BY OwnershipAssumption DEF Init, WorkFollows, NoRun
<1> QED BY <1>1, <1>2, <1>3 DEF OInv

LEMMA LockedByAnother ==
  ASSUME NEW p \in Procs, NEW q \in Procs, q # p, NEW u \in LocksUsers(tx[q]), u # None
  PROVE  u \in LockedUsers(p)
<1> DEFINE all == {LocksUsers(tx[r]) : r \in Procs \ {p}}
<1>1. LocksUsers(tx[q]) \in all
  OBVIOUS
<1>2. u \in UNION all
  BY <1>1, Zenon
<1>3. u \notin {None}
  OBVIOUS
<1> QED BY <1>2, <1>3, Zenon DEF LockedUsers

(* A step that only moves one process on. *)
LEMMA TxStep ==
  ASSUME OInv, NEW p \in Procs, NEW t \in Tx, Fits(t), tx' = [tx EXCEPT ![p] = t],
         t.at = "locked" =>
           /\ Knows(t)
           /\ \A q \in Procs \ {p} : tx[q].at = "locked" => Apart(t, tx[q]) /\ Apart(tx[q], t),
         UNCHANGED Rows, asked' \in 0 .. MaxRequests
  PROVE  OInv'
<1> USE DEF OInv, Rows
<1>1. tx \in [Procs -> Tx] /\ tx' \in [Procs -> Tx] /\ tx'[p] = t /\ \A q \in Procs \ {p} : tx'[q] = tx[q]
  BY DEF TypeOK
<1>2. TypeOK'
  BY <1>1 DEF TypeOK, Running
<1>3. AllFit'
  BY <1>1 DEF AllFit, Fits
<1>4. \A s \in Tx : Knows(s) <=> Knows(s)'
  BY DEF Knows, Claims, Nobodys
<1>5. AllKnow'
  <2>1. ASSUME NEW q \in Procs, tx'[q].at = "locked" PROVE Knows(tx'[q])
    BY <1>1, <2>1 DEF AllKnow
  <2>2. \A q \in Procs : tx'[q] \in Tx
    BY <1>1
  <2>3. ASSUME NEW q \in Procs, tx'[q].at = "locked" PROVE Knows(tx[q])'
    BY <2>1, <2>3 DEF Knows, Claims, Nobodys
  <2> QED BY <2>3 DEF AllKnow
<1>6. AllApart'
  <2> SUFFICES ASSUME NEW q \in Procs, NEW r \in Procs, q # r, tx'[q].at = "locked", tx'[r].at = "locked"
               PROVE  Apart(tx'[q], tx'[r])
    BY DEF AllApart, Apart, LocksUsers
  <2> QED BY <1>1 DEF AllApart
<1>7. WorkFollows'
  BY DEF WorkFollows
<1> QED BY <1>2, <1>3, <1>5, <1>6, <1>7

(* A commit leaves the other transactions what they know, if it keeps to   *)
(* its locks.                                                              *)
LEMMA CommitStep ==
  ASSUME OInv, NEW p \in Procs, tx' = [tx EXCEPT ![p] = NoTx], KeyShare(p), removed \subseteq removed',
         contact' \in [Contacts -> [owner : Somebody, pod : SomePod]],
         run' \in [Contacts -> {NoRun} \cup [fo : Reps, pod : Pods]],
         \A q \in Procs \ {p} : tx[q].at = "locked" =>
           /\ tx[q].on \in Contacts => /\ contact'[tx[q].on].owner = contact[tx[q].on].owner
                                       /\ run[tx[q].on].fo = None => run'[tx[q].on].fo = None
           /\ tx[q].op = "remove" /\ tx[q].to \in active => tx[q].to \in active'
  PROVE  AllFit' /\ AllKnow' /\ AllApart' /\ tx' \in [Procs -> Tx]
<1> USE DEF OInv
<1>1. tx \in [Procs -> Tx] /\ tx' \in [Procs -> Tx] /\ tx'[p] = NoTx /\ \A q \in Procs \ {p} : tx'[q] = tx[q]
  BY NoTxFits DEF TypeOK
<1>2. AllFit'
  BY <1>1, NoTxFits DEF AllFit, Fits
<1>3. AllApart'
  <2> SUFFICES ASSUME NEW q \in Procs, NEW r \in Procs, q # r, tx'[q].at = "locked", tx'[r].at = "locked"
               PROVE  Apart(tx'[q], tx'[r])
    BY DEF AllApart, Apart, LocksUsers
  <2> QED BY <1>1 DEF AllApart, NoTx
<1>4. ASSUME NEW q \in Procs, tx'[q].at = "locked" PROVE Knows(tx[q])'
  <2>1. q # p /\ tx'[q] = tx[q] /\ tx[q].at = "locked" /\ tx[q] \in Tx
    BY <1>1, <1>4 DEF NoTx
  <2>2. Knows(tx[q]) /\ Fits(tx[q])
    BY <2>1 DEF AllKnow, AllFit
  <2>3. tx[q].op = "assign" => /\ contact'[tx[q].on].owner = tx[q].seen
                               /\ IF tx[q].to = None THEN run'[tx[q].on].fo = None ELSE tx[q].pod \in Pods
    BY <2>1, <2>2 DEF Knows, Fits
  <2>4. tx[q].op \in {"claim", "next", "setPod", "launch"} =>
          /\ Nobodys(tx[q].on) => contact'[tx[q].on].owner \in {None} \cup removed'
          /\ contact[tx[q].on].owner = tx[q].to => contact'[tx[q].on].owner = tx[q].to
    BY <2>1, <2>2 DEF Fits, Nobodys
  <2>5. tx[q].op = "remove" =>
          IF tx[q].claims THEN tx[q].to \in active' ELSE \A c \in Contacts : run'[c].fo # tx[q].by
    <3> SUFFICES ASSUME tx[q].op = "remove", ~tx[q].claims, NEW c \in Contacts, run'[c].fo = tx[q].by
                 PROVE  FALSE
      BY <2>1, <2>2 DEF Knows
    <3>1. run[c].fo # tx[q].by /\ tx[q].by \in Reps
      BY <2>2 DEF Knows, Fits
    <3>2. tx[q].by \in LocksUsers(tx[q]) /\ tx[q].by # None
      BY <2>1, <3>1, OwnershipAssumption DEF LocksUsers
    <3>3. tx[q].by \in LockedUsers(p)
      BY <2>1, <3>2, LockedByAnother
    <3> QED BY <3>1, <3>3 DEF KeyShare
  <2> QED BY <2>1, <2>2, <2>3, <2>4, <2>5 DEF Knows, Claims, Nobodys
<1> QED BY <1>1, <1>2, <1>3, <1>4 DEF AllKnow

-----------------------------------------------------------------------------
(* Requests and locks. *)

LEMMA AskHolds ==
  ASSUME OInv, NEW p \in Procs, NEW t, t \in Tx, Fits(t), t.at = "page", Ask(p, t)
  PROVE  OInv'
<1>1. asked' \in 0 .. MaxRequests
  BY OwnershipAssumption DEF OInv, TypeOK, Ask
<1> QED BY <1>1, TxStep DEF Ask, Rows

LEMMA RefuseHolds ==
  ASSUME OInv, NEW p \in Procs, Refuse(p)
  PROVE  OInv'
<1>1. asked' \in 0 .. MaxRequests
  BY DEF OInv, TypeOK, Refuse
<1>2. NoTx.at = "page"
  BY DEF NoTx
<1> QED BY <1>1, <1>2, NoTxFits, TxStep DEF Refuse, Rows

LEMMA HoldHolds ==
  ASSUME OInv, NEW p \in Procs, NEW t, t \in Tx, t.op \in {"assign", "claim", "next", "setPod", "launch", "remove", "pods"},
         Fits([t EXCEPT !.at = "locked"]), Knows(t), Hold(p, t),
         t.on \in Contacts => t.on \notin LockedContacts(p),
         LocksUsers([t EXCEPT !.at = "locked"]) \cap LockedUsers(p) = {}
  PROVE  OInv'
<1> DEFINE h == [t EXCEPT !.at = "locked"]
<1>1. asked' \in 0 .. MaxRequests
  BY DEF OInv, TypeOK, Hold
<1>2. h \in Tx /\ Fits(h) /\ Knows(h) /\ h.on = t.on
  BY DEF Tx, Fits, Knows, Claims
<1>3. ASSUME NEW q \in Procs \ {p}, tx[q].at = "locked" PROVE Apart(h, tx[q]) /\ Apart(tx[q], h)
  <2>1. tx[q].on \in Contacts => tx[q].on \in LockedContacts(p)
    BY <1>3 DEF LockedContacts
  <2>2. \A u \in LocksUsers(tx[q]) : u # None => u \in LockedUsers(p)
    BY <1>3, LockedByAnother
  <2> QED BY <1>2, <2>1, <2>2 DEF Apart
<1> QED BY <1>1, <1>2, <1>3, TxStep DEF Hold, Rows

LEMMA StartsHold ==
  ASSUME OInv, NEW p \in Procs, Starts(p)
  PROVE  OInv'
<1> USE OwnershipAssumption
<1>0. /\ active \subseteq Reps /\ \A u \in Reps : pods[u] \in SUBSET Pods
      /\ \A c \in Contacts : contact[c].owner \in Somebody
      /\ \A x \in Subjects : step[x] \in Somebody
      /\ \A a \in Users : a \in Reps \cup {Admin} /\ Session(a) \in SUBSET Pods
      /\ \A to \in Somebody : Offered(to) \subseteq SomePod
  BY DEF OInv, TypeOK, Users, Session, Offered, Choice, Somebody, SomePod
<1> USE <1>0
<1>a. ASSUME NEW a \in Users, NEW c \in Contacts, NEW to \in Somebody, NEW pod \in SomePod,
             NEW op \in {"assign", "next", "setPod"},
             NEW seen \in Somebody, NEW t,
             t = [NoTx EXCEPT !.op = op, !.by = a, !.on = c, !.to = to, !.pod = pod,
                              !.seen = seen, !.mine = Session(a)]
      PROVE  t \in Tx /\ t.at = "page" /\ Fits(t)
  BY <1>a DEF NoTx, Tx, Fits, Requests, Subjects, Somebody, SomePod
<1>1. CASE AskAssign(p)
  <2>1. PICK a \in Users, c \in Contacts, to \in Somebody : \E pod \in Offered(to) :
          Ask(p, [NoTx EXCEPT !.op = "assign", !.by = a, !.on = c, !.to = to, !.pod = pod,
                              !.seen = contact[c].owner, !.mine = Session(a)])
    BY <1>1 DEF AskAssign
  <2>2. PICK pod \in Offered(to) :
          Ask(p, [NoTx EXCEPT !.op = "assign", !.by = a, !.on = c, !.to = to, !.pod = pod,
                              !.seen = contact[c].owner, !.mine = Session(a)])
    BY <2>1
  <2> DEFINE t == [NoTx EXCEPT !.op = "assign", !.by = a, !.on = c, !.to = to, !.pod = pod,
                               !.seen = contact[c].owner, !.mine = Session(a)]
  <2>3. t \in Tx /\ t.at = "page" /\ Fits(t)
    BY <1>a
  <2>4. Ask(p, t)
    BY <2>2
  <2> HIDE DEF t
  <2> QED BY <2>3, <2>4, AskHolds
<1>2. CASE AskClaim(p)
  <2>1. PICK a \in active, c \in Contacts : \E pod \in Offered(a) :
          Ask(p, [NoTx EXCEPT !.op = "claim", !.by = a, !.on = c, !.to = a, !.pod = pod, !.mine = Session(a)])
    BY <1>2 DEF AskClaim
  <2>2. PICK pod \in Offered(a) :
          Ask(p, [NoTx EXCEPT !.op = "claim", !.by = a, !.on = c, !.to = a, !.pod = pod, !.mine = Session(a)])
    BY <2>1
  <2> DEFINE t == [NoTx EXCEPT !.op = "claim", !.by = a, !.on = c, !.to = a, !.pod = pod, !.mine = Session(a)]
  <2>3. a \in Reps /\ a \in Users /\ pod \in SomePod
    BY DEF Users, Somebody
  <2>4. t \in Tx /\ t.at = "page" /\ Fits(t)
    BY <2>3 DEF NoTx, Tx, Fits, Requests, Subjects, Somebody, SomePod
  <2>5. Ask(p, t)
    BY <2>2
  <2> HIDE DEF t
  <2> QED BY <2>4, <2>5, AskHolds
<1>3. CASE AskNext(p)
  <2>1. PICK a \in Users, c \in Contacts :
          LET fo == IF Owner(c) # None THEN Owner(c) ELSE a IN
          /\ fo # Admin
          /\ Ask(p, [NoTx EXCEPT !.op = "next", !.by = a, !.on = c, !.seen = fo, !.mine = Session(a)])
    BY <1>3 DEF AskNext
  <2> DEFINE fo == IF Owner(c) # None THEN Owner(c) ELSE a
             t  == [NoTx EXCEPT !.op = "next", !.by = a, !.on = c, !.seen = fo, !.mine = Session(a)]
  <2>2. fo \in Somebody
    BY <2>1 DEF Owner, Somebody
  <2>3. t \in Tx /\ t.at = "page" /\ Fits(t)
    <3> HIDE DEF fo
    <3> QED BY <2>2 DEF NoTx, Tx, Fits, Requests, Subjects, Somebody, SomePod
  <2>4. Ask(p, t)
    BY <2>1
  <2> HIDE DEF t
  <2> QED BY <2>3, <2>4, AskHolds
<1>4. CASE AskSetPod(p)
  <2>1. PICK a \in Users, c \in Contacts, pod \in SomePod :
          Ask(p, [NoTx EXCEPT !.op = "setPod", !.by = a, !.on = c, !.pod = pod, !.mine = Session(a)])
    BY <1>4 DEF AskSetPod
  <2> DEFINE t == [NoTx EXCEPT !.op = "setPod", !.by = a, !.on = c, !.pod = pod, !.mine = Session(a)]
  <2>2. t \in Tx /\ t.at = "page" /\ Fits(t)
    BY DEF NoTx, Tx, Fits, Requests, Subjects, Somebody, SomePod
  <2>3. Ask(p, t)
    BY <2>1
  <2> HIDE DEF t
  <2> QED BY <2>2, <2>3, AskHolds
<1>5. CASE AskLaunch(p)
  <2>1. PICK fo \in active, c \in Contacts : \E pod \in pods[fo] :
          Ask(p, [NoTx EXCEPT !.op = "launch", !.on = c, !.to = fo, !.pod = pod])
    BY <1>5 DEF AskLaunch
  <2>2. PICK pod \in pods[fo] : Ask(p, [NoTx EXCEPT !.op = "launch", !.on = c, !.to = fo, !.pod = pod])
    BY <2>1
  <2> DEFINE t == [NoTx EXCEPT !.op = "launch", !.on = c, !.to = fo, !.pod = pod]
  <2>3. fo \in Reps /\ pod \in Pods
    OBVIOUS
  <2>4. t \in Tx /\ t.at = "page" /\ Fits(t)
    BY <2>3 DEF NoTx, Tx, Fits, Requests, Subjects, Somebody, SomePod
  <2>5. Ask(p, t)
    BY <2>2
  <2> HIDE DEF t
  <2> QED BY <2>4, <2>5, AskHolds
<1>6. CASE AskRemove(p)
  <2>1. PICK u \in active : \E r \in Somebody \ {u} :
          Ask(p, [NoTx EXCEPT !.op = "remove", !.by = u, !.to = r, !.claims = HasWork(u)])
    BY <1>6 DEF AskRemove
  <2>2. PICK r \in Somebody \ {u} : Ask(p, [NoTx EXCEPT !.op = "remove", !.by = u, !.to = r, !.claims = HasWork(u)])
    BY <2>1
  <2>3. HasWork(u) \in BOOLEAN
    BY DEF HasWork
  <2> DEFINE t == [NoTx EXCEPT !.op = "remove", !.by = u, !.to = r, !.claims = HasWork(u)]
  <2>4. t \in Tx /\ t.at = "page" /\ Fits(t)
    BY <2>3 DEF NoTx, Tx, Fits, Requests, Subjects, Somebody, SomePod
  <2>5. Ask(p, t)
    BY <2>2
  <2> HIDE DEF t
  <2> QED BY <2>4, <2>5, AskHolds
<1>7. CASE AskPods(p)
  <2>1. PICK u \in Reps, theirs \in (SUBSET Pods) \ {{}} : \E pod \in Choice(theirs) :
          Ask(p, [NoTx EXCEPT !.op = "pods", !.by = u, !.mine = theirs, !.pod = pod])
    BY <1>7 DEF AskPods
  <2>2. PICK pod \in Choice(theirs) :
          Ask(p, [NoTx EXCEPT !.op = "pods", !.by = u, !.mine = theirs, !.pod = pod])
    BY <2>1
  <2> DEFINE t == [NoTx EXCEPT !.op = "pods", !.by = u, !.mine = theirs, !.pod = pod]
  <2>3. pod \in SomePod
    BY DEF Choice, SomePod
  <2>4. t \in Tx /\ t.at = "page" /\ Fits(t)
    BY <2>3 DEF NoTx, Tx, Fits, Requests, Subjects, Somebody, SomePod
  <2>5. Ask(p, t)
    BY <2>2
  <2> HIDE DEF t
  <2> QED BY <2>4, <2>5, AskHolds
<1>8. CASE AskHand(p)
  <2>1. PICK k \in Forms, to \in active : Ask(p, [NoTx EXCEPT !.op = "hand", !.on = k, !.to = to, !.seen = step[k]])
    BY <1>8 DEF AskHand
  <2> DEFINE t == [NoTx EXCEPT !.op = "hand", !.on = k, !.to = to, !.seen = step[k]]
  <2>2. t \in Tx /\ t.at = "page" /\ Fits(t)
    BY DEF NoTx, Tx, Fits, Requests, Subjects, Somebody, SomePod
  <2>3. Ask(p, t)
    BY <2>1
  <2> HIDE DEF t
  <2> QED BY <2>2, <2>3, AskHolds
<1>9. CASE AskStrand(p)
  <2>1. PICK u \in Reps \ active, to \in active :
          LET rows == {c \in Contacts : step[c] = u} IN
          Ask(p, [NoTx EXCEPT !.op = "strand", !.by = u, !.to = to, !.rows = rows])
    BY <1>9 DEF AskStrand
  <2> DEFINE rows == {c \in Contacts : step[c] = u}
             t == [NoTx EXCEPT !.op = "strand", !.by = u, !.to = to, !.rows = rows]
  <2>2. t \in Tx /\ t.at = "page" /\ Fits(t)
    BY DEF NoTx, Tx, Fits, Requests, Subjects, Somebody, SomePod
  <2>3. Ask(p, t)
    BY <2>1
  <2> HIDE DEF t
  <2> QED BY <2>2, <2>3, AskHolds
<1> QED BY <1>1, <1>2, <1>3, <1>4, <1>5, <1>6, <1>7, <1>8, <1>9 DEF Starts

LEMMA PodForIsTheirs ==
  ASSUME NEW theirs, NEW current, NEW chosen
  PROVE  PodFor(theirs, current, chosen) \subseteq theirs
BY DEF PodFor

LEMMA OwnerlessIsNobodys ==
  ASSUME TypeOK, NEW c \in Contacts, Owner(c) = None
  PROVE  Nobodys(c)
<1>1. contact[c].owner \in Somebody /\ active \subseteq Reps /\ Reps \ active \subseteq removed
  BY DEF TypeOK
<1>2. contact[c].owner \notin active
  BY <1>1, OwnershipAssumption DEF Owner
<1> QED BY <1>1, <1>2 DEF Nobodys, Somebody

(* A transaction that takes its locks has read, or may do, what it needs.  *)
LEMMA LocksHold ==
  ASSUME OInv, NEW p \in Procs, Locks(p)
  PROVE  OInv'
<1> DEFINE t == tx[p]  c == t.on
<1>0. /\ t \in Tx /\ Fits(t) /\ TypeOK
      /\ active \subseteq Reps /\ \A u \in Reps : pods[u] \in SUBSET Pods
      /\ \A x \in Contacts : contact[x].owner \in Somebody /\ contact[x].pod \in SomePod
  BY DEF OInv, TypeOK, AllFit
<1>1. CASE LockAssign(p)
  <2>1. t.op = "assign" /\ t.at = "page" /\ c \in Contacts /\ c \notin LockedContacts(p)
    BY <1>0, <1>1 DEF LockAssign, LockContact, Locking, Fits
  <2>2. CASE Refuse(p)
    BY <2>2, RefuseHolds
  <2>3. CASE StillSeen(t) /\ t.to = None /\ MayLetGo(t) /\ Hold(p, [t EXCEPT !.pod = contact[c].pod])
    <3> DEFINE h == [t EXCEPT !.pod = contact[c].pod]
    <3>1. h \in Tx /\ Fits([h EXCEPT !.at = "locked"]) /\ h.op = "assign" /\ h.on = c
      BY <1>0, <2>1 DEF Tx, Fits
    <3>2. Knows(h)
      BY <1>0, <2>1, <2>3 DEF Tx, Knows, Claims, StillSeen, MayLetGo, Running
    <3>3. LocksUsers([h EXCEPT !.at = "locked"]) = {}
      BY <3>1 DEF LocksUsers, Tx
    <3>4. Hold(p, h)
      BY <2>3
    <3> HIDE DEF h
    <3> QED BY <2>1, <3>1, <3>2, <3>3, <3>4, HoldHolds
  <2>4. CASE StillSeen(t) /\ t.to # None /\ MayTake(t) /\ Hold(p, [t EXCEPT !.pod = PodTaken(t)])
    <3> DEFINE h == [t EXCEPT !.pod = PodTaken(t)]
    <3>1. PodTaken(t) \in Pods
      <4>1. PodFor(pods[t.to], contact[t.on].pod, t.pod) # {} /\ t.to \in Reps
        BY <1>0, <2>4 DEF MayTake, Tx, Somebody
      <4> QED BY <1>0, <4>1, PodForIsTheirs DEF PodTaken
    <3>2. h \in Tx /\ Fits([h EXCEPT !.at = "locked"]) /\ h.op = "assign" /\ h.on = c
      BY <1>0, <2>1, <3>1 DEF Tx, Fits, SomePod
    <3>3. Knows(h)
      BY <1>0, <2>1, <2>4, <3>1 DEF Tx, Knows, Claims, StillSeen
    <3>4. LocksUsers([h EXCEPT !.at = "locked"]) = {}
      BY <3>2 DEF LocksUsers, Tx
    <3>5. Hold(p, h)
      BY <2>4
    <3> HIDE DEF h
    <3> QED BY <2>1, <3>2, <3>3, <3>4, <3>5, HoldHolds
  <2> QED BY <1>1, <2>2, <2>3, <2>4 DEF LockAssign
<1>2. CASE LockClaim(p)
  <2>1. t.op = "claim" /\ t.at = "page" /\ c \in Contacts /\ t.to \in Reps /\ c \notin LockedContacts(p)
    BY <1>0, <1>2 DEF LockClaim, LockContact, Locking, Fits
  <2>2. CASE Refuse(p)
    BY <2>2, RefuseHolds
  <2>3. CASE MayClaim(t.by, t.mine, c) /\ MayTake(t) /\ Hold(p, [t EXCEPT !.pod = PodTaken(t)])
    <3> DEFINE h == [t EXCEPT !.pod = PodTaken(t)]
    <3>1. PodTaken(t) \in Pods
      BY <1>0, <2>1, <2>3, PodForIsTheirs DEF MayTake, PodTaken
    <3>2. h \in Tx /\ Fits([h EXCEPT !.at = "locked"]) /\ h.op = "claim" /\ h.on = c
      BY <1>0, <2>1, <3>1 DEF Tx, Fits, SomePod
    <3>3. Nobodys(c)
      BY <1>0, <2>1, <2>3, OwnerlessIsNobodys DEF MayClaim
    <3>4. Knows(h)
      BY <1>0, <2>1, <3>1, <3>3 DEF Tx, Knows, Claims
    <3>5. LocksUsers([h EXCEPT !.at = "locked"]) = {}
      BY <3>2 DEF LocksUsers, Tx
    <3>6. Hold(p, h)
      BY <2>3
    <3> HIDE DEF h
    <3> QED BY <2>1, <3>2, <3>4, <3>5, <3>6, HoldHolds
  <2> QED BY <1>2, <2>2, <2>3 DEF LockClaim
<1>3. CASE LockNext(p)
  <2>1. t.op = "next" /\ t.at = "page" /\ c \in Contacts /\ c \notin LockedContacts(p) /\ ~t.claims
    BY <1>0, <1>3 DEF LockNext, LockContact, Locking, Fits
  <2>2. CASE Refuse(p)
    BY <2>2, RefuseHolds
  <2>3. CASE /\ ClaimsFirst(t) /\ FirstPod(t) # {}
             /\ Hold(p, [t EXCEPT !.claims = TRUE, !.to = t.by, !.pod = CHOOSE d \in FirstPod(t) : TRUE])
    <3> DEFINE d == CHOOSE e \in FirstPod(t) : TRUE
               h == [t EXCEPT !.claims = TRUE, !.to = t.by, !.pod = d]
    <3>1. d \in Pods
      BY <1>0, <2>3, PodForIsTheirs DEF FirstPod, Tx
    <3>2. t.by \in Reps
      BY <1>0, <2>3 DEF ClaimsFirst, Tx
    <3>3. Nobodys(c)
      BY <1>0, <2>1, <2>3, OwnerlessIsNobodys DEF ClaimsFirst
    <3> HIDE DEF d
    <3>4. h \in Tx /\ Fits([h EXCEPT !.at = "locked"]) /\ h.op = "next" /\ h.on = c
      BY <1>0, <2>1, <3>1, <3>2 DEF Tx, Fits, SomePod, Somebody
    <3>5. Knows(h)
      BY <1>0, <2>1, <3>1, <3>2, <3>3 DEF Tx, Knows, Claims
    <3>6. LocksUsers([h EXCEPT !.at = "locked"]) = {}
      BY <3>4 DEF LocksUsers, Tx
    <3>7. Hold(p, h)
      BY <2>3 DEF d
    <3> HIDE DEF h
    <3> QED BY <2>1, <3>4, <3>5, <3>6, <3>7, HoldHolds
  <2>4. CASE Hold(p, t)
    <3>1. Fits([t EXCEPT !.at = "locked"]) /\ Knows(t)
      BY <1>0, <2>1 DEF Tx, Fits, Knows, Claims
    <3>2. LocksUsers([t EXCEPT !.at = "locked"]) = {}
      BY <1>0, <2>1 DEF LocksUsers, Tx
    <3> HIDE DEF t
    <3> QED BY <1>0, <2>1, <2>4, <3>1, <3>2, HoldHolds
  <2> QED BY <1>3, <2>2, <2>3, <2>4 DEF LockNext
<1>4. CASE LockSetPod(p)
  <2>1. t.op = "setPod" /\ t.at = "page" /\ c \in Contacts /\ c \notin LockedContacts(p)
    BY <1>0, <1>4 DEF LockSetPod, LockContact, Locking, Fits
  <2>2. CASE Refuse(p)
    BY <2>2, RefuseHolds
  <2> DEFINE owner == IF ClaimsFirst(t) THEN t.by ELSE Owner(c)
             h == [t EXCEPT !.claims = ClaimsFirst(t), !.to = IF ClaimsFirst(t) THEN t.by ELSE None]
  <2>3. CASE (owner # None => t.pod \in pods[owner]) /\ Hold(p, h)
    <3>1. ClaimsFirst(t) \in BOOLEAN
      BY DEF ClaimsFirst
    <3>2. ClaimsFirst(t) => t.by \in Reps /\ t.pod \in Pods /\ Nobodys(c)
      BY <1>0, <2>1, <2>3, OwnerlessIsNobodys, OwnershipAssumption DEF ClaimsFirst, Tx
    <3>3. ~ClaimsFirst(t) /\ t.pod = None => Nobodys(c)
      <4> SUFFICES ASSUME ~ClaimsFirst(t), t.pod = None PROVE Owner(c) = None
        BY <1>0, <2>1, OwnerlessIsNobodys
      <4>1. Owner(c) # None => t.pod \in Pods
        BY <1>0, <2>3 DEF Owner
      <4> QED BY <4>1, OwnershipAssumption
    <3>4. h \in Tx /\ Fits([h EXCEPT !.at = "locked"]) /\ h.op = "setPod" /\ h.on = c
      BY <1>0, <2>1, <3>1, <3>2 DEF Tx, Fits, Somebody
    <3>5. Knows(h)
      BY <1>0, <2>1, <3>1, <3>2, <3>3 DEF Tx, Knows, Claims
    <3>6. LocksUsers([h EXCEPT !.at = "locked"]) = {}
      BY <3>4 DEF LocksUsers, Tx
    <3>7. Hold(p, h)
      BY <2>3
    <3> HIDE DEF h
    <3> QED BY <2>1, <3>4, <3>5, <3>6, <3>7, HoldHolds
  <2> QED BY <1>4, <2>2, <2>3 DEF LockSetPod
<1>5. CASE LockLaunch(p)
  <2>1. t.op = "launch" /\ t.at = "page" /\ c \in Contacts /\ t.to \in Reps /\ t.pod \in Pods /\ c \notin LockedContacts(p)
    BY <1>0, <1>5 DEF LockLaunch, LockContact, Locking, Fits
  <2>2. CASE Refuse(p)
    BY <2>2, RefuseHolds
  <2> DEFINE h == [t EXCEPT !.claims = (Owner(c) = None)]
  <2>3. CASE Owner(c) \in {None, t.to} /\ Hold(p, h)
    <3>1. h \in Tx /\ Fits([h EXCEPT !.at = "locked"]) /\ h.op = "launch" /\ h.on = c
      BY <1>0, <2>1 DEF Tx, Fits
    <3>2. Owner(c) = None => Nobodys(c)
      BY <1>0, <2>1, OwnerlessIsNobodys
    <3>3. Owner(c) # None => contact[c].owner = t.to
      BY <2>3 DEF Owner
    <3>4. Knows(h)
      BY <1>0, <2>1, <3>2, <3>3 DEF Tx, Knows, Claims
    <3>5. LocksUsers([h EXCEPT !.at = "locked"]) = {}
      BY <3>1 DEF LocksUsers, Tx
    <3>6. Hold(p, h)
      BY <2>3
    <3> HIDE DEF h
    <3> QED BY <2>1, <3>1, <3>4, <3>5, <3>6, HoldHolds
  <2> QED BY <1>5, <2>2, <2>3 DEF LockLaunch
<1>6. CASE LockRemove(p)
  <2> DEFINE needsTaker == t.claims \/ RunsOf(t.by) # {}
             h == [t EXCEPT !.claims = needsTaker]
  <2>1. /\ t.op = "remove" /\ t.at = "page" /\ t.by \in Reps /\ c = None
        /\ {t.by, t.to} \cap LockedUsers(p) = {}
    BY <1>0, <1>6 DEF LockRemove, Locking, Fits
  <2>2. CASE Refuse(p)
    BY <2>2, RefuseHolds
  <2>3. CASE (needsTaker => t.to \in active) /\ Hold(p, h)
    <3>1. needsTaker \in BOOLEAN
      BY <1>0 DEF Tx
    <3>2. h \in Tx /\ Fits([h EXCEPT !.at = "locked"]) /\ h.op = "remove" /\ h.on = c /\ h.by = t.by
      BY <1>0, <2>1, <3>1 DEF Tx, Fits
    <3>3. ~needsTaker => \A x \in Contacts : run[x].fo # t.by
      BY DEF RunsOf
    <3>4. Knows(h)
      BY <1>0, <2>1, <2>3, <3>1, <3>3 DEF Tx, Knows, Claims
    <3>5. LocksUsers([h EXCEPT !.at = "locked"]) = {t.by, t.to}
      BY <1>0, <2>1, <3>1 DEF LocksUsers, Tx
    <3>6. Hold(p, h) /\ h.on \notin Contacts
      BY <2>1, <2>3, <3>2, OwnershipAssumption
    <3> HIDE DEF h
    <3> QED BY <2>1, <3>2, <3>4, <3>5, <3>6, HoldHolds
  <2> QED BY <1>6, <2>2, <2>3 DEF LockRemove
<1>7. CASE LockPods(p)
  <2>1. /\ t.op = "pods" /\ t.at = "page" /\ t.by \in Reps /\ c = None /\ t.to = None
        /\ t.by \notin LockedUsers(p)
    BY <1>0, <1>7 DEF LockPods, Locking, Fits
  <2>2. CASE Refuse(p)
    BY <2>2, RefuseHolds
  <2>3. CASE Hold(p, t)
    <3>1. Fits([t EXCEPT !.at = "locked"]) /\ Knows(t)
      BY <1>0, <2>1 DEF Tx, Fits, Knows, Claims
    <3>2. LocksUsers([t EXCEPT !.at = "locked"]) = {t.by, None}
      BY <1>0, <2>1 DEF LocksUsers, Tx
    <3>3. None \notin LockedUsers(p) /\ t.on \notin Contacts
      BY <2>1, OwnershipAssumption DEF LockedUsers
    <3> HIDE DEF t
    <3> QED BY <1>0, <2>1, <2>3, <3>1, <3>2, <3>3, HoldHolds
  <2> QED BY <1>7, <2>2, <2>3 DEF LockPods
<1> QED BY <1>1, <1>2, <1>3, <1>4, <1>5, <1>6, <1>7 DEF Locks

(* A write on one contact, whose row is locked, to an owner whom the work  *)
(* there follows.                                                          *)
LEMMA OneContactCommit ==
  ASSUME OInv, NEW p \in Procs, tx[p].at = "locked", NEW c \in Contacts, c = tx[p].on,
         NEW to \in Somebody, NEW pod \in SomePod, to # None => pod # None,
         NEW e, e = run[c] \/ e \in [fo : Reps, pod : Pods],
         e.fo \notin active \cup {None} => to \in {e.fo, None},
         contact' = [contact EXCEPT ![c] = [owner |-> to, pod |-> pod]],
         run' = [run EXCEPT ![c] = e], step' \in [Subjects -> Somebody],
         tx' = [tx EXCEPT ![p] = NoTx], KeyShare(p),
         UNCHANGED <<active, pods, removed, asked>>
  PROVE  OInv'
<1> USE DEF OInv
<1>1. /\ contact \in [Contacts -> [owner : Somebody, pod : SomePod]]
      /\ run \in [Contacts -> {NoRun} \cup [fo : Reps, pod : Pods]]
  BY DEF TypeOK
<1>2. /\ contact' \in [Contacts -> [owner : Somebody, pod : SomePod]]
      /\ run' \in [Contacts -> {NoRun} \cup [fo : Reps, pod : Pods]]
      /\ contact'[c] = [owner |-> to, pod |-> pod] /\ run'[c] = e
      /\ \A x \in Contacts \ {c} : contact'[x] = contact[x] /\ run'[x] = run[x]
  BY <1>1
<1>3. \A q \in Procs \ {p} : tx[q].at = "locked" /\ tx[q].on \in Contacts => tx[q].on # c
  BY DEF AllApart, Apart
<1>4. AllFit' /\ AllKnow' /\ AllApart' /\ tx' \in [Procs -> Tx]
  <2>1. \A q \in Procs \ {p} : tx[q].at = "locked" =>
           /\ tx[q].on \in Contacts => /\ contact'[tx[q].on].owner = contact[tx[q].on].owner
                                       /\ run[tx[q].on].fo = None => run'[tx[q].on].fo = None
           /\ tx[q].op = "remove" /\ tx[q].to \in active => tx[q].to \in active'
    BY <1>2, <1>3
  <2> QED BY <1>2, <2>1, CommitStep
<1>5. TypeOK'
  <2>1. \A x \in Contacts : contact'[x].owner # None => contact'[x].pod # None
    BY <1>2 DEF TypeOK
  <2> QED BY <1>2, <1>4, <2>1 DEF TypeOK
<1>6. WorkFollows'
  <2> SUFFICES ASSUME NEW x \in Contacts, run'[x].fo \notin active \cup {None}
               PROVE  contact'[x].owner \in {run'[x].fo, None}
    BY DEF WorkFollows
  <2> QED BY <1>2 DEF WorkFollows
<1> QED BY <1>4, <1>5, <1>6

(* Only the next steps and forms change. *)
LEMMA StepCommit ==
  ASSUME OInv, NEW p \in Procs, step' \in [Subjects -> Somebody],
         tx' = [tx EXCEPT ![p] = NoTx], KeyShare(p),
         UNCHANGED <<active, pods, contact, run, removed, asked>>
  PROVE  OInv'
<1> USE DEF OInv
<1>1. AllFit' /\ AllKnow' /\ AllApart' /\ tx' \in [Procs -> Tx]
  BY CommitStep DEF TypeOK
<1>2. TypeOK'
  BY <1>1 DEF TypeOK
<1>3. WorkFollows'
  BY DEF WorkFollows
<1> QED BY <1>1, <1>2, <1>3

(* What a row of runs may be. *)
LEMMA RunTypes ==
  ASSUME TypeOK, NEW c \in Contacts
  PROVE  /\ Running(c) => run[c] \in [fo : Reps, pod : Pods]
         /\ ~Running(c) => run[c] = NoRun
         /\ run[c].fo \in Somebody
BY OwnershipAssumption DEF TypeOK, Running, NoRun, Somebody

(* The write of one contact's transfer, by whichever request. *)
LEMMA TransferHolds ==
  ASSUME OInv, NEW p \in Procs, tx[p].at = "locked", NEW c \in Contacts, c = tx[p].on,
         NEW to \in Somebody, NEW pod \in SomePod, to # None => pod # None,
         to = None => ~Running(c),
         ApplyTransfer(c, to, pod), KeyShare(p), Done(p), UNCHANGED <<active, pods, removed>>
  PROVE  OInv'
<1> DEFINE e == IF to # None /\ Running(c) THEN [run[c] EXCEPT !.fo = to] ELSE run[c]
<1>0. TypeOK /\ run \in [Contacts -> {NoRun} \cup [fo : Reps, pod : Pods]]
  BY DEF OInv, TypeOK
<1>1. /\ e = run[c] \/ e \in [fo : Reps, pod : Pods]
      /\ e.fo \in {to, None}
  BY <1>0, RunTypes DEF Somebody, Running, NoRun
<1>2. contact' = [contact EXCEPT ![c] = [owner |-> to, pod |-> pod]]
  BY DEF ApplyTransfer
<1>3. run' = [run EXCEPT ![c] = e]
  BY <1>0 DEF ApplyTransfer, MoveWorkTo
<1>4. step' \in [Subjects -> Somebody]
  BY <1>0 DEF ApplyTransfer, MoveWorkTo, TypeOK, Somebody
<1>5. tx' = [tx EXCEPT ![p] = NoTx] /\ asked' = asked
  BY DEF Done
<1> HIDE DEF e
<1> QED BY <1>1, <1>2, <1>3, <1>4, <1>5, OneContactCommit

LEMMA CommitTransferHolds ==
  ASSUME OInv, NEW p \in Procs, CommitTransfer(p)
  PROVE  OInv'
<1> DEFINE t == tx[p]
<1>1. t \in Tx /\ t.at = "locked" /\ Fits(t) /\ Knows(t) /\ t.op \in {"assign", "claim"}
  BY DEF OInv, TypeOK, AllFit, AllKnow, CommitTransfer, Writing
<1>2. t.on \in Contacts /\ t.to \in Somebody /\ t.pod \in SomePod
  BY <1>1 DEF Fits, Tx
<1>3. (t.to # None => t.pod # None) /\ (t.to = None => ~Running(t.on))
  BY <1>1, <1>2, OwnershipAssumption DEF Knows, Claims, Running
<1> QED BY <1>1, <1>2, <1>3, TransferHolds DEF CommitTransfer

LEMMA CommitNextHolds ==
  ASSUME OInv, NEW p \in Procs, CommitNext(p)
  PROVE  OInv'
<1> DEFINE t == tx[p]  c == t.on
<1>1. t \in Tx /\ t.at = "locked" /\ Fits(t) /\ Knows(t) /\ t.op = "next" /\ TypeOK
  BY DEF OInv, TypeOK, AllFit, AllKnow, CommitNext, Writing
<1>2. c \in Contacts /\ t.to \in Somebody /\ t.pod \in SomePod /\ t.seen \in Somebody
  BY <1>1 DEF Fits, Tx
<1>3. step' \in [Subjects -> Somebody]
  BY <1>1, <1>2 DEF CommitNext, TypeOK
<1>4. CASE t.claims
  <2> DEFINE e == [run[c] EXCEPT !.fo = IF Running(c) THEN t.to ELSE None]
  <2>1. t.to \in Reps /\ t.pod \in Pods
    BY <1>1, <1>4 DEF Knows, Claims
  <2>2. /\ e = run[c] \/ e \in [fo : Reps, pod : Pods]
        /\ e.fo \in {t.to, None}
    BY <1>1, <1>2, <2>1, RunTypes DEF NoRun
  <2>3. /\ contact' = [contact EXCEPT ![c] = [owner |-> t.to, pod |-> t.pod]]
        /\ run' = [run EXCEPT ![c] = e]
    <3>1. run' = [run EXCEPT ![c].fo = IF Running(c) THEN t.to ELSE None]
      BY <1>4 DEF CommitNext
    <3>2. run' = [run EXCEPT ![c] = e]
      BY <3>1
    <3> QED BY <1>4, <3>2 DEF CommitNext
  <2>4. tx' = [tx EXCEPT ![p] = NoTx] /\ KeyShare(p) /\ UNCHANGED <<active, pods, removed, asked>>
    BY DEF CommitNext, Done
  <2>5. t.pod # None
    BY <2>1, OwnershipAssumption
  <2> HIDE DEF e
  <2> QED BY <1>1, <1>2, <1>3, <2>2, <2>3, <2>4, <2>5, OneContactCommit
<1>5. CASE ~t.claims
  BY <1>3, <1>5, StepCommit DEF CommitNext, Done
<1> QED BY <1>4, <1>5

LEMMA CommitSetPodHolds ==
  ASSUME OInv, NEW p \in Procs, CommitSetPod(p)
  PROVE  OInv'
<1> DEFINE t == tx[p]  c == t.on
<1>1. t \in Tx /\ t.at = "locked" /\ Fits(t) /\ Knows(t) /\ t.op = "setPod" /\ TypeOK
  BY DEF OInv, TypeOK, AllFit, AllKnow, CommitSetPod, Writing
<1>2. c \in Contacts /\ t.to \in Somebody /\ t.pod \in SomePod
  BY <1>1 DEF Fits, Tx
<1>3. CASE t.claims
  <2>1. t.to \in Reps /\ t.pod # None /\ t.to # None
    BY <1>1, <1>3, OwnershipAssumption DEF Knows, Claims
  <2> QED BY <1>1, <1>2, <1>3, <2>1, TransferHolds DEF CommitSetPod
<1>4. CASE ~t.claims
  <2> DEFINE to == IF t.pod = None THEN None ELSE contact[c].owner
  <2>1. to \in Somebody /\ (to # None => t.pod # None)
    BY <1>1, <1>2 DEF TypeOK, Somebody
  <2>2. run[c].fo \notin active \cup {None} => to \in {run[c].fo, None}
    BY <1>2 DEF OInv, WorkFollows
  <2>3. contact' = [contact EXCEPT ![c] = [owner |-> to, pod |-> t.pod]]
    BY <1>4 DEF CommitSetPod, PodSet
  <2>4. run' = [run EXCEPT ![c] = run[c]] /\ step' \in [Subjects -> Somebody]
    BY <1>1, <1>4 DEF CommitSetPod, TypeOK
  <2>5. tx' = [tx EXCEPT ![p] = NoTx] /\ KeyShare(p) /\ UNCHANGED <<active, pods, removed, asked>>
    BY DEF CommitSetPod, Done
  <2> HIDE DEF to
  <2> QED BY <1>1, <1>2, <2>1, <2>2, <2>3, <2>4, <2>5, OneContactCommit
<1> QED BY <1>3, <1>4

LEMMA CommitLaunchHolds ==
  ASSUME OInv, NEW p \in Procs, CommitLaunch(p)
  PROVE  OInv'
<1> DEFINE t == tx[p]  c == t.on  e == [fo |-> t.to, pod |-> t.pod]
<1>1. t \in Tx /\ t.at = "locked" /\ Fits(t) /\ Knows(t) /\ t.op = "launch" /\ TypeOK
  BY DEF OInv, TypeOK, AllFit, AllKnow, CommitLaunch, Writing
<1>2. c \in Contacts /\ t.to \in Reps /\ t.pod \in Pods
  BY <1>1 DEF Fits
<1>3. /\ e \in [fo : Reps, pod : Pods] /\ e.fo = t.to
      /\ run' = [run EXCEPT ![c] = e]
  BY <1>2 DEF CommitLaunch
<1>4. step' \in [Subjects -> Somebody]
  BY <1>1, <1>2 DEF CommitLaunch, TypeOK, Somebody
<1>5. tx' = [tx EXCEPT ![p] = NoTx] /\ KeyShare(p) /\ UNCHANGED <<active, pods, removed, asked>>
  BY DEF CommitLaunch, Done
<1>6. t.to \in Somebody /\ t.pod \in SomePod /\ t.pod # None
  BY <1>2, OwnershipAssumption DEF Somebody, SomePod
<1> HIDE DEF e
<1>7. CASE t.claims
  <2>1. contact' = [contact EXCEPT ![c] = [owner |-> t.to, pod |-> t.pod]]
    BY <1>7 DEF CommitLaunch
  <2> QED BY <1>1, <1>2, <1>3, <1>4, <1>5, <1>6, <2>1, OneContactCommit
<1>8. CASE ~t.claims
  <2>1. /\ contact[c].owner = t.to /\ contact[c].pod \in SomePod /\ contact[c].pod # None
        /\ contact[c] = [owner |-> t.to, pod |-> contact[c].pod]
    BY <1>1, <1>2, <1>8, OwnershipAssumption DEF Knows, TypeOK
  <2>2. contact' = [contact EXCEPT ![c] = [owner |-> t.to, pod |-> contact[c].pod]]
    BY <1>1, <1>8, <2>1 DEF CommitLaunch, TypeOK
  <2> QED BY <1>1, <1>2, <1>3, <1>4, <1>5, <1>6, <2>1, <2>2, OneContactCommit
<1> QED BY <1>7, <1>8

LEMMA CommitRemoveHolds ==
  ASSUME OInv, NEW p \in Procs, CommitRemove(p)
  PROVE  OInv'
<1> DEFINE t == tx[p]  u == t.by  r == t.to
           gone == {c \in Contacts : contact[c].owner = u /\ Takes(r, c)}
<1>1. t \in Tx /\ t.at = "locked" /\ Fits(t) /\ Knows(t) /\ t.op = "remove" /\ TypeOK
  BY DEF OInv, TypeOK, AllFit, AllKnow, CommitRemove, Writing
<1>2. u \in Reps /\ r # u /\ r \in Somebody
  BY <1>1 DEF Fits, Tx
<1>3. /\ tx' = [tx EXCEPT ![p] = NoTx] /\ KeyShare(p) /\ UNCHANGED <<pods, asked>>
      /\ active' = active \ {u} /\ removed' = removed \cup {u}
  BY DEF CommitRemove, Done
<1>4. \A q \in Procs \ {p} : tx[q].at = "locked" /\ tx[q].op = "remove" /\ tx[q].to \in active => tx[q].to \in active'
  <2> SUFFICES ASSUME NEW q \in Procs \ {p}, tx[q].at = "locked", tx[q].op = "remove", tx[q].to = u
               PROVE  FALSE
    BY <1>3
  <2>1. u \in LocksUsers(t) /\ u \in LocksUsers(tx[q])
    BY <1>1 DEF LocksUsers
  <2>2. Apart(t, tx[q])
    BY <1>1 DEF OInv, AllApart
  <2> QED BY <1>2, <2>1, <2>2, OwnershipAssumption DEF Apart
<1>5. CASE t.claims
  <2>1. r \in active /\ r \in Reps /\ pods[r] \in SUBSET Pods
    BY <1>1, <1>5 DEF Knows, Claims, TypeOK
  <2>2. \A c \in gone : /\ (CHOOSE d \in PodFor(pods[r], contact[c].pod, None) : TRUE) \in Pods
    <3> TAKE c \in gone
    <3>1. PodFor(pods[r], contact[c].pod, None) # {}
      BY DEF Takes
    <3> QED BY <2>1, <3>1, PodForIsTheirs
  <2>3. /\ \A c \in LockedContacts(p) : contact[c].owner # u
        /\ HandOver(u, r)
    BY <1>5 DEF CommitRemove
  <2>4. \A c \in Contacts :
          /\ c \notin gone => contact'[c] = contact[c]
          /\ c \in gone => contact'[c].owner = r /\ contact'[c].pod \in Pods
                           /\ contact'[c] \in [owner : Somebody, pod : SomePod]
    BY <1>2, <2>2, <2>3 DEF HandOver, Somebody, SomePod
  <2>5. contact' \in [Contacts -> [owner : Somebody, pod : SomePod]]
    <3>1. contact' = [c \in Contacts |-> contact'[c]]
      BY <2>3 DEF HandOver
    <3>2. \A c \in Contacts : contact'[c] \in [owner : Somebody, pod : SomePod]
      BY <1>1, <2>4 DEF TypeOK
    <3> QED BY <3>1, <3>2
  <2>6. \A c \in Contacts :
          run'[c] = IF Running(c) /\ (c \in gone \/ run[c].fo = u) THEN [run[c] EXCEPT !.fo = r] ELSE run[c]
    BY <2>3 DEF HandOver
  <2>7. run' \in [Contacts -> {NoRun} \cup [fo : Reps, pod : Pods]]
    <3>1. run' = [c \in Contacts |-> run'[c]]
      BY <2>3 DEF HandOver
    <3>2. \A c \in Contacts : run'[c] \in {NoRun} \cup [fo : Reps, pod : Pods]
      <4> TAKE c \in Contacts
      <4>1. run[c] \in {NoRun} \cup [fo : Reps, pod : Pods]
        BY <1>1 DEF TypeOK
      <4>2. Running(c) => [run[c] EXCEPT !.fo = r] \in [fo : Reps, pod : Pods]
        BY <1>1, <2>1, RunTypes
      <4> QED BY <2>6, <4>1, <4>2
    <3> QED BY <3>1, <3>2
  <2>8. step' \in [Subjects -> Somebody]
    BY <1>1, <1>2, <2>3 DEF HandOver, TypeOK
  <2>9. \A c \in LockedContacts(p) : c \notin gone
    BY <2>3
  <2>10. AllFit' /\ AllKnow' /\ AllApart' /\ tx' \in [Procs -> Tx]
    <3>1. \A q \in Procs \ {p} : tx[q].at = "locked" /\ tx[q].on \in Contacts =>
             /\ contact'[tx[q].on].owner = contact[tx[q].on].owner
             /\ run[tx[q].on].fo = None => run'[tx[q].on].fo = None
      <4> TAKE q \in Procs \ {p}
      <4> SUFFICES ASSUME tx[q].at = "locked", tx[q].on \in Contacts
                   PROVE  /\ contact'[tx[q].on].owner = contact[tx[q].on].owner
                          /\ run[tx[q].on].fo = None => run'[tx[q].on].fo = None
        OBVIOUS
      <4>1. tx[q].on \notin gone
        BY <2>9 DEF LockedContacts
      <4> HIDE DEF gone
      <4> QED BY <2>4, <2>6, <4>1 DEF Running
    <3> QED BY <1>3, <1>4, <2>5, <2>7, <3>1, CommitStep
  <2>11. TypeOK'
    <3> HIDE DEF gone
    <3>1. \A c \in Contacts : contact'[c].owner # None => contact'[c].pod # None
      BY <1>1, <2>4, OwnershipAssumption DEF TypeOK
    <3> QED BY <1>1, <1>2, <1>3, <2>5, <2>7, <2>8, <2>10, <3>1 DEF TypeOK
  <2>12. WorkFollows'
    <3> SUFFICES ASSUME NEW c \in Contacts, run'[c].fo \notin active' \cup {None}
                 PROVE  contact'[c].owner \in {run'[c].fo, None}
      BY DEF WorkFollows
    <3> HIDE DEF gone
    <3>1. r \in active'
      BY <1>2, <1>3, <2>1
    <3>2. ~(Running(c) /\ (c \in gone \/ run[c].fo = u))
      <4> SUFFICES ASSUME Running(c) /\ (c \in gone \/ run[c].fo = u) PROVE FALSE
        OBVIOUS
      <4>1. run'[c].fo = r
        BY <1>1, <2>6, RunTypes
      <4> QED BY <3>1, <4>1
    <3>3. run'[c] = run[c]
      BY <2>6, <3>2
    <3>4. Running(c) /\ c \notin gone /\ run[c].fo # u
      BY <3>2, <3>3 DEF Running
    <3>5. run[c].fo \notin active
      BY <1>3, <3>3, <3>4
    <3> QED BY <2>4, <3>3, <3>4, <3>5 DEF OInv, WorkFollows, Running
  <2> HIDE DEF gone
  <2> QED BY <2>10, <2>11, <2>12 DEF OInv
<1>6. CASE ~t.claims
  <2>1. UNCHANGED <<contact, step, run>> /\ \A c \in Contacts : run[c].fo # u
    BY <1>1, <1>6 DEF CommitRemove, Knows
  <2>2. AllFit' /\ AllKnow' /\ AllApart' /\ tx' \in [Procs -> Tx]
    BY <1>1, <1>3, <1>4, <2>1, CommitStep DEF TypeOK
  <2>3. TypeOK'
    BY <1>1, <1>2, <1>3, <2>1, <2>2 DEF TypeOK
  <2>4. WorkFollows'
    BY <1>3, <2>1 DEF OInv, WorkFollows
  <2> QED BY <2>2, <2>3, <2>4 DEF OInv
<1> QED BY <1>5, <1>6

LEMMA CommitPodsHolds ==
  ASSUME OInv, NEW p \in Procs, CommitPods(p)
  PROVE  OInv'
<1> DEFINE t == tx[p]  u == t.by  moved == Rehomed(t)
<1>1. t \in Tx /\ t.at = "locked" /\ Fits(t) /\ Knows(t) /\ t.op = "pods" /\ TypeOK
  BY DEF OInv, TypeOK, AllFit, AllKnow, CommitPods, Writing
<1>2. u \in Reps /\ t.mine \in (SUBSET Pods) \ {{}}
  BY <1>1 DEF Fits, Tx
<1>3. /\ tx' = [tx EXCEPT ![p] = NoTx] /\ KeyShare(p) /\ UNCHANGED <<active, removed, asked>>
  BY DEF CommitPods, Done
<1>4. pods' \in [Reps -> (SUBSET Pods) \ {{}}]
  BY <1>1, <1>2 DEF CommitPods, TypeOK
<1>5. CASE UNCHANGED <<contact, step, run>>
  <2>1. AllFit' /\ AllKnow' /\ AllApart' /\ tx' \in [Procs -> Tx]
    BY <1>1, <1>3, <1>5, CommitStep DEF TypeOK
  <2>2. TypeOK'
    BY <1>1, <1>3, <1>4, <1>5, <2>1 DEF TypeOK
  <2>3. WorkFollows'
    BY <1>3, <1>5 DEF OInv, WorkFollows
  <2> QED BY <2>1, <2>2, <2>3 DEF OInv
<1>6. CASE \E pod \in PodFor(t.mine, None, t.pod) :
             /\ contact' = [c \in Contacts |-> IF c \in moved THEN [owner |-> u, pod |-> pod] ELSE contact[c]]
             /\ MoveWorkTo(moved, u)
  <2>1. PICK pod \in PodFor(t.mine, None, t.pod) :
             contact' = [c \in Contacts |-> IF c \in moved THEN [owner |-> u, pod |-> pod] ELSE contact[c]]
    BY <1>6
  <2>2. pod \in Pods /\ u \in Somebody
    BY <1>2, PodForIsTheirs DEF Somebody
  <2>3. \A c \in Contacts : /\ contact'[c].owner = contact[c].owner
                            /\ contact'[c] \in [owner : Somebody, pod : SomePod]
                            /\ contact'[c].pod \in Pods \/ contact'[c] = contact[c]
    BY <1>1, <2>1, <2>2 DEF Rehomed, TypeOK, Somebody, SomePod
  <2>4. contact' \in [Contacts -> [owner : Somebody, pod : SomePod]]
    <3>1. contact' = [c \in Contacts |-> contact'[c]]
      BY <2>1
    <3> QED BY <2>3, <3>1
  <2>5. /\ step' = [x \in Subjects |-> IF x \in moved /\ step[x] # None THEN u ELSE step[x]]
        /\ run' = [c \in Contacts |-> IF c \in moved /\ Running(c) THEN [run[c] EXCEPT !.fo = u] ELSE run[c]]
    BY <1>6 DEF MoveWorkTo
  <2>6. step' \in [Subjects -> Somebody]
    BY <1>1, <2>2, <2>5 DEF TypeOK
  <2>7. \A c \in Contacts : run'[c] \in {NoRun} \cup [fo : Reps, pod : Pods]
    <3> TAKE c \in Contacts
    <3>1. run[c] \in {NoRun} \cup [fo : Reps, pod : Pods]
      BY <1>1 DEF TypeOK
    <3>2. Running(c) => [run[c] EXCEPT !.fo = u] \in [fo : Reps, pod : Pods]
      BY <1>1, <1>2, RunTypes
    <3> QED BY <2>5, <3>1, <3>2
  <2>8. run' \in [Contacts -> {NoRun} \cup [fo : Reps, pod : Pods]]
    <3>1. run' = [c \in Contacts |-> run'[c]]
      BY <2>5
    <3> QED BY <2>7, <3>1
  <2>9. \A c \in Contacts : run[c].fo = None => run'[c].fo = None
    BY <2>5 DEF Running
  <2>10. AllFit' /\ AllKnow' /\ AllApart' /\ tx' \in [Procs -> Tx]
    BY <1>3, <2>3, <2>4, <2>8, <2>9, CommitStep
  <2>11. TypeOK'
    <3>1. \A c \in Contacts : contact'[c].owner # None => contact'[c].pod # None
      BY <1>1, <2>3, OwnershipAssumption DEF TypeOK
    <3> QED BY <1>1, <1>3, <1>4, <2>4, <2>6, <2>8, <2>10, <3>1 DEF TypeOK
  <2>12. WorkFollows'
    <3> SUFFICES ASSUME NEW c \in Contacts, run'[c].fo \notin active \cup {None}
                 PROVE  contact'[c].owner \in {run'[c].fo, None}
      BY <1>3 DEF WorkFollows
    <3>1. CASE c \in moved /\ Running(c)
      <4>1. run'[c].fo = u
        BY <1>1, <2>5, <3>1, RunTypes
      <4> QED BY <2>1, <3>1, <4>1
    <3>2. CASE ~(c \in moved /\ Running(c))
      BY <2>3, <2>5, <3>2 DEF OInv, WorkFollows
    <3> QED BY <3>1, <3>2
  <2> QED BY <2>10, <2>11, <2>12 DEF OInv
<1> QED BY <1>5, <1>6 DEF CommitPods

(* Every request keeps the invariant, whenever it writes. *)
LEMMA CommitsHold ==
  ASSUME OInv, NEW p \in Procs, Commits(p)
  PROVE  OInv'
<1>0. tx[p] \in Tx /\ Fits(tx[p]) /\ step \in [Subjects -> Somebody]
  BY DEF OInv, TypeOK, AllFit
<1>1. CASE Hand(p)
  <2>1. step' \in [Subjects -> Somebody]
    BY <1>0, <1>1 DEF Hand, Tx
  <2> QED BY <1>1, <2>1, StepCommit DEF Hand, Done
<1>2. CASE Strand(p)
  <2>1. step' \in [Subjects -> Somebody]
    BY <1>0, <1>2 DEF Strand, Tx
  <2> QED BY <1>2, <2>1, StepCommit DEF Strand, Done
<1> QED BY <1>1, <1>2, CommitTransferHolds, CommitNextHolds, CommitSetPodHolds, CommitLaunchHolds,
           CommitRemoveHolds, CommitPodsHolds DEF Commits

LEMMA RestoreHolds ==
  ASSUME OInv, NEW u \in Reps, Restore(u)
  PROVE  OInv'
<1> USE DEF OInv, Restore
<1>1. TypeOK'
  BY DEF TypeOK
<1>2. AllFit' /\ AllApart'
  BY DEF AllFit, Fits, AllApart, Apart, LocksUsers
<1>3. AllKnow'
  <2> SUFFICES ASSUME NEW q \in Procs, tx[q].at = "locked" PROVE Knows(tx[q])'
    BY DEF AllKnow
  <2>1. Knows(tx[q])
    BY DEF AllKnow
  <2> QED BY <2>1 DEF Knows, Claims, Nobodys
<1>4. WorkFollows'
  BY DEF WorkFollows
<1> QED BY <1>1, <1>2, <1>3, <1>4

(* A request that drops a row keeps the rest of what it knows.             *)
LEMMA RowDropped ==
  ASSUME NEW t \in Tx, NEW x, NEW u, u = [t EXCEPT !.rows = @ \ {x}]
  PROVE  /\ u \in Tx
         /\ u.op = t.op /\ u.at = t.at /\ u.by = t.by /\ u.on = t.on /\ u.to = t.to /\ u.pod = t.pod
         /\ u.seen = t.seen /\ u.mine = t.mine /\ u.claims = t.claims
<1>1. u \in Tx /\ u.op = t.op /\ u.at = t.at /\ u.by = t.by
  BY DEF Tx
<1>2. u.on = t.on /\ u.to = t.to /\ u.pod = t.pod
  BY DEF Tx
<1>3. u.seen = t.seen /\ u.mine = t.mine /\ u.claims = t.claims
  BY DEF Tx
<1> QED BY <1>1, <1>2, <1>3

LEMMA FinishHolds ==
  ASSUME OInv, Finish
  PROVE  OInv'
<1> USE DEF OInv
<1>1. CASE \E x \in Subjects : /\ step[x] # None /\ step' = [step EXCEPT ![x] = None]
                               /\ tx' = [q \in Procs |-> [tx[q] EXCEPT !.rows = @ \ {x}]]
                               /\ UNCHANGED run
  <2>1. PICK x \in Subjects : /\ step' = [step EXCEPT ![x] = None]
                              /\ tx' = [q \in Procs |-> [tx[q] EXCEPT !.rows = @ \ {x}]]
    BY <1>1
  <2>2. UNCHANGED <<active, pods, contact, run, removed, asked>>
    BY <1>1 DEF Finish
  <2>3. tx \in [Procs -> Tx]
    BY DEF TypeOK
  <2>4. \A q \in Procs : /\ tx'[q] \in Tx
                         /\ tx'[q] = [tx[q] EXCEPT !.rows = @ \ {x}]
    <3> SUFFICES ASSUME NEW q \in Procs PROVE tx'[q] \in Tx /\ tx'[q] = [tx[q] EXCEPT !.rows = @ \ {x}]
      OBVIOUS
    <3>1. tx'[q] = [tx[q] EXCEPT !.rows = @ \ {x}] /\ tx[q] \in Tx
      BY <2>1, <2>3
    <3> QED BY <3>1, RowDropped
  <2>5. \A q \in Procs : /\ tx'[q].op = tx[q].op /\ tx'[q].at = tx[q].at /\ tx'[q].by = tx[q].by
                         /\ tx'[q].on = tx[q].on /\ tx'[q].to = tx[q].to /\ tx'[q].pod = tx[q].pod
                         /\ tx'[q].seen = tx[q].seen /\ tx'[q].mine = tx[q].mine
                         /\ tx'[q].claims = tx[q].claims
    <3> SUFFICES ASSUME NEW q \in Procs
                 PROVE  /\ tx'[q].op = tx[q].op /\ tx'[q].at = tx[q].at /\ tx'[q].by = tx[q].by
                        /\ tx'[q].on = tx[q].on /\ tx'[q].to = tx[q].to /\ tx'[q].pod = tx[q].pod
                        /\ tx'[q].seen = tx[q].seen /\ tx'[q].mine = tx[q].mine
                        /\ tx'[q].claims = tx[q].claims
      OBVIOUS
    <3>1. tx[q] \in Tx /\ tx'[q] = [tx[q] EXCEPT !.rows = @ \ {x}]
      BY <2>3, <2>4
    <3> QED BY <3>1, RowDropped
  <2>6. TypeOK'
    <3>1. tx' = [q \in Procs |-> tx'[q]]
      BY <2>1
    <3>2. step' \in [Subjects -> Somebody]
      BY <2>1 DEF TypeOK, Somebody
    <3> QED BY <2>2, <2>4, <3>1, <3>2 DEF TypeOK
  <2>7. AllFit'
    BY <2>5 DEF AllFit, Fits
  <2>8. AllKnow'
    <3> SUFFICES ASSUME NEW q \in Procs, tx'[q].at = "locked" PROVE Knows(tx[q])'
      BY DEF AllKnow
    <3>1. Knows(tx[q])
      BY <2>5 DEF AllKnow
    <3> QED BY <2>2, <2>5, <3>1 DEF Knows, Claims, Nobodys
  <2>9. AllApart'
    BY <2>5 DEF AllApart, Apart, LocksUsers
  <2>10. WorkFollows'
    BY <2>2 DEF WorkFollows
  <2> QED BY <2>6, <2>7, <2>8, <2>9, <2>10
<1>2. CASE \E c \in Contacts : /\ Running(c) /\ run' = [run EXCEPT ![c] = NoRun]
                               /\ UNCHANGED <<step, tx>>
  <2>1. PICK c \in Contacts : run' = [run EXCEPT ![c] = NoRun]
    BY <1>2
  <2>2. UNCHANGED <<active, pods, contact, step, removed, tx, asked>>
    BY <1>2 DEF Finish
  <2>3. TypeOK'
    BY <2>1, <2>2 DEF TypeOK
  <2>4. AllFit' /\ AllApart'
    BY <2>2 DEF AllFit, Fits, AllApart, Apart, LocksUsers
  <2>5. AllKnow'
    <3> SUFFICES ASSUME NEW q \in Procs, tx[q].at = "locked" PROVE Knows(tx[q])'
      BY <2>2 DEF AllKnow
    <3>1. Knows(tx[q]) /\ Fits(tx[q])
      BY DEF AllKnow, AllFit
    <3>2. \A x \in Contacts : run'[x].fo \in {run[x].fo, None}
      BY <2>1 DEF TypeOK, NoRun
    <3>3. tx[q].op = "assign" => tx[q].on \in Contacts
      BY <3>1 DEF Fits
    <3>4. tx[q].op = "remove" => tx[q].by # None
      BY <3>1, OwnershipAssumption DEF Fits
    <3> QED BY <2>2, <3>1, <3>2, <3>3, <3>4 DEF Knows, Claims, Nobodys
  <2>6. WorkFollows'
    BY <2>1, <2>2 DEF WorkFollows, TypeOK, NoRun
  <2> QED BY <2>3, <2>4, <2>5, <2>6
<1> QED BY <1>1, <1>2 DEF Finish

-----------------------------------------------------------------------------
LEMMA Inductive == OInv /\ [Next]_vars => OInv'
<1> SUFFICES ASSUME OInv, [Next]_vars PROVE OInv'
  OBVIOUS
<1>1. ASSUME NEW p \in Procs, Rollback(p) PROVE OInv'
  BY <1>1, RefuseHolds DEF Rollback
<1>2. CASE UNCHANGED vars
  <2>1. UNCHANGED <<active, pods, contact, step, run, removed, tx, asked>>
    BY <1>2 DEF vars
  <2>2. TypeOK'
    BY <2>1 DEF OInv, TypeOK
  <2>3. AllFit'
    BY <2>1 DEF OInv, AllFit, Fits
  <2>4. AllKnow'
    BY <2>1 DEF OInv, AllKnow, Knows, Claims, Nobodys
  <2>5. AllApart'
    BY <2>1 DEF OInv, AllApart, Apart, LocksUsers
  <2>6. WorkFollows'
    BY <2>1 DEF OInv, WorkFollows
  <2> QED BY <2>2, <2>3, <2>4, <2>5, <2>6 DEF OInv
<1> QED BY <1>1, <1>2, StartsHold, LocksHold, CommitsHold, RestoreHolds, FinishHolds DEF Next

(* Transactions keep what they know, and stay apart, until they commit.    *)
THEOREM InvariantHolds == Spec => []OInv
<1> QED BY InitHolds, Inductive, PTL DEF Spec

(* Every reachable state has its types, whatever requests interleave.      *)
THEOREM TypeCorrect == Spec => []TypeOK
<1>1. OInv => TypeOK
  BY DEF OInv
<1> QED BY <1>1, InvariantHolds, PTL

(* The contact of a campaign whose rep has no access reads as unclaimed:   *)
(* it belongs to nobody, or to somebody without access, however transfers, *)
(* launches and removals interleave.                                       *)
THEOREM CampaignsKeepSomeone == Spec => []CampaignsHaveSomeone
<1>1. OInv => CampaignsHaveSomeone
  <2> SUFFICES ASSUME OInv, NEW c \in Contacts, Running(c), run[c].fo \notin active
               PROVE  Owner(c) = None
    BY DEF CampaignsHaveSomeone
  <2>1. contact[c].owner \in {run[c].fo, None}
    BY DEF OInv, WorkFollows, Running
  <2> QED BY <2>1 DEF Owner
<1> QED BY <1>1, InvariantHolds, PTL

-----------------------------------------------------------------------------
(* Ownership implements Holdings.  What its variables are here.            *)
Held(x)  == IF x \in Contacts THEN contact[x].owner ELSE step[x]
holders  == [x \in Subjects |-> Held(x)]
pages    == [p \in Procs |-> Page(tx[p])]

LEMMA HoldersOfOne ==
  ASSUME NEW x \in Subjects, NEW v, \A y \in Subjects : Held(y)' = IF y = x THEN v ELSE Held(y)
  PROVE  holders' = [holders EXCEPT ![x] = v]
BY DEF holders

LEMMA HoldersSame ==
  ASSUME \A x \in Subjects : Held(x)' = Held(x)
  PROVE  holders' = holders
BY DEF holders

LEMMA PagesOfOne ==
  ASSUME TypeOK, NEW p \in Procs, NEW t, tx' = [tx EXCEPT ![p] = t]
  PROVE  /\ pages' = [pages EXCEPT ![p] = Page(t)]
         /\ Page(t) = Page(tx[p]) => pages' = pages
<1>1. tx \in [Procs -> Tx]
  BY DEF TypeOK
<1>2. \A q \in Procs : Page(tx'[q]) = IF q = p THEN Page(t) ELSE Page(tx[q])
  BY <1>1
<1> QED BY <1>2 DEF pages

LEMMA Looked ==
  ASSUME NEW p \in Procs, NEW x \in Subjects, pages[p] = NoPage,
         pages' = [pages EXCEPT ![p] = [on |-> x, seen |-> Held(x)]],
         holders' = holders, UNCHANGED <<active, removed>>
  PROVE  Abstract!HNext
<1>1. Abstract!Look(p)
  BY DEF Abstract!Look, Abstract!NoPage, NoPage, pages, holders, Held
<1> QED BY <1>1 DEF Abstract!HNext

LEMMA LookedAway ==
  ASSUME NEW p \in Procs, pages' = [pages EXCEPT ![p] = NoPage],
         holders' = holders, UNCHANGED <<active, removed>>
  PROVE  Abstract!HNext
<1>1. Abstract!LookAway(p)
  BY DEF Abstract!LookAway, Abstract!NoPage, NoPage, pages, holders, Held
<1> QED BY <1>1 DEF Abstract!HNext

LEMMA Given ==
  ASSUME NEW p \in Procs, NEW x \in Subjects, NEW to \in Somebody,
         pages[p] = [on |-> x, seen |-> Held(x)], pages' = [pages EXCEPT ![p] = NoPage],
         holders' = [holders EXCEPT ![x] = to], UNCHANGED <<active, removed>>
  PROVE  Abstract!HNext
<1>1. Abstract!Give(p)
  BY DEF Abstract!Give, Abstract!NoPage, NoPage, pages, holders, Held, Somebody
<1> QED BY <1>1 DEF Abstract!HNext

LEMMA Taken ==
  ASSUME NEW x \in Subjects, NEW to \in Somebody, Held(x) \in {None} \cup removed,
         holders' = [holders EXCEPT ![x] = to], pages' = pages, UNCHANGED <<active, removed>>
  PROVE  Abstract!HNext
<1>1. Abstract!Take(x)
  BY DEF Abstract!Take, pages, holders, Held, Somebody
<1> QED BY <1>1 DEF Abstract!HNext

LEMMA Stuttered ==
  ASSUME holders' = holders, pages' = pages, UNCHANGED <<active, removed>>
  PROVE  UNCHANGED Abstract!hvars
BY DEF Abstract!hvars, pages, holders, Held

LEMMA StartsMap ==
  ASSUME OInv, NEW p \in Procs, Starts(p)
  PROVE  [Abstract!HNext]_Abstract!hvars
<1>0. TypeOK
  BY DEF OInv
<1>1. ASSUME NEW t, Ask(p, t)
      PROVE  /\ pages' = [pages EXCEPT ![p] = Page(t)] /\ pages[p] = NoPage
             /\ holders' = holders /\ UNCHANGED <<active, removed>>
             /\ Page(t) = NoPage => pages' = pages
  <2>1. tx[p] = NoTx /\ Page(NoTx) = NoPage
    BY <1>1 DEF Ask, Idle, NoTx, Page
  <2>2. holders' = holders
    BY <1>1, HoldersSame DEF Ask, Held
  <2>3. tx' = [tx EXCEPT ![p] = t] /\ UNCHANGED <<active, removed>>
    BY <1>1 DEF Ask
  <2>4. pages[p] = NoPage
    BY <2>1 DEF pages
  <2> QED BY <1>0, <2>1, <2>2, <2>3, <2>4, PagesOfOne
<1>2. CASE AskAssign(p)
  <2>0. PICK a \in Users, c \in Contacts, to \in Somebody : \E pod \in Offered(to) :
          Ask(p, [NoTx EXCEPT !.op = "assign", !.by = a, !.on = c, !.to = to, !.pod = pod,
                              !.seen = contact[c].owner, !.mine = Session(a)])
    BY <1>2 DEF AskAssign
  <2>1. PICK pod \in Offered(to) :
          Ask(p, [NoTx EXCEPT !.op = "assign", !.by = a, !.on = c, !.to = to, !.pod = pod,
                              !.seen = contact[c].owner, !.mine = Session(a)])
    BY <2>0
  <2> DEFINE t == [NoTx EXCEPT !.op = "assign", !.by = a, !.on = c, !.to = to, !.pod = pod,
                               !.seen = contact[c].owner, !.mine = Session(a)]
  <2>2. Page(t) = [on |-> c, seen |-> Held(c)] /\ c \in Subjects
    BY DEF Page, NoTx, Held, Subjects
  <2>3. Ask(p, t)
    BY <2>1
  <2> HIDE DEF t
  <2> QED BY <1>1, <2>2, <2>3, Looked
<1>3. CASE AskHand(p)
  <2>1. PICK k \in Forms, to \in active : Ask(p, [NoTx EXCEPT !.op = "hand", !.on = k, !.to = to, !.seen = step[k]])
    BY <1>3 DEF AskHand
  <2> DEFINE t == [NoTx EXCEPT !.op = "hand", !.on = k, !.to = to, !.seen = step[k]]
  <2>2. Page(t) = [on |-> k, seen |-> Held(k)] /\ k \in Subjects
    BY OwnershipAssumption DEF Page, NoTx, Held, Subjects
  <2>3. Ask(p, t)
    BY <2>1
  <2> HIDE DEF t
  <2> QED BY <1>1, <2>2, <2>3, Looked
<1>4. ASSUME /\ tx[p] = NoTx /\ tx'[p].op \notin {"assign", "hand"}
             /\ tx' = [tx EXCEPT ![p] = tx'[p]] /\ UNCHANGED Rows
      PROVE  UNCHANGED Abstract!hvars
  <2>1. Page(tx'[p]) = Page(tx[p])
    BY <1>4 DEF Page, NoTx
  <2>2. pages' = pages
    BY <1>0, <1>4, <2>1, PagesOfOne
  <2>3. holders' = holders /\ UNCHANGED <<active, removed>>
    BY <1>4, HoldersSame DEF Rows, Held
  <2> QED BY <2>2, <2>3, Stuttered
<1> DEFINE Other == /\ tx[p] = NoTx /\ tx'[p].op \notin {"assign", "hand"}
                    /\ tx' = [tx EXCEPT ![p] = tx'[p]] /\ UNCHANGED Rows
<1>5. ASSUME NEW t, Ask(p, t), t.op \notin {"assign", "hand"} PROVE Other
  <2>1. tx' = [tx EXCEPT ![p] = t] /\ tx \in [Procs -> Tx]
    BY <1>0, <1>5 DEF Ask, TypeOK
  <2>2. tx'[p] = t
    BY <2>1
  <2> QED BY <1>5, <2>1, <2>2 DEF Ask, Idle, Rows
<1>s. Other => UNCHANGED Abstract!hvars
  BY <1>4
<1> HIDE DEF Other
<1>6. CASE AskClaim(p)
  <2>1. PICK a \in active, c \in Contacts : \E pod \in Offered(a) :
          Ask(p, [NoTx EXCEPT !.op = "claim", !.by = a, !.on = c, !.to = a, !.pod = pod, !.mine = Session(a)])
    BY <1>6 DEF AskClaim
  <2>2. PICK pod \in Offered(a) :
          Ask(p, [NoTx EXCEPT !.op = "claim", !.by = a, !.on = c, !.to = a, !.pod = pod, !.mine = Session(a)])
    BY <2>1
  <2> DEFINE t == [NoTx EXCEPT !.op = "claim", !.by = a, !.on = c, !.to = a, !.pod = pod, !.mine = Session(a)]
  <2>3. Ask(p, t) /\ t.op = "claim"
    BY <2>2 DEF NoTx
  <2> HIDE DEF t
  <2> QED BY <1>5, <1>s, <2>3
<1>7. CASE AskNext(p)
  <2>1. PICK a \in Users, c \in Contacts :
          LET fo == IF Owner(c) # None THEN Owner(c) ELSE a IN
          /\ fo # Admin
          /\ Ask(p, [NoTx EXCEPT !.op = "next", !.by = a, !.on = c, !.seen = fo, !.mine = Session(a)])
    BY <1>7 DEF AskNext
  <2> DEFINE fo == IF Owner(c) # None THEN Owner(c) ELSE a
             t  == [NoTx EXCEPT !.op = "next", !.by = a, !.on = c, !.seen = fo, !.mine = Session(a)]
  <2>2. Ask(p, t) /\ t.op = "next"
    BY <2>1 DEF NoTx
  <2> HIDE DEF t
  <2> QED BY <1>5, <1>s, <2>2
<1>8. CASE AskSetPod(p)
  <2>1. PICK a \in Users, c \in Contacts, pod \in SomePod :
          Ask(p, [NoTx EXCEPT !.op = "setPod", !.by = a, !.on = c, !.pod = pod, !.mine = Session(a)])
    BY <1>8 DEF AskSetPod
  <2> DEFINE t == [NoTx EXCEPT !.op = "setPod", !.by = a, !.on = c, !.pod = pod, !.mine = Session(a)]
  <2>2. Ask(p, t) /\ t.op = "setPod"
    BY <2>1 DEF NoTx
  <2> HIDE DEF t
  <2> QED BY <1>5, <1>s, <2>2
<1>9. CASE AskLaunch(p)
  <2>1. PICK fo \in active, c \in Contacts : \E pod \in pods[fo] :
          Ask(p, [NoTx EXCEPT !.op = "launch", !.on = c, !.to = fo, !.pod = pod])
    BY <1>9 DEF AskLaunch
  <2>2. PICK pod \in pods[fo] : Ask(p, [NoTx EXCEPT !.op = "launch", !.on = c, !.to = fo, !.pod = pod])
    BY <2>1
  <2> DEFINE t == [NoTx EXCEPT !.op = "launch", !.on = c, !.to = fo, !.pod = pod]
  <2>3. Ask(p, t) /\ t.op = "launch"
    BY <2>2 DEF NoTx
  <2> HIDE DEF t
  <2> QED BY <1>5, <1>s, <2>3
<1>10. CASE AskRemove(p)
  <2>1. PICK u \in active : \E r \in Somebody \ {u} :
          Ask(p, [NoTx EXCEPT !.op = "remove", !.by = u, !.to = r, !.claims = HasWork(u)])
    BY <1>10 DEF AskRemove
  <2>2. PICK r \in Somebody \ {u} : Ask(p, [NoTx EXCEPT !.op = "remove", !.by = u, !.to = r, !.claims = HasWork(u)])
    BY <2>1
  <2> DEFINE t == [NoTx EXCEPT !.op = "remove", !.by = u, !.to = r, !.claims = HasWork(u)]
  <2>3. Ask(p, t) /\ t.op = "remove"
    BY <2>2 DEF NoTx
  <2> HIDE DEF t
  <2> QED BY <1>5, <1>s, <2>3
<1>11. CASE AskPods(p)
  <2>1. PICK u \in Reps, theirs \in (SUBSET Pods) \ {{}} : \E pod \in Choice(theirs) :
          Ask(p, [NoTx EXCEPT !.op = "pods", !.by = u, !.mine = theirs, !.pod = pod])
    BY <1>11 DEF AskPods
  <2>2. PICK pod \in Choice(theirs) :
          Ask(p, [NoTx EXCEPT !.op = "pods", !.by = u, !.mine = theirs, !.pod = pod])
    BY <2>1
  <2> DEFINE t == [NoTx EXCEPT !.op = "pods", !.by = u, !.mine = theirs, !.pod = pod]
  <2>3. Ask(p, t) /\ t.op = "pods"
    BY <2>2 DEF NoTx
  <2> HIDE DEF t
  <2> QED BY <1>5, <1>s, <2>3
<1>12. CASE AskStrand(p)
  <2>1. PICK u \in Reps \ active, to \in active :
          LET rows == {c \in Contacts : step[c] = u} IN
          Ask(p, [NoTx EXCEPT !.op = "strand", !.by = u, !.to = to, !.rows = rows])
    BY <1>12 DEF AskStrand
  <2> DEFINE rows == {c \in Contacts : step[c] = u}
             t == [NoTx EXCEPT !.op = "strand", !.by = u, !.to = to, !.rows = rows]
  <2>2. Ask(p, t) /\ t.op = "strand"
    BY <2>1 DEF NoTx
  <2> HIDE DEF t
  <2> QED BY <1>5, <1>s, <2>2
<1> QED BY <1>2, <1>3, <1>6, <1>7, <1>8, <1>9, <1>10, <1>11, <1>12 DEF Starts

LEMMA RefuseMaps ==
  ASSUME OInv, NEW p \in Procs, Refuse(p)
  PROVE  Abstract!HNext
<1>0. TypeOK /\ tx' = [tx EXCEPT ![p] = NoTx] /\ Page(NoTx) = NoPage
  BY DEF OInv, Refuse, Page, NoTx
<1>1. pages' = [pages EXCEPT ![p] = NoPage]
  BY <1>0, PagesOfOne
<1>2. holders' = holders /\ UNCHANGED <<active, removed>>
  BY HoldersSame DEF Refuse, Held
<1> QED BY <1>1, <1>2, LookedAway

LEMMA HoldMaps ==
  ASSUME OInv, NEW p \in Procs, NEW t, Hold(p, t), tx[p] \in Tx,
         t.op = tx[p].op, t.on = tx[p].on, t.seen = tx[p].seen, DOMAIN t = DOMAIN tx[p],
         [t EXCEPT !.at = "locked"].op = tx[p].op, [t EXCEPT !.at = "locked"].on = tx[p].on,
         [t EXCEPT !.at = "locked"].seen = tx[p].seen
  PROVE  UNCHANGED Abstract!hvars
<1>1. tx' = [tx EXCEPT ![p] = [t EXCEPT !.at = "locked"]]
  BY DEF Hold
<1>2. Page([t EXCEPT !.at = "locked"]) = Page(tx[p])
  BY DEF Page
<1>3. pages' = pages
  BY <1>1, <1>2, PagesOfOne DEF OInv
<1>4. holders' = holders /\ UNCHANGED <<active, removed>>
  BY HoldersSame DEF Hold, Held
<1> QED BY <1>3, <1>4, Stuttered

LEMMA LocksMap ==
  ASSUME OInv, NEW p \in Procs, Locks(p)
  PROVE  [Abstract!HNext]_Abstract!hvars
<1>0. tx[p] \in Tx
  BY DEF OInv, TypeOK
<1>1. CASE Refuse(p)
  BY <1>1, RefuseMaps
<1>2. CASE \E pod : Hold(p, [tx[p] EXCEPT !.pod = pod])
  <2>1. PICK pod : Hold(p, [tx[p] EXCEPT !.pod = pod])
    BY <1>2
  <2> QED BY <1>0, <2>1, HoldMaps DEF Tx
<1>3. CASE \E to, claims, pod : Hold(p, [tx[p] EXCEPT !.claims = claims, !.to = to, !.pod = pod])
  <2>1. PICK to, claims, pod : Hold(p, [tx[p] EXCEPT !.claims = claims, !.to = to, !.pod = pod])
    BY <1>3
  <2> QED BY <1>0, <2>1, HoldMaps DEF Tx
<1>4. CASE \E to, claims : Hold(p, [tx[p] EXCEPT !.claims = claims, !.to = to])
  <2>1. PICK to, claims : Hold(p, [tx[p] EXCEPT !.claims = claims, !.to = to])
    BY <1>4
  <2> QED BY <1>0, <2>1, HoldMaps DEF Tx
<1>5. CASE \E claims : Hold(p, [tx[p] EXCEPT !.claims = claims])
  <2>1. PICK claims : Hold(p, [tx[p] EXCEPT !.claims = claims])
    BY <1>5
  <2> QED BY <1>0, <2>1, HoldMaps DEF Tx
<1>6. CASE Hold(p, tx[p])
  BY <1>0, <1>6, HoldMaps DEF Tx
<1>7. LockAssign(p) => Refuse(p) \/ \E pod : Hold(p, [tx[p] EXCEPT !.pod = pod])
  BY DEF LockAssign
<1>8. LockClaim(p) => Refuse(p) \/ \E pod : Hold(p, [tx[p] EXCEPT !.pod = pod])
  BY DEF LockClaim
<1>9. LockNext(p) => \/ Refuse(p) \/ Hold(p, tx[p])
                     \/ \E to, claims, pod : Hold(p, [tx[p] EXCEPT !.claims = claims, !.to = to, !.pod = pod])
  BY DEF LockNext
<1>10. LockSetPod(p) => \/ Refuse(p)
                        \/ \E to, claims : Hold(p, [tx[p] EXCEPT !.claims = claims, !.to = to])
  BY DEF LockSetPod
<1>11. LockLaunch(p) => Refuse(p) \/ \E claims : Hold(p, [tx[p] EXCEPT !.claims = claims])
  BY DEF LockLaunch
<1>12. LockRemove(p) => Refuse(p) \/ \E claims : Hold(p, [tx[p] EXCEPT !.claims = claims])
  BY DEF LockRemove
<1>13. LockPods(p) => Refuse(p) \/ Hold(p, tx[p])
  BY DEF LockPods
<1> QED BY <1>1, <1>2, <1>3, <1>4, <1>5, <1>6, <1>7, <1>8, <1>9, <1>10, <1>11, <1>12, <1>13 DEF Locks

(* A commit closes its page; only requests to hand something on have one.  *)
LEMMA PageClosed ==
  ASSUME OInv, NEW p \in Procs, tx' = [tx EXCEPT ![p] = NoTx]
  PROVE  /\ pages' = [pages EXCEPT ![p] = NoPage] /\ pages[p] = Page(tx[p])
         /\ tx[p].op \notin {"assign", "hand"} => pages' = pages
<1>1. Page(NoTx) = NoPage /\ TypeOK
  BY DEF Page, NoTx, OInv
<1>2. tx[p].op \notin {"assign", "hand"} => Page(tx[p]) = NoPage
  BY DEF Page
<1> QED BY <1>1, <1>2, PagesOfOne DEF pages

LEMMA CommitTransferMaps ==
  ASSUME OInv, NEW p \in Procs, CommitTransfer(p)
  PROVE  Abstract!HNext
<1> DEFINE t == tx[p]  c == t.on
<1>1. t \in Tx /\ t.at = "locked" /\ Fits(t) /\ Knows(t) /\ t.op \in {"assign", "claim"} /\ TypeOK
  BY DEF OInv, TypeOK, AllFit, AllKnow, CommitTransfer, Writing
<1>2. c \in Contacts /\ c \in Subjects /\ t.to \in Somebody
  BY <1>1 DEF Fits, Tx, Subjects
<1>3. tx' = [tx EXCEPT ![p] = NoTx] /\ UNCHANGED <<active, removed>>
  BY DEF CommitTransfer, Done
<1>4. \A y \in Subjects : Held(y)' = IF y = c THEN t.to ELSE Held(y)
  <2>1. \A y \in Contacts : contact'[y].owner = IF y = c THEN t.to ELSE contact[y].owner
    BY <1>1, <1>2 DEF CommitTransfer, ApplyTransfer, TypeOK
  <2>2. \A y \in Subjects \ Contacts : step'[y] = step[y]
    BY <1>2 DEF CommitTransfer, ApplyTransfer, MoveWorkTo
  <2> QED BY <1>2, <2>1, <2>2 DEF Held
<1>5. holders' = [holders EXCEPT ![c] = t.to]
  BY <1>2, <1>4, HoldersOfOne
<1>6. CASE t.op = "assign"
  <2>1. pages[p] = [on |-> c, seen |-> Held(c)] /\ pages' = [pages EXCEPT ![p] = NoPage]
    BY <1>1, <1>2, <1>3, <1>6, PageClosed DEF Page, Held, Knows
  <2> QED BY <1>2, <1>3, <1>5, <2>1, Given
<1>7. CASE t.op = "claim"
  <2>1. Held(c) \in {None} \cup removed
    BY <1>1, <1>2, <1>7 DEF Held, Knows, Claims, Nobodys
  <2>2. pages' = pages
    BY <1>3, <1>7, PageClosed
  <2> QED BY <1>2, <1>3, <1>5, <2>1, <2>2, Taken
<1> QED BY <1>1, <1>6, <1>7

(* The first write, a new pod and a launch take the contact, or leave it.  *)
LEMMA TakesOrLeaves ==
  ASSUME OInv, NEW p \in Procs, tx[p].at = "locked", tx[p].op \in {"next", "setPod", "launch"},
         tx' = [tx EXCEPT ![p] = NoTx], UNCHANGED <<active, removed>>,
         NEW to \in Somebody,
         \A y \in Contacts : contact'[y].owner = IF y = tx[p].on THEN to ELSE contact[y].owner,
         \A y \in Subjects \ Contacts : step'[y] = step[y],
         to # contact[tx[p].on].owner => Nobodys(tx[p].on)
  PROVE  [Abstract!HNext]_Abstract!hvars
<1> DEFINE c == tx[p].on
<1>1. c \in Contacts /\ c \in Subjects
  BY DEF OInv, AllFit, Fits, Subjects
<1>2. pages' = pages
  BY PageClosed
<1>3. CASE to = contact[c].owner
  <2>1. \A y \in Subjects : Held(y)' = Held(y)
    BY <1>3 DEF Held
  <2> QED BY <1>2, <2>1, HoldersSame, Stuttered
<1>4. CASE to # contact[c].owner
  <2>1. \A y \in Subjects : Held(y)' = IF y = c THEN to ELSE Held(y)
    BY <1>1 DEF Held
  <2>2. Held(c) \in {None} \cup removed
    BY <1>1, <1>4 DEF Held, Nobodys
  <2>3. holders' = [holders EXCEPT ![c] = to]
    BY <1>1, <2>1, HoldersOfOne
  <2> QED BY <1>1, <1>2, <2>2, <2>3, Taken
<1> QED BY <1>3, <1>4

LEMMA CommitNextMaps ==
  ASSUME OInv, NEW p \in Procs, CommitNext(p)
  PROVE  [Abstract!HNext]_Abstract!hvars
<1> DEFINE t == tx[p]  c == t.on  to == IF t.claims THEN t.to ELSE contact[c].owner
<1>1. t \in Tx /\ t.at = "locked" /\ Fits(t) /\ Knows(t) /\ t.op = "next" /\ TypeOK
  BY DEF OInv, TypeOK, AllFit, AllKnow, CommitNext, Writing
<1>2. c \in Contacts
  BY <1>1 DEF Fits
<1>3. tx' = [tx EXCEPT ![p] = NoTx] /\ UNCHANGED <<active, removed>>
  BY DEF CommitNext, Done
<1>4. to \in Somebody /\ \A y \in Contacts : contact'[y].owner = IF y = c THEN to ELSE contact[y].owner
  BY <1>1, <1>2 DEF CommitNext, TypeOK, Tx
<1>5. \A y \in Subjects \ Contacts : step'[y] = step[y]
  BY <1>1, <1>2 DEF CommitNext, TypeOK
<1>6. to # contact[c].owner => Nobodys(c)
  BY <1>1 DEF Knows, Claims
<1> HIDE DEF to
<1> QED BY <1>1, <1>3, <1>4, <1>5, <1>6, TakesOrLeaves

LEMMA CommitSetPodMaps ==
  ASSUME OInv, NEW p \in Procs, CommitSetPod(p)
  PROVE  [Abstract!HNext]_Abstract!hvars
<1> DEFINE t == tx[p]  c == t.on
           to == IF t.claims THEN t.to ELSE IF t.pod = None THEN None ELSE contact[c].owner
<1>1. t \in Tx /\ t.at = "locked" /\ Fits(t) /\ Knows(t) /\ t.op = "setPod" /\ TypeOK
  BY DEF OInv, TypeOK, AllFit, AllKnow, CommitSetPod, Writing
<1>2. c \in Contacts
  BY <1>1 DEF Fits
<1>3. tx' = [tx EXCEPT ![p] = NoTx] /\ UNCHANGED <<active, removed>>
  BY DEF CommitSetPod, Done
<1>4. to \in Somebody /\ \A y \in Contacts : contact'[y].owner = IF y = c THEN to ELSE contact[y].owner
  BY <1>1, <1>2 DEF CommitSetPod, ApplyTransfer, PodSet, TypeOK, Tx, Somebody
<1>5. \A y \in Subjects \ Contacts : step'[y] = step[y]
  BY <1>1, <1>2 DEF CommitSetPod, ApplyTransfer, MoveWorkTo
<1>6. to # contact[c].owner => Nobodys(c)
  BY <1>1 DEF Knows, Claims
<1> HIDE DEF to
<1> QED BY <1>1, <1>3, <1>4, <1>5, <1>6, TakesOrLeaves

LEMMA CommitLaunchMaps ==
  ASSUME OInv, NEW p \in Procs, CommitLaunch(p)
  PROVE  [Abstract!HNext]_Abstract!hvars
<1> DEFINE t == tx[p]  c == t.on
<1>1. t \in Tx /\ t.at = "locked" /\ Fits(t) /\ Knows(t) /\ t.op = "launch" /\ TypeOK
  BY DEF OInv, TypeOK, AllFit, AllKnow, CommitLaunch, Writing
<1>2. c \in Contacts /\ t.to \in Somebody
  BY <1>1 DEF Fits, Somebody
<1>3. tx' = [tx EXCEPT ![p] = NoTx] /\ UNCHANGED <<active, removed>>
  BY DEF CommitLaunch, Done
<1>4. \A y \in Contacts : contact'[y].owner = IF y = c THEN t.to ELSE contact[y].owner
  BY <1>1, <1>2 DEF CommitLaunch, TypeOK, Knows
<1>5. \A y \in Subjects \ Contacts : step'[y] = step[y]
  BY <1>1, <1>2 DEF CommitLaunch, TypeOK
<1>6. t.to # contact[c].owner => Nobodys(c)
  BY <1>1 DEF Knows, Claims
<1> QED BY <1>1, <1>2, <1>3, <1>4, <1>5, <1>6, TakesOrLeaves

LEMMA CommitRemoveMaps ==
  ASSUME OInv, TypeOK', NEW p \in Procs, CommitRemove(p)
  PROVE  Abstract!HNext
<1> DEFINE t == tx[p]
<1>1. t \in Tx /\ t.at = "locked" /\ Fits(t) /\ Knows(t) /\ t.op = "remove" /\ TypeOK
  BY DEF OInv, TypeOK, AllFit, AllKnow, CommitRemove, Writing
<1>2. PICK u \in Reps, r \in Somebody : t.by = u /\ t.to = r /\ r # u
  BY <1>1 DEF Fits, Tx
<1>3. /\ tx' = [tx EXCEPT ![p] = NoTx]
      /\ active' = active \ {u} /\ removed' = removed \cup {u}
  BY <1>2 DEF CommitRemove, Done
<1>4. pages' = pages
  BY <1>1, <1>3, PageClosed
<1>5. \A x \in Subjects : Held(x)' \in Reps \cup {None}
  BY DEF TypeOK, Held, Somebody, Subjects
<1>6. CASE ~t.claims
  <2>1. \A x \in Subjects : Held(x)' = Held(x)
    BY <1>6 DEF CommitRemove, Held
  <2>2. Abstract!Leave(u)
    BY <1>3, <1>4, <1>5, <2>1 DEF Abstract!Leave, pages, Held
  <2> QED BY <2>2 DEF Abstract!HNext
<1>7. CASE t.claims
  <2>1. r \in active \ {u}
    BY <1>1, <1>2, <1>7 DEF Knows, Claims
  <2>2. \A x \in Subjects : Held(x)' = Held(x) \/ (Held(x) = u /\ Held(x)' = r)
    BY <1>2, <1>7 DEF CommitRemove, HandOver, Held, Subjects
  <2>3. Abstract!Leave(u)
    BY <1>3, <1>4, <1>5, <2>1, <2>2 DEF Abstract!Leave, pages, Held
  <2> QED BY <2>3 DEF Abstract!HNext
<1> QED BY <1>6, <1>7

LEMMA CommitPodsMaps ==
  ASSUME OInv, NEW p \in Procs, CommitPods(p)
  PROVE  UNCHANGED Abstract!hvars
<1> DEFINE t == tx[p]  u == t.by  moved == Rehomed(t)
<1>1. t.op = "pods" /\ tx' = [tx EXCEPT ![p] = NoTx] /\ UNCHANGED <<active, removed>>
  BY DEF CommitPods, Done, Writing
<1>2. pages' = pages
  BY <1>1, PageClosed
<1>3. CASE UNCHANGED <<contact, step, run>>
  <2>1. \A x \in Subjects : Held(x)' = Held(x)
    BY <1>3 DEF Held
  <2> QED BY <1>1, <1>2, <2>1, HoldersSame, Stuttered
<1>4. CASE \E pod \in PodFor(t.mine, None, t.pod) :
             /\ contact' = [c \in Contacts |-> IF c \in moved THEN [owner |-> u, pod |-> pod] ELSE contact[c]]
             /\ MoveWorkTo(moved, u)
  <2>1. PICK pod \in PodFor(t.mine, None, t.pod) :
             contact' = [c \in Contacts |-> IF c \in moved THEN [owner |-> u, pod |-> pod] ELSE contact[c]]
    BY <1>4
  <2>2. \A c \in Contacts : contact'[c].owner = contact[c].owner
    BY <2>1 DEF Rehomed
  <2>3. \A x \in Subjects \ Contacts : step'[x] = step[x]
    BY <1>4 DEF MoveWorkTo, Rehomed
  <2>4. \A x \in Subjects : Held(x)' = Held(x)
    BY <2>2, <2>3 DEF Held
  <2> QED BY <1>1, <1>2, <2>4, HoldersSame, Stuttered
<1> QED BY <1>3, <1>4 DEF CommitPods

LEMMA CommitsMap ==
  ASSUME OInv, OInv', NEW p \in Procs, Commits(p)
  PROVE  [Abstract!HNext]_Abstract!hvars
<1> DEFINE t == tx[p]
<1>0. t \in Tx /\ Fits(t) /\ TypeOK /\ TypeOK'
  BY DEF OInv, TypeOK, AllFit
<1>1. CASE Hand(p)
  <2>1. /\ t.op = "hand" /\ t.on \in Forms /\ t.on \in Subjects /\ t.on \notin Contacts /\ t.to \in Somebody
        /\ tx' = [tx EXCEPT ![p] = NoTx] /\ UNCHANGED <<active, removed, contact>>
    BY <1>0, <1>1, OwnershipAssumption DEF Hand, Done, Locking, Fits, Subjects, Somebody
  <2>2. pages' = [pages EXCEPT ![p] = NoPage] /\ pages[p] = [on |-> t.on, seen |-> t.seen]
    BY <2>1, PageClosed DEF Page
  <2>3. \A x \in Subjects : step'[x] = IF x = t.on /\ step[x] = t.seen THEN t.to ELSE step[x]
    BY <1>0, <1>1, <2>1 DEF Hand, TypeOK
  <2>4. CASE step[t.on] = t.seen
    <3>1. \A x \in Subjects : Held(x)' = IF x = t.on THEN t.to ELSE Held(x)
      BY <2>1, <2>3, <2>4 DEF Held
    <3>2. pages[p] = [on |-> t.on, seen |-> Held(t.on)]
      BY <2>1, <2>2, <2>4 DEF Held
    <3>3. holders' = [holders EXCEPT ![t.on] = t.to]
      BY <2>1, <3>1, HoldersOfOne
    <3> QED BY <2>1, <2>2, <3>2, <3>3, Given
  <2>5. CASE step[t.on] # t.seen
    <3>1. \A x \in Subjects : Held(x)' = Held(x)
      BY <2>1, <2>3, <2>5 DEF Held
    <3> QED BY <2>1, <2>2, <3>1, HoldersSame, LookedAway
  <2> QED BY <2>4, <2>5
<1>2. CASE Strand(p)
  <2>1. /\ t.op = "strand" /\ tx' = [tx EXCEPT ![p] = NoTx] /\ UNCHANGED <<active, removed, contact>>
    BY <1>2 DEF Strand, Done, Locking
  <2>2. t.rows \subseteq Contacts
    BY <1>0 DEF Tx
  <2>3. \A x \in Subjects : Held(x)' = Held(x)
    BY <1>2, <2>1, <2>2 DEF Strand, Held
  <2> QED BY <2>1, <2>3, PageClosed, HoldersSame, Stuttered
<1> QED BY <1>0, <1>1, <1>2, CommitTransferMaps, CommitNextMaps, CommitSetPodMaps, CommitLaunchMaps,
           CommitRemoveMaps, CommitPodsMaps DEF Commits

LEMMA FinishMaps ==
  ASSUME OInv, Finish
  PROVE  [Abstract!HNext]_Abstract!hvars
<1>0. tx \in [Procs -> Tx] /\ step \in [Subjects -> Somebody] /\ UNCHANGED <<active, removed, contact>>
  BY DEF OInv, TypeOK, Finish
<1>1. CASE \E x \in Subjects : /\ step[x] # None /\ step' = [step EXCEPT ![x] = None]
                               /\ tx' = [q \in Procs |-> [tx[q] EXCEPT !.rows = @ \ {x}]]
                               /\ UNCHANGED run
  <2>1. PICK x \in Subjects : /\ step' = [step EXCEPT ![x] = None]
                              /\ tx' = [q \in Procs |-> [tx[q] EXCEPT !.rows = @ \ {x}]]
    BY <1>1
  <2>2. \A q \in Procs : tx'[q].op = tx[q].op /\ tx'[q].on = tx[q].on /\ tx'[q].seen = tx[q].seen
    BY <1>0, <2>1 DEF Tx
  <2>3. pages' = pages
    BY <2>2 DEF pages, Page
  <2>4. CASE x \in Contacts
    <3>1. \A y \in Subjects : Held(y)' = Held(y)
      BY <1>0, <2>1, <2>4 DEF Held
    <3> QED BY <1>0, <2>3, <3>1, HoldersSame, Stuttered
  <2>5. CASE x \notin Contacts
    <3>1. \A y \in Subjects : Held(y)' = IF y = x THEN None ELSE Held(y)
      BY <1>0, <2>1, <2>5 DEF Held
    <3>2. holders' = [holders EXCEPT ![x] = None]
      BY <3>1, HoldersOfOne
    <3>3. Abstract!Finish(x) /\ x \in Forms
      BY <1>0, <2>3, <2>5, <3>2 DEF Abstract!Finish, pages, holders, Held, Subjects
    <3> QED BY <3>3 DEF Abstract!HNext
  <2> QED BY <2>4, <2>5
<1>2. CASE UNCHANGED <<step, tx>>
  <2>1. \A y \in Subjects : Held(y)' = Held(y)
    BY <1>0, <1>2 DEF Held
  <2>2. pages' = pages
    BY <1>2 DEF pages
  <2> QED BY <1>0, <2>1, <2>2, HoldersSame, Stuttered
<1> QED BY <1>1, <1>2 DEF Finish

LEMMA InitMaps == Init => Abstract!HInit
<1> SUFFICES ASSUME Init PROVE Abstract!HInit
  OBVIOUS
<1>1. TypeOK
  BY InitHolds DEF OInv
<1>2. \A x \in Subjects : Held(x) \in Reps \cup {None}
  BY <1>1 DEF TypeOK, Held, Somebody, Subjects
<1>3. \A p \in Procs : Page(tx[p]) = NoPage
  BY DEF Init, Page, NoTx
<1> QED BY <1>2, <1>3 DEF Abstract!HInit, Abstract!NoPage, NoPage, Held, Init

LEMMA StepMaps ==
  ASSUME OInv, OInv', [Next]_vars
  PROVE  [Abstract!HNext]_Abstract!hvars
<1>1. ASSUME NEW p \in Procs, Rollback(p) PROVE Abstract!HNext
  BY <1>1, RefuseMaps DEF Rollback
<1>2. ASSUME NEW u \in Reps, Restore(u) PROVE Abstract!HNext
  <2>1. Abstract!Return(u)
    BY <1>2 DEF Restore, Abstract!Return
  <2> QED BY <2>1 DEF Abstract!HNext
<1>3. CASE UNCHANGED vars
  BY <1>3 DEF vars, Abstract!hvars
<1> QED BY <1>1, <1>2, <1>3, StartsMap, LocksMap, CommitsMap, FinishMaps DEF Next

(* Nothing is taken from a rep who holds it: whatever requests, removals   *)
(* and rollbacks interleave, a contact or form changes hands as Holdings   *)
(* says it may.                                                            *)
THEOREM OwnershipImplementsHoldings == Spec => HeldUntilGiven
<1>1. Init => Abstract!HInit
  BY InitMaps
<1>2. OInv /\ OInv' /\ [Next]_vars => [Abstract!HNext]_Abstract!hvars
  BY StepMaps
<1> QED BY <1>1, <1>2, InvariantHolds, PTL DEF Spec, HeldUntilGiven, Abstract!Spec
=============================================================================
