---------------------------- MODULE ContactProofs ----------------------------
(***************************************************************************)
(* Proofs about ColdContact: its types, that an opt-out outlives an undo,  *)
(* that no contact moves to the CRM after it opted out, that one call      *)
(* creates all the people a contact has there, and that it implements      *)
(* ContactLife.                                                            *)
(***************************************************************************)
EXTENDS ColdContact, TLAPS

Moving  == {"check", "find", "create", "createAgain", "store", "complete", "tellCrm", "notes"}
Undoing == {"undoClaim", "undoPerson", "undoLocal"}

(* What the job of a process is about, the items being these. *)
Fits(j, items) ==
  /\ j.do \in Moving \cup Undoing => /\ j.item \in Items /\ items[j.item].state # "NONE"
                                     /\ j.contact = items[j.item].contact
  /\ j.do \notin Moving \cup Undoing => j.item = Nil
  /\ j.do \in {"queue", "endRuns"} => j.contact \in Contacts
  /\ j.do \in {"createAgain", "store", "complete", "tellCrm", "undoPerson", "optPerson", "sweep"} =>
       j.person \in Persons

JobsFit   == \A p \in Procs : Fits(job[p], item)
ItemsHaveContacts == \A k \in Items : item[k].state # "NONE" => item[k].contact \in Contacts

(* Only a contact that moved has a person, and one that opted out is not active. *)
RowFits(r) == /\ r.status = "MOVED" <=> r.person # Nil
              /\ r.opted => r.status # "ACTIVE"
ContactsFit == \A c \in Contacts : RowFits(contact[c])

CInv == TypeOK /\ JobsFit /\ ItemsHaveContacts /\ ContactsFit

ContactType == [Contacts -> ContactRow]

(* No step takes an item back to nothing, or to another contact. *)
ItemsKeep == \A k \in Items : item[k].state # "NONE" =>
               item'[k].state # "NONE" /\ item'[k].contact = item[k].contact

-----------------------------------------------------------------------------
LEMMA NoJobFits == NoJob \in Job /\ Fits(NoJob, item)
BY ColdContactAssumption DEF NoJob, Job, Fits, Moving, Undoing, Refs

LEMMA NilIsNobody == Nil \notin Persons /\ Nil \notin Contacts /\ Nil \notin Items
BY ColdContactAssumption

LEMMA InitHolds == Init => CInv
<1> SUFFICES ASSUME Init PROVE CInv
  OBVIOUS
<1>1. TypeOK
  <2>1. contact \in [Contacts -> ContactRow]
    BY DEF Init, ContactRow, Refs
  <2>2. person \in [Persons -> PersonRow]
    BY DEF Init, PersonRow, Refs
  <2>3. item \in [Items -> ItemRow]
    BY DEF Init, ItemRow, NoItem, ItemStates, Refs
  <2>4. job \in [Procs -> Job]
    BY NoJobFits DEF Init
  <2>5. mishaps \in 0 .. MaxMishaps
    BY ColdContactAssumption DEF Init
  <2>6. outlived \in BOOLEAN
    BY Zenon DEF Init
  <2> QED BY <2>1, <2>2, <2>3, <2>4, <2>5, <2>6 DEF TypeOK
<1>2. JobsFit
  BY NoJobFits DEF Init, JobsFit
<1>3. ItemsHaveContacts /\ ContactsFit
  BY DEF Init, ItemsHaveContacts, ContactsFit, RowFits, NoItem
<1> QED BY <1>1, <1>2, <1>3 DEF CInv

(* A step of one process. *)
LEMMA JobStepHolds ==
  ASSUME CInv, NEW p \in Procs, NEW j \in Job, job' = [job EXCEPT ![p] = j], Fits(j, item'),
         ItemsKeep
  PROVE  job' \in [Procs -> Job] /\ JobsFit'
<1>1. job \in [Procs -> Job]
  BY DEF CInv, TypeOK
<1>2. ASSUME NEW q \in Procs PROVE Fits(job'[q], item')
  <2>1. CASE q = p
    BY <1>1, <2>1
  <2>2. CASE q # p
    <3>1. Fits(job[q], item) /\ job'[q] = job[q]
      BY <1>1, <2>2 DEF CInv, JobsFit
    <3> QED BY <3>1 DEF Fits, ItemsKeep
  <2> QED BY <2>1, <2>2
<1> QED BY <1>1, <1>2 DEF JobsFit

(* ... and one of none. *)
LEMMA OthersHold ==
  ASSUME CInv, UNCHANGED job, ItemsKeep
  PROVE  job' \in [Procs -> Job] /\ JobsFit'
BY DEF CInv, TypeOK, JobsFit, Fits, ItemsKeep

(* An item is written. *)
LEMMA ItemStep ==
  ASSUME CInv, NEW k \in Items, NEW v \in ItemRow, item' = [item EXCEPT ![k] = v],
         v.state # "NONE", v.contact \in Contacts,
         item[k].state # "NONE" => v.contact = item[k].contact
  PROVE  item' \in [Items -> ItemRow] /\ ItemsHaveContacts' /\ ItemsKeep
BY DEF CInv, TypeOK, ItemsHaveContacts, ItemsKeep

LEMMA ItemsSame ==
  ASSUME CInv, UNCHANGED item
  PROVE  item' \in [Items -> ItemRow] /\ ItemsHaveContacts' /\ ItemsKeep
BY DEF CInv, TypeOK, ItemsHaveContacts, ItemsKeep

(* A contact is written. *)
LEMMA ContactStep ==
  ASSUME CInv, NEW c \in Contacts, NEW r \in ContactRow, RowFits(r), contact' = [contact EXCEPT ![c] = r]
  PROVE  contact' \in ContactType /\ ContactsFit'
BY DEF CInv, TypeOK, ContactsFit, RowFits, ContactType

LEMMA ContactsSame ==
  ASSUME CInv, UNCHANGED contact
  PROVE  contact' \in ContactType /\ ContactsFit'
BY DEF CInv, TypeOK, ContactsFit, RowFits, ContactType

LEMMA AllParts ==
  ASSUME contact' \in ContactType, ContactsFit', person' \in [Persons -> PersonRow],
         item' \in [Items -> ItemRow], ItemsHaveContacts', job' \in [Procs -> Job], JobsFit',
         mishaps' \in 0 .. MaxMishaps, outlived' \in BOOLEAN
  PROVE  CInv'
BY DEF CInv, TypeOK, ContactType

LEMMA Counted == ASSUME CInv, Mishap PROVE mishaps' \in 0 .. MaxMishaps
BY ColdContactAssumption DEF CInv, TypeOK, Mishap

LEMMA OnItem ==
  ASSUME CInv, NEW p \in Procs, job[p].do \in Moving \cup Undoing
  PROVE  /\ job[p] \in Job /\ Fits(job[p], item)
         /\ job[p].item \in Items /\ item[job[p].item] \in ItemRow
         /\ item[job[p].item].state # "NONE"
         /\ job[p].contact = item[job[p].item].contact /\ job[p].contact \in Contacts
BY DEF CInv, TypeOK, JobsFit, Fits, ItemsHaveContacts

(* A job ends. *)
LEMMA EndHolds ==
  ASSUME CInv, NEW p \in Procs, End(p), ItemsKeep
  PROVE  job' \in [Procs -> Job] /\ JobsFit'
<1>1. Fits(NoJob, item')
  BY ColdContactAssumption DEF NoJob, Fits, Moving, Undoing
<1> QED BY <1>1, NoJobFits, JobStepHolds DEF End

(* A job on an item goes on with the same item. *)
LEMMA GoHolds ==
  ASSUME CInv, NEW p \in Procs, job[p].do \in Moving \cup Undoing, NEW j \in Job,
         j.do \in Moving \cup Undoing, j.item = job[p].item, j.contact = job[p].contact,
         j.do \in {"createAgain", "store", "complete", "tellCrm", "undoPerson"} => j.person \in Persons,
         job' = [job EXCEPT ![p] = j], ItemsKeep
  PROVE  job' \in [Procs -> Job] /\ JobsFit'
<1>1. j.item \in Items /\ item[j.item].state # "NONE" /\ j.contact = item[j.item].contact
  BY OnItem
<1>2. Fits(j, item')
  BY <1>1 DEF Fits, ItemsKeep, Moving, Undoing
<1> QED BY <1>2, JobStepHolds

LEMMA WalksOn ==
  ASSUME CInv, NEW p \in Procs, job[p].do \in Moving \cup Undoing, NEW d \in Moving \cup Undoing,
         d \in {"createAgain", "store", "complete", "tellCrm", "undoPerson"} => job[p].person \in Persons,
         Go(p, d), ItemsKeep
  PROVE  job' \in [Procs -> Job] /\ JobsFit'
<1> DEFINE j == [job[p] EXCEPT !.do = d]
<1>1. job[p] \in Job /\ job \in [Procs -> Job]
  BY OnItem DEF CInv, TypeOK
<1>2. j \in Job /\ j.do = d /\ j.item = job[p].item /\ j.contact = job[p].contact /\ j.person = job[p].person
  BY <1>1 DEF Job, Moving, Undoing
<1>3. job' = [job EXCEPT ![p] = j]
  BY <1>1 DEF Go
<1> HIDE DEF j
<1> QED BY <1>2, <1>3, GoHolds

LEMMA UseHolds ==
  ASSUME CInv, NEW p \in Procs, job[p].do \in Moving, NEW d \in Moving, NEW i \in Persons,
         Use(p, i, d), ItemsKeep
  PROVE  job' \in [Procs -> Job] /\ JobsFit'
<1> DEFINE j == [job[p] EXCEPT !.do = d, !.person = i]
<1>1. job[p] \in Job /\ job \in [Procs -> Job]
  BY OnItem DEF CInv, TypeOK
<1>2. j \in Job /\ j.do = d /\ j.item = job[p].item /\ j.contact = job[p].contact /\ j.person = i
  BY <1>1 DEF Job, Moving, Refs
<1>3. job' = [job EXCEPT ![p] = j]
  BY <1>1 DEF Use, Job
<1> HIDE DEF j
<1> QED BY <1>2, <1>3, GoHolds

(* The item of a job is written; its contact stays. *)
LEMMA OwnItemStep ==
  ASSUME CInv, NEW p \in Procs, job[p].do \in Moving \cup Undoing, NEW v \in ItemRow, v.state # "NONE",
         v.contact = job[p].contact, item' = [item EXCEPT ![job[p].item] = v]
  PROVE  item' \in [Items -> ItemRow] /\ ItemsHaveContacts' /\ ItemsKeep
<1>1. PICK k : k = job[p].item
  OBVIOUS
<1>2. k \in Items /\ v.contact = item[k].contact /\ v.contact \in Contacts
  BY <1>1, OnItem
<1>3. item' = [item EXCEPT ![k] = v]
  BY <1>1
<1> QED BY <1>2, <1>3, ItemStep

LEMMA FailHolds ==
  ASSUME CInv, NEW p \in Procs, job[p].do \in Moving, NEW permanent \in BOOLEAN, Fail(p, permanent)
  PROVE  /\ item' \in [Items -> ItemRow] /\ ItemsHaveContacts' /\ ItemsKeep
         /\ job' \in [Procs -> Job] /\ JobsFit'
<1> DEFINE k == job[p].item
           v == [item[k] EXCEPT !.state = "FAILED", !.permanent = permanent]
<1>1. item[k] \in ItemRow /\ k \in Items /\ item \in [Items -> ItemRow]
  BY OnItem DEF CInv, TypeOK
<1>2. v \in ItemRow /\ v.state # "NONE" /\ v.contact = job[p].contact
  BY <1>1, OnItem DEF ItemRow, ItemStates
<1>3. item' = [item EXCEPT ![k] = v]
  BY <1>1 DEF Fail
<1>4. item' \in [Items -> ItemRow] /\ ItemsHaveContacts' /\ ItemsKeep
  BY <1>2, <1>3, OwnItemStep
<1> QED BY <1>4, EndHolds DEF Fail

-----------------------------------------------------------------------------
(* The steps of a move. *)

LEMMA QueueItemHolds == ASSUME CInv, NEW p \in Procs, QueueItem(p) PROVE CInv'
<1>1. job[p] \in Job /\ job[p].contact \in Contacts /\ item \in [Items -> ItemRow]
  BY DEF CInv, TypeOK, JobsFit, Fits, QueueItem, At
<1>2. item' \in [Items -> ItemRow] /\ ItemsHaveContacts' /\ ItemsKeep
  <2>1. CASE UNCHANGED item
    BY <2>1, ItemsSame
  <2>2. CASE \E k \in Items : item[k].state = "NONE" /\
               item' = [item EXCEPT ![k] = [NoItem EXCEPT !.state = "QUEUED",
                          !.contact = job[p].contact, !.attach = job[p].person # Nil,
                          !.target = job[p].person]]
    <3>1. PICK k \in Items : item[k].state = "NONE" /\
               item' = [item EXCEPT ![k] = [NoItem EXCEPT !.state = "QUEUED",
                          !.contact = job[p].contact, !.attach = job[p].person # Nil,
                          !.target = job[p].person]]
      BY <2>2
    <3> DEFINE v == [NoItem EXCEPT !.state = "QUEUED", !.contact = job[p].contact,
                                   !.attach = job[p].person # Nil, !.target = job[p].person]
    <3>2. v \in ItemRow /\ v.state = "QUEUED" /\ v.contact = job[p].contact
      BY <1>1 DEF NoItem, ItemRow, ItemStates, Job, Refs
    <3>3. item' = [item EXCEPT ![k] = v]
      BY <3>1
    <3> HIDE DEF v
    <3> QED BY <1>1, <3>1, <3>2, <3>3, ItemStep
  <2> QED BY <2>1, <2>2 DEF QueueItem
<1>3. job' \in [Procs -> Job] /\ JobsFit'
  BY <1>2, EndHolds DEF QueueItem
<1>4. UNCHANGED <<contact, person, mishaps, outlived>>
  BY DEF QueueItem
<1> QED BY <1>2, <1>3, <1>4, ContactsSame, AllParts DEF CInv, TypeOK

LEMMA TakeHolds == ASSUME CInv, NEW p \in Procs, NEW k \in Items, Take(p, k) PROVE CInv'
<1> DEFINE j == [NoJob EXCEPT !.do = "check", !.item = k, !.contact = item[k].contact]
           v == [item[k] EXCEPT !.state = "RUNNING", !.overdue = FALSE]
<1>1. item[k] \in ItemRow /\ item[k].state # "NONE" /\ item[k].contact \in Contacts
  BY DEF CInv, TypeOK, ItemsHaveContacts, Take, Takable
<1>2. v \in ItemRow /\ v.state = "RUNNING" /\ v.contact = item[k].contact
  BY <1>1 DEF ItemRow, ItemStates
<1>3. item \in [Items -> ItemRow]
  BY DEF CInv, TypeOK
<1>4. item' = [item EXCEPT ![k] = v]
  BY <1>1, <1>3 DEF Take
<1>5. j \in Job /\ j.do = "check" /\ j.item = k /\ j.contact = item[k].contact /\ job' = [job EXCEPT ![p] = j]
  BY <1>1 DEF Take, Begin, NoJob, Job, Refs
<1> HIDE DEF j, v
<1>6. item' \in [Items -> ItemRow] /\ ItemsHaveContacts' /\ ItemsKeep
  BY <1>1, <1>2, <1>4, ItemStep
<1>7. Fits(j, item')
  BY <1>1, <1>2, <1>3, <1>4, <1>5 DEF Fits, Moving, Undoing
<1>8. job' \in [Procs -> Job] /\ JobsFit'
  BY <1>5, <1>6, <1>7, JobStepHolds
<1>9. UNCHANGED <<contact, person, mishaps, outlived>>
  BY DEF Take
<1> QED BY <1>6, <1>8, <1>9, ContactsSame, AllParts DEF CInv, TypeOK

LEMMA ClaimGoesStaleHolds == ASSUME CInv, NEW k \in Items, ClaimGoesStale(k) PROVE CInv'
<1> DEFINE v == [item[k] EXCEPT !.overdue = TRUE]
<1>1. item \in [Items -> ItemRow] /\ item[k] \in ItemRow /\ item[k].state # "NONE" /\ item[k].contact \in Contacts
  BY DEF CInv, TypeOK, ItemsHaveContacts, ClaimGoesStale
<1>2. v \in ItemRow /\ v.state = item[k].state /\ v.contact = item[k].contact
  BY <1>1 DEF ItemRow
<1>3. item' = [item EXCEPT ![k] = v]
  BY <1>1 DEF ClaimGoesStale
<1> HIDE DEF v
<1>4. item' \in [Items -> ItemRow] /\ ItemsHaveContacts' /\ ItemsKeep
  BY <1>1, <1>2, <1>3, ItemStep
<1>5. mishaps' \in 0 .. MaxMishaps
  BY Counted DEF ClaimGoesStale, CInv, TypeOK
<1>6. outlived' \in BOOLEAN
  BY Zenon DEF ClaimGoesStale, CInv, TypeOK
<1>7. UNCHANGED <<contact, person, job>>
  BY DEF ClaimGoesStale
<1> QED BY <1>4, <1>5, <1>6, <1>7, OthersHold, ContactsSame, AllParts DEF CInv, TypeOK

(* The parts that most steps of a move leave alone. *)
LEMMA OnlyItems ==
  ASSUME CInv, UNCHANGED <<contact, person, mishaps, outlived>>, item' \in [Items -> ItemRow],
         ItemsHaveContacts', job' \in [Procs -> Job], JobsFit'
  PROVE  CInv'
BY ContactsSame, AllParts DEF CInv, TypeOK

LEMMA RecheckHolds == ASSUME CInv, NEW p \in Procs, Recheck(p) PROVE CInv'
<1>1. job[p].do \in Moving /\ UNCHANGED <<contact, person, mishaps, outlived>>
  BY DEF Recheck, At, Moving
<1>2. job[p] \in Job /\ item[job[p].item] \in ItemRow
  BY <1>1, OnItem
<1>3. CASE item[job[p].item].person # Nil /\ UNCHANGED item
           /\ job' = [job EXCEPT ![p].do = "notes", ![p].person = item[job[p].item].person]
  <2> DEFINE j == [job[p] EXCEPT !.do = "notes", !.person = item[job[p].item].person]
  <2>1. j \in Job /\ j.do = "notes" /\ j.item = job[p].item /\ j.contact = job[p].contact
    BY <1>2 DEF Job, ItemRow
  <2>2. job' = [job EXCEPT ![p] = j]
    BY <1>2, <1>3 DEF CInv, TypeOK, Job
  <2> HIDE DEF j
  <2>3. item' \in [Items -> ItemRow] /\ ItemsHaveContacts' /\ ItemsKeep
    BY <1>3, ItemsSame
  <2>4. job' \in [Procs -> Job] /\ JobsFit'
    BY <1>1, <2>1, <2>2, <2>3, GoHolds DEF Moving
  <2> QED BY <1>1, <2>3, <2>4, OnlyItems
<1>4. CASE Go(p, "find") /\ UNCHANGED item
  <2>1. item' \in [Items -> ItemRow] /\ ItemsHaveContacts' /\ ItemsKeep
    BY <1>4, ItemsSame
  <2>2. job' \in [Procs -> Job] /\ JobsFit'
    BY <1>1, <1>4, <2>1, WalksOn DEF Moving
  <2> QED BY <1>1, <2>1, <2>2, OnlyItems
<1>5. CASE Fail(p, TRUE)
  BY <1>1, <1>5, FailHolds, OnlyItems
<1> QED BY <1>3, <1>4, <1>5 DEF Recheck

LEMMA FindChosenHolds == ASSUME CInv, NEW p \in Procs, FindChosen(p) PROVE CInv'
<1> DEFINE k == job[p].item
<1>1. job[p].do \in Moving /\ UNCHANGED <<contact, person, mishaps, outlived>>
  BY DEF FindChosen, At, Moving
<1>2. job[p] \in Job /\ k \in Items /\ item[k] \in ItemRow /\ item[k].state # "NONE"
      /\ item[k].contact = job[p].contact /\ item \in [Items -> ItemRow]
  BY <1>1, OnItem DEF CInv, TypeOK
<1>3. CASE Fail(p, TRUE)
  BY <1>1, <1>3, FailHolds, OnlyItems
<1>4. ASSUME NEW i \in Attachable(job[p].contact), Use(p, i, "store"), item' = [item EXCEPT ![k].target = i]
      PROVE  CInv'
  <2> DEFINE v == [item[k] EXCEPT !.target = i]
  <2>1. i \in Persons
    BY DEF Attachable
  <2>2. v \in ItemRow /\ v.state # "NONE" /\ v.contact = job[p].contact
    BY <1>2, <2>1 DEF ItemRow, Refs
  <2>3. item' = [item EXCEPT ![k] = v]
    BY <1>2, <1>4
  <2> HIDE DEF v
  <2>4. item' \in [Items -> ItemRow] /\ ItemsHaveContacts' /\ ItemsKeep
    BY <1>1, <2>2, <2>3, OwnItemStep
  <2>5. job' \in [Procs -> Job] /\ JobsFit'
    BY <1>1, <1>4, <2>1, <2>4, UseHolds DEF Moving
  <2> QED BY <1>1, <2>4, <2>5, OnlyItems
<1>5. CASE item' = [item EXCEPT ![k].attach = FALSE, ![k].target = Nil] /\ UNCHANGED job
  <2> DEFINE v == [item[k] EXCEPT !.attach = FALSE, !.target = Nil]
  <2>1. v \in ItemRow /\ v.state # "NONE" /\ v.contact = job[p].contact
    BY <1>2 DEF ItemRow, Refs
  <2>2. item' = [item EXCEPT ![k] = v]
    BY <1>2, <1>5 DEF ItemRow
  <2> HIDE DEF v
  <2>3. item' \in [Items -> ItemRow] /\ ItemsHaveContacts' /\ ItemsKeep
    BY <1>1, <2>1, <2>2, OwnItemStep
  <2> QED BY <1>1, <1>5, <2>3, OthersHold, OnlyItems
<1> QED BY <1>3, <1>4, <1>5 DEF FindChosen

LEMMA FindOursHolds == ASSUME CInv, NEW p \in Procs, FindOurs(p) PROVE CInv'
<1>1. job[p].do \in Moving /\ UNCHANGED <<contact, person, item, mishaps, outlived>>
  BY DEF FindOurs, At, Moving
<1>2. item' \in [Items -> ItemRow] /\ ItemsHaveContacts' /\ ItemsKeep
  BY <1>1, ItemsSame
<1>3. ASSUME NEW i \in Persons, Use(p, i, "store") PROVE job' \in [Procs -> Job] /\ JobsFit'
  BY <1>1, <1>2, <1>3, UseHolds DEF Moving
<1>4. item[job[p].item].person # Nil => item[job[p].item].person \in Persons
  BY <1>1, OnItem DEF ItemRow, Refs
<1>5. ASSUME Go(p, "create") PROVE job' \in [Procs -> Job] /\ JobsFit'
  BY <1>1, <1>2, <1>5, WalksOn DEF Moving
<1>6. job' \in [Procs -> Job] /\ JobsFit'
  BY <1>3, <1>4, <1>5 DEF FindOurs, Earlier
<1> QED BY <1>1, <1>2, <1>6, OnlyItems

LEMMA CreatedHolds ==
  ASSUME CInv, NEW p \in Procs, job[p].do \in Moving, NEW i \in Persons, Created(p, i)
  PROVE  person' \in [Persons -> PersonRow]
<1> DEFINE twin == IF At(p, "createAgain") THEN job[p].person ELSE Nil
           v == [of |-> job[p].contact, live |-> "live", optedOut |-> FALSE, byForm |-> FALSE,
                 busy |-> FALSE, twin |-> twin]
<1>1. person' = [person EXCEPT ![i] = v] /\ person \in [Persons -> PersonRow]
  BY DEF Created, CInv, TypeOK
<1>2. twin \in Refs(Persons)
  BY OnItem DEF At, Fits, Refs
<1> HIDE DEF twin
<1>3. v \in PersonRow
  BY <1>2, OnItem DEF PersonRow, Refs
<1> HIDE DEF v
<1> QED BY <1>1, <1>3

LEMMA CreatorMoves == ASSUME NEW p \in Procs, job[p].do \in Creating PROVE job[p].do \in Moving
BY DEF Creating, Moving

LEMMA CreatePersonHolds == ASSUME CInv, NEW p \in Procs, CreatePerson(p) PROVE CInv'
<1>1. job[p].do \in Moving /\ UNCHANGED <<contact, item, mishaps, outlived>>
  BY CreatorMoves DEF CreatePerson
<1>2. PICK i \in Persons : Created(p, i) /\ Use(p, i, "store")
  BY DEF CreatePerson
<1>3. item' \in [Items -> ItemRow] /\ ItemsHaveContacts' /\ ItemsKeep
  BY <1>1, ItemsSame
<1>4. job' \in [Procs -> Job] /\ JobsFit'
  BY <1>1, <1>2, <1>3, UseHolds DEF Moving
<1>5. person' \in [Persons -> PersonRow]
  BY <1>1, <1>2, CreatedHolds
<1> QED BY <1>1, <1>3, <1>4, <1>5, ContactsSame, AllParts DEF CInv, TypeOK

LEMMA FirstAnswerLostHolds == ASSUME CInv, NEW p \in Procs, FirstAnswerLost(p) PROVE CInv'
<1>1. job[p].do \in Moving /\ UNCHANGED <<contact, item, outlived>> /\ Mishap
  BY DEF FirstAnswerLost, At, Moving
<1>2. PICK i \in Persons : Created(p, i) /\ Use(p, i, "createAgain")
  BY DEF FirstAnswerLost
<1>3. item' \in [Items -> ItemRow] /\ ItemsHaveContacts' /\ ItemsKeep
  BY <1>1, ItemsSame
<1>4. job' \in [Procs -> Job] /\ JobsFit'
  BY <1>1, <1>2, <1>3, UseHolds DEF Moving
<1>5. person' \in [Persons -> PersonRow]
  BY <1>1, <1>2, CreatedHolds
<1> QED BY <1>1, <1>3, <1>4, <1>5, Counted, ContactsSame, AllParts DEF CInv, TypeOK

LEMMA CreateTimesOutHolds == ASSUME CInv, NEW p \in Procs, CreateTimesOut(p) PROVE CInv'
<1>1. job[p].do \in Moving /\ UNCHANGED <<contact, outlived>> /\ Fail(p, FALSE) /\ Mishap
  BY CreatorMoves DEF CreateTimesOut
<1>2. PICK i \in Persons : Created(p, i)
  BY DEF CreateTimesOut
<1>3. person' \in [Persons -> PersonRow]
  BY <1>1, <1>2, CreatedHolds
<1> QED BY <1>1, <1>3, FailHolds, Counted, ContactsSame, AllParts DEF CInv, TypeOK

LEMMA CrmFailsHolds == ASSUME CInv, NEW p \in Procs, CrmFails(p) PROVE CInv'
<1>1. job[p].do \in Moving /\ UNCHANGED <<contact, person, mishaps, outlived>>
  BY CreatorMoves DEF CrmFails, At, Moving
<1>2. PICK permanent \in BOOLEAN : Fail(p, permanent)
  BY DEF CrmFails
<1> QED BY <1>1, <1>2, FailHolds, OnlyItems

LEMMA StorePersonHolds == ASSUME CInv, NEW p \in Procs, StorePerson(p) PROVE CInv'
<1> DEFINE k == job[p].item
           v == [item[k] EXCEPT !.person = job[p].person]
<1>1. job[p].do = "store" /\ job[p].do \in Moving /\ UNCHANGED <<contact, person, mishaps, outlived>> /\ Go(p, "complete")
  BY DEF StorePerson, At, Moving
<1>2. job[p] \in Job /\ Fits(job[p], item) /\ k \in Items /\ item[k] \in ItemRow /\ item[k].state # "NONE"
      /\ item[k].contact = job[p].contact /\ item \in [Items -> ItemRow]
  BY <1>1, OnItem DEF CInv, TypeOK
<1>3. job[p].person \in Persons
  BY <1>1, <1>2 DEF Fits
<1>4. v \in ItemRow /\ v.state # "NONE" /\ v.contact = job[p].contact
  BY <1>2, <1>3 DEF ItemRow, Refs
<1>5. item' = [item EXCEPT ![k] = v]
  BY <1>2 DEF StorePerson
<1> HIDE DEF v
<1>6. item' \in [Items -> ItemRow] /\ ItemsHaveContacts' /\ ItemsKeep
  BY <1>1, <1>4, <1>5, OwnItemStep
<1>7. job' \in [Procs -> Job] /\ JobsFit'
  BY <1>1, <1>3, <1>6, WalksOn DEF Moving
<1> QED BY <1>1, <1>6, <1>7, OnlyItems

LEMMA CompleteLocallyHolds == ASSUME CInv, NEW p \in Procs, CompleteLocally(p) PROVE CInv'
<1> DEFINE k == job[p].item
           c == job[p].contact
           i == job[p].person
<1>1. job[p].do = "complete" /\ job[p].do \in Moving /\ UNCHANGED <<person, mishaps, outlived>>
  BY DEF CompleteLocally, At, Moving
<1>2. job[p] \in Job /\ Fits(job[p], item) /\ k \in Items /\ item[k] \in ItemRow /\ item[k].state # "NONE"
      /\ item[k].contact = c /\ c \in Contacts /\ item \in [Items -> ItemRow]
      /\ contact \in [Contacts -> ContactRow] /\ contact[c] \in ContactRow
  BY <1>1, OnItem DEF CInv, TypeOK
<1>3. i \in Persons
  BY <1>1, <1>2 DEF Fits
<1>4. CASE /\ StillActive(c)
           /\ contact' = [contact EXCEPT ![c].status = "MOVED", ![c].person = i, ![c].running = FALSE]
           /\ item' = [item EXCEPT ![k].exited = contact[c].running]
           /\ Go(p, "notes")
  <2> DEFINE r == [contact[c] EXCEPT !.status = "MOVED", !.person = i, !.running = FALSE]
             v == [item[k] EXCEPT !.exited = contact[c].running]
  <2>1. r \in ContactRow /\ RowFits(r)
    BY <1>2, <1>3, NilIsNobody DEF ContactRow, RowFits, Refs
  <2>2. contact' = [contact EXCEPT ![c] = r]
    BY <1>2, <1>4 DEF ContactRow
  <2>3. v \in ItemRow /\ v.state # "NONE" /\ v.contact = c
    BY <1>2 DEF ItemRow, ContactRow
  <2>4. item' = [item EXCEPT ![k] = v]
    BY <1>2, <1>4
  <2> HIDE DEF r, v
  <2>5. item' \in [Items -> ItemRow] /\ ItemsHaveContacts' /\ ItemsKeep
    BY <1>1, <2>3, <2>4, OwnItemStep
  <2>6. job' \in [Procs -> Job] /\ JobsFit'
    BY <1>1, <1>4, <2>5, WalksOn DEF Moving
  <2>7. contact' \in ContactType /\ ContactsFit'
    BY <1>2, <2>1, <2>2, ContactStep
  <2> QED BY <1>1, <2>5, <2>6, <2>7, AllParts DEF CInv, TypeOK
<1>5. CASE Fail(p, TRUE) /\ UNCHANGED contact
  BY <1>1, <1>5, FailHolds, OnlyItems
<1>6. CASE Go(p, "tellCrm") /\ UNCHANGED <<contact, item>>
  <2>1. item' \in [Items -> ItemRow] /\ ItemsHaveContacts' /\ ItemsKeep
    BY <1>6, ItemsSame
  <2>2. job' \in [Procs -> Job] /\ JobsFit'
    BY <1>1, <1>3, <1>6, <2>1, WalksOn DEF Moving
  <2> QED BY <1>1, <1>6, <2>1, <2>2, OnlyItems
<1> QED BY <1>4, <1>5, <1>6 DEF CompleteLocally

(* Whoever became the person has moved, so they are not active. *)
LEMMA PersonOptsOut ==
  ASSUME CInv, NEW i \in Persons, NEW form \in BOOLEAN, OptPersonOut(i, form)
  PROVE  contact' \in ContactType /\ ContactsFit' /\ person' \in [Persons -> PersonRow]
<1>1. contact \in [Contacts -> ContactRow] /\ person \in [Persons -> PersonRow] /\ ContactsFit
  BY DEF CInv, TypeOK
<1>2. person' \in [Persons -> PersonRow]
  <2>1. person[i] \in PersonRow
    BY <1>1
  <2>2. PICK row : row = [person[i] EXCEPT !.optedOut = TRUE, !.byForm = IF person[i].optedOut THEN @ ELSE form]
    OBVIOUS
  <2>3. row \in PersonRow
    BY <2>1, <2>2 DEF PersonRow
  <2>4. person' = [person EXCEPT ![i] = row]
    BY <2>2 DEF OptPersonOut
  <2> QED BY <1>1, <2>3, <2>4
<1>3. ASSUME NEW c \in Contacts PROVE contact'[c] \in ContactRow /\ RowFits(contact'[c])
  <2>1. contact'[c] = IF contact[c].person = i /\ ~contact[c].opted
                      THEN [contact[c] EXCEPT !.opted = TRUE, !.byForm = form] ELSE contact[c]
    BY DEF OptPersonOut
  <2>2. contact[c] \in ContactRow /\ RowFits(contact[c])
    BY <1>1 DEF ContactsFit
  <2>3. contact[c].person = i => contact[c].status = "MOVED"
    BY <2>2, NilIsNobody DEF RowFits
  <2> QED BY <2>1, <2>2, <2>3 DEF ContactRow, RowFits
<1>4. contact' = [c \in Contacts |-> contact'[c]]
  BY DEF OptPersonOut
<1>5. contact' \in ContactType
  BY <1>3, <1>4 DEF ContactType
<1> QED BY <1>2, <1>3, <1>5 DEF ContactsFit, RowFits

LEMMA TellCrmHolds == ASSUME CInv, NEW p \in Procs, TellCrm(p) PROVE CInv'
<1>1. job[p].do = "tellCrm" /\ job[p].do \in Moving /\ UNCHANGED <<mishaps, outlived>> /\ Fail(p, TRUE)
  BY DEF TellCrm, At, Moving
<1>2. Fits(job[p], item) /\ job[p].contact \in Contacts
  BY <1>1, OnItem
<1>3. job[p].person \in Persons /\ contact[job[p].contact].byForm \in BOOLEAN
  BY <1>1, <1>2 DEF Fits, CInv, TypeOK, ContactRow
<1>4. contact' \in ContactType /\ ContactsFit' /\ person' \in [Persons -> PersonRow]
  BY <1>3, PersonOptsOut DEF TellCrm
<1> QED BY <1>1, <1>4, FailHolds, AllParts DEF CInv, TypeOK

LEMMA FinishNotesHolds == ASSUME CInv, NEW p \in Procs, FinishNotes(p) PROVE CInv'
<1> DEFINE k == job[p].item
           v == [item[k] EXCEPT !.state = "DONE"]
<1>1. job[p].do \in Moving /\ UNCHANGED <<contact, person, mishaps, outlived>> /\ End(p)
  BY DEF FinishNotes, At, Moving
<1>2. item[k] \in ItemRow /\ item[k].contact = job[p].contact /\ item \in [Items -> ItemRow]
  BY <1>1, OnItem DEF CInv, TypeOK
<1>3. v \in ItemRow /\ v.state # "NONE" /\ v.contact = job[p].contact
  BY <1>2 DEF ItemRow, ItemStates
<1>4. item' = [item EXCEPT ![k] = v]
  BY <1>2 DEF FinishNotes
<1> HIDE DEF v
<1>5. item' \in [Items -> ItemRow] /\ ItemsHaveContacts' /\ ItemsKeep
  BY <1>1, <1>3, <1>4, OwnItemStep
<1> QED BY <1>1, <1>5, EndHolds, OnlyItems

LEMMA RetryHolds == ASSUME CInv, NEW k \in Items, Retry(k) PROVE CInv'
<1>1. item \in [Items -> ItemRow] /\ item[k] \in ItemRow /\ item[k].state # "NONE" /\ item[k].contact \in Contacts
      /\ UNCHANGED <<contact, person, job, mishaps, outlived>>
  BY DEF CInv, TypeOK, ItemsHaveContacts, Retry
<1>2. \E v \in ItemRow : /\ item' = [item EXCEPT ![k] = v]
                         /\ v.state # "NONE" /\ v.contact = item[k].contact
  <2>1. CASE item' = [item EXCEPT ![k].state = "QUEUED"]
    <3>1. [item[k] EXCEPT !.state = "QUEUED"] \in ItemRow
      BY <1>1 DEF ItemRow, ItemStates
    <3> QED BY <1>1, <2>1, <3>1 DEF ItemRow
  <2>2. ASSUME NEW i \in Attachable(item[k].contact),
               item' = [item EXCEPT ![k].state = "QUEUED", ![k].attach = TRUE, ![k].target = i]
        PROVE  \E v \in ItemRow : /\ item' = [item EXCEPT ![k] = v]
                                  /\ v.state # "NONE" /\ v.contact = item[k].contact
    <3>1. i \in Persons
      BY DEF Attachable
    <3>2. [item[k] EXCEPT !.state = "QUEUED", !.attach = TRUE, !.target = i] \in ItemRow
      BY <1>1, <3>1 DEF ItemRow, ItemStates, Refs
    <3> QED BY <1>1, <2>2, <3>2 DEF ItemRow
  <2>3. CASE item' = [item EXCEPT ![k].permanent = TRUE]
    <3>1. [item[k] EXCEPT !.permanent = TRUE] \in ItemRow
      BY <1>1 DEF ItemRow
    <3> QED BY <1>1, <2>3, <3>1 DEF ItemRow
  <2> QED BY <2>1, <2>2, <2>3 DEF Retry
<1>3. PICK v \in ItemRow : /\ item' = [item EXCEPT ![k] = v]
                           /\ v.state # "NONE" /\ v.contact = item[k].contact
  BY <1>2
<1>4. item' \in [Items -> ItemRow] /\ ItemsHaveContacts' /\ ItemsKeep
  BY <1>1, <1>3, ItemStep
<1> QED BY <1>1, <1>4, OthersHold, OnlyItems

-----------------------------------------------------------------------------
(* The steps of an undo. *)

LEMMA UndoCheckHolds == ASSUME CInv, NEW p \in Procs, NEW k \in Items, UndoCheck(p, k) PROVE CInv'
<1> DEFINE j == [NoJob EXCEPT !.do = "undoClaim", !.item = k, !.contact = item[k].contact,
                   !.person = IF ~item[k].attach /\ Live(item[k].person) THEN item[k].person ELSE Nil]
<1>1. item[k] \in ItemRow /\ item[k].state # "NONE" /\ item[k].contact \in Contacts
      /\ UNCHANGED <<contact, person, item, mishaps, outlived>>
  BY DEF CInv, TypeOK, ItemsHaveContacts, UndoCheck
<1>2. j \in Job /\ j.do = "undoClaim" /\ j.item = k /\ j.contact = item[k].contact
  BY <1>1 DEF NoJob, Job, ItemRow, Refs
<1>3. job' = [job EXCEPT ![p] = j]
  BY DEF UndoCheck, Begin
<1> HIDE DEF j
<1>4. item' \in [Items -> ItemRow] /\ ItemsHaveContacts' /\ ItemsKeep
  BY <1>1, ItemsSame
<1>5. Fits(j, item')
  BY <1>1, <1>2 DEF Fits, Moving, Undoing
<1>6. job' \in [Procs -> Job] /\ JobsFit'
  BY <1>2, <1>3, <1>4, <1>5, JobStepHolds
<1> QED BY <1>1, <1>4, <1>6, OnlyItems

(* The item of an undo takes another state. *)
LEMMA OwnState ==
  ASSUME CInv, NEW p \in Procs, job[p].do \in Moving \cup Undoing, NEW s \in ItemStates, s # "NONE",
         item' = [item EXCEPT ![job[p].item].state = s]
  PROVE  item' \in [Items -> ItemRow] /\ ItemsHaveContacts' /\ ItemsKeep
<1> DEFINE k == job[p].item
           v == [item[k] EXCEPT !.state = s]
<1>1. item[k] \in ItemRow /\ item[k].contact = job[p].contact /\ item \in [Items -> ItemRow]
  BY OnItem DEF CInv, TypeOK
<1>2. v \in ItemRow /\ v.state # "NONE" /\ v.contact = job[p].contact
  BY <1>1 DEF ItemRow
<1>3. item' = [item EXCEPT ![k] = v]
  BY <1>1
<1> HIDE DEF v
<1> QED BY <1>2, <1>3, OwnItemStep

LEMMA UndoClaimHolds == ASSUME CInv, NEW p \in Procs, UndoClaim(p) PROVE CInv'
<1> DEFINE d == IF job[p].person = Nil THEN "undoLocal" ELSE "undoPerson"
<1>1. job[p].do \in Undoing /\ UNCHANGED <<contact, person, mishaps, outlived>>
  BY DEF UndoClaim, At, Undoing
<1>2. d \in Undoing /\ (d = "undoPerson" => job[p].person \in Persons)
  BY <1>1, OnItem DEF Job, Refs, Undoing
<1>3. CASE item' = [item EXCEPT ![job[p].item].state = "UNDOING"] /\ Go(p, d)
  <2>1. item' \in [Items -> ItemRow] /\ ItemsHaveContacts' /\ ItemsKeep
    BY <1>1, <1>3, OwnState DEF ItemStates
  <2>2. d \in Moving \cup Undoing /\ (d \in {"createAgain", "store", "complete", "tellCrm", "undoPerson"} => job[p].person \in Persons)
    BY <1>2 DEF Undoing
  <2> HIDE DEF d
  <2>3. job' \in [Procs -> Job] /\ JobsFit'
    BY <1>1, <1>3, <2>1, <2>2, WalksOn
  <2> QED BY <1>1, <2>1, <2>3, OnlyItems
<1>4. CASE End(p) /\ UNCHANGED item
  <2>1. item' \in [Items -> ItemRow] /\ ItemsHaveContacts' /\ ItemsKeep
    BY <1>4, ItemsSame
  <2> QED BY <1>1, <1>4, <2>1, EndHolds, OnlyItems
<1> QED BY <1>3, <1>4 DEF UndoClaim

LEMMA DeletedHolds ==
  ASSUME CInv, NEW i \in Persons, Deleted(i)
  PROVE  person' \in [Persons -> PersonRow]
BY DEF CInv, TypeOK, Deleted, PersonRow

LEMMA DeletePersonHolds == ASSUME CInv, NEW p \in Procs, DeletePerson(p) PROVE CInv'
<1>1. job[p].do = "undoPerson" /\ job[p].do \in Undoing /\ UNCHANGED <<contact, item, mishaps, outlived>>
      /\ Go(p, "undoLocal") /\ Deleted(job[p].person)
  BY DEF DeletePerson, At, Undoing
<1>2. job[p].person \in Persons
  BY <1>1, OnItem DEF Fits
<1>3. item' \in [Items -> ItemRow] /\ ItemsHaveContacts' /\ ItemsKeep
  BY <1>1, ItemsSame
<1>4. job' \in [Procs -> Job] /\ JobsFit'
  BY <1>1, <1>3, WalksOn DEF Undoing
<1> QED BY <1>1, <1>2, <1>3, <1>4, DeletedHolds, ContactsSame, AllParts DEF CInv, TypeOK

LEMMA DeleteFailsHolds == ASSUME CInv, NEW p \in Procs, DeleteFails(p) PROVE CInv'
<1>1. job[p].do = "undoPerson" /\ job[p].do \in Undoing /\ UNCHANGED <<contact, outlived>> /\ End(p)
  BY DEF DeleteFails, At, Undoing
<1>2. job[p].person \in Persons
  BY <1>1, OnItem DEF Fits
<1>3. item' \in [Items -> ItemRow] /\ ItemsHaveContacts' /\ ItemsKeep
  BY <1>1, OwnState DEF DeleteFails, ItemStates
<1>4. job' \in [Procs -> Job] /\ JobsFit'
  BY <1>1, <1>3, EndHolds
<1>5. person' \in [Persons -> PersonRow] /\ mishaps' \in 0 .. MaxMishaps
  BY <1>2, DeletedHolds, Counted DEF DeleteFails, CInv, TypeOK
<1> QED BY <1>1, <1>3, <1>4, <1>5, ContactsSame, AllParts DEF CInv, TypeOK

LEMMA RestoreLocallyHolds == ASSUME CInv, NEW p \in Procs, RestoreLocally(p) PROVE CInv'
<1> DEFINE k == job[p].item
           c == job[p].contact
<1>1. job[p].do \in Undoing /\ UNCHANGED <<person, mishaps, outlived>> /\ End(p)
  BY DEF RestoreLocally, At, Undoing
<1>2. k \in Items /\ item[k] \in ItemRow /\ item[k].state # "NONE" /\ c \in Contacts
      /\ contact \in [Contacts -> ContactRow] /\ contact[c] \in ContactRow /\ item \in [Items -> ItemRow]
  BY <1>1, OnItem DEF CInv, TypeOK
<1>3. CASE contact[c].status = "MOVED"
  <2>1. PICK again \in BOOLEAN, left \in {"UNDONE", "UNDO_PARTIAL"} :
          /\ contact' = [contact EXCEPT ![c].status = BackAs(c), ![c].person = Nil, ![c].running = again]
          /\ item' = [item EXCEPT ![k].state = left]
    BY <1>2, <1>3 DEF RestoreLocally, ItemRow, ContactRow
  <2> DEFINE r == [contact[c] EXCEPT !.status = BackAs(c), !.person = Nil, !.running = again]
  <2>2. r \in ContactRow /\ RowFits(r)
    BY <1>2 DEF ContactRow, RowFits, Refs, BackAs
  <2>3. contact' = [contact EXCEPT ![c] = r]
    BY <1>2, <2>1 DEF ContactRow
  <2> HIDE DEF r
  <2>4. contact' \in ContactType /\ ContactsFit'
    BY <1>2, <2>2, <2>3, ContactStep
  <2>5. item' \in [Items -> ItemRow] /\ ItemsHaveContacts' /\ ItemsKeep
    BY <1>1, <2>1, OwnState DEF ItemStates
  <2> QED BY <1>1, <2>4, <2>5, EndHolds, AllParts DEF CInv, TypeOK
<1>4. CASE contact[c].status # "MOVED"
  <2> DEFINE s == IF item[k].state = "UNDOING" THEN "UNDO_PARTIAL" ELSE item[k].state
  <2>1. s \in ItemStates /\ s # "NONE"
    BY <1>2 DEF ItemRow, ItemStates
  <2>2. item' = [item EXCEPT ![k].state = s] /\ UNCHANGED contact
    BY <1>2, <1>4 DEF RestoreLocally, ItemRow
  <2> HIDE DEF s
  <2>3. item' \in [Items -> ItemRow] /\ ItemsHaveContacts' /\ ItemsKeep
    BY <1>1, <2>1, <2>2, OwnState
  <2> QED BY <1>1, <2>2, <2>3, EndHolds, OnlyItems
<1> QED BY <1>3, <1>4

LEMMA FinishPartialHolds == ASSUME CInv, NEW k \in Items, FinishPartial(k) PROVE CInv'
<1> DEFINE v == [item[k] EXCEPT !.state = "UNDONE"]
<1>1. item \in [Items -> ItemRow] /\ item[k] \in ItemRow /\ item[k].state # "NONE" /\ item[k].contact \in Contacts
      /\ UNCHANGED <<contact, person, job, mishaps, outlived>>
  BY DEF CInv, TypeOK, ItemsHaveContacts, FinishPartial
<1>2. v \in ItemRow /\ v.state = "UNDONE" /\ v.contact = item[k].contact
  BY <1>1 DEF ItemRow, ItemStates
<1>3. item' = [item EXCEPT ![k] = v]
  BY <1>1 DEF FinishPartial
<1> HIDE DEF v
<1>4. item' \in [Items -> ItemRow] /\ ItemsHaveContacts' /\ ItemsKeep
  BY <1>1, <1>2, <1>3, ItemStep
<1> QED BY <1>1, <1>4, OthersHold, OnlyItems

-----------------------------------------------------------------------------
(* Requests and transitions. *)

(* A job on no item. *)
LEMMA FreeJobHolds ==
  ASSUME CInv, NEW p \in Procs, NEW j \in Job, j.do \notin Moving \cup Undoing, j.item = Nil,
         j.do \in {"queue", "endRuns"} => j.contact \in Contacts,
         j.do \in {"optPerson", "sweep"} => j.person \in Persons,
         job' = [job EXCEPT ![p] = j], UNCHANGED item
  PROVE  job' \in [Procs -> Job] /\ JobsFit' /\ item' \in [Items -> ItemRow] /\ ItemsHaveContacts'
<1>1. item' \in [Items -> ItemRow] /\ ItemsHaveContacts' /\ ItemsKeep
  BY ItemsSame
<1>2. Fits(j, item')
  BY DEF Fits, Moving, Undoing
<1> QED BY <1>1, <1>2, JobStepHolds

LEMMA BeginsOnContact ==
  ASSUME CInv, NEW p \in Procs, NEW c \in Contacts, NEW i \in Refs(Persons), UNCHANGED item,
         job' = [job EXCEPT ![p] = [NoJob EXCEPT !.do = "queue", !.contact = c, !.person = i]]
  PROVE  job' \in [Procs -> Job] /\ JobsFit' /\ item' \in [Items -> ItemRow] /\ ItemsHaveContacts'
<1> DEFINE j == [NoJob EXCEPT !.do = "queue", !.contact = c, !.person = i]
<1>1. j \in Job /\ j.do = "queue" /\ j.contact = c /\ j.item = Nil
  BY DEF NoJob, Job, Refs
<1>2. job' = [job EXCEPT ![p] = j]
  OBVIOUS
<1> HIDE DEF j
<1> QED BY <1>1, <1>2, FreeJobHolds DEF Moving, Undoing

LEMMA BeginsEndRuns ==
  ASSUME CInv, NEW p \in Procs, NEW c \in Contacts, UNCHANGED item,
         job' = [job EXCEPT ![p] = [NoJob EXCEPT !.do = "endRuns", !.contact = c]]
  PROVE  job' \in [Procs -> Job] /\ JobsFit' /\ item' \in [Items -> ItemRow] /\ ItemsHaveContacts'
<1> DEFINE j == [NoJob EXCEPT !.do = "endRuns", !.contact = c]
<1>1. j \in Job /\ j.do = "endRuns" /\ j.contact = c /\ j.item = Nil
  BY DEF NoJob, Job, Refs
<1>2. job' = [job EXCEPT ![p] = j]
  OBVIOUS
<1> HIDE DEF j
<1> QED BY <1>1, <1>2, FreeJobHolds DEF Moving, Undoing

LEMMA PreflightHolds ==
  ASSUME CInv, NEW p \in Procs, NEW c \in Contacts, NEW target \in Refs(Persons), Preflight(p, c, target)
  PROVE  CInv'
<1>1. job' \in [Procs -> Job] /\ JobsFit' /\ item' \in [Items -> ItemRow] /\ ItemsHaveContacts'
  BY BeginsOnContact DEF Preflight, Begin
<1> QED BY <1>1, OnlyItems DEF Preflight

(* A contact is written and a job begins or ends. *)
LEMMA OnlyContacts ==
  ASSUME CInv, UNCHANGED <<person, mishaps, outlived>>, contact' \in ContactType, ContactsFit',
         item' \in [Items -> ItemRow], ItemsHaveContacts', job' \in [Procs -> Job], JobsFit'
  PROVE  CInv'
BY AllParts DEF CInv, TypeOK

LEMMA OptOutHolds ==
  ASSUME CInv, NEW p \in Procs, NEW c \in Contacts, NEW form \in BOOLEAN, OptOut(p, c, form)
  PROVE  CInv'
<1>1. contact \in [Contacts -> ContactRow] /\ contact[c] \in ContactRow /\ RowFits(contact[c])
      /\ UNCHANGED <<person, item, mishaps, outlived>>
  BY DEF OptOut, CInv, TypeOK, ContactsFit
<1>2. CASE contact[c].status = "MOVED"
  <2> DEFINE r == [contact[c] EXCEPT !.opted = TRUE, !.byForm = IF contact[c].opted THEN @ ELSE form]
  <2>1. contact' = [contact EXCEPT ![c] = r]
    BY <1>1, <1>2 DEF OptOut, ContactRow
  <2>2. r \in ContactRow /\ RowFits(r)
    BY <1>1, <1>2 DEF ContactRow, RowFits
  <2> HIDE DEF r
  <2>3. contact' \in ContactType /\ ContactsFit'
    BY <2>1, <2>2, ContactStep
  <2>4. contact[c].person \in Persons
    BY <1>1, <1>2 DEF RowFits, ContactRow, Refs
  <2> DEFINE j == [NoJob EXCEPT !.do = "optPerson", !.person = contact[c].person, !.form = form]
  <2>5. j \in Job /\ j.do = "optPerson" /\ j.person \in Persons /\ j.item = Nil
    BY <2>4 DEF NoJob, Job, Refs
  <2>6. job' = [job EXCEPT ![p] = j]
    BY <1>2 DEF OptOut, Begin
  <2> HIDE DEF j
  <2>7. job' \in [Procs -> Job] /\ JobsFit' /\ item' \in [Items -> ItemRow] /\ ItemsHaveContacts'
    BY <1>1, <2>5, <2>6, FreeJobHolds DEF Moving, Undoing
  <2> QED BY <1>1, <2>3, <2>7, OnlyContacts
<1>3. CASE contact[c].status # "MOVED"
  <2> DEFINE r == [contact[c] EXCEPT !.status = "OPTED_OUT", !.opted = TRUE, !.byForm = form]
  <2>1. contact' = [contact EXCEPT ![c] = r]
    BY <1>1, <1>3 DEF OptOut, ContactRow
  <2>2. r \in ContactRow /\ RowFits(r)
    BY <1>1, <1>3 DEF ContactRow, RowFits
  <2> HIDE DEF r
  <2>3. contact' \in ContactType /\ ContactsFit'
    BY <2>1, <2>2, ContactStep
  <2>4. job' \in [Procs -> Job] /\ JobsFit' /\ item' \in [Items -> ItemRow] /\ ItemsHaveContacts'
    BY <1>1, <1>3, BeginsEndRuns DEF OptOut, Begin
  <2> QED BY <1>1, <2>3, <2>4, OnlyContacts
<1> QED BY <1>2, <1>3

LEMMA EndRunsHolds == ASSUME CInv, NEW p \in Procs, EndRuns(p) PROVE CInv'
<1> DEFINE c == job[p].contact
           r == [contact[c] EXCEPT !.running = FALSE]
<1>1. c \in Contacts /\ UNCHANGED <<person, item, mishaps, outlived>> /\ End(p)
  BY DEF EndRuns, At, CInv, JobsFit, Fits
<1>2. contact \in [Contacts -> ContactRow] /\ contact[c] \in ContactRow /\ RowFits(contact[c])
  BY <1>1 DEF CInv, TypeOK, ContactsFit
<1>3. contact' = [contact EXCEPT ![c] = r] /\ r \in ContactRow /\ RowFits(r)
  BY <1>2 DEF EndRuns, ContactRow, RowFits
<1> HIDE DEF r
<1>4. contact' \in ContactType /\ ContactsFit'
  BY <1>1, <1>3, ContactStep
<1> QED BY <1>1, <1>4, ItemsSame, EndHolds, OnlyContacts

LEMMA AfterContactHolds == ASSUME CInv, NEW p \in Procs, AfterContact(p) PROVE CInv'
<1> DEFINE j == [job[p] EXCEPT !.do = "sweep"]
<1>1. job[p].do = "optPerson" /\ UNCHANGED <<item, mishaps, outlived>> /\ Go(p, "sweep")
  BY DEF AfterContact, At
<1>2. job[p] \in Job /\ Fits(job[p], item) /\ job \in [Procs -> Job]
  BY DEF CInv, TypeOK, JobsFit
<1>3. job[p].person \in Persons /\ job[p].item = Nil /\ job[p].form \in BOOLEAN
  BY <1>1, <1>2 DEF Fits, Moving, Undoing, Job
<1>4. contact' \in ContactType /\ ContactsFit' /\ person' \in [Persons -> PersonRow]
  BY <1>3, PersonOptsOut DEF AfterContact
<1>5. j \in Job /\ j.do = "sweep" /\ j.person \in Persons /\ j.item = Nil /\ job' = [job EXCEPT ![p] = j]
  BY <1>1, <1>2, <1>3 DEF Go, Job
<1> HIDE DEF j
<1>6. job' \in [Procs -> Job] /\ JobsFit' /\ item' \in [Items -> ItemRow] /\ ItemsHaveContacts'
  BY <1>1, <1>5, FreeJobHolds DEF Moving, Undoing
<1> QED BY <1>1, <1>4, <1>6, AllParts DEF CInv, TypeOK

LEMMA OptOutPersonHolds ==
  ASSUME CInv, NEW p \in Procs, NEW i \in Persons, NEW form \in BOOLEAN, OptOutPerson(p, i, form)
  PROVE  CInv'
<1>1. contact' \in ContactType /\ ContactsFit' /\ person' \in [Persons -> PersonRow]
  BY PersonOptsOut DEF OptOutPerson
<1> DEFINE j == [NoJob EXCEPT !.do = "sweep", !.person = i]
<1>2. j \in Job /\ j.do = "sweep" /\ j.person \in Persons /\ j.item = Nil
  BY DEF NoJob, Job, Refs
<1>3. job' = [job EXCEPT ![p] = j] /\ UNCHANGED <<item, mishaps, outlived>>
  BY DEF OptOutPerson, Begin
<1> HIDE DEF j
<1>4. job' \in [Procs -> Job] /\ JobsFit' /\ item' \in [Items -> ItemRow] /\ ItemsHaveContacts'
  BY <1>2, <1>3, FreeJobHolds DEF Moving, Undoing
<1> QED BY <1>1, <1>3, <1>4, AllParts DEF CInv, TypeOK

LEMMA SweepHolds == ASSUME CInv, NEW p \in Procs, Sweep(p) PROVE CInv'
<1>1. UNCHANGED <<person, item, mishaps, outlived>>
  BY DEF Sweep
<1>2. CASE End(p) /\ UNCHANGED contact
  BY <1>1, <1>2, ItemsSame, EndHolds, OnlyItems
<1>3. ASSUME NEW c \in Contacts, contact[c].status = "ACTIVE",
             contact' = [contact EXCEPT ![c].status = "OPTED_OUT", ![c].opted = TRUE, ![c].byForm = FALSE],
             job' = [job EXCEPT ![p] = [NoJob EXCEPT !.do = "endRuns", !.contact = c]]
      PROVE  CInv'
  <2> DEFINE r == [contact[c] EXCEPT !.status = "OPTED_OUT", !.opted = TRUE, !.byForm = FALSE]
  <2>1. contact \in [Contacts -> ContactRow] /\ contact[c] \in ContactRow /\ RowFits(contact[c])
    BY DEF CInv, TypeOK, ContactsFit
  <2>2. contact' = [contact EXCEPT ![c] = r] /\ r \in ContactRow /\ RowFits(r)
    BY <1>3, <2>1 DEF ContactRow, RowFits
  <2> HIDE DEF r
  <2>3. contact' \in ContactType /\ ContactsFit'
    BY <2>2, ContactStep
  <2> QED BY <1>1, <1>3, <2>3, BeginsEndRuns, OnlyContacts
<1> QED BY <1>2, <1>3 DEF Sweep

(* The other writes to one contact. *)
LEMMA OneContact ==
  ASSUME CInv, NEW c \in Contacts, NEW r \in ContactRow, RowFits(r), contact' = [contact EXCEPT ![c] = r],
         UNCHANGED <<person, item, job, mishaps, outlived>>
  PROVE  CInv'
<1>1. contact' \in ContactType /\ ContactsFit'
  BY ContactStep
<1>2. item' \in [Items -> ItemRow] /\ ItemsHaveContacts' /\ ItemsKeep
  BY ItemsSame
<1> QED BY <1>1, <1>2, OthersHold, OnlyContacts

LEMMA LiftHolds == ASSUME CInv, NEW c \in Contacts, Lift(c) PROVE CInv'
<1> DEFINE r == [contact[c] EXCEPT !.status = "ACTIVE", !.opted = FALSE, !.byForm = FALSE]
<1>1. contact \in [Contacts -> ContactRow] /\ contact[c] \in ContactRow /\ RowFits(contact[c])
  BY DEF CInv, TypeOK, ContactsFit
<1>2. contact' = [contact EXCEPT ![c] = r] /\ r \in ContactRow /\ RowFits(r)
  BY <1>1 DEF Lift, ContactRow, RowFits
<1> HIDE DEF r
<1> QED BY <1>2, OneContact DEF Lift

LEMMA StartCampaignHolds == ASSUME CInv, NEW c \in Contacts, StartCampaign(c) PROVE CInv'
<1> DEFINE r == [contact[c] EXCEPT !.running = TRUE]
<1>1. contact \in [Contacts -> ContactRow] /\ contact[c] \in ContactRow /\ RowFits(contact[c])
  BY DEF CInv, TypeOK, ContactsFit
<1>2. contact' = [contact EXCEPT ![c] = r] /\ r \in ContactRow /\ RowFits(r)
  BY <1>1 DEF StartCampaign, ContactRow, RowFits
<1> HIDE DEF r
<1> QED BY <1>2, OneContact DEF StartCampaign

LEMMA RemoveHolds ==
  ASSUME CInv, NEW p \in Procs, NEW c \in Contacts, NEW byRetention \in BOOLEAN, Remove(p, c, byRetention)
  PROVE  CInv'
<1> DEFINE r == [contact[c] EXCEPT !.status = "REMOVED"]
<1>1. contact \in [Contacts -> ContactRow] /\ contact[c] \in ContactRow /\ RowFits(contact[c])
      /\ UNCHANGED <<person, item, mishaps, outlived>>
  BY DEF Remove, CInv, TypeOK, ContactsFit
<1>2. contact' = [contact EXCEPT ![c] = r] /\ r \in ContactRow /\ RowFits(r)
  BY <1>1 DEF Remove, ContactRow, RowFits
<1> HIDE DEF r
<1>3. contact' \in ContactType /\ ContactsFit'
  BY <1>2, ContactStep
<1> QED BY <1>1, <1>3, BeginsEndRuns, OnlyContacts DEF Remove, Begin

LEMMA EraseHolds == ASSUME CInv, NEW p \in Procs, NEW c \in Contacts, Erase(p, c) PROVE CInv'
<1> DEFINE r == [contact[c] EXCEPT !.status = "OPTED_OUT", !.opted = TRUE, !.byForm = contact[c].opted /\ @]
<1>1. contact \in [Contacts -> ContactRow] /\ contact[c] \in ContactRow /\ RowFits(contact[c])
      /\ UNCHANGED <<person, item, mishaps, outlived>>
  BY DEF Erase, CInv, TypeOK, ContactsFit
<1>2. contact' = [contact EXCEPT ![c] = r] /\ r \in ContactRow /\ RowFits(r)
  BY <1>1 DEF Erase, ContactRow, RowFits
<1> HIDE DEF r
<1>3. contact' \in ContactType /\ ContactsFit'
  BY <1>2, ContactStep
<1> QED BY <1>1, <1>3, BeginsEndRuns, OnlyContacts DEF Erase, Begin

(* ... and the CRM's own. *)
LEMMA OnlyPersons ==
  ASSUME CInv, UNCHANGED <<item, job, outlived>>, contact' \in ContactType, ContactsFit',
         person' \in [Persons -> PersonRow], mishaps' \in 0 .. MaxMishaps
  PROVE  CInv'
<1>1. item' \in [Items -> ItemRow] /\ ItemsHaveContacts' /\ ItemsKeep
  BY ItemsSame
<1> QED BY <1>1, OthersHold, AllParts DEF CInv, TypeOK

LEMMA LiftPersonHolds == ASSUME CInv, NEW i \in Persons, LiftPerson(i) PROVE CInv'
<1>1. contact \in [Contacts -> ContactRow] /\ person \in [Persons -> PersonRow] /\ ContactsFit
      /\ UNCHANGED <<item, job, mishaps, outlived>>
  BY DEF CInv, TypeOK, LiftPerson
<1>2. person' \in [Persons -> PersonRow]
  BY <1>1 DEF LiftPerson, PersonRow
<1>3. ASSUME NEW c \in Contacts PROVE contact'[c] \in ContactRow /\ RowFits(contact'[c])
  <2>1. contact'[c] = IF contact[c].person = i /\ contact[c].byForm
                      THEN [contact[c] EXCEPT !.opted = FALSE, !.byForm = FALSE] ELSE contact[c]
    BY DEF LiftPerson
  <2>2. contact[c] \in ContactRow /\ RowFits(contact[c])
    BY <1>1 DEF ContactsFit
  <2> QED BY <2>1, <2>2 DEF ContactRow, RowFits
<1>4. contact' = [c \in Contacts |-> contact'[c]]
  BY DEF LiftPerson
<1>5. contact' \in ContactType /\ ContactsFit'
  BY <1>3, <1>4 DEF ContactType, ContactsFit, RowFits
<1> QED BY <1>1, <1>2, <1>5, OnlyPersons DEF CInv, TypeOK

LEMMA CrmCampaignHolds == ASSUME CInv, NEW i \in Persons, CrmCampaign(i) PROVE CInv'
<1>1. person' \in [Persons -> PersonRow]
  BY DEF CrmCampaign, CInv, TypeOK, PersonRow
<1>2. UNCHANGED <<contact, item, job, mishaps, outlived>>
  BY DEF CrmCampaign
<1> QED BY <1>1, <1>2, ContactsSame, OnlyPersons DEF CInv, TypeOK

LEMMA DeletedInCrmHolds == ASSUME CInv, NEW i \in Persons, DeletedInCrm(i) PROVE CInv'
<1>1. person' \in [Persons -> PersonRow] /\ mishaps' \in 0 .. MaxMishaps
  BY DeletedHolds, Counted DEF DeletedInCrm
<1>2. UNCHANGED <<contact, item, job, outlived>>
  BY DEF DeletedInCrm
<1> QED BY <1>1, <1>2, ContactsSame, OnlyPersons

LEMMA CrashHolds == ASSUME CInv, NEW p \in Procs, Crash(p) PROVE CInv'
<1>1. UNCHANGED <<contact, person, item, outlived>> /\ End(p) /\ mishaps' \in 0 .. MaxMishaps
  BY Counted DEF Crash
<1>2. item' \in [Items -> ItemRow] /\ ItemsHaveContacts' /\ ItemsKeep
  BY <1>1, ItemsSame
<1> QED BY <1>1, <1>2, EndHolds, ContactsSame, AllParts DEF CInv, TypeOK

-----------------------------------------------------------------------------
LEMMA Inductive == CInv /\ [Next]_vars => CInv'
<1> SUFFICES ASSUME CInv, [Next]_vars PROVE CInv'
  OBVIOUS
<1>1. ASSUME NEW p \in Procs, JobStep(p) PROVE CInv'
  <2>1. CASE MoveStep(p)
    BY <2>1, QueueItemHolds, RecheckHolds, FindChosenHolds, FindOursHolds, CreatePersonHolds,
       CrmFailsHolds, StorePersonHolds, CompleteLocallyHolds, TellCrmHolds, FinishNotesHolds DEF MoveStep
  <2>2. CASE UndoStep(p)
    BY <2>2, UndoClaimHolds, DeletePersonHolds, DeleteFailsHolds, RestoreLocallyHolds DEF UndoStep
  <2>3. CASE AfterStep(p)
    BY <2>3, EndRunsHolds, AfterContactHolds, SweepHolds DEF AfterStep
  <2> QED BY <1>1, <2>1, <2>2, <2>3 DEF JobStep
<1>2. ASSUME NEW p \in Procs, FirstAnswerLost(p) \/ CreateTimesOut(p) \/ Crash(p) PROVE CInv'
  BY <1>2, FirstAnswerLostHolds, CreateTimesOutHolds, CrashHolds
<1>3. ASSUME NEW p \in Procs, Requests(p) PROVE CInv'
  BY <1>3, PreflightHolds, OptOutHolds, RemoveHolds, EraseHolds, TakeHolds, UndoCheckHolds, OptOutPersonHolds
     DEF Requests
<1>4. ASSUME NEW k \in Items, ClaimGoesStale(k) \/ Retry(k) \/ FinishPartial(k) PROVE CInv'
  BY <1>4, ClaimGoesStaleHolds, RetryHolds, FinishPartialHolds
<1>5. ASSUME NEW c \in Contacts, Lift(c) \/ StartCampaign(c) PROVE CInv'
  BY <1>5, LiftHolds, StartCampaignHolds
<1>6. ASSUME NEW i \in Persons, CrmCampaign(i) \/ DeletedInCrm(i) \/ LiftPerson(i) PROVE CInv'
  BY <1>6, CrmCampaignHolds, DeletedInCrmHolds, LiftPersonHolds
<1>7. CASE UNCHANGED vars
  <2>1. UNCHANGED <<contact, person, item, job, mishaps, outlived>>
    BY <1>7 DEF vars
  <2>2. item' \in [Items -> ItemRow] /\ ItemsHaveContacts' /\ ItemsKeep
    BY <2>1, ItemsSame
  <2> QED BY <2>1, <2>2, OthersHold, OnlyItems
<1> QED BY <1>1, <1>2, <1>3, <1>4, <1>5, <1>6, <1>7 DEF Next

(* The invariant, for any processes, contacts, people and moves. *)
THEOREM InvariantHolds == Spec => []CInv
BY InitHolds, Inductive, PTL DEF Spec

(* Contacts, people, moves and jobs have their types.                      *)
THEOREM ContactTypeCorrect == Spec => []TypeOK
<1>1. CInv => TypeOK
  BY DEF CInv
<1> QED BY <1>1, InvariantHolds, PTL

(* An opt-out holds through an undo, wherever it was made: no active       *)
(* contact is opted out.                                                   *)
THEOREM OptOutStands == Spec => []OptOutOutlivesUndo
<1>1. CInv => OptOutOutlivesUndo
  BY DEF CInv, ContactsFit, RowFits, OptOutOutlivesUndo
<1> QED BY <1>1, InvariantHolds, PTL

(* Only completeLocally moves a contact, and only an active one.           *)
LEMMA MovesTheActive ==
  ASSUME CInv, [Next]_vars, NEW c \in Contacts, contact'[c].status = "MOVED", contact[c].status # "MOVED"
  PROVE  contact[c].status = "ACTIVE"
<1>1. contact \in [Contacts -> ContactRow]
  BY DEF CInv, TypeOK
<1>2. ASSUME NEW p \in Procs, JobStep(p) PROVE contact[c].status = "ACTIVE"
  <2>1. CASE MoveStep(p)
    <3>1. CASE CompleteLocally(p)
      BY <1>1, <3>1 DEF CompleteLocally, StillActive, ContactRow
    <3>2. CASE TellCrm(p)
      BY <1>1, <3>2 DEF TellCrm, OptPersonOut, ContactRow
    <3> QED BY <2>1, <3>1, <3>2 DEF MoveStep, QueueItem, Recheck, FindChosen, FindOurs, CreatePerson,
          CrmFails, StorePerson, FinishNotes
  <2>2. CASE UndoStep(p)
    <3>1. CASE RestoreLocally(p)
      BY <1>1, <3>1 DEF RestoreLocally, ContactRow, BackAs
    <3> QED BY <2>2, <3>1 DEF UndoStep, UndoClaim, DeletePerson, DeleteFails
  <2>3. CASE AfterStep(p)
    <3>1. CASE EndRuns(p)
      BY <1>1, <3>1 DEF EndRuns, ContactRow
    <3>2. CASE AfterContact(p)
      BY <1>1, <3>2 DEF AfterContact, OptPersonOut, ContactRow
    <3>3. CASE Sweep(p)
      <4>1. CASE contact' = contact
        BY <4>1
      <4>2. ASSUME NEW d \in Contacts,
                   contact' = [contact EXCEPT ![d].status = "OPTED_OUT", ![d].opted = TRUE, ![d].byForm = FALSE]
            PROVE  contact[c].status = "ACTIVE"
        BY <1>1, <4>2 DEF ContactRow
      <4> QED BY <3>3, <4>1, <4>2 DEF Sweep
    <3> QED BY <2>3, <3>1, <3>2, <3>3 DEF AfterStep
  <2> QED BY <1>2, <2>1, <2>2, <2>3 DEF JobStep
<1>3. ASSUME NEW p \in Procs, FirstAnswerLost(p) \/ CreateTimesOut(p) \/ Crash(p) PROVE contact[c].status = "ACTIVE"
  BY <1>3 DEF FirstAnswerLost, CreateTimesOut, Crash
<1>4. ASSUME NEW p \in Procs, Requests(p) PROVE contact[c].status = "ACTIVE"
  <2>1. ASSUME NEW d \in Contacts, NEW form \in BOOLEAN, OptOut(p, d, form) PROVE contact[c].status = "ACTIVE"
    BY <1>1, <2>1 DEF OptOut, ContactRow
  <2>2. ASSUME NEW d \in Contacts, NEW byRetention \in BOOLEAN, Remove(p, d, byRetention)
        PROVE  contact[c].status = "ACTIVE"
    BY <1>1, <2>2 DEF Remove, ContactRow
  <2>3. ASSUME NEW d \in Contacts, Erase(p, d) PROVE contact[c].status = "ACTIVE"
    BY <1>1, <2>3 DEF Erase, ContactRow
  <2>4. ASSUME NEW i \in Persons, NEW form \in BOOLEAN, OptOutPerson(p, i, form)
        PROVE  contact[c].status = "ACTIVE"
    BY <1>1, <2>4 DEF OptOutPerson, OptPersonOut, ContactRow
  <2> QED BY <1>4, <2>1, <2>2, <2>3, <2>4 DEF Requests, Preflight, Take, UndoCheck
<1>5. ASSUME NEW k \in Items, ClaimGoesStale(k) \/ Retry(k) \/ FinishPartial(k)
      PROVE  contact[c].status = "ACTIVE"
  BY <1>5 DEF ClaimGoesStale, Retry, FinishPartial
<1>6. ASSUME NEW d \in Contacts, Lift(d) \/ StartCampaign(d) PROVE contact[c].status = "ACTIVE"
  BY <1>1, <1>6 DEF Lift, StartCampaign, ContactRow
<1>7. ASSUME NEW i \in Persons, CrmCampaign(i) \/ DeletedInCrm(i) \/ LiftPerson(i)
      PROVE  contact[c].status = "ACTIVE"
  <2>1. CASE contact' = contact
    BY <2>1
  <2>2. CASE LiftPerson(i)
    <3>1. contact'[c] = IF contact[c].person = i /\ contact[c].byForm
                          THEN [contact[c] EXCEPT !.opted = FALSE, !.byForm = FALSE]
                          ELSE contact[c]
      BY <2>2 DEF LiftPerson
    <3>2. contact'[c].status = contact[c].status
      BY <1>1, <3>1 DEF ContactRow
    <3> QED BY <3>2
  <2> QED BY <1>7, <2>1, <2>2 DEF CrmCampaign, DeletedInCrm
<1>8. CASE UNCHANGED vars
  BY <1>8 DEF vars
<1> QED BY <1>2, <1>3, <1>4, <1>5, <1>6, <1>7, <1>8 DEF Next

(* A contact that opted out is never moved to the CRM after it, however    *)
(* far its move had come.                                                  *)
THEOREM OptedOutStay == Spec => OptedOutNeverMoves
<1>1. CInv /\ [Next]_vars =>
        \A c \in Contacts : (contact[c].opted /\ contact[c].status # "MOVED") => contact'[c].status # "MOVED"
  BY MovesTheActive DEF CInv, ContactsFit, RowFits
<1> QED BY <1>1, InvariantHolds, PTL DEF Spec, OptedOutNeverMoves

-----------------------------------------------------------------------------
(* One person for a contact.  A claim that has not gone stale is of one    *)
(* process, a contact has one move in flight, whoever is about to create a *)
(* person has found none, and whoever is about to do so again has only the *)
(* one its first attempt made.                                             *)

Working(p) == job[p].do \in Moving \cup {"undoPerson", "undoLocal"}
InPlace(p) ==
  LET i == item[job[p].item] IN
  /\ job[p].do \in Moving => i.state = "RUNNING" /\ ~ i.overdue
  /\ job[p].do \in {"undoPerson", "undoLocal"} => i.state = "UNDOING"
Flies(k) == item[k].state \in InFlightStates

FoundNoOther(p) ==
  /\ job[p].do = "create" => Earlier(job[p].contact) = {}
  /\ job[p].do = "createAgain" => Earlier(job[p].contact) \subseteq {job[p].person}

OneInFlight == \A k, l \in Items : Flies(k) /\ Flies(l) /\ item[k].contact = item[l].contact => k = l
ClaimsFit ==
  /\ \A p \in Procs : InPlace(p)
  /\ \A p, q \in Procs : Working(p) /\ Working(q) /\ job[p].item = job[q].item => p = q
  /\ \A p \in Procs : FoundNoOther(p)
  /\ \A c \in Contacts : \A i, j \in Earlier(c) : i = j \/ Twins(i, j)
ClaimInv == OneInFlight /\ (~ outlived => ClaimsFit)

(* A step writes at most the item k, which keeps its place among those in  *)
(* flight, and creates a person only where a process has found none.       *)
WritesOnly(k) ==
  /\ \A l \in Items : l # k => item'[l] = item[l]
  /\ k \in Items /\ Flies(k)' => \/ Flies(k) /\ item'[k].contact = item[k].contact
                                 \/ ~ InFlight(item'[k].contact)
NobodyNew == /\ \A c \in Contacts : Earlier(c)' \subseteq Earlier(c)
             /\ \A i \in Persons : person'[i].twin = person[i].twin
OneNew(p) ==
  /\ job[p].do \in Creating /\ job'[p] # job[p]
  /\ \E i \in Persons : /\ person'[i].of = job[p].contact
                        /\ \A n \in Persons : n # i => person'[n] = person[n]
                        /\ \A j \in Earlier(job[p].contact) : person'[i].twin = j
(* What the step means for a process: not its own, and not its item; or its*)
(* own, about k.                                                           *)
Bystands(q, k) == job'[q] = job[q] /\ (Working(q) => job[q].item # k)
Serves(q, k) ==
  /\ Working(q)' => job'[q].item = k /\ InPlace(q)'
  /\ FoundNoOther(q)'

LEMMA FlightKept ==
  ASSUME OneInFlight, NEW k, WritesOnly(k)
  PROVE  OneInFlight'
BY DEF OneInFlight, WritesOnly, Flies, InFlight

LEMMA WorkingOnItem ==
  ASSUME CInv, NEW p \in Procs, Working(p)
  PROVE  /\ job[p].do \in Moving \cup Undoing /\ job[p].item \in Items
         /\ job[p].contact = item[job[p].item].contact /\ job[p].contact \in Contacts
BY OnItem DEF Working, Undoing, Fits, CInv, ItemsHaveContacts

LEMMA CreatorIsAlone ==
  ASSUME CInv, OneInFlight, ClaimsFit, NEW p \in Procs, NEW q \in Procs,
         job[p].do \in Creating, job[q].do \in Creating, job[p].contact = job[q].contact
  PROVE  p = q
<1>1. Working(p) /\ Working(q) /\ Flies(job[p].item) /\ Flies(job[q].item)
  BY CreatorMoves DEF Working, ClaimsFit, InPlace, Flies, InFlightStates
<1>2. job[p].item = job[q].item
  BY <1>1, WorkingOnItem DEF OneInFlight
<1> QED BY <1>1, <1>2 DEF ClaimsFit

LEMMA OneNewElsewhere ==
  ASSUME NEW p, OneNew(p), NEW c, c # job[p].contact
  PROVE  Earlier(c)' \subseteq Earlier(c)
BY DEF OneNew, Earlier

LEMMA ClaimsKept ==
  ASSUME CInv, OneInFlight, ClaimsFit, NEW p, NEW k, WritesOnly(k),
         \A q \in Procs : q # p => Bystands(q, k),
         p \in Procs => Bystands(p, k) \/ Serves(p, k),
         NobodyNew \/ (p \in Procs /\ OneNew(p))
  PROVE  ClaimsFit'
<1>1. ASSUME NEW q \in Procs PROVE InPlace(q)'
  <2>1. CASE Bystands(q, k)
    <3>1. Working(q) => job[q].item \in Items /\ item'[job[q].item] = item[job[q].item]
      BY <2>1, WorkingOnItem DEF Bystands, WritesOnly
    <3> QED BY <2>1, <3>1 DEF Bystands, ClaimsFit, InPlace, Working
  <2>2. CASE Serves(q, k)
    BY <2>2 DEF Serves, InPlace, Working
  <2> QED BY <2>1, <2>2
<1>2. ASSUME NEW q \in Procs, NEW r \in Procs, Working(q)', Working(r)', job'[q].item = job'[r].item
      PROVE  q = r
  BY <1>2 DEF Bystands, Serves, Working, ClaimsFit
<1>3. ASSUME NEW q \in Procs PROVE FoundNoOther(q)'
  <2>1. ASSUME Bystands(q, k), job[q].do \in Creating
        PROVE  Earlier(job[q].contact)' \subseteq Earlier(job[q].contact)
    <3> PICK c : c = job[q].contact
      OBVIOUS
    <3>1. c \in Contacts /\ c = job'[q].contact
      BY <2>1, WorkingOnItem, CreatorMoves DEF Bystands, Working
    <3>2. ASSUME NobodyNew PROVE Earlier(c)' \subseteq Earlier(c)
      BY <3>1, <3>2 DEF NobodyNew
    <3>3. ASSUME p \in Procs, OneNew(p) PROVE Earlier(c)' \subseteq Earlier(c)
      <4>1. c # job[p].contact
        BY <2>1, <3>3, CreatorIsAlone DEF OneNew, Bystands
      <4> QED BY <3>3, <4>1, OneNewElsewhere
    <3>4. Earlier(c)' \subseteq Earlier(c)
      BY <3>2, <3>3
    <3> QED BY <3>1, <3>4
  <2>2. CASE Bystands(q, k)
    <3>1. job'[q] = job[q] /\ FoundNoOther(q) BY <2>2 DEF Bystands, ClaimsFit
    <3> QED BY <2>1, <2>2, <3>1 DEF FoundNoOther, Creating
  <2>3. CASE Serves(q, k)
    BY <2>3 DEF Serves
  <2> QED BY <2>2, <2>3
<1>4. ASSUME NEW c \in Contacts, NEW i \in Earlier(c)', NEW j \in Earlier(c)', i # j
      PROVE  Twins(i, j)'
  <2>1. CASE NobodyNew
    BY <1>4, <2>1 DEF ClaimsFit, NobodyNew, Twins, Earlier
  <2>2. CASE p \in Procs /\ OneNew(p)
    <3>1. CASE c # job[p].contact
      <4>1. i \in Earlier(c) /\ j \in Earlier(c) /\ person'[i] = person[i] /\ person'[j] = person[j]
        BY <1>4, <2>2, <3>1 DEF OneNew, Earlier
      <4> QED BY <1>4, <4>1 DEF ClaimsFit, Twins
    <3>2. CASE c = job[p].contact
      <4>1. PICK n \in Persons : /\ person'[n].of = c
                                 /\ \A m \in Persons : m # n => person'[m] = person[m]
                                 /\ \A m \in Earlier(c) : person'[n].twin = m
        BY <2>2, <3>2 DEF OneNew
      <4>2. \A m \in Earlier(c)' : m # n => m \in Earlier(c) /\ person'[m] = person[m]
        BY <4>1 DEF Earlier
      <4>3. CASE i = n \/ j = n
        BY <1>4, <4>1, <4>2, <4>3 DEF Twins
      <4>4. CASE i # n /\ j # n
        BY <1>4, <4>2, <4>4 DEF ClaimsFit, Twins
      <4> QED BY <4>3, <4>4
    <3> QED BY <3>1, <3>2
  <2> QED BY <2>1, <2>2
<1> QED BY <1>1, <1>2, <1>3, <1>4 DEF ClaimsFit

(* A step that leaves persons as they were, or takes some away.            *)
LEMMA NobodyAppears ==
  ASSUME \A i \in Persons : /\ person'[i].of = person[i].of /\ person'[i].twin = person[i].twin
                            /\ person'[i].live = "live" => person[i].live = "live"
  PROVE  NobodyNew
BY DEF NobodyNew, Earlier

LEMMA NotItem == ASSUME CInv, NEW p \in Procs, Working(p) PROVE job[p].item # Nil
BY WorkingOnItem, NilIsNobody

(* A step without a move: of a process that is at none, or leaves it.      *)
LEMMA Quiet ==
  ASSUME CInv, ClaimInv, UNCHANGED <<item, outlived>>, NobodyNew, NEW p,
         \A q \in Procs : q # p => job'[q] = job[q],
         p \in Procs => job'[p] = job[p] \/ ~ Working(p)'
  PROVE  ClaimInv'
<1>1. WritesOnly(Nil)
  BY NilIsNobody DEF WritesOnly
<1>2. \A q \in Procs : job'[q] = job[q] => Bystands(q, Nil)
  BY NotItem DEF Bystands
<1>3. p \in Procs /\ ~ Working(p)' => Serves(p, Nil)
  BY DEF Serves, Working, Moving, FoundNoOther
<1> QED BY <1>1, <1>2, <1>3, FlightKept, ClaimsKept DEF ClaimInv

(* A process writes the item it works on, and goes on with it or ends.     *)
LEMMA OwnStep ==
  ASSUME CInv, ClaimInv, NEW p \in Procs, Working(p), NEW k, k = job[p].item,
         \A q \in Procs : q # p => job'[q] = job[q],
         \A l \in Items : l # k => item'[l] = item[l],
         item'[k].contact = item[k].contact, Flies(k)' => Flies(k),
         ~ outlived => Serves(p, k) /\ (NobodyNew \/ OneNew(p)), UNCHANGED outlived
  PROVE  ClaimInv'
<1>1. WritesOnly(k)
  BY DEF WritesOnly
<1>2. ClaimsFit => \A q \in Procs : q # p => Bystands(q, k)
  BY DEF Bystands, ClaimsFit
<1> QED BY <1>1, <1>2, FlightKept, ClaimsKept DEF ClaimInv

(* A step on an item nobody works on, by nobody or by who takes it.        *)
LEMMA FreeItemStep ==
  ASSUME CInv, ClaimInv, NEW k \in Items, NEW p, WritesOnly(k), NobodyNew,
         \A q \in Procs : q # p => job'[q] = job[q],
         p \in Procs => job'[p] = job[p] \/ Serves(p, k),
         ~ outlived' => ~ outlived /\ \A q \in Procs : Working(q) => job[q].item # k
  PROVE  ClaimInv'
<1>1. ~ outlived' => /\ \A q \in Procs : q # p => Bystands(q, k)
                     /\ p \in Procs => Bystands(p, k) \/ Serves(p, k)
  BY DEF Bystands
<1> QED BY <1>1, FlightKept, ClaimsKept DEF ClaimInv

LEMMA NoJobServes ==
  ASSUME CInv, NEW p \in Procs, NEW k, End(p)
  PROVE  Serves(p, k) /\ (\A q \in Procs : q # p => job'[q] = job[q]) /\ job'[p] = NoJob /\ ~ Working(p)'
<1>1. job'[p] = NoJob /\ \A q \in Procs : q # p => job'[q] = job[q]
  BY DEF End, CInv, TypeOK
<1> QED BY <1>1 DEF Serves, Working, NoJob, Moving, FoundNoOther

(* The move ends: its item is in flight no more.                           *)
LEMMA Ends ==
  ASSUME CInv, ClaimInv, NEW p \in Procs, Working(p), End(p), UNCHANGED outlived,
         ~ outlived => NobodyNew \/ OneNew(p), NEW v, item' = [item EXCEPT ![job[p].item] = v],
         v.contact = item[job[p].item].contact, v.state \in InFlightStates => Flies(job[p].item)
  PROVE  ClaimInv'
<1>1. PICK k : k = job[p].item
  OBVIOUS
<1>2. k \in Items /\ item \in [Items -> ItemRow]
  BY <1>1, WorkingOnItem DEF CInv, TypeOK
<1>3. item'[k] = v /\ \A l \in Items : l # k => item'[l] = item[l]
  BY <1>1, <1>2
<1>4. Flies(k)' => Flies(k)
  BY <1>1, <1>3 DEF Flies
<1> QED BY <1>1, <1>3, <1>4, NoJobServes, OwnStep

LEMMA FailClaims ==
  ASSUME CInv, ClaimInv, NEW p \in Procs, job[p].do \in Moving, NEW permanent \in BOOLEAN, Fail(p, permanent),
         UNCHANGED outlived, ~ outlived => NobodyNew \/ OneNew(p)
  PROVE  ClaimInv'
<1> DEFINE k == job[p].item
           v == [item[k] EXCEPT !.state = "FAILED", !.permanent = permanent]
<1>1. item \in [Items -> ItemRow] /\ item[k] \in ItemRow /\ Working(p)
  BY OnItem DEF CInv, TypeOK, Working
<1>2. item' = [item EXCEPT ![k] = v] /\ End(p)
  BY <1>1 DEF Fail, ItemRow
<1>3. v.contact = item[k].contact /\ v.state = "FAILED"
  BY <1>1 DEF ItemRow
<1> HIDE DEF v
<1> QED BY <1>1, <1>2, <1>3, Ends DEF InFlightStates

(* The move goes on, its item still running.                               *)
LEMMA GoesOn ==
  ASSUME CInv, ClaimInv, NEW p \in Procs, job[p].do \in Moving, NEW j, job' = [job EXCEPT ![p] = j],
         j.do \in Moving, j.item = job[p].item, UNCHANGED outlived,
         j.do = "create" => \A c : c = j.contact => Earlier(c)' = {},
         ~ outlived /\ j.do = "createAgain" => \A c : c = j.contact => Earlier(c)' \subseteq {j.person},
         ~ outlived => NobodyNew \/ OneNew(p), NEW v, item' = [item EXCEPT ![job[p].item] = v],
         v.contact = item[job[p].item].contact, v.state = item[job[p].item].state,
         v.overdue = item[job[p].item].overdue
  PROVE  ClaimInv'
<1>1. PICK k : k = job[p].item
  OBVIOUS
<1>2. k \in Items /\ item \in [Items -> ItemRow] /\ Working(p) /\ job \in [Procs -> Job]
  BY <1>1, OnItem DEF CInv, TypeOK, Working
<1>3. /\ item'[k] = v /\ \A l \in Items : l # k => item'[l] = item[l]
      /\ job'[p] = j /\ \A q \in Procs : q # p => job'[q] = job[q]
  BY <1>1, <1>2
<1>4. Flies(k)' => Flies(k)
  BY <1>1, <1>3 DEF Flies
<1>5. ~ outlived => Serves(p, k)
  <2>1. ~ outlived => item[k].state = "RUNNING" /\ ~ item[k].overdue
    BY <1>1 DEF ClaimInv, ClaimsFit, InPlace
  <2>2. ~ outlived => InPlace(p)'
    BY <1>1, <1>3, <2>1 DEF InPlace, Moving
  <2>3. ~ outlived => FoundNoOther(p)'
    BY <1>3 DEF FoundNoOther
  <2> QED BY <1>1, <1>3, <2>2, <2>3 DEF Serves
<1> QED BY <1>1, <1>2, <1>3, <1>4, <1>5, OwnStep

LEMMA SameItem ==
  ASSUME CInv, NEW p \in Procs, UNCHANGED item
  PROVE  item' = [item EXCEPT ![job[p].item] = item[job[p].item]]
BY DEF CInv, TypeOK

LEMMA GoIs ==
  ASSUME CInv, NEW p \in Procs, NEW d, Go(p, d)
  PROVE  \E j : /\ job' = [job EXCEPT ![p] = j] /\ j.do = d /\ j.item = job[p].item
                /\ j.contact = job[p].contact
<1> DEFINE j == [job[p] EXCEPT !.do = d]
<1>1. job[p] \in Job
  BY DEF CInv, TypeOK
<1>2. j.do = d /\ j.item = job[p].item /\ j.contact = job[p].contact
  BY <1>1 DEF Job
<1>3. job' = [job EXCEPT ![p] = j]
  BY DEF Go
<1> QED BY <1>2, <1>3

LEMMA UseIs ==
  ASSUME CInv, NEW p \in Procs, NEW i, NEW d, Use(p, i, d)
  PROVE  \E j : /\ job' = [job EXCEPT ![p] = j] /\ j.do = d /\ j.item = job[p].item
                /\ j.contact = job[p].contact /\ j.person = i
<1> DEFINE j == [job[p] EXCEPT !.do = d, !.person = i]
<1>1. job[p] \in Job
  BY DEF CInv, TypeOK
<1>2. j.do = d /\ j.item = job[p].item /\ j.contact = job[p].contact /\ j.person = i
  BY <1>1 DEF Job
<1>3. job' = [job EXCEPT ![p] = j]
  BY DEF Use
<1> QED BY <1>2, <1>3

LEMMA SamePersons == ASSUME UNCHANGED person PROVE NobodyNew
BY NobodyAppears

LEMMA RecheckClaims == ASSUME CInv, ClaimInv, NEW p \in Procs, Recheck(p) PROVE ClaimInv'
<1>1. job[p].do \in Moving /\ UNCHANGED <<person, outlived>>
  BY DEF Recheck, At, Moving
<1>2. NobodyNew
  BY <1>1, SamePersons
<1>3. CASE Fail(p, TRUE)
  BY <1>1, <1>2, <1>3, FailClaims
<1>4. CASE Go(p, "find") /\ UNCHANGED item
  BY <1>1, <1>2, <1>4, GoIs, SameItem, GoesOn DEF Moving
<1>5. CASE Use(p, item[job[p].item].person, "notes") /\ UNCHANGED item
  BY <1>1, <1>2, <1>5, UseIs, SameItem, GoesOn DEF Moving
<1> QED BY <1>3, <1>4, <1>5 DEF Recheck, Use

LEMMA FindChosenClaims == ASSUME CInv, ClaimInv, NEW p \in Procs, FindChosen(p) PROVE ClaimInv'
<1> DEFINE k == job[p].item
<1>1. job[p].do \in Moving /\ UNCHANGED <<person, outlived>>
  BY DEF FindChosen, At, Moving
<1>2. NobodyNew /\ item[k] \in ItemRow /\ job \in [Procs -> Job]
  BY <1>1, SamePersons, OnItem DEF CInv, TypeOK
<1>3. CASE Fail(p, TRUE)
  BY <1>1, <1>2, <1>3, FailClaims
<1>4. ASSUME NEW i, Use(p, i, "store"), item' = [item EXCEPT ![k].target = i] PROVE ClaimInv'
  <2> DEFINE v == [item[k] EXCEPT !.target = i]
  <2>1. item' = [item EXCEPT ![k] = v] /\ v.contact = item[k].contact /\ v.state = item[k].state
        /\ v.overdue = item[k].overdue
    BY <1>2, <1>4 DEF ItemRow
  <2> HIDE DEF v
  <2>2. PICK j : job' = [job EXCEPT ![p] = j] /\ j.do = "store" /\ j.item = job[p].item
    BY <1>4, UseIs
  <2> QED BY <1>1, <1>2, <2>1, <2>2, GoesOn DEF Moving
<1>5. CASE item' = [item EXCEPT ![k].attach = FALSE, ![k].target = Nil] /\ UNCHANGED job
  <2> DEFINE v == [item[k] EXCEPT !.attach = FALSE, !.target = Nil]
  <2>1. item' = [item EXCEPT ![k] = v] /\ v.contact = item[k].contact /\ v.state = item[k].state
        /\ v.overdue = item[k].overdue
    BY <1>2, <1>5 DEF ItemRow
  <2>2. job' = [job EXCEPT ![p] = job[p]] /\ job[p].do \notin Creating
    BY <1>2, <1>5 DEF FindChosen, At, Creating
  <2> HIDE DEF v
  <2> QED BY <1>1, <1>2, <2>1, <2>2, GoesOn DEF Creating
<1> QED BY <1>3, <1>4, <1>5 DEF FindChosen

LEMMA FindOursClaims == ASSUME CInv, ClaimInv, NEW p \in Procs, FindOurs(p) PROVE ClaimInv'
<1>1. job[p].do \in Moving /\ UNCHANGED <<person, item, outlived>>
  BY DEF FindOurs, At, Moving
<1>2. NobodyNew
  BY <1>1, SamePersons
<1>3. ASSUME NEW i, Use(p, i, "store") PROVE ClaimInv'
  BY <1>1, <1>2, <1>3, UseIs, SameItem, GoesOn DEF Moving
<1>4. CASE Go(p, "create") /\ Earlier(job[p].contact) = {}
  <2>1. \A c : c = job[p].contact => Earlier(c)' = {}
    BY <1>1, <1>4 DEF Earlier
  <2> QED BY <1>1, <1>2, <1>4, <2>1, GoIs, SameItem, GoesOn DEF Moving
<1> QED BY <1>3, <1>4 DEF FindOurs

(* Whoever creates a person had found none, or has the one it made, and    *)
(* nobody else creates one.                                                *)
LEMMA CreatedOne ==
  ASSUME CInv, ClaimInv, ~ outlived, NEW p \in Procs, job[p].do \in Creating, job'[p] # job[p],
         NEW i \in Persons, Created(p, i)
  PROVE  /\ OneNew(p)
         /\ job[p].do = "create" => \A c : c = job[p].contact => Earlier(c)' \subseteq {i}
<1> PICK c : c = job[p].contact
  OBVIOUS
<1> DEFINE twin == IF At(p, "createAgain") THEN job[p].person ELSE Nil
<1>1. FoundNoOther(p) /\ person \in [Persons -> PersonRow]
  BY DEF ClaimInv, ClaimsFit, CInv, TypeOK
<1>2. \A j \in Earlier(c) : twin = j
  BY <1>1 DEF FoundNoOther, Creating, At
<1> HIDE DEF twin
<1>3. /\ person'[i].of = c /\ person'[i].twin = twin
      /\ \A n \in Persons : n # i => person'[n] = person[n]
  BY <1>1 DEF Created, twin
<1>4. OneNew(p)
  BY <1>2, <1>3 DEF OneNew
<1>5. job[p].do = "create" => Earlier(c)' \subseteq {i}
  BY <1>1, <1>3 DEF Earlier, FoundNoOther
<1> QED BY <1>4, <1>5

LEMMA CreateClaims == ASSUME CInv, ClaimInv, NEW p \in Procs, CreatePerson(p) PROVE ClaimInv'
<1>1. job[p].do \in Creating /\ job[p].do \in Moving /\ UNCHANGED <<item, outlived>>
  BY CreatorMoves DEF CreatePerson
<1>2. PICK i \in Persons : Created(p, i) /\ Use(p, i, "store")
  BY DEF CreatePerson
<1>3. PICK j : job' = [job EXCEPT ![p] = j] /\ j.do = "store" /\ j.item = job[p].item
  BY <1>2, UseIs
<1>4. job'[p] # job[p]
  BY <1>1, <1>3 DEF CInv, TypeOK, Creating
<1>5. ~ outlived => OneNew(p)
  BY <1>1, <1>2, <1>4, CreatedOne
<1> QED BY <1>1, <1>3, <1>5, SameItem, GoesOn DEF Moving

LEMMA FirstAnswerLostClaims == ASSUME CInv, ClaimInv, NEW p \in Procs, FirstAnswerLost(p) PROVE ClaimInv'
<1>1. job[p].do = "create" /\ job[p].do \in Moving /\ UNCHANGED <<item, outlived>>
  BY DEF FirstAnswerLost, At, Moving
<1>2. PICK i \in Persons : Created(p, i) /\ Use(p, i, "createAgain")
  BY DEF FirstAnswerLost
<1>3. PICK j : /\ job' = [job EXCEPT ![p] = j] /\ j.do = "createAgain" /\ j.item = job[p].item
               /\ j.contact = job[p].contact /\ j.person = i
  BY <1>2, UseIs
<1>4. job'[p] # job[p]
  BY <1>1, <1>3 DEF CInv, TypeOK
<1>5. ~ outlived => OneNew(p) /\ \A c : c = job[p].contact => Earlier(c)' \subseteq {i}
  BY <1>1, <1>2, <1>4, CreatedOne DEF Creating
<1> QED BY <1>1, <1>3, <1>5, SameItem, GoesOn DEF Moving

LEMMA CreateTimesOutClaims == ASSUME CInv, ClaimInv, NEW p \in Procs, CreateTimesOut(p) PROVE ClaimInv'
<1>1. job[p].do \in Creating /\ job[p].do \in Moving /\ UNCHANGED outlived /\ Fail(p, FALSE)
  BY CreatorMoves DEF CreateTimesOut
<1>2. PICK i \in Persons : Created(p, i)
  BY DEF CreateTimesOut
<1>3. job'[p] # job[p]
  BY <1>1, NoJobServes DEF Fail, NoJob, Creating
<1>4. ~ outlived => OneNew(p)
  BY <1>1, <1>2, <1>3, CreatedOne
<1> QED BY <1>1, <1>4, FailClaims

LEMMA CrmFailsClaims == ASSUME CInv, ClaimInv, NEW p \in Procs, CrmFails(p) PROVE ClaimInv'
<1>1. job[p].do \in Moving /\ UNCHANGED <<person, outlived>>
  BY CreatorMoves DEF CrmFails, At, Moving
<1> QED BY <1>1, SamePersons, FailClaims DEF CrmFails

LEMMA StorePersonClaims == ASSUME CInv, ClaimInv, NEW p \in Procs, StorePerson(p) PROVE ClaimInv'
<1> DEFINE v == [item[job[p].item] EXCEPT !.person = job[p].person]
<1>1. job[p].do \in Moving /\ UNCHANGED <<person, outlived>> /\ Go(p, "complete")
  BY DEF StorePerson, At, Moving
<1>2. item' = [item EXCEPT ![job[p].item] = v]
  BY DEF StorePerson
<1>3. /\ v.contact = item[job[p].item].contact /\ v.state = item[job[p].item].state
      /\ v.overdue = item[job[p].item].overdue
  BY <1>1, OnItem DEF ItemRow
<1> HIDE DEF v
<1>4. PICK j : job' = [job EXCEPT ![p] = j] /\ j.do = "complete" /\ j.item = job[p].item
  BY <1>1, GoIs
<1> QED BY <1>1, <1>2, <1>3, <1>4, SamePersons, GoesOn DEF Moving

LEMMA CompleteLocallyClaims == ASSUME CInv, ClaimInv, NEW p \in Procs, CompleteLocally(p) PROVE ClaimInv'
<1>1. job[p].do \in Moving /\ UNCHANGED <<person, outlived>> /\ NobodyNew
  BY SamePersons DEF CompleteLocally, At, Moving
<1>2. CASE Fail(p, TRUE)
  BY <1>1, <1>2, FailClaims
<1>3. CASE Go(p, "tellCrm") /\ UNCHANGED item
  BY <1>1, <1>3, GoIs, SameItem, GoesOn DEF Moving
<1>4. ASSUME NEW running, item' = [item EXCEPT ![job[p].item].exited = running], Go(p, "notes") PROVE ClaimInv'
  <2> DEFINE v == [item[job[p].item] EXCEPT !.exited = running]
  <2>1. item' = [item EXCEPT ![job[p].item] = v]
    BY <1>4
  <2>2. /\ v.contact = item[job[p].item].contact /\ v.state = item[job[p].item].state
        /\ v.overdue = item[job[p].item].overdue
    BY <1>1, OnItem DEF ItemRow
  <2> HIDE DEF v
  <2>3. PICK j : job' = [job EXCEPT ![p] = j] /\ j.do = "notes" /\ j.item = job[p].item
    BY <1>4, GoIs
  <2> QED BY <1>1, <2>1, <2>2, <2>3, GoesOn DEF Moving
<1> QED BY <1>2, <1>3, <1>4 DEF CompleteLocally

LEMMA PersonOptsOutNobody ==
  ASSUME CInv, NEW i, NEW form, OptPersonOut(i, form)
  PROVE  NobodyNew
<1>1. \A n \in Persons : /\ person'[n].of = person[n].of /\ person'[n].live = person[n].live
                         /\ person'[n].twin = person[n].twin
  BY DEF OptPersonOut, CInv, TypeOK, PersonRow
<1> QED BY <1>1, NobodyAppears

LEMMA TellCrmClaims == ASSUME CInv, ClaimInv, NEW p \in Procs, TellCrm(p) PROVE ClaimInv'
<1>1. job[p].do \in Moving /\ UNCHANGED outlived /\ Fail(p, TRUE) /\ NobodyNew
  BY PersonOptsOutNobody DEF TellCrm, At, Moving
<1> QED BY <1>1, FailClaims

LEMMA StateSet ==
  ASSUME CInv, NEW p \in Procs, Working(p), NEW s, item' = [item EXCEPT ![job[p].item].state = s]
  PROVE  \E v : /\ item' = [item EXCEPT ![job[p].item] = v]
                /\ v.contact = item[job[p].item].contact /\ v.state = s
<1> DEFINE v == [item[job[p].item] EXCEPT !.state = s]
<1>1. item' = [item EXCEPT ![job[p].item] = v]
  OBVIOUS
<1>2. v.contact = item[job[p].item].contact /\ v.state = s
  BY WorkingOnItem DEF CInv, TypeOK, ItemRow
<1> QED BY <1>1, <1>2

LEMMA FinishNotesClaims == ASSUME CInv, ClaimInv, NEW p \in Procs, FinishNotes(p) PROVE ClaimInv'
<1>1. Working(p) /\ UNCHANGED outlived /\ NobodyNew /\ End(p)
  BY SamePersons DEF FinishNotes, At, Moving, Working
<1>2. PICK v : /\ item' = [item EXCEPT ![job[p].item] = v]
               /\ v.contact = item[job[p].item].contact /\ v.state = "DONE"
  BY <1>1, StateSet DEF FinishNotes
<1> QED BY <1>1, <1>2, Ends DEF InFlightStates

LEMMA DeleteFailsClaims == ASSUME CInv, ClaimInv, NEW p \in Procs, DeleteFails(p) PROVE ClaimInv'
<1>1. Working(p) /\ UNCHANGED outlived /\ End(p)
  BY DEF DeleteFails, At, Working
<1>2. NobodyNew
  BY NobodyAppears DEF DeleteFails, Deleted, CInv, TypeOK, PersonRow
<1>3. PICK v : /\ item' = [item EXCEPT ![job[p].item] = v]
               /\ v.contact = item[job[p].item].contact /\ v.state = "DONE"
  BY <1>1, StateSet DEF DeleteFails
<1> QED BY <1>1, <1>2, <1>3, Ends DEF InFlightStates

LEMMA RestoreLocallyClaims == ASSUME CInv, ClaimInv, NEW p \in Procs, RestoreLocally(p) PROVE ClaimInv'
<1>1. Working(p) /\ UNCHANGED outlived /\ End(p) /\ NobodyNew
  BY SamePersons DEF RestoreLocally, At, Working
<1>2. PICK s : /\ item' = [item EXCEPT ![job[p].item].state = s]
               /\ s \in InFlightStates => Flies(job[p].item)
  <2>1. CASE \E left \in {"UNDONE", "UNDO_PARTIAL"} : item' = [item EXCEPT ![job[p].item].state = left]
    BY <2>1 DEF InFlightStates
  <2>2. CASE item' = [item EXCEPT ![job[p].item].state = IF @ = "UNDOING" THEN "UNDO_PARTIAL" ELSE @]
    <3> DEFINE s == IF item[job[p].item].state = "UNDOING" THEN "UNDO_PARTIAL" ELSE item[job[p].item].state
    <3>1. item' = [item EXCEPT ![job[p].item].state = s]
      BY <2>2
    <3>2. s \in InFlightStates => Flies(job[p].item)
      BY DEF InFlightStates, Flies
    <3> QED BY <3>1, <3>2
  <2> QED BY <2>1, <2>2 DEF RestoreLocally
<1>3. PICK v : /\ item' = [item EXCEPT ![job[p].item] = v]
               /\ v.contact = item[job[p].item].contact /\ v.state = s
  BY <1>1, <1>2, StateSet
<1> QED BY <1>1, <1>2, <1>3, Ends

LEMMA DeletePersonClaims == ASSUME CInv, ClaimInv, NEW p \in Procs, DeletePerson(p) PROVE ClaimInv'
<1>1. Working(p) /\ job[p].do = "undoPerson" /\ UNCHANGED <<item, outlived>> /\ job \in [Procs -> Job]
  BY DEF DeletePerson, At, Working, CInv, TypeOK
<1>2. NobodyNew
  BY NobodyAppears DEF DeletePerson, Deleted, CInv, TypeOK, PersonRow
<1>3. PICK j : job' = [job EXCEPT ![p] = j] /\ j.do = "undoLocal" /\ j.item = job[p].item
  BY GoIs DEF DeletePerson
<1>4. PICK k : k = job[p].item
  OBVIOUS
<1>5. job'[p] = j /\ \A q \in Procs : q # p => job'[q] = job[q]
  BY <1>1, <1>3
<1>6. ~ outlived => Serves(p, k)
  <2>1. ~ outlived => item[k].state = "UNDOING"
    BY <1>1, <1>4 DEF ClaimInv, ClaimsFit, InPlace
  <2>2. ~ outlived => InPlace(p)'
    BY <1>1, <1>3, <1>4, <1>5, <2>1 DEF InPlace, Moving
  <2> QED BY <1>3, <1>4, <1>5, <2>2 DEF Serves, FoundNoOther
<1>7. item'[k].contact = item[k].contact /\ (Flies(k)' => Flies(k))
  BY <1>1 DEF Flies
<1> QED BY <1>1, <1>2, <1>4, <1>5, <1>6, <1>7, OwnStep

(* A process works on an item that is running or being undone.             *)
LEMMA WorkedOn ==
  ASSUME CInv, ClaimInv, ~ outlived, NEW k, NEW q \in Procs, Working(q), job[q].item = k
  PROVE  item[k].state = "UNDOING" \/ (item[k].state = "RUNNING" /\ ~ item[k].overdue)
BY DEF ClaimInv, ClaimsFit, InPlace, Working

LEMMA QueueItemClaims == ASSUME CInv, ClaimInv, NEW p \in Procs, QueueItem(p) PROVE ClaimInv'
<1>1. NobodyNew /\ UNCHANGED outlived /\ End(p)
  BY SamePersons DEF QueueItem
<1>2. CASE UNCHANGED item
  BY <1>1, <1>2, NoJobServes, Quiet
<1>3. ASSUME NEW k \in Items, item[k].state = "NONE", ~ InFlight(job[p].contact),
             item' = [item EXCEPT ![k] = [NoItem EXCEPT !.state = "QUEUED", !.contact = job[p].contact,
                        !.attach = job[p].person # Nil, !.target = job[p].person]]
      PROVE  ClaimInv'
  <2>1. item'[k].contact = job[p].contact /\ \A l \in Items : l # k => item'[l] = item[l]
    BY <1>3 DEF NoItem, CInv, TypeOK
  <2>2. WritesOnly(k)
    BY <1>3, <2>1 DEF WritesOnly
  <2>3. ~ outlived => \A q \in Procs : Working(q) => job[q].item # k
    BY <1>3, WorkedOn
  <2> QED BY <1>1, <2>2, <2>3, NoJobServes, FreeItemStep
<1> QED BY <1>2, <1>3 DEF QueueItem

LEMMA TakeClaims == ASSUME CInv, ClaimInv, NEW p \in Procs, NEW k \in Items, Take(p, k) PROVE ClaimInv'
<1> DEFINE j == [NoJob EXCEPT !.do = "check", !.item = k, !.contact = item[k].contact]
<1>1. NobodyNew /\ UNCHANGED outlived /\ Takable(k) /\ item \in [Items -> ItemRow] /\ item[k] \in ItemRow
  BY SamePersons DEF Take, CInv, TypeOK
<1>2. item'[k].state = "RUNNING" /\ ~ item'[k].overdue /\ item'[k].contact = item[k].contact
      /\ \A l \in Items : l # k => item'[l] = item[l]
  BY <1>1 DEF Take, ItemRow
<1>3. j.do = "check" /\ j.item = k
  BY DEF NoJob
<1>4. job'[p] = j /\ \A q \in Procs : q # p => job'[q] = job[q]
  BY DEF Take, Begin, CInv, TypeOK
<1> HIDE DEF j
<1>5. WritesOnly(k)
  BY <1>1, <1>2 DEF WritesOnly, Flies, Takable, InFlightStates
<1>6. Serves(p, k)
  <2>1. InPlace(p)'
    BY <1>2, <1>3, <1>4 DEF InPlace
  <2> QED BY <1>3, <1>4, <2>1 DEF Serves, FoundNoOther
<1>7. ~ outlived => \A q \in Procs : Working(q) => job[q].item # k
  BY <1>1, WorkedOn DEF Takable
<1> QED BY <1>1, <1>4, <1>5, <1>6, <1>7, FreeItemStep

LEMMA ItemSteps ==
  ASSUME CInv, ClaimInv, NEW k \in Items, ClaimGoesStale(k) \/ Retry(k) \/ FinishPartial(k)
  PROVE  ClaimInv'
<1>1. NobodyNew /\ UNCHANGED job /\ item \in [Items -> ItemRow] /\ item[k] \in ItemRow
  BY SamePersons DEF ClaimGoesStale, Retry, FinishPartial, CInv, TypeOK
<1>2. CASE ClaimGoesStale(k)
  <2>1. item'[k].state = item[k].state /\ item'[k].contact = item[k].contact
        /\ \A l \in Items : l # k => item'[l] = item[l]
    BY <1>1, <1>2 DEF ClaimGoesStale, ItemRow
  <2>2. WritesOnly(k)
    BY <2>1 DEF WritesOnly, Flies
  <2>3. ~ outlived' => ~ outlived /\ \A q \in Procs : Working(q) => job[q].item # k
    BY <1>2 DEF ClaimGoesStale, Held
  <2> QED BY <1>1, <2>2, <2>3, FreeItemStep
<1>3. CASE Retry(k)
  <2>1. /\ \/ ~ InFlight(item[k].contact) /\ item'[k].contact = item[k].contact
           \/ item'[k].state = item[k].state
        /\ \A l \in Items : l # k => item'[l] = item[l]
        /\ item[k].state = "FAILED" /\ UNCHANGED outlived
    BY <1>1, <1>3 DEF Retry, ItemRow
  <2>2. WritesOnly(k)
    BY <2>1 DEF WritesOnly, Flies, InFlightStates
  <2>3. ~ outlived => \A q \in Procs : Working(q) => job[q].item # k
    BY <2>1, WorkedOn
  <2> QED BY <1>1, <2>1, <2>2, <2>3, FreeItemStep
<1>4. CASE FinishPartial(k)
  <2>1. /\ item'[k].state = "UNDONE" /\ \A l \in Items : l # k => item'[l] = item[l]
        /\ item[k].state = "UNDO_PARTIAL" /\ UNCHANGED outlived
    BY <1>1, <1>4 DEF FinishPartial, ItemRow
  <2>2. WritesOnly(k)
    BY <2>1 DEF WritesOnly, Flies, InFlightStates
  <2>3. ~ outlived => \A q \in Procs : Working(q) => job[q].item # k
    BY <2>1, WorkedOn
  <2> QED BY <1>1, <2>1, <2>2, <2>3, FreeItemStep
<1> QED BY <1>2, <1>3, <1>4

LEMMA UndoClaimClaims == ASSUME CInv, ClaimInv, NEW p \in Procs, UndoClaim(p) PROVE ClaimInv'
<1>1. NobodyNew /\ UNCHANGED outlived /\ job[p].do = "undoClaim" /\ item \in [Items -> ItemRow]
  BY SamePersons DEF UndoClaim, At, CInv, TypeOK
<1>2. CASE End(p) /\ UNCHANGED item
  BY <1>1, <1>2, NoJobServes, Quiet
<1>3. ASSUME item[job[p].item].state = "DONE", item' = [item EXCEPT ![job[p].item].state = "UNDOING"],
             NEW d \in {"undoLocal", "undoPerson"}, Go(p, d)
      PROVE  ClaimInv'
  <2>1. PICK k : k = job[p].item
    OBVIOUS
  <2>2. k \in Items /\ item[k] \in ItemRow
    BY <1>1, <2>1, OnItem DEF Undoing
  <2>3. PICK j : job' = [job EXCEPT ![p] = j] /\ j.do = d /\ j.item = job[p].item
    BY <1>3, GoIs
  <2>4. job'[p] = j /\ \A q \in Procs : q # p => job'[q] = job[q]
    BY <2>3 DEF CInv, TypeOK
  <2>5. item'[k].state = "UNDOING" /\ \A l \in Items : l # k => item'[l] = item[l]
    BY <1>1, <1>3, <2>1, <2>2 DEF ItemRow
  <2>6. WritesOnly(k)
    BY <2>5 DEF WritesOnly, Flies, InFlightStates
  <2>7. Serves(p, k)
    <3>1. InPlace(p)'
      BY <2>1, <2>3, <2>4, <2>5 DEF InPlace, Moving
    <3> QED BY <2>1, <2>3, <2>4, <3>1 DEF Serves, FoundNoOther
  <2>8. ~ outlived => \A q \in Procs : Working(q) => job[q].item # k
    BY <1>3, <2>1, WorkedOn
  <2> QED BY <1>1, <2>2, <2>4, <2>6, <2>7, <2>8, FreeItemStep
<1> QED BY <1>2, <1>3 DEF UndoClaim

-----------------------------------------------------------------------------
LEMMA BeginsQuietly ==
  ASSUME CInv, ClaimInv, NEW p \in Procs, NEW j, job' = [job EXCEPT ![p] = j],
         j.do \notin Moving \cup {"undoPerson", "undoLocal"}, UNCHANGED <<item, outlived>>, NobodyNew
  PROVE  ClaimInv'
<1>1. job'[p] = j /\ \A q \in Procs : q # p => job'[q] = job[q]
  BY DEF CInv, TypeOK
<1>2. ~ Working(p)'
  BY <1>1 DEF Working
<1> QED BY <1>1, <1>2, Quiet

LEMMA EndsQuietly ==
  ASSUME CInv, ClaimInv, NEW p \in Procs, End(p), UNCHANGED <<item, outlived>>, NobodyNew
  PROVE  ClaimInv'
BY NoJobServes, Quiet

LEMMA AfterSteps == ASSUME CInv, ClaimInv, NEW p \in Procs, AfterStep(p) \/ Crash(p) PROVE ClaimInv'
<1>1. UNCHANGED <<item, outlived>>
  BY DEF AfterStep, EndRuns, AfterContact, Sweep, Crash
<1>2. NobodyNew
  BY SamePersons, PersonOptsOutNobody DEF AfterStep, EndRuns, AfterContact, Sweep, Crash
<1>3. CASE End(p)
  BY <1>1, <1>2, <1>3, EndsQuietly
<1>4. CASE Go(p, "sweep")
  <2>1. PICK j : job' = [job EXCEPT ![p] = j] /\ j.do = "sweep"
    BY <1>4, GoIs
  <2> QED BY <1>1, <1>2, <2>1, BeginsQuietly DEF Moving
<1>5. ASSUME NEW c, job' = [job EXCEPT ![p] = [NoJob EXCEPT !.do = "endRuns", !.contact = c]] PROVE ClaimInv'
  <2> DEFINE j == [NoJob EXCEPT !.do = "endRuns", !.contact = c]
  <2>1. j.do = "endRuns" /\ job' = [job EXCEPT ![p] = j]
    BY <1>5 DEF NoJob
  <2> HIDE DEF j
  <2> QED BY <1>1, <1>2, <2>1, BeginsQuietly DEF Moving
<1> QED BY <1>3, <1>4, <1>5 DEF AfterStep, EndRuns, AfterContact, Sweep, Crash

LEMMA RequestsClaims == ASSUME CInv, ClaimInv, NEW p \in Procs, Requests(p) PROVE ClaimInv'
<1>1. ASSUME NEW j, Begin(p, j), j.do \notin Moving \cup {"undoPerson", "undoLocal"},
             UNCHANGED <<item, outlived>>, NobodyNew
      PROVE  ClaimInv'
  BY <1>1, BeginsQuietly DEF Begin
<1>2. ASSUME NEW c \in Contacts, NEW target, Preflight(p, c, target) PROVE ClaimInv'
  <2> DEFINE j == [NoJob EXCEPT !.do = "queue", !.contact = c, !.person = target]
  <2>1. j.do = "queue" /\ Begin(p, j)
    BY <1>2 DEF Preflight, NoJob
  <2> HIDE DEF j
  <2> QED BY <1>1, <1>2, <2>1, SamePersons DEF Preflight, Moving
<1>3. ASSUME NEW c \in Contacts, NEW form, OptOut(p, c, form) PROVE ClaimInv'
  <2>1. PICK j : Begin(p, j) /\ j.do \in {"optPerson", "endRuns"}
    <3> DEFINE opt == [NoJob EXCEPT !.do = "optPerson", !.person = contact[c].person, !.form = form]
               end == [NoJob EXCEPT !.do = "endRuns", !.contact = c]
    <3>1. opt.do = "optPerson" /\ end.do = "endRuns" /\ (Begin(p, opt) \/ Begin(p, end))
      BY <1>3 DEF OptOut, NoJob
    <3> HIDE DEF opt, end
    <3> QED BY <3>1
  <2> QED BY <1>1, <1>3, <2>1, SamePersons DEF OptOut, Moving
<1>4. ASSUME NEW c \in Contacts, NEW byRetention, Remove(p, c, byRetention) \/ Erase(p, c) PROVE ClaimInv'
  <2> DEFINE j == [NoJob EXCEPT !.do = "endRuns", !.contact = c]
  <2>1. j.do = "endRuns" /\ Begin(p, j)
    BY <1>4 DEF Remove, Erase, NoJob
  <2> HIDE DEF j
  <2> QED BY <1>1, <1>4, <2>1, SamePersons DEF Remove, Erase, Moving
<1>5. ASSUME NEW k \in Items, UndoCheck(p, k) PROVE ClaimInv'
  <2>1. PICK j : Begin(p, j) /\ j.do = "undoClaim"
    <3> DEFINE i == IF ~item[k].attach /\ Live(item[k].person) THEN item[k].person ELSE Nil
               undo == [NoJob EXCEPT !.do = "undoClaim", !.item = k, !.contact = item[k].contact, !.person = i]
    <3>1. Begin(p, undo)
      BY <1>5 DEF UndoCheck
    <3>2. undo.do = "undoClaim"
      BY DEF NoJob
    <3> HIDE DEF undo
    <3> QED BY <3>1, <3>2
  <2> QED BY <1>1, <1>5, <2>1, SamePersons DEF UndoCheck, Moving
<1>6. ASSUME NEW i \in Persons, NEW form, OptOutPerson(p, i, form) PROVE ClaimInv'
  <2> DEFINE j == [NoJob EXCEPT !.do = "sweep", !.person = i]
  <2>1. j.do = "sweep" /\ Begin(p, j)
    BY <1>6 DEF OptOutPerson, NoJob
  <2> HIDE DEF j
  <2> QED BY <1>1, <1>6, <2>1, PersonOptsOutNobody DEF OptOutPerson, Moving
<1> QED BY <1>2, <1>3, <1>4, <1>5, <1>6, TakeClaims DEF Requests

LEMMA OthersClaims ==
  ASSUME CInv, ClaimInv, UNCHANGED <<item, job, outlived>>, NobodyNew
  PROVE  ClaimInv'
BY Quiet

LEMMA InitClaims == Init => ClaimInv
<1> SUFFICES ASSUME Init PROVE ClaimInv
  OBVIOUS
<1>1. \A p \in Procs : job[p].do = "idle"
  BY DEF Init, NoJob
<1>2. \A c \in Contacts : Earlier(c) = {}
  BY NilIsNobody DEF Init, Earlier
<1>3. OneInFlight
  BY DEF Init, OneInFlight, Flies, NoItem, InFlightStates
<1>4. \A p \in Procs : ~ Working(p) /\ InPlace(p)
  BY <1>1 DEF Working, InPlace, Moving
<1> QED BY <1>1, <1>2, <1>3, <1>4 DEF ClaimInv, ClaimsFit, FoundNoOther

LEMMA ClaimsInductive == CInv /\ ClaimInv /\ [Next]_vars => ClaimInv'
<1> SUFFICES ASSUME CInv, ClaimInv, [Next]_vars PROVE ClaimInv'
  OBVIOUS
<1>1. ASSUME NEW p \in Procs, MoveStep(p) PROVE ClaimInv'
  BY <1>1, QueueItemClaims, RecheckClaims, FindChosenClaims, FindOursClaims, CreateClaims, CrmFailsClaims,
     StorePersonClaims, CompleteLocallyClaims, TellCrmClaims, FinishNotesClaims DEF MoveStep
<1>2. ASSUME NEW p \in Procs, UndoStep(p) PROVE ClaimInv'
  BY <1>2, UndoClaimClaims, DeletePersonClaims, DeleteFailsClaims, RestoreLocallyClaims DEF UndoStep
<1>3. ASSUME NEW c \in Contacts, Lift(c) \/ StartCampaign(c) PROVE ClaimInv'
  BY <1>3, SamePersons, OthersClaims DEF Lift, StartCampaign
<1>4. ASSUME NEW i \in Persons, CrmCampaign(i) \/ DeletedInCrm(i) \/ LiftPerson(i) PROVE ClaimInv'
  <2>1. \A n \in Persons : /\ person'[n].of = person[n].of /\ person'[n].twin = person[n].twin
                           /\ person'[n].live = "live" => person[n].live = "live"
    <3>1. person \in [Persons -> PersonRow]
      BY DEF CInv, TypeOK
    <3>2. CASE CrmCampaign(i)
      BY <3>1, <3>2 DEF CrmCampaign, PersonRow
    <3>3. CASE DeletedInCrm(i)
      BY <3>1, <3>3 DEF DeletedInCrm, Deleted, PersonRow
    <3>4. CASE LiftPerson(i)
      BY <3>1, <3>4 DEF LiftPerson, PersonRow
    <3> QED BY <1>4, <3>2, <3>3, <3>4
  <2> QED BY <1>4, <2>1, NobodyAppears, OthersClaims DEF CrmCampaign, DeletedInCrm, LiftPerson
<1>5. CASE UNCHANGED vars
  BY <1>5, SamePersons, OthersClaims DEF vars
<1> QED BY <1>1, <1>2, <1>3, <1>4, <1>5, AfterSteps, RequestsClaims, FirstAnswerLostClaims,
     CreateTimesOutClaims, ItemSteps DEF Next, JobStep

(* A contact has one person in the CRM, or the two that one call created   *)
(* when it was sent again; no move retried, taken over or made anew adds   *)
(* another, while claims are not outlived.                                 *)
THEOREM OnePersonEach == Spec => []OnePersonPerContact
<1>1. ClaimInv => OnePersonPerContact
  BY DEF ClaimInv, ClaimsFit, OnePersonPerContact, Earlier, Live
<1>2. CInv /\ ClaimInv /\ [Next]_vars => (CInv /\ ClaimInv)'
  BY Inductive, ClaimsInductive
<1>3. Init => CInv /\ ClaimInv
  BY InitHolds, InitClaims
<1> QED BY <1>1, <1>2, <1>3, PTL DEF Spec

-----------------------------------------------------------------------------
(* ColdContact implements ContactLife.  What ContactLife sees of a row.    *)
Form(r) == r.opted /\ r.byForm
Same(r, s) == /\ r.status = s.status /\ r.person = s.person
              /\ (r.opted <=> s.opted) /\ (Form(r) <=> Form(s))

(* What a step may make of the row r of a contact.                         *)
RowMoves(r, s)   == /\ r.status = "ACTIVE" /\ ~ r.opted /\ ~ s.opted
                    /\ s.status = "MOVED" /\ s.person \in Persons /\ LinkedTo(s.person) = {}
RowReturns(r, s) == /\ r.status = "MOVED" /\ s.person = Nil
                    /\ (r.opted <=> s.opted) /\ (Form(r) <=> Form(s))
                    /\ s.status = IF r.opted THEN "OPTED_OUT" ELSE "ACTIVE"
RowStops(r, s)   == /\ ~ r.opted /\ s.opted /\ s.person = r.person
                    /\ s.status = IF r.status = "MOVED" THEN "MOVED" ELSE "OPTED_OUT"
RowLifts(r, s)   == /\ Form(r) /\ ~ s.opted /\ s.person = r.person
                    /\ s.status = IF r.status = "OPTED_OUT" THEN "ACTIVE" ELSE r.status
RowRemoves(r, s) == /\ r.status = "ACTIVE" /\ ~ r.opted /\ ~ s.opted /\ s.person = r.person
                    /\ s.status = "REMOVED"
RowLives(r, s)   == RowMoves(r, s) \/ RowReturns(r, s) \/ RowStops(r, s) \/ RowLifts(r, s) \/ RowRemoves(r, s)

OthersSame(c) == \A d \in Contacts : d # c => Same(contact[d], contact'[d])
NobodyLives == \A d \in Contacts : Same(contact[d], contact'[d])
OneLives(c) == OthersSame(c) /\ RowLives(contact[c], contact'[c])
Lives == NobodyLives \/ \E c \in Contacts : OneLives(c)

(* Who is opted out, or removed, and that a person is one contact.         *)
LinksFit == /\ \A c \in Contacts : /\ contact[c].status = "OPTED_OUT" => contact[c].opted
                                   /\ contact[c].status = "REMOVED" => ~ contact[c].opted
            /\ \A c, d \in Contacts : contact[c].person = contact[d].person /\ contact[c].person # Nil => c = d

-----------------------------------------------------------------------------
LEMMA LinksKept ==
  ASSUME CInv, LinksFit, Lives
  PROVE  LinksFit'
<1>1. ASSUME NEW c \in Contacts
      PROVE  /\ contact'[c].status = "OPTED_OUT" => contact'[c].opted
             /\ contact'[c].status = "REMOVED" => ~ contact'[c].opted
  <2>1. Same(contact[c], contact'[c]) \/ RowLives(contact[c], contact'[c])
    BY DEF Lives, NobodyLives, OneLives, OthersSame
  <2>2. contact[c] \in ContactRow
    BY DEF CInv, TypeOK
  <2>3. /\ contact[c].status = "OPTED_OUT" => contact[c].opted
        /\ contact[c].status = "REMOVED" => ~ contact[c].opted
    BY DEF LinksFit
  <2>4. CASE Same(contact[c], contact'[c])
    BY <2>3, <2>4 DEF Same
  <2>5. CASE RowMoves(contact[c], contact'[c]) \/ RowReturns(contact[c], contact'[c])
    BY <2>5 DEF RowMoves, RowReturns
  <2>6. CASE RowStops(contact[c], contact'[c]) \/ RowRemoves(contact[c], contact'[c])
    BY <2>6 DEF RowStops, RowRemoves
  <2>7. CASE RowLifts(contact[c], contact'[c])
    BY <2>2, <2>3, <2>7 DEF RowLifts, Form, ContactRow
  <2> QED BY <2>1, <2>4, <2>5, <2>6, <2>7 DEF RowLives
<1>2. ASSUME NEW c \in Contacts, NEW d \in Contacts, contact'[c].person = contact'[d].person, contact'[c].person # Nil
      PROVE  c = d
  <2>1. ASSUME NEW e \in Contacts, contact'[e].person # Nil
        PROVE  \/ contact'[e].person = contact[e].person
               \/ OneLives(e) /\ LinkedTo(contact'[e].person) = {}
    BY <2>1 DEF Lives, NobodyLives, OneLives, OthersSame, Same, RowLives, RowMoves, RowReturns, RowStops, RowLifts, RowRemoves
  <2>2. ASSUME NEW e \in Contacts, NEW f \in Contacts, e # f, OneLives(e), LinkedTo(contact'[e].person) = {},
               contact'[e].person = contact'[f].person
        PROVE  FALSE
    <3>1. contact'[f].person = contact[f].person
      BY <2>2 DEF OneLives, OthersSame, Same
    <3> QED BY <2>2, <3>1 DEF LinkedTo
  <2>3. contact'[c].person = contact[c].person /\ contact'[d].person = contact[d].person => c = d
    BY <1>2 DEF LinksFit
  <2> QED BY <1>2, <2>1, <2>2, <2>3
<1> QED BY <1>1, <1>2 DEF LinksFit

LEMMA NobodyMaps ==
  ASSUME NobodyLives
  PROVE  UNCHANGED Life!lvars
<1>1. [c \in Contacts |-> contact'[c].status] = [c \in Contacts |-> contact[c].status]
      /\ [c \in Contacts |-> contact'[c].person] = [c \in Contacts |-> contact[c].person]
  BY DEF NobodyLives, Same
<1>2. {c \in Contacts : contact'[c].opted} = {c \in Contacts : contact[c].opted}
  BY DEF NobodyLives, Same
<1>3. {c \in Contacts : contact'[c].opted /\ contact'[c].byForm} = {c \in Contacts : contact[c].opted /\ contact[c].byForm}
  BY DEF NobodyLives, Same, Form
<1> QED BY <1>1, <1>2, <1>3 DEF Life!lvars

(* What ContactLife's variables become when one contact's row does.        *)
LEMMA OneMaps ==
  ASSUME NEW c \in Contacts, OthersSame(c)
  PROVE  /\ [d \in Contacts |-> contact'[d].status] = [[d \in Contacts |-> contact[d].status] EXCEPT ![c] = contact'[c].status]
         /\ [d \in Contacts |-> contact'[d].person] = [[d \in Contacts |-> contact[d].person] EXCEPT ![c] = contact'[c].person]
         /\ {d \in Contacts : contact'[d].opted} \ {c} = {d \in Contacts : contact[d].opted} \ {c}
         /\ {d \in Contacts : contact'[d].opted /\ contact'[d].byForm} \ {c}
            = {d \in Contacts : contact[d].opted /\ contact[d].byForm} \ {c}
<1>1. [d \in Contacts |-> contact'[d].status] = [[d \in Contacts |-> contact[d].status] EXCEPT ![c] = contact'[c].status]
  BY DEF OthersSame, Same
<1>2. [d \in Contacts |-> contact'[d].person] = [[d \in Contacts |-> contact[d].person] EXCEPT ![c] = contact'[c].person]
  BY DEF OthersSame, Same
<1>3. {d \in Contacts : contact'[d].opted} \ {c} = {d \in Contacts : contact[d].opted} \ {c}
  BY DEF OthersSame, Same
<1>4. {d \in Contacts : contact'[d].opted /\ contact'[d].byForm} \ {c}
      = {d \in Contacts : contact[d].opted /\ contact[d].byForm} \ {c}
  BY DEF OthersSame, Same, Form
<1> QED BY <1>1, <1>2, <1>3, <1>4

LEMMA LivesMaps ==
  ASSUME NEW c \in Contacts, OneLives(c)
  PROVE  Life!LNext
<1> DEFINE place == [d \in Contacts |-> contact[d].status]
           became == [d \in Contacts |-> contact[d].person]
           stopped == {d \in Contacts : contact[d].opted}
           liftable == {d \in Contacts : contact[d].opted /\ contact[d].byForm}
           r == contact[c]
           s == contact'[c]
<1>1. /\ place' = [place EXCEPT ![c] = s.status] /\ became' = [became EXCEPT ![c] = s.person]
      /\ stopped' \ {c} = stopped \ {c} /\ liftable' \ {c} = liftable \ {c}
  BY OneMaps DEF OneLives
<1>2. /\ place[c] = r.status /\ became[c] = r.person
      /\ c \in stopped <=> r.opted
      /\ c \in liftable <=> Form(r)
      /\ c \in stopped' <=> s.opted
      /\ c \in liftable' <=> Form(s)
  BY DEF Form
<1>3. place \in [Contacts -> {place[d] : d \in Contacts}] /\ became \in [Contacts -> {became[d] : d \in Contacts}]
  OBVIOUS
<1>4. CASE RowMoves(r, s)
  <2>1. \A d \in Contacts : became[d] # s.person
    BY <1>4 DEF RowMoves, LinkedTo
  <2> HIDE DEF place, became, stopped, liftable
  <2>2. s.person \in Persons /\ place[c] = "ACTIVE" /\ c \notin stopped
    BY <1>2, <1>4 DEF RowMoves
  <2>3. stopped' = stopped /\ liftable' = liftable
    BY <1>1, <1>2, <1>4 DEF RowMoves, Form
  <2>4. place' = [place EXCEPT ![c] = "MOVED"]
    BY <1>1, <1>4 DEF RowMoves
  <2>5. PICK i : i = s.person
    OBVIOUS
  <2>6. i \in Persons /\ Life!Move(c, i)
    BY <1>1, <2>1, <2>2, <2>3, <2>4, <2>5 DEF Life!Move, place, became, stopped, liftable
  <2> QED BY <2>6 DEF Life!LNext
<1>5. CASE RowReturns(r, s)
  <2> HIDE DEF place, became, stopped, liftable
  <2>1. stopped' = stopped /\ liftable' = liftable
    BY <1>1, <1>2, <1>5 DEF RowReturns
  <2>2. place' = [place EXCEPT ![c] = IF c \in stopped THEN "OPTED_OUT" ELSE "ACTIVE"]
    BY <1>1, <1>2, <1>5 DEF RowReturns
  <2>3. became' = [became EXCEPT ![c] = Nil] /\ place[c] = "MOVED"
    BY <1>1, <1>2, <1>5 DEF RowReturns
  <2>4. Life!Return(c)
    BY <2>1, <2>2, <2>3 DEF Life!Return, place, became, stopped, liftable
  <2> QED BY <2>4 DEF Life!LNext
<1>6. CASE RowStops(r, s)
  <2> HIDE DEF place, became, stopped, liftable
  <2>1. c \notin stopped /\ c \notin liftable /\ stopped' = stopped \cup {c}
    BY <1>1, <1>2, <1>6 DEF RowStops, Form
  <2>2. liftable' = liftable \/ liftable' = liftable \cup {c}
    BY <1>1, <2>1
  <2>3. place' = [place EXCEPT ![c] = IF place[c] = "MOVED" THEN place[c] ELSE "OPTED_OUT"]
    BY <1>1, <1>2, <1>6 DEF RowStops
  <2>4. became' = became
    BY <1>1, <1>2, <1>3, <1>6 DEF RowStops
  <2>5. Life!Stop(c)
    BY <2>1, <2>2, <2>3, <2>4 DEF Life!Stop, place, became, stopped, liftable
  <2> QED BY <2>5 DEF Life!LNext
<1>7. CASE RowLifts(r, s)
  <2> HIDE DEF place, became, stopped, liftable
  <2>1. c \in liftable /\ stopped' = stopped \ {c} /\ liftable' = liftable \ {c}
    BY <1>1, <1>2, <1>7 DEF RowLifts, Form
  <2>2. place' = [place EXCEPT ![c] = IF place[c] = "OPTED_OUT" THEN "ACTIVE" ELSE place[c]]
    BY <1>1, <1>2, <1>7 DEF RowLifts
  <2>3. became' = became
    BY <1>1, <1>2, <1>3, <1>7 DEF RowLifts
  <2>4. Life!Lift(c)
    BY <2>1, <2>2, <2>3 DEF Life!Lift, place, became, stopped, liftable
  <2> QED BY <2>4 DEF Life!LNext
<1>8. CASE RowRemoves(r, s)
  <2> HIDE DEF place, became, stopped, liftable
  <2>1. place[c] = "ACTIVE" /\ c \notin stopped
    BY <1>2, <1>8 DEF RowRemoves
  <2>2. stopped' = stopped /\ liftable' = liftable
    BY <1>1, <1>2, <1>8 DEF RowRemoves, Form
  <2>3. place' = [place EXCEPT ![c] = "REMOVED"] /\ became' = became
    BY <1>1, <1>2, <1>3, <1>8 DEF RowRemoves
  <2>4. Life!Remove(c)
    BY <2>1, <2>2, <2>3 DEF Life!Remove, place, became, stopped, liftable
  <2> QED BY <2>4 DEF Life!LNext
<1> QED BY <1>4, <1>5, <1>6, <1>7, <1>8 DEF OneLives, RowLives

LEMMA StepMaps == ASSUME Lives PROVE [Life!LNext]_Life!lvars
BY NobodyMaps, LivesMaps DEF Lives

-----------------------------------------------------------------------------
LEMMA ContactsAsTheyWere == ASSUME UNCHANGED contact PROVE Lives
BY DEF Lives, NobodyLives, Same

(* One contact's row is written.                                           *)
LEMMA RowWritten ==
  ASSUME CInv, NEW c \in Contacts, NEW r, contact' = [contact EXCEPT ![c] = r],
         Same(contact[c], r) \/ RowLives(contact[c], r)
  PROVE  Lives
<1>1. contact'[c] = r /\ \A d \in Contacts : d # c => contact'[d] = contact[d]
  BY DEF CInv, TypeOK
<1>2. OthersSame(c)
  BY <1>1 DEF OthersSame, Same
<1>3. CASE Same(contact[c], r)
  BY <1>1, <1>2, <1>3 DEF OthersSame, NobodyLives, Lives
<1>4. CASE RowLives(contact[c], r)
  BY <1>1, <1>2, <1>4 DEF OneLives, Lives
<1> QED BY <1>3, <1>4

LEMMA CompleteLocallyLives == ASSUME CInv, NEW p \in Procs, CompleteLocally(p) PROVE Lives
<1>1. CASE UNCHANGED contact
  BY <1>1, ContactsAsTheyWere
<1>2. CASE /\ StillActive(job[p].contact) /\ LinkedTo(job[p].person) = {}
           /\ contact' = [contact EXCEPT ![job[p].contact].status = "MOVED",
                            ![job[p].contact].person = job[p].person, ![job[p].contact].running = FALSE]
  <2>1. PICK c : c = job[p].contact
    OBVIOUS
  <2>2. PICK i : i = job[p].person
    OBVIOUS
  <2>3. c \in Contacts /\ i \in Persons
    BY <2>1, <2>2, OnItem DEF CompleteLocally, At, Moving, Fits
  <2>4. contact \in [Contacts -> ContactRow] /\ contact[c] \in ContactRow /\ RowFits(contact[c])
    BY <2>3 DEF CInv, TypeOK, ContactsFit
  <2> DEFINE r == [contact[c] EXCEPT !.status = "MOVED", !.person = i, !.running = FALSE]
  <2>5. contact' = [contact EXCEPT ![c] = r]
    BY <1>2, <2>1, <2>2, <2>4 DEF ContactRow
  <2>6. r.status = "MOVED" /\ r.person = i /\ r.opted = contact[c].opted
    BY <2>4 DEF ContactRow
  <2> HIDE DEF r
  <2>7. contact[c].status = "ACTIVE" /\ ~ contact[c].opted /\ LinkedTo(i) = {}
    BY <1>2, <2>1, <2>2, <2>4 DEF StillActive, RowFits
  <2>8. RowMoves(contact[c], r)
    BY <2>3, <2>6, <2>7 DEF RowMoves
  <2> QED BY <2>3, <2>5, <2>8, RowWritten DEF RowLives
<1> QED BY <1>1, <1>2 DEF CompleteLocally

(* The person opts out, and the contact that became them.                  *)
LEMMA PersonStops ==
  ASSUME CInv, LinksFit, NEW i \in Persons, NEW form \in BOOLEAN, OptPersonOut(i, form)
  PROVE  Lives
<1>1. ASSUME NEW c \in Contacts
      PROVE  contact'[c] = IF contact[c].person = i /\ ~contact[c].opted
                             THEN [contact[c] EXCEPT !.opted = TRUE, !.byForm = form] ELSE contact[c]
  BY DEF OptPersonOut
<1>2. CASE \E c \in Contacts : contact[c].person = i /\ ~ contact[c].opted
  <2>1. PICK c \in Contacts : contact[c].person = i /\ ~ contact[c].opted
    BY <1>2
  <2>2. \A d \in Contacts : d # c => contact[d].person # i
    BY <2>1, NilIsNobody DEF LinksFit
  <2>3. OthersSame(c)
    BY <1>1, <2>2 DEF OthersSame, Same
  <2>4. contact[c] \in ContactRow /\ RowFits(contact[c])
    BY DEF CInv, TypeOK, ContactsFit
  <2>5. contact[c].status = "MOVED"
    BY <2>1, <2>4, NilIsNobody DEF RowFits
  <2>6. contact'[c].opted /\ contact'[c].person = contact[c].person /\ contact'[c].status = contact[c].status
    BY <1>1, <2>1, <2>4 DEF ContactRow
  <2>7. RowStops(contact[c], contact'[c])
    BY <2>1, <2>5, <2>6 DEF RowStops
  <2> QED BY <2>3, <2>7 DEF Lives, OneLives, RowLives
<1>3. CASE \A c \in Contacts : ~ (contact[c].person = i /\ ~ contact[c].opted)
  BY <1>1, <1>3 DEF Lives, NobodyLives, Same
<1> QED BY <1>2, <1>3

LEMMA TellCrmLives == ASSUME CInv, LinksFit, NEW p \in Procs, TellCrm(p) PROVE Lives
<1>1. job[p].do = "tellCrm" /\ job[p].do \in Moving
  BY DEF TellCrm, At, Moving
<1>2. job[p].person \in Persons /\ job[p].contact \in Contacts
  BY <1>1, OnItem DEF Fits
<1>3. contact[job[p].contact].byForm \in BOOLEAN
  BY <1>2 DEF CInv, TypeOK, ContactRow
<1> QED BY <1>2, <1>3, PersonStops DEF TellCrm

LEMMA AfterContactLives == ASSUME CInv, LinksFit, NEW p \in Procs, AfterContact(p) PROVE Lives
<1>1. job[p].do = "optPerson" /\ job[p] \in Job /\ Fits(job[p], item)
  BY DEF AfterContact, At, CInv, TypeOK, JobsFit
<1>2. job[p].person \in Persons /\ job[p].form \in BOOLEAN
  BY <1>1 DEF Fits, Job
<1> QED BY <1>2, PersonStops DEF AfterContact

LEMMA RestoreLocallyLives == ASSUME CInv, NEW p \in Procs, RestoreLocally(p) PROVE Lives
<1>1. PICK c : c = job[p].contact
  OBVIOUS
<1>2. c \in Contacts
  BY <1>1, OnItem DEF RestoreLocally, At, Undoing
<1>3. contact \in [Contacts -> ContactRow] /\ contact[c] \in ContactRow
  BY <1>2 DEF CInv, TypeOK
<1>4. CASE UNCHANGED contact
  BY <1>4, ContactsAsTheyWere
<1>5. ASSUME NEW again, contact[c].status = "MOVED",
             contact' = [contact EXCEPT ![c].status = BackAs(c), ![c].person = Nil, ![c].running = again]
      PROVE  Lives
  <2> DEFINE r == [contact[c] EXCEPT !.status = BackAs(c), !.person = Nil, !.running = again]
  <2>1. contact' = [contact EXCEPT ![c] = r]
    BY <1>3, <1>5 DEF ContactRow
  <2>2. r.status = BackAs(c) /\ r.person = Nil /\ r.opted = contact[c].opted /\ r.byForm = contact[c].byForm
    BY <1>3 DEF ContactRow
  <2> HIDE DEF r
  <2>3. RowReturns(contact[c], r)
    BY <1>5, <2>2 DEF RowReturns, BackAs, Form
  <2> QED BY <1>2, <2>1, <2>3, RowWritten DEF RowLives
<1> QED BY <1>1, <1>4, <1>5 DEF RestoreLocally

LEMMA OptOutLives ==
  ASSUME CInv, LinksFit, NEW p \in Procs, NEW c \in Contacts, NEW form \in BOOLEAN, OptOut(p, c, form)
  PROVE  Lives
<1>1. contact \in [Contacts -> ContactRow] /\ contact[c] \in ContactRow /\ RowFits(contact[c])
  BY DEF CInv, TypeOK, ContactsFit
<1>2. CASE /\ contact[c].status = "MOVED"
           /\ contact' = [contact EXCEPT ![c].opted = TRUE, ![c].byForm = IF contact[c].opted THEN @ ELSE form]
  <2> DEFINE r == [contact[c] EXCEPT !.opted = TRUE, !.byForm = IF contact[c].opted THEN contact[c].byForm ELSE form]
  <2>1. contact' = [contact EXCEPT ![c] = r]
    BY <1>1, <1>2 DEF ContactRow
  <2>2. r.status = "MOVED" /\ r.person = contact[c].person /\ r.opted
    BY <1>1, <1>2 DEF ContactRow
  <2>3. contact[c].opted => r.byForm = contact[c].byForm
    BY <1>1 DEF ContactRow
  <2> HIDE DEF r
  <2>4. CASE contact[c].opted
    <3>1. Same(contact[c], r)
      BY <1>2, <2>2, <2>3, <2>4 DEF Same, Form
    <3> QED BY <2>1, <3>1, RowWritten
  <2>5. CASE ~ contact[c].opted
    <3>1. RowStops(contact[c], r)
      BY <1>2, <2>2, <2>5 DEF RowStops
    <3> QED BY <2>1, <3>1, RowWritten DEF RowLives
  <2> QED BY <2>4, <2>5
<1>3. CASE /\ contact[c].status \in {"ACTIVE", "REMOVED"}
           /\ contact' = [contact EXCEPT ![c].status = "OPTED_OUT", ![c].opted = TRUE, ![c].byForm = form]
  <2> DEFINE r == [contact[c] EXCEPT !.status = "OPTED_OUT", !.opted = TRUE, !.byForm = form]
  <2>1. contact' = [contact EXCEPT ![c] = r]
    BY <1>1, <1>3 DEF ContactRow
  <2>2. r.status = "OPTED_OUT" /\ r.person = contact[c].person /\ r.opted
    BY <1>1 DEF ContactRow
  <2> HIDE DEF r
  <2>3. ~ contact[c].opted
    BY <1>1, <1>3 DEF RowFits, LinksFit
  <2>4. RowStops(contact[c], r)
    BY <1>3, <2>2, <2>3 DEF RowStops
  <2> QED BY <2>1, <2>4, RowWritten DEF RowLives
<1> QED BY <1>2, <1>3 DEF OptOut

LEMMA EraseLives ==
  ASSUME CInv, LinksFit, NEW p \in Procs, NEW c \in Contacts, Erase(p, c)
  PROVE  Lives
<1>1. contact \in [Contacts -> ContactRow] /\ contact[c] \in ContactRow /\ RowFits(contact[c])
  BY DEF CInv, TypeOK, ContactsFit
<1> DEFINE r == [contact[c] EXCEPT !.status = "OPTED_OUT", !.opted = TRUE, !.byForm = contact[c].opted /\ contact[c].byForm]
<1>2. contact' = [contact EXCEPT ![c] = r] /\ contact[c].status # "MOVED"
  BY <1>1 DEF Erase, ContactRow
<1>3. r.status = "OPTED_OUT" /\ r.person = contact[c].person /\ r.opted
  BY <1>1 DEF ContactRow
<1>4. r.byForm <=> Form(contact[c])
  BY <1>1 DEF ContactRow, Form
<1> HIDE DEF r
<1>5. CASE contact[c].opted
  <2>1. contact[c].status = "OPTED_OUT"
    BY <1>1, <1>2, <1>5 DEF ContactRow, RowFits, LinksFit
  <2>2. Same(contact[c], r)
    BY <1>3, <1>4, <1>5, <2>1 DEF Same, Form
  <2> QED BY <1>2, <2>2, RowWritten
<1>6. CASE ~ contact[c].opted
  <2>1. RowStops(contact[c], r)
    BY <1>2, <1>3, <1>6 DEF RowStops
  <2> QED BY <1>2, <2>1, RowWritten DEF RowLives
<1> QED BY <1>5, <1>6

LEMMA RemoveLives ==
  ASSUME CInv, NEW p \in Procs, NEW c \in Contacts, NEW byRetention \in BOOLEAN, Remove(p, c, byRetention)
  PROVE  Lives
<1> DEFINE r == [contact[c] EXCEPT !.status = "REMOVED"]
<1>1. contact \in [Contacts -> ContactRow] /\ contact[c] \in ContactRow
  BY DEF CInv, TypeOK
<1>2. contact' = [contact EXCEPT ![c] = r] /\ contact[c].status = "ACTIVE" /\ ~ contact[c].opted
  BY <1>1 DEF Remove, ContactRow
<1>3. r.status = "REMOVED" /\ r.person = contact[c].person /\ r.opted = contact[c].opted
  BY <1>1 DEF ContactRow
<1> HIDE DEF r
<1>4. RowRemoves(contact[c], r)
  BY <1>2, <1>3 DEF RowRemoves
<1> QED BY <1>2, <1>4, RowWritten DEF RowLives

LEMMA LiftLives == ASSUME CInv, LinksFit, NEW c \in Contacts, Lift(c) PROVE Lives
<1> DEFINE r == [contact[c] EXCEPT !.status = "ACTIVE", !.opted = FALSE, !.byForm = FALSE]
<1>1. contact \in [Contacts -> ContactRow] /\ contact[c] \in ContactRow
  BY DEF CInv, TypeOK
<1>2. contact' = [contact EXCEPT ![c] = r] /\ contact[c].status = "OPTED_OUT" /\ contact[c].byForm
  BY <1>1 DEF Lift, ContactRow
<1>3. r.status = "ACTIVE" /\ r.person = contact[c].person /\ ~ r.opted
  BY <1>1 DEF ContactRow
<1> HIDE DEF r
<1>4. contact[c].opted
  BY <1>2 DEF LinksFit
<1>5. RowLifts(contact[c], r)
  BY <1>2, <1>3, <1>4 DEF RowLifts, Form
<1> QED BY <1>2, <1>5, RowWritten DEF RowLives

LEMMA LiftPersonLives == ASSUME CInv, LinksFit, NEW i \in Persons, LiftPerson(i) PROVE Lives
<1>1. ASSUME NEW c \in Contacts
      PROVE  contact'[c] = IF contact[c].person = i /\ contact[c].byForm
                             THEN [contact[c] EXCEPT !.opted = FALSE, !.byForm = FALSE] ELSE contact[c]
  BY DEF LiftPerson
<1>2. ASSUME NEW c \in Contacts, contact[c].person = i, contact[c].byForm
      PROVE  /\ contact[c].status = "MOVED"
             /\ contact'[c].status = contact[c].status /\ contact'[c].person = contact[c].person
             /\ ~ contact'[c].opted
  <2>1. contact[c] \in ContactRow /\ RowFits(contact[c])
    BY DEF CInv, TypeOK, ContactsFit
  <2>2. contact[c].status = "MOVED"
    BY <1>2, <2>1, NilIsNobody DEF RowFits
  <2>3. contact'[c] = [contact[c] EXCEPT !.opted = FALSE, !.byForm = FALSE]
    BY <1>1, <1>2
  <2> QED BY <2>1, <2>2, <2>3 DEF ContactRow
<1>3. CASE \E c \in Contacts : contact[c].person = i /\ Form(contact[c])
  <2>1. PICK c \in Contacts : contact[c].person = i /\ Form(contact[c])
    BY <1>3
  <2>2. \A d \in Contacts : d # c => contact[d].person # i
    BY <2>1, NilIsNobody DEF LinksFit
  <2>3. OthersSame(c)
    BY <1>1, <2>2 DEF OthersSame, Same
  <2>4. RowLifts(contact[c], contact'[c])
    BY <1>2, <2>1 DEF RowLifts, Form
  <2> QED BY <2>3, <2>4 DEF Lives, OneLives, RowLives
<1>4. CASE \A c \in Contacts : ~ (contact[c].person = i /\ Form(contact[c]))
  <2>1. ASSUME NEW c \in Contacts PROVE Same(contact[c], contact'[c])
    <3>1. CASE contact[c].person = i /\ contact[c].byForm
      <4>1. ~ contact[c].opted
        BY <1>4, <3>1 DEF Form
      <4> QED BY <1>2, <3>1, <4>1 DEF Same, Form
    <3>2. CASE ~ (contact[c].person = i /\ contact[c].byForm)
      BY <1>1, <3>2 DEF Same
    <3> QED BY <3>1, <3>2
  <2> QED BY <2>1 DEF Lives, NobodyLives
<1> QED BY <1>3, <1>4

LEMMA EndRunsLives == ASSUME CInv, NEW p \in Procs, EndRuns(p) PROVE Lives
<1>1. PICK c : c = job[p].contact
  OBVIOUS
<1>2. c \in Contacts
  BY <1>1 DEF EndRuns, At, CInv, JobsFit, Fits
<1>3. contact \in [Contacts -> ContactRow] /\ contact[c] \in ContactRow
  BY <1>2 DEF CInv, TypeOK
<1> DEFINE r == [contact[c] EXCEPT !.running = FALSE]
<1>4. contact' = [contact EXCEPT ![c] = r]
  BY <1>1, <1>3 DEF EndRuns, ContactRow
<1>5. Same(contact[c], r)
  BY <1>3 DEF ContactRow, Same, Form
<1> HIDE DEF r
<1> QED BY <1>2, <1>4, <1>5, RowWritten

LEMMA StartCampaignLives == ASSUME CInv, NEW c \in Contacts, StartCampaign(c) PROVE Lives
<1> DEFINE r == [contact[c] EXCEPT !.running = TRUE]
<1>1. contact \in [Contacts -> ContactRow] /\ contact[c] \in ContactRow
  BY DEF CInv, TypeOK
<1>2. contact' = [contact EXCEPT ![c] = r]
  BY <1>1 DEF StartCampaign, ContactRow
<1>3. Same(contact[c], r)
  BY <1>1 DEF ContactRow, Same, Form
<1> HIDE DEF r
<1> QED BY <1>2, <1>3, RowWritten

LEMMA SweepLives == ASSUME CInv, NEW p \in Procs, Sweep(p) PROVE Lives
<1>1. CASE UNCHANGED contact
  BY <1>1, ContactsAsTheyWere
<1>2. ASSUME NEW c \in Contacts, contact[c].status = "ACTIVE",
             contact' = [contact EXCEPT ![c].status = "OPTED_OUT", ![c].opted = TRUE, ![c].byForm = FALSE]
      PROVE  Lives
  <2> DEFINE r == [contact[c] EXCEPT !.status = "OPTED_OUT", !.opted = TRUE, !.byForm = FALSE]
  <2>1. contact \in [Contacts -> ContactRow] /\ contact[c] \in ContactRow /\ RowFits(contact[c])
    BY DEF CInv, TypeOK, ContactsFit
  <2>2. contact' = [contact EXCEPT ![c] = r]
    BY <1>2, <2>1 DEF ContactRow
  <2>3. r.status = "OPTED_OUT" /\ r.person = contact[c].person /\ r.opted
    BY <2>1 DEF ContactRow
  <2> HIDE DEF r
  <2>4. RowStops(contact[c], r)
    BY <1>2, <2>1, <2>3 DEF RowStops, RowFits
  <2> QED BY <2>2, <2>4, RowWritten DEF RowLives
<1> QED BY <1>1, <1>2 DEF Sweep

LEMMA NextLives == ASSUME CInv, LinksFit, [Next]_vars PROVE Lives
<1>1. ASSUME NEW p \in Procs, MoveStep(p) PROVE Lives
  <2>1. CASE CompleteLocally(p) \/ TellCrm(p)
    BY <2>1, CompleteLocallyLives, TellCrmLives
  <2>2. CASE UNCHANGED contact
    BY <2>2, ContactsAsTheyWere
  <2> QED BY <1>1, <2>1, <2>2 DEF MoveStep, QueueItem, Recheck, FindChosen, FindOurs, CreatePerson,
        CrmFails, StorePerson, FinishNotes
<1>2. ASSUME NEW p \in Procs, UndoStep(p) PROVE Lives
  <2>1. CASE UNCHANGED contact
    BY <2>1, ContactsAsTheyWere
  <2> QED BY <1>2, <2>1, RestoreLocallyLives DEF UndoStep, UndoClaim, DeletePerson, DeleteFails
<1>3. ASSUME NEW p \in Procs, AfterStep(p) PROVE Lives
  BY <1>3, EndRunsLives, AfterContactLives, SweepLives DEF AfterStep
<1>4. ASSUME NEW p \in Procs, FirstAnswerLost(p) \/ CreateTimesOut(p) \/ Crash(p) PROVE Lives
  BY <1>4, ContactsAsTheyWere DEF FirstAnswerLost, CreateTimesOut, Crash
<1>5. ASSUME NEW p \in Procs, Requests(p) PROVE Lives
  <2>1. ASSUME NEW c \in Contacts, NEW target \in Refs(Persons), Preflight(p, c, target) PROVE Lives
    BY <2>1, ContactsAsTheyWere DEF Preflight
  <2>2. ASSUME NEW k \in Items, Take(p, k) \/ UndoCheck(p, k) PROVE Lives
    BY <2>2, ContactsAsTheyWere DEF Take, UndoCheck
  <2>3. ASSUME NEW i \in Persons, NEW form \in BOOLEAN, OptOutPerson(p, i, form) PROVE Lives
    BY <2>3, PersonStops DEF OptOutPerson
  <2> QED BY <1>5, <2>1, <2>2, <2>3, OptOutLives, RemoveLives, EraseLives DEF Requests
<1>6. ASSUME NEW k \in Items, ClaimGoesStale(k) \/ Retry(k) \/ FinishPartial(k) PROVE Lives
  BY <1>6, ContactsAsTheyWere DEF ClaimGoesStale, Retry, FinishPartial
<1>7. ASSUME NEW c \in Contacts, Lift(c) \/ StartCampaign(c) PROVE Lives
  BY <1>7, LiftLives, StartCampaignLives
<1>8. ASSUME NEW i \in Persons, CrmCampaign(i) \/ DeletedInCrm(i) \/ LiftPerson(i) PROVE Lives
  BY <1>8, ContactsAsTheyWere, LiftPersonLives DEF CrmCampaign, DeletedInCrm
<1>9. CASE UNCHANGED vars
  BY <1>9, ContactsAsTheyWere DEF vars
<1> QED BY <1>1, <1>2, <1>3, <1>4, <1>5, <1>6, <1>7, <1>8, <1>9 DEF Next, JobStep

LEMMA InitMaps == Init => Life!LInit /\ LinksFit
<1> SUFFICES ASSUME Init PROVE Life!LInit /\ LinksFit
  OBVIOUS
<1>1. \A c \in Contacts : /\ contact[c].status = "ACTIVE" /\ contact[c].person = Nil
                          /\ ~ contact[c].opted
  BY DEF Init
<1> QED BY <1>1 DEF Life!LInit, LinksFit

(* Moves, undos, opt-outs and lifts, whoever made them where and however   *)
(* they cross, retry or die, change a contact only as ContactLife says.    *)
THEOREM ContactsLiveAsPromised == Spec => LivesAsPromised
<1>1. Init => CInv /\ LinksFit /\ Life!LInit
  BY InitHolds, InitMaps
<1>2. CInv /\ LinksFit /\ [Next]_vars => (CInv /\ LinksFit)' /\ [Life!LNext]_Life!lvars
  BY Inductive, NextLives, LinksKept, StepMaps
<1> QED BY <1>1, <1>2, PTL DEF Spec, LivesAsPromised, Life!Spec
=============================================================================
