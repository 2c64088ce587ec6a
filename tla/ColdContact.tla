---------------------------- MODULE ColdContact ----------------------------
(***************************************************************************)
(* The life of a cold contact: its states and the transitions between them *)
(* (outreach/transitions.ts), and Move to CRM with its queue, its retries  *)
(* and its undo (sandbox/move.ts), which cross a CRM that may time out and *)
(* processes that may die.                                                 *)
(*                                                                         *)
(* Every write to a contact is one transaction under its row lock          *)
(* (withSubjectLock), hence one step here.  Around those steps a move      *)
(* calls Twenty with no lock held: its process's job says where it is.     *)
(***************************************************************************)
EXTENDS Naturals

CONSTANTS
  Procs,        \* the dialog's requests, and the worker
  Contacts,     \* SandboxContact rows
  Nil,
  Acts,         \* bound: what people ask of contacts in this instance (guard.ts, Act)
  Existing,     \* people the CRM has from the start
  MaxPersons,   \* bound: people the CRM ever has
  MaxItems,     \* bound: SandboxMoveItem rows
  MaxMishaps    \* bound: time-outs, crashes and claims outlived

Persons == 1 .. MaxPersons
Items   == 1 .. MaxItems
Refs(S) == S \cup {Nil}

ASSUME ColdContactAssumption ==
  /\ MaxPersons \in Nat /\ MaxItems \in Nat /\ MaxMishaps \in Nat
  /\ Acts \subseteq {"move", "undo", "opt_out", "lift_opt_out", "remove", "erase", "enroll"}
  /\ Existing \subseteq Persons
  /\ Nil \notin Persons \cup Contacts \cup Items

ItemStates == {"NONE", "QUEUED", "RUNNING", "DONE", "FAILED", "UNDOING", "UNDONE", "UNDO_PARTIAL"}
InFlightStates == {"QUEUED", "RUNNING"}

VARIABLES
  contact,   \* contact -> [status, opted (optedOutAt), byForm (optOutSource), 
             \*             person (twentyPersonId), running (in a cold campaign)]
  person,    \* CRM person -> [of (cadenceSandboxId), live, optedOut, byForm, busy (in a CRM
             \*                campaign), twin (history: whom the same call had created already)]
  item,      \* move item -> [state, contact, attach, target, person, overdue, permanent, exited]
  job,       \* process -> [do, item, contact, person, form]
  mishaps,
  outlived   \* some process went on working after its claim had gone stale

vars == <<contact, person, item, job, mishaps, outlived>>

ContactRow == [status : {"ACTIVE", "MOVED", "OPTED_OUT", "REMOVED"}, opted : BOOLEAN,
               byForm : BOOLEAN, person : Refs(Persons), running : BOOLEAN]
PersonRow  == [of : Refs(Contacts), live : {"absent", "live", "deleted"}, optedOut : BOOLEAN,
               byForm : BOOLEAN, busy : BOOLEAN, twin : Refs(Persons)]
ItemRow    == [state : ItemStates, contact : Refs(Contacts), attach : BOOLEAN,
               target : Refs(Persons), person : Refs(Persons), overdue : BOOLEAN,
               permanent : BOOLEAN, exited : BOOLEAN]
Job == [do : {"idle", "queue", "check", "find", "create", "createAgain", "store", "complete", "tellCrm", "notes",
              "undoClaim", "undoPerson", "undoLocal", "endRuns", "optPerson", "sweep"},
        item : Refs(Items), contact : Refs(Contacts), person : Refs(Persons), form : BOOLEAN]

NoItem == [state |-> "NONE", contact |-> Nil, attach |-> FALSE, target |-> Nil, person |-> Nil,
           overdue |-> FALSE, permanent |-> FALSE, exited |-> FALSE]
NoJob  == [do |-> "idle", item |-> Nil, contact |-> Nil, person |-> Nil, form |-> FALSE]

Init ==
  /\ contact = [c \in Contacts |-> [status |-> "ACTIVE", opted |-> FALSE, byForm |-> FALSE,
                                    person |-> Nil, running |-> FALSE]]
  /\ person = [i \in Persons |-> [of |-> Nil, live |-> IF i \in Existing THEN "live" ELSE "absent",
                                  optedOut |-> FALSE, byForm |-> FALSE, busy |-> FALSE,
                                  twin |-> Nil]]
  /\ item = [k \in Items |-> NoItem]
  /\ job = [p \in Procs |-> NoJob]
  /\ mishaps = 0 /\ outlived = FALSE

-----------------------------------------------------------------------------

Idle(p) == job[p] = NoJob
At(p, step) == job[p].do = step
Go(p, step) == job' = [job EXCEPT ![p].do = step]
Begin(p, j) == Idle(p) /\ job' = [job EXCEPT ![p] = j]
End(p)      == job' = [job EXCEPT ![p] = NoJob]
Mishap == mishaps < MaxMishaps /\ mishaps' = mishaps + 1

InFlight(c) == \E k \in Items : item[k].contact = c /\ item[k].state \in InFlightStates
Live(i) == i # Nil /\ person[i].live = "live"

LinkedTo(i) == {c \in Contacts : contact[c].person = i}

(* Whom the CRM may have for this contact: contactable, and nobody else's. *)
Attachable(c) == {i \in Persons : Live(i) /\ ~person[i].optedOut /\ LinkedTo(i) \subseteq {c}}

(* fail: the item is written by id, whatever it is by then. *)
Fail(p, permanent) ==
  /\ item' = [item EXCEPT ![job[p].item].state = "FAILED", ![job[p].item].permanent = permanent]
  /\ End(p)

-----------------------------------------------------------------------------
(* Queue: the dialog's preflight, then, later, the rows.  The database     *)
(* keeps one move in flight per contact.                                   *)

Preflight(p, c, target) ==
  /\ "move" \in Acts
  /\ contact[c].status = "ACTIVE" /\ ~InFlight(c)
  /\ target \in Refs(Attachable(c))
  /\ Begin(p, [NoJob EXCEPT !.do = "queue", !.contact = c, !.person = target])
  /\ UNCHANGED <<contact, person, item, mishaps, outlived>>

QueueItem(p) ==
  /\ At(p, "queue")
  /\ \/ /\ ~InFlight(job[p].contact)
        /\ \E k \in Items :
             /\ item[k].state = "NONE" /\ \A n \in Items : n < k => item[n].state # "NONE"
             /\ item' = [item EXCEPT ![k] = [NoItem EXCEPT !.state = "QUEUED",
                           !.contact = job[p].contact, !.attach = job[p].person # Nil,
                           !.target = job[p].person]]
     \/ InFlight(job[p].contact) /\ UNCHANGED item
  /\ End(p)
  /\ UNCHANGED <<contact, person, mishaps, outlived>>

(* Mutation: an item left running by a dead process is never taken back. *)
TakableQueued(k) == item[k].state = "QUEUED"

Takable(k) == item[k].state = "QUEUED" \/ (item[k].state = "RUNNING" /\ item[k].overdue)

Take(p, k) ==
  /\ Takable(k)
  /\ item' = [item EXCEPT ![k].state = "RUNNING", ![k].overdue = FALSE]
  /\ Begin(p, [NoJob EXCEPT !.do = "check", !.item = k, !.contact = item[k].contact])
  /\ UNCHANGED <<contact, person, mishaps, outlived>>

Held(k) == \E p \in Procs : job[p].item = k

(* Ten minutes pass since the claim. *)
ClaimGoesStale(k) ==
  /\ item[k].state = "RUNNING" /\ ~item[k].overdue
  /\ item' = [item EXCEPT ![k].overdue = TRUE]
  /\ IF Held(k) THEN Mishap /\ outlived' = TRUE ELSE UNCHANGED <<mishaps, outlived>>
  /\ UNCHANGED <<contact, person, job>>

-----------------------------------------------------------------------------
(* processMoveItem *)

(* The checks again; a contact this item has already moved only lacks its  *)
(* notes.  Its owner may have left, its keys may be suppressed.            *)
Recheck(p) ==
  LET k == job[p].item
      c == contact[job[p].contact]
  IN /\ At(p, "check")
     /\ \/ /\ c.status = "MOVED" /\ item[k].person # Nil /\ c.person = item[k].person
           /\ job' = [job EXCEPT ![p].do = "notes", ![p].person = item[k].person]
           /\ UNCHANGED item
        \/ /\ c.status = "ACTIVE"
           /\ Go(p, "find") /\ UNCHANGED item
        \/ /\ ~(c.status = "MOVED" /\ item[k].person # Nil /\ c.person = item[k].person)
           /\ Fail(p, TRUE)
     /\ UNCHANGED <<contact, person, mishaps, outlived>>

Use(p, i, step) == job' = [job EXCEPT ![p].do = step, ![p].person = i]

(* Attach mode: the person chosen in the dialog; once they are gone, whom  *)
(* the CRM has now, or else the move creates one.  Never one opted out, or *)
(* another contact's.                                                      *)
FindChosen(p) ==
  LET k == job[p].item
      chosen == item[k].target
      whom == Attachable(job[p].contact)
  IN /\ At(p, "find") /\ item[k].attach
     /\ \/ /\ Live(chosen) /\ chosen \notin whom
           /\ Fail(p, TRUE)
        \/ \E i \in whom :
             /\ Live(chosen) => i = chosen
             /\ Use(p, i, "store") /\ item' = [item EXCEPT ![k].target = i]
        \/ /\ ~Live(chosen)
           /\ item' = [item EXCEPT ![k].attach = FALSE, ![k].target = Nil] /\ UNCHANGED job
     /\ UNCHANGED <<contact, person, mishaps, outlived>>

(* Mutation: a retry does not look for the person it may have created. *)
NobodyEarlier(c) == {}

(* The person an earlier attempt created, known by the contact's id. *)
Earlier(c) == {i \in Persons : person[i].of = c /\ person[i].live = "live"}

FindOurs(p) ==
  LET k == job[p].item
      earlier == Earlier(job[p].contact)
  IN /\ At(p, "find") /\ ~item[k].attach
     /\ \/ item[k].person # Nil /\ Use(p, item[k].person, "store")
        \/ item[k].person = Nil /\ \E i \in earlier : Use(p, i, "store")
        \/ item[k].person = Nil /\ earlier = {} /\ Go(p, "create")
     /\ UNCHANGED <<contact, person, item, mishaps, outlived>>

(* The Twenty client sends a request whose answer it lost once more, a     *)
(* mutation like a query: one call may create two persons.                 *)
Creating == {"create", "createAgain"}

NextPerson(i) == person[i].live = "absent" /\ \A j \in Persons : j < i => person[j].live # "absent"
Created(p, i) == person' = [person EXCEPT ![i] = [of |-> job[p].contact, live |-> "live",
                                                  optedOut |-> FALSE, byForm |-> FALSE, busy |-> FALSE,
                                                  twin |-> IF At(p, "createAgain") THEN job[p].person
                                                                                   ELSE Nil]]

CreatePerson(p) ==
  /\ job[p].do \in Creating
  /\ \E i \in Persons : NextPerson(i) /\ Created(p, i) /\ Use(p, i, "store")
  /\ UNCHANGED <<contact, item, mishaps, outlived>>

(* The first attempt took, and its answer was lost (a time-out, a dropped  *)
(* connection, a 5xx).                                                     *)
FirstAnswerLost(p) ==
  /\ At(p, "create") /\ Mishap
  /\ \E i \in Persons : NextPerson(i) /\ Created(p, i) /\ Use(p, i, "createAgain")
  /\ UNCHANGED <<contact, item, outlived>>

(* So was the last one's: the move fails, the person is there.             *)
CreateTimesOut(p) ==
  /\ job[p].do \in Creating /\ Mishap
  /\ \E i \in Persons : NextPerson(i) /\ Created(p, i)
  /\ Fail(p, FALSE)
  /\ UNCHANGED <<contact, outlived>>

(* Twenty does not answer, or what it says rules the move out for good. *)
CrmFails(p) ==
  /\ At(p, "find") \/ job[p].do \in Creating
  /\ \E permanent \in BOOLEAN : Fail(p, permanent)
  /\ UNCHANGED <<contact, person, mishaps, outlived>>

StorePerson(p) ==
  /\ At(p, "store")
  /\ item' = [item EXCEPT ![job[p].item].person = job[p].person]
  /\ Go(p, "complete")
  /\ UNCHANGED <<contact, person, mishaps, outlived>>

(* Mutation: the contact is moved whatever it has become meanwhile. *)
StillHere(c) == contact[c].status # "MOVED"

(* The conditional update of completeLocally. *)
StillActive(c) == contact[c].status = "ACTIVE"

(* completeLocally: the contact moves only if it is still active and, by   *)
(* the unique index on twentyPersonId, the person is nobody else's; one    *)
(* that opted out meanwhile opts the person out too.                       *)
CompleteLocally(p) ==
  LET k == job[p].item
      c == job[p].contact
      i == job[p].person
  IN /\ At(p, "complete")
     /\ \/ /\ StillActive(c) /\ LinkedTo(i) = {}
           /\ contact' = [contact EXCEPT ![c].status = "MOVED", ![c].person = i, ![c].running = FALSE]
           /\ item' = [item EXCEPT ![k].exited = contact[c].running]
           /\ Go(p, "notes")
        \/ /\ StillActive(c) /\ LinkedTo(i) # {}
           /\ Fail(p, TRUE) /\ UNCHANGED contact
        \/ /\ ~StillActive(c) /\ contact[c].opted
           /\ Go(p, "tellCrm") /\ UNCHANGED <<contact, item>>
        \/ /\ ~StillActive(c) /\ ~contact[c].opted
           /\ Fail(p, TRUE) /\ UNCHANGED contact
     /\ UNCHANGED <<person, mishaps, outlived>>

(* optOutPerson: the person, and the contact that became them. *)
OptPersonOut(i, form) ==
  /\ person' = [person EXCEPT ![i].optedOut = TRUE,
                              ![i].byForm = IF person[i].optedOut THEN @ ELSE form]
  /\ contact' = [c \in Contacts |-> IF contact[c].person = i /\ ~contact[c].opted
                                      THEN [contact[c] EXCEPT !.opted = TRUE, !.byForm = form]
                                      ELSE contact[c]]

TellCrm(p) ==
  /\ At(p, "tellCrm")
  /\ OptPersonOut(job[p].person, contact[job[p].contact].byForm)
  /\ Fail(p, TRUE)
  /\ UNCHANGED <<mishaps, outlived>>

FinishNotes(p) ==
  /\ At(p, "notes")
  /\ item' = [item EXCEPT ![job[p].item].state = "DONE"]
  /\ End(p)
  /\ UNCHANGED <<contact, person, mishaps, outlived>>

(* Retry runs the checks again: one the CRM has gained since goes to that  *)
(* person; one that cannot move now, or that another move holds, is marked *)
(* permanent.                                                              *)
Retry(k) ==
  LET c == item[k].contact
      free == contact[c].status = "ACTIVE" /\ ~InFlight(c)
  IN /\ item[k].state = "FAILED" /\ ~item[k].permanent
     /\ \/ free /\ item' = [item EXCEPT ![k].state = "QUEUED"]
        \/ /\ free
           /\ \E i \in Attachable(c) :
                item' = [item EXCEPT ![k].state = "QUEUED", ![k].attach = TRUE, ![k].target = i]
        \/ /\ ~free \/ \E i \in Earlier(c) : person[i].optedOut
           /\ item' = [item EXCEPT ![k].permanent = TRUE]
     /\ UNCHANGED <<contact, person, job, mishaps, outlived>>

-----------------------------------------------------------------------------
(* undoMoveItem *)

UndoCheck(p, k) ==
  LET c == item[k].contact
      i == item[k].person
  IN /\ "undo" \in Acts
     /\ item[k].state = "DONE" /\ contact[c].status = "MOVED"
     /\ (~item[k].attach /\ Live(i)) => ~person[i].busy
     /\ Begin(p, [NoJob EXCEPT !.do = "undoClaim", !.item = k, !.contact = c,
                    !.person = IF ~item[k].attach /\ Live(i) THEN i ELSE Nil])
     /\ UNCHANGED <<contact, person, item, mishaps, outlived>>

UndoClaim(p) ==
  LET k == job[p].item
  IN /\ At(p, "undoClaim")
     /\ \/ /\ item[k].state = "DONE"
           /\ item' = [item EXCEPT ![k].state = "UNDOING"]
           /\ Go(p, IF job[p].person = Nil THEN "undoLocal" ELSE "undoPerson")
        \/ item[k].state # "DONE" /\ End(p) /\ UNCHANGED item
     /\ UNCHANGED <<contact, person, mishaps, outlived>>

Deleted(i) == person' = [person EXCEPT ![i].live = "deleted"]

DeletePerson(p) ==
  /\ At(p, "undoPerson")
  /\ Deleted(job[p].person)
  /\ Go(p, "undoLocal")
  /\ UNCHANGED <<contact, item, mishaps, outlived>>

(* "The person first: if the CRM refuses, nothing else is touched and the  *)
(* move stands"; or it took it, and the answer was lost.                   *)
DeleteFails(p) ==
  /\ At(p, "undoPerson")
  /\ \/ UNCHANGED <<person, mishaps>>
     \/ Deleted(job[p].person) /\ Mishap
  /\ item' = [item EXCEPT ![job[p].item].state = "DONE"]
  /\ End(p)
  /\ UNCHANGED <<contact, outlived>>

(* Mutation: an undone contact is always active again. *)
BackActive(c) == "ACTIVE"

(* Mutation: the contact takes the move item's state for its own. *)
BackAsUndone(c) == "UNDONE"

(* "An opt-out made while the person was in the CRM holds here too." *)
BackAs(c) == IF contact[c].opted THEN "OPTED_OUT" ELSE "ACTIVE"

RestoreLocally(p) ==
  LET k == job[p].item
      c == job[p].contact
  IN /\ At(p, "undoLocal")
     /\ \/ /\ contact[c].status = "MOVED"
           /\ \E again \in {FALSE} \cup ({item[k].exited} \cap {~contact[c].opted}) :
                contact' = [contact EXCEPT ![c].status = BackAs(c), ![c].person = Nil,
                                           ![c].running = again]
           /\ \E left \in {"UNDONE", "UNDO_PARTIAL"} : item' = [item EXCEPT ![k].state = left]
        \/ /\ contact[c].status # "MOVED"
           /\ item' = [item EXCEPT ![k].state = IF @ = "UNDOING" THEN "UNDO_PARTIAL" ELSE @]
           /\ UNCHANGED contact
     /\ End(p)
     /\ UNCHANGED <<person, mishaps, outlived>>

FinishPartial(k) ==
  /\ item[k].state = "UNDO_PARTIAL"
  /\ item' = [item EXCEPT ![k].state = "UNDONE"]
  /\ UNCHANGED <<contact, person, job, mishaps, outlived>>

-----------------------------------------------------------------------------
(* The transitions: opt out (of a moved contact, through its person), lift,*)
(* remove, erase.  Running campaigns are ended after the transaction.      *)

OptOut(p, c, form) ==
  /\ "opt_out" \in Acts
  /\ contact[c].status # "OPTED_OUT"
  /\ \/ /\ contact[c].status = "MOVED"
        /\ contact' = [contact EXCEPT ![c].opted = TRUE,
                                      ![c].byForm = IF contact[c].opted THEN @ ELSE form]
        /\ Begin(p, [NoJob EXCEPT !.do = "optPerson", !.person = contact[c].person, !.form = form])
     \/ /\ contact[c].status \in {"ACTIVE", "REMOVED"}
        /\ contact' = [contact EXCEPT ![c].status = "OPTED_OUT", ![c].opted = TRUE, ![c].byForm = form]
        /\ Begin(p, [NoJob EXCEPT !.do = "endRuns", !.contact = c])
  /\ UNCHANGED <<person, item, mishaps, outlived>>

EndRuns(p) ==
  /\ At(p, "endRuns")
  /\ contact' = [contact EXCEPT ![job[p].contact].running = FALSE]
  /\ End(p)
  /\ UNCHANGED <<person, item, mishaps, outlived>>

AfterContact(p) ==
  /\ At(p, "optPerson")
  /\ OptPersonOut(job[p].person, job[p].form) /\ Go(p, "sweep")
  /\ UNCHANGED <<item, mishaps, outlived>>

(* From the person's own page, or the form of a call with them. *)
OptOutPerson(p, i, form) ==
  /\ "opt_out" \in Acts
  /\ Live(i) /\ ~person[i].optedOut
  /\ OptPersonOut(i, form)
  /\ Begin(p, [NoJob EXCEPT !.do = "sweep", !.person = i])
  /\ UNCHANGED <<item, mishaps, outlived>>

(* N025: the same person's active cold record goes too. *)
Sweep(p) ==
  LET twins == {c \in Contacts : person[job[p].person].of = c /\ contact[c].status = "ACTIVE"}
  IN /\ At(p, "sweep")
     /\ \/ \E c \in twins :
             /\ contact' = [contact EXCEPT ![c].status = "OPTED_OUT", ![c].opted = TRUE,
                                           ![c].byForm = FALSE]
             /\ job' = [job EXCEPT ![p] = [NoJob EXCEPT !.do = "endRuns", !.contact = c]]
        \/ twins = {} /\ End(p) /\ UNCHANGED contact
     /\ UNCHANGED <<person, item, mishaps, outlived>>

(* Only an opt-out from the post-call form is ever lifted. *)
Lift(c) ==
  /\ "lift_opt_out" \in Acts
  /\ contact[c].status = "OPTED_OUT" /\ contact[c].byForm /\ ~InFlight(c)
  /\ contact' = [contact EXCEPT ![c].status = "ACTIVE", ![c].opted = FALSE, ![c].byForm = FALSE]
  /\ UNCHANGED <<person, item, job, mishaps, outlived>>

LiftPerson(i) ==
  /\ "lift_opt_out" \in Acts
  /\ Live(i) /\ person[i].optedOut /\ person[i].byForm
  /\ person' = [person EXCEPT ![i].optedOut = FALSE, ![i].byForm = FALSE]
  /\ contact' = [c \in Contacts |-> IF contact[c].person = i /\ contact[c].byForm
                                      THEN [contact[c] EXCEPT !.opted = FALSE, !.byForm = FALSE]
                                      ELSE contact[c]]
  /\ UNCHANGED <<item, job, mishaps, outlived>>

(* By a user, never during a move; by retention (no actor, so no check of  *)
(* a move in flight), never with a campaign running.                       *)
Remove(p, c, byRetention) ==
  /\ "remove" \in Acts
  /\ contact[c].status = "ACTIVE" /\ ~contact[c].opted
  /\ IF byRetention THEN ~contact[c].running ELSE ~InFlight(c)
  /\ contact' = [contact EXCEPT ![c].status = "REMOVED"]
  /\ Begin(p, [NoJob EXCEPT !.do = "endRuns", !.contact = c])
  /\ UNCHANGED <<person, item, mishaps, outlived>>

Erase(p, c) ==
  /\ "erase" \in Acts
  /\ contact[c].status # "MOVED"
  /\ contact' = [contact EXCEPT ![c].status = "OPTED_OUT", ![c].opted = TRUE,
                                ![c].byForm = contact[c].opted /\ @]
  /\ Begin(p, [NoJob EXCEPT !.do = "endRuns", !.contact = c])
  /\ UNCHANGED <<person, item, mishaps, outlived>>

(* Launched in a cold campaign, under the contact's lock. *)
StartCampaign(c) ==
  /\ "enroll" \in Acts
  /\ contact[c].status = "ACTIVE" /\ ~contact[c].running
  /\ contact' = [contact EXCEPT ![c].running = TRUE]
  /\ UNCHANGED <<person, item, job, mishaps, outlived>>

(* People work in the CRM too. *)
CrmCampaign(i) ==
  /\ "enroll" \in Acts
  /\ Live(i) /\ ~person[i].busy /\ ~person[i].optedOut
  /\ person' = [person EXCEPT ![i].busy = TRUE]
  /\ UNCHANGED <<contact, item, job, mishaps, outlived>>

DeletedInCrm(i) ==
  /\ Live(i) /\ Mishap
  /\ Deleted(i)
  /\ UNCHANGED <<contact, item, job, outlived>>

Crash(p) ==
  /\ ~Idle(p) /\ Mishap
  /\ End(p)
  /\ UNCHANGED <<contact, person, item, outlived>>

-----------------------------------------------------------------------------

MoveStep(p) == \/ QueueItem(p) \/ Recheck(p) \/ FindChosen(p) \/ FindOurs(p) \/ CreatePerson(p)
               \/ CrmFails(p) \/ StorePerson(p) \/ CompleteLocally(p) \/ TellCrm(p) \/ FinishNotes(p)
UndoStep(p) == UndoClaim(p) \/ DeletePerson(p) \/ DeleteFails(p) \/ RestoreLocally(p)
AfterStep(p) == EndRuns(p) \/ AfterContact(p) \/ Sweep(p)
JobStep(p) == MoveStep(p) \/ UndoStep(p) \/ AfterStep(p)

Requests(p) ==
  \/ \E c \in Contacts :
       \/ \E target \in Refs(Persons) : Preflight(p, c, target)
       \/ \E form \in BOOLEAN : OptOut(p, c, form)
       \/ \E byRetention \in BOOLEAN : Remove(p, c, byRetention)
       \/ Erase(p, c)
  \/ \E k \in Items : Take(p, k) \/ UndoCheck(p, k)
  \/ \E i \in Persons, form \in BOOLEAN : OptOutPerson(p, i, form)

Next == \/ \E p \in Procs : JobStep(p) \/ FirstAnswerLost(p) \/ CreateTimesOut(p) \/ Crash(p) \/ Requests(p)
        \/ \E k \in Items : ClaimGoesStale(k) \/ Retry(k) \/ FinishPartial(k)
        \/ \E c \in Contacts : Lift(c) \/ StartCampaign(c)
        \/ \E i \in Persons : CrmCampaign(i) \/ DeletedInCrm(i) \/ LiftPerson(i)

Spec == Init /\ [][Next]_vars

(* A job goes on until it ends or its process dies; the worker's queue runs*)
(* at every tick; claims grow old.                                         *)
Fairness == /\ \A p \in Procs : WF_vars(JobStep(p))
            /\ \A k \in Items : /\ SF_vars(\E p \in Procs : Take(p, k))
                                /\ WF_vars(ClaimGoesStale(k))
LiveSpec == Spec /\ Fairness

-----------------------------------------------------------------------------
TypeOK == /\ contact \in [Contacts -> ContactRow]
          /\ person \in [Persons -> PersonRow]
          /\ item \in [Items -> ItemRow]
          /\ job \in [Procs -> Job]
          /\ mishaps \in 0 .. MaxMishaps
          /\ outlived \in BOOLEAN

(* ColdContact implements ContactLife: what its contacts' rows say of it.  *)
Life == INSTANCE ContactLife WITH
  People   <- Persons,
  place    <- [c \in Contacts |-> contact[c].status],
  stopped  <- {c \in Contacts : contact[c].opted},
  liftable <- {c \in Contacts : contact[c].opted /\ contact[c].byForm},
  became   <- [c \in Contacts |-> contact[c].person]

(* Moves, undos, opt-outs and lifts, whoever made them where and however   *)
(* they cross, retry or die, change a contact only as ContactLife says.    *)
LivesAsPromised == Life!Spec

(* A contact that opted out is never moved to the CRM after it, however far*)
(* its move had come (N001).                                               *)
OptedOutNeverMoves == [][\A c \in Contacts :
    (contact[c].opted /\ contact[c].status # "MOVED") => contact'[c].status # "MOVED"]_vars

(* An opt-out holds through an undo, wherever it was made: an active       *)
(* contact is not opted out.                                               *)
OptOutOutlivesUndo == \A c \in Contacts : contact[c].opted => contact[c].status # "ACTIVE"

(* One call created both, in its two attempts. *)
Twins(i, j) == person[i].twin = j \/ person[j].twin = i

(* A contact has one person in the CRM, or the two of one call that was    *)
(* sent again: a move that is retried, taken over after a crash, repeated  *)
(* after a time-out, or made anew after an undo finds whom the CRM has     *)
(* already and never adds another (as long as no process works on after    *)
(* its claim has gone stale).                                              *)
OnePersonPerContact ==
  ~outlived => \A c \in Contacts : \A i, j \in {n \in Persons : person[n].of = c /\ Live(n)} :
                 i = j \/ Twins(i, j)

(* Every queued move settles: moved, or failed with a reason, also when the*)
(* process that had taken it dies.                                         *)
MovesSettle == \A k \in Items :
  item[k].state \in InFlightStates ~> item[k].state \notin InFlightStates
=============================================================================
