------------------------------- MODULE Engine -------------------------------
(***************************************************************************)
(* The sequence engine: the Enrollment and Task rows, and every operation  *)
(* of src/src/lib/engine that moves one of them (advance, complete, skip,  *)
(* exit, reply, meeting, finish, pause, resume, move to step, launch,      *)
(* enrol, campaign pause/stop/resume, account block, opt-out, and the      *)
(* scheduler's hard stop and campaign completion), with what a move to the *)
(* CRM and its undo (src/src/lib/sandbox/move.ts) do to the same rows.     *)
(*                                                                         *)
(* Web requests and the worker run at once on Postgres at READ COMMITTED.  *)
(* A transaction that reads and later writes is two steps of its process:  *)
(* the first takes its advisory and row locks and its reads, and the second*)
(* applies its writes to the rows as they then are (an update by id        *)
(* overwrites, an updateMany re-tests its own condition) and lets go of    *)
(* the locks.  A transaction that decides and writes only what its locks,  *)
(* or one conditional statement, protect is one step.  What the caller     *)
(* does after its transaction is the rest of its calls, todo.              *)
(***************************************************************************)
EXTENDS Naturals, Integers, Sequences, FiniteSets, SequencesExt

CONSTANTS
  Procs,        \* web requests and worker jobs that may run at the same time
  People,       \* PersonCache or SandboxContact rows
  Cold,         \* the people who are cold contacts (sandboxContactId, no personId)
  Accounts, NoAccount,
  AccountOf,    \* person -> the account (companyId) of a CRM person, or NoAccount
  Campaigns,
  Audience,     \* campaign -> its personIds
  SequenceOf,   \* campaign -> the sequence it runs
  Calendar,     \* campaigns that follow a published calendar (scheduleDates)
  Nurture,      \* campaigns whose sequence has repeatEveryDays
  NumSteps, NumActions,
  Rows,         \* bound: the Enrollment rows <<person, n>> that may come to be
  ClockMode,    \* rules.clockMode
  PauseColleagues,  \* rules.companyReplyPausesColleagues
  Requests      \* which requests arrive from outside in this instance

Steps   == 0 .. NumSteps - 1
Actions == 1 .. NumActions
Keys    == Rows \X Steps \X Actions     \* Task(enrollmentId, stepIndex, actionIndex)
NoRow   == <<>>

Occupying == {"ACTIVE", "PAUSED"}

(* MOVED: EXITED as moved_to_crm, by the move that can still be undone.    *)
(* LEFT: CANCELLED as exited:moved_to_crm.                                 *)
Ended     == {"REPLIED", "MEETING", "COMPLETED", "EXITED", "MOVED"}
Statuses  == {"NONE"} \cup Occupying \cup Ended
TaskStates == {"NONE", "PENDING", "DONE", "SKIPPED", "CANCELLED", "LEFT"}
CampaignStatuses == {"SCHEDULED", "ACTIVE", "PAUSED", "STOPPED", "COMPLETED"}

Locks == ({"account"} \X Accounts) \cup ({"campaign"} \X Campaigns)
           \cup {<<"sequence", SequenceOf[c]>> : c \in Campaigns}
           \cup ({"contact"} \X Cold)

RequestNames == {"advance", "resolve", "answered", "askedToStop", "exit", "reply",
                 "meeting", "finish", "pause", "resume", "move", "enroll", "launch",
                 "pauseCampaign", "stopCampaign", "resumeCampaign", "block", "unblock",
                 "optOut", "hardStop", "completeCampaign", "moveToCrm", "undoMove",
                 "endDate", "crash"}

Calls == ({"advance", "force", "exit", "reply", "resume"} \X Rows)
           \cup ({"resumeAll", "launch"} \X Campaigns)
           \cup ({"optOut", "exitAll"} \X People)

ASSUME EngineAssumption ==
  /\ NumSteps \in Nat \ {0} /\ NumActions \in Nat \ {0}
  /\ IsFiniteSet(Rows) /\ Rows \subseteq People \X (Nat \ {0})
  /\ \A x \in People : <<x, 1>> \in Rows
  /\ Campaigns # {}
  /\ Cold \subseteq People
  /\ NoAccount \notin Accounts
  /\ AccountOf \in [People -> Accounts \cup {NoAccount}]
  /\ \A p \in Cold : AccountOf[p] = NoAccount
  /\ Audience \in [Campaigns -> SUBSET People]
  /\ DOMAIN SequenceOf = Campaigns
  /\ Calendar \subseteq Campaigns /\ Nurture \subseteq Campaigns
  /\ ClockMode \in {"shift", "hold"} /\ PauseColleagues \in BOOLEAN
  /\ Requests \subseteq RequestNames

VARIABLES
  enr,       \* row -> [status, step, camp, fixed, byCampaign]
  task,      \* key -> state ("NONE": no such row)
  campaign,  \* campaign -> status
  blocked,   \* accounts with a BlockedAccount row
  optedOut,  \* people opted out, or removed
  moved,     \* cold contacts whose status is MOVED: their rows have a personId
  over,      \* campaigns whose endDate has passed
  slipped,   \* history: rows that got past their campaign's or contact's lock
  dropped,   \* history: rows a release of their campaign gave up on
  tx,        \* process -> its open transaction
  todo       \* process -> the calls its request has still to make

aside == <<moved, over, slipped, dropped>>
vars  == <<enr, task, campaign, blocked, optedOut, aside, tx, todo>>

EnrRow == [status : Statuses, step : -1 .. NumSteps - 1, camp : Campaigns,
           fixed : BOOLEAN, byCampaign : BOOLEAN]

(* Enrollment and Task as an open transaction holds them in its locals. *)
TxOps == {"none", "generate", "complete", "resolve", "end", "block", "pause", "resume",
          "move", "enroll", "toCrm", "restore"}
Tx == [op : TxOps,
       row  : Rows \cup {NoRow},  \* the enrollment it is about
       to   : Statuses \cup TaskStates,   \* the status or state it will write
       step : 0 .. NumSteps,      \* the step it will generate or move to
       open : SUBSET Keys,        \* tasks it read as PENDING and will change
       rows : SUBSET Rows,        \* other enrollments it read and will change
       repeat : BOOLEAN,          \* complete: start the next cycle
       skip : SUBSET Actions,     \* actions it will create already skipped
       camp : Campaigns,          \* enroll: the campaign
       held : SUBSET Locks,       \* locks held until commit or rollback
       then : Seq(Calls)]         \* calls to make once it has committed

AnyCampaign == CHOOSE c \in Campaigns : TRUE

NoTx == [op |-> "none", row |-> NoRow, to |-> "NONE", step |-> 0, open |-> {},
         rows |-> {}, repeat |-> FALSE, skip |-> {}, camp |-> AnyCampaign, held |-> {},
         then |-> <<>>]

Person(r)  == r[1]
Account(r) == AccountOf[Person(r)]
Key(r, s, a) == <<r, s, a>>

(* Mutation: a transaction that takes no account, or no contact, lock. *)
NoAccountLocks(people) == {}
NoContactLocks(people) == {}

(* An enrollment is a cold contact's while it has no personId. *)
IsCold(r) == Person(r) \in Cold \ moved
InCrm(rows) == {r \in rows : Person(r) \in moved}

AccountLocks(people) == {<<"account", AccountOf[p]>> : p \in {q \in people : AccountOf[q] # NoAccount}}
ContactLocks(people) == {<<"contact", p>> : p \in people \cap Cold}
CampaignLock(c) == <<"campaign", c>>
SequenceLock(c) == <<"sequence", SequenceOf[c]>>

(* Mutation: an advance that does not lock its campaign. *)
AdvanceLocksWithoutCampaign(r) == AccountLocks({Person(r)}) \cup ContactLocks({Person(r)} \ moved)
                                    \cup {SequenceLock(enr[r].camp)}

(* What advanceEnrollment locks before it reads the enrollment. *)
AdvanceLocks(r) == AccountLocks({Person(r)}) \cup ContactLocks({Person(r)} \ moved)
                     \cup {CampaignLock(enr[r].camp), SequenceLock(enr[r].camp)}

Free(L) == \A q \in Procs : tx[q].held \cap L = {}

Open(r)         == {k \in Keys : k[1] = r /\ task[k] = "PENDING"}
OccupyingRows(S) == {r \in S : enr[r].status \in Occupying}
RowsOf(person)    == {r \in Rows : Person(r) = person}
RowsOfCampaign(c) == {r \in Rows : enr[r].status # "NONE" /\ enr[r].camp = c}
RowsOfAccount(a)  == {r \in Rows : Account(r) = a}

(* Enrollment_one_active_per_person and _one_active_per_sandbox_contact. *)
OnePerPerson(e) == \A r, q \in Rows :
  (Person(r) = Person(q) /\ e[r].status \in Occupying /\ e[q].status \in Occupying) => r = q

(* The row the next INSERT for a person takes; Rows bounds how many there are. *)
Fresh(r) == enr[r].status = "NONE" /\ \A q \in RowsOf(Person(r)) :
              q[2] < r[2] => enr[q].status # "NONE"
NewRow(c, fixed) == [status |-> "ACTIVE", step |-> -1, camp |-> c, fixed |-> fixed,
                     byCampaign |-> FALSE]
NoEnrollment == [status |-> "NONE", step |-> -1, camp |-> AnyCampaign, fixed |-> FALSE,
                 byCampaign |-> FALSE]

-----------------------------------------------------------------------------
(* Every campaign is scheduled and nobody is enrolled yet. *)

Init ==
  /\ enr = [r \in Rows |-> NoEnrollment]
  /\ task = [k \in Keys |-> "NONE"]
  /\ campaign = [c \in Campaigns |-> "SCHEDULED"]
  /\ blocked = {} /\ optedOut = {} /\ moved = {} /\ over = {}
  /\ slipped = {} /\ dropped = {}
  /\ tx = [p \in Procs |-> NoTx] /\ todo = [p \in Procs |-> <<>>]

-----------------------------------------------------------------------------
(* Calls.  A handler runs for a request from outside, or because a request *)
(* already running makes that call next.                                   *)

Called(p, name, x) ==
  /\ tx[p] = NoTx
  /\ \/ todo[p] = <<>> /\ name \in Requests
     \/ todo[p] # <<>> /\ Head(todo[p]) = <<name, x>>

Asked(p, name) == tx[p] = NoTx /\ todo[p] = <<>> /\ name \in Requests

Rest(p) == IF todo[p] = <<>> THEN <<>> ELSE Tail(todo[p])

Proceed(p, calls) == todo' = [todo EXCEPT ![p] = calls \o Rest(p)]

Begin(p, t) == tx' = [tx EXCEPT ![p] = t]

Commit(p) == /\ tx' = [tx EXCEPT ![p] = NoTx]
             /\ todo' = [todo EXCEPT ![p] = tx[p].then \o @]

(* advanceEnrollment catches the unique index's refusal; anywhere else it  *)
(* is an error that ends the request.                                      *)
Raced(p)    == /\ tx' = [tx EXCEPT ![p] = NoTx]
               /\ UNCHANGED <<enr, task, campaign, blocked, optedOut, aside, todo>>
Abort(p)    == tx' = [tx EXCEPT ![p] = NoTx] /\ todo' = [todo EXCEPT ![p] = <<>>]
Rollback(p) == Abort(p) /\ UNCHANGED <<enr, task, campaign, blocked, optedOut, aside>>

SetTasks(keys, state)  == [k \in Keys |-> IF k \in keys THEN state ELSE task[k]]
SetStatus(rows, st)    == [r \in Rows |-> IF r \in rows THEN [enr[r] EXCEPT !.status = st]
                                                         ELSE enr[r]]

-----------------------------------------------------------------------------
(* advanceEnrollment *)

StepKeys(r, s) == {k \in Keys : k[1] = r /\ k[2] = s /\ task[k] # "NONE"}

(* Mutation: a step counts as done once it has tasks, open or not. *)
StepDoneOnceGenerated(r) == enr[r].step >= 0 /\ StepKeys(r, enr[r].step) # {}

StepDone(r) == /\ enr[r].step >= 0
               /\ StepKeys(r, enr[r].step) # {}
               /\ \A k \in StepKeys(r, enr[r].step) : task[k] # "PENDING"

Running(r) == /\ enr[r].status = "ACTIVE"
              /\ campaign[enr[r].camp] = "ACTIVE"
              /\ Account(r) \notin blocked

ColdGone(r) == IsCold(r) /\ Person(r) \in optedOut

LastStep(r) == enr[r].step + 1 >= NumSteps

(* Mutation: a completion that looks at the current step only. *)
MayCompleteByStep(r) == LastStep(r) /\ StepDone(r)

(* Overlapping hold-mode steps: an earlier step's task may still be open. *)
MayComplete(r) == LastStep(r) /\ StepDone(r) /\ Open(r) = {}

(* Mutation: a resolved step is not enough, the planned date must come too. *)
MayGenerateWhenDue(r, force, due) ==
  force \/ enr[r].step < 0 \/ (ClockMode = "hold" /\ due)

(* shouldGenerateNow, the move-ahead that forces it, and the published     *)
(* calendar's own rules, which generate nothing after the campaign's end   *)
(* date; due: the planned date has come, and today is a working day.       *)
MayGenerate(r, force, due) ==
  IF enr[r].fixed
    THEN due /\ ~force /\ enr[r].camp \notin over /\ (enr[r].step < 0 \/ StepDone(r))
    ELSE force \/ enr[r].step < 0 \/ StepDone(r) \/ (ClockMode = "hold" /\ due)

AdvanceCalled(p, r) == Called(p, "advance", r) \/ Called(p, "force", r)
Forced(p, r) == todo[p] # <<>> /\ Head(todo[p]) = <<"force", r>>

(* The locked half that ends in a new step: what it read stays in tx[p].   *)
(* A cold contact's activities without a usable channel are made skipped.  *)
(* A row whose contact is in the CRM (it was overwritten there) is nobody's*)
(* cold row: its contact is neither locked nor asked.                      *)
AdvanceGenerate(p, r) ==
  /\ AdvanceCalled(p, r)
  /\ Free(AdvanceLocks(r))
  /\ Running(r) /\ ~ColdGone(r)
  /\ ~LastStep(r) /\ MayGenerate(r, Forced(p, r), TRUE)
  /\ \E skip \in SUBSET (IF IsCold(r) THEN Actions ELSE {}) :
       Begin(p, [NoTx EXCEPT !.op = "generate", !.row = r, !.step = enr[r].step + 1,
                             !.skip = skip, !.held = AdvanceLocks(r)])
  /\ Proceed(p, <<>>)
  /\ slipped' = slipped \cup InCrm({r})
  /\ UNCHANGED <<enr, task, campaign, blocked, optedOut, moved, over, dropped>>

GenerateCommit(p) ==
  LET r == tx[p].row
      new == {Key(r, tx[p].step, a) : a \in Actions}
  IN /\ tx[p].op = "generate"
     /\ \/ /\ \A k \in new : task[k] = "NONE"
           /\ task' = [k \in Keys |-> IF k \notin new THEN task[k]
                                      ELSE IF k[3] \in tx[p].skip THEN "SKIPPED" ELSE "PENDING"]
           /\ enr' = [enr EXCEPT ![r].step = tx[p].step]
           /\ Commit(p)
           /\ UNCHANGED <<campaign, blocked, optedOut, aside>>
        \/ (\E k \in new : task[k] # "NONE") /\ Raced(p)

Repeats(r) == enr[r].camp \in Nurture /\ Person(r) \notin optedOut

(* At the bound Rows a repeating person is left as it is. *)
HasRoom(person) == \E q \in Rows : Person(q) = person /\ Fresh(q)

AdvanceComplete(p, r) ==
  /\ AdvanceCalled(p, r)
  /\ Free(AdvanceLocks(r))
  /\ Running(r) /\ ~ColdGone(r)
  /\ MayComplete(r)
  /\ LET repeat == Repeats(r)
     IN /\ repeat => HasRoom(Person(r))
        /\ Begin(p, [NoTx EXCEPT !.op = "complete", !.row = r, !.repeat = repeat,
                                 !.held = AdvanceLocks(r)])
  /\ Proceed(p, <<>>)
  /\ slipped' = slipped \cup InCrm({r})
  /\ UNCHANGED <<enr, task, campaign, blocked, optedOut, moved, over, dropped>>

(* The finished row is written by id; its next cycle is a row of its own,  *)
(* which has no scheduleDates.                                             *)
CompleteCommit(p) ==
  LET r == tx[p].row
      done == [enr EXCEPT ![r].status = "COMPLETED"]
  IN /\ tx[p].op = "complete"
     /\ \/ ~tx[p].repeat /\ enr' = done
        \/ /\ tx[p].repeat
           /\ \E q \in Rows :
                /\ Person(q) = Person(r) /\ Fresh(q)
                /\ enr' = [done EXCEPT ![q] = NewRow(enr[r].camp, FALSE)]
     /\ OnePerPerson(enr')
     /\ Commit(p)
     /\ UNCHANGED <<task, campaign, blocked, optedOut, aside>>

CompleteRaced(p) ==
  LET r == tx[p].row
  IN /\ tx[p].op = "complete" /\ tx[p].repeat
     /\ \/ ~HasRoom(Person(r))
        \/ \E q \in RowsOf(Person(r)) : q # r /\ enr[q].status \in Occupying
     /\ Raced(p)

(* A cold contact opted out since it started, or whose keys are suppressed *)
(* now (contactability's answer, an input here): no step, and an exit.     *)
AdvanceEndsCold(p, r) ==
  /\ AdvanceCalled(p, r)
  /\ Free(AdvanceLocks(r))
  /\ Running(r) /\ IsCold(r)
  /\ ColdGone(r) \/ (~LastStep(r) /\ MayGenerate(r, Forced(p, r), TRUE))
  /\ Proceed(p, << <<"exit", r>> >>)
  /\ UNCHANGED <<enr, task, campaign, blocked, optedOut, aside, tx>>

(* Inactive or waiting: nothing is written. *)
AdvanceWaits(p, r) ==
  /\ AdvanceCalled(p, r) /\ todo[p] # <<>>
  /\ Free(AdvanceLocks(r))
  /\ \/ ~Running(r)
     \/ LastStep(r) /\ ~MayComplete(r)
     \/ MayComplete(r) /\ Repeats(r) /\ ~HasRoom(Person(r))
     \/ ~LastStep(r) /\ ~MayGenerate(r, Forced(p, r), FALSE)
  /\ Proceed(p, <<>>)
  /\ UNCHANGED <<enr, task, campaign, blocked, optedOut, aside, tx>>

-----------------------------------------------------------------------------
(* completeTask and skipTask, with what their caller does next: advance,   *)
(* or, for an answered call, a reply, or, for a stop, an exit (deferAdvance)*)

Resolve(p, request, k, state, calls) ==
  /\ Asked(p, request)
  /\ task[k] = "PENDING" /\ enr[k[1]].status # "PAUSED"
  /\ Begin(p, [NoTx EXCEPT !.op = "resolve", !.row = k[1], !.open = {k}, !.to = state,
                           !.then = calls])
  /\ UNCHANGED <<enr, task, campaign, blocked, optedOut, aside, todo>>

ResolveTask(p, k) == \E state \in {"DONE", "SKIPPED"} :
  Resolve(p, "resolve", k, state, << <<"advance", k[1]>> >>)

AnsweredCall(p, k) == Resolve(p, "answered", k, "DONE", << <<"reply", k[1]>> >>)

AskedToStop(p, k) == \E state \in {"DONE", "SKIPPED"} :
  Resolve(p, "askedToStop", k, state, << <<"optOut", Person(k[1])>>, <<"exit", k[1]>> >>)

(* The claim: an updateMany that still finds the task PENDING. *)
ResolveCommit(p) ==
  /\ tx[p].op = "resolve"
  /\ \/ /\ \A k \in tx[p].open : task[k] = "PENDING"
        /\ task' = SetTasks(tx[p].open, tx[p].to)
        /\ Commit(p)
        /\ UNCHANGED <<enr, campaign, blocked, optedOut, aside>>
     \/ (\E k \in tx[p].open : task[k] # "PENDING") /\ Raced(p)

-----------------------------------------------------------------------------
(* exitEnrollment, markReplied, markMeeting and finishEnrollment: one      *)
(* transaction without an advisory lock.  It reads the status, then the    *)
(* open tasks (and, for a reply, the running colleagues), and writes them  *)
(* all by id.                                                              *)

(* Mutation: a task's word for an enrollment's end. *)
EndStatusOfTask == [exit |-> "EXITED", reply |-> "REPLIED", meeting |-> "MEETING",
                    finish |-> "DONE"]

EndStatus == [exit |-> "EXITED", reply |-> "REPLIED", meeting |-> "MEETING",
              finish |-> "COMPLETED"]

MayEnd(name, r) == \/ enr[r].status \in Occupying
                   \/ name = "meeting" /\ enr[r].status = "REPLIED"

Colleagues(r) == IF PauseColleagues /\ Account(r) # NoAccount
                   THEN {q \in RowsOfAccount(Account(r)) : q # r /\ enr[q].status = "ACTIVE"}
                   ELSE {}

EndEnrollment(p, name, r) ==
  /\ name \in DOMAIN EndStatus
  /\ Called(p, name, r)
  /\ MayEnd(name, r)
  /\ Begin(p, [NoTx EXCEPT !.op = "end", !.row = r, !.to = EndStatus[name], !.open = Open(r),
                           !.rows = IF name = "reply" THEN Colleagues(r) ELSE {}])
  /\ Proceed(p, <<>>)
  /\ UNCHANGED <<enr, task, campaign, blocked, optedOut, aside>>

EndCommit(p) ==
  LET t == tx[p]
      after == [r \in Rows |->
                  IF r = t.row THEN [enr[r] EXCEPT !.status = t.to]
                  ELSE IF r \in t.rows THEN [enr[r] EXCEPT !.status = "PAUSED", !.byCampaign = FALSE]
                  ELSE enr[r]]
  IN /\ t.op = "end"
     /\ \/ /\ OnePerPerson(after)
           /\ enr' = after
           /\ task' = SetTasks(t.open, "CANCELLED")
           /\ Commit(p)
           /\ UNCHANGED <<campaign, blocked, optedOut, aside>>
        \/ ~OnePerPerson(after) /\ Rollback(p)

(* A call that finds the enrollment already over changes nothing. *)
EndSkipped(p, name, r) ==
  /\ name \in DOMAIN EndStatus
  /\ todo[p] # <<>> /\ Called(p, name, r)
  /\ ~MayEnd(name, r)
  /\ Proceed(p, <<>>)
  /\ UNCHANGED <<enr, task, campaign, blocked, optedOut, aside, tx>>

-----------------------------------------------------------------------------
(* pauseEnrollment reads, then updates by id; resumeEnrollment reads under *)
(* the account and campaign locks; moveToStep checks before its            *)
(* transaction and then parks the row one step before its target.          *)

Pause(p, r) ==
  /\ Asked(p, "pause")
  /\ enr[r].status = "ACTIVE"
  /\ Begin(p, [NoTx EXCEPT !.op = "pause", !.row = r])
  /\ UNCHANGED <<enr, task, campaign, blocked, optedOut, aside, todo>>

Resumable(r) == enr[r].status = "PAUSED" /\ campaign[enr[r].camp] = "ACTIVE"

(* Mutation: a resume that does not lock its campaign. *)
ResumeLocksWithoutCampaign(r) == AccountLocks({Person(r)})

ResumeLocks(r) == AccountLocks({Person(r)}) \cup {CampaignLock(enr[r].camp)}

Resume(p, r) ==
  /\ Called(p, "resume", r)
  /\ enr[r].status # "NONE" /\ Free(ResumeLocks(r))
  /\ Resumable(r)
  /\ Begin(p, [NoTx EXCEPT !.op = "resume", !.row = r, !.held = ResumeLocks(r),
                           !.then = << <<"advance", r>> >>])
  /\ Proceed(p, <<>>)
  /\ UNCHANGED <<enr, task, campaign, blocked, optedOut, aside>>

ResumeRefused(p, r) ==
  /\ todo[p] # <<>> /\ Called(p, "resume", r)
  /\ Free(ResumeLocks(r))
  /\ ~Resumable(r)
  /\ Proceed(p, <<>>)
  /\ UNCHANGED <<enr, task, campaign, blocked, optedOut, aside, tx>>

Move(p, r, target) ==
  /\ Asked(p, "move")
  /\ enr[r].status = "ACTIVE" /\ ~enr[r].fixed
  /\ target > enr[r].step
  /\ Begin(p, [NoTx EXCEPT !.op = "move", !.row = r, !.step = target, !.open = Open(r),
                           !.then = << <<"force", r>> >>])
  /\ UNCHANGED <<enr, task, campaign, blocked, optedOut, aside, todo>>

Rewritten(t) ==
  CASE t.op = "pause"  -> [enr EXCEPT ![t.row].status = "PAUSED", ![t.row].byCampaign = FALSE]
    [] t.op = "resume" -> [enr EXCEPT ![t.row].status = "ACTIVE", ![t.row].byCampaign = FALSE]
    [] t.op = "move"   -> [enr EXCEPT ![t.row].status = "ACTIVE", ![t.row].byCampaign = FALSE,
                                      ![t.row].step = t.step - 1]

(* The people a campaign's release still had to resume when it was refused *)
(* one of them: nothing catches that error (changeCampaignStatus, below).  *)
GivenUp(p) == IF tx[p].op = "resume" /\ todo[p] # <<>>
                THEN {tx[p].row} \cup {r \in Rows : <<"resume", r>> \in ToSet(todo[p])}
                ELSE {}

(* A row that a write by id brings back after a move had ended it.         *)
HasLeft(r) == \E k \in Keys : k[1] = r /\ task[k] = "LEFT"

RewriteCommit(p) ==
  LET after == Rewritten(tx[p])
  IN /\ tx[p].op \in {"pause", "resume", "move"}
     /\ \/ /\ OnePerPerson(after)
           /\ enr' = after
           /\ task' = SetTasks(tx[p].open, "CANCELLED")
           /\ slipped' = slipped \cup {r \in Rows : r = tx[p].row /\ HasLeft(r)}
           /\ Commit(p)
           /\ UNCHANGED <<campaign, blocked, optedOut, moved, over, dropped>>
        \/ /\ ~OnePerPerson(after)
           /\ Abort(p)
           /\ dropped' = dropped \cup GivenUp(p)
           /\ UNCHANGED <<enr, task, campaign, blocked, optedOut, moved, over, slipped>>

-----------------------------------------------------------------------------
(* Starting people: a launch under the account, contact and campaign locks,*)
(* and enrollPeople, which checks the campaign in the action before it     *)
(* and the account under its lock.                                         *)

Busy(person) == \E r \in Rows : Person(r) = person /\ enr[r].status \in Occupying

Startable(person) ==
  /\ AccountOf[person] \notin blocked /\ person \notin optedOut \cup moved
  /\ ~Busy(person)
  /\ \E r \in Rows : Person(r) = person /\ Fresh(r)

(* A legacy launch starts those its earlier preview kept, a cold calendar  *)
(* leaves out who cannot start, a CRM calendar starts everyone or nobody,  *)
(* and nobody after its end date; a late cold calendar moves its dates on. *)
Starters(c) ==
  LET can == {q \in Audience[c] : Startable(q)}
  IN IF c \notin Calendar THEN SUBSET can
     ELSE IF Audience[c] \subseteq Cold THEN {can} \ {{}}
     ELSE IF c \in over THEN {}
     ELSE {Audience[c]} \cap {can}
MovesItsDates(c) == c \in Calendar /\ Audience[c] \subseteq Cold

Launch(p, c) ==
  /\ Called(p, "launch", c)
  /\ campaign[c] = "SCHEDULED"
  /\ Free({CampaignLock(c)} \cup AccountLocks(Audience[c]) \cup ContactLocks(Audience[c]))
  /\ \E S \in Starters(c) :
       LET new == {r \in Rows : Person(r) \in S /\ Fresh(r)}
       IN /\ enr' = [r \in Rows |-> IF r \in new THEN NewRow(c, c \in Calendar) ELSE enr[r]]
          /\ campaign' = [campaign EXCEPT ![c] = IF S = {} THEN "COMPLETED" ELSE "ACTIVE"]
          /\ \E order \in SetToSeqs(new) :
               Proceed(p, [i \in DOMAIN order |-> <<"advance", order[i]>>])
  /\ over' = IF MovesItsDates(c) THEN over \ {c} ELSE over
  /\ UNCHANGED <<task, blocked, optedOut, moved, slipped, dropped, tx>>

(* Refused, or launched by somebody else meanwhile. *)
LaunchSkipped(p, c) ==
  /\ todo[p] # <<>> /\ Called(p, "launch", c)
  /\ campaign[c] # "SCHEDULED" \/ Starters(c) = {}
  /\ Proceed(p, <<>>)
  /\ UNCHANGED <<enr, task, campaign, blocked, optedOut, aside, tx>>

Enroll(p, person, c) ==
  /\ Asked(p, "enroll")
  /\ campaign[c] = "ACTIVE" /\ c \notin Calendar /\ person \notin Cold
  /\ Startable(person)
  /\ Begin(p, [NoTx EXCEPT !.op = "enroll", !.row = <<person, 1>>, !.camp = c])
  /\ UNCHANGED <<enr, task, campaign, blocked, optedOut, aside, todo>>

EnrollCommit(p) ==
  LET person == Person(tx[p].row)
  IN /\ tx[p].op = "enroll"
     /\ Free(AccountLocks({person}))
     /\ \/ /\ AccountOf[person] \notin blocked /\ ~Busy(person)
           /\ \E q \in Rows :
                /\ Person(q) = person /\ Fresh(q)
                /\ enr' = [enr EXCEPT ![q] = NewRow(tx[p].camp, FALSE)]
                /\ Proceed(p, << <<"advance", q>> >>)
           /\ tx' = [tx EXCEPT ![p] = NoTx]
           /\ UNCHANGED <<task, campaign, blocked, optedOut, aside>>
        \/ (AccountOf[person] \in blocked \/ ~Startable(person)) /\ Rollback(p)

-----------------------------------------------------------------------------
(* changeCampaignStatus: one transaction under the campaign's lock, whose  *)
(* writes are conditional updates.                                         *)

PauseCampaign(p, c) ==
  /\ Asked(p, "pauseCampaign")
  /\ Free({CampaignLock(c)})
  /\ campaign[c] \in {"ACTIVE", "SCHEDULED"}
  /\ enr' = [r \in Rows |-> IF r \in RowsOfCampaign(c) /\ enr[r].status = "ACTIVE"
                              THEN [enr[r] EXCEPT !.status = "PAUSED", !.byCampaign = TRUE]
                              ELSE enr[r]]
  /\ campaign' = [campaign EXCEPT ![c] = "PAUSED"]
  /\ UNCHANGED <<task, blocked, optedOut, aside, tx, todo>>

StopCampaign(p, c) ==
  /\ Asked(p, "stopCampaign")
  /\ Free({CampaignLock(c)})
  /\ campaign[c] \in {"ACTIVE", "PAUSED", "SCHEDULED"}
  /\ task' = SetTasks({k \in Keys : k[1] \in RowsOfCampaign(c) /\ task[k] = "PENDING"}, "CANCELLED")
  /\ enr' = SetStatus(OccupyingRows(RowsOfCampaign(c)), "EXITED")
  /\ campaign' = [campaign EXCEPT ![c] = "STOPPED"]
  /\ UNCHANGED <<blocked, optedOut, aside, tx, todo>>

(* A published calendar past its end date cannot resume.  Afterwards,      *)
(* outside the transaction, its people are released one by one and a       *)
(* campaign that never launched is launched.                               *)
ResumeCampaign(p, c) ==
  /\ Asked(p, "resumeCampaign")
  /\ Free({CampaignLock(c)})
  /\ campaign[c] = "PAUSED" /\ c \notin Calendar \cap over
  /\ campaign' = [campaign EXCEPT ![c] = IF RowsOfCampaign(c) = {} THEN "SCHEDULED" ELSE "ACTIVE"]
  /\ Proceed(p, << <<"resumeAll", c>>, <<"launch", c>> >>)
  /\ UNCHANGED <<enr, task, blocked, optedOut, aside, tx>>

(* Mutation: the people somebody paused by hand. *)
PausedByHand(c) == {r \in RowsOfCampaign(c) : enr[r].status = "PAUSED" /\ ~enr[r].byCampaign}

PausedByCampaign(c) == {r \in RowsOfCampaign(c) : enr[r].status = "PAUSED" /\ enr[r].byCampaign}

ResumeAll(p, c) ==
  /\ Called(p, "resumeAll", c)
  /\ \E order \in SetToSeqs(PausedByCampaign(c)) :
       Proceed(p, [i \in DOMAIN order |-> <<"resume", order[i]>>])
  /\ dropped' = dropped \ RowsOfCampaign(c)
  /\ UNCHANGED <<enr, task, campaign, blocked, optedOut, moved, over, slipped, tx>>

-----------------------------------------------------------------------------
(* blockAccount holds the account's lock while it reads who is running and *)
(* ends them; the hard stop of runSchedulerTick does the same to a campaign*)
(* past its end date with no lock.                                         *)

Block(p, a) ==
  /\ Asked(p, "block")
  /\ Free({<<"account", a>>})
  /\ a \notin blocked
  /\ LET rows == OccupyingRows(RowsOfAccount(a))
     IN Begin(p, [NoTx EXCEPT !.op = "block", !.rows = rows, !.open = UNION {Open(r) : r \in rows},
                              !.held = {<<"account", a>>}])
  /\ UNCHANGED <<enr, task, campaign, blocked, optedOut, aside, todo>>

HardStop(p, c) ==
  /\ Asked(p, "hardStop")
  /\ campaign[c] = "ACTIVE" /\ c \in over
  /\ LET rows == OccupyingRows(RowsOfCampaign(c))
     IN Begin(p, [NoTx EXCEPT !.op = "block", !.rows = rows, !.open = UNION {Open(r) : r \in rows}])
  /\ UNCHANGED <<enr, task, campaign, blocked, optedOut, aside, todo>>

BlockCommit(p) ==
  /\ tx[p].op = "block"
  /\ blocked' = blocked \cup {a \in Accounts : <<"account", a>> \in tx[p].held}
  /\ enr' = SetStatus(tx[p].rows, "EXITED")
  /\ task' = SetTasks(tx[p].open, "CANCELLED")
  /\ Commit(p)
  /\ UNCHANGED <<campaign, optedOut, aside>>

Unblock(p, a) ==
  /\ Asked(p, "unblock")
  /\ Free({<<"account", a>>})
  /\ a \in blocked
  /\ blocked' = blocked \ {a}
  /\ UNCHANGED <<enr, task, campaign, optedOut, aside, tx, todo>>

(* runSchedulerTick's last statement. *)
CompleteCampaign(p, c) ==
  /\ Asked(p, "completeCampaign")
  /\ campaign[c] = "ACTIVE"
  /\ RowsOfCampaign(c) # {} /\ OccupyingRows(RowsOfCampaign(c)) = {}
  /\ campaign' = [campaign EXCEPT ![c] = "COMPLETED"]
  /\ UNCHANGED <<enr, task, blocked, optedOut, aside, tx, todo>>

(* optOutContact under the contact's row lock, or optOutPerson; the        *)
(* running enrollments are ended after it.                                 *)
OptOut(p, person) ==
  /\ Called(p, "optOut", person)
  /\ Free(ContactLocks({person}))
  /\ optedOut' = optedOut \cup {person}
  /\ Proceed(p, << <<"exitAll", person>> >>)
  /\ UNCHANGED <<enr, task, campaign, blocked, aside, tx>>

ExitAll(p, person) ==
  /\ Called(p, "exitAll", person)
  /\ \E order \in SetToSeqs({r \in Rows : Person(r) = person /\ enr[r].status \in Occupying}) :
       Proceed(p, [i \in DOMAIN order |-> <<"exit", order[i]>>])
  /\ UNCHANGED <<enr, task, campaign, blocked, optedOut, aside, tx>>

-----------------------------------------------------------------------------
(* A move to the CRM (completeLocally) and its undo (restoreLocally): each *)
(* one transaction under the contact's row lock, and no campaign's.  The   *)
(* move reads who is running and their open tasks and writes them by id;   *)
(* the undo reads the rows the move ended and their campaigns, and puts    *)
(* back, by id, those asked for where the campaign still runs (B101).      *)

MoveToCrm(p, person) ==
  /\ Asked(p, "moveToCrm")
  /\ person \in Cold \ (optedOut \cup moved)
  /\ Free(ContactLocks({person}))
  /\ LET rows == OccupyingRows(RowsOf(person))
     IN Begin(p, [NoTx EXCEPT !.op = "toCrm", !.row = <<person, 1>>, !.rows = rows,
                              !.open = UNION {Open(r) : r \in rows},
                              !.held = ContactLocks({person})])
  /\ UNCHANGED <<enr, task, campaign, blocked, optedOut, aside, todo>>

MoveToCrmCommit(p) ==
  /\ tx[p].op = "toCrm"
  /\ enr' = SetStatus(tx[p].rows, "MOVED")
  /\ task' = SetTasks(tx[p].open, "LEFT")
  /\ moved' = moved \cup {Person(tx[p].row)}
  /\ Commit(p)
  /\ UNCHANGED <<campaign, blocked, optedOut, over, slipped, dropped>>

UndoMove(p, person) ==
  /\ Asked(p, "undoMove")
  /\ person \in moved
  /\ Free(ContactLocks({person}))
  /\ \E wanted \in SUBSET {r \in RowsOf(person) : enr[r].status = "MOVED"} :
       Begin(p, [NoTx EXCEPT !.op = "restore", !.row = <<person, 1>>,
                             !.rows = {r \in wanted : /\ person \notin optedOut
                                                      /\ campaign[enr[r].camp] = "ACTIVE"},
                             !.held = ContactLocks({person})])
  /\ UNCHANGED <<enr, task, campaign, blocked, optedOut, aside, todo>>

(* Mutation: an undo that reopens whatever task is not open. *)
ReopenedAny(t) == {k \in Keys : k[1] \in t.rows /\ task[k] # "NONE"}

(* The tasks an undo opens again: those the move itself cancelled. *)
Reopened(t) == {k \in Keys : k[1] \in t.rows /\ task[k] = "LEFT"}

RestoreCommit(p) ==
  LET t == tx[p]
      person == Person(t.row)
      after == [r \in Rows |->
                  IF r \in t.rows THEN [enr[r] EXCEPT !.status = "ACTIVE"]
                  ELSE IF Person(r) = person /\ enr[r].status = "MOVED"
                         THEN [enr[r] EXCEPT !.status = "EXITED"]
                  ELSE enr[r]]
  IN /\ t.op = "restore"
     /\ \/ /\ OnePerPerson(after)
           /\ enr' = after
           /\ task' = SetTasks(Reopened(t), "PENDING")
           /\ moved' = moved \ {person}
           /\ slipped' = slipped \cup {r \in t.rows :
                                       campaign[enr[r].camp] \notin {"ACTIVE", "COMPLETED"}}
           /\ Commit(p)
           /\ UNCHANGED <<campaign, blocked, optedOut, over, dropped>>
        \/ ~OnePerPerson(after) /\ Rollback(p)

(* A campaign's last day goes by. *)
EndDatePasses(c) ==
  /\ "endDate" \in Requests
  /\ c \notin over
  /\ over' = over \cup {c}
  /\ UNCHANGED <<enr, task, campaign, blocked, optedOut, moved, slipped, dropped, tx, todo>>

(* The process dies: its transaction rolls back and the rest of its request*)
(* is never made.                                                          *)
Crash(p) ==
  /\ "crash" \in Requests
  /\ tx[p] # NoTx \/ todo[p] # <<>>
  /\ Rollback(p)
-----------------------------------------------------------------------------

Commits(p) == \/ GenerateCommit(p) \/ CompleteCommit(p) \/ CompleteRaced(p) \/ ResolveCommit(p)
              \/ EndCommit(p) \/ RewriteCommit(p) \/ EnrollCommit(p) \/ BlockCommit(p)
              \/ MoveToCrmCommit(p) \/ RestoreCommit(p)

RowHandlers(p, r) ==
  \/ AdvanceGenerate(p, r) \/ AdvanceComplete(p, r)
  \/ AdvanceEndsCold(p, r) \/ AdvanceWaits(p, r)
  \/ \E name \in DOMAIN EndStatus : EndEnrollment(p, name, r) \/ EndSkipped(p, name, r)
  \/ Pause(p, r) \/ Resume(p, r) \/ ResumeRefused(p, r)
  \/ \E target \in Steps : Move(p, r, target)

TaskHandlers(p, k) == ResolveTask(p, k) \/ AnsweredCall(p, k) \/ AskedToStop(p, k)

CampaignHandlers(p, c) ==
  \/ Launch(p, c) \/ LaunchSkipped(p, c)
  \/ PauseCampaign(p, c) \/ StopCampaign(p, c)
  \/ ResumeCampaign(p, c) \/ ResumeAll(p, c)
  \/ HardStop(p, c) \/ CompleteCampaign(p, c)
  \/ \E person \in People : Enroll(p, person, c)

Handlers(p) == \/ \E r \in Rows : RowHandlers(p, r)
               \/ \E k \in Keys : TaskHandlers(p, k)
               \/ \E c \in Campaigns : CampaignHandlers(p, c)
               \/ \E a \in Accounts : Block(p, a) \/ Unblock(p, a)
               \/ \E person \in People : OptOut(p, person) \/ ExitAll(p, person)
               \/ \E person \in Cold : MoveToCrm(p, person) \/ UndoMove(p, person)

Next == \/ \E p \in Procs : Commits(p) \/ Handlers(p) \/ Crash(p)
        \/ \E c \in Campaigns : EndDatePasses(c)

Spec == Init /\ [][Next]_vars

(* The handlers that a request already running may call next. *)
GoesOn(p) ==
  /\ todo[p] # <<>>
  /\ \/ \E r \in Rows :
          \/ AdvanceGenerate(p, r) \/ AdvanceComplete(p, r)
          \/ AdvanceEndsCold(p, r) \/ AdvanceWaits(p, r)
          \/ \E name \in {"exit", "reply"} : EndEnrollment(p, name, r) \/ EndSkipped(p, name, r)
          \/ Resume(p, r) \/ ResumeRefused(p, r)
     \/ \E c \in Campaigns : ResumeAll(p, c) \/ Launch(p, c) \/ LaunchSkipped(p, c)
     \/ \E person \in People : OptOut(p, person) \/ ExitAll(p, person)

(* The worker ticks every enrollment. *)
Tick(r) == \E p \in Procs : todo[p] = <<>> /\ (AdvanceGenerate(p, r) \/ AdvanceComplete(p, r))

(* A transaction that was opened commits, and a request goes on with its   *)
(* calls, unless its process dies; strongly, since locks come and go and   *)
(* Postgres grants them in turn.  The worker ticks again and again, however*)
(* often it was restarted.                                                 *)
RequestsEnd == \A p \in Procs : SF_vars(Commits(p)) /\ SF_vars(GoesOn(p))
WorkerTicks == \A r \in Rows : SF_vars(Tick(r))

RequestSpec == Spec /\ RequestsEnd
LiveSpec    == RequestSpec /\ WorkerTicks
=============================================================================
