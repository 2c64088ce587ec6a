# Cadence in TLA+

Cadence is a Next.js and Postgres (Prisma) application that runs sales
sequences beside the Twenty CRM: people are enrolled in campaigns, each step of
a campaign's sequence becomes tasks, resolving them advances the person, and
what happened is mirrored to the CRM.  A second half, the outreach "sandbox",
keeps cold contacts until they are moved to the CRM.  This directory holds
TLA+ modules of the parts of it that are hard to test, the TLC configurations
that check them on small instances, and TLAPS proofs about them.

Paths below are relative to the repository.  `PROJECT.json` maps every
definition to the lines it models, every run to its properties and every
hazard to the properties that watch it.

## 1. The system

### What runs

Several **web processes** serve server actions, API routes and the Twenty
webhook; one **worker** (`src/worker/index.ts`) ticks the engine, retries failed
CRM writes, runs the move queue, syncs and cleans up.  All of them share one
Postgres at READ COMMITTED, and Twenty is reached over HTTP.  There is no other
shared state.  Three kinds of protection are used, and where each is used, or is
not, decides what can go wrong:

* advisory locks of accounts, campaigns and sequences (`account-lock.ts`), held
  to the end of a transaction, and row locks on cold contacts (`withSubjectLock`);
* unique indexes: Task(enrollment, step, action), one occupying enrollment per
  person, one move in flight per contact;
* conditional updates (`updateMany` with the expected state in its `where`),
  beside plain updates by id, which overwrite.

### Components

| component | state | operations | interacts with |
| --- | --- | --- | --- |
| Sequence engine (`engine/tasks.ts`, `enrollment.ts`, `campaigns.ts`, `outcomes.ts`, `blocked-accounts.ts`) | Enrollment, Task, Campaign, BlockedAccount | advance, complete, skip, exit, reply, meeting, finish, pause, resume, move to step, launch, enrol, pause/stop/resume campaign, block, hard stop | moves (a move ends a contact's enrollments, its undo puts them back), outbox (every task change is mirrored), contacts (opt-outs end enrollments), ingest |
| CRM outbox (`engine/sync-out.ts`, `sync-retry.ts`, `delegate.ts`) | Task.twentyTaskId and twentyNoteId, TwentyWrite | mirror, finish, retire, note, retry, discard, delegate | Twenty, and its webhooks back |
| Cold contact and Move to CRM (`outreach/transitions.ts`, `sandbox/move.ts`, `retention.ts`) | SandboxContact, SandboxMoveItem, PersonCache | opt out, lift, remove, erase; queue, take, process, retry, undo, delete partial | Twenty, engine |
| Evidence and ingest (`engine/ingest.ts`, `matching.ts`, `observed-evidence.ts`) | ActivityEvent, Touch | webhook intake, note, message and meeting evidence | engine |
| Worker jobs (`worker/index.ts`, `reconcile.ts`, `nightly.ts`) | cursors in settings | ticks, catch-up, clean-up | all |
| Person and company cache (`person-cache.ts`, `continuous-sync.ts`) | PersonCache, CompanyCache, the sync's watermarks | upsert, mark deleted, full and incremental listings | Twenty and its webhooks; every screen reads it |
| Next actions (`next-actions.ts`) | NextAction, the two fields in Twenty | set, done, move, stop, push, follow what Twenty changed | worker, Twenty, ingest (an email does one), cache |
| Calls and post-call forms (`calls/`) | CallLog, CallForm, the import's lease and watermark | import, log by hand, submit, close, discard, hand on | engine (a form closes a step), ownership |
| Ownership, transfer, release (`outreach/`, `actions/users.ts`) | owner and pod of a contact, whose its next step, campaign and forms are, who has access | claim, assign, release, first write, set pod, launch, remove access, change pods | contacts, engine, calls |
| Suppression, deduplication, contactability (`sandbox/`, `outreach/`) | Suppression | pure decisions over keys | contacts, engine |
| Bellwether API (`sandbox/bellwether-*.ts`, `status.ts`) | BellwetherPush | push, suppress, status | contacts |
| Planning and capacity (`campaign-planner.ts`, `engine/capacity.ts`) | CampaignPlan dates | pure date arithmetic, a first-outreach cap | engine |
| Campaign editing, person cache, Twenty client, meetings, mail, enrichment, users, tickets, settings, queries and pages | | see `PROJECT.json` | |

### What is hard in it, and what makes each part correct

* **Engine.**  A transaction reads, decides and writes, and another process's
  commit may fall in between; some operations share a lock and some do not.  A
  request is several transactions (resolve, then advance; resume, then release
  everyone) and may die between any two.  Correct: tasks open only where work
  is allowed, a stopped campaign has none, steps open in order and only once, a
  completed person has nothing open, a resolved step is followed by the next
  one, what is resolved stays so although the undo of a move opens tasks again, a
  pause is undone by its resume.
* **Outbox.**  A call that timed out may have worked; a claim may be outlived;
  Cadence's own writes come back as webhooks, late and in any order.  Correct:
  no completion goes unreported, nobody's work is invented, a discard stands, a
  failed write lands.
* **Contacts and moves.**  A move talks to the CRM with no lock held while the
  contact may be opted out, removed or erased; its process may die; a retry
  must find the person it made; the Twenty client sends a request whose answer it
  lost once more.  Correct: an opted-out contact never moves, an undo does not
  resurrect it, no attempt adds a person to the one an earlier attempt made, one
  contact per person, every move settles.
* **Ingest.**  A webhook is recorded before it is processed and may be sent
  again; it may come before Twenty knows whose it is.  One email arrives as a
  message and as a note, each several times, in several processes.  Correct: an
  event is read by one process at a time and again until it is whole, a record
  closes one step, and a touch that was seen closes the step it fits.
* **Next actions.**  Two screens, an email and the worker write one row, which
  goes to a CRM that may refuse it or lose the answer, and where people edit the
  same two fields.  Correct: one occurrence is done once, no change is left
  unsent, whoever else's is refused, and when all is sent and followed both
  sides say the same.
* **Cache.**  Records come late, twice, out of order or not at all; a listing
  stops half-way; a deletion does not move `updatedAt`.  Correct: nobody who is in
  Twenty is shown as deleted, nobody deleted comes back, no watermark steps over
  a change, and the copy ends up as Twenty has it.
* **Calls.**  An import that may overlap with another, fail, or die with its
  lease reads a call several times while its form is filled in, closed or
  discarded in two tabs.  Correct: one form per call, a closed step keeps its
  touch, every call that ended is asked about.
* **Ownership.**  Requests decide by a page, a session or a read made before the
  lock, while somebody's access or pods change.  Correct: nothing is taken from a
  rep who holds it, except by a leader who saw it in their hands, and work stays
  with somebody.
* **Pushes.**  Idempotency of a partner's deliveries.

## 2. The modules

| module | what it is |
| --- | --- |
| `Engine` | the sequence engine: state, one action per operation or per half of a transaction, fairness |
| `EngineProperties` | what the engine promises, and the inductive invariant |
| `MCEngine` | instances of it for TLC: accounts, audiences and which requests arrive |
| `EngineProofs` | the theorems about the engine |
| `Outbox` | the mirrored task, the completion note, the outbox, the webhooks about them, with their properties |
| `OutboxProofs` | the theorems about the outbox |
| `ContactLife` | the abstract specification of a cold contact: moved, moved back, left alone, removed |
| `ColdContact` | contact states and Move to CRM, with their properties; its refinement mapping onto `ContactLife` |
| `ContactProofs` | the theorems about cold contacts |
| `Evidence` | the events about emails and calls seen in Twenty and the steps they close, with their properties |
| `EvidenceProofs` | the theorems about evidence |
| `MCEvidence` | instances of it for TLC: which records are about which email, and when |
| `NextActions`, `MCNextActions` | a person's next action and its two fields in Twenty, with their properties; who has one to begin with |
| `NextActionsProofs` | the theorems about next actions |
| `PersonCache` | the cached copy of Twenty's people and the continuous sync, with their properties |
| `CacheProofs` | the theorems about the cache |
| `Calls` | the Twilio import, calls logged by hand and the post-call form, with their properties |
| `CallsProofs` | the theorems about calls |
| `Holdings` | the abstract specification of ownership: things held by reps, and what may be taken from whom |
| `Ownership` | who owns a cold contact and whose its work is; its refinement mapping onto `Holdings` |
| `MCOwnership` | an instance of it for TLC: two reps and their pods |
| `OwnershipProofs` | the theorems about ownership, the refinement among them |

Definitions whose comment begins with "Mutation:" are plausible bugs in the
definition that follows them (a dropped lock, a missing condition, a wrong
status).  They are not used by any specification; putting one in the place of
its neighbour makes the property named in `PROJECT.json` fail, which shows that
the property watches that code.

### Engine

Each process `p` has an open transaction `tx[p]` (what it read and holds) and
`todo[p]`, the calls its request has still to make.  The granularity follows
the code:

* A transaction that reads rows and later writes them **by what it read** is two
  actions: the first takes its locks and reads (`AdvanceGenerate`,
  `EndEnrollment`, `Pause`, `Resume`, `Move`, `Enroll`, `Block`, `HardStop`,
  `Resolve`), the second writes (`GenerateCommit`, `EndCommit`, `RewriteCommit`,
  ...).  A plain update by id overwrites whatever the row is by then; an
  `updateMany` is tested again at its commit (`ResolveCommit`); an insert meets
  the unique index (`Raced`, `OnePerPerson`).
* A transaction whose reads are all protected by its own locks, or which is one
  conditional statement, is one action (`PauseCampaign`, `StopCampaign`,
  `Launch`, `OptOut`).
* What a handler does after its transaction is a call in `todo`:
  `completeTask` then `advance`; an answered call then `reply`; a resumed
  campaign then `resumeAll`, one `resume` per person, each then `advance`.
* `Crash` rolls a transaction back and forgets the calls.

`AdvanceLocks` is the list `advanceEnrollment` takes (account, contact, campaign,
sequence); `exitEnrollment`, `markReplied`, `markMeeting` and `moveToStep` take
none, as in the code.  All locks of one transaction are taken in one action, so a
circular wait is not in the model.  Dates are reduced to whether the planned date
has come: it may come at any time in the legacy modes (`MayGenerate`).  A published
calendar is the flag `fixed`; on one nothing is generated on a day that is not a
working day, which is waiting like any other, nor once the campaign's end date has
passed (`over`, `EndDatePasses`), which is waiting for good; the completion of who is
done with the last step looks at neither.  A late launch of cold contacts
moves the dates on (`MovesItsDates`).  Whether a cold contact has a usable
channel or a suppressed key is chosen freely, as these answers come from other
parts.

A move to the CRM and its undo (`sandbox/move.ts`) write the same rows, under the
contact's row lock and nobody else's: `MoveToCrm` reads who is running and
`MoveToCrmCommit` ends them; `UndoMove` reads the rows the move ended and their
campaigns, and `RestoreCommit` puts back those that were asked for and whose campaign
runs, to ACTIVE, and their tasks to PENDING.  The status `MOVED` is EXITED as
`moved_to_crm` by the move that can still be undone, the task state `LEFT` is
CANCELLED as `exited:moved_to_crm`: the undo selects its rows and tasks by these
reasons.  An undo the unique index refuses may be asked again here, where the
item stays UNDOING in the code, so the model does a little more.  While a contact is in
the CRM its rows have a person, so an advance neither locks nor asks the contact
(`IsCold`).

Two histories mark rows that got past a lock.  `slipped`: rows restored into a
campaign that was paused or stopped since the undo read it, and rows whose
contact is in the CRM and which a transaction that had read them before brought
back by id.  `dropped`: people a campaign's release gave up on because one of them
was refused.

### Outbox

One Cadence task goes from `NONE` to `PENDING` to resolved by the engine's
handlers (`Generate`, `Complete`, `Skip`, `Delegate`); after each the process has
a `job`, a sequence of items that load the task, call Twenty and store the answer.
A call is `Answered`, `Refused` or `TimedOut` (done, but reported as failed);
`Failed` is `reportFailure` and `postpone`.  `write` is the TwentyWrite table;
`Claim`, `LeasePasses`, `Discard` are its retry, its ten minutes and the admin's
button.  `events` are webhooks on their way, a set: they arrive in any order.
People also work in Twenty (`MarkDone`, `DeleteInTwenty`).

### ContactLife and ColdContact

`ContactLife` says what a contact's life promises, with no queue, claims or CRM:
only an active contact nobody asked to leave alone moves, and becomes a person
that no other contact is (`Move`); a move undone brings back what it was, or opted
out (`Return`); an opt-out is made once (`Stop`), and is heard until one that came
from a call's form is lifted (`Lift`); `Remove` is for active contacts.

In `ColdContact` every write to a contact happens under its row lock, so it is one action; a
move is a `job` whose steps are the code's between two CRM calls: `Take`,
`Recheck`, `FindChosen` or `FindOurs`, `CreatePerson`, `StorePerson`,
`CompleteLocally` (the locked check and the MOVED write), `TellCrm`,
`FinishNotes`.  A request whose answer is lost (`FirstAnswerLost`) is sent again by
the client (`createAgain`), so one call may create two persons; the second
remembers the first (`twin`), and the item stores the second only, which is the one an
undo deletes.  A request whose answer is lost has taken effect by then, or never
does.  An undo is `UndoCheck`, `UndoClaim`, `DeletePerson` or `DeleteFails`,
`RestoreLocally`.  An opt-out made while the contact is in the CRM is remembered
on it (`opted`) and decides what an undo brings back (`BackAs`).  `LivesAsPromised`
maps `place`, `stopped`, `liftable` and `became` to columns of the row.

### Evidence

One person with one campaign.  An email that really happened (`Emails`) has
records in Twenty (`Records`: the message, the note), each record two events
(`Keys`: itself, and the link that attaches its person), and every event is
delivered again and again.  A delivery is a `job` of a process: `TakeEvent` is
the unique `dedupeKey` or the claim conditioned on the old result, `Read` the
touch, `ListTasks` and `Judge` are `closeFromTouch` and `judgeTouch`, `Check` and
`Write` the reads and the conditional update of `completeTask`, `Count` the
`claim` after it, `Finish` the event's result.  `CatchUp` and `CatchNext` are the
scheduler's `catchUpObservedEvidence`, task by task; what it reads and judges
for one task is one action.  Steps open in order, several at once where they
may (two actions of one step, or hold mode), and people mark them done, skip
them and pause the campaign meanwhile.  Which records are about one email
(`sameTouch`) and which email is behind a Done by hand are given: matching by
subject and hours is not modelled, and it is taken to be right.

### NextActions

A request, or the worker's doing a task for an email, is a `job` of its process:
`SetFind` and `SetSave`, `ReadRow` then `Claim` (the update conditioned on the date
that was read) or `WriteRow` (by id), `MirrorRow` for the cached copy, and after
the response the push: `PushRead`, `PushCount` (does a newer open task own the
fields?), `PushCall`, `PushSettle` or `PushFail`, `PushCopy`.  The worker's pass
(`StartPass`) pushes a batch of the rows that wait longest, then follows what
people changed in Twenty (`ListOpen`, `Follow`).  `older` relates two rows of which
the first has the older `updatedAt`, which Prisma stamps on every write: it is what
the batch is taken from, and comparing that stamp before and after is how
`pushNextAction` sees that a row changed meanwhile (`fresh`).  A call to Twenty is taken, taken with its answer lost, or
refused (`Broken`: a person deleted or merged there).  `left` counts how often a
row was due on a day less how often it was done then; `crossed` remembers that
two changes of a person met on their way (`Sending`): two pushes, an edit in Twenty
under a push, or an edit under a set request that has found the person's open task and
not saved it yet.

### PersonCache

A record is its version: Twenty stamps its changes 2, 4, 6... and Cadence's own
stamps fall in between.  `crm` is Twenty, `row` the cached row with the two clocks of
`snapshotOrder`, `mail` the webhooks and pages that may still arrive, in any order
or never.  A pass lists everyone when a day has passed (`full`, then `RemoveUnseen`),
then what changed and what was deleted since each watermark; a page is read in one action
and stored in another, and a listing stops (`StopListing`), a record cannot be
stored, or the worker is restarted, at any point.  A destroyed or merged record
sends nothing.

### Calls

`run` is an import: `StartRun` takes the lease and lists Twilio's calls from the
watermark less its overlap, with those stored unfinished; `ReadLeg` reads the row
of one call, or finds the call logged by hand or on a step that it is; one of
`StoreKnown`, `JoinByHand`, `StoreNew`, `StoreTwice` writes; `FileLeg` is the step
and the touch, decided by the row **as the run wrote it**; `EndRun` saves the
watermark.  A run fails, meets a unique key, or dies with its lease.  Time is in
ticks, and four of the code's times are constants: `Lease` and `Overlap` (ten minutes
each), `Reread` (an unfinished call is read again for six hours, `Unfinished`) and
`CatchUp` (a call seven days old opens no form, `FormOpens`).  A request (`tab`)
reads the call (`ReadCall`), then submits, closes or discards it, each by a
conditional update, and goes on to the touch and the step.

### Ownership and Holdings

`Holdings` says what ownership promises without locks, pods or roles: a thing
(contact or form) is given away by its holder or by a leader who still sees it in
the hands the page showed (`Look`, `Give`), taken when nobody holds it or its
holder was once removed (`Take`), passed on as a whole when access is removed
(`Leave`), or finished.

In `Ownership` a request is up to three actions of its process: what it reads
before its transaction (`AskAssign`, ...: the page's owner, the session's pods),
the transaction's locks and the checks on what it then reads (`LockAssign`, ...),
its writes (`CommitTransfer`, ...).  The predicates keep the code's names and
split: `MayWork`, `MayClaim`, `MayRelease`, `MayAssign`, `MayOwn`, `PodFor`, `Clash`.
User rows are locked only by access removal and by a change of pods; a row that
comes to name a user waits for that user's row, as the foreign key does
(`KeyShare`).  A transaction may always roll back.  What others do to a next
step, a campaign or a form meanwhile is `Finish`.

## 3. What is checked

| run | instance | what it asks | states |
| --- | --- | --- | --- |
| `control` | 2 people, 1 account, 1 campaign, 2 steps, 2 processes, hold mode | campaign pause, resume and stop against advance, complete and reply, where steps overlap | 0.8 M |
| `people` | 1 person, every request but the hard stop and the end date, crashes | types, the inductive invariant | 1.2 M |
| `release` | 2 people without an account, 1 step, a second row of one of them | a resume releases everyone its pause held, until an error ends its loop | 0.14 M |
| `crash` | a cold contact on a published calendar, moves and undos, stops, the end date and hard stop, crashes | steps in order and only where allowed; resolved stays resolved; a resolved step goes on | 0.27 M |
| `outbox` | 1 task, 2 processes, 2 Twenty tasks, 2 writes, 1 mishap | nothing is lost, nothing invented, writes land, discards stand | 0.3 M |
| `contact` | 1 contact, 2 persons, 1 item, 1 mishap | opt-outs, undo, no second attempt adds a person, moves settle; `ColdContact` implements `ContactLife` | 0.8 M |
| `evidence` | 1 record, 2 events, 2 steps, 2 processes, 1 mishap | events read once at a time and until whole, one step per record, every touch counts | 0.2 M |
| `next_actions` | 2 people of whom Twenty refuses one, 2 requests, 1 upset, batches of 1 | one occurrence done once, both sides agree, every change is sent | 0.9 M |
| `cache` | 2 people, 2 changes, 2 failures | nobody written off, deletions stand, watermarks, catching up | 0.6 M |
| `ownership` | 2 processes, 2 reps (a Junior, and a leader of both pods), 1 contact, 1 form, 3 requests | work stays with somebody; `Ownership` implements `Holdings` | 1.4 M |
| `calls` | 1 Twilio call, 1 logged by hand, 2 importers, 2 tabs, 1 failure, 2 requests | one form per call, a closed step keeps its touch, every call read in time is asked about | 1.0 M |
| `discarded` | the same with one importer and one tab, no failures | a sentence of the source that does not hold (section 5) | |

**Why these bounds.**  Every property of the engine is about one enrollment and
the campaign, account and contact above it, and every race in it is between two
processes: a third one repeats what one of the two can do, as each holds at most
one transaction.  Two steps give a first, a last and a next step, and two people
give somebody else to be released, ended or paused.  `control` and `people` are
checked up to exchanging processes and people, which are alike in every action.
`release` has people without an account: the account's lock is what keeps a new
enrollment from meeting a completing one, and without it the unique index does
(`CompleteRaced`, `Raced`).  A person's second row (`Rows`) is the next
cycle of a nurture sequence, or being enrolled again; only one of the two has one,
and with it the loop of a resume can meet a person it must not resume while
another still waits for it.  `crash` gives its one contact two steps, which
suffice for a move between a step's tasks and the next, and what its undo brings
back.  In `Outbox` two Twenty
tasks are a mirror and the one that replaces it, and one mishap is a time-out, a
crash, a delegation or a lease outlived: every known hazard needs one of them
and the normal steps around it.  In `ColdContact` one item suffices for retry,
undo and every transition; two persons are the one an item made and the one made
again, by the same call or by a later attempt.  What two contacts do to each other (both wanting one person) is in the proofs,
which hold for any number.  In `Evidence` two events of one record are what two processes can hold at
once, the catch-up is the third way to the same step, and two steps are what one
record could wrongly close.  One pause is enough to hold a touch back and release
it.  Only the worker runs the catch-up, its ticks one at a time; its limits (500
candidates a tick, fourteen days back) are left out.

In `NextActions` a batch of one is the smallest queue that a refused row could
block for ever, one web request and the worker are the two writers of a row, and
two requests with one upset reach every pair of steps that meet at one row.  In
`PersonCache` two changes are an edit and a deletion, or a record created while
another's page is read, and two failures stop the complete listing and one after
it; the ten minutes taken off each watermark are left out, which only shows a
listing less.  In `Ownership` three requests are two that race and one before
them, two pods and a rep in one of them reach every answer of the rules; its
theorems hold for all instances.  In `Calls` the tabs are two requests on one
call.  The ticks keep the order of the code's four times and no more: the overlap
(0) is shorter than the time an unfinished call is read again (1), which is shorter
than the days after which a call is too old (2), and time (up to 2) goes far enough
for a lease (1) to be outlived and for each of the others to run out; with these
values a call too old to be read again is met only where it is too old to be
asked about, so the first of the two conditions of `ReadInTime` is
the one that shows.  With two Twilio calls and two runs at once, one call logged by hand may be
joined twice, which is outside this instance.

The bounds `Rows`, `MaxIds`, `MaxWrites`, `MaxMishaps`, `MaxPersons`, `MaxItems`,
`MaxEdits`, `MaxUpsets`, `MaxChanges`, `MaxFailures`, `MaxRequests`, `MaxByHand`,
`MaxBusy` and `LastTick` only stop what would otherwise go on without end.

Deadlock is not checked: with every enrollment ended, every write settled and
every item closed the system has nothing left to do, and a bound reached
stops it as well.

**Fairness.**  Engine: strong fairness on an open transaction's commit and on a
request's remaining calls, unless its process crashes; a waiting lock request is
enabled and disabled as others take the lock, and Postgres grants locks in
turn.  Strong fairness on the worker's tick of each row, which runs every minute
and is restarted with its process (`crash`, `LiveSpec`); `release` needs the
requests' fairness only (`RequestSpec`).  Nothing is assumed about what people do,
nor about the end date.  `StepsGoOn` asks for a next step on a published calendar up
to the campaign's end date, for a completion whenever it is.  Outbox: weak fairness on each process's items and the batch's claims, as the
worker retries every due row at every tick.  ColdContact: weak fairness on the
steps of a job, strong fairness on taking an item, as the queue runs at every
tick, and weak fairness on the ten minutes of a claim.  Evidence: weak
fairness on a job's steps, strong fairness on the delivery of an event that is
not whole (the sync lists the record again) and on the catch-up, which ends
every tick.  NextActions: weak fairness on a request's steps, on the worker's
passes and on the sync's reading of each person; `ChangesReachTwenty` needs the
queue's order besides, since fairness alone would let a refused row be tried for
ever.  PersonCache: weak fairness on the pass and on the coming of the next day,
none on webhooks.  Calls: weak fairness on time, on the worker's import, on the
steps of a run and of a request.  `FormsAreAsked` is about calls that a good run
begins to read in time (`ReadInTime`): that the worker is not down for seven days is
its hypothesis and not an assumption of the model.  Nothing is assumed about what reps do, and
`Ownership` has safety properties only.  Crashes are never
fair, and a bound on them only means that they do not happen for ever.

## 4. What is proved

`EngineProofs` holds, for every set of processes, people, accounts and campaigns,
every number of steps, actions and rows and every setting, with `EngineAssumption`
(the constants' types: cold contacts have no account, an account is not
`NoAccount`, ...) as the only assumption, and for the last three a hypothesis on
the requests that arrive.  Rows that slipped past a lock (section 2) are left out
where a comment of the property says so:

* `TypeCorrect`: `Spec => []TypeOK`;
* `EngineInvariant`: `Spec => []EngineInv`;
* `StoppedIsStopped`: a stopped campaign has no open task;
* `OpensWhereAllowed`: no step opens a task for a blocked account, an opted-out
  cold contact, or a campaign that is not running;
* `ResolvedForGood`: no step opens a task that was done, skipped or cancelled,
  except that the undo of a move opens those which that move cancelled;
* `PausedIsPaused`: nobody is active in a paused or stopped campaign, if
  `"move"` and `"enroll"` are not among the `Requests`;
* `CompletedIsDone`: a completed enrollment has no open task, if `"finish"` is not;
* `StepsInTurn`: in shift mode all open tasks of an enrollment are of its
  current step, if `"move"` is not.

`StoppedCampaignHasNoOpenTasks` is not inductive: an advance that has read the
campaign as running inserts its tasks a step later, and nothing in the statement
says that the campaign cannot have been stopped meanwhile.  What makes it true
is the lock, so `EngineInv` adds what the locks keep.  Locks exclude each other
(`LocksAreExclusive`).  A generating transaction holds all of `AdvanceLocks`, and
what it read under them is still true (`GeneratorsHoldTheirLocks`, `MayStep`):
stopping or pausing needs the campaign's lock, blocking the account's, opting
out a cold contact's.  An open task belongs to an enrollment that exists
(`OpenTasksHaveEnrollments`): otherwise a new row could be put into a stopped
campaign over old tasks.  An undo holds its contact and restores only who did not opt
out (`UndosHoldTheirContact`).  `WritesAreResolutions` says that the other
transactions write only resolved states.  For `ResolvedForGood` the two commits that
open tasks are enough (`WhatOpens`): a generation's opens tasks that did not exist,
an undo's those that read `LEFT`, and only a move's commit writes that.  The proof takes the actions one by
one; each disturbs one or two of the conjuncts, and the lemmas say how locks
and writes combine.

The last three say what the lock on the campaign achieves, and their hypotheses
name the handlers that go without it: `moveToStep` and a late addition check the
campaign before their transaction (`engine/outcomes.ts:188`), and a
finish by hand cancels the tasks it read (`engine/enrollment.ts:326`).  With those among
the requests the three are false, which is why the runs that check them
leave them out as well.  `Base` is `EngineInv` and `CampaignsHeld`: a completion and a
resume hold their campaign's lock too, and what they read of its status still
stands (`HolderKept`).  `RowMoves` lists the ways a step can change an
enrollment, and each theorem adds what is open in between.  The last two also need
what a move leaves behind (`LeftBehind`): a row with `LEFT` tasks is nobody's to work
on, since a generation or completion of a cold contact's row holds the contact as
the move and the undo do (`WorksAlone`), and only a transaction that had read the
row before can bring it back, which slips:

* `PausedIsPaused`: a pause or stop changes the campaign and its active
  enrollments in one step, so only starting or resuming one can break the
  invariant, and both know the campaign's status from under its lock or
  write it themselves;
* `CompletedIsDone`: a completion began with nothing open, and tasks open only by
  the commit of a generation, which cannot be of the same
  enrollment (`Apart`), or of an undo, which cannot either as it needs the contact,
  so nothing opens meanwhile; this covers hold mode, where steps overlap;
* `StepsInTurn`: in shift mode a generation that is not forced starts from a step that
  is done, and since all open tasks are of that step, with nothing
  open (`GeneratesWhenClear`); without moves nothing is forced (`Unforced`, on
  the calls due as well as those a commit will add).  What an undo opens is of the
  current step because what a move leaves behind is, and its row's step stands still
  meanwhile (`OpensInTurn`, `StepStays`).

`EvidenceProofs` holds, for every set of processes, emails and records, every
number of steps and of failures, with `EvidenceAssumption` only:

* `EvidenceTypeCorrect`: `Spec => []TypeOK`;
* `EventsHaveOneReader`: no event is read by two processes at once;
* `UsedOnce`: `Spec => []EvidenceUsedOnce`.

`OneReaderPerEvent` alone is not inductive: a second process might hold the claim
of an event that is being read.  `ReadersTookTheirEvents` says that whoever reads
an event has left it in "reading", and that whoever is about to take one took
down another result; the claim is conditioned on that result, so it succeeds
only where nobody reads (`TakingIsExclusive`), and the result is written by
the only reader as it stops (`FinishingIsLast`).

Nothing in the database keeps `EvidenceUsedOnce`; what does is that all who hold one
record go for the same step.  `UsedInv` says so: whoever tries to close a step tries
the earliest open one its record fits (`TriesFirst`), so two that are about to close
open steps by one record close the same one (`OneFirstFit`), and the conditional
update lets one of them through.  For a delivery this follows from its list: no
open step before a listed one is missing (`ListsWhole`), and since steps open in order
(`StepsInOrder`) none can turn up later.  For a catch-up it does not follow, and
the attempt at the proof showed the property false there even without a pause; the
history variable `passed` marks where (section 5).

`OwnershipProofs` holds, for every set of processes, reps, leaders, pods, contacts
and forms and every number of requests, with `OwnershipAssumption` only (`None` is
none of them, contacts are not forms, everyone starts in a pod):

* `InvariantHolds`: `Spec => []OInv`;
* `TypeCorrect`: `Spec => []TypeOK`;
* `CampaignsKeepSomeone`: a campaign of a rep without access has a contact that
  reads as unclaimed;
* `OwnershipImplementsHoldings`: `Spec => HeldUntilGiven`, the refinement.

`CampaignsHaveSomeone` looks at the contact's owner and at who has access, but what
keeps it true is what a transaction knows.  `OInv` adds: what each request is
about (`AllFit`); what a transaction read under its locks and is still so when it
commits (`AllKnow`: an assign's contact still has the owner the page showed, a
claim's contact is still nobody's, a removal's replacement still has access, a
removal without a replacement still leaves no campaign); that no two transactions
lock one contact or one user (`AllApart`), which is why others cannot undo that
knowledge; and `WorkFollows`, the inductive form of the property: a campaign of
somebody without access is with a contact that is theirs or nobody's.  The foreign key's wait
(`KeyShare`) is used where a write names a user who is being removed.

The refinement maps a thing's holder to the contact's owner or to whom the form
waits for, `left` to the reps ever removed, and a leader's `page` to what an assign
or a hand-over of a form saw.  `AskAssign` and `AskHand` are `Look`, a refusal or
rollback of one is `LookAway`, a commit of one is `Give`; a claim, a first write, a
launch or a pod taken off is `Take`; removal is `Leave` (a rehoming changes pods
only, so it is a stutter); `Restore` is `Return`, a form filled is `Finish`, and
everything else a stutter.  `StepMaps` puts them together, and `AllKnow` is
what makes `Give` and `Take` allowed.

`OutboxProofs` holds, for every set of processes, tasks and Twenty tasks, every
number of writes and mishaps and both settings, with `OutboxAssumption` only:

* `OutboxTypeCorrect`: `Spec => []TypeOK`;
* `NotesAreKept`: `Spec => []NothingIsLost`;
* `EchoesCompleteNothing`: `Spec => []DoneIsSomebodysWork` if `RemoveOnSkip`, the
  default setting (with the other one the sentence fails, see section 5);
* `DiscardsStand`: `Spec => DiscardStands`.

`NothingIsLost` says that a completed task's note is in Twenty, in a row of the
outbox, or with a process.  Every step moves it from one to the next, and
`OInv` says that it is always the same note: an item that carries a row is about
that row's call and task, a store reports a call that did happen (`ItemFits`),
a row settled as OK was answered (`WriteFits`), a task's link leads to a Twenty
task that is its own (`TaskFits`, `CrmFits`).  For the echoes, `WorkFits` follows the
one chain that could complete a task nobody did: Twenty's tasks are closed only for
done ones, so a "done" event is about a task somebody did.  `Grows` collects what no step of
anyone takes back, and is why one process cannot disturb what another carries.

`ContactProofs` holds, for every set of processes, contacts and persons and every
number of moves, with `ColdContactAssumption` only:

* `ContactTypeCorrect`: `Spec => []TypeOK`;
* `OptOutStands`: `Spec => []OptOutOutlivesUndo`;
* `OptedOutStay`: `Spec => OptedOutNeverMoves`;
* `OnePersonEach`: `Spec => []OnePersonPerContact`: a contact has one person in the
  CRM, or the two of one call the client sent twice;
* `ContactsLiveAsPromised`: `Spec => LivesAsPromised`, the refinement, which the run
  checks; `OptedOutNeverMoves`, one of its consequences, is only proved.

`CInv` relates a job to its item and contact (`JobsFit`, `ItemsHaveContacts`) and
says that exactly a moved contact has a person, and that one that opted out is
not active (`ContactsFit`).  An opt-out in the CRM touches whoever became that person, which is
safe because only a moved contact has one; an undo brings the contact back by `BackAs`;
and the last step of a move tests the state again under the lock
(`completeLocally`), which is what makes `OptedOutNeverMoves` hold however far
the move had come.  `ClaimInv`, for the last theorem, speaks of whose a move is: while no claim
has been outlived, an item that is being moved and a claim that has not run out are of
one process, one item of a contact is in flight (`ClaimsFit`), and a process about to
create the person has found none for its key, or, when the client is about to send
the request again, none but the one its first attempt made (`FoundNoOther`); so a new
person is the only one or the twin of the only one (`OneNew`).  A claim outlived
breaks this, and `OnePersonPerContact` is stated without one.

The refinement goes row by row.  `NextLives` shows, action by action, that a step
leaves every row as `ContactLife` sees it, or changes one row as one of its
actions says (`RowMoves`, `RowReturns`, `RowStops`, `RowLifts`, `RowRemoves`);
`LivesMaps` turns that into the abstract action.  `completeLocally` is `Move`,
`restoreLocally` is `Return`, an opt-out of the contact, of its person or of its
twin and an erase are `Stop`, or a stutter when it was heard already; all else
of the queue, the CRM and the campaigns is a stutter.  It needs one more
invariant, `LinksFit`: an opt-out of a person reaches one contact at most, since no
two contacts have one person, and who reads as opted out is, while who was removed
is not; `LinksKept` shows it of the rows' changes alone.

`CacheProofs` holds, for every set of people, every number of changes and failures,
with `PersonCacheAssumption`:

* `CacheTypeCorrect`: `Spec => []TypeOK`, whatever fails;
* `CleanUpSpares`: `Spec /\ RecordsAreStored => []NobodyWrittenOff`;
* `WatermarksAreSafe`: `Spec /\ RecordsAreStored => []WatermarkSkipsNothing`;
* `DeletionsStand`: `Spec /\ RecordsAreStored => DeletedStaysDeleted`.

`RecordsAreStored` (no failure of a single record) is a hypothesis because without it
they are false: a record that cannot be stored is skipped, and its row is written
off (`person-cache.ts:272`, section 5).  Stopped listings and restarts are
in.  What the code relies on is time: `CInv` says that each row, delivery and
page holds something read of its record now or earlier (`RowsFit`, `MailFits`,
`PageFits`), and for each stage of a pass what it has still to bring (`ToCome`,
`UpdateToCome`, `DeletionToCome`): whoever a listing has passed and whose
change is stamped before the pass began has it in the row.  A change made
after the pass began is stamped after the watermark it will save, so it is nobody's
loss; that is the reason the watermark is the pass's start.

`CallsProofs` holds, for every finite set of Twilio calls, every set of importers, tabs
and touches and every bound, with `CallsAssumption`:

* `CallsTypeCorrect`: `Spec => []TypeOK`, with one row for a Twilio call;
* `OneFormEach`: `Spec => []OneFormPerCall`;
* `TouchStays`: `Spec => []ClosedStepKeepsItsTouch`.

A closed step keeps its touch because a touch is deleted only with its own call, and only
when that call is discarded without a form.  So `CInv` says whose each touch is
(`Own`), in the rows, in what a request or a run carries, and at the step
(`TouchesFit`); and `Keeps` says what every step leaves to the others.  That there is a free row
for a call not stored yet is a count of the rows (`HandsBounded`).  The attempt at
the proof showed `TouchesFit` to be false where two imports overlap beyond the lease
and join two Twilio calls to one call logged by hand: the row then changes its call.
This takes two Twilio calls and lies outside the runs' instances; the history
variable `rejoined` marks it, and `ClosedStepKeepsItsTouch` is stated for
behaviours without it.

`NextActionsProofs` holds, for every set of users, rows and people, every number of
days, edits and mishaps, with `NextActionsAssumption`:

* `NextActionsTypeCorrect`: `Spec => []TypeOK`: types, the order by
  `updatedAt`, and at most one open task of a person;
* `DoneOnce`: `Spec => []OccurrenceDoneOnce`;
* `FieldsCarry`: `Spec => []FieldsCarryTheTask`.

Two invariants.  `Base` holds always: one open task of a person (`OneOpen`), what a
request read of its row and still stands while nobody has written it (`JobFits`,
with `fresh`), the day it is due not yet done as often as it fell due (`RowFits`), and the
rows the worker's pass has seen (`SeenFits`).  `Straight` holds until two
changes of a person cross.  It says that an open task without anything to send
agrees with Twenty, or Twenty was edited since and the worker will follow it
(`RowTrue`); that without a task Twenty's date is blank (`ClosedTrue`); and what each push may rely on
(`JobTrue`): what it sent stands until it is settled (`Landed`), nobody
edited the fields under it (`NotBehind`), and nothing else of the person was
settled before it was sent (`AllWait`, `OneRow`).

`FieldsCarryTheTask` was found false by that proof in its earlier form, which took
only pushes as changes on their way: a set request finds the person's open task and is
held up; another set is saved and pushed; the date is edited in Twenty, and the
cache refreshed; then the first one saves, writes its own date over the edit in the
cached copy, and the worker's pass follows a date nobody
chose.  The trace has 26 steps, two users, three requests and one edit, more than the run's
bounds.  `Sending` now counts such a request.  For the same reason `older` is a
relation and not a sequence: what a recursive `SelectSeq` returns is out of
the prover's reach, and the batch is a list of waiting rows, older ones first, with
none older left out (`Longest`).

Every safety invariant and action property the passing runs check is thus proved,
some under a hypothesis named above.  Left to TLC is all liveness (`StepsGoOn`,
`ResumeReleasesEveryone`, `EveryWriteLands`, `MovesSettle`, `SeenTouchesClose`,
`WholeRecordsAreRead`, `ChangesReachTwenty`, `CacheCatchesUp`, `FormsAreAsked`), which
is out of this prover's reach.

## 5. Where the source says otherwise

The run `discarded` ends in a counterexample to a sentence of the source:
"Discarded. It counts nowhere, and you can call again."
(`calls/form-context.ts:158`; line 155 and `schema.prisma:1295` say the same).  The
import reads a call again for ten minutes after it began, and
`upsertImportedCall` does not look at `discardedAt`: finding an ended call
without a touch, it records one (`calls/call-log.ts:174`).

The others were met with these models, by stating the sentence and following TLC's
trace to the code.  They are listed as hazards with a note instead of a run, or named here only.

* "Sequence ended. No more tasks for this person." (`actions/tasks.ts:196`).  A reply
  takes no lock and cancels the tasks it read; an advance in another process that
  had read the enrollment as active inserts the next step's afterwards
  (`engine/enrollment.ts:326,422`; `EndEnrollment`, `GenerateCommit`, `EndCommit`).
  The hard stop at a campaign's end date takes no lock either
  (`engine/tasks.ts:480`; `HardStop`, `BlockCommit`).
* "Resume the campaign to continue" (`engine/outcomes.ts:199`).  A person moved
  ahead while the campaign was paused stays, after its resume, at a step
  without tasks that no advance leaves in shift mode (`engine/outcomes.ts:188`).
* "mirrored Twenty tasks are deleted and recreated" (`DECISIONS.md:91`).  With
  `deleteMirroredTaskOnSkip` off and the id field written, delegating a task closes
  its mirror, and the webhook of that closing completes the task
  (`engine/delegate.ts:42`).  `DoneIsSomebodysWork` is checked with the default
  settings, where it does not happen.
* "the person is opted out for good" (`outreach/transitions.ts:256`).  An
  opt-out from the post-call form keeps its source through an erase and can then
  be lifted (lines 279 and 311).
* "Counted once.  One email or call is one touch, however it reaches Cadence"
  (`DECISIONS.md:945`).  The step a touch counted for is stored after the
  completion has committed, advanced and been mirrored; the note of the same
  email judged in between is free and closes the next step
  (`engine/observed-evidence.ts:174`).
* "those two fields always carry it" (`next-actions.ts:24`).  Two pushes of one
  person may cross on their way; the older lands last and settles nothing, since
  its row has changed, and no row is pending (line 217).  `FieldsCarryTheTask`
  is stated for behaviours without such a crossing.
* "The contact's work moves with it" (`outreach/transfer.ts:20`).  Who will work a
  cold next step is read before the contact is locked (`actions/sandbox.ts:136`);
  a transfer in between leaves the step with the former owner (`AskNext`,
  `CommitNext`).  `Holdings` therefore speaks of contacts and forms, not of next
  steps.
* A record of the daily listing that cannot be stored is counted and skipped
  (`person-cache.ts:272`), and its row, untouched, is then marked deleted
  (line 295) although Twenty returned it (`Failures` with `"record"`).

`EvidenceUsedOnce` is stated until a catch-up goes on past an open step (`passed`).
Two processes that judge one record try the earliest open step it fits, so its
conditional update decides; but a catch-up works through the steps that had a touch when it
began, and takes for each the oldest touch free by then.  With two emails and
three steps: the catch-up's list has steps 2 and 3, thanks to one email, which a rep
then gives as the reason for marking step 1 done; at step 2 it finds no free touch and goes on;
now a webhook records the other email and judges it for step 2, the catch-up
finds the same record for step 3, both look whether it was used before either
writes, and it closes both steps: `evidenceId` has no unique index
(`engine/tasks.ts:286`).  A campaign paused when the catch-up comes to a step and
resumed before the next has the same effect.  `ResumeReleasesEveryone` is
checked without crashes and up to an error: the loop that releases everyone is not one
transaction and nothing repeats it (`engine/campaigns.ts:41`), and when one of its
people has been enrolled elsewhere since the pause, the unique index refuses their
resume (`engine/enrollment.ts:378`), nothing catches the error, and everybody after
them stays paused in a running campaign until it is paused and resumed again.
`RewriteCommit` puts those it leaves into `dropped`; `ResumeAll`, the next release,
takes them out.

The undo of a move reads `campaign.status` and then writes ACTIVE by id without the
campaign's lock (`sandbox/move.ts:901-903`): a pause or stop in between leaves
somebody running, with open tasks, in a paused or stopped campaign.  And a pause by
hand that read a cold contact's enrollment before it moved writes PAUSED over the
move's EXITED: the row can then be resumed, advanced and completed while its
contact is in the CRM, without the contact's lock.  Both are in the model, were found by its checks, and are the
rows marked `slipped`.

Three more were met in reading: a webhook whose process dies after recording the
event leaves it without a result, and every later delivery takes it for a
duplicate (`engine/ingest.ts:82`; `WholeRecordsAreRead` leaves such events out);
retention says that it keeps a contact with a move in flight
(`sandbox/retention.ts:16`) and does not look; and retrying a failed move treats
a contact held by another move as failed for good where its comment says it is
left alone (`sandbox/move.ts:712`).

"Retries without a second person" is what the steps of a move are ordered for
(`sandbox/move.ts:566`), and between attempts it holds.  Within one it does not: the
Twenty client sends a request again after an abort, a network error or a 5xx, a
mutation like a query (`twenty/graphql-client.ts:98-144`), so one `createPerson`
whose first answer was lost can create two persons, of which the item knows the
second; a later search finds either.  `OnePersonPerContact` therefore allows the two
of one call and nothing else.

## 6. What is not modelled

`PROJECT.json` lists every component with its status.  Most of the program's lines
are pages, queries, forms, formatting, imports and reports: they read, or write one row
with nothing to race, and are left out on purpose, as are meetings, mail tracking
and enrichment (imports with little state of their own), roles, sign-in and
invitations (the models take the guard's consent as given), and settings other
than those that are constants of a model.  The models cover the code whose order of
steps matters, which is a small share of the whole by lines.

Within the modelled parts: dates and calendars are reduced to due or not due;
capacity; the order in which one transaction takes its locks (a circular wait is
the database's to break); the Twenty client's own repetition of a request where it
writes notes, tasks and fields (`ColdContact` has that of creating a person, where it
shows); firms, notes and next steps carried along by a move, the company a move
finds or makes in the CRM, and the CRM campaigns a moved contact may be put in; dry
runs; an undo whose process dies, or which the unique index refuses, and whose item
stays UNDOING; that task generation also waits for a contact whose move is in
flight (`Engine` has the move's last transaction only); inbound replies, cold
contacts' mail and other CRM events in `Evidence`; next-action and Do-not-contact
writes in the outbox, and a database error in the very write that should put a failed
call there (`engine/sync-out.ts:73` swallows it); the stamp of an erase in `ColdContact`, which only pages read; cold contacts' next steps in `NextActions` (whose they are is in
`Ownership`), categories, labels apart from dates; bulk forms of requests, and
`outreach/release.ts` with the contacts that have been quiet for long, in
`Ownership`, and the listing of what a leader of a pod may see; companies in
`PersonCache`, which run the same code, a deleted person restored in Twenty, and the pods
and suppressions looked up on the way; in `Calls` the intents a click leaves, who a
call was with, incoming and unmatched calls, recordings, and the next step and
opt-out a form may set.

Not modelled at all: suppression, deduplication and contactability, which are
pure decisions over keys and come into the models as free choices; the Bellwether
API; planning and capacity.

## 7. Plan

Done: the engine with its inductive invariant and first theorems, the outbox,
outbound evidence, next actions, the person cache, calls and forms, and, each with
an abstract specification and the proof that it implements it, cold contacts and
moves, and ownership.  What remains, by weight:

1. `Evidence`: inbound replies and the steps they end, the reread pass, and the
   same touch in a cold contact's mail.
2. `Pushes`: idempotency keys and the sweep of stuck pushes.
3. Pure rules as operators against reference definitions: suppression and
   contactability, deduplication, planning and capacity.
4. An abstract delivery promise for `Outbox`, with the proof that the module
   implements it.
