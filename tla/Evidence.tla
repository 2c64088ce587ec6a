------------------------------ MODULE Evidence ------------------------------
(***************************************************************************)
(* How an email or call seen in Twenty closes a step: the intake of events *)
(* (ingestEvent of engine/ingest.ts), the touch each one records, and the  *)
(* step the touch counts for (engine/observed-evidence.ts, completeTask),  *)
(* for one person with one campaign running.                               *)
(*                                                                         *)
(* One real email reaches Cadence as several records (the synced message,  *)
(* the note a tool logs for it), each as several events (the record itself,*)
(* the link that attaches its person), each delivered again and again by   *)
(* webhooks and by the reconcile.  A delivery is a job of its process that *)
(* takes the code's database steps one at a time.                          *)
(***************************************************************************)
EXTENDS Naturals

CONSTANTS
  Procs,       \* webhook requests and the worker
  Worker,      \* the one whose ticks run the scheduler, one at a time
  Emails,      \* emails or calls that really happened
  Records,     \* messages and notes Twenty has about them
  EmailOf,     \* record -> the email it is about (sameTouch finds the others)
  SentAt,      \* record -> occurredAt
  NumTasks,    \* the steps of the campaign, one email or call each
  OpensAt,     \* task -> windowStart: what happens from then on counts for it
  Nil,
  MaxMishaps   \* bound: deliveries and jobs that fail or die

Tasks == 1 .. NumTasks
Keys  == Records \X {"record", "link"}    \* dedupeKey
Ref(S) == S \cup {Nil}

ASSUME EvidenceAssumption ==
  /\ Worker \in Procs
  /\ EmailOf \in [Records -> Emails] /\ SentAt \in [Records -> Nat]
  /\ NumTasks \in Nat /\ OpensAt \in [Tasks -> Nat]
  /\ Nil \notin Tasks \cup Records \cup Emails \cup Keys
  /\ MaxMishaps \in Nat

VARIABLES
  linked,   \* records whose person Twenty has attached
  event,    \* dedupe key -> the ActivityEvent's result
  touch,    \* record -> [seen (its Touch row), counted (countedForTaskId)]
  task,     \* task -> [state, evidence (evidenceId), hand (the email behind a Done by hand)]
  paused,   \* the campaign is paused
  resumed,  \* it was paused and resumed before (bounds the pauses to one)
  job,      \* process -> [do, key, result, rec, task, open]
  passed,   \* history: a catch-up took a touch for a step past an open one it fits
  mishaps

vars == <<linked, event, touch, task, paused, resumed, job, passed, mishaps>>

Results  == {"none", "reading", "incomplete", "done"}   \* "reading": processedAt and result null
TouchRow == [seen : BOOLEAN, counted : Ref(Tasks)]
TaskRow  == [state : {"NONE", "PENDING", "DONE", "SKIPPED"}, evidence : Ref(Records),
             hand : Ref(Emails)]
Job == [do : {"idle", "create", "claim", "read", "list", "judge", "check", "write", "count",
              "finish", "catch"},
        key : Ref(Keys), result : Results, rec : Ref(Records), task : Ref(Tasks),
        open : SUBSET Tasks]

NoJob == [do |-> "idle", key |-> Nil, result |-> "none", rec |-> Nil, task |-> Nil, open |-> {}]

Init ==
  /\ linked = {}
  /\ event = [k \in Keys |-> "none"]
  /\ touch = [r \in Records |-> [seen |-> FALSE, counted |-> Nil]]
  /\ task = [t \in Tasks |-> [state |-> "NONE", evidence |-> Nil, hand |-> Nil]]
  /\ paused = FALSE /\ resumed = FALSE
  /\ job = [p \in Procs |-> NoJob] /\ passed = FALSE /\ mishaps = 0

-----------------------------------------------------------------------------
At(p, step) == job[p].do = step
Go(p, step) == job' = [job EXCEPT ![p].do = step]
Begin(p, j) == At(p, "idle") /\ job' = [job EXCEPT ![p] = j]
End(p)      == job' = [job EXCEPT ![p] = NoJob]
Mishap == mishaps < MaxMishaps /\ mishaps' = mishaps + 1

Open == {t \in Tasks : task[t].state = "PENDING"}
InWindow(r, t) == SentAt[r] >= OpensAt[t]

(* A delivery is done with; a catch-up goes on with its next task. *)
Answer(p, result) == job' = [job EXCEPT ![p] =
  IF job[p].key = Nil THEN [NoJob EXCEPT !.do = "catch", !.open = job[p].open]
  ELSE [NoJob EXCEPT !.do = "finish", !.key = job[p].key, !.result = result]]

-----------------------------------------------------------------------------
(* ingestEvent: is it a duplicate?  A result that means the record was not *)
(* whole is read again, by whoever claims the event on that very result.   *)

(* Mutation: what was not whole is a result like any other. *)
NeverRead(k) == event[k] = "none"

ToBeRead(k) == event[k] \in {"none", "incomplete"}

Deliver(p, k) ==
  /\ k[2] = "link" => k[1] \in linked
  /\ ToBeRead(k)
  /\ Begin(p, [NoJob EXCEPT !.do = IF event[k] = "none" THEN "create" ELSE "claim",
                            !.key = k, !.result = event[k], !.rec = k[1]])
  /\ UNCHANGED <<linked, event, touch, task, paused, resumed, passed, mishaps>>

(* Mutation: the event is taken whatever its result is by now. *)
TakenRegardless(p) == TRUE

(* The unique dedupeKey, and the update conditioned on (id, result). *)
StillUnread(p) == event[job[p].key] = job[p].result

TakeEvent(p) ==
  /\ At(p, "create") \/ At(p, "claim")
  /\ \/ /\ StillUnread(p)
        /\ event' = [event EXCEPT ![job[p].key] = "reading"]
        /\ job' = [job EXCEPT ![p].do = "read", ![p].result = "none"]
     \/ ~StillUnread(p) /\ End(p) /\ UNCHANGED event
  /\ UNCHANGED <<linked, touch, task, paused, resumed, passed, mishaps>>

(* handleNote, handleMessage: read whole, its touch upserted. *)
Read(p) ==
  /\ At(p, "read")
  /\ \/ /\ job[p].rec \in linked
        /\ touch' = [touch EXCEPT ![job[p].rec].seen = TRUE]
        /\ Go(p, "list")
     \/ /\ job[p].rec \notin linked
        /\ Answer(p, "incomplete") /\ UNCHANGED touch
  /\ UNCHANGED <<linked, event, task, paused, resumed, passed, mishaps>>

Finish(p) ==
  /\ At(p, "finish")
  /\ event' = [event EXCEPT ![job[p].key] = job[p].result]
  /\ End(p)
  /\ UNCHANGED <<linked, touch, task, paused, resumed, passed, mishaps>>

-----------------------------------------------------------------------------
(* closeFromTouch: the open steps first, then whether the touch is free.   *)

ListTasks(p) ==
  /\ At(p, "list")
  /\ \/ ~paused /\ job' = [job EXCEPT ![p].do = "judge", ![p].open = Open]
     \/ paused /\ Answer(p, "done")
  /\ UNCHANGED <<linked, event, touch, task, paused, resumed, passed, mishaps>>

(* judgeTouch: the task this touch counts for already, if any: its own, the*)
(* one it closed, a second record's, or the one its email was the Done of. *)
CountedFor(r) ==
  {touch[r].counted} \cup {t \in Tasks : task[t].evidence = r}
    \cup {touch[u].counted : u \in {v \in Records \ {r} : EmailOf[v] = EmailOf[r]}}
    \cup {t \in Tasks : /\ task[t].state = "DONE" /\ task[t].evidence = Nil
                        /\ task[t].hand = EmailOf[r]
                        /\ \A u \in Records : touch[u].counted # t}

IsFree(r) == CountedFor(r) \subseteq {Nil}

(* Mutation: the touch is stored as the step's instead of the step as its. *)
CountedBackwards(r, t) == [touch EXCEPT ![r].counted = r]

(* claim: only where no step is stored yet. *)
Counted(r, t) == [touch EXCEPT ![r].counted = IF @ = Nil THEN t ELSE @]

(* Mutation: any open step of the window, not the earliest. *)
AnyOf(S) == S

Earliest(S) == {t \in S : \A u \in S : t <= u}

Judge(p) ==
  LET r == job[p].rec
      fits == {t \in job[p].open : InWindow(r, t)}
  IN /\ At(p, "judge")
     /\ \/ /\ ~IsFree(r)
           /\ \E t \in CountedFor(r) \ {Nil} : touch' = Counted(r, t)
           /\ Answer(p, "done")
        \/ /\ IsFree(r) /\ fits = {}
           /\ Answer(p, "done") /\ UNCHANGED touch
        \/ /\ IsFree(r)
           /\ \E t \in Earliest(fits) : job' = [job EXCEPT ![p].do = "check", ![p].task = t,
                                                                  ![p].open = {}]
           /\ UNCHANGED touch
     /\ UNCHANGED <<linked, event, task, paused, resumed, passed, mishaps>>

(* completeTask: what its transaction reads, and its conditional update.   *)
Check(p) ==
  LET refused == \/ task[job[p].task].state # "PENDING"
                 \/ \E t \in Tasks : task[t].evidence = job[p].rec
                 \/ paused
  IN /\ At(p, "check")
     /\ IF refused THEN Answer(p, "done") ELSE Go(p, "write")
     /\ UNCHANGED <<linked, event, touch, task, paused, resumed, passed, mishaps>>

Write(p) ==
  LET t == job[p].task
  IN /\ At(p, "write")
     /\ \/ /\ task[t].state = "PENDING"
           /\ task' = [task EXCEPT ![t].state = "DONE", ![t].evidence = job[p].rec]
           /\ Go(p, "count")
        \/ task[t].state # "PENDING" /\ Answer(p, "done") /\ UNCHANGED task
     /\ UNCHANGED <<linked, event, touch, paused, resumed, passed, mishaps>>

(* After the completion, its advance and its mirroring. *)
Count(p) ==
  /\ At(p, "count")
  /\ touch' = Counted(job[p].rec, job[p].task)
  /\ Answer(p, "done")
  /\ UNCHANGED <<linked, event, task, paused, resumed, passed, mishaps>>

-----------------------------------------------------------------------------
(* catchUpObservedEvidence, at every tick of the scheduler: the open steps *)
(* some uncounted touch fits; each takes its oldest free one.              *)

Uncounted(t) == {r \in Records : touch[r].seen /\ touch[r].counted = Nil /\ InWindow(r, t)}

(* Mutation: only touches whose event was finished. *)
CandidatesRead == {t \in Open : \E r \in Uncounted(t) : event[<<r, "record">>] = "done"
                                                     /\ \A u \in Tasks : task[u].evidence # r}

Candidates == {t \in Open : \E r \in Uncounted(t) : \A u \in Tasks : task[u].evidence # r}

CatchUp(p) ==
  /\ p = Worker
  /\ ~paused /\ Candidates # {}
  /\ Begin(p, [NoJob EXCEPT !.do = "catch", !.open = Candidates])
  /\ UNCHANGED <<linked, event, touch, task, paused, resumed, passed, mishaps>>

Oldest(S) == {r \in S : \A u \in S : SentAt[r] <= SentAt[u]}

(* A step before t that r fits is open: a catch-up's candidates are those  *)
(* of its start, and one found without a free touch is not looked at again.*)
PassesOver(r, t) == \E u \in Open : u < t /\ InWindow(r, u)

(* Touches met on the way that count already are stored as such.           *)
CatchNext(p) ==
  /\ At(p, "catch")
  /\ \/ job[p].open = {} /\ End(p) /\ UNCHANGED <<touch, passed>>
     \/ \E t \in Earliest(job[p].open) :
          LET free == {r \in Uncounted(t) : IsFree(r)}
              before == {r \in Uncounted(t) \ free : \A u \in free : SentAt[r] <= SentAt[u]}
          IN /\ \E counts \in [before -> Tasks] :
                  /\ \A r \in before : counts[r] \in CountedFor(r)
                  /\ touch' = [r \in Records |-> IF r \in before
                                 THEN [touch[r] EXCEPT !.counted = counts[r]] ELSE touch[r]]
             /\ \/ /\ free = {}
                   /\ job' = [job EXCEPT ![p].open = @ \ {t}] /\ UNCHANGED passed
                \/ \E r \in Oldest(free) :
                     /\ job' = [job EXCEPT ![p].do = "check", ![p].rec = r, ![p].task = t,
                                           ![p].open = @ \ {t}]
                     /\ passed' = (passed \/ PassesOver(r, t))
  /\ UNCHANGED <<linked, event, task, paused, resumed, mishaps>>

-----------------------------------------------------------------------------
(* Around it: the steps of the campaign open in order (two of one step, or *)
(* two that are due, are open at once), people mark them done or skip them,*)
(* the campaign is paused, Twenty attaches people.                         *)

Advance(t) ==
  /\ task[t].state = "NONE" /\ ~paused
  /\ \A u \in Tasks : u < t => task[u].state # "NONE"
  /\ task' = [task EXCEPT ![t].state = "PENDING"]
  /\ UNCHANGED <<linked, event, touch, paused, resumed, job, passed, mishaps>>

MarkDone(t, e) ==
  /\ task[t].state = "PENDING" /\ ~paused
  /\ \A u \in Tasks : task[u].hand # e
  /\ task' = [task EXCEPT ![t].state = "DONE", ![t].hand = e]
  /\ UNCHANGED <<linked, event, touch, paused, resumed, job, passed, mishaps>>

Skip(t) ==
  /\ task[t].state = "PENDING" /\ ~paused
  /\ task' = [task EXCEPT ![t].state = "SKIPPED"]
  /\ UNCHANGED <<linked, event, touch, paused, resumed, job, passed, mishaps>>

(* Bound: one pause. *)
PauseOrResume ==
  /\ ~resumed
  /\ paused' = ~paused /\ resumed' = paused
  /\ UNCHANGED <<linked, event, touch, task, job, passed, mishaps>>

Link(r) ==
  /\ r \notin linked
  /\ linked' = linked \cup {r}
  /\ UNCHANGED <<event, touch, task, paused, resumed, job, passed, mishaps>>

(* Twenty or the database fails: ingestEvent records the error, which is   *)
(* read again; a catch-up just ends.                                       *)
Fails(p) ==
  /\ job[p].do \notin {"idle", "create", "claim", "finish"} /\ Mishap
  /\ IF job[p].key = Nil THEN End(p) ELSE Answer(p, "incomplete")
  /\ UNCHANGED <<linked, event, touch, task, paused, resumed, passed>>

Dies(p) ==
  /\ ~At(p, "idle") /\ Mishap
  /\ End(p)
  /\ UNCHANGED <<linked, event, touch, task, paused, resumed, passed>>

-----------------------------------------------------------------------------
JobStep(p) == \/ TakeEvent(p) \/ Read(p) \/ Finish(p) \/ ListTasks(p) \/ Judge(p)
              \/ Check(p) \/ Write(p) \/ Count(p) \/ CatchNext(p)

Next == \/ \E p \in Procs : JobStep(p) \/ CatchUp(p) \/ Fails(p) \/ Dies(p)
        \/ \E p \in Procs, k \in Keys : Deliver(p, k)
        \/ \E t \in Tasks : Advance(t) \/ Skip(t) \/ \E e \in Emails : MarkDone(t, e)
        \/ \E r \in Records : Link(r)
        \/ PauseOrResume

Spec == Init /\ [][Next]_vars

(* Jobs go on; Twenty's listings deliver what changed again and again; the *)
(* scheduler ticks.                                                        *)
Fairness == /\ \A p \in Procs : WF_vars(JobStep(p))
            /\ \A k \in Keys : SF_vars(\E p \in Procs : Deliver(p, k))
            /\ SF_vars(CatchUp(Worker))
LiveSpec == Spec /\ Fairness

-----------------------------------------------------------------------------
TypeOK == /\ linked \subseteq Records
          /\ event \in [Keys -> Results]
          /\ touch \in [Records -> TouchRow]
          /\ task \in [Tasks -> TaskRow]
          /\ paused \in BOOLEAN /\ resumed \in BOOLEAN
          /\ job \in [Procs -> Job]
          /\ passed \in BOOLEAN /\ mishaps \in 0 .. MaxMishaps

(* "Evidence is single-use": one record never completes two tasks, though  *)
(* its events and the catch-up judge it in several processes at once, two  *)
(* steps are open and no index says so.  What keeps it is that everyone    *)
(* tries the earliest open step that the record fits.  A catch-up may not: *)
(* its steps are those of its start, and it goes on past one that was held *)
(* by a pause then or had no free touch when it came by.  Until one has,   *)
(* no record closes two.                                                   *)
EvidenceUsedOnce == ~passed => \A t, u \in Tasks :
  (t # u /\ task[t].evidence # Nil) => task[t].evidence # task[u].evidence

(* Two deliveries of one event, a retry included, are never read at once.  *)
Reading(p, k) == job[p].key = k /\ job[p].do \notin {"idle", "create", "claim"}
OneReaderPerEvent == \A k \in Keys, p, q \in Procs :
  (Reading(p, k) /\ Reading(q, k)) => p = q

(* Inductive with TypeOK: whoever reads an event has put it in "reading",  *)
(* and nobody takes an event on that result.                               *)
ReadersTookTheirEvents == \A p \in Procs :
  /\ \A k \in Keys : Reading(p, k) => event[k] = "reading"
  /\ (At(p, "create") \/ At(p, "claim")) => job[p].result \in {"none", "incomplete"}

(* A touch that was seen and counts for nothing closes the open step it    *)
(* fits, also when the process that recorded it failed or died, or the     *)
(* campaign was paused then.                                               *)
Waits(r, t) == /\ task[t].state = "PENDING" /\ r \in Uncounted(t) /\ ~paused
               /\ \A u \in Tasks : task[u].evidence # r
SeenTouchesClose == \A r \in Records, t \in Tasks : Waits(r, t) ~> ~Waits(r, t)

(* A record that came before its person was attached is read again once it *)
(* is, unless the process reading it dies, which leaves its event without a*)
(* result for good.                                                        *)
Abandoned(k) == event[k] = "reading" /\ \A p \in Procs : ~Reading(p, k)
WholeRecordsAreRead == \A r \in Records :
  r \in linked ~> (touch[r].seen \/ \E k \in {r} \X {"record", "link"} : Abandoned(k))
=============================================================================
