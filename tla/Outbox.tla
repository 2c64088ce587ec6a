------------------------------- MODULE Outbox -------------------------------
(***************************************************************************)
(* Cadence's writes to Twenty: the open task mirrored as a Twenty task, the*)
(* note on a completed one (engine/sync-out.ts), the TwentyWrite outbox of *)
(* writes that failed and its retries (engine/sync-retry.ts), and what     *)
(* Twenty's webhooks about those tasks do on their way back                *)
(* (handleTwentyTask, handleTwentyTaskDeleted of engine/ingest.ts).        *)
(*                                                                         *)
(* A handler first commits its change of the Cadence task and then, after  *)
(* the response, mirrors it: it loads the task, calls Twenty, and stores   *)
(* the id Twenty returned, one item of its process's job at a time.  A call*)
(* is answered, refused, or has its effect and times out.                  *)
(***************************************************************************)
EXTENDS Naturals, Sequences, FiniteSets

CONSTANTS
  Procs,          \* web requests and the worker
  Tasks,          \* Cadence tasks of CRM people
  Nil,
  RemoveOnSkip,   \* settings.sync.deleteMirroredTaskOnSkip
  IdField,        \* settings.sync.writeCadenceTaskIdField
  MaxIds,         \* bound: Twenty tasks ever created
  MaxWrites,      \* bound: rows of the outbox
  MaxMishaps      \* bound: delegations, time-outs, crashes and leases outlived

Ids    == 1 .. MaxIds
WriteIds == 1 .. MaxWrites
Ops    == {"createTask", "createNote", "finishTask", "retireTask"}
Replayable == {"FAILED", "RETRYING"}

ASSUME OutboxAssumption ==
  /\ Nil \notin Ids /\ Nil \notin Tasks /\ Nil \notin Ops
  /\ RemoveOnSkip \in BOOLEAN /\ IdField \in BOOLEAN
  /\ MaxIds \in Nat \ {0} /\ MaxWrites \in Nat \ {0} /\ MaxMishaps \in Nat

VARIABLES
  task,     \* Cadence task -> [state, mirror (twentyTaskId), noted (twentyNoteId)]
  crm,      \* Twenty task id -> [of (the Cadence task it mirrors), status]
  notes,    \* Cadence task -> completion notes Twenty holds for it
  write,    \* outbox row -> [op, task, id, status, overdue (its lease has passed)]
  job,      \* process -> what it has still to do
  events,   \* Twenty's webhooks not yet processed: <<id, what happened>>
  worked,   \* tasks a person reported done, in Cadence or in Twenty
  dropped,  \* tasks whose mirroring died with its process
  mishaps

vars == <<task, crm, notes, write, job, events, worked, dropped, mishaps>>

TaskRow  == [state : {"NONE", "PENDING", "DONE", "SKIPPED"}, mirror : Ids \cup {Nil},
             noted : BOOLEAN]
CrmTask  == [of : Tasks \cup {Nil}, status : {"absent", "TODO", "DONE", "deleted"}]
WriteRow == [op : Ops \cup {Nil}, task : Tasks \cup {Nil}, id : Ids \cup {Nil},
             status : {"NONE", "OK", "DISCARDED"} \cup Replayable, overdue : BOOLEAN]
Item == [do : {"create", "complete", "resolve", "check", "send", "store", "finish"},
         op : Ops \cup {Nil}, task : Tasks, id : Ids \cup {Nil}, row : 0 .. MaxWrites]

NoWrite == [op |-> Nil, task |-> Nil, id |-> Nil, status |-> "NONE", overdue |-> FALSE]
ItemOf(do, op, t, id, row) == [do |-> do, op |-> op, task |-> t, id |-> id, row |-> row]
Load(do, t) == ItemOf(do, Nil, t, Nil, 0)
SendNow(op, t, id) == ItemOf("send", op, t, id, 0)

Init == /\ task = [t \in Tasks |-> [state |-> "NONE", mirror |-> Nil, noted |-> FALSE]]
        /\ crm = [i \in Ids |-> [of |-> Nil, status |-> "absent"]]
        /\ notes = [t \in Tasks |-> 0]
        /\ write = [w \in WriteIds |-> NoWrite]
        /\ job = [p \in Procs |-> <<>>]
        /\ events = {} /\ worked = {} /\ dropped = {} /\ mishaps = 0

-----------------------------------------------------------------------------
(* The changes of a Cadence task that are mirrored. *)

Idle(p) == job[p] = <<>>
Start(p, items) == Idle(p) /\ job' = [job EXCEPT ![p] = items]
Mishap == mishaps < MaxMishaps /\ mishaps' = mishaps + 1

Generate(p, t) ==
  /\ task[t].state = "NONE"
  /\ task' = [task EXCEPT ![t].state = "PENDING"]
  /\ Start(p, <<Load("create", t)>>)
  /\ UNCHANGED <<crm, notes, write, events, worked, dropped, mishaps>>

Complete(p, t) ==
  /\ task[t].state = "PENDING"
  /\ task' = [task EXCEPT ![t].state = "DONE"]
  /\ worked' = worked \cup {t}
  /\ Start(p, <<Load("complete", t)>>)
  /\ UNCHANGED <<crm, notes, write, events, dropped, mishaps>>

(* Skipped, or cancelled with its enrollment. *)
Skip(p, t) ==
  /\ task[t].state = "PENDING"
  /\ task' = [task EXCEPT ![t].state = "SKIPPED"]
  /\ Start(p, <<Load("resolve", t)>>)
  /\ UNCHANGED <<crm, notes, write, events, worked, dropped, mishaps>>

(* Delegated or reassigned: the old mirror is retired, a new one created.  *)
Delegate(p, t) ==
  /\ task[t].state = "PENDING" /\ Mishap
  /\ task' = [task EXCEPT ![t].mirror = Nil]
  /\ Start(p, (IF task[t].mirror = Nil THEN <<>> ELSE <<SendNow("retireTask", t, task[t].mirror)>>)
                \o <<Load("create", t)>>)
  /\ UNCHANGED <<crm, notes, write, events, worked, dropped>>

-----------------------------------------------------------------------------
(* A process's job.  Loading reads the task as it then is and decides which*)
(* calls to make.                                                          *)

SendsFor(item) ==
  LET t == item.task
      row == task[t]
  IN CASE item.do = "create" ->
            IF row.mirror = Nil /\ row.state = "PENDING" THEN <<SendNow("createTask", t, Nil)>> ELSE <<>>
       [] item.do = "complete" ->
            (IF row.noted THEN <<>> ELSE <<SendNow("createNote", t, Nil)>>)
              \o (IF row.mirror = Nil THEN <<>> ELSE <<SendNow("finishTask", t, row.mirror)>>)
       [] item.do = "resolve" ->
            IF row.mirror = Nil THEN <<>> ELSE <<SendNow("retireTask", t, row.mirror)>>

Reload(p) ==
  /\ ~Idle(p) /\ Head(job[p]).do \in {"create", "complete", "resolve"}
  /\ job' = [job EXCEPT ![p] = SendsFor(Head(@)) \o Tail(@)]
  /\ UNCHANGED <<task, crm, notes, write, events, worked, dropped, mishaps>>

(* A mirrored task is only worth creating while the Cadence task is open.  *)
Check(p) ==
  LET item == Head(job[p])
      wanted == task[item.task].state = "PENDING" /\ task[item.task].mirror = Nil
  IN /\ ~Idle(p) /\ item.do = "check"
     /\ job' = [job EXCEPT ![p] = <<[item EXCEPT !.do = IF wanted THEN "send" ELSE "finish"]>>
                                    \o Tail(@)]
     /\ UNCHANGED <<task, crm, notes, write, events, worked, dropped, mishaps>>

Live(i) == crm[i].status \in {"TODO", "DONE"}
FreeIds == {i \in Ids : crm[i].status = "absent"}

(* Mutation: a retired mirror is always closed, never deleted. *)
ClosedInstead(op, i) == [crm EXCEPT ![i].status = "DONE"]

(* Twenty's record after a finishing or a retiring call. *)
AfterCall(op, i) ==
  [crm EXCEPT ![i].status = IF op = "retireTask" /\ RemoveOnSkip THEN "deleted" ELSE "DONE"]

(* What a call does in Twenty; i: the task it is about, or the one it makes. *)
Effect(item, i) ==
  \/ /\ item.op = "createNote" /\ i = Nil
     /\ notes' = [notes EXCEPT ![item.task] = @ + 1]
     /\ UNCHANGED <<crm, events>>
  \/ /\ item.op = "createTask" /\ i \in FreeIds /\ \A j \in FreeIds : i <= j
     /\ crm' = [crm EXCEPT ![i] = [of |-> item.task, status |-> "TODO"]]
     /\ UNCHANGED <<notes, events>>
  \/ /\ item.op \in {"finishTask", "retireTask"} /\ i = item.id /\ Live(i)
     /\ crm' = AfterCall(item.op, i)
     /\ events' = events \cup {<<i, crm'[i].status>>}
     /\ UNCHANGED notes

Sending(p) == ~Idle(p) /\ Head(job[p]).do = "send"

Answered(p) ==
  /\ Sending(p)
  /\ \E i \in Ids \cup {Nil} :
       /\ Effect(Head(job[p]), i)
       /\ job' = [job EXCEPT ![p] = <<[Head(@) EXCEPT !.do = "store", !.id = i]>> \o Tail(@)]
  /\ UNCHANGED <<task, write, worked, dropped, mishaps>>

(* postpone: unless it was discarded or finished meanwhile. *)
PutBack(w) == IF write[w].status \in Replayable
                THEN [write EXCEPT ![w].status = "FAILED", ![w].overdue = FALSE]
                ELSE write

(* Mutation: only a call about a Twenty task is kept. *)
KeepTasksOnly(item, w) ==
  [write EXCEPT ![w] = IF item.op = "createNote" THEN [NoWrite EXCEPT !.status = "OK"]
                       ELSE [op |-> item.op, task |-> item.task, id |-> item.id,
                             status |-> "FAILED", overdue |-> FALSE]]

(* Mutation: a kept write takes its task's word for waiting. *)
KeepPending(item, w) ==
  [write EXCEPT ![w] = [op |-> item.op, task |-> item.task, id |-> item.id,
                        status |-> "PENDING", overdue |-> FALSE]]

(* reportFailure: the write is kept with what it needs to be made again.   *)
Keep(item, w) ==
  [write EXCEPT ![w] = [op |-> item.op, task |-> item.task, id |-> item.id,
                        status |-> "FAILED", overdue |-> FALSE]]

Failed(p) ==
  LET item == Head(job[p])
  IN /\ IF item.row # 0
          THEN write' = PutBack(item.row)
          ELSE \E w \in WriteIds :
                 /\ write[w].status = "NONE" /\ \A v \in WriteIds : v < w => write[v].status # "NONE"
                 /\ write' = Keep(item, w)
     /\ job' = [job EXCEPT ![p] = Tail(@)]

Refused(p) ==
  /\ Sending(p) /\ Failed(p)
  /\ UNCHANGED <<task, crm, notes, events, worked, dropped, mishaps>>

TimedOut(p) ==
  /\ Sending(p) /\ Mishap
  /\ \E i \in Ids \cup {Nil} : Effect(Head(job[p]), i)
  /\ Failed(p)
  /\ UNCHANGED <<task, worked, dropped>>

(* The id Twenty returned goes on the Cadence task: a first attempt and a  *)
(* replayed createTask overwrite, the other replays change what they expect*)
Linked(item) ==
  LET t == item.task
  IN CASE item.op = "createNote" -> [task EXCEPT ![t].noted = TRUE]
       [] item.op = "createTask" -> [task EXCEPT ![t].mirror = item.id]
       [] item.op = "finishTask" -> task
       [] item.op = "retireTask" ->
            IF item.row = 0 \/ (RemoveOnSkip /\ task[t].mirror = item.id)
              THEN [task EXCEPT ![t].mirror = Nil] ELSE task

(* Mutation: a replay that succeeded is recorded without its claim. *)
SucceededRegardless(item) == IF item.row = 0 THEN write ELSE [write EXCEPT ![item.row].status = "OK"]

(* "Conditioned on the claim: a Discard made while this replay ran stands."*)
Succeeded(item) == IF item.row # 0 /\ write[item.row].status = "RETRYING"
                     THEN [write EXCEPT ![item.row].status = "OK"] ELSE write

Store(p) ==
  /\ ~Idle(p) /\ Head(job[p]).do \in {"store", "finish"}
  /\ task' = IF Head(job[p]).do = "store" THEN Linked(Head(job[p])) ELSE task
  /\ write' = Succeeded(Head(job[p]))
  /\ job' = [job EXCEPT ![p] = Tail(@)]
  /\ UNCHANGED <<crm, notes, events, worked, dropped, mishaps>>

(* The process dies with its job; what it had not yet written is gone.     *)
Crash(p) ==
  /\ ~Idle(p) /\ Mishap
  /\ job' = [job EXCEPT ![p] = <<>>]
  /\ dropped' = dropped \cup {job[p][n].task : n \in {m \in DOMAIN job[p] : job[p][m].row = 0}}
  /\ UNCHANGED <<task, crm, notes, write, events, worked>>

-----------------------------------------------------------------------------
(* The outbox.  A batch reads the clock once, so a claim late in a long    *)
(* batch starts with little of its lease left: it may pass under a replay. *)

(* Mutation: a claim abandoned by its process is never taken over. *)
FailedOnly(w) == write[w].status = "FAILED"

Claimable(w) == \/ write[w].status = "FAILED"
                \/ write[w].status = "RETRYING" /\ write[w].overdue

Claim(p, w) ==
  /\ Claimable(w)
  /\ write' = [write EXCEPT ![w].status = "RETRYING", ![w].overdue = FALSE]
  /\ LET first == IF write[w].op = "createTask" THEN "check" ELSE "send"
     IN Start(p, <<ItemOf(first, write[w].op, write[w].task, write[w].id, w)>>)
  /\ UNCHANGED <<task, crm, notes, events, worked, dropped, mishaps>>

Held(w) == \E p \in Procs : ~Idle(p) /\ Head(job[p]).row = w

LeasePasses(w) ==
  /\ write[w].status = "RETRYING" /\ ~write[w].overdue
  /\ write' = [write EXCEPT ![w].overdue = TRUE]
  /\ IF Held(w) THEN Mishap ELSE UNCHANGED mishaps
  /\ UNCHANGED <<task, crm, notes, job, events, worked, dropped>>

Discard(w) ==
  /\ write[w].status \in Replayable
  /\ write' = [write EXCEPT ![w].status = "DISCARDED"]
  /\ UNCHANGED <<task, crm, notes, job, events, worked, dropped, mishaps>>

-----------------------------------------------------------------------------
(* People work in Twenty too, and Twenty tells Cadence, at some later time *)
(* and in any order, of every task that was marked done or deleted, by them*)
(* or by Cadence itself.                                                   *)

MarkDone(i) ==
  /\ crm[i].status = "TODO"
  /\ crm' = [crm EXCEPT ![i].status = "DONE"]
  /\ events' = events \cup {<<i, "DONE">>}
  /\ worked' = worked \cup {crm[i].of}
  /\ UNCHANGED <<task, notes, write, job, dropped, mishaps>>

DeleteInTwenty(i) ==
  /\ Live(i)
  /\ crm' = [crm EXCEPT ![i].status = "deleted"]
  /\ events' = events \cup {<<i, "deleted">>}
  /\ UNCHANGED <<task, notes, write, job, worked, dropped, mishaps>>

(* The Cadence task a Twenty task is known by. *)
Mirrors(i) == {t \in Tasks : task[t].mirror = i \/ (IdField /\ crm[i].of = t)}

TaskEvent(p, i) ==
  /\ <<i, "DONE">> \in events /\ Idle(p)
  /\ events' = events \ {<<i, "DONE">>}
  /\ \/ \E t \in Mirrors(i) :
          /\ task[t].state = "PENDING"
          /\ task' = [task EXCEPT ![t].state = "DONE"]
          /\ Start(p, <<Load("complete", t)>>)
     \/ /\ \A t \in Mirrors(i) : task[t].state # "PENDING"
        /\ UNCHANGED <<task, job>>
  /\ UNCHANGED <<crm, notes, write, worked, dropped, mishaps>>

DeletedEvent(i) ==
  /\ <<i, "deleted">> \in events
  /\ events' = events \ {<<i, "deleted">>}
  /\ task' = [t \in Tasks |-> IF task[t].mirror = i /\ task[t].state = "PENDING"
                                THEN [task[t] EXCEPT !.mirror = Nil] ELSE task[t]]
  /\ UNCHANGED <<crm, notes, write, job, worked, dropped, mishaps>>

-----------------------------------------------------------------------------

Work(p) == Reload(p) \/ Check(p) \/ Store(p)

Next ==
  \/ \E p \in Procs :
       \/ \E t \in Tasks : Generate(p, t) \/ Complete(p, t) \/ Skip(p, t) \/ Delegate(p, t)
       \/ Work(p) \/ Answered(p) \/ Refused(p) \/ TimedOut(p) \/ Crash(p)
       \/ \E w \in WriteIds : Claim(p, w)
       \/ \E i \in Ids : TaskEvent(p, i)
  \/ \E w \in WriteIds : LeasePasses(w) \/ Discard(w)
  \/ \E i \in Ids : MarkDone(i) \/ DeleteInTwenty(i) \/ DeletedEvent(i)

Spec == Init /\ [][Next]_vars

(* A job goes on until it is done or its process dies; a call returns, and *)
(* Twenty answers again and again; the worker retries at every tick; time  *)
(* passes.                                                                 *)
Fairness == /\ \A p \in Procs : /\ WF_vars(Work(p) \/ Refused(p))
                                /\ SF_vars(Answered(p))
            /\ \A w \in WriteIds : /\ SF_vars(\E p \in Procs : Claim(p, w))
                                   /\ WF_vars(LeasePasses(w))

LiveSpec == Spec /\ Fairness

-----------------------------------------------------------------------------
TypeOK == /\ task \in [Tasks -> TaskRow]
          /\ crm \in [Ids -> CrmTask]
          /\ notes \in [Tasks -> Nat]
          /\ write \in [WriteIds -> WriteRow]
          /\ job \in [Procs -> Seq(Item)]
          /\ events \subseteq Ids \X {"DONE", "deleted"}
          /\ worked \subseteq Tasks /\ dropped \subseteq Tasks
          /\ mishaps \in 0 .. MaxMishaps

(* A completed task is reported to Twenty or its note waits in the outbox: *)
(* a note that was refused or timed out is never forgotten (unless the     *)
(* process died before it could say so).                                   *)
NoteIsOnItsWay(t) ==
  \/ notes[t] > 0
  \/ \E w \in WriteIds : write[w].op = "createNote" /\ write[w].task = t /\ write[w].status # "OK"
  \/ \E p \in Procs : \E n \in DOMAIN job[p] :
       job[p][n].task = t /\ (job[p][n].do = "complete" \/ job[p][n].op = "createNote")
NothingIsLost == \A t \in Tasks \ dropped : task[t].state = "DONE" => NoteIsOnItsWay(t)

(* Cadence's own writes, coming back as webhooks, never complete a task:   *)
(* what is done was reported done by a person, here or in Twenty.          *)
DoneIsSomebodysWork == \A t \in Tasks : task[t].state = "DONE" => t \in worked

(* "The CRM will not receive this write": a discarded write stays discarded*)
(* whatever a replay that was already running reports.                     *)
DiscardStands == [][\A w \in WriteIds :
    write[w].status = "DISCARDED" => write'[w].status = "DISCARDED"]_vars

(* "The write is not lost": one that failed lands, or is discarded, or is  *)
(* about a Twenty record that is gone, even if processes die replaying it. *)
Settled(w) == \/ write[w].status \notin Replayable
              \/ write[w].id # Nil /\ ~Live(write[w].id)
EveryWriteLands == \A w \in WriteIds : ~Settled(w) ~> Settled(w)
=============================================================================
