----------------------------- MODULE NextActions -----------------------------
(***************************************************************************)
(* A CRM person's next action (next-actions.ts): set, done, moved and      *)
(* stopped in Cadence, written to the two fields Twenty has for it, and    *)
(* followed back from Twenty by the worker.                                *)
(*                                                                         *)
(* A request is a job of its process that takes the code's database and    *)
(* CRM steps one at a time; its push to Twenty runs after its response.    *)
(* The label and the date are one value here, the due day: both are sent   *)
(* and followed together.                                                  *)
(***************************************************************************)
EXTENDS Integers, Sequences, FiniteSets

CONSTANTS
  Users,       \* web requests under way at once
  Worker,      \* the worker's process
  Rows,        \* NextAction rows that may be created
  Persons,
  Already,     \* rows that are open to begin with: in step with Twenty, or refused by it
  Owner,       \* row -> whose it is, of these
  Broken,      \* persons Twenty refuses every write to (deleted or merged there)
  LastDay,     \* bound: due days are 1 .. LastDay
  Repeats,     \* the kinds of task set: one-off (FALSE), repeating (TRUE)
  Batch,       \* "take" of syncNextActions
  Worked,      \* bound: the persons whose tasks are changed
  MaxEdits,    \* bound: requests
  MaxUpsets,   \* bound: edits made in Twenty, jobs that die, calls whose answer is lost
  Nil

Procs == Users \cup {Worker}
Days  == 1 .. LastDay
Blank == 0                                   \* the two fields hold nothing
Kinds == {"set", "done", "move", "stop", "pass"}

ASSUME NextActionsAssumption ==
  /\ Worker \notin Users /\ Broken \subseteq Persons /\ Worked \subseteq Persons
  /\ Repeats \subseteq BOOLEAN
  /\ LastDay \in Nat \ {0} /\ Batch \in Nat \ {0}
  /\ MaxEdits \in Nat /\ MaxUpsets \in Nat
  /\ Already \subseteq Rows /\ Owner \in [Already -> Persons]
  /\ \A r, s \in Already : Owner[r] = Owner[s] => r = s
  /\ Nil \notin Rows \cup Persons \cup Kinds

VARIABLES
  na,      \* row -> the NextAction row
  older,   \* <<r, s>>: row r has an older updatedAt than row s
  crm,     \* person -> [due, at]: the fields in Twenty and Twenty's updatedAt
  ours,    \* person -> Cadence wrote the fields last
  cache,   \* person -> [due, at]: personCache's copy of crm
  job,     \* process -> the request or pass it runs
  now,     \* the number of writes Twenty has taken: its clock
  edits, upsets,
  left,    \* history: row -> day -> how often it was due then, less how often done
  crossed  \* history: two changes of a person crossed on their way to or from Twenty

vars == <<na, older, crm, ours, cache, job, now, edits, upsets, left, crossed>>

States == {"NONE", "OPEN", "DONE", "CANCELLED"}
NaRow  == [state : States, person : Persons \cup {Nil}, due : Days \cup {Blank},
           repeats : BOOLEAN, pending : BOOLEAN, synced : Nat]
Fields == [due : Days \cup {Blank}, at : Nat]
Job == [do : {"idle", "find", "save", "read", "claim", "mirror", "write", "push", "count", "call",
              "settle", "copy", "fail", "follow"},
        what : Kinds \cup {Nil},
        row : Rows \cup {Nil}, person : Persons \cup {Nil}, due : Days \cup {Blank},
        state : States, seen : Days \cup {Blank}, repeats : BOOLEAN, fresh : BOOLEAN,
        todo : Seq(Rows), list : SUBSET [row : Rows, due : Days, synced : Nat, crm : Fields]]

NoJob == [do |-> "idle", what |-> Nil, row |-> Nil, person |-> Nil, due |-> Blank, state |-> "NONE",
          seen |-> Blank, repeats |-> FALSE, fresh |-> FALSE, todo |-> <<>>, list |-> {}]
NoRow == [state |-> "NONE", person |-> Nil, due |-> Blank, repeats |-> FALSE, pending |-> FALSE, synced |-> 0]

(* o puts the rows of S one after the other. *)
Orders(o, S) ==
  /\ o \subseteq S \X S
  /\ \A r \in S, s \in S : r # s => (<<r, s>> \in o <=> <<s, r>> \notin o)
  /\ \A r \in S : <<r, r>> \notin o
  /\ \A r \in S, s \in S, t \in S : <<r, s>> \in o /\ <<s, t>> \in o => <<r, t>> \in o

Init ==
  /\ na = [r \in Rows |-> IF r \in Already
                          THEN [NoRow EXCEPT !.state = "OPEN", !.person = Owner[r], !.due = 1,
                                             !.repeats = TRUE, !.synced = 1,
                                             !.pending = Owner[r] \in Broken]
                          ELSE NoRow]
  /\ older \in {o \in SUBSET (Already \X Already) : Orders(o, Already)}
  /\ ours = [p \in Persons |-> \E r \in Already : Owner[r] = p]
  /\ crm = [p \in Persons |-> [due |-> IF ours[p] THEN 1 ELSE Blank, at |-> 1]]
  /\ cache = crm
  /\ job = [p \in Procs |-> NoJob]
  /\ now = 1
  /\ edits = 0 /\ upsets = 0
  /\ left = [r \in Rows |-> [d \in Days |-> IF na[r].due = d THEN 1 ELSE 0]]
  /\ crossed = FALSE

-----------------------------------------------------------------------------
OpenOf(p) == {r \in Rows : na[r].state = "OPEN" /\ na[r].person = p}
Created   == {r \in Rows : na[r].state # "NONE"}

(* The jobs once process p, now at step j, has written row r: whoever read *)
(* the row before holds an older updatedAt.                                *)
JobsAfter(p, r, j) ==
  [q \in Procs |-> IF q = p THEN j
                   ELSE [job[q] EXCEPT !.fresh = @ /\ job[q].row # r]]

(* Mutation: a row keeps its place in the queue. *)
Later_InPlace(r) == IF r \in Created THEN older ELSE older \cup (Created \X {r})

(* Prisma stamps updatedAt on every write: the row goes to the end.        *)
Later(r) == {o \in older : r \notin {o[1], o[2]}} \cup ((Created \ {r}) \X {r})
Save(p, r, row, j) ==
  /\ na' = [na EXCEPT ![r] = row]
  /\ older' = Later(r)
  /\ job' = JobsAfter(p, r, j)

Go(p, j) == job' = [job EXCEPT ![p] = j]
At(p, do) == job[p].do = do
To(p, do) == [job[p] EXCEPT !.do = do]

(* After the response the request pushes its row; the worker goes on with  *)
(* the rows it listed, then with those to follow.                          *)
Passing(p) == job[p].what = "pass"
Left(p, todo) == IF Passing(p) THEN [NoJob EXCEPT !.do = "push", !.what = "pass", !.todo = todo]
                 ELSE NoJob
Rest(p) == Left(p, job[p].todo)

-----------------------------------------------------------------------------
(* Requests. *)

Begin(u) ==
  /\ u \in Users /\ At(u, "idle") /\ edits < MaxEdits
  /\ edits' = edits + 1
  /\ \/ \E p \in Worked, d \in Days, rep \in Repeats :
          Go(u, [NoJob EXCEPT !.do = "find", !.what = "set", !.person = p, !.due = d, !.repeats = rep])
     \/ \E r \in Rows :
          /\ na[r].state # "NONE" /\ na[r].person \in Worked
          /\ \/ Go(u, [NoJob EXCEPT !.do = "read", !.what = "done", !.row = r, !.seen = na[r].due])
             \/ \E d \in Days : Go(u, [NoJob EXCEPT !.do = "read", !.what = "move", !.row = r, !.due = d])
             \/ Go(u, [NoJob EXCEPT !.do = "read", !.what = "stop", !.row = r])
  /\ UNCHANGED <<na, older, crm, ours, cache, now, upsets, left, crossed>>

(* The worker's sync sees an email go to the person: closeEmailNextAction  *)
(* does the task as it found it.                                           *)
EmailSeen ==
  /\ At(Worker, "idle") /\ edits < MaxEdits
  /\ edits' = edits + 1
  /\ \E r \in Rows : /\ na[r].state = "OPEN" /\ na[r].person \in Worked
                    /\ Go(Worker, [NoJob EXCEPT !.do = "read", !.what = "done", !.row = r,
                                               !.seen = na[r].due])
  /\ UNCHANGED <<na, older, crm, ours, cache, now, upsets, left, crossed>>

(* setNextActions: the open task of the person, if any. *)
SetFind(p) ==
  /\ At(p, "find")
  /\ LET open == OpenOf(job[p].person)
     IN  Go(p, [job[p] EXCEPT !.do = "save",
                              !.row = IF open = {} THEN Nil ELSE CHOOSE r \in open : TRUE])
  /\ UNCHANGED <<na, older, crm, ours, cache, now, edits, upsets, left, crossed>>

(* The task falls due on a day, its other days being counted so far.       *)
Due(r, day, counted) ==
  [left EXCEPT ![r] = IF day = Blank THEN counted ELSE [counted EXCEPT ![day] = counted[day] + 1]]

Mirror(p, due) == cache' = [cache EXCEPT ![p].due = due]

(* ... replaced, by id and whatever became of it, or created; the unique   *)
(* index on open tasks refuses a second one and the request fails.         *)
SetSave(p) ==
  LET j == job[p]
      free == {r \in Rows : na[r].state = "NONE"}
      Given(r) == [na[r] EXCEPT !.due = j.due, !.repeats = j.repeats, !.pending = TRUE]
      Push(r) == [NoJob EXCEPT !.do = "push", !.what = "set", !.row = r]
  IN
  /\ At(p, "save")
  /\ \/ /\ j.row # Nil
        /\ Save(p, j.row, Given(j.row), Push(j.row))
        /\ Mirror(j.person, j.due)
        /\ left' = Due(j.row, j.due, left[j.row])
     \/ /\ j.row = Nil /\ OpenOf(j.person) = {} /\ free # {}
        /\ LET r == CHOOSE r \in free : TRUE
           IN /\ Save(p, r, [Given(r) EXCEPT !.state = "OPEN", !.person = j.person], Push(r))
              /\ left' = Due(r, j.due, left[r])
        /\ Mirror(j.person, j.due)
     \/ /\ j.row = Nil /\ (OpenOf(j.person) # {} \/ free = {})
        /\ Go(p, NoJob)
        /\ UNCHANGED <<na, older, cache, left>>
  /\ UNCHANGED <<crm, ours, now, edits, upsets, crossed>>

(* completeNextAction, moveNextAction, stopNextAction: the row as read.    *)
ReadRow(p) ==
  LET j == job[p]  row == na[j.row]
      refused == row.state # "OPEN" \/ (j.what = "done" /\ j.seen # row.due)
  IN
  /\ At(p, "read")
  /\ Go(p, IF refused THEN NoJob
           ELSE IF j.what = "done"
                THEN [j EXCEPT !.do = "claim", !.due = row.due, !.repeats = row.repeats,
                               !.person = row.person]
                ELSE [j EXCEPT !.do = "write", !.person = row.person])
  /\ UNCHANGED <<na, older, crm, ours, cache, now, edits, upsets, left, crossed>>

(* Mutation: the next date may fall beyond the calendar. *)
NextOn_Beyond(due) == due + 1

(* nextOccurrence; past the bound on days there is none, and the task closes. *)
NextOn(due) == IF due < LastDay THEN due + 1 ELSE Blank

(* Mutation: the claim asks only whether the row is still open. *)
CanClaim_AnyDay(r, due) == na[r].state = "OPEN"

(* ... done: claimed only while it is open and due the day it was read.    *)
CanClaim(r, due) == na[r].state = "OPEN" /\ na[r].due = due
Claim(p) ==
  LET j == job[p]  r == j.row
      next == IF j.repeats THEN NextOn(j.due) ELSE Blank
  IN
  /\ At(p, "claim")
  /\ \/ /\ CanClaim(r, j.due)
        /\ left' = Due(r, next, [left[r] EXCEPT ![j.due] = left[r][j.due] - 1])
        /\ Save(p, r, IF next # Blank
                      THEN [na[r] EXCEPT !.due = next, !.pending = TRUE]
                      ELSE [na[r] EXCEPT !.state = "DONE", !.pending = TRUE],
                [j EXCEPT !.do = "mirror", !.due = next])
     \/ /\ ~ CanClaim(r, j.due)
        /\ Go(p, NoJob) /\ UNCHANGED <<na, older, left>>
  /\ UNCHANGED <<crm, ours, cache, now, edits, upsets, crossed>>

(* moveNextAction and stopNextAction: written by id, whatever it is now.   *)
WriteRow(p) ==
  LET j == job[p]  r == j.row IN
  /\ At(p, "write")
  /\ \/ /\ j.what = "move"
        /\ Save(p, r, [na[r] EXCEPT !.due = j.due, !.pending = TRUE],
                [j EXCEPT !.do = "push"])
        /\ left' = Due(r, j.due, left[r])
     \/ /\ j.what = "stop"
        /\ Save(p, r, [na[r] EXCEPT !.state = "CANCELLED", !.pending = TRUE],
                [j EXCEPT !.do = "mirror", !.due = Blank])
        /\ UNCHANGED left
  /\ UNCHANGED <<crm, ours, cache, now, edits, upsets, crossed>>

(* mirrorToPerson: a newer open task keeps the fields.                     *)
MirrorRow(p) ==
  LET j == job[p] IN
  /\ At(p, "mirror")
  /\ IF j.due = Blank /\ OpenOf(j.person) # {} THEN UNCHANGED cache ELSE Mirror(j.person, j.due)
  /\ Go(p, To(p, "push"))
  /\ UNCHANGED <<na, older, crm, ours, now, edits, upsets, left, crossed>>

-----------------------------------------------------------------------------
(* pushNextAction. *)

(* The worker's pass: the rows that wait longest, a batch of them.         *)
Waiting == {r \in Rows : na[r].pending}
Longest(todo) ==
  /\ \A i, k \in DOMAIN todo : i < k => <<todo[i], todo[k]>> \in older
  /\ \A r \in Waiting \ {todo[i] : i \in DOMAIN todo} :
       Len(todo) = Batch /\ \A i \in DOMAIN todo : <<todo[i], r>> \in older
StartPass ==
  /\ At(Worker, "idle")
  /\ \E n \in 0 .. Batch : \E todo \in [1 .. n -> Waiting] :
       /\ Longest(todo)
       /\ Go(Worker, [NoJob EXCEPT !.do = "push", !.what = "pass", !.todo = todo])
  /\ UNCHANGED <<na, older, crm, ours, cache, now, edits, upsets, left, crossed>>

Unsent(r) == [due |-> IF na[r].state = "OPEN" THEN na[r].due ELSE Blank, state |-> na[r].state]
PushRead(p) ==
  LET j == job[p]
      r == IF Passing(p) THEN Head(j.todo) ELSE j.row
      read == [j EXCEPT !.row = r, !.todo = IF Passing(p) THEN Tail(j.todo) ELSE j.todo,
                        !.person = na[r].person, !.due = Unsent(r).due, !.state = na[r].state,
                        !.fresh = TRUE]
  IN
  /\ At(p, "push") /\ (Passing(p) => j.todo # <<>>)
  /\ Go(p, IF ~ na[r].pending THEN Left(p, read.todo)
           ELSE [read EXCEPT !.do = IF na[r].state = "OPEN" THEN "call" ELSE "count"])
  /\ UNCHANGED <<na, older, crm, ours, cache, now, edits, upsets, left, crossed>>

(* A newer open task of the person owns the fields.                        *)
PushCount(p) ==
  LET j == job[p] IN
  /\ At(p, "count")
  /\ \/ /\ OpenOf(j.person) # {}
        /\ Save(p, j.row, [na[j.row] EXCEPT !.pending = FALSE, !.synced = now], Rest(p))
     \/ /\ OpenOf(j.person) = {}
        /\ Go(p, To(p, "call")) /\ UNCHANGED <<na, older>>
  /\ UNCHANGED <<crm, ours, cache, now, edits, upsets, left, crossed>>

Pushing(p) == {q \in Procs : job[q].do \in {"count", "call", "settle", "fail"} /\ job[q].person = p}
Sending(p) == {q \in Procs : job[q].do \in {"save", "mirror", "push", "copy"} /\ job[q].person = p} \cup Pushing(p)

TwentyTakes(p, due, us) ==
  /\ now' = now + 1
  /\ crm' = [crm EXCEPT ![p] = [due |-> due, at |-> now + 1]]
  /\ ours' = [ours EXCEPT ![p] = us]

(* setPersonNextAction: taken and answered, taken with its answer lost, or *)
(* refused.                                                                *)
PushCall(p) ==
  LET j == job[p] IN
  /\ At(p, "call")
  /\ \/ /\ j.person \notin Broken
        /\ TwentyTakes(j.person, j.due, TRUE)
        /\ crossed' = (crossed \/ Pushing(j.person) # {p} \/ ~ j.fresh)
        /\ \/ Go(p, To(p, "settle")) /\ UNCHANGED upsets
           \/ /\ upsets < MaxUpsets /\ upsets' = upsets + 1
              /\ Go(p, To(p, "fail"))
     \/ /\ j.person \in Broken
        /\ Go(p, To(p, "fail"))
        /\ UNCHANGED <<crm, ours, now, upsets, crossed>>
  /\ UNCHANGED <<na, older, cache, edits, left>>

(* Mutation: the push clears the mark whatever changed meanwhile. *)
StillAsRead_Anyway(p) == TRUE

StillAsRead(p) == job[p].fresh
(* Cleared only if nothing changed meanwhile: a newer change goes on the   *)
(* next pass.                                                              *)
PushSettle(p) ==
  LET j == job[p] IN
  /\ At(p, "settle")
  /\ IF StillAsRead(p) THEN Save(p, j.row, [na[j.row] EXCEPT !.pending = FALSE, !.synced = now], To(p, "copy"))
     ELSE Go(p, To(p, "copy")) /\ UNCHANGED <<na, older>>
  /\ UNCHANGED <<crm, ours, cache, now, edits, upsets, left, crossed>>

PushCopy(p) ==
  /\ At(p, "copy")
  /\ Mirror(job[p].person, job[p].due)
  /\ Go(p, Rest(p))
  /\ UNCHANGED <<na, older, crm, ours, now, edits, upsets, left, crossed>>

(* crmError is stored, which stamps updatedAt: the row waits at the end.   *)
PushFail(p) ==
  LET j == job[p] IN
  /\ At(p, "fail")
  /\ IF StillAsRead(p) THEN older' = Later(j.row) /\ job' = JobsAfter(p, j.row, Rest(p))
     ELSE Go(p, Rest(p)) /\ UNCHANGED older
  /\ UNCHANGED <<na, crm, ours, cache, now, edits, upsets, left, crossed>>

-----------------------------------------------------------------------------
(* syncNextActions: follow what people changed in Twenty. *)

Behind(row, fields) == fields.at > row.synced
ListOpen ==
  /\ At(Worker, "push") /\ Passing(Worker) /\ job[Worker].todo = <<>>
  /\ LET list == {[row |-> r, due |-> na[r].due, synced |-> na[r].synced, crm |-> cache[na[r].person]] :
                   r \in {x \in Rows : na[x].state = "OPEN" /\ ~ na[x].pending
                                       /\ Behind(na[x], cache[na[x].person])}}
     IN  Go(Worker, IF list = {} THEN NoJob
                    ELSE [NoJob EXCEPT !.do = "follow", !.what = "pass", !.list = list])
  /\ UNCHANGED <<na, older, crm, ours, cache, now, edits, upsets, left, crossed>>

Followed(row, seen) ==
  IF seen.crm.due = seen.due THEN [row EXCEPT !.synced = seen.crm.at]
  ELSE IF seen.crm.due = Blank THEN [row EXCEPT !.state = "CANCELLED", !.synced = seen.crm.at]
  ELSE [row EXCEPT !.due = seen.crm.due, !.synced = seen.crm.at]
Moved(row, seen) == row.state # "OPEN" \/ row.pending \/ row.due # seen.due \/ row.synced # seen.synced
Follow ==
  /\ At(Worker, "follow")
  /\ \E seen \in job[Worker].list :
       LET rest == job[Worker].list \ {seen} IN
       /\ Save(Worker, seen.row, Followed(na[seen.row], seen),
               IF rest = {} THEN NoJob ELSE [job[Worker] EXCEPT !.list = rest])
       /\ crossed' = (crossed \/ Moved(na[seen.row], seen))
       /\ left' = IF seen.crm.due = seen.due THEN left ELSE Due(seen.row, seen.crm.due, left[seen.row])
  /\ UNCHANGED <<crm, ours, cache, now, edits, upsets>>

-----------------------------------------------------------------------------
(* The rest of the world. *)

(* Someone changes or clears the date in Twenty.                           *)
EditInTwenty(p) ==
  /\ upsets < MaxUpsets /\ p \notin Broken
  /\ upsets' = upsets + 1
  /\ \E d \in (Days \cup {Blank}) \ {crm[p].due} : TwentyTakes(p, d, FALSE)
  /\ crossed' = (crossed \/ Sending(p) # {})
  /\ UNCHANGED <<na, older, cache, job, edits, left>>

(* The person is read from Twenty and stored (upsertPersonCache).          *)
Refresh(p) ==
  /\ cache[p] # crm[p]
  /\ cache' = [cache EXCEPT ![p] = crm[p]]
  /\ UNCHANGED <<na, older, crm, ours, job, now, edits, upsets, left, crossed>>

(* A process dies with its job.                                            *)
Die(p) ==
  /\ ~ At(p, "idle") /\ upsets < MaxUpsets
  /\ upsets' = upsets + 1
  /\ Go(p, NoJob)
  /\ UNCHANGED <<na, older, crm, ours, cache, now, edits, left, crossed>>

-----------------------------------------------------------------------------
Push(p) == PushRead(p) \/ PushCount(p) \/ PushCall(p) \/ PushSettle(p) \/ PushCopy(p) \/ PushFail(p)
Request(p) == SetFind(p) \/ SetSave(p) \/ ReadRow(p) \/ Claim(p) \/ WriteRow(p) \/ MirrorRow(p)
WorkerStep == Request(Worker) \/ StartPass \/ Push(Worker) \/ ListOpen \/ Follow

Next ==
  \/ \E u \in Users : Begin(u) \/ Request(u) \/ Push(u)
  \/ EmailSeen
  \/ WorkerStep
  \/ \E p \in Persons : EditInTwenty(p) \/ Refresh(p)
  \/ \E p \in Procs : Die(p)

Spec == Init /\ [][Next]_vars

(* A request runs on until it answers and has pushed; the worker ticks for *)
(* ever and the continuous sync keeps reading Twenty.                      *)
Fairness ==
  /\ \A u \in Users : WF_vars(Request(u) \/ Push(u))
  /\ WF_vars(WorkerStep)
  /\ \A p \in Persons : WF_vars(Refresh(p))
LiveSpec == Spec /\ Fairness

-----------------------------------------------------------------------------
(* Everything has its type, and a person has at most one open task.        *)
TypeOK ==
  /\ na \in [Rows -> NaRow]
  /\ Orders(older, Created)
  /\ crm \in [Persons -> Fields] /\ cache \in [Persons -> Fields]
  /\ job \in [Procs -> Job]
  /\ left \in [Rows -> [Days -> Int]] /\ now \in Nat /\ ours \in [Persons -> BOOLEAN] /\ crossed \in BOOLEAN
  /\ \A p \in Persons : Cardinality(OpenOf(p)) <= 1

(* Two Dones of one occurrence, from two screens or from a screen and an   *)
(* email, count once, whatever moves, follows and sets happen in between   *)
(* (the conditional update of completeNextAction).                         *)
OccurrenceDoneOnce == \A r \in Rows, d \in Days : left[r][d] >= 0

Quiet(p) ==
  /\ \A q \in Procs : job[q].person # p /\ job[q].do \notin {"save", "follow"}
  /\ \A r \in Rows : na[r].person = p => ~ na[r].pending
  /\ cache[p] = crm[p]
  /\ \A r \in OpenOf(p) : ~ Behind(na[r], cache[p])
Agrees(p) == IF OpenOf(p) = {} THEN ours[p] => crm[p].due = Blank
             ELSE \A r \in OpenOf(p) : crm[p].due = na[r].due

(* Once every change has been sent and followed, Twenty's two fields carry *)
(* the person's open task, or nothing when there is none - as long as no   *)
(* two writes of that person in Twenty crossed.                            *)
FieldsCarryTheTask == ~ crossed => \A p \in Persons : Quiet(p) => Agrees(p)

(* Every change reaches Twenty in the end, however often it has to be      *)
(* tried, and whoever else's task Twenty keeps refusing.                   *)
ChangesReachTwenty ==
  \A r \in Rows : [](na[r].person \notin Broken => <> ~ na[r].pending)

=============================================================================
