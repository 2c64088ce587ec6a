-------------------------- MODULE NextActionsProofs --------------------------
(***************************************************************************)
(* Proofs about NextActions: its types and that a person has at most one   *)
(* open task, that an occurrence is done once, and that Twenty's two fields*)
(* carry the open task unless two changes of the person crossed.           *)
(***************************************************************************)
EXTENDS NextActions, FiniteSetTheorems, SequenceTheorems, TLAPS

Types ==
  /\ na \in [Rows -> NaRow]
  /\ crm \in [Persons -> Fields] /\ cache \in [Persons -> Fields]
  /\ job \in [Procs -> Job]
  /\ left \in [Rows -> [Days -> Int]] /\ now \in Nat
  /\ ours \in [Persons -> BOOLEAN] /\ crossed \in BOOLEAN

(* A task that is open is due on a day it has not been done on as often as *)
(* it was due.                                                             *)
RowFits(r) ==
  /\ na[r].state # "NONE" <=> na[r].person # Nil
  /\ na[r].pending => na[r].state # "NONE"
  /\ na[r].state = "OPEN" => na[r].due \in Days /\ left[r][na[r].due] >= 1
  /\ na[r].synced <= now
  /\ \A d \in Days : left[r][d] >= 0
OneOpen == \A r \in Rows, s \in Rows :
  na[r].state = "OPEN" /\ na[s].state = "OPEN" /\ na[r].person = na[s].person => r = s

(* What a request or a push carries is about its row, and what it read of  *)
(* the row still stands while nobody has written it.                       *)
Pushes  == {"count", "call", "settle", "fail"}
Its(j)  == j.row \in Rows /\ j.person \in Persons /\ na[j.row].person = j.person
AsRead(j) == na[j.row].pending /\ na[j.row].state = j.state /\ j.due = Unsent(j.row).due
JobFits(q) ==
  LET j == job[q] IN
  /\ j.what = "pass" => q = Worker
  /\ j.do \in {"find", "save"} => j.person \in Persons /\ j.due \in Days
  /\ j.do = "save" /\ j.row # Nil => Its(j)
  /\ j.do = "read" => /\ j.row \in Rows /\ na[j.row].state # "NONE"
                      /\ j.what \in {"done", "move", "stop"}
  /\ j.do \in {"read", "write"} /\ j.what = "move" => j.due \in Days
  /\ j.do \in {"claim", "write", "mirror"} \cup Pushes => Its(j)
  /\ j.do = "claim" => j.due \in Days
  /\ j.do = "write" => j.what \in {"move", "stop"}
  /\ j.do \in {"find", "save", "claim", "mirror", "write"} => j.what # "pass"
  /\ j.do = "push" /\ j.what # "pass" => j.row \in Rows /\ na[j.row].state # "NONE"
  /\ j.do = "count" => na[j.row].state # "OPEN" /\ j.due = Blank
  /\ j.do \in Pushes /\ j.fresh => AsRead(j)
  /\ j.do = "copy" => j.person \in Persons
PersonFits(x) == cache[x].at <= crm[x].at /\ crm[x].at <= now

(* The worker lists a row once, with fields newer than it.                 *)
SeenFits(seen) ==
  /\ na[seen.row].state # "NONE" /\ seen.synced < seen.crm.at
  /\ seen.crm.at <= crm[na[seen.row].person].at
  /\ \A o \in job[Worker].list : o.row = seen.row => o = seen
Following == job[Worker].do = "follow"

Base == /\ Types /\ OneOpen
        /\ \A r \in Rows : RowFits(r)
        /\ \A q \in Procs : JobFits(q)
        /\ \A x \in Persons : PersonFits(x)
        /\ Following => \A seen \in job[Worker].list : SeenFits(seen)

-----------------------------------------------------------------------------
(* Jobs, rows and days. *)

LEMMA Basics ==
  /\ Nil \notin Rows /\ Nil \notin Persons /\ Nil \notin Kinds /\ 0 \notin Days /\ Blank = 0
  /\ Worker \in Procs /\ Users \subseteq Procs /\ LastDay \in Nat \ {0} /\ Batch \in Nat
  /\ Days \subseteq Nat /\ 1 \in Days
BY NextActionsAssumption DEF Days, Procs, Blank

LEMMA NoJobIs ==
  /\ NoJob \in Job /\ NoJob.do = "idle" /\ NoJob.what = Nil /\ NoJob.row = Nil /\ NoJob.list = {}
  /\ NoJob.todo = <<>> /\ NoJob.fresh = FALSE
<1>1. <<>> \in Seq(Rows) /\ {} \in SUBSET [row : Rows, due : Days, synced : Nat, crm : Fields]
  BY EmptySeq
<1> QED BY <1>1 DEF NoJob, Job, States, Blank

(* What the steps write into a job or a row keeps its type, and the rest of*)
(* it stays.                                                               *)
Dos == {"save", "claim", "mirror", "write", "push", "count", "call", "settle", "copy", "fail"}
JobTo(a, do)            == [a EXCEPT !.do = do]
JobToRow(a, do, r)      == [a EXCEPT !.do = do, !.row = r]
JobToPerson(a, do, x)   == [a EXCEPT !.do = do, !.person = x]
JobToDue(a, do, d)      == [a EXCEPT !.do = do, !.due = d]
Claiming(a, d, rep, x)  == [a EXCEPT !.do = "claim", !.due = d, !.repeats = rep, !.person = x]
Reading(a, r, l, x, d, st) ==
  [a EXCEPT !.row = r, !.todo = l, !.person = x, !.due = d, !.state = st, !.fresh = TRUE]
GivenTo(o, d, rep)      == [o EXCEPT !.due = d, !.repeats = rep, !.pending = TRUE]
DueOn(o, d)             == [o EXCEPT !.due = d, !.pending = TRUE]
Over(o, st)             == [o EXCEPT !.state = st, !.pending = TRUE]

LEMMA JobDo ==
  ASSUME NEW a \in Job, NEW do \in Dos, NEW j, j = JobTo(a, do)
  PROVE  /\ j \in Job /\ j.do = do /\ j.row = a.row /\ j.person = a.person /\ j.due = a.due
         /\ j.state = a.state /\ j.what = a.what /\ j.fresh = a.fresh
BY DEF Job, Dos, JobTo

LEMMA JobRow ==
  ASSUME NEW a \in Job, NEW r \in Rows \cup {Nil}, NEW do \in Dos, NEW j, j = JobToRow(a, do, r)
  PROVE  j \in Job /\ j.do = do /\ j.row = r /\ j.person = a.person /\ j.due = a.due /\ j.what = a.what
BY DEF Job, Dos, JobToRow

LEMMA JobPerson ==
  ASSUME NEW a \in Job, NEW x \in Persons \cup {Nil}, NEW do \in Dos, NEW j,
         j = JobToPerson(a, do, x)
  PROVE  j \in Job /\ j.do = do /\ j.row = a.row /\ j.person = x /\ j.due = a.due /\ j.what = a.what
BY DEF Job, Dos, JobToPerson

LEMMA JobDue ==
  ASSUME NEW a \in Job, NEW d \in Days \cup {Blank}, NEW do \in Dos, NEW j, j = JobToDue(a, do, d)
  PROVE  j \in Job /\ j.do = do /\ j.row = a.row /\ j.person = a.person /\ j.due = d /\ j.what = a.what
BY DEF Job, Dos, JobToDue

LEMMA RowGiven ==
  ASSUME NEW o \in NaRow, NEW d \in Days, NEW again \in BOOLEAN, NEW row,
         row = GivenTo(o, d, again)
  PROVE  /\ row \in NaRow /\ row.state = o.state /\ row.person = o.person /\ row.due = d
         /\ row.synced = o.synced /\ row.pending
BY DEF NaRow, GivenTo

LEMMA RowDue ==
  ASSUME NEW o \in NaRow, NEW d \in Days, NEW row, row = DueOn(o, d)
  PROVE  /\ row \in NaRow /\ row.state = o.state /\ row.person = o.person /\ row.due = d
         /\ row.synced = o.synced /\ row.pending
BY DEF NaRow, DueOn

LEMMA RowOver ==
  ASSUME NEW o \in NaRow, NEW st \in States, NEW row, row = Over(o, st)
  PROVE  /\ row \in NaRow /\ row.state = st /\ row.person = o.person /\ row.due = o.due
         /\ row.synced = o.synced /\ row.pending
BY DEF NaRow, Over

LEMMA NextOnIs ==
  ASSUME NEW d \in Days
  PROVE  NextOn(d) \in Days \cup {Blank} /\ NextOn(d) # d
BY NextActionsAssumption DEF NextOn, Days, Blank

LEMMA DueIs ==
  ASSUME Types, NEW r \in Rows, NEW d \in Days \cup {Blank}, NEW counted \in [Days -> Int],
         left' = Due(r, d, counted)
  PROVE  /\ left' \in [Rows -> [Days -> Int]] /\ \A s \in Rows : s # r => left'[s] = left[s]
         /\ \A e \in Days : left'[r][e] >= counted[e]
         /\ d \in Days => left'[r][d] = counted[d] + 1
<1> PICK c : c = [counted EXCEPT ![d] = counted[d] + 1]
  OBVIOUS
<1>1. d \in Days => c \in [Days -> Int] /\ c[d] = counted[d] + 1 /\ \A e \in Days : c[e] >= counted[e]
  OBVIOUS
<1>2. CASE d \in Days
  <2>1. left' = [left EXCEPT ![r] = c]
    BY <1>2, Basics DEF Due
  <2> QED BY <1>1, <1>2, <2>1 DEF Types
<1>3. CASE d \notin Days
  <2>1. left' = [left EXCEPT ![r] = counted]
    BY <1>3, Basics DEF Due
  <2> QED BY <1>3, <2>1 DEF Types
<1> QED BY <1>2, <1>3

(* The job q has now is the one it had, perhaps with its row written since.*)
SameJob(q) ==
  LET a == job[q]  b == job'[q] IN
  /\ b.do = a.do /\ b.what = a.what /\ b.row = a.row /\ b.person = a.person /\ b.due = a.due
  /\ b.state = a.state /\ b.list = a.list /\ (b.fresh => a.fresh)

LEMMA Went ==
  ASSUME Types, NEW p \in Procs, NEW j \in Job, Go(p, j)
  PROVE  /\ job' \in [Procs -> Job] /\ job'[p] = j
         /\ \A q \in Procs : q # p => SameJob(q) /\ job'[q].fresh = job[q].fresh
BY DEF Types, Go, SameJob

LEMMA Saved ==
  ASSUME Types, NEW p \in Procs, NEW r \in Rows, NEW j \in Job, job' = JobsAfter(p, r, j)
  PROVE  /\ job' \in [Procs -> Job] /\ job'[p] = j
         /\ \A q \in Procs : q # p => SameJob(q) /\ (job'[q].fresh => job[q].row # r)
<1>1. job \in [Procs -> Job]
  BY DEF Types
<1>2. ASSUME NEW q \in Procs, q # p
      PROVE  job'[q] \in Job /\ SameJob(q) /\ (job'[q].fresh => job[q].row # r)
  <2>1. job'[q] = [job[q] EXCEPT !.fresh = job[q].fresh /\ job[q].row # r]
    BY <1>2 DEF JobsAfter
  <2>2. PICK b \in BOOLEAN : b = (job[q].fresh /\ job[q].row # r)
    OBVIOUS
  <2>3. job'[q] = [job[q] EXCEPT !.fresh = b]
    BY <2>1, <2>2
  <2>4. job[q] \in Job
    BY <1>1
  <2>5. job'[q] \in Job /\ job'[q].fresh = b
    BY <2>3, <2>4 DEF Job
  <2>6. SameJob(q)
    BY <2>2, <2>3, <2>4, <2>5 DEF SameJob, Job
  <2> QED BY <2>2, <2>5, <2>6
<1>3. job'[p] = j /\ job' = [q \in Procs |-> job'[q]]
  BY DEF JobsAfter
<1> QED BY <1>2, <1>3

-----------------------------------------------------------------------------
(* What a step owes Base: the rows it wrote and its own job. *)

Keeps(r) == na[r].state # "NONE" => /\ na'[r].state # "NONE" /\ na'[r].person = na[r].person
                                    /\ na[r].state # "OPEN" => na'[r].state # "OPEN"

LEMMA BaseHolds ==
  ASSUME Base, Types', OneOpen',
         \A r \in Rows : RowFits(r)' /\ Keeps(r),
         \A x \in Persons : PersonFits(x)' /\ crm[x].at <= crm'[x].at,
         \A q \in Procs : \/ JobFits(q)'
                          \/ SameJob(q) /\ (job'[q].fresh => \A r \in Rows : r = job[q].row => na'[r] = na[r]),
         \/ job'[Worker].do = job[Worker].do /\ job'[Worker].list \subseteq job[Worker].list
         \/ Following' => \A seen \in job'[Worker].list : SeenFits(seen)'
  PROVE  Base'
<1>1. /\ na \in [Rows -> NaRow] /\ crm \in [Persons -> Fields] /\ job \in [Procs -> Job] /\ job' \in [Procs -> Job]
      /\ crm' \in [Persons -> Fields] /\ na' \in [Rows -> NaRow]
  BY DEF Base, Types
<1>2. \A r \in Rows : na[r].person \in Persons => na[r].state # "NONE" /\ na'[r].person = na[r].person
  BY Basics DEF Base, RowFits, Keeps
<1>3. ASSUME NEW q \in Procs, SameJob(q), job'[q].fresh => \A r \in Rows : r = job[q].row => na'[r] = na[r]
      PROVE  JobFits(q)'
  <2> PICK a, b : a = job[q] /\ b = job'[q]
    OBVIOUS
  <2>1. /\ b.do = a.do /\ b.what = a.what /\ b.row = a.row /\ b.person = a.person /\ b.due = a.due
        /\ b.state = a.state /\ (b.fresh => a.fresh)
    BY <1>3 DEF SameJob
  <2>2. JobFits(q) /\ a \in Job
    BY <1>1 DEF Base
  <2>3. Its(a) => Its(b)' /\ na[a.row].state # "NONE"
    BY <1>2, <2>1 DEF Its
  <2>4. a.row \in Rows /\ na[a.row].state # "NONE" =>
           na'[b.row].state # "NONE" /\ (na[a.row].state # "OPEN" => na'[b.row].state # "OPEN")
    BY <2>1 DEF Keeps
  <2>5. b.fresh /\ a.row \in Rows => na'[b.row] = na[a.row]
    BY <1>3, <2>1
  <2>6. a.do \in Pushes /\ b.fresh => AsRead(b)'
    BY <2>1, <2>2, <2>5 DEF JobFits, AsRead, Unsent, Its
  <2> HIDE DEF Pushes
  <2>7. a.do \in {"claim", "write", "mirror"} \cup Pushes => Its(a)
    BY <2>2 DEF JobFits
  <2>8. a.do = "count" => na'[b.row].state # "OPEN" /\ b.due = Blank
    BY <2>1, <2>2, <2>3, <2>4, <2>7 DEF JobFits, Pushes, Its
  <2>9. a.do = "read" \/ (a.do = "push" /\ a.what # "pass") => b.row \in Rows /\ na'[b.row].state # "NONE"
    BY <2>1, <2>2, <2>4 DEF JobFits
  <2> QED BY <2>1, <2>2, <2>3, <2>6, <2>7, <2>8, <2>9 DEF JobFits
<1>4. ASSUME job'[Worker].do = job[Worker].do /\ job'[Worker].list \subseteq job[Worker].list,
             Following', NEW seen \in job'[Worker].list
      PROVE  SeenFits(seen)'
  <2>1. SeenFits(seen) /\ seen \in [row : Rows, due : Days, synced : Nat, crm : Fields]
    BY <1>1, <1>4, Basics DEF Base, Following, Job
  <2>2. na'[seen.row].state # "NONE" /\ na'[seen.row].person = na[seen.row].person
        /\ na[seen.row].person \in Persons
    BY <1>1, <2>1, Basics DEF SeenFits, Keeps, NaRow, Base, RowFits
  <2>3. \A x \in Persons : crm[x].at \in Nat /\ crm'[x].at \in Nat
    BY <1>1 DEF Fields
  <2>4. seen.crm.at <= crm'[na'[seen.row].person].at
    BY <2>1, <2>2, <2>3 DEF SeenFits, Fields
  <2>5. \A o \in job'[Worker].list : o.row = seen.row => o = seen
    BY <1>4, <2>1 DEF SeenFits
  <2> QED BY <2>1, <2>2, <2>4, <2>5 DEF SeenFits
<1>5. \A q \in Procs : JobFits(q)'
  BY <1>3
<1>6. Following' => \A seen \in job'[Worker].list : SeenFits(seen)'
  BY <1>4
<1> QED BY <1>5, <1>6 DEF Base

(* A step that only moves a job on. *)
LEMMA JobBase ==
  ASSUME Base, NEW p \in Procs, NEW j \in Job,
         job' \in [Procs -> Job], job'[p] = j, \A q \in Procs : q # p => SameJob(q),
         UNCHANGED <<na, crm, ours, cache, now, left, crossed>>,
         JobFits(p)', j.do = "follow" => \A seen \in job'[Worker].list : SeenFits(seen)'
  PROVE  Base'
<1>1. Types' /\ OneOpen'
  BY DEF Base, Types, OneOpen
<1>2. \A r \in Rows : RowFits(r)' /\ Keeps(r)
  BY DEF Base, RowFits, Keeps
<1>3. \A x \in Persons : PersonFits(x)' /\ crm[x].at <= crm'[x].at
  BY DEF Base, PersonFits, Types, Fields
<1>4. \A q \in Procs : \/ JobFits(q)'
                       \/ SameJob(q) /\ (job'[q].fresh => \A r \in Rows : r = job[q].row => na'[r] = na[r])
  OBVIOUS
<1>5. \/ job'[Worker].do = job[Worker].do /\ job'[Worker].list \subseteq job[Worker].list
      \/ Following' => \A seen \in job'[Worker].list : SeenFits(seen)'
  <2>1. CASE p = Worker
    BY <2>1 DEF Following
  <2>2. CASE p # Worker
    BY <2>2, Basics DEF SameJob
  <2> QED BY <2>1, <2>2
<1> QED BY <1>1, <1>2, <1>3, <1>4, <1>5, BaseHolds

(* A step that writes a row, and no field of Twenty. *)
LEMMA RowBase ==
  ASSUME Base, NEW p \in Procs, NEW r \in Rows, NEW row \in NaRow, NEW j \in Job, Save(p, r, row, j),
         left' \in [Rows -> [Days -> Int]], \A s \in Rows : s # r => left'[s] = left[s],
         UNCHANGED <<crm, ours, now>>, crossed' \in BOOLEAN,
         cache' \in [Persons -> Fields], \A x \in Persons : cache'[x].at = cache[x].at,
         RowFits(r)', JobFits(p)',
         na[r].state # "NONE" => /\ row.state # "NONE" /\ row.person = na[r].person
                                 /\ na[r].state # "OPEN" => row.state # "OPEN",
         na[r].state = "NONE" /\ row.state = "OPEN" => OpenOf(row.person) = {},
         p = Worker /\ j.do = "follow" => Following /\ j.list \subseteq job[Worker].list
  PROVE  Base'
<1>1. /\ na \in [Rows -> NaRow] /\ na' \in [Rows -> NaRow] /\ na'[r] = row
      /\ \A s \in Rows : s # r => na'[s] = na[s]
  BY DEF Base, Types, Save
<1>2. /\ job' \in [Procs -> Job] /\ job'[p] = j
      /\ \A q \in Procs : q # p => SameJob(q) /\ (job'[q].fresh => job[q].row # r)
  BY Saved DEF Base, Save
<1>3. Types'
  BY <1>1, <1>2 DEF Base, Types
<1>4. OneOpen'
  <2> SUFFICES ASSUME NEW s \in Rows, NEW t \in Rows, na'[s].state = "OPEN", na'[t].state = "OPEN",
                      na'[s].person = na'[t].person, s # t
               PROVE  FALSE
    BY DEF OneOpen
  <2>1. ASSUME NEW u \in Rows, u # r, na'[u].state = "OPEN", na'[r].state = "OPEN", na'[u].person = na'[r].person
        PROVE  FALSE
    <3>1. CASE na[r].state = "OPEN"
      BY <1>1, <2>1, <3>1 DEF Base, OneOpen
    <3>2. CASE na[r].state # "OPEN"
      <4>1. OpenOf(row.person) = {}
        BY <1>1, <2>1, <3>2
      <4>2. u \in OpenOf(row.person)
        BY <1>1, <2>1 DEF OpenOf
      <4> QED BY <4>1, <4>2
    <3> QED BY <3>1, <3>2
  <2>2. CASE s = r
    BY <2>1, <2>2
  <2>3. CASE t = r
    BY <2>1, <2>3
  <2>4. CASE s # r /\ t # r
    BY <1>1, <2>4 DEF Base, OneOpen
  <2> QED BY <2>2, <2>3, <2>4
<1>5. \A s \in Rows : RowFits(s)' /\ Keeps(s)
  BY <1>1 DEF Base, RowFits, Keeps
<1>6. \A x \in Persons : PersonFits(x)' /\ crm[x].at <= crm'[x].at
  BY DEF Base, PersonFits, Types, Fields
<1>7. \A q \in Procs : \/ JobFits(q)'
                       \/ SameJob(q) /\ (job'[q].fresh => \A s \in Rows : s = job[q].row => na'[s] = na[s])
  BY <1>1, <1>2
<1>8. \/ job'[Worker].do = job[Worker].do /\ job'[Worker].list \subseteq job[Worker].list
      \/ Following' => \A seen \in job'[Worker].list : SeenFits(seen)'
  <2>1. CASE p = Worker
    BY <1>2, <2>1 DEF Following
  <2>2. CASE p # Worker
    BY <1>2, <2>2, Basics DEF SameJob
  <2> QED BY <2>1, <2>2
<1> QED BY <1>3, <1>4, <1>5, <1>6, <1>7, <1>8, BaseHolds

-----------------------------------------------------------------------------
(* The invariant of requests. *)

LEMMA BeginBase ==
  ASSUME Base, NEW u \in Users, Begin(u)
  PROVE  Base'
<1>1. UNCHANGED <<na, crm, ours, cache, now, left, crossed>> /\ Types /\ u \in Procs /\ u # Worker
  BY NextActionsAssumption, Basics DEF Base, Begin
<1>2. ASSUME NEW j \in Job, Go(u, j), j.do \in {"find", "read"}, j.what \in {"set", "done", "move", "stop"},
             j.do = "find" => j.person \in Persons /\ j.due \in Days,
             j.do = "read" => /\ j.row \in Rows /\ na[j.row].state # "NONE" /\ j.what # "set"
                              /\ j.what = "move" => j.due \in Days
      PROVE  Base'
  <2>1. JobFits(u)'
    BY <1>1, <1>2, Went DEF JobFits, Pushes
  <2> QED BY <1>1, <1>2, <2>1, Went, JobBase
<1>3. ASSUME NEW x \in Worked, NEW d \in Days, NEW rep \in Repeats,
             Go(u, [NoJob EXCEPT !.do = "find", !.what = "set", !.person = x, !.due = d, !.repeats = rep])
      PROVE  Base'
  <2> PICK j : j = [NoJob EXCEPT !.do = "find", !.what = "set", !.person = x, !.due = d, !.repeats = rep]
    OBVIOUS
  <2>1. x \in Persons /\ rep \in BOOLEAN
    BY NextActionsAssumption
  <2>2. j \in Job /\ j.do = "find" /\ j.what = "set" /\ j.person = x /\ j.due = d
    BY <2>1, NoJobIs DEF Job, Kinds
  <2> QED BY <1>2, <1>3, <2>1, <2>2
<1>4. ASSUME NEW r \in Rows, na[r].state # "NONE", NEW w \in {"done", "move", "stop"}, NEW j \in Job, Go(u, j),
             j.do = "read", j.what = w, j.row = r, w = "move" => j.due \in Days
      PROVE  Base'
  BY <1>2, <1>4
<1>5. ASSUME NEW r \in Rows, na[r].state # "NONE",
             Go(u, [NoJob EXCEPT !.do = "read", !.what = "done", !.row = r, !.seen = na[r].due])
      PROVE  Base'
  <2> PICK j : j = [NoJob EXCEPT !.do = "read", !.what = "done", !.row = r, !.seen = na[r].due]
    OBVIOUS
  <2>1. na[r].due \in Days \cup {Blank}
    BY <1>1 DEF Types, NaRow
  <2>2. j \in Job /\ j.do = "read" /\ j.what = "done" /\ j.row = r
    BY <2>1, NoJobIs DEF Job, Kinds
  <2> QED BY <1>4, <1>5, <2>2
<1>6. ASSUME NEW r \in Rows, na[r].state # "NONE", NEW d \in Days,
             Go(u, [NoJob EXCEPT !.do = "read", !.what = "move", !.row = r, !.due = d])
      PROVE  Base'
  <2> PICK j : j = [NoJob EXCEPT !.do = "read", !.what = "move", !.row = r, !.due = d]
    OBVIOUS
  <2>1. j \in Job /\ j.do = "read" /\ j.what = "move" /\ j.row = r /\ j.due = d
    BY NoJobIs DEF Job, Kinds
  <2> QED BY <1>4, <1>6, <2>1
<1>7. ASSUME NEW r \in Rows, na[r].state # "NONE", Go(u, [NoJob EXCEPT !.do = "read", !.what = "stop", !.row = r])
      PROVE  Base'
  <2> PICK j : j = [NoJob EXCEPT !.do = "read", !.what = "stop", !.row = r]
    OBVIOUS
  <2>1. j \in Job /\ j.do = "read" /\ j.what = "stop" /\ j.row = r
    BY NoJobIs DEF Job, Kinds
  <2> QED BY <1>4, <1>7, <2>1
<1> QED BY <1>3, <1>5, <1>6, <1>7 DEF Begin

LEMMA EmailBase ==
  ASSUME Base, EmailSeen
  PROVE  Base'
<1>1. UNCHANGED <<na, crm, ours, cache, now, left, crossed>> /\ Types
  BY DEF Base, EmailSeen
<1>2. PICK r \in Rows : /\ na[r].state = "OPEN"
                        /\ Go(Worker, [NoJob EXCEPT !.do = "read", !.what = "done", !.row = r, !.seen = na[r].due])
  BY DEF EmailSeen
<1> PICK j : j = [NoJob EXCEPT !.do = "read", !.what = "done", !.row = r, !.seen = na[r].due]
  OBVIOUS
<1>3. na[r].due \in Days \cup {Blank}
  BY <1>1 DEF Types, NaRow
<1>4. j \in Job /\ j.do = "read" /\ j.what = "done" /\ j.row = r
  BY <1>3, NoJobIs DEF Job, Kinds
<1>5. JobFits(Worker)'
  BY <1>1, <1>2, <1>4, Basics, Went DEF JobFits, Pushes
<1> QED BY <1>1, <1>2, <1>4, <1>5, Basics, Went, JobBase

(* A job that ends, or goes on to the next row of a pass. *)
LEMMA LeftIs ==
  ASSUME NEW p \in Procs, NEW todo \in Seq(Rows)
  PROVE  /\ Left(p, todo) \in Job /\ Left(p, todo).do \in {"idle", "push"} /\ Left(p, todo).what \in {Nil, "pass"}
         /\ Left(p, todo).what = "pass" => Passing(p)
         /\ Left(p, todo).do = "push" => Left(p, todo).what = "pass"
<1>1. [NoJob EXCEPT !.do = "push", !.what = "pass", !.todo = todo] \in Job
  BY NoJobIs DEF Job, Kinds
<1> QED BY <1>1, NoJobIs, Basics DEF Left, NoJob, Kinds

LEMMA EndFits ==
  ASSUME NEW p \in Procs, Base, job'[p].do \in {"idle", "push"}, job'[p].what = "pass" => Passing(p),
         job'[p].do = "push" => job'[p].what = "pass"
  PROVE  JobFits(p)'
<1>1. Passing(p) => p = Worker
  BY DEF Passing, Base, JobFits
<1> QED BY <1>1 DEF JobFits, Pushes

LEMMA EndBase ==
  ASSUME Base, NEW p \in Procs, NEW todo \in Seq(Rows), NEW j, Go(p, j), j \in {NoJob, Left(p, todo)},
         UNCHANGED <<na, crm, ours, cache, now, left, crossed>>
  PROVE  Base'
<1>1. j \in Job /\ j.do \in {"idle", "push"} /\ (j.what = "pass" => Passing(p)) /\ (j.do = "push" => j.what = "pass")
  BY NoJobIs, LeftIs, Basics DEF Kinds
<1>2. /\ job' \in [Procs -> Job] /\ job'[p] = j
      /\ \A q \in Procs : q # p => SameJob(q) /\ job'[q].fresh = job[q].fresh
  BY <1>1, Went DEF Base
<1> QED BY <1>1, <1>2, EndFits, JobBase

LEMMA DieBase ==
  ASSUME Base, NEW p \in Procs, Die(p)
  PROVE  Base'
BY EndBase, EmptySeq DEF Die

LEMMA FindBase ==
  ASSUME Base, NEW p \in Procs, SetFind(p)
  PROVE  Base'
<1>0. PICK a, row, j : /\ a = job[p]
                       /\ row = IF OpenOf(a.person) = {} THEN Nil ELSE CHOOSE r \in OpenOf(a.person) : TRUE
                       /\ j = JobToRow(a, "save", row)
  OBVIOUS
<1>1. a.do = "find" /\ Go(p, j) /\ UNCHANGED <<na, crm, ours, cache, now, left, crossed>>
  BY <1>0 DEF SetFind, At, JobToRow
<1>2. a \in Job /\ JobFits(p)
  BY <1>0 DEF Base, Types
<1>3. row = Nil \/ row \in OpenOf(a.person)
  BY <1>0
<1>4. j \in Job /\ j.do = "save" /\ j.what = a.what /\ j.row = row /\ j.person = a.person /\ j.due = a.due
  <2>1. row \in Rows \cup {Nil}
    BY <1>3 DEF OpenOf
  <2>2. j = JobToRow(a, "save", row) /\ "save" \in Dos
    BY <1>0 DEF Dos
  <2> QED BY <1>2, <2>1, <2>2, JobRow
<1>5. a.person \in Persons /\ a.due \in Days /\ a.what # "pass"
  BY <1>0, <1>1, <1>2 DEF JobFits
<1>6. /\ job' \in [Procs -> Job] /\ job'[p] = j
      /\ \A q \in Procs : q # p => SameJob(q) /\ job'[q].fresh = job[q].fresh
  BY <1>1, <1>4, Went DEF Base
<1>7. row # Nil => Its(j)'
  BY <1>1, <1>3, <1>4, <1>5 DEF Its, OpenOf
<1>8. JobFits(p)'
  BY <1>4, <1>5, <1>6, <1>7 DEF JobFits, Pushes
<1> QED BY <1>1, <1>4, <1>6, <1>8, JobBase

LEMMA ReadBase ==
  ASSUME Base, NEW p \in Procs, ReadRow(p)
  PROVE  Base'
<1> PICK a, row : a = job[p] /\ row = na[a.row]
  OBVIOUS
<1>1. /\ a.do = "read" /\ UNCHANGED <<na, crm, ours, cache, now, left, crossed>>
      /\ \/ Go(p, NoJob)
         \/ /\ row.state = "OPEN" /\ a.what = "done"
            /\ Go(p, [a EXCEPT !.do = "claim", !.due = row.due, !.repeats = row.repeats, !.person = row.person])
         \/ /\ row.state = "OPEN" /\ a.what # "done"
            /\ Go(p, [a EXCEPT !.do = "write", !.person = row.person])
  BY DEF ReadRow, At
<1>2. a \in Job /\ JobFits(p) /\ a.row \in Rows /\ a.what \in {"done", "move", "stop"} /\ row \in NaRow /\ RowFits(a.row)
  BY <1>1 DEF Base, Types, JobFits
<1>3. row.state = "OPEN" => row.person \in Persons /\ row.due \in Days
  BY <1>2 DEF RowFits, NaRow
<1>4. CASE Go(p, NoJob)
  BY <1>1, <1>4, EndBase, EmptySeq
<1>5. ASSUME NEW j \in Job, Go(p, j), j.do \in {"claim", "write"}, j.row = a.row, j.person = row.person, j.what = a.what,
             row.state = "OPEN", j.do = "claim" => j.due = row.due, j.do = "write" => a.what # "done" /\ j.due = a.due
      PROVE  Base'
  <2>1. /\ job' \in [Procs -> Job] /\ job'[p] = j
        /\ \A q \in Procs : q # p => SameJob(q) /\ job'[q].fresh = job[q].fresh
    BY <1>5, Went DEF Base
  <2>2. Its(j)'
    BY <1>1, <1>2, <1>3, <1>5 DEF Its
  <2>3. a.what = "move" => a.due \in Days
    BY <1>1, <1>2 DEF JobFits
  <2>4. JobFits(p)'
    BY <1>2, <1>3, <1>5, <2>1, <2>2, <2>3 DEF JobFits, Pushes
  <2> QED BY <1>1, <1>5, <2>1, <2>4, JobBase
<1>6. CASE /\ row.state = "OPEN" /\ a.what = "done"
           /\ Go(p, [a EXCEPT !.do = "claim", !.due = row.due, !.repeats = row.repeats, !.person = row.person])
  <2> PICK j : j = [a EXCEPT !.do = "claim", !.due = row.due, !.repeats = row.repeats, !.person = row.person]
    OBVIOUS
  <2>1. PICK d \in Days \cup {Blank}, again \in BOOLEAN, x \in Persons \cup {Nil} :
               d = row.due /\ again = row.repeats /\ x = row.person
    BY <1>2 DEF NaRow
  <2>3. j = [a EXCEPT !.do = "claim", !.due = d, !.repeats = again, !.person = x]
    BY <2>1
  <2>2. j \in Job /\ j.do = "claim" /\ j.row = a.row /\ j.person = row.person /\ j.what = a.what /\ j.due = row.due
    <3>1. j = Claiming(a, d, again, x)
      BY <2>3 DEF Claiming
    <3>2. a \in Job
      BY <1>2
    <3>3. j \in Job /\ j.do = "claim" /\ j.row = a.row /\ j.person = x /\ j.due = d /\ j.what = a.what
      BY <2>1, <3>1, <3>2, Zenon DEF Job, Claiming
    <3> QED BY <2>1, <3>3
  <2> QED BY <1>5, <1>6, <2>2
<1>7. CASE row.state = "OPEN" /\ a.what # "done" /\ Go(p, [a EXCEPT !.do = "write", !.person = row.person])
  <2> PICK j : j = [a EXCEPT !.do = "write", !.person = row.person]
    OBVIOUS
  <2>1. j \in Job /\ j.do = "write" /\ j.row = a.row /\ j.person = row.person /\ j.what = a.what /\ j.due = a.due
    <3>1. row.person \in Persons \cup {Nil}
      BY <1>2 DEF NaRow
    <3>2. j = JobToPerson(a, "write", row.person) /\ "write" \in Dos
      BY DEF JobToPerson, Dos
    <3> QED BY <1>2, <3>1, <3>2, JobPerson
  <2> QED BY <1>5, <1>7, <2>1
<1> QED BY <1>1, <1>4, <1>6, <1>7

LEMMA MirrorIs ==
  ASSUME Types, NEW x \in Persons, NEW d \in Days \cup {Blank}, Mirror(x, d)
  PROVE  /\ cache' \in [Persons -> Fields] /\ \A y \in Persons : cache'[y].at = cache[y].at
         /\ cache'[x].due = d /\ \A y \in Persons : y # x => cache'[y] = cache[y]
<1> PICK f : f = [cache[x] EXCEPT !.due = d]
  OBVIOUS
<1>1. cache \in [Persons -> Fields] /\ cache' = [cache EXCEPT ![x] = f]
  BY DEF Types, Mirror
<1>2. f \in Fields /\ f.at = cache[x].at /\ f.due = d
  BY <1>1 DEF Fields
<1> QED BY <1>1, <1>2

(* What a request writes to row r, and what it counts then. *)
Written(r, row) ==
  /\ row \in NaRow /\ row.synced = na[r].synced /\ row.state # "NONE" /\ row.person \in Persons
  /\ row.state = "OPEN" => row.due \in Days
  /\ na[r].state # "NONE" => row.person = na[r].person /\ (na[r].state # "OPEN" => row.state # "OPEN")
  /\ na[r].state = "NONE" => OpenOf(row.person) = {}
Counts(r, row) ==
  /\ left' \in [Rows -> [Days -> Int]] /\ \A s \in Rows : s # r => left'[s] = left[s]
  /\ \A d \in Days : left'[r][d] >= 0
  /\ row.state = "OPEN" => left'[r][row.due] >= 1

LEMMA CountsIs ==
  ASSUME Types, NEW r \in Rows, NEW row, NEW counted \in [Days -> Int], \A d \in Days : counted[d] >= 0,
         NEW e \in Days \cup {Blank}, left' = Due(r, e, counted), row.state = "OPEN" => e \in Days /\ row.due = e
  PROVE  Counts(r, row)
<1>1. /\ left' \in [Rows -> [Days -> Int]] /\ \A s \in Rows : s # r => left'[s] = left[s]
      /\ \A d \in Days : left'[r][d] >= counted[d]
      /\ e \in Days => left'[r][e] = counted[e] + 1
  BY DueIs
<1>2. \A d \in Days : left'[r][d] >= 0
  BY <1>1
<1>3. e \in Days => left'[r][e] >= 1
  BY <1>1
<1> QED BY <1>1, <1>2, <1>3 DEF Counts

LEMMA WriteBase ==
  ASSUME Base, NEW p \in Procs, NEW r \in Rows, NEW row, NEW j \in Job, Save(p, r, row, j),
         UNCHANGED <<crm, ours, now, crossed>>, Written(r, row), Counts(r, row),
         cache' \in [Persons -> Fields], \A x \in Persons : cache'[x].at = cache[x].at,
         j.row = r, \/ j.do = "push" /\ j.what \in {"set", "move"}
                    \/ j.do = "mirror" /\ j.what # "pass" /\ j.person = row.person
  PROVE  Base'
<1>1. /\ row \in NaRow /\ na' \in [Rows -> NaRow] /\ na'[r] = row /\ Types /\ RowFits(r)
      /\ job'[p] = j /\ now' = now /\ now \in Nat
  BY Saved DEF Base, Types, Save, Written
<1>2. RowFits(r)'
  BY <1>1, Basics DEF RowFits, Written, Counts
<1>3. JobFits(p)'
  <2>1. CASE j.do = "push" /\ j.what \in {"set", "move"}
    BY <1>1, <2>1 DEF JobFits, Pushes, Written
  <2>2. CASE j.do = "mirror" /\ j.what # "pass" /\ j.person = row.person
    <3>1. Its(j)'
      BY <1>1, <2>2 DEF Its, Written
    <3> QED BY <1>1, <2>2, <3>1 DEF JobFits, Pushes
  <2> QED BY <2>1, <2>2
<1>4. left' \in [Rows -> [Days -> Int]] /\ \A s \in Rows : s # r => left'[s] = left[s]
  BY DEF Counts
<1>5. /\ na[r].state # "NONE" => /\ row.state # "NONE" /\ row.person = na[r].person
                                 /\ na[r].state # "OPEN" => row.state # "OPEN"
      /\ na[r].state = "NONE" /\ row.state = "OPEN" => OpenOf(row.person) = {}
  BY DEF Written
<1>6. crossed' \in BOOLEAN
  BY <1>1 DEF Types
<1> QED BY <1>1, <1>2, <1>3, <1>4, <1>5, <1>6, RowBase

LEMMA SaveBase ==
  ASSUME Base, NEW p \in Procs, SetSave(p)
  PROVE  Base'
<1> PICK a, open : a = job[p] /\ open = OpenOf(a.person)
  OBVIOUS
<1> DEFINE Given(r) == [na[r] EXCEPT !.due = a.due, !.repeats = a.repeats, !.pending = TRUE]
           New(r)   == [Given(r) EXCEPT !.state = "OPEN", !.person = a.person]
           Sent(r)  == [NoJob EXCEPT !.do = "push", !.what = "set", !.row = r]
<1>1. /\ a.do = "save" /\ UNCHANGED <<crm, ours, now, crossed>>
      /\ \/ /\ a.row # Nil
            /\ Save(p, a.row, Given(a.row), Sent(a.row)) /\ Mirror(a.person, a.due)
            /\ left' = Due(a.row, a.due, left[a.row])
         \/ /\ open = {} /\ Mirror(a.person, a.due)
            /\ \E r \in Rows : /\ na[r].state = "NONE" /\ Save(p, r, New(r), Sent(r))
                               /\ left' = Due(r, a.due, left[r])
         \/ Go(p, NoJob) /\ UNCHANGED <<na, cache, left>>
  BY DEF SetSave, At
<1>2. /\ Types /\ a \in Job /\ JobFits(p) /\ a.person \in Persons /\ a.due \in Days /\ a.repeats \in BOOLEAN
      /\ na \in [Rows -> NaRow] /\ left \in [Rows -> [Days -> Int]]
  BY <1>1 DEF Base, Types, JobFits, Job
<1>3. PICK d \in Days, again \in BOOLEAN, x \in Persons : d = a.due /\ again = a.repeats /\ x = a.person
  BY <1>2
<1>4. ASSUME NEW r \in Rows
      PROVE  /\ Sent(r) \in Job /\ Sent(r).do = "push" /\ Sent(r).what = "set" /\ Sent(r).row = r
             /\ left[r] \in [Days -> Int] /\ \A e \in Days : left[r][e] >= 0
  BY <1>2, NoJobIs DEF Job, Kinds, Base, RowFits
<1>5. Mirror(x, d) => cache' \in [Persons -> Fields] /\ \A y \in Persons : cache'[y].at = cache[y].at
  BY <1>2, MirrorIs
<1>6. CASE /\ a.row # Nil
           /\ Save(p, a.row, Given(a.row), Sent(a.row)) /\ Mirror(a.person, a.due)
           /\ left' = Due(a.row, a.due, left[a.row])
  <2> PICK r, row : r = a.row /\ row = [na[r] EXCEPT !.due = d, !.repeats = again, !.pending = TRUE]
    OBVIOUS
  <2>1. Save(p, r, row, Sent(r)) /\ left' = Due(r, d, left[r])
    BY <1>3, <1>6
  <2>2. r \in Rows /\ na[r].person = x /\ RowFits(r)
    BY <1>1, <1>2, <1>3, <1>6 DEF JobFits, Its, Base
  <2>3. /\ row \in NaRow /\ row.state = na[r].state /\ row.person = x /\ row.due = d /\ row.synced = na[r].synced
        /\ row.state # "NONE"
    <3>1. na[r] \in NaRow
      BY <1>2, <2>2 DEF Types
    <3>2. na[r].state # "NONE"
      BY <1>2, <2>2, Basics DEF RowFits
    <3>3. row = GivenTo(na[r], d, again)
      BY DEF GivenTo
    <3> QED BY <1>2, <2>2, <3>1, <3>2, <3>3, RowGiven
  <2>4. Written(r, row)
    BY <2>2, <2>3 DEF Written
  <2>5. Counts(r, row)
    <3>1. /\ left[r] \in [Days -> Int] /\ \A e \in Days : left[r][e] >= 0
          /\ left' = Due(r, d, left[r]) /\ d \in Days \cup {Blank}
      BY <1>2, <1>4, <2>1, <2>2
    <3>2. row.state = "OPEN" => d \in Days /\ row.due = d
      BY <1>2, <2>3
    <3> QED BY <1>2, <2>2, <3>1, <3>2, CountsIs
  <2>6. cache' \in [Persons -> Fields] /\ \A y \in Persons : cache'[y].at = cache[y].at
    BY <1>3, <1>5, <1>6
  <2> HIDE DEF Sent
  <2> QED BY <1>1, <1>4, <2>1, <2>2, <2>4, <2>5, <2>6, WriteBase
<1>7. CASE open = {} /\ Mirror(a.person, a.due)
           /\ \E r \in Rows : na[r].state = "NONE" /\ Save(p, r, New(r), Sent(r)) /\ left' = Due(r, a.due, left[r])
  <2>1. PICK r \in Rows : na[r].state = "NONE" /\ Save(p, r, New(r), Sent(r)) /\ left' = Due(r, d, left[r])
    BY <1>3, <1>7
  <2> PICK row : row = [na[r] EXCEPT !.due = d, !.repeats = again, !.pending = TRUE, !.state = "OPEN", !.person = x]
    OBVIOUS
  <2>2. New(r) = row
    BY <1>2, <1>3 DEF NaRow
  <2>3. /\ row \in NaRow /\ row.state = "OPEN" /\ row.person = x /\ row.due = d /\ row.synced = na[r].synced
    BY <1>2 DEF NaRow, States
  <2>4. Save(p, r, row, Sent(r))
    BY <2>1, <2>2
  <2>5. Written(r, row)
    BY <1>3, <1>7, <2>1, <2>3 DEF Written
  <2>6. Counts(r, row)
    <3>1. /\ left[r] \in [Days -> Int] /\ \A e \in Days : left[r][e] >= 0
          /\ left' = Due(r, d, left[r]) /\ d \in Days \cup {Blank} /\ Types
      BY <1>2, <1>4, <2>1
    <3>2. row.state = "OPEN" => d \in Days /\ row.due = d
      BY <2>3
    <3> QED BY <3>1, <3>2, CountsIs
  <2>7. cache' \in [Persons -> Fields] /\ \A y \in Persons : cache'[y].at = cache[y].at
    BY <1>3, <1>5, <1>7
  <2> HIDE DEF Sent, New
  <2> QED BY <1>1, <1>4, <2>1, <2>4, <2>5, <2>6, <2>7, WriteBase
<1>8. CASE Go(p, NoJob) /\ UNCHANGED <<na, cache, left>>
  BY <1>1, <1>8, EndBase, EmptySeq
<1> QED BY <1>1, <1>6, <1>7, <1>8

LEMMA ClaimBase ==
  ASSUME Base, NEW p \in Procs, Claim(p)
  PROVE  Base'
<1>a. PICK a, r, next, counted :
        /\ a = job[p] /\ r = a.row /\ next = IF a.repeats THEN NextOn(a.due) ELSE Blank
        /\ counted = [left[r] EXCEPT ![a.due] = left[r][a.due] - 1]
  OBVIOUS
<1>b. PICK row, j : /\ row = IF next # Blank THEN DueOn(na[r], next) ELSE Over(na[r], "DONE")
                    /\ j = JobToDue(a, "mirror", next)
  OBVIOUS
<1>1. /\ a.do = "claim" /\ UNCHANGED <<crm, ours, cache, now, crossed>>
      /\ \/ /\ na[r].state = "OPEN" /\ na[r].due = a.due /\ left' = Due(r, next, counted) /\ Save(p, r, row, j)
         \/ Go(p, NoJob) /\ UNCHANGED <<na, left>>
  BY <1>a, <1>b DEF Claim, At, CanClaim, DueOn, Over, JobToDue
<1>2. /\ Types /\ a \in Job /\ JobFits(p) /\ r \in Rows /\ a.due \in Days /\ na[r].person \in Persons
      /\ a.person = na[r].person /\ a.what # "pass" /\ RowFits(r) /\ na[r] \in NaRow /\ left[r] \in [Days -> Int]
  BY <1>a, <1>1 DEF Base, Types, JobFits, Its
<1>3. next \in Days \cup {Blank}
  BY <1>a, <1>2, NextOnIs
<1>4. j \in Job /\ j.do = "mirror" /\ j.what = a.what /\ j.row = r /\ j.person = a.person
  <2>1. j = JobToDue(a, "mirror", next) /\ "mirror" \in Dos
    BY <1>b DEF Dos
  <2>2. a \in Job
    BY <1>2
  <2>3. j \in Job /\ j.do = "mirror" /\ j.what = a.what /\ j.row = a.row /\ j.person = a.person
    BY <1>3, <2>1, <2>2, JobDue
  <2> QED BY <1>a, <2>3
<1>5. CASE na[r].state = "OPEN" /\ na[r].due = a.due /\ left' = Due(r, next, counted) /\ Save(p, r, row, j)
  <2>1. counted \in [Days -> Int] /\ \A d \in Days : counted[d] >= 0
    BY <1>a, <1>2, <1>5 DEF RowFits
  <2>2. /\ row \in NaRow /\ row.state # "NONE" /\ row.person = na[r].person /\ row.synced = na[r].synced
        /\ next # Blank => row.due = next /\ row.state = "OPEN"
        /\ next = Blank => row.state = "DONE"
    <3>1. CASE next # Blank
      <4>1. row = DueOn(na[r], next) /\ next \in Days
        BY <1>b, <1>3, <3>1
      <4> QED BY <1>2, <1>5, <3>1, <4>1, RowDue
    <3>2. CASE next = Blank
      <4>1. row = Over(na[r], "DONE") /\ "DONE" \in States
        BY <1>b, <3>2 DEF States
      <4> QED BY <1>2, <3>2, <4>1, RowOver
    <3> QED BY <3>1, <3>2
  <2>3. Counts(r, row)
    <3>1. row.state = "OPEN" => next \in Days /\ row.due = next
      BY <1>3, <2>2
    <3>2. Types /\ left' = Due(r, next, counted) /\ r \in Rows
      BY <1>2, <1>5
    <3> QED BY <1>3, <2>1, <3>1, <3>2, CountsIs
  <2>4. Written(r, row)
    BY <1>2, <1>3, <1>5, <2>2 DEF Written
  <2>5. cache' \in [Persons -> Fields] /\ \A y \in Persons : cache'[y].at = cache[y].at
    BY <1>1, <1>2 DEF Types
  <2>6. Save(p, r, row, j) /\ j.person = row.person
    BY <1>2, <1>4, <1>5, <2>2
  <2> QED BY <1>1, <1>2, <1>4, <2>3, <2>4, <2>5, <2>6, WriteBase
<1>6. CASE Go(p, NoJob) /\ UNCHANGED <<na, left>>
  BY <1>1, <1>6, EndBase, EmptySeq
<1> QED BY <1>1, <1>5, <1>6

LEMMA WriteRowBase ==
  ASSUME Base, NEW p \in Procs, WriteRow(p)
  PROVE  Base'
<1>0. PICK a, r : a = job[p] /\ r = a.row
  OBVIOUS
<1>1. /\ a.do = "write" /\ UNCHANGED <<crm, ours, cache, now, crossed>>
      /\ \/ /\ a.what = "move" /\ left' = Due(r, a.due, left[r])
            /\ Save(p, r, [na[r] EXCEPT !.due = a.due, !.pending = TRUE], [a EXCEPT !.do = "push"])
         \/ /\ a.what = "stop" /\ left' = left
            /\ Save(p, r, [na[r] EXCEPT !.state = "CANCELLED", !.pending = TRUE], [a EXCEPT !.do = "mirror", !.due = Blank])
  BY <1>0 DEF WriteRow, At
<1>2. /\ Types /\ a \in Job /\ JobFits(p) /\ r \in Rows /\ na[r].person \in Persons
      /\ a.person = na[r].person /\ RowFits(r) /\ na[r] \in NaRow /\ left[r] \in [Days -> Int]
      /\ cache \in [Persons -> Fields] /\ na[r].state # "NONE" /\ \A d \in Days : left[r][d] >= 0
  BY <1>0, <1>1, Basics DEF Base, Types, JobFits, Its, RowFits
<1>3. CASE /\ a.what = "move" /\ left' = Due(r, a.due, left[r])
           /\ Save(p, r, [na[r] EXCEPT !.due = a.due, !.pending = TRUE], [a EXCEPT !.do = "push"])
  <2>0. PICK row, j : row = DueOn(na[r], a.due) /\ j = JobTo(a, "push")
    OBVIOUS
  <2>1. a.due \in Days
    BY <1>0, <1>1, <1>2, <1>3 DEF JobFits
  <2>2. /\ row \in NaRow /\ row.state = na[r].state /\ row.person = na[r].person /\ row.due = a.due
        /\ row.synced = na[r].synced
    BY <1>2, <2>0, <2>1, RowDue
  <2>3. j \in Job /\ j.do = "push" /\ j.what = "move" /\ j.row = r
    <3>1. a \in Job /\ j = JobTo(a, "push") /\ "push" \in Dos
      BY <1>2, <2>0 DEF Dos
    <3>2. j \in Job /\ j.do = "push" /\ j.what = a.what /\ j.row = a.row
      BY <3>1, JobDo
    <3> QED BY <1>0, <1>3, <3>2
  <2>4. Save(p, r, row, j)
    BY <1>3, <2>0 DEF DueOn, JobTo
  <2>5. Counts(r, row)
    BY <1>2, <1>3, <2>1, <2>2, CountsIs
  <2>6. Written(r, row)
    BY <1>2, <2>1, <2>2 DEF Written
  <2>7. cache' \in [Persons -> Fields] /\ \A y \in Persons : cache'[y].at = cache[y].at
    BY <1>1, <1>2 DEF Types
  <2> QED BY <1>1, <1>2, <2>3, <2>4, <2>5, <2>6, <2>7, WriteBase
<1>4. CASE /\ a.what = "stop" /\ left' = left
           /\ Save(p, r, [na[r] EXCEPT !.state = "CANCELLED", !.pending = TRUE], [a EXCEPT !.do = "mirror", !.due = Blank])
  <2>0. PICK row, j : /\ row = Over(na[r], "CANCELLED")
                      /\ j = JobToDue(a, "mirror", Blank)
    OBVIOUS
  <2>1. /\ row \in NaRow /\ row.state = "CANCELLED" /\ row.person = na[r].person /\ row.synced = na[r].synced
    <3>1. na[r] \in NaRow /\ "CANCELLED" \in States
      BY <1>2 DEF States
    <3> QED BY <2>0, <3>1, RowOver
  <2>2. j \in Job /\ j.do = "mirror" /\ j.what = "stop" /\ j.row = r /\ j.person = a.person
    <3>1. j = JobToDue(a, "mirror", Blank) /\ "mirror" \in Dos /\ Blank \in Days \cup {Blank}
      BY <2>0 DEF Dos
    <3>2. a \in Job
      BY <1>2
    <3>3. j \in Job /\ j.do = "mirror" /\ j.what = a.what /\ j.row = a.row /\ j.person = a.person
      BY <3>1, <3>2, JobDue
    <3> QED BY <1>0, <1>2, <1>4, <3>3
  <2>3. Save(p, r, row, j)
    BY <1>4, <2>0 DEF JobToDue, Over
  <2>4. Counts(r, row)
    BY <1>2, <1>4, <2>1 DEF Counts, Types
  <2>5. Written(r, row)
    BY <1>2, <2>1 DEF Written
  <2>6. cache' \in [Persons -> Fields] /\ \A y \in Persons : cache'[y].at = cache[y].at
    BY <1>1, <1>2 DEF Types
  <2> QED BY <1>1, <1>2, <2>1, <2>2, <2>3, <2>4, <2>5, <2>6, WriteBase
<1> QED BY <1>1, <1>3, <1>4

LEMMA MirrorBase ==
  ASSUME Base, NEW p \in Procs, NEW j \in Job, Go(p, j), j.do \in {"push", "idle"}, NEW x \in Persons,
         UNCHANGED <<na, crm, ours, now, left, crossed>>, NEW d \in Days \cup {Blank}, UNCHANGED cache \/ Mirror(x, d),
         JobFits(p)'
  PROVE  Base'
<1>1. /\ Types /\ cache' \in [Persons -> Fields] /\ \A y \in Persons : cache'[y].at = cache[y].at
  BY MirrorIs DEF Base, Types
<1>2. /\ job' \in [Procs -> Job] /\ job'[p] = j
      /\ \A q \in Procs : q # p => SameJob(q) /\ job'[q].fresh = job[q].fresh
  BY <1>1, Went
<1>3. Types' /\ OneOpen'
  BY <1>1, <1>2 DEF Base, Types, OneOpen
<1>4. \A r \in Rows : RowFits(r)' /\ Keeps(r)
  BY DEF Base, RowFits, Keeps
<1>5. \A y \in Persons : PersonFits(y)' /\ crm[y].at <= crm'[y].at
  BY <1>1 DEF Base, PersonFits, Types, Fields
<1>6. \A q \in Procs : \/ JobFits(q)'
                       \/ SameJob(q) /\ (job'[q].fresh => \A r \in Rows : r = job[q].row => na'[r] = na[r])
  BY <1>2
<1>7. \/ job'[Worker].do = job[Worker].do /\ job'[Worker].list \subseteq job[Worker].list
      \/ Following' => \A seen \in job'[Worker].list : SeenFits(seen)'
  <2>1. CASE p = Worker
    BY <1>2, <2>1 DEF Following
  <2>2. CASE p # Worker
    BY <1>2, <2>2, Basics DEF SameJob
  <2> QED BY <2>1, <2>2
<1> QED BY <1>3, <1>4, <1>5, <1>6, <1>7, BaseHolds

LEMMA MirrorRowBase ==
  ASSUME Base, NEW p \in Procs, MirrorRow(p)
  PROVE  Base'
<1>a. PICK a, j : a = job[p] /\ j = JobTo(a, "push")
  OBVIOUS
<1>1. /\ a.do = "mirror" /\ UNCHANGED <<na, crm, ours, now, left, crossed>> /\ Go(p, j)
      /\ UNCHANGED cache \/ Mirror(a.person, a.due)
  BY <1>a DEF MirrorRow, At, To, JobTo
<1>2. a \in Job /\ JobFits(p) /\ Types /\ a.due \in Days \cup {Blank}
  BY <1>a DEF Base, Types, Job
<1>3. Its(a) /\ a.what # "pass" /\ na[a.row].state # "NONE"
  BY <1>a, <1>1, <1>2, Basics DEF JobFits, Its, Base, RowFits
<1>4. j \in Job /\ j.do = "push" /\ j.what = a.what /\ j.row = a.row
  <2>1. a \in Job /\ "push" \in Dos /\ j = JobTo(a, "push")
    BY <1>a, <1>2 DEF Dos
  <2> QED BY <2>1, JobDo
<1>5. JobFits(p)'
  <2>1. job'[p] = j
    BY <1>1, <1>2, <1>4, Went
  <2>2. a.row \in Rows /\ na[a.row].person \in Persons /\ na'[a.row] = na[a.row]
    BY <1>1, <1>3 DEF Its
  <2> QED BY <1>3, <1>4, <2>1, <2>2 DEF JobFits, Pushes
<1>6. a.person \in Persons /\ j.do \in {"push", "idle"}
  BY <1>3, <1>4 DEF Its
<1> QED BY <1>1, <1>2, <1>4, <1>5, <1>6, MirrorBase

-----------------------------------------------------------------------------
(* The invariant of pushes and of the worker's pass. *)

LEMMA PassBase ==
  ASSUME Base, StartPass
  PROVE  Base'
<1>1. PICK n \in 0 .. Batch : \E todo \in [1 .. n -> Waiting] :
         Go(Worker, [NoJob EXCEPT !.do = "push", !.what = "pass", !.todo = todo])
  BY DEF StartPass
<1>2. PICK todo \in [1 .. n -> Waiting] : Go(Worker, [NoJob EXCEPT !.do = "push", !.what = "pass", !.todo = todo])
  BY <1>1
<1> PICK j : j = [NoJob EXCEPT !.do = "push", !.what = "pass", !.todo = todo]
  OBVIOUS
<1>3. todo \in Seq(Rows)
  <2>1. n \in Nat /\ todo \in [1 .. n -> Rows]
    BY <1>1, Basics DEF Waiting
  <2> QED BY <2>1, SeqDef
<1>4. j \in Job /\ j.do = "push" /\ j.what = "pass"
  BY <1>3, NoJobIs DEF Job, Kinds
<1>5. /\ job' \in [Procs -> Job] /\ job'[Worker] = j
      /\ \A q \in Procs : q # Worker => SameJob(q) /\ job'[q].fresh = job[q].fresh
  BY <1>2, <1>4, Basics, Went DEF Base
<1>6. JobFits(Worker)'
  BY <1>4, <1>5 DEF JobFits, Pushes
<1>7. UNCHANGED <<na, crm, ours, cache, now, left, crossed>>
  BY DEF StartPass
<1> QED BY <1>4, <1>5, <1>6, <1>7, Basics, JobBase

(* The row a push is about: the next of the pass, or the request's.        *)
NextOf(p) == IF Passing(p) THEN Head(job[p].todo) ELSE job[p].row

LEMMA NextRow ==
  ASSUME Base, NEW p \in Procs, job[p].do = "push", Passing(p) => job[p].todo # <<>>
  PROVE  /\ NextOf(p) \in Rows /\ (IF Passing(p) THEN Tail(job[p].todo) ELSE job[p].todo) \in Seq(Rows)
         /\ na[NextOf(p)].pending => na[NextOf(p)].person \in Persons /\ na[NextOf(p)].state # "NONE"
<1>1. job[p] \in Job /\ job[p].todo \in Seq(Rows) /\ JobFits(p) /\ na \in [Rows -> NaRow]
  BY DEF Base, Types, Job
<1>2. CASE Passing(p)
  <2>1. Head(job[p].todo) \in Rows /\ Tail(job[p].todo) \in Seq(Rows)
    BY <1>1, <1>2, HeadTailProperties
  <2> QED BY <1>1, <1>2, <2>1 DEF NextOf, Base, RowFits, NaRow
<1>3. CASE ~ Passing(p)
  BY <1>1, <1>3 DEF NextOf, Base, RowFits, NaRow, JobFits, Passing
<1> QED BY <1>2, <1>3

LEMMA PushReadIs ==
  ASSUME Base, NEW p \in Procs, PushRead(p)
  PROVE  /\ job[p].do = "push" /\ UNCHANGED <<na, crm, ours, cache, now, left, crossed>>
         /\ \/ \E todo \in Seq(Rows) : Go(p, Left(p, todo))
            \/ \E j \in Job, r \in Rows :
                 /\ Go(p, j) /\ na[r].pending /\ j.row = r /\ j.person = na[r].person /\ j.person \in Persons
                 /\ j.due = Unsent(r).due /\ j.state = na[r].state /\ j.what = job[p].what /\ j.fresh
                 /\ na[r].state # "NONE"
                 /\ j.do = IF na[r].state = "OPEN" THEN "call" ELSE "count"
<1>a. PICK a, r, todo : /\ a = job[p] /\ r = NextOf(p)
                         /\ todo = IF Passing(p) THEN Tail(a.todo) ELSE a.todo
  OBVIOUS
<1>1. /\ a.do = "push" /\ UNCHANGED <<na, crm, ours, cache, now, left, crossed>>
      /\ Passing(p) => a.todo # <<>>
  BY <1>a DEF PushRead, At
<1>2. r \in Rows /\ todo \in Seq(Rows) /\ (na[r].pending => na[r].person \in Persons /\ na[r].state # "NONE")
  BY <1>a, <1>1, NextRow
<1>3. a \in Job /\ na[r] \in NaRow
  BY <1>a, <1>2 DEF Base, Types
<1>4. /\ na[r].person \in Persons \cup {Nil} /\ Unsent(r).due \in Days \cup {Blank} /\ na[r].state \in States
  BY <1>3 DEF Unsent, NaRow
<1>b. PICK read, do : /\ read = Reading(a, r, todo, na[r].person, Unsent(r).due, na[r].state)
                      /\ do = IF na[r].state = "OPEN" THEN "call" ELSE "count"
  OBVIOUS
<1>5. /\ read \in Job /\ read.todo = todo /\ read.row = r /\ read.person = na[r].person
      /\ read.due = Unsent(r).due /\ read.state = na[r].state /\ read.what = a.what /\ read.fresh = TRUE
  <2>1. read = Reading(a, r, todo, na[r].person, Unsent(r).due, na[r].state)
    BY <1>b
  <2>2. r \in Rows /\ todo \in Seq(Rows) /\ a \in Job
    BY <1>2, <1>3
  <2>3. PICK x, d, st : x = na[r].person /\ d = Unsent(r).due /\ st = na[r].state
    OBVIOUS
  <2>4. x \in Persons \cup {Nil} /\ d \in Days \cup {Blank} /\ st \in States /\ read = Reading(a, r, todo, x, d, st)
    BY <1>4, <2>1, <2>3
  <2>5. /\ read \in Job /\ read.todo = todo /\ read.row = r /\ read.person = x
        /\ read.due = d /\ read.state = st /\ read.what = a.what /\ read.fresh = TRUE
    BY <2>2, <2>4 DEF Job, Reading
  <2> QED BY <2>3, <2>5
<1>6. PICK j : j = JobTo(read, do)
  OBVIOUS
<1>7. \/ ~ na[r].pending /\ Go(p, Left(p, read.todo))
      \/ na[r].pending /\ Go(p, j)
  BY <1>a, <1>b, <1>6 DEF PushRead, NextOf, Reading, JobTo
<1>8. CASE na[r].pending /\ Go(p, j)
  <2>1. do \in Dos
    BY <1>b DEF Dos
  <2>2. /\ j \in Job /\ j.do = do /\ j.row = r /\ j.person = na[r].person /\ j.due = Unsent(r).due
        /\ j.state = na[r].state /\ j.what = a.what /\ j.fresh
    BY <1>5, <1>6, <2>1, JobDo
  <2>3. j.what = job[p].what /\ j.do = IF na[r].state = "OPEN" THEN "call" ELSE "count"
    BY <1>a, <1>b, <2>2
  <2>4. j.person \in Persons /\ na[r].state # "NONE"
    BY <1>2, <1>8, <2>2
  <2> QED BY <1>a, <1>1, <1>2, <1>8, <2>2, <2>3, <2>4
<1>9. CASE ~ na[r].pending /\ Go(p, Left(p, read.todo))
  BY <1>a, <1>1, <1>2, <1>5, <1>9
<1> QED BY <1>7, <1>8, <1>9

LEMMA PushReadBase ==
  ASSUME Base, NEW p \in Procs, PushRead(p)
  PROVE  Base'
<1>1. CASE \E todo \in Seq(Rows) : Go(p, Left(p, todo))
  BY <1>1, PushReadIs, EndBase
<1>2. ASSUME NEW j \in Job, NEW r \in Rows, Go(p, j), na[r].pending, j.row = r, j.person = na[r].person,
             j.person \in Persons, j.due = Unsent(r).due, j.state = na[r].state, j.what = job[p].what,
             j.do = IF na[r].state = "OPEN" THEN "call" ELSE "count"
      PROVE  Base'
  <2>1. /\ job' \in [Procs -> Job] /\ job'[p] = j /\ na' = na
        /\ \A q \in Procs : q # p => SameJob(q) /\ job'[q].fresh = job[q].fresh
    BY <1>2, Went, PushReadIs DEF Base
  <2>2. Its(j)' /\ AsRead(j)'
    BY <1>2, <2>1 DEF Its, AsRead, Unsent
  <2>3. j.do \in {"call", "count"} /\ (j.do = "count" => na'[r].state # "OPEN" /\ j.due = Blank)
    BY <1>2, <2>1 DEF Unsent
  <2>4. j.what = "pass" => p = Worker
    BY <1>2 DEF Base, JobFits
  <2>5. JobFits(p)'
    BY <1>2, <2>1, <2>2, <2>3, <2>4 DEF JobFits, Pushes
  <2>6. UNCHANGED <<na, crm, ours, cache, now, left, crossed>> /\ j.do # "follow"
    BY <2>3, PushReadIs
  <2> QED BY <2>1, <2>5, <2>6, JobBase
<1> QED BY <1>1, <1>2, PushReadIs

(* A job that only takes its next step. *)
LEMMA ToIs ==
  ASSUME Base, NEW p \in Procs, NEW do \in {"push", "call", "settle", "fail", "copy"}
  PROVE  LET a == job[p]  b == To(p, do) IN
         /\ b \in Job /\ b.do = do /\ b.what = a.what /\ b.row = a.row /\ b.person = a.person /\ b.due = a.due
         /\ b.state = a.state /\ b.list = a.list /\ b.fresh = a.fresh
<1>1. job[p] \in Job
  BY DEF Base, Types
<1>2. To(p, do) = [job[p] EXCEPT !.do = do]
  BY DEF To
<1> QED BY <1>1, <1>2 DEF Job

LEMMA ToFits ==
  ASSUME Base, NEW p \in Procs, job[p].do \in Pushes, NEW do \in {"call", "settle", "fail", "copy"},
         job'[p] = To(p, do), na' = na
  PROVE  JobFits(p)'
<1>1. LET a == job[p]  b == To(p, do) IN
      /\ b \in Job /\ b.do = do /\ b.what = a.what /\ b.row = a.row /\ b.person = a.person /\ b.due = a.due
      /\ b.state = a.state /\ b.list = a.list /\ b.fresh = a.fresh
  BY ToIs
<1>2. Its(job[p]) /\ (job[p].fresh => AsRead(job[p])) /\ (job[p].what = "pass" => p = Worker)
  BY DEF Base, JobFits
<1> QED BY <1>1, <1>2 DEF JobFits, Pushes, Its, AsRead, Unsent

LEMMA PushCountBase ==
  ASSUME Base, NEW p \in Procs, PushCount(p)
  PROVE  Base'
<1> PICK a, r, row : a = job[p] /\ r = a.row /\ row = [na[r] EXCEPT !.pending = FALSE, !.synced = now]
  OBVIOUS
<1>1. /\ a.do = "count" /\ UNCHANGED <<crm, ours, cache, now, left, crossed>>
      /\ \/ OpenOf(a.person) # {} /\ Save(p, r, row, Rest(p))
         \/ Go(p, To(p, "call")) /\ UNCHANGED na
  BY DEF PushCount, At
<1>2. /\ a \in Job /\ JobFits(p) /\ Types /\ r \in Rows /\ RowFits(r) /\ na[r] \in NaRow /\ na[r].state # "OPEN"
      /\ now \in Nat /\ a.todo \in Seq(Rows) /\ na[r].person \in Persons /\ na[r].state # "NONE"
  BY <1>1, Basics DEF Base, Types, JobFits, Pushes, Its, Job, RowFits
<1>3. CASE Save(p, r, row, Rest(p))
  <2> PICK j : j = Rest(p)
    OBVIOUS
  <2>1. /\ j \in Job /\ j.do \in {"idle", "push"} /\ (j.what = "pass" => Passing(p))
        /\ j.do = "push" => j.what = "pass"
    BY <1>2, LeftIs DEF Rest
  <2>2. row \in NaRow /\ row.state = na[r].state /\ row.person = na[r].person /\ row.synced = now /\ ~ row.pending
    BY <1>2 DEF NaRow
  <2>3. Save(p, r, row, j)
    BY <1>3
  <2>4. na' \in [Rows -> NaRow] /\ na'[r] = row /\ job'[p] = j
    <3>1. na' \in [Rows -> NaRow] /\ na'[r] = row
      BY <1>2, <2>2, <2>3 DEF Save, Types
    <3>2. job' = JobsAfter(p, r, j)
      BY <2>3 DEF Save
    <3> QED BY <1>2, <2>1, <3>1, <3>2, Saved
  <2>5. RowFits(r)'
    BY <1>1, <1>2, <2>2, <2>4 DEF RowFits
  <2>6. JobFits(p)'
    BY <2>1, <2>4, EndFits
  <2>7. /\ cache' \in [Persons -> Fields] /\ \A x \in Persons : cache'[x].at = cache[x].at
        /\ left' \in [Rows -> [Days -> Int]] /\ \A s \in Rows : s # r => left'[s] = left[s]
        /\ crossed' \in BOOLEAN
    BY <1>1, <1>2 DEF Types
  <2>8. j.do # "follow" /\ row.state # "NONE" /\ row.state # "OPEN"
    BY <1>2, <2>1, <2>2
  <2> QED BY <1>1, <1>2, <2>1, <2>2, <2>3, <2>5, <2>6, <2>7, <2>8, RowBase
<1>4. CASE Go(p, To(p, "call")) /\ UNCHANGED na
  <2>1. To(p, "call") \in Job /\ To(p, "call").do = "call"
    BY ToIs
  <2>2. /\ job' \in [Procs -> Job] /\ job'[p] = To(p, "call")
        /\ \A q \in Procs : q # p => SameJob(q) /\ job'[q].fresh = job[q].fresh
    BY <1>2, <1>4, <2>1, Went
  <2>3. JobFits(p)'
    BY <1>1, <1>4, <2>2, ToFits DEF Pushes
  <2> QED BY <1>1, <1>4, <2>1, <2>2, <2>3, JobBase
<1> QED BY <1>1, <1>3, <1>4

(* Twenty takes a write of person x. *)
LEMMA TakesIs ==
  ASSUME Types, NEW x \in Persons, NEW d \in Days \cup {Blank}, NEW us \in BOOLEAN, TwentyTakes(x, d, us)
  PROVE  /\ now' = now + 1 /\ crm' \in [Persons -> Fields] /\ ours' \in [Persons -> BOOLEAN]
         /\ crm'[x].due = d /\ crm'[x].at = now + 1 /\ ours'[x] = us
         /\ \A y \in Persons : y # x => crm'[y] = crm[y] /\ ours'[y] = ours[y]
<1>1. /\ [due |-> d, at |-> now + 1] \in Fields /\ crm \in [Persons -> Fields] /\ now \in Nat
      /\ ours \in [Persons -> BOOLEAN]
  BY DEF Types, Fields
<1> QED BY <1>1 DEF TwentyTakes

LEMMA TakesBase ==
  ASSUME Base, NEW x \in Persons, NEW d \in Days \cup {Blank}, NEW us \in BOOLEAN, TwentyTakes(x, d, us),
         UNCHANGED <<na, cache, left>>, crossed' \in BOOLEAN, job' \in [Procs -> Job],
         \A q \in Procs : JobFits(q)' \/ SameJob(q),
         (job'[Worker].do = job[Worker].do /\ job'[Worker].list \subseteq job[Worker].list) \/ ~ Following'
  PROVE  Base'
<1>1. /\ now' = now + 1 /\ crm' \in [Persons -> Fields] /\ ours' \in [Persons -> BOOLEAN]
      /\ crm'[x].at = now + 1 /\ \A y \in Persons : y # x => crm'[y] = crm[y]
  BY TakesIs DEF Base
<1>2. Types /\ now \in Nat /\ crm \in [Persons -> Fields] /\ cache \in [Persons -> Fields] /\ na \in [Rows -> NaRow]
  BY DEF Base, Types
<1>3. Types' /\ OneOpen'
  BY <1>1, <1>2 DEF Base, Types, OneOpen
<1>4. \A r \in Rows : RowFits(r)' /\ Keeps(r)
  <2>1. \A r \in Rows : na[r].synced \in Nat
    BY <1>2 DEF NaRow
  <2> QED BY <1>1, <1>2, <2>1 DEF Base, RowFits, Keeps
<1>5. \A y \in Persons : PersonFits(y)' /\ crm[y].at <= crm'[y].at
  <2>1. \A y \in Persons : crm[y].at \in Nat /\ cache[y].at \in Nat /\ PersonFits(y)
    BY <1>2 DEF Base, Fields
  <2> QED BY <1>1, <1>2, <2>1 DEF PersonFits
<1>6. \A q \in Procs : \/ JobFits(q)'
                       \/ SameJob(q) /\ (job'[q].fresh => \A r \in Rows : r = job[q].row => na'[r] = na[r])
  OBVIOUS
<1> QED BY <1>3, <1>4, <1>5, <1>6, BaseHolds

LEMMA PushCallBase ==
  ASSUME Base, NEW p \in Procs, PushCall(p)
  PROVE  Base'
<1> PICK a : a = job[p]
  OBVIOUS
<1>1. /\ a.do = "call" /\ UNCHANGED <<na, cache, left>>
      /\ \E do \in {"settle", "fail"} :
           /\ Go(p, To(p, do))
           /\ \/ TwentyTakes(a.person, a.due, TRUE) /\ crossed' = (crossed \/ Pushing(a.person) # {p} \/ ~ a.fresh)
              \/ UNCHANGED <<crm, ours, now, crossed>>
  BY DEF PushCall, At
<1>2. PICK do \in {"settle", "fail"} :
           /\ Go(p, To(p, do))
           /\ \/ TwentyTakes(a.person, a.due, TRUE) /\ crossed' = (crossed \/ Pushing(a.person) # {p} \/ ~ a.fresh)
              \/ UNCHANGED <<crm, ours, now, crossed>>
  BY <1>1
<1>3. a \in Job /\ Types /\ a.person \in Persons /\ a.due \in Days \cup {Blank}
  BY <1>1 DEF Base, Types, JobFits, Pushes, Its, Job
<1>4. To(p, do) \in Job /\ To(p, do).do = do
  BY ToIs
<1>5. /\ job' \in [Procs -> Job] /\ job'[p] = To(p, do)
      /\ \A q \in Procs : q # p => SameJob(q) /\ job'[q].fresh = job[q].fresh
  BY <1>2, <1>3, <1>4, Went
<1>6. JobFits(p)'
  BY <1>1, <1>5, ToFits DEF Pushes
<1>7. CASE TwentyTakes(a.person, a.due, TRUE) /\ crossed' = (crossed \/ Pushing(a.person) # {p} \/ ~ a.fresh)
  <2>1. crossed' \in BOOLEAN
    BY <1>7
  <2>2. (job'[Worker].do = job[Worker].do /\ job'[Worker].list \subseteq job[Worker].list) \/ ~ Following'
    BY <1>4, <1>5, Basics DEF SameJob, Following
  <2>3. \A q \in Procs : JobFits(q)' \/ SameJob(q)
    BY <1>5, <1>6
  <2>4. UNCHANGED <<na, cache, left>> /\ TwentyTakes(a.person, a.due, TRUE)
    BY <1>1, <1>7
  <2> QED BY <1>3, <1>5, <2>1, <2>2, <2>3, <2>4, TakesBase
<1>8. CASE UNCHANGED <<crm, ours, now, crossed>>
  BY <1>1, <1>4, <1>5, <1>6, <1>8, JobBase
<1> QED BY <1>2, <1>7, <1>8

LEMMA PushSettleBase ==
  ASSUME Base, NEW p \in Procs, PushSettle(p)
  PROVE  Base'
<1> PICK a, r, row, j : /\ a = job[p] /\ r = a.row /\ row = [na[r] EXCEPT !.pending = FALSE, !.synced = now]
                        /\ j = To(p, "copy")
  OBVIOUS
<1>1. /\ a.do = "settle" /\ UNCHANGED <<crm, ours, cache, now, left, crossed>>
      /\ Save(p, r, row, j) \/ (Go(p, j) /\ UNCHANGED na)
  BY DEF PushSettle, At
<1>2. /\ a \in Job /\ JobFits(p) /\ Types /\ r \in Rows /\ RowFits(r) /\ na[r] \in NaRow
      /\ now \in Nat /\ a.person \in Persons /\ na[r].person = a.person /\ na[r].state # "NONE"
      /\ (a.what = "pass" => p = Worker)
  BY <1>1, Basics DEF Base, Types, JobFits, Pushes, Its, RowFits
<1>3. j \in Job /\ j.do = "copy" /\ j.person = a.person /\ j.what = a.what
  BY ToIs
<1>4. job'[p] = j => JobFits(p)'
  BY <1>2, <1>3 DEF JobFits, Pushes
<1>5. CASE Save(p, r, row, j)
  <2>1. row \in NaRow /\ row.state = na[r].state /\ row.person = na[r].person /\ row.synced = now /\ ~ row.pending
        /\ row.due = na[r].due
    BY <1>2 DEF NaRow
  <2>2. na' \in [Rows -> NaRow] /\ na'[r] = row /\ job'[p] = j
    <3>1. na' \in [Rows -> NaRow] /\ na'[r] = row
      BY <1>2, <1>5, <2>1 DEF Save, Types
    <3>2. job' = JobsAfter(p, r, j)
      BY <1>5 DEF Save
    <3> QED BY <1>2, <1>3, <3>1, <3>2, Saved
  <2>3. RowFits(r)'
    <3>1. /\ na'[r].state = na[r].state /\ na'[r].person = na[r].person /\ na'[r].due = na[r].due
          /\ na'[r].synced = now /\ ~ na'[r].pending
      BY <2>1, <2>2
    <3>2. left' = left /\ now' = now /\ now <= now /\ RowFits(r)
      BY <1>1, <1>2
    <3> QED BY <3>1, <3>2 DEF RowFits
  <2>4. /\ cache' \in [Persons -> Fields] /\ \A x \in Persons : cache'[x].at = cache[x].at
        /\ left' \in [Rows -> [Days -> Int]] /\ \A s \in Rows : s # r => left'[s] = left[s]
        /\ crossed' \in BOOLEAN
    BY <1>1, <1>2 DEF Types
  <2> QED BY <1>1, <1>2, <1>3, <1>4, <1>5, <2>1, <2>2, <2>3, <2>4, RowBase
<1>6. CASE Go(p, j) /\ UNCHANGED na
  <2>1. /\ job' \in [Procs -> Job] /\ job'[p] = j
        /\ \A q \in Procs : q # p => SameJob(q) /\ job'[q].fresh = job[q].fresh
    BY <1>2, <1>3, <1>6, Went
  <2> QED BY <1>1, <1>3, <1>4, <1>6, <2>1, JobBase
<1> QED BY <1>1, <1>5, <1>6

LEMMA PushCopyBase ==
  ASSUME Base, NEW p \in Procs, PushCopy(p)
  PROVE  Base'
<1> PICK a, j : a = job[p] /\ j = Rest(p)
  OBVIOUS
<1>1. /\ a.do = "copy" /\ Mirror(a.person, a.due) /\ Go(p, j) /\ UNCHANGED <<na, crm, ours, now, left, crossed>>
  BY DEF PushCopy, At
<1>2. /\ a \in Job /\ Types /\ a.person \in Persons /\ a.due \in Days \cup {Blank} /\ a.todo \in Seq(Rows)
  BY <1>1 DEF Base, Types, JobFits, Job
<1>3. /\ j \in Job /\ j.do \in {"idle", "push"} /\ (j.what = "pass" => Passing(p)) /\ (j.do = "push" => j.what = "pass")
  BY <1>2, LeftIs DEF Rest
<1>4. job'[p] = j
  BY <1>1, <1>2, <1>3, Went
<1>5. JobFits(p)'
  BY <1>3, <1>4, EndFits
<1> QED BY <1>1, <1>2, <1>3, <1>5, MirrorBase

LEMMA PushFailBase ==
  ASSUME Base, NEW p \in Procs, PushFail(p)
  PROVE  Base'
<1> PICK a, j : a = job[p] /\ j = Rest(p)
  OBVIOUS
<1>1. /\ a.do = "fail" /\ UNCHANGED <<na, crm, ours, cache, now, left, crossed>>
      /\ job' = JobsAfter(p, a.row, j) \/ Go(p, j)
  BY DEF PushFail, At
<1>2. a \in Job /\ Types /\ a.row \in Rows /\ a.todo \in Seq(Rows)
  BY <1>1 DEF Base, Types, JobFits, Job, Pushes, Its
<1>3. /\ j \in Job /\ j.do \in {"idle", "push"} /\ (j.what = "pass" => Passing(p)) /\ (j.do = "push" => j.what = "pass")
  BY <1>2, LeftIs DEF Rest
<1>4. job' \in [Procs -> Job] /\ job'[p] = j /\ \A q \in Procs : q # p => SameJob(q)
  <2>1. CASE job' = JobsAfter(p, a.row, j)
    BY <1>2, <1>3, <2>1, Saved
  <2>2. CASE Go(p, j)
    BY <1>2, <1>3, <2>2, Went
  <2> QED BY <1>1, <2>1, <2>2
<1>5. JobFits(p)'
  BY <1>3, <1>4, EndFits
<1> QED BY <1>1, <1>3, <1>4, <1>5, JobBase

Listed == {[row |-> r, due |-> na[r].due, synced |-> na[r].synced, crm |-> cache[na[r].person]] :
             r \in {x \in Rows : /\ na[x].state = "OPEN" /\ ~ na[x].pending
                                 /\ Behind(na[x], cache[na[x].person])}}
Seen == [row : Rows, due : Days, synced : Nat, crm : Fields]

LEMMA ListedIs ==
  ASSUME Base, NEW seen \in Listed
  PROVE  LET r == seen.row IN
         /\ seen \in Seen /\ na[r].state = "OPEN" /\ ~ na[r].pending /\ seen.due = na[r].due
         /\ seen.synced = na[r].synced /\ seen.crm = cache[na[r].person] /\ na[r].person \in Persons
         /\ seen.synced < seen.crm.at
<1>1. PICK r \in Rows : /\ na[r].state = "OPEN" /\ ~ na[r].pending /\ Behind(na[r], cache[na[r].person])
                        /\ seen = [row |-> r, due |-> na[r].due, synced |-> na[r].synced, crm |-> cache[na[r].person]]
  BY DEF Listed
<1>2. na[r] \in NaRow /\ RowFits(r)
  BY DEF Base, Types
<1>3. na[r].person \in Persons /\ na[r].due \in Days /\ na[r].synced \in Nat
  BY <1>1, <1>2 DEF RowFits, NaRow
<1>4. cache[na[r].person] \in Fields
  BY <1>3 DEF Base, Types
<1>5. seen \in Seen
  BY <1>1, <1>3, <1>4 DEF Seen
<1>6. seen.synced < seen.crm.at
  BY <1>1, <1>3, <1>4 DEF Behind, Fields
<1> QED BY <1>1, <1>3, <1>5, <1>6

LEMMA ListOpenIs ==
  ASSUME Base, ListOpen
  PROVE  /\ job[Worker].do = "push" /\ UNCHANGED <<na, crm, ours, cache, now, left, crossed>>
         /\ \/ Go(Worker, NoJob)
            \/ \E j \in Job : /\ Go(Worker, j) /\ j.do = "follow" /\ j.what = "pass" /\ j.list = Listed
<1>1. /\ job[Worker].do = "push" /\ UNCHANGED <<na, crm, ours, cache, now, left, crossed>>
      /\ \/ Go(Worker, NoJob)
         \/ Go(Worker, [NoJob EXCEPT !.do = "follow", !.what = "pass", !.list = Listed])
  BY DEF ListOpen, At, Listed
<1>2. \A seen \in Listed : seen \in Seen
  BY ListedIs
<1>3. PICK list \in SUBSET Seen : list = Listed
  BY <1>2
<1> PICK j : j = [NoJob EXCEPT !.do = "follow", !.what = "pass", !.list = list]
  OBVIOUS
<1>4. j \in Job /\ j.do = "follow" /\ j.what = "pass" /\ j.list = Listed
  BY <1>3, NoJobIs DEF Job, Kinds, Seen
<1>5. [NoJob EXCEPT !.do = "follow", !.what = "pass", !.list = Listed] = j
  BY <1>3
<1> HIDE DEF Listed
<1> QED BY <1>1, <1>4, <1>5

LEMMA ListOpenBase ==
  ASSUME Base, ListOpen
  PROVE  Base'
<1>1. UNCHANGED <<na, crm, ours, cache, now, left, crossed>> /\ Worker \in Procs
  BY ListOpenIs, Basics
<1>2. CASE Go(Worker, NoJob)
  BY <1>1, <1>2, EndBase, EmptySeq
<1>3. ASSUME NEW j \in Job, Go(Worker, j), j.do = "follow", j.what = "pass", j.list = Listed
      PROVE  Base'
  <2>1. /\ job' \in [Procs -> Job] /\ job'[Worker] = j
        /\ \A q \in Procs : q # Worker => SameJob(q) /\ job'[q].fresh = job[q].fresh
    BY <1>1, <1>3, Went DEF Base
  <2>2. JobFits(Worker)'
    BY <1>3, <2>1 DEF JobFits, Pushes
  <2>3. ASSUME NEW seen \in job'[Worker].list PROVE SeenFits(seen)'
    <3>1. seen \in Listed
      BY <1>3, <2>1
    <3>2. /\ na[seen.row].state = "OPEN" /\ seen.crm = cache[na[seen.row].person] /\ na[seen.row].person \in Persons
          /\ seen.synced < seen.crm.at
      BY <3>1, ListedIs
    <3>3. \A o \in Listed : o.row = seen.row => o = seen
      BY <3>1 DEF Listed
    <3>4. cache[na[seen.row].person].at <= crm[na[seen.row].person].at
      BY <3>2 DEF Base, PersonFits
    <3> HIDE DEF Listed
    <3> QED BY <1>1, <1>3, <2>1, <3>2, <3>3, <3>4 DEF SeenFits
  <2> QED BY <1>1, <1>3, <2>1, <2>2, <2>3, JobBase
<1> QED BY <1>2, <1>3, ListOpenIs

(* The worker follows one of the rows it listed. *)
LEMMA FollowIs ==
  ASSUME Base, Follow
  PROVE  \E seen \in job[Worker].list, j \in Job :
           LET r == seen.row  row == Followed(na[r], seen) IN
           /\ Following /\ seen \in Seen /\ SeenFits(seen) /\ Save(Worker, r, row, j)
           /\ crossed' = (crossed \/ Moved(na[r], seen))
           /\ left' = IF seen.crm.due = seen.due THEN left ELSE Due(r, seen.crm.due, left[r])
           /\ UNCHANGED <<crm, ours, cache, now>>
           /\ j = NoJob \/ (j.do = "follow" /\ j.what = job[Worker].what /\ j.list = job[Worker].list \ {seen})
           /\ row \in NaRow /\ row.person = na[r].person /\ row.pending = na[r].pending /\ row.synced = seen.crm.at
           /\ \/ seen.crm.due = seen.due /\ row.state = na[r].state /\ row.due = na[r].due
              \/ seen.crm.due # seen.due /\ seen.crm.due = Blank /\ row.state = "CANCELLED" /\ row.due = na[r].due
              \/ seen.crm.due # seen.due /\ seen.crm.due \in Days /\ row.state = na[r].state /\ row.due = seen.crm.due
<1> PICK a : a = job[Worker]
  OBVIOUS
<1>1. PICK seen \in a.list : LET rest == a.list \ {seen} IN
           /\ Save(Worker, seen.row, Followed(na[seen.row], seen), IF rest = {} THEN NoJob ELSE [a EXCEPT !.list = rest])
           /\ crossed' = (crossed \/ Moved(na[seen.row], seen))
           /\ left' = IF seen.crm.due = seen.due THEN left ELSE Due(seen.row, seen.crm.due, left[seen.row])
  BY DEF Follow
<1>2. a.do = "follow" /\ UNCHANGED <<crm, ours, cache, now>>
  BY DEF Follow, At
<1>3. a \in Job /\ SeenFits(seen) /\ a.list \subseteq Seen
  BY <1>1, <1>2, Basics DEF Base, Types, Following, Job, Seen
<1>4. PICK j : j = IF a.list \ {seen} = {} THEN NoJob ELSE [a EXCEPT !.list = a.list \ {seen}]
  OBVIOUS
<1>5. j \in Job /\ (j = NoJob \/ (j.do = "follow" /\ j.what = a.what /\ j.list = a.list \ {seen}))
  <2>1. PICK rest \in SUBSET Seen : rest = a.list \ {seen}
    BY <1>3
  <2>2. [a EXCEPT !.list = rest] \in Job /\ [a EXCEPT !.list = rest].do = "follow"
        /\ [a EXCEPT !.list = rest].what = a.what /\ [a EXCEPT !.list = rest].list = rest
    BY <1>2, <1>3 DEF Job, Seen
  <2> QED BY <1>4, <2>1, <2>2, NoJobIs
<1> PICK r, row : r = seen.row /\ row = Followed(na[r], seen)
  OBVIOUS
<1>6. seen \in Seen /\ r \in Rows /\ seen.crm \in Fields /\ seen.crm.due \in Days \cup {Blank} /\ seen.crm.at \in Nat
  BY <1>1, <1>3 DEF Seen, Fields
<1>7. na[r] \in NaRow
  BY <1>6 DEF Base, Types
<1>8. /\ row \in NaRow /\ row.person = na[r].person /\ row.pending = na[r].pending /\ row.synced = seen.crm.at
      /\ \/ seen.crm.due = seen.due /\ row.state = na[r].state /\ row.due = na[r].due
         \/ seen.crm.due # seen.due /\ seen.crm.due = Blank /\ row.state = "CANCELLED" /\ row.due = na[r].due
         \/ seen.crm.due # seen.due /\ seen.crm.due \in Days /\ row.state = na[r].state /\ row.due = seen.crm.due
  <2>1. CASE seen.crm.due = seen.due
    <3>1. row = [na[r] EXCEPT !.synced = seen.crm.at]
      BY <2>1 DEF Followed
    <3> QED BY <1>6, <1>7, <2>1, <3>1 DEF NaRow
  <2>2. CASE seen.crm.due # seen.due /\ seen.crm.due = Blank
    <3>1. row = [na[r] EXCEPT !.state = "CANCELLED", !.synced = seen.crm.at]
      BY <2>2 DEF Followed
    <3> QED BY <1>6, <1>7, <2>2, <3>1 DEF NaRow, States
  <2>3. CASE seen.crm.due # seen.due /\ seen.crm.due # Blank
    <3>1. row = [na[r] EXCEPT !.due = seen.crm.due, !.synced = seen.crm.at]
      BY <2>3 DEF Followed
    <3> QED BY <1>6, <1>7, <2>3, <3>1 DEF NaRow
  <2> QED BY <2>1, <2>2, <2>3
<1>9. Save(Worker, r, row, j)
  BY <1>1, <1>4
<1> QED BY <1>1, <1>2, <1>3, <1>5, <1>6, <1>8, <1>9 DEF Following

LEMMA FollowBase ==
  ASSUME Base, Follow
  PROVE  Base'
<1>1. PICK seen \in job[Worker].list, j \in Job :
           LET r == seen.row  row == Followed(na[r], seen) IN
           /\ Following /\ seen \in Seen /\ SeenFits(seen) /\ Save(Worker, r, row, j)
           /\ crossed' = (crossed \/ Moved(na[r], seen))
           /\ left' = IF seen.crm.due = seen.due THEN left ELSE Due(r, seen.crm.due, left[r])
           /\ UNCHANGED <<crm, ours, cache, now>>
           /\ j = NoJob \/ (j.do = "follow" /\ j.what = job[Worker].what /\ j.list = job[Worker].list \ {seen})
           /\ row \in NaRow /\ row.person = na[r].person /\ row.pending = na[r].pending /\ row.synced = seen.crm.at
           /\ \/ seen.crm.due = seen.due /\ row.state = na[r].state /\ row.due = na[r].due
              \/ seen.crm.due # seen.due /\ seen.crm.due = Blank /\ row.state = "CANCELLED" /\ row.due = na[r].due
              \/ seen.crm.due # seen.due /\ seen.crm.due \in Days /\ row.state = na[r].state /\ row.due = seen.crm.due
  BY FollowIs
<1> PICK r, row : r = seen.row /\ row = Followed(na[r], seen)
  OBVIOUS
<1>2. /\ r \in Rows /\ Types /\ RowFits(r) /\ na[r].state # "NONE" /\ seen.crm.at \in Nat /\ now \in Nat
      /\ left \in [Rows -> [Days -> Int]] /\ seen.crm.due \in Days \cup {Blank} /\ na[r].person \in Persons
  BY <1>1, Basics DEF Base, Types, Seen, Fields, SeenFits, RowFits, NaRow
<1>3. seen.crm.at <= now
  <2>1. PersonFits(na[r].person) /\ crm[na[r].person].at \in Nat /\ seen.crm.at <= crm[na[r].person].at
    BY <1>1, <1>2 DEF Base, SeenFits, Types, Fields
  <2> QED BY <1>2, <2>1 DEF PersonFits
<1>4. Counts(r, row)
  <2>1. CASE seen.crm.due = seen.due
    BY <1>1, <1>2, <2>1 DEF Counts, RowFits
  <2>2. CASE seen.crm.due # seen.due
    <3>1. left[r] \in [Days -> Int] /\ \A d \in Days : left[r][d] >= 0
      BY <1>2 DEF RowFits
    <3>2. left' = Due(r, seen.crm.due, left[r])
      BY <1>1, <2>2
    <3>3. row.state = "OPEN" => seen.crm.due \in Days /\ row.due = seen.crm.due
      BY <1>1, <2>2
    <3> QED BY <1>2, <3>1, <3>2, <3>3, CountsIs
  <2> QED BY <2>1, <2>2
<1>5. na'[r] = row /\ job'[Worker] = j
  <2>1. job' = JobsAfter(Worker, r, j)
    BY <1>1 DEF Save
  <2> QED BY <1>1, <1>2, <2>1, Basics, Saved DEF Save, Types
<1>6. RowFits(r)'
  <2>1. row.person = na[r].person /\ row.state # "NONE" /\ (row.state = "OPEN" => row.due \in Days)
    BY <1>1, <1>2, Basics DEF RowFits
  <2>2. row.synced = seen.crm.at /\ now' = now /\ row.synced <= now'
    BY <1>1, <1>3
  <2>3. /\ \A d \in Days : left'[r][d] >= 0
        /\ row.state = "OPEN" => left'[r][row.due] >= 1
    BY <1>4 DEF Counts
  <2> QED BY <1>2, <1>5, <2>1, <2>2, <2>3, Basics DEF RowFits
<1>7. JobFits(Worker)'
  BY <1>1, <1>5, NoJobIs, Basics DEF JobFits, Pushes, Kinds
<1>8. /\ left' \in [Rows -> [Days -> Int]] /\ \A s \in Rows : s # r => left'[s] = left[s]
      /\ cache' \in [Persons -> Fields] /\ \A x \in Persons : cache'[x].at = cache[x].at
      /\ crossed' \in BOOLEAN
  BY <1>1, <1>2, <1>4 DEF Counts, Types
<1>9. /\ na[r].state # "NONE" => /\ row.state # "NONE" /\ row.person = na[r].person
                                 /\ na[r].state # "OPEN" => row.state # "OPEN"
      /\ j.do = "follow" => Following /\ j.list \subseteq job[Worker].list
  BY <1>1, <1>2, NoJobIs
<1> QED BY <1>1, <1>2, <1>6, <1>7, <1>8, <1>9, Basics, RowBase

LEMMA EditBase ==
  ASSUME Base, NEW x \in Persons, EditInTwenty(x)
  PROVE  Base'
<1>1. PICK d \in Days \cup {Blank} : TwentyTakes(x, d, FALSE)
  BY DEF EditInTwenty
<1>2. UNCHANGED <<na, cache, left, job>> /\ crossed' = (crossed \/ Sending(x) # {})
  BY DEF EditInTwenty
<1>3. crossed' \in BOOLEAN /\ job' \in [Procs -> Job] /\ \A q \in Procs : JobFits(q)' \/ SameJob(q)
  BY <1>2 DEF SameJob, Base, Types
<1>4. job'[Worker].do = job[Worker].do /\ job'[Worker].list \subseteq job[Worker].list
  BY <1>2
<1> QED BY <1>1, <1>2, <1>3, <1>4, TakesBase

LEMMA RefreshBase ==
  ASSUME Base, NEW x \in Persons, Refresh(x)
  PROVE  Base'
<1>1. cache' = [cache EXCEPT ![x] = crm[x]] /\ UNCHANGED <<na, crm, ours, job, now, left, crossed>> /\ Types
  BY DEF Refresh, Base
<1>2. cache' \in [Persons -> Fields] /\ cache'[x] = crm[x] /\ \A y \in Persons : y # x => cache'[y] = cache[y]
  BY <1>1 DEF Types
<1>3. Types' /\ OneOpen'
  BY <1>1, <1>2 DEF Base, Types, OneOpen
<1>4. \A r \in Rows : RowFits(r)' /\ Keeps(r)
  BY <1>1 DEF Base, RowFits, Keeps
<1>5. \A y \in Persons : PersonFits(y)' /\ crm[y].at <= crm'[y].at
  BY <1>1, <1>2 DEF Base, PersonFits, Types, Fields
<1>6. \A q \in Procs : \/ JobFits(q)'
                       \/ SameJob(q) /\ (job'[q].fresh => \A r \in Rows : r = job[q].row => na'[r] = na[r])
  BY <1>1 DEF SameJob
<1>7. job'[Worker].do = job[Worker].do /\ job'[Worker].list \subseteq job[Worker].list
  BY <1>1
<1> QED BY <1>3, <1>4, <1>5, <1>6, <1>7, BaseHolds

LEMMA InitBase ==
  ASSUME Init
  PROVE  Base
<1>1. \A r \in Already : Owner[r] \in Persons /\ r \in Rows
  BY NextActionsAssumption
<1>2. NoRow \in NaRow
  BY Basics DEF NoRow, NaRow, States
<1>3. ASSUME NEW r \in Rows
      PROVE  /\ na[r] \in NaRow /\ na[r].synced <= 1 /\ na[r].state \in {"OPEN", "NONE"}
             /\ na[r].state = "OPEN" => r \in Already /\ na[r].person = Owner[r] /\ na[r].due = 1
             /\ na[r].state = "NONE" => na[r].person = Nil /\ ~ na[r].pending
  <2>1. CASE r \in Already
    <3> PICK b : b = (Owner[r] \in Broken)
      OBVIOUS
    <3> PICK x \in Persons : x = Owner[r]
      BY <1>1, <2>1
    <3>2. b \in BOOLEAN
      OBVIOUS
    <3>1. na[r] = [NoRow EXCEPT !.state = "OPEN", !.person = x, !.due = 1, !.repeats = TRUE, !.synced = 1,
                                !.pending = b]
      BY <2>1 DEF Init
    <3> HIDE DEF NoRow
    <3>3. na[r] \in NaRow
      BY <1>2, <3>1, <3>2, Basics DEF NaRow, States
    <3>4. na[r].synced = 1 /\ na[r].state = "OPEN" /\ na[r].person = x /\ na[r].due = 1
      BY <1>2, <3>1 DEF NaRow
    <3> QED BY <2>1, <3>3, <3>4
  <2>2. CASE r \notin Already
    <3>1. na[r] = NoRow
      BY <2>2 DEF Init
    <3> QED BY <1>2, <3>1 DEF NoRow
  <2> QED BY <2>1, <2>2
<1>4. na \in [Rows -> NaRow]
  <2>1. na = [r \in Rows |-> na[r]]
    BY DEF Init
  <2> QED BY <1>3, <2>1
<1>5. /\ ours \in [Persons -> BOOLEAN] /\ now = 1 /\ crossed = FALSE /\ job = [p \in Procs |-> NoJob]
      /\ crm = [p \in Persons |-> [due |-> IF ours[p] THEN 1 ELSE Blank, at |-> 1]] /\ cache = crm
      /\ left = [r \in Rows |-> [d \in Days |-> IF na[r].due = d THEN 1 ELSE 0]]
  BY DEF Init
<1>6. crm \in [Persons -> Fields]
  BY <1>5, Basics DEF Fields
<1>7. /\ left \in [Rows -> [Days -> Int]] /\ \A r \in Rows, d \in Days : left[r][d] >= 0
      /\ \A r \in Rows : na[r].due \in Days => left[r][na[r].due] = 1
  BY <1>5
<1>8. Types
  BY <1>4, <1>5, <1>6, <1>7, NoJobIs DEF Types
<1>9. OneOpen
  BY <1>3, NextActionsAssumption DEF OneOpen
<1>10. ASSUME NEW r \in Rows PROVE RowFits(r)
  BY <1>1, <1>3, <1>5, <1>7, Basics DEF RowFits
<1>11. \A q \in Procs : JobFits(q)
  BY <1>5, NoJobIs, Basics DEF JobFits, Pushes, Kinds
<1>12. \A x \in Persons : PersonFits(x)
  BY <1>5 DEF PersonFits
<1>13. ~ Following
  BY <1>5, NoJobIs, Basics DEF Following
<1> QED BY <1>8, <1>9, <1>10, <1>11, <1>12, <1>13 DEF Base

(* The actions of Next, one by one. *)
LEMMA Steps ==
  ASSUME [Next]_vars
  PROVE  \/ UNCHANGED vars
         \/ \E u \in Users : Begin(u)
         \/ EmailSeen \/ StartPass \/ ListOpen \/ Follow
         \/ \E p \in Procs : \/ SetFind(p) \/ SetSave(p) \/ ReadRow(p) \/ Claim(p) \/ WriteRow(p) \/ MirrorRow(p)
                            \/ PushRead(p) \/ PushCount(p) \/ PushCall(p) \/ PushSettle(p) \/ PushCopy(p)
                            \/ PushFail(p) \/ Die(p)
         \/ \E x \in Persons : EditInTwenty(x) \/ Refresh(x)
<1>1. \A u \in Users : u \in Procs
  BY Basics
<1>2. CASE \E u \in Users : Begin(u) \/ Request(u) \/ Push(u)
  BY <1>1, <1>2 DEF Request, Push
<1>3. CASE WorkerStep
  BY <1>3, Basics DEF WorkerStep, Request, Push
<1> QED BY <1>2, <1>3 DEF Next

LEMMA BaseInductive ==
  ASSUME Base, [Next]_vars
  PROVE  Base'
<1>1. CASE UNCHANGED vars
  BY <1>1 DEF vars, Base, Types, OneOpen, RowFits, JobFits, PersonFits, SeenFits, Following, Its, AsRead, Unsent, OpenOf
<1>2. CASE \E u \in Users : Begin(u)
  BY <1>2, BeginBase
<1>3. CASE EmailSeen \/ StartPass \/ ListOpen \/ Follow
  BY <1>3, EmailBase, PassBase, ListOpenBase, FollowBase
<1>4. CASE \E p \in Procs : SetFind(p) \/ SetSave(p) \/ ReadRow(p) \/ Claim(p) \/ WriteRow(p) \/ MirrorRow(p)
  BY <1>4, FindBase, SaveBase, ReadBase, ClaimBase, WriteRowBase, MirrorRowBase
<1>5. CASE \E p \in Procs : \/ PushRead(p) \/ PushCount(p) \/ PushCall(p) \/ PushSettle(p) \/ PushCopy(p)
                         \/ PushFail(p) \/ Die(p)
  BY <1>5, PushReadBase, PushCountBase, PushCallBase, PushSettleBase, PushCopyBase, PushFailBase, DieBase
<1>6. CASE \E x \in Persons : EditInTwenty(x) \/ Refresh(x)
  BY <1>6, EditBase, RefreshBase
<1> QED BY <1>1, <1>2, <1>3, <1>4, <1>5, <1>6, Steps

-----------------------------------------------------------------------------
(* The rows that exist stay ordered by their last write. *)

LEMMA LaterOrders ==
  ASSUME Orders(older, Created), NEW r \in Rows, older' = Later(r), Created' = Created \cup {r}
  PROVE  Orders(older, Created)'
<1> PICK C : C = Created
  OBVIOUS
<1>1. /\ older \subseteq C \X C /\ \A s \in C : <<s, s>> \notin older
      /\ \A s \in C, t \in C : s # t => (<<s, t>> \in older <=> <<t, s>> \notin older)
      /\ \A s \in C, t \in C, u \in C : <<s, t>> \in older /\ <<t, u>> \in older => <<s, u>> \in older
  BY DEF Orders
<1>2. ASSUME NEW s, NEW t
      PROVE  <<s, t>> \in older' <=> \/ <<s, t>> \in older /\ s # r /\ t # r
                                     \/ s \in C /\ s # r /\ t = r
  BY DEF Later
<1>3. older' \subseteq (C \cup {r}) \X (C \cup {r})
  BY <1>1 DEF Later
<1>4. Created' = C \cup {r}
  OBVIOUS
<1>5. ASSUME NEW s \in C \cup {r}, NEW t \in C \cup {r}, s # t
      PROVE  <<s, t>> \in older' <=> <<t, s>> \notin older'
  BY <1>1, <1>2, <1>5
<1>6. ASSUME NEW s \in C \cup {r} PROVE <<s, s>> \notin older'
  BY <1>1, <1>2
<1>7. ASSUME NEW s \in C \cup {r}, NEW t \in C \cup {r}, NEW u \in C \cup {r}, <<s, t>> \in older', <<t, u>> \in older'
      PROVE  <<s, u>> \in older'
  BY <1>1, <1>2, <1>7
<1> QED BY <1>3, <1>4, <1>5, <1>6, <1>7 DEF Orders

LEMMA SavedOrders ==
  ASSUME Base, Orders(older, Created), NEW r \in Rows, NEW row, row.state # "NONE",
         na' = [na EXCEPT ![r] = row], older' = Later(r)
  PROVE  Orders(older, Created)'
<1>1. na'[r] = row /\ \A s \in Rows : s # r => na'[s] = na[s]
  BY DEF Base, Types
<1>2. Created' = Created \cup {r}
  BY <1>1 DEF Created
<1> QED BY <1>2, LaterOrders

LEMMA OrdersInductive ==
  ASSUME Base, Orders(older, Created), [Next]_vars
  PROVE  Orders(older, Created)'
<1>1. Types /\ \A r \in Rows : na[r] \in NaRow /\ RowFits(r)
  BY DEF Base, Types
<1>2. CASE UNCHANGED <<na, older>>
  BY <1>2 DEF Orders, Created
<1>3. ASSUME NEW p \in Procs, job[p].do \in {"claim", "write"} \cup Pushes
      PROVE  job[p].row \in Rows /\ na[job[p].row] \in NaRow /\ na[job[p].row].state # "NONE"
  BY <1>1, <1>3, Basics DEF Base, JobFits, Its, RowFits
<1>4. ASSUME NEW p \in Procs, SetSave(p)
      PROVE  Orders(older, Created)'
  <2> PICK a : a = job[p]
    OBVIOUS
  <2> DEFINE Given(r) == [na[r] EXCEPT !.due = a.due, !.repeats = a.repeats, !.pending = TRUE]
             New(r)   == [Given(r) EXCEPT !.state = "OPEN", !.person = a.person]
  <2>1. \/ a.row # Nil /\ na' = [na EXCEPT ![a.row] = Given(a.row)] /\ older' = Later(a.row)
        \/ \E r \in Rows : na' = [na EXCEPT ![r] = New(r)] /\ older' = Later(r)
        \/ UNCHANGED <<na, older>>
    BY <1>4 DEF SetSave, Save
  <2>2. a.do = "save" /\ JobFits(p)
    BY <1>4 DEF SetSave, At, Base
  <2>3. CASE a.row # Nil /\ na' = [na EXCEPT ![a.row] = Given(a.row)] /\ older' = Later(a.row)
    <3>1. a.row \in Rows /\ na[a.row].state # "NONE"
      BY <1>1, <2>2, <2>3, Basics DEF JobFits, Its, RowFits
    <3>2. Given(a.row).state # "NONE"
      BY <1>1, <3>1 DEF NaRow
    <3> QED BY <2>3, <3>1, <3>2, SavedOrders
  <2>4. ASSUME NEW r \in Rows, na' = [na EXCEPT ![r] = New(r)], older' = Later(r)
        PROVE  Orders(older, Created)'
    <3>1. New(r).state = "OPEN"
      BY <1>1 DEF NaRow
    <3> QED BY <2>4, <3>1, SavedOrders
  <2> QED BY <1>2, <2>1, <2>3, <2>4
<1>5. ASSUME NEW p \in Procs, NEW row, row.state # "NONE", job[p].do \in {"claim", "write"} \cup Pushes,
             na' = [na EXCEPT ![job[p].row] = row], older' = Later(job[p].row)
      PROVE  Orders(older, Created)'
  BY <1>3, <1>5, SavedOrders
<1>6. ASSUME NEW p \in Procs, Claim(p)
      PROVE  Orders(older, Created)'
  <2> PICK next : next = IF job[p].repeats THEN NextOn(job[p].due) ELSE Blank
    OBVIOUS
  <2> PICK r, row : /\ r = job[p].row
                    /\ row = IF next # Blank THEN [na[r] EXCEPT !.due = next, !.pending = TRUE]
                                             ELSE [na[r] EXCEPT !.state = "DONE", !.pending = TRUE]
    OBVIOUS
  <2>1. /\ job[p].do = "claim"
        /\ (na' = [na EXCEPT ![r] = row] /\ older' = Later(r)) \/ UNCHANGED <<na, older>>
    BY <1>6 DEF Claim, At, Save
  <2>2. row.state # "NONE"
    BY <1>3, <2>1 DEF NaRow
  <2> QED BY <1>2, <1>5, <2>1, <2>2
<1>7. ASSUME NEW p \in Procs, WriteRow(p)
      PROVE  Orders(older, Created)'
  <2> PICK r : r = job[p].row
    OBVIOUS
  <2>1. /\ job[p].do = "write" /\ older' = Later(r)
        /\ \/ na' = [na EXCEPT ![r] = [na[r] EXCEPT !.due = job[p].due, !.pending = TRUE]]
           \/ na' = [na EXCEPT ![r] = [na[r] EXCEPT !.state = "CANCELLED", !.pending = TRUE]]
    BY <1>7 DEF WriteRow, At, Save
  <2>2. /\ [na[r] EXCEPT !.due = job[p].due, !.pending = TRUE].state # "NONE"
        /\ [na[r] EXCEPT !.state = "CANCELLED", !.pending = TRUE].state # "NONE"
    BY <1>3, <2>1 DEF NaRow
  <2> QED BY <1>5, <2>1, <2>2
<1>8. ASSUME NEW p \in Procs, PushCount(p) \/ PushSettle(p)
      PROVE  Orders(older, Created)'
  <2> PICK r, row : r = job[p].row /\ row = [na[r] EXCEPT !.pending = FALSE, !.synced = now]
    OBVIOUS
  <2>1. /\ job[p].do \in Pushes
        /\ (na' = [na EXCEPT ![r] = row] /\ older' = Later(r)) \/ UNCHANGED <<na, older>>
    BY <1>8 DEF PushCount, PushSettle, At, Save, Pushes
  <2>2. row.state # "NONE"
    BY <1>3, <2>1 DEF NaRow
  <2> QED BY <1>2, <1>5, <2>1, <2>2
<1>9. ASSUME NEW p \in Procs, PushFail(p)
      PROVE  Orders(older, Created)'
  <2>1. /\ job[p].do \in Pushes /\ na' = na
        /\ older' = Later(job[p].row) \/ older' = older
    BY <1>9 DEF PushFail, At, Pushes
  <2>2. CASE older' = Later(job[p].row)
    <3>1. Created' = Created \cup {job[p].row}
      BY <1>3, <2>1 DEF Created
    <3> QED BY <1>3, <2>1, <2>2, <3>1, LaterOrders
  <2> QED BY <1>2, <2>1, <2>2
<1>10. CASE Follow
  <2>1. PICK seen \in job[Worker].list, j \in Job : Save(Worker, seen.row, Followed(na[seen.row], seen), j)
           /\ seen \in Seen /\ SeenFits(seen)
           /\ Followed(na[seen.row], seen).state \in {na[seen.row].state, "CANCELLED"}
    BY <1>10, FollowIs
  <2> QED BY <2>1, SavedOrders DEF Save, Seen, SeenFits
<1>11. \/ UNCHANGED <<na, older>> \/ Follow
       \/ \E p \in Procs : SetSave(p) \/ Claim(p) \/ WriteRow(p) \/ PushCount(p) \/ PushSettle(p) \/ PushFail(p)
  <2>1. CASE UNCHANGED vars
    BY <2>1 DEF vars
  <2>2. CASE \E u \in Users : Begin(u)
    BY <2>2 DEF Begin
  <2>3. CASE EmailSeen \/ StartPass \/ ListOpen
    BY <2>3 DEF EmailSeen, StartPass, ListOpen
  <2>4. CASE \E p \in Procs : SetFind(p) \/ ReadRow(p) \/ MirrorRow(p) \/ PushRead(p) \/ PushCall(p) \/ PushCopy(p) \/ Die(p)
    BY <2>4 DEF SetFind, ReadRow, MirrorRow, PushRead, PushCall, PushCopy, Die
  <2>5. CASE \E x \in Persons : EditInTwenty(x) \/ Refresh(x)
    BY <2>5 DEF EditInTwenty, Refresh
  <2> QED BY <2>1, <2>2, <2>3, <2>4, <2>5, Steps
<1> QED BY <1>2, <1>4, <1>6, <1>7, <1>8, <1>9, <1>10, <1>11

LEMMA InitOrders ==
  ASSUME Init
  PROVE  Orders(older, Created)
<1>1. Created = Already
  <2>1. \A r \in Rows : na[r].state # "NONE" <=> r \in Already
    BY DEF Init, NoRow
  <2> QED BY <2>1, NextActionsAssumption DEF Created
<1> QED BY <1>1 DEF Init

LEMMA AtMostOne ==
  ASSUME OneOpen, NEW p \in Persons
  PROVE  Cardinality(OpenOf(p)) <= 1
<1>1. CASE OpenOf(p) = {}
  BY <1>1, FS_EmptySet
<1>2. CASE OpenOf(p) # {}
  <2>1. PICK r : r \in OpenOf(p)
    BY <1>2
  <2>2. OpenOf(p) = {r}
    BY <2>1 DEF OpenOf, OneOpen
  <2>3. Cardinality({r}) = 1
    BY FS_Singleton
  <2> QED BY <2>2, <2>3
<1> QED BY <1>1, <1>2

(* The invariant of Spec that the next theorems rest on.                   *)
THEOREM BaseInvariant == Spec => [](Base /\ Orders(older, Created))
<1>1. Init => Base /\ Orders(older, Created)
  BY InitBase, InitOrders
<1>2. (Base /\ Orders(older, Created)) /\ [Next]_vars => (Base /\ Orders(older, Created))'
  BY BaseInductive, OrdersInductive
<1> QED BY <1>1, <1>2, PTL DEF Spec

(* Whatever requests, passes, follows and edits in Twenty do: everything   *)
(* has its type, the rows are ordered by their last write, and a person has*)
(* at most one open task.                                                  *)
THEOREM NextActionsTypeCorrect == Spec => []TypeOK
<1>1. Base /\ Orders(older, Created) => TypeOK
  BY AtMostOne DEF Base, Types, TypeOK
<1> QED BY <1>1, BaseInvariant, PTL

(* completeNextAction's conditional update: no occurrence is done more     *)
(* often than it fell due, whichever Dones, moves and follows cross.       *)
THEOREM DoneOnce == Spec => []OccurrenceDoneOnce
<1>1. Base => OccurrenceDoneOnce
  BY DEF Base, RowFits, OccurrenceDoneOnce
<1> QED BY <1>1, BaseInvariant, PTL

-----------------------------------------------------------------------------
(* What holds of the fields in Twenty as long as no two changes crossed.   *)

Rests(r, x) == na[r].state = "OPEN" /\ na[r].person = x /\ ~ na[r].pending

(* The open task agrees with Twenty, or Twenty has been edited since; the  *)
(* cached copy is Twenty's where the worker would follow it.               *)
RowTrue(r, x) ==
  Rests(r, x) =>
    /\ na[r].synced >= crm[x].at => crm[x].due = na[r].due
    /\ na[r].synced < crm[x].at => ~ ours[x]
    /\ na[r].synced < cache[x].at /\ cache[x].at = crm[x].at => cache[x].due = crm[x].due
ClosedTrue(x) ==
  (\A r \in Rows : na[r].person = x => na[r].state # "OPEN" /\ ~ na[r].pending)
     => (ours[x] => crm[x].due = Blank)

(* A push that landed stands; nobody edited the fields under a change on   *)
(* its way; and what a push is about to send is the only change to send.   *)
Landed(q) == job[q].do = "settle" => crm[job[q].person].due = job[q].due /\ ours[job[q].person]
NotBehind(q) ==
  LET j == job[q] IN
  \/ j.do \in {"settle", "copy"}
  \/ j.do = "mirror" /\ j.due # Blank
  \/ j.do = "save" /\ j.row # Nil
  => \A r \in Rows : Rests(r, j.person) /\ (j.do = "save" => r # j.row) => na[r].synced >= crm[j.person].at
AllWait(q) == job[q].do = "call" /\ job[q].fresh => \A r \in Rows : ~ Rests(r, job[q].person)
OneRow(q) ==
  job[q].do = "call" /\ job[q].fresh =>
    \A o \in Procs : job[o].do = "settle" /\ job[o].fresh /\ job[o].person = job[q].person /\ job[o].state = "OPEN"
                        => job[o].row = job[q].row
JobTrue(q) == Landed(q) /\ NotBehind(q) /\ AllWait(q) /\ OneRow(q)

AsSeen(seen, x) == Rests(seen.row, x) /\ na[seen.row].due = seen.due /\ na[seen.row].synced = seen.synced
SeenTrue(seen) ==
  \A x \in Persons : AsSeen(seen, x) =>
    /\ seen.crm.at = crm[x].at => seen.crm.due = crm[x].due
    /\ seen.crm.at < crm[x].at => ~ ours[x]

AllTrue ==
  /\ \A r \in Rows, x \in Persons : RowTrue(r, x)
  /\ \A x \in Persons : ClosedTrue(x)
  /\ \A q \in Procs : JobTrue(q)
  /\ Following => \A seen \in job[Worker].list : SeenTrue(seen)
Straight == ~ crossed => AllTrue

LEMMA Ranges ==
  ASSUME Base
  PROVE  /\ now \in Nat
         /\ \A r \in Rows : /\ na[r].synced \in Nat /\ na[r].synced <= now /\ na[r].pending \in BOOLEAN
                            /\ na[r].state # "NONE" => na[r].person \in Persons
                            /\ na[r].state = "NONE" => na[r].person = Nil
         /\ \A x \in Persons : /\ crm[x].at \in Nat /\ cache[x].at \in Nat
                               /\ cache[x].at <= crm[x].at /\ crm[x].at <= now
<1>1. Types /\ \A r \in Rows : RowFits(r)
  BY DEF Base
<1>2. \A r \in Rows : na[r] \in NaRow
  BY <1>1 DEF Types
<1>3. \A x \in Persons : crm[x] \in Fields /\ cache[x] \in Fields /\ PersonFits(x)
  BY <1>1 DEF Types, Base
<1> QED BY <1>1, <1>2, <1>3 DEF RowFits, NaRow, Fields, PersonFits, Types

(* The jobs JobTrue is about. *)
Busy == {"save", "mirror", "call", "settle", "copy"}
LEMMA Calm ==
  ASSUME NEW q \in Procs
  PROVE  /\ job[q].do \notin Busy \/ (job[q].do = "mirror" /\ job[q].due = Blank) \/ (job[q].do = "save" /\ job[q].row = Nil)
              => JobTrue(q)
         /\ job'[q].do \notin Busy \/ (job'[q].do = "mirror" /\ job'[q].due = Blank) \/ (job'[q].do = "save" /\ job'[q].row = Nil)
              => JobTrue(q)'
BY DEF JobTrue, Landed, NotBehind, AllWait, OneRow, Busy

LEMMA BusyWith ==
  ASSUME Base, NEW q \in Procs, job[q].do \in Busy
  PROVE  job[q].person \in Persons
BY DEF Base, JobFits, Its, Busy, Pushes

(* A step of p that writes no row and no field in Twenty. *)
LEMMA OnlyJob ==
  ASSUME Base, AllTrue, NEW p \in Procs, UNCHANGED <<na, crm, ours, cache>>,
         \A q \in Procs : q # p => SameJob(q), job'[p].do # "settle", JobTrue(p)',
         job'[p].do # "follow"
  PROVE  AllTrue'
<1>1. \A r \in Rows, x \in Persons : RowTrue(r, x)'
  BY DEF AllTrue, RowTrue, Rests
<1>2. \A x \in Persons : ClosedTrue(x)'
  BY DEF AllTrue, ClosedTrue
<1>3. ASSUME NEW q \in Procs, q # p PROVE JobTrue(q)'
  <2>1. JobTrue(q) /\ SameJob(q)
    BY <1>3 DEF AllTrue
  <2>2. Landed(q)' /\ NotBehind(q)' /\ AllWait(q)'
    BY <2>1 DEF JobTrue, SameJob, Landed, NotBehind, AllWait, Rests
  <2>3. OneRow(q)'
    BY <2>1 DEF JobTrue, SameJob, OneRow
  <2> QED BY <2>2, <2>3 DEF JobTrue
<1>4. Following' => \A seen \in job'[Worker].list : SeenTrue(seen)'
  BY Basics DEF Following, AllTrue, SeenTrue, AsSeen, Rests, SameJob
<1> QED BY <1>1, <1>2, <1>3, <1>4 DEF AllTrue

(* A step of p that writes row r of person x. *)
Wrote(p, r, x) ==
  /\ na'[r].person = x /\ na[r].person \in {x, Nil} /\ \A s \in Rows : s # r => na'[s] = na[s]
  /\ UNCHANGED <<crm, ours>> /\ \A y \in Persons : y # x => cache'[y] = cache[y]
  /\ \A q \in Procs : q # p => SameJob(q) /\ (job'[q].fresh => job[q].row # r)
  /\ job'[p].do # "settle"

LEMMA WroteTrue ==
  ASSUME Base, AllTrue, NEW p \in Procs, NEW r \in Rows, NEW x \in Persons, Wrote(p, r, x),
         \A s \in Rows : RowTrue(s, x)', ClosedTrue(x)', JobTrue(p)',
         Rests(r, x)' => na'[r].synced >= crm[x].at \/ (Rests(r, x) /\ na'[r].synced > na[r].synced),
         na'[r].synced \in Nat,
         Rests(r, x)' /\ ~ Rests(r, x) =>
            \A q \in Procs : q # p /\ job[q].do = "call" /\ job[q].person = x /\ job[q].fresh => job[q].row = r,
         Following' => Following /\ \A seen \in job'[Worker].list :
                                      seen \in job[Worker].list /\ (seen.row = r => ~ AsSeen(seen, x)')
  PROVE  AllTrue'
<1>1. ASSUME NEW s \in Rows, NEW y \in Persons PROVE RowTrue(s, y)'
  <2>1. CASE y = x
    BY <2>1
  <2>2. CASE y # x
    BY <2>2 DEF Wrote, AllTrue, RowTrue, Rests
  <2> QED BY <2>1, <2>2
<1>2. ASSUME NEW y \in Persons PROVE ClosedTrue(y)'
  <2>1. CASE y = x
    BY <2>1
  <2>2. CASE y # x
    <3>1. \A s \in Rows : na[s].person = y => na'[s] = na[s]
      BY <2>2, Basics DEF Wrote
    <3> QED BY <3>1 DEF Wrote, AllTrue, ClosedTrue
  <2> QED BY <2>1, <2>2
<1>3. ASSUME NEW q \in Procs, q # p PROVE JobTrue(q)'
  <2> PICK a, b : a = job[q] /\ b = job'[q]
    OBVIOUS
  <2>1. /\ b.do = a.do /\ b.what = a.what /\ b.row = a.row /\ b.person = a.person /\ b.due = a.due
        /\ (b.fresh => a.fresh /\ a.row # r) /\ JobTrue(q)
    BY <1>3 DEF Wrote, SameJob, AllTrue
  <2>2. \A s \in Rows : \A y : Rests(s, y)' => \/ s = r /\ y = x
                                               \/ Rests(s, y) /\ na'[s] = na[s]
    BY DEF Rests, Wrote
  <2>3. UNCHANGED <<crm, ours>>
    BY DEF Wrote
  <2>4. Landed(q)'
    BY <2>1, <2>3 DEF JobTrue, Landed
  <2>5. NotBehind(q)'
    <3>1. NotBehind(q) /\ (a.do \in Busy => a.person \in Persons)
      BY <2>1, BusyWith DEF JobTrue
    <3>2. crm[x].at \in Nat /\ na[r].synced \in Nat
      BY Ranges
    <3> QED BY <2>1, <2>2, <2>3, <3>1, <3>2 DEF NotBehind, Busy
  <2>6. AllWait(q)'
    BY <1>3, <2>1, <2>2 DEF JobTrue, AllWait
  <2>7. OneRow(q)'
    BY <2>1 DEF JobTrue, OneRow, Wrote, SameJob
  <2> QED BY <2>4, <2>5, <2>6, <2>7 DEF JobTrue
<1>4. ASSUME Following', NEW seen \in job'[Worker].list PROVE SeenTrue(seen)'
  <2>1. SeenTrue(seen) /\ seen.row \in Rows /\ (seen.row = r => ~ AsSeen(seen, x)')
    BY <1>4, Basics DEF AllTrue, Base, Types, Job, Following
  <2>2. \A y \in Persons : AsSeen(seen, y)' => AsSeen(seen, y)
    BY <2>1 DEF AsSeen, Rests, Wrote
  <2> QED BY <2>1, <2>2 DEF SeenTrue, Wrote
<1> QED BY <1>1, <1>2, <1>3, <1>4 DEF AllTrue

Saves(p, r, row, j, x) ==
  /\ Save(p, r, row, j) /\ row \in NaRow /\ j \in Job /\ row.person = x /\ na[r].person \in {x, Nil}
  /\ j.do # "settle" /\ UNCHANGED <<crm, ours>> /\ \A y \in Persons : y # x => cache'[y] = cache[y]
LEMMA SaveWrote ==
  ASSUME Base, NEW p \in Procs, NEW r \in Rows, NEW row, NEW j, NEW x \in Persons, Saves(p, r, row, j, x)
  PROVE  Wrote(p, r, x) /\ na'[r] = row /\ job'[p] = j /\ row.synced \in Nat
<1>1. na'[r] = row /\ \A s \in Rows : s # r => na'[s] = na[s]
  BY DEF Base, Types, Save, Saves
<1>2. /\ job' \in [Procs -> Job] /\ job'[p] = j
      /\ \A q \in Procs : q # p => SameJob(q) /\ (job'[q].fresh => job[q].row # r)
  BY Saved DEF Base, Save, Saves
<1> QED BY <1>1, <1>2 DEF Wrote, NaRow, Saves

(* A row is given something to send. *)
LEMMA PendingTrue ==
  ASSUME Base, AllTrue, NEW p \in Procs, NEW r \in Rows, NEW x \in Persons, Wrote(p, r, x), na'[r].pending,
         JobTrue(p)', na'[r].synced \in Nat, job'[p].do # "follow",
         \/ cache' = cache
         \/ \A s \in Rows : s # r /\ Rests(s, x) => na[s].synced >= crm[x].at /\ cache'[x].at = cache[x].at
  PROVE  AllTrue'
<1>1. ~ Rests(r, x)' /\ \A s \in Rows : s # r => na'[s] = na[s]
  BY DEF Rests, Wrote
<1>2. ASSUME NEW s \in Rows PROVE RowTrue(s, x)'
  <2>1. CASE s = r
    BY <1>1, <2>1 DEF RowTrue
  <2>2. CASE s # r
    <3>1. crm[x].at \in Nat /\ cache[x].at \in Nat /\ cache[x].at <= crm[x].at /\ na[s].synced \in Nat
      BY Ranges
    <3>2. RowTrue(s, x) /\ na'[s] = na[s] /\ UNCHANGED <<crm, ours>>
      BY <1>1, <2>2 DEF AllTrue, Wrote
    <3> QED BY <2>2, <3>1, <3>2 DEF RowTrue, Rests
  <2> QED BY <2>1, <2>2
<1>3. ClosedTrue(x)'
  BY DEF ClosedTrue, Wrote
<1>4. Following' => Following /\ \A seen \in job'[Worker].list :
                                   seen \in job[Worker].list /\ (seen.row = r => ~ AsSeen(seen, x)')
  BY <1>1, Basics DEF Following, Wrote, SameJob, AsSeen, Rests
<1> QED BY <1>1, <1>2, <1>3, <1>4, WroteTrue

LEMMA SetTrue ==
  ASSUME Base, AllTrue, NEW p \in Procs, SetSave(p)
  PROVE  AllTrue'
<1> PICK a, open : a = job[p] /\ open = OpenOf(a.person)
  OBVIOUS
<1> DEFINE Given(r) == [na[r] EXCEPT !.due = a.due, !.repeats = a.repeats, !.pending = TRUE]
           New(r)   == [Given(r) EXCEPT !.state = "OPEN", !.person = a.person]
           Sent(r)  == [NoJob EXCEPT !.do = "push", !.what = "set", !.row = r]
<1>1. /\ a.do = "save" /\ UNCHANGED <<crm, ours, now, crossed>>
      /\ \/ /\ a.row # Nil
            /\ Save(p, a.row, Given(a.row), Sent(a.row)) /\ Mirror(a.person, a.due)
         \/ /\ open = {} /\ Mirror(a.person, a.due)
            /\ \E r \in Rows : /\ na[r].state = "NONE" /\ Save(p, r, New(r), Sent(r))
         \/ Go(p, NoJob) /\ UNCHANGED <<na, cache, left>>
  BY DEF SetSave, At
<1>2. /\ Types /\ a \in Job /\ JobFits(p) /\ a.person \in Persons /\ a.due \in Days /\ a.repeats \in BOOLEAN
      /\ na \in [Rows -> NaRow]
  BY <1>1 DEF Base, Types, JobFits, Job
<1>3. PICK d \in Days, again \in BOOLEAN, x \in Persons : d = a.due /\ again = a.repeats /\ x = a.person
  BY <1>2
<1>4. ASSUME NEW r \in Rows
      PROVE  Sent(r) \in Job /\ Sent(r).do = "push"
  BY NoJobIs DEF Job, Kinds
<1>5. Mirror(x, d) => /\ \A y \in Persons : cache'[y].at = cache[y].at
                      /\ \A y \in Persons : y # x => cache'[y] = cache[y]
  BY <1>2, MirrorIs
<1>6. ASSUME NEW r \in Rows, NEW row \in NaRow, NEW j \in Job, Save(p, r, row, j), j.do = "push", Mirror(x, d),
             row.pending, row.person = x, na[r].person \in {x, Nil},
             \A s \in Rows : s # r /\ Rests(s, x) => na[s].synced >= crm[x].at
      PROVE  AllTrue'
  <2>3. UNCHANGED <<crm, ours>> /\ j.do # "settle" /\ \A y \in Persons : y # x => cache'[y] = cache[y]
    BY <1>1, <1>5, <1>6
  <2> HIDE DEF Given, New, Sent
  <2>4. Saves(p, r, row, j, x)
    BY <1>6, <2>3 DEF Saves
  <2>1. Wrote(p, r, x) /\ na'[r] = row /\ job'[p] = j /\ row.synced \in Nat
    BY <2>4, SaveWrote
  <2>2. JobTrue(p)' /\ job'[p].do # "follow"
    BY <1>6, <2>1, Calm DEF Busy
  <2> QED BY <1>5, <1>6, <2>1, <2>2, PendingTrue
<1>7. CASE a.row # Nil /\ Save(p, a.row, Given(a.row), Sent(a.row)) /\ Mirror(a.person, a.due)
  <2> PICK r, row : r = a.row /\ row = [na[r] EXCEPT !.due = d, !.repeats = again, !.pending = TRUE]
    OBVIOUS
  <2>1. Save(p, r, row, Sent(r)) /\ Mirror(x, d)
    BY <1>3, <1>7
  <2>2. r \in Rows /\ na[r].person = x
    BY <1>1, <1>2, <1>3, <1>7 DEF JobFits, Its
  <2>3. row \in NaRow /\ row.person = x /\ row.pending
    <3>1. na[r] \in NaRow
      BY <1>2, <2>2 DEF Types
    <3>2. row = GivenTo(na[r], d, again)
      BY DEF GivenTo
    <3> QED BY <1>2, <2>2, <3>1, <3>2, RowGiven
  <2>4. \A s \in Rows : s # r /\ Rests(s, x) => na[s].synced >= crm[x].at
    BY <1>1, <1>3, <1>7 DEF AllTrue, JobTrue, NotBehind
  <2> HIDE DEF Sent
  <2> QED BY <1>4, <1>6, <2>1, <2>2, <2>3, <2>4
<1>8. CASE /\ open = {} /\ Mirror(a.person, a.due)
           /\ \E r \in Rows : na[r].state = "NONE" /\ Save(p, r, New(r), Sent(r))
  <2>1. PICK r \in Rows : na[r].state = "NONE" /\ Save(p, r, New(r), Sent(r))
    BY <1>8
  <2> PICK row : row = [na[r] EXCEPT !.due = d, !.repeats = again, !.pending = TRUE, !.state = "OPEN", !.person = x]
    OBVIOUS
  <2>2. New(r) = row
    BY <1>2, <1>3 DEF NaRow
  <2>3. row \in NaRow /\ row.person = x /\ row.pending
    BY <1>2 DEF NaRow, States
  <2>4. Save(p, r, row, Sent(r)) /\ Mirror(x, d) /\ na[r].person = Nil
    BY <1>3, <1>8, <2>1, <2>2, Ranges
  <2>5. \A s \in Rows : ~ Rests(s, x)
    BY <1>3, <1>8 DEF OpenOf, Rests
  <2> HIDE DEF Sent, New
  <2> QED BY <1>4, <1>6, <2>3, <2>4, <2>5
<1>9. CASE Go(p, NoJob) /\ UNCHANGED <<na, cache, left>>
  <2>1. job'[p] = NoJob /\ \A q \in Procs : q # p => SameJob(q)
    BY <1>2, <1>9, NoJobIs, Went
  <2>2. job'[p].do = "idle"
    BY <2>1, NoJobIs
  <2> QED BY <1>1, <1>9, <2>1, <2>2, Calm, OnlyJob DEF Busy
<1> QED BY <1>1, <1>7, <1>8, <1>9

LEMMA ClaimTrue ==
  ASSUME Base, AllTrue, NEW p \in Procs, Claim(p)
  PROVE  AllTrue'
<1>a. PICK a, r, next : a = job[p] /\ r = a.row /\ next = IF a.repeats THEN NextOn(a.due) ELSE Blank
  OBVIOUS
<1>7. PICK row, j : /\ row = IF next # Blank THEN DueOn(na[r], next) ELSE Over(na[r], "DONE")
                    /\ j = JobToDue(a, "mirror", next)
  OBVIOUS
<1>1. /\ a.do = "claim" /\ UNCHANGED <<crm, ours, cache, now, crossed>>
      /\ \/ na[r].state = "OPEN" /\ Save(p, r, row, j)
         \/ Go(p, NoJob) /\ UNCHANGED <<na, left>>
  BY <1>a, <1>7 DEF Claim, At, CanClaim, DueOn, Over, JobToDue
<1>2. /\ Types /\ a \in Job /\ JobFits(p) /\ r \in Rows /\ a.due \in Days /\ na[r].person \in Persons
      /\ a.person = na[r].person /\ na[r] \in NaRow
  BY <1>a, <1>1 DEF Base, Types, JobFits, Its
<1>3. next \in Days \cup {Blank}
  BY <1>a, <1>2, NextOnIs
<1>4. j \in Job /\ j.do = "mirror" /\ j.person = a.person
  <2>1. j = JobToDue(a, "mirror", next) /\ "mirror" \in Dos
    BY <1>7 DEF Dos
  <2>2. a \in Job
    BY <1>2
  <2> QED BY <1>3, <2>1, <2>2, JobDue
<1>5. CASE na[r].state = "OPEN" /\ Save(p, r, row, j)
  <2> PICK x \in Persons : x = na[r].person
    BY <1>2
  <2>1. row \in NaRow /\ row.person = x /\ row.pending
    <3>1. CASE next # Blank
      <4>1. row = DueOn(na[r], next) /\ next \in Days
        BY <1>3, <1>7, <3>1
      <4> QED BY <1>2, <4>1, RowDue
    <3>2. CASE next = Blank
      <4>1. row = Over(na[r], "DONE") /\ "DONE" \in States
        BY <1>7, <3>2 DEF States
      <4> QED BY <1>2, <4>1, RowOver
    <3> QED BY <3>1, <3>2
  <2>5. UNCHANGED <<crm, ours, cache>> /\ j.do # "settle" /\ Save(p, r, row, j)
    BY <1>1, <1>4, <1>5
  <2>2. Wrote(p, r, x) /\ na'[r] = row /\ job'[p] = j /\ row.synced \in Nat
    <3>1. \A y \in Persons : y # x => cache'[y] = cache[y]
      BY <2>5
    <3>2. UNCHANGED <<crm, ours>> /\ na[r].person \in {x, Nil} /\ row.person = x /\ row \in NaRow /\ j \in Job /\ r \in Rows
      BY <1>2, <1>4, <2>1, <2>5
    <3>3. Saves(p, r, row, j, x)
      BY <2>5, <3>1, <3>2 DEF Saves
    <3>4. r \in Rows
      BY <1>2
    <3> QED BY <3>3, <3>4, SaveWrote
  <2>3. ASSUME NEW s \in Rows, Rests(s, x)' PROVE FALSE
    <3>1. s # r /\ na'[s] = na[s]
      BY <2>1, <2>2, <2>3 DEF Rests, Wrote
    <3>2. na[s].state = "OPEN" /\ na[s].person = na[r].person
      BY <2>3, <3>1 DEF Rests
    <3> QED BY <1>2, <1>5, <3>1, <3>2 DEF Base, OneOpen
  <2>4. JobTrue(p)'
    BY <1>2, <1>4, <2>2, <2>3 DEF JobTrue, Landed, NotBehind, AllWait, OneRow
  <2> QED BY <1>2, <1>4, <2>1, <2>2, <2>4, <2>5, PendingTrue
<1>6. CASE Go(p, NoJob) /\ UNCHANGED <<na, left>>
  <2>1. job'[p].do = "idle" /\ \A q \in Procs : q # p => SameJob(q)
    BY <1>2, <1>6, NoJobIs, Went
  <2> QED BY <1>1, <1>6, <2>1, Calm, OnlyJob DEF Busy
<1> QED BY <1>1, <1>5, <1>6

LEMMA WriteRowTrue ==
  ASSUME Base, AllTrue, NEW p \in Procs, WriteRow(p)
  PROVE  AllTrue'
<1> PICK a, r : a = job[p] /\ r = a.row
  OBVIOUS
<1>1. /\ a.do = "write" /\ UNCHANGED <<crm, ours, cache, now, crossed>>
      /\ \/ /\ a.what = "move"
            /\ Save(p, r, [na[r] EXCEPT !.due = a.due, !.pending = TRUE], [a EXCEPT !.do = "push"])
         \/ /\ a.what = "stop"
            /\ Save(p, r, [na[r] EXCEPT !.state = "CANCELLED", !.pending = TRUE], [a EXCEPT !.do = "mirror", !.due = Blank])
  BY DEF WriteRow, At
<1>2. /\ Types /\ a \in Job /\ JobFits(p) /\ r \in Rows /\ na[r].person \in Persons /\ na[r] \in NaRow
  BY <1>1 DEF Base, Types, JobFits, Its
<1>3. ASSUME NEW row \in NaRow, NEW j \in Job, Save(p, r, row, j), row.pending, row.person = na[r].person,
             j.do = "push" \/ (j.do = "mirror" /\ j.due = Blank)
      PROVE  AllTrue'
  <2>1. UNCHANGED <<crm, ours, cache>> /\ j.do # "settle"
    BY <1>1, <1>3
  <2>2. Wrote(p, r, na[r].person) /\ na'[r] = row /\ job'[p] = j /\ row.synced \in Nat
    <3>1. Saves(p, r, row, j, na[r].person)
      BY <1>3, <2>1 DEF Saves
    <3> QED BY <1>2, <3>1, SaveWrote
  <2>3. JobTrue(p)' /\ job'[p].do # "follow"
    BY <1>3, <2>2, Calm DEF Busy
  <2> QED BY <1>2, <1>3, <2>1, <2>2, <2>3, PendingTrue
<1>4. CASE /\ a.what = "move"
           /\ Save(p, r, [na[r] EXCEPT !.due = a.due, !.pending = TRUE], [a EXCEPT !.do = "push"])
  <2> PICK row, j : row = [na[r] EXCEPT !.due = a.due, !.pending = TRUE] /\ j = [a EXCEPT !.do = "push"]
    OBVIOUS
  <2>1. a.due \in Days
    BY <1>1, <1>2, <1>4 DEF JobFits
  <2>2. row \in NaRow /\ row.person = na[r].person /\ row.pending
    BY <1>2, <2>1 DEF NaRow
  <2>3. j \in Job /\ j.do = "push"
    BY <1>2 DEF Job
  <2> QED BY <1>3, <1>4, <2>2, <2>3
<1>5. CASE /\ a.what = "stop"
           /\ Save(p, r, [na[r] EXCEPT !.state = "CANCELLED", !.pending = TRUE], [a EXCEPT !.do = "mirror", !.due = Blank])
  <2> PICK row, j : /\ row = [na[r] EXCEPT !.state = "CANCELLED", !.pending = TRUE]
                    /\ j = [a EXCEPT !.do = "mirror", !.due = Blank]
    OBVIOUS
  <2>1. row \in NaRow /\ row.person = na[r].person /\ row.pending
    BY <1>2 DEF NaRow, States
  <2>2. j \in Job /\ j.do = "mirror" /\ j.due = Blank
    BY <1>2 DEF Job
  <2> QED BY <1>3, <1>5, <2>1, <2>2
<1> QED BY <1>1, <1>4, <1>5

(* The cached copy is written where Twenty's fields are as old as the task. *)
LEMMA MirrorTrue ==
  ASSUME Base, AllTrue, NEW p \in Procs, NEW j, Go(p, j), j.do \in {"push", "idle"}, NEW x \in Persons,
         UNCHANGED <<na, crm, ours>>, NEW d \in Days \cup {Blank}, Mirror(x, d),
         \A r \in Rows : Rests(r, x) => na[r].synced >= crm[x].at
  PROVE  AllTrue'
<1>1. Types /\ job \in [Procs -> Job]
  BY DEF Base, Types
<1>2. \A y \in Persons : cache'[y].at = cache[y].at /\ (y # x => cache'[y] = cache[y])
  BY <1>1, MirrorIs
<1>3. ASSUME NEW r \in Rows, NEW y \in Persons PROVE RowTrue(r, y)'
  <2>1. crm[x].at \in Nat /\ cache[x].at \in Nat /\ cache[x].at <= crm[x].at /\ na[r].synced \in Nat
    BY Ranges
  <2>2. RowTrue(r, y)
    BY DEF AllTrue
  <2> QED BY <1>2, <2>1, <2>2 DEF RowTrue, Rests
<1>4. job'[p] = j /\ \A q \in Procs : q # p => job'[q] = job[q]
  BY <1>1 DEF Go
<1>5. ASSUME NEW q \in Procs PROVE JobTrue(q)'
  <2>1. CASE q = p
    BY <1>4, <2>1, Calm DEF Busy
  <2>2. CASE q # p
    <3>1. JobTrue(q) /\ job'[q] = job[q]
      BY <1>4, <2>2 DEF AllTrue
    <3>2. Landed(q)' /\ NotBehind(q)' /\ AllWait(q)'
      BY <3>1 DEF JobTrue, Landed, NotBehind, AllWait, Rests
    <3>3. OneRow(q)'
      BY <1>4, <3>1 DEF JobTrue, OneRow
    <3> QED BY <3>2, <3>3 DEF JobTrue
  <2> QED BY <2>1, <2>2
<1>6. \A y \in Persons : ClosedTrue(y)'
  BY DEF AllTrue, ClosedTrue
<1>7. Following' => \A seen \in job'[Worker].list : SeenTrue(seen)'
  BY <1>4, Basics DEF AllTrue, Following, SeenTrue, AsSeen, Rests
<1> QED BY <1>3, <1>5, <1>6, <1>7 DEF AllTrue

LEMMA MirrorRowTrue ==
  ASSUME Base, AllTrue, NEW p \in Procs, MirrorRow(p)
  PROVE  AllTrue'
<1> PICK a, j : a = job[p] /\ j = [a EXCEPT !.do = "push"]
  OBVIOUS
<1>1. /\ a.do = "mirror" /\ UNCHANGED <<na, crm, ours, now, left, crossed>> /\ Go(p, j)
      /\ \/ UNCHANGED cache
         \/ Mirror(a.person, a.due) /\ ~ (a.due = Blank /\ OpenOf(a.person) # {})
  BY DEF MirrorRow, At, To
<1>2. a \in Job /\ JobFits(p) /\ Types /\ a.due \in Days \cup {Blank}
  BY DEF Base, Types, Job
<1>3. a.person \in Persons /\ j \in Job /\ j.do = "push"
  BY <1>1, <1>2 DEF JobFits, Its, Job
<1>4. CASE UNCHANGED cache
  <2>1. job'[p].do = "push" /\ \A q \in Procs : q # p => SameJob(q)
    BY <1>1, <1>2, <1>3, Went
  <2> QED BY <1>1, <1>4, <2>1, Calm, OnlyJob DEF Busy
<1>5. CASE Mirror(a.person, a.due) /\ ~ (a.due = Blank /\ OpenOf(a.person) # {})
  <2>1. ASSUME NEW r \in Rows, Rests(r, a.person)
        PROVE  na[r].synced >= crm[a.person].at
    <3>1. a.due # Blank
      BY <1>5, <2>1 DEF Rests, OpenOf
    <3> QED BY <1>1, <2>1, <3>1 DEF AllTrue, JobTrue, NotBehind
  <2> QED BY <1>1, <1>2, <1>3, <1>5, <2>1, MirrorTrue
<1> QED BY <1>1, <1>4, <1>5

LEMMA PushCopyTrue ==
  ASSUME Base, AllTrue, NEW p \in Procs, PushCopy(p)
  PROVE  AllTrue'
<1> PICK a, j : a = job[p] /\ j = Rest(p)
  OBVIOUS
<1>1. a.do = "copy" /\ Mirror(a.person, a.due) /\ Go(p, j) /\ UNCHANGED <<na, crm, ours>>
  BY DEF PushCopy, At
<1>2. a.person \in Persons /\ a.due \in Days \cup {Blank} /\ a.todo \in Seq(Rows)
  BY <1>1 DEF Base, Types, JobFits, Job
<1>3. j.do \in {"idle", "push"}
  BY <1>2, LeftIs DEF Rest
<1>4. \A r \in Rows : Rests(r, a.person) => na[r].synced >= crm[a.person].at
  BY <1>1 DEF AllTrue, JobTrue, NotBehind
<1> QED BY <1>1, <1>2, <1>3, <1>4, MirrorTrue

LEMMA RefreshTrue ==
  ASSUME Base, AllTrue, NEW x \in Persons, Refresh(x)
  PROVE  AllTrue'
<1>1. UNCHANGED <<na, crm, ours, job>> /\ cache'[x] = crm[x] /\ \A y \in Persons : y # x => cache'[y] = cache[y]
  BY DEF Refresh, Base, Types
<1>2. \A r \in Rows, y \in Persons : RowTrue(r, y)'
  BY <1>1 DEF AllTrue, RowTrue, Rests
<1>3. \A y \in Persons : ClosedTrue(y)'
  BY <1>1 DEF AllTrue, ClosedTrue
<1>4. \A q \in Procs : JobTrue(q)'
  BY <1>1 DEF AllTrue, JobTrue, Landed, NotBehind, AllWait, OneRow, Rests
<1>5. Following' => \A seen \in job'[Worker].list : SeenTrue(seen)'
  BY <1>1 DEF AllTrue, Following, SeenTrue, AsSeen, Rests
<1> QED BY <1>2, <1>3, <1>4, <1>5 DEF AllTrue

(* The steps that only move a job on, to one JobTrue says nothing of.      *)
LEMMA CalmTrue ==
  ASSUME Base, AllTrue, NEW p \in Procs, NEW j, Go(p, j), UNCHANGED <<na, crm, ours, cache>>,
         j.do \in {"idle", "find", "read", "claim", "write", "push", "count", "fail"}
  PROVE  AllTrue'
<1>1. job'[p] = j /\ \A q \in Procs : q # p => SameJob(q)
  BY DEF Go, SameJob, Base, Types
<1> QED BY <1>1, Calm, OnlyJob DEF Busy

LEMMA BeginTrue ==
  ASSUME Base, AllTrue, NEW u \in Users, Begin(u)
  PROVE  AllTrue'
<1>1. UNCHANGED <<na, crm, ours, cache>> /\ u \in Procs
  BY Basics DEF Begin
<1>2. \A x, d, rep : [NoJob EXCEPT !.do = "find", !.what = "set", !.person = x, !.due = d, !.repeats = rep].do = "find"
  BY DEF NoJob
<1>3. \A r, d : /\ [NoJob EXCEPT !.do = "read", !.what = "done", !.row = r, !.seen = d].do = "read"
               /\ [NoJob EXCEPT !.do = "read", !.what = "move", !.row = r, !.due = d].do = "read"
               /\ [NoJob EXCEPT !.do = "read", !.what = "stop", !.row = r].do = "read"
  BY DEF NoJob
<1>4. ASSUME NEW x, NEW d, NEW rep, Go(u, [NoJob EXCEPT !.do = "find", !.what = "set", !.person = x, !.due = d, !.repeats = rep])
      PROVE  AllTrue'
  <2>1. PICK j : j = [NoJob EXCEPT !.do = "find", !.what = "set", !.person = x, !.due = d, !.repeats = rep]
    OBVIOUS
  <2>2. Go(u, j) /\ j.do = "find"
    BY <1>2, <1>4, <2>1
  <2> QED BY <1>1, <2>2, CalmTrue
<1>5. ASSUME NEW r, NEW d,
             \/ Go(u, [NoJob EXCEPT !.do = "read", !.what = "done", !.row = r, !.seen = d])
             \/ Go(u, [NoJob EXCEPT !.do = "read", !.what = "move", !.row = r, !.due = d])
             \/ Go(u, [NoJob EXCEPT !.do = "read", !.what = "stop", !.row = r])
      PROVE  AllTrue'
  BY <1>1, <1>3, <1>5, CalmTrue
<1> QED BY <1>4, <1>5 DEF Begin

LEMMA EmailTrue ==
  ASSUME Base, AllTrue, EmailSeen
  PROVE  AllTrue'
<1>1. PICK r \in Rows : Go(Worker, [NoJob EXCEPT !.do = "read", !.what = "done", !.row = r, !.seen = na[r].due])
  BY DEF EmailSeen
<1>2. [NoJob EXCEPT !.do = "read", !.what = "done", !.row = r, !.seen = na[r].due].do = "read"
  BY DEF NoJob
<1>3. UNCHANGED <<na, crm, ours, cache>> /\ Worker \in Procs
  BY Basics DEF EmailSeen
<1> QED BY <1>1, <1>2, <1>3, CalmTrue

LEMMA DieTrue ==
  ASSUME Base, AllTrue, NEW p \in Procs, Die(p)
  PROVE  AllTrue'
BY NoJobIs, CalmTrue DEF Die

LEMMA ReadTrue ==
  ASSUME Base, AllTrue, NEW p \in Procs, ReadRow(p)
  PROVE  AllTrue'
<1> PICK a, row : a = job[p] /\ row = na[a.row]
  OBVIOUS
<1>1. /\ UNCHANGED <<na, crm, ours, cache>>
      /\ \/ Go(p, NoJob)
         \/ Go(p, [a EXCEPT !.do = "claim", !.due = row.due, !.repeats = row.repeats, !.person = row.person])
         \/ Go(p, [a EXCEPT !.do = "write", !.person = row.person])
  BY DEF ReadRow
<1>2. a \in Job
  BY DEF Base, Types
<1>3. /\ [a EXCEPT !.do = "claim", !.due = row.due, !.repeats = row.repeats, !.person = row.person].do = "claim"
      /\ [a EXCEPT !.do = "write", !.person = row.person].do = "write"
  BY <1>2 DEF Job
<1> QED BY <1>1, <1>3, NoJobIs, CalmTrue

LEMMA PassTrue ==
  ASSUME Base, AllTrue, StartPass
  PROVE  AllTrue'
<1>1. PICK todo : Go(Worker, [NoJob EXCEPT !.do = "push", !.what = "pass", !.todo = todo])
  BY DEF StartPass
<1>2. [NoJob EXCEPT !.do = "push", !.what = "pass", !.todo = todo].do = "push"
  BY DEF NoJob
<1>3. UNCHANGED <<na, crm, ours, cache>> /\ Worker \in Procs
  BY Basics DEF StartPass
<1> QED BY <1>1, <1>2, <1>3, CalmTrue

LEMMA PushFailTrue ==
  ASSUME Base, AllTrue, NEW p \in Procs, PushFail(p)
  PROVE  AllTrue'
<1> PICK a, j : a = job[p] /\ j = Rest(p)
  OBVIOUS
<1>1. a.do = "fail" /\ UNCHANGED <<na, crm, ours, cache>> /\ (job' = JobsAfter(p, a.row, j) \/ Go(p, j))
  BY DEF PushFail, At
<1>2. a.row \in Rows /\ a.todo \in Seq(Rows) /\ Types
  BY <1>1 DEF Base, Types, JobFits, Job, Pushes, Its
<1>3. j \in Job /\ j.do \in {"idle", "push"}
  BY <1>2, LeftIs DEF Rest
<1>4. job'[p] = j /\ \A q \in Procs : q # p => SameJob(q)
  BY <1>1, <1>2, <1>3, Saved, Went
<1> QED BY <1>1, <1>3, <1>4, Calm, OnlyJob DEF Busy

(* The open task found is the only one. *)
LEMMA FindTrue ==
  ASSUME Base, AllTrue, NEW p \in Procs, SetFind(p)
  PROVE  AllTrue'
<1> PICK a, row, j : /\ a = job[p]
                     /\ row = IF OpenOf(a.person) = {} THEN Nil ELSE CHOOSE r \in OpenOf(a.person) : TRUE
                     /\ j = [a EXCEPT !.do = "save", !.row = row]
  OBVIOUS
<1>1. Go(p, j) /\ UNCHANGED <<na, crm, ours, cache>>
  BY DEF SetFind
<1>2. a \in Job /\ job \in [Procs -> Job]
  BY DEF Base, Types
<1>3. j.do = "save" /\ j.row = row /\ j.person = a.person
  BY <1>2 DEF Job
<1>4. job'[p] = j /\ \A q \in Procs : q # p => SameJob(q)
  BY <1>1, <1>2 DEF Go, SameJob
<1>5. NotBehind(p)'
  <2>1. CASE row = Nil
    BY <1>3, <1>4, <2>1 DEF NotBehind
  <2>2. CASE row # Nil
    <3>1. row \in OpenOf(a.person)
      BY <2>2
    <3>2. \A r \in Rows : Rests(r, a.person)' => r = row
      BY <1>1, <3>1 DEF Rests, OpenOf, Base, OneOpen
    <3> QED BY <1>3, <1>4, <3>2 DEF NotBehind
  <2> QED BY <2>1, <2>2
<1>6. JobTrue(p)'
  BY <1>3, <1>4, <1>5 DEF JobTrue, Landed, AllWait, OneRow
<1> QED BY <1>1, <1>3, <1>4, <1>6, OnlyJob

(* An open row about to be sent is the person's only one. *)
LEMMA PushReadTrue ==
  ASSUME Base, AllTrue, NEW p \in Procs, PushRead(p)
  PROVE  AllTrue'
<1>1. UNCHANGED <<na, crm, ours, cache>> /\ Types
  BY PushReadIs DEF Base
<1>2. ASSUME NEW todo \in Seq(Rows), Go(p, Left(p, todo)) PROVE AllTrue'
  BY <1>1, <1>2, LeftIs, CalmTrue
<1>3. ASSUME NEW j \in Job, NEW r \in Rows, Go(p, j), na[r].pending, j.row = r, j.person = na[r].person,
             j.person \in Persons, j.do = IF na[r].state = "OPEN" THEN "call" ELSE "count"
      PROVE  AllTrue'
  <2>1. CASE na[r].state # "OPEN"
    BY <1>1, <1>3, <2>1, CalmTrue
  <2>2. CASE na[r].state = "OPEN"
    <3>1. job'[p] = j /\ j.do = "call" /\ \A q \in Procs : q # p => SameJob(q)
      BY <1>1, <1>3, <2>2, Went
    <3>2. \A s \in Rows : na[s].state = "OPEN" /\ na[s].person = j.person => s = r
      BY <1>3, <2>2 DEF Base, OneOpen
    <3>3. AllWait(p)'
      BY <1>1, <1>3, <3>1, <3>2 DEF AllWait, Rests
    <3>4. ASSUME NEW o \in Procs, job'[o].do = "settle", job'[o].fresh, job'[o].person = j.person, job'[o].state = "OPEN"
          PROVE  job'[o].row = r
      <4>1. o # p /\ SameJob(o) /\ JobFits(o)
        BY <3>1, <3>4 DEF Base
      <4>2. Its(job[o]) /\ AsRead(job[o])
        BY <3>4, <4>1 DEF SameJob, JobFits, Pushes
      <4>3. job[o].row \in Rows /\ na[job[o].row].state = "OPEN" /\ na[job[o].row].person = j.person
        BY <3>4, <4>1, <4>2 DEF SameJob, Its, AsRead
      <4> QED BY <3>2, <4>1, <4>3 DEF SameJob
    <3>5. OneRow(p)'
      BY <1>3, <3>1, <3>4 DEF OneRow
    <3>6. JobTrue(p)'
      BY <3>1, <3>3, <3>5 DEF JobTrue, Landed, NotBehind
    <3> QED BY <1>1, <3>1, <3>6, OnlyJob
  <2> QED BY <2>1, <2>2
<1> QED BY <1>2, <1>3, PushReadIs

(* What the worker lists has the fields of the copy, newer than the row.   *)
LEMMA ListOpenTrue ==
  ASSUME Base, AllTrue, ListOpen
  PROVE  AllTrue'
<1>1. UNCHANGED <<na, crm, ours, cache>> /\ Worker \in Procs
  BY ListOpenIs, Basics
<1>2. CASE Go(Worker, NoJob)
  BY <1>1, <1>2, NoJobIs, CalmTrue
<1>3. ASSUME NEW j \in Job, Go(Worker, j), j.do = "follow", j.list = Listed
      PROVE  AllTrue'
  <2>1. job'[Worker] = j /\ \A q \in Procs : q # Worker => SameJob(q) /\ job'[q].fresh = job[q].fresh
    BY <1>1, <1>3, Went DEF Base
  <2>2. ASSUME NEW seen \in Listed PROVE SeenTrue(seen)'
    <3> PICK r, x : r = seen.row /\ x = na[r].person
      OBVIOUS
    <3>1. /\ r \in Rows /\ x \in Persons /\ Rests(r, x) /\ seen.synced = na[r].synced
          /\ seen.crm = cache[x] /\ seen.synced < seen.crm.at
      BY <2>2, ListedIs DEF Rests, Seen
    <3>2. RowTrue(r, x) /\ crm[x].at \in Nat /\ cache[x].at \in Nat /\ na[r].synced \in Nat
      BY <3>1, Ranges DEF AllTrue
    <3>3. /\ seen.crm.at = crm[x].at => seen.crm.due = crm[x].due
          /\ seen.crm.at < crm[x].at => ~ ours[x]
      BY <3>1, <3>2 DEF RowTrue
    <3>4. \A y \in Persons : AsSeen(seen, y)' => y = x
      BY <1>1 DEF AsSeen, Rests
    <3> QED BY <1>1, <3>3, <3>4 DEF SeenTrue
  <2>3. ASSUME NEW q \in Procs PROVE JobTrue(q)'
    <3>1. CASE q = Worker
      BY <1>3, <2>1, <3>1, Calm DEF Busy
    <3>2. CASE q # Worker
      <4>1. SameJob(q) /\ job'[q].fresh = job[q].fresh /\ JobTrue(q)
        BY <2>1, <3>2 DEF AllTrue
      <4>2. Landed(q)' /\ NotBehind(q)' /\ AllWait(q)'
        BY <1>1, <4>1 DEF SameJob, JobTrue, Landed, NotBehind, AllWait, Rests
      <4>3. OneRow(q)'
        BY <1>3, <2>1, <4>1 DEF SameJob, JobTrue, OneRow
      <4> QED BY <4>2, <4>3 DEF JobTrue
    <3> QED BY <3>1, <3>2
  <2>4. \A r \in Rows, x \in Persons : RowTrue(r, x)'
    BY <1>1 DEF AllTrue, RowTrue, Rests
  <2>5. \A x \in Persons : ClosedTrue(x)'
    BY <1>1 DEF AllTrue, ClosedTrue
  <2> HIDE DEF Listed
  <2> QED BY <1>3, <2>1, <2>2, <2>3, <2>4, <2>5 DEF AllTrue
<1> QED BY <1>2, <1>3, ListOpenIs

LEMMA PushCountTrue ==
  ASSUME Base, AllTrue, NEW p \in Procs, PushCount(p)
  PROVE  AllTrue'
<1> PICK a, r, row : a = job[p] /\ r = a.row /\ row = [na[r] EXCEPT !.pending = FALSE, !.synced = now]
  OBVIOUS
<1>1. /\ a.do = "count" /\ UNCHANGED <<crm, ours, cache>>
      /\ \/ OpenOf(a.person) # {} /\ Save(p, r, row, Rest(p))
         \/ OpenOf(a.person) = {} /\ Go(p, To(p, "call")) /\ UNCHANGED na
  BY DEF PushCount, At
<1>2. /\ a \in Job /\ JobFits(p) /\ Types /\ r \in Rows /\ na[r] \in NaRow /\ na[r].state # "OPEN"
      /\ now \in Nat /\ a.todo \in Seq(Rows) /\ a.person \in Persons /\ na[r].person = a.person
  BY <1>1, Basics DEF Base, Types, JobFits, Pushes, Its, Job
<1>3. CASE OpenOf(a.person) # {} /\ Save(p, r, row, Rest(p))
  <2> PICK j, x : j = Rest(p) /\ x = a.person
    OBVIOUS
  <2>1. j \in Job /\ j.do \in {"idle", "push"}
    BY <1>2, LeftIs DEF Rest
  <2>2. row \in NaRow /\ row.state = na[r].state /\ row.person = x
    BY <1>2 DEF NaRow
  <2>3. Wrote(p, r, x) /\ na'[r] = row /\ job'[p] = j /\ row.synced \in Nat
    <3>1. /\ UNCHANGED <<crm, ours>> /\ na[r].person \in {x, Nil} /\ x \in Persons /\ j.do # "settle"
          /\ \A y \in Persons : y # x => cache'[y] = cache[y]
      BY <1>1, <1>2, <2>1
    <3>2. Save(p, r, row, j)
      BY <1>3
    <3>3. Saves(p, r, row, j, x)
      BY <2>1, <2>2, <3>1, <3>2 DEF Saves
    <3> QED BY <1>2, <3>1, <3>3, SaveWrote
  <2>4. ~ Rests(r, x)' /\ \A s \in Rows : s # r => na'[s] = na[s]
    BY <1>2, <2>2, <2>3 DEF Rests, Wrote
  <2>5. \A s \in Rows : RowTrue(s, x)'
    BY <1>1, <1>2, <2>4 DEF AllTrue, RowTrue, Rests
  <2>6. ClosedTrue(x)'
    <3>1. PICK s \in Rows : na[s].state = "OPEN" /\ na[s].person = x
      BY <1>3 DEF OpenOf
    <3> QED BY <1>2, <2>4, <3>1 DEF ClosedTrue
  <2>7. JobTrue(p)'
    BY <2>1, <2>3, Calm DEF Busy
  <2>8. Following' => Following /\ \A seen \in job'[Worker].list :
                                     seen \in job[Worker].list /\ (seen.row = r => ~ AsSeen(seen, x)')
    BY <2>1, <2>3, <2>4, Basics DEF Following, Wrote, SameJob, AsSeen, Rests
  <2> QED BY <1>2, <2>3, <2>4, <2>5, <2>6, <2>7, <2>8, WroteTrue
<1>4. CASE OpenOf(a.person) = {} /\ Go(p, To(p, "call")) /\ UNCHANGED na
  <2> PICK j : j = To(p, "call")
    OBVIOUS
  <2>1. j \in Job /\ j.do = "call" /\ j.person = a.person
    BY ToIs
  <2>2. job'[p] = j /\ \A q \in Procs : q # p => SameJob(q)
    BY <1>2, <1>4, <2>1, Went
  <2>3. AllWait(p)'
    BY <1>4, <2>1, <2>2 DEF AllWait, Rests, OpenOf
  <2>4. ASSUME NEW o \in Procs, job'[o].do = "settle", job'[o].fresh, job'[o].person = j.person, job'[o].state = "OPEN"
        PROVE  FALSE
    <3>1. o # p /\ SameJob(o) /\ JobFits(o)
      BY <2>1, <2>2, <2>4 DEF Base
    <3>2. Its(job[o]) /\ AsRead(job[o])
      BY <2>4, <3>1 DEF SameJob, JobFits, Pushes
    <3>3. job[o].row \in OpenOf(a.person)
      BY <2>1, <2>4, <3>1, <3>2 DEF SameJob, Its, AsRead, OpenOf
    <3> QED BY <1>4, <3>3
  <2>5. OneRow(p)'
    BY <2>2, <2>4 DEF OneRow
  <2>6. JobTrue(p)'
    BY <2>1, <2>2, <2>3, <2>5 DEF JobTrue, Landed, NotBehind
  <2> QED BY <1>1, <1>4, <2>1, <2>2, <2>6, OnlyJob
<1> QED BY <1>1, <1>3, <1>4

(* What was sent stands in Twenty, and nothing of the person changed since. *)
LEMMA PushSettleTrue ==
  ASSUME Base, AllTrue, NEW p \in Procs, PushSettle(p)
  PROVE  AllTrue'
<1> PICK a, r, row, j, x : /\ a = job[p] /\ r = a.row /\ row = [na[r] EXCEPT !.pending = FALSE, !.synced = now]
                           /\ j = To(p, "copy") /\ x = a.person
  OBVIOUS
<1>1. /\ a.do = "settle" /\ UNCHANGED <<crm, ours, cache>>
      /\ (a.fresh /\ Save(p, r, row, j)) \/ (Go(p, j) /\ UNCHANGED na)
  BY DEF PushSettle, At, StillAsRead
<1>2. /\ a \in Job /\ JobFits(p) /\ Types /\ r \in Rows /\ na[r] \in NaRow /\ now \in Nat
      /\ x \in Persons /\ na[r].person = x /\ (a.fresh => AsRead(a))
  BY <1>1, Basics DEF Base, Types, JobFits, Pushes, Its
<1>3. j \in Job /\ j.do = "copy" /\ j.person = x
  BY ToIs
<1>4. /\ crm[x].due = a.due /\ ours[x] /\ \A s \in Rows : Rests(s, x) => na[s].synced >= crm[x].at
  BY <1>1 DEF AllTrue, JobTrue, Landed, NotBehind
<1>5. CASE a.fresh /\ Save(p, r, row, j)
  <2>1. row \in NaRow /\ row.state = na[r].state /\ row.person = x /\ row.synced = now /\ row.due = na[r].due
    BY <1>2 DEF NaRow
  <2>2. Wrote(p, r, x) /\ na'[r] = row /\ job'[p] = j /\ row.synced \in Nat
    <3>1. /\ UNCHANGED <<crm, ours>> /\ na[r].person \in {x, Nil} /\ j.do # "settle" /\ Save(p, r, row, j)
          /\ \A y \in Persons : y # x => cache'[y] = cache[y]
      BY <1>1, <1>2, <1>3, <1>5
    <3>2. Saves(p, r, row, j, x)
      BY <1>3, <2>1, <3>1 DEF Saves
    <3> QED BY <1>2, <3>2, SaveWrote
  <2>3. /\ na[r].pending /\ na[r].state = a.state /\ (na[r].state = "OPEN" => crm[x].due = na[r].due)
        /\ na[r].state # "OPEN" => crm[x].due = Blank
    BY <1>2, <1>4, <1>5 DEF AsRead, Unsent
  <2>4. /\ crm[x].at \in Nat /\ cache[x].at \in Nat /\ cache[x].at <= crm[x].at /\ crm[x].at <= now
        /\ \A s \in Rows : s # r => na'[s] = na[s]
    BY <1>2, <2>2, Ranges DEF Wrote
  <2>5. ASSUME NEW s \in Rows PROVE RowTrue(s, x)'
    <3>1. CASE s = r
      <4>1. /\ na'[r].state = "OPEN" => crm'[x].due = na'[r].due
            /\ na'[r].synced = now /\ crm'[x].at <= now /\ cache'[x].at <= now
            /\ crm'[x].at \in Nat /\ cache'[x].at \in Nat
        BY <1>1, <1>2, <2>1, <2>2, <2>3, <2>4
      <4> QED BY <1>2, <3>1, <4>1 DEF RowTrue, Rests
    <3>2. CASE s # r
      BY <1>1, <1>2, <2>4, <3>2 DEF AllTrue, RowTrue, Rests
    <3> QED BY <3>1, <3>2
  <2>6. ClosedTrue(x)'
    <3>1. CASE na[r].state = "OPEN"
      <4>1. na'[r].person = x /\ na'[r].state = "OPEN"
        BY <2>1, <2>2, <3>1
      <4> QED BY <1>2, <4>1 DEF ClosedTrue
    <3>2. CASE na[r].state # "OPEN"
      <4>1. crm'[x].due = Blank
        BY <1>1, <2>3, <3>2
      <4> QED BY <4>1 DEF ClosedTrue
    <3> QED BY <3>1, <3>2
  <2>7. JobTrue(p)'
    <3>1. NotBehind(p)'
      <4>1. ASSUME NEW s \in Rows, Rests(s, x)' PROVE na'[s].synced >= crm'[x].at
        <5>1. CASE s = r
          BY <1>1, <2>1, <2>2, <2>4, <5>1
        <5>2. CASE s # r
          BY <1>1, <1>4, <2>4, <4>1, <5>2 DEF Rests
        <5> QED BY <5>1, <5>2
      <4> QED BY <1>3, <2>2, <4>1 DEF NotBehind
    <3> QED BY <1>3, <2>2, <3>1 DEF JobTrue, Landed, AllWait, OneRow
  <2>8. Rests(r, x)' => na'[r].synced >= crm[x].at
    BY <2>1, <2>2, <2>4
  <2>9. Rests(r, x)' => \A q \in Procs : q # p /\ job[q].do = "call" /\ job[q].person = x /\ job[q].fresh => job[q].row = r
    <3>1. Rests(r, x)' => a.state = "OPEN"
      BY <2>1, <2>2, <2>3 DEF Rests
    <3> QED BY <1>1, <1>5, <3>1 DEF AllTrue, JobTrue, OneRow
  <2>10. ASSUME Following' PROVE Following /\ \A seen \in job'[Worker].list :
                                     seen \in job[Worker].list /\ (seen.row = r => ~ AsSeen(seen, x)')
    <3>1. Following /\ job'[Worker].list = job[Worker].list
      BY <1>3, <2>2, <2>10, Basics DEF Following, Wrote, SameJob
    <3>2. ASSUME NEW seen \in job[Worker].list, seen.row = r PROVE ~ AsSeen(seen, x)'
      <4>1. SeenFits(seen) /\ seen \in Seen
        BY <1>2, <3>1, Basics DEF Base, Following, Types, Job, Seen
      <4>2. seen.synced < seen.crm.at /\ seen.crm.at <= crm[x].at
        BY <1>2, <3>2, <4>1 DEF SeenFits
      <4>3. seen.synced \in Nat /\ seen.crm.at \in Nat
        BY <4>1 DEF Seen, Fields
      <4>4. na'[r].synced # seen.synced
        BY <1>2, <2>1, <2>2, <2>4, <4>2, <4>3
      <4> QED BY <3>2, <4>4 DEF AsSeen
    <3> QED BY <3>1, <3>2
  <2> QED BY <1>2, <2>2, <2>5, <2>6, <2>7, <2>8, <2>9, <2>10, WroteTrue
<1>6. CASE Go(p, j) /\ UNCHANGED na
  <2>1. job'[p] = j /\ \A q \in Procs : q # p => SameJob(q)
    BY <1>2, <1>3, <1>6, Went
  <2>2. NotBehind(p)'
    BY <1>1, <1>3, <1>4, <1>6, <2>1 DEF NotBehind, Rests
  <2>3. JobTrue(p)'
    BY <1>3, <2>1, <2>2 DEF JobTrue, Landed, AllWait, OneRow
  <2> QED BY <1>1, <1>3, <1>6, <2>1, <2>3, OnlyJob
<1> QED BY <1>1, <1>5, <1>6

(* The worker follows fields that were Twenty's, or have been edited since. *)
LEMMA FollowTrue ==
  ASSUME Base, AllTrue, Follow, ~ crossed'
  PROVE  AllTrue'
<1>1. PICK seen \in job[Worker].list, j \in Job :
           LET r == seen.row  row == Followed(na[r], seen) IN
           /\ Following /\ seen \in Seen /\ SeenFits(seen) /\ Save(Worker, r, row, j)
           /\ crossed' = (crossed \/ Moved(na[r], seen))
           /\ UNCHANGED <<crm, ours, cache, now>>
           /\ j = NoJob \/ (j.do = "follow" /\ j.what = job[Worker].what /\ j.list = job[Worker].list \ {seen})
           /\ row \in NaRow /\ row.person = na[r].person /\ row.pending = na[r].pending /\ row.synced = seen.crm.at
           /\ \/ seen.crm.due = seen.due /\ row.state = na[r].state /\ row.due = na[r].due
              \/ seen.crm.due # seen.due /\ seen.crm.due = Blank /\ row.state = "CANCELLED" /\ row.due = na[r].due
              \/ seen.crm.due # seen.due /\ seen.crm.due \in Days /\ row.state = na[r].state /\ row.due = seen.crm.due
  BY FollowIs
<1>2. PICK r, row, x : r = seen.row /\ row = Followed(na[r], seen) /\ x = na[r].person
  OBVIOUS
<1>3. /\ r \in Rows /\ x \in Persons /\ seen.crm.at \in Nat /\ seen.synced \in Nat /\ seen.synced < seen.crm.at
      /\ seen.crm.at <= crm[x].at
  BY <1>1, <1>2, Ranges DEF Seen, Fields, SeenFits
<1>4. /\ na[r].state = "OPEN" /\ ~ na[r].pending /\ na[r].due = seen.due /\ na[r].synced = seen.synced
  BY <1>1, <1>2 DEF Moved
<1>5. /\ Rests(r, x) /\ AsSeen(seen, x)
  BY <1>2, <1>4 DEF Rests, AsSeen
<1>6. /\ seen.crm.at = crm[x].at => seen.crm.due = crm[x].due
      /\ seen.crm.at < crm[x].at => ~ ours[x]
  BY <1>1, <1>3, <1>5 DEF AllTrue, SeenTrue
<1>7. /\ row \in NaRow /\ row.person = x /\ row.synced = seen.crm.at
      /\ row.state = "OPEN" => row.due = seen.crm.due
      /\ row.state # "OPEN" => seen.crm.due = Blank
  BY <1>1, <1>2, <1>4
<1>8. j.do \in {"idle", "follow"} /\ UNCHANGED <<crm, ours, cache>>
  BY <1>1, NoJobIs
<1>9. Wrote(Worker, r, x) /\ na'[r] = row /\ job'[Worker] = j /\ row.synced \in Nat
  <2>1. \A y \in Persons : y # x => cache'[y] = cache[y]
    BY <1>8
  <2>2. Save(Worker, r, row, j) /\ na[r].person \in {x, Nil}
    BY <1>1, <1>2
  <2>3. Saves(Worker, r, row, j, x)
    BY <1>7, <1>8, <2>1, <2>2 DEF Saves
  <2> QED BY <1>3, <2>3, Basics, SaveWrote
<1>10. ASSUME NEW s \in Rows PROVE RowTrue(s, x)'
  <2>1. CASE s = r
    <3>1. RowTrue(r, x) /\ crm[x].at \in Nat /\ cache[x].at \in Nat
      BY <1>3, Ranges DEF AllTrue
    <3>2. /\ row.state = "OPEN" => /\ row.synced >= crm[x].at => crm[x].due = row.due
                                   /\ row.synced < crm[x].at => ~ ours[x]
          /\ row.synced < cache[x].at /\ cache[x].at = crm[x].at => cache[x].due = crm[x].due
      BY <1>3, <1>4, <1>5, <1>6, <1>7, <3>1 DEF RowTrue
    <3> QED BY <1>8, <1>9, <2>1, <3>2 DEF RowTrue, Rests
  <2>2. CASE s # r
    <3>1. na'[s] = na[s] /\ RowTrue(s, x)
      BY <1>3, <1>9, <2>2 DEF Wrote, AllTrue
    <3> QED BY <1>8, <3>1 DEF RowTrue, Rests
  <2> QED BY <2>1, <2>2
<1>11. ClosedTrue(x)'
  <2>1. CASE row.state = "OPEN"
    BY <1>3, <1>7, <1>9, <2>1 DEF ClosedTrue
  <2>2. CASE row.state # "OPEN"
    <3>1. ours[x] => crm[x].due = Blank
      BY <1>3, <1>6, <1>7, <2>2, Ranges
    <3> QED BY <1>8, <3>1 DEF ClosedTrue
  <2> QED BY <2>1, <2>2
<1>12. JobTrue(Worker)'
  BY <1>8, <1>9, Basics, Calm DEF Busy
<1>13. na'[r].synced > na[r].synced
  BY <1>3, <1>4, <1>7, <1>9
<1>14. ASSUME Following' PROVE Following /\ \A other \in job'[Worker].list :
                                   other \in job[Worker].list /\ (other.row = r => ~ AsSeen(other, x)')
  <2>1. j.list = job[Worker].list \ {seen} /\ Following
    BY <1>1, <1>9, <1>14, NoJobIs DEF Following
  <2>2. \A other \in job[Worker].list : other.row = r => other = seen
    BY <1>1, <1>2 DEF SeenFits
  <2> QED BY <1>9, <2>1, <2>2
<1> QED BY <1>3, <1>5, <1>9, <1>10, <1>11, <1>12, <1>13, <1>14, Basics, WroteTrue

-----------------------------------------------------------------------------
(* Twenty takes a write of person x: ours when all there is to say is said *)
(* by it, somebody else's when nothing of the person is on its way.        *)
LEMMA TookTrue ==
  ASSUME Base, AllTrue, NEW x \in Persons, NEW d \in Days \cup {Blank}, NEW us \in BOOLEAN, TwentyTakes(x, d, us),
         UNCHANGED <<na, cache>>,
         us => /\ \A r \in Rows : ~ Rests(r, x)
               /\ \E r \in Rows : na[r].person = x /\ na[r].pending,
         \A q \in Procs : (SameJob(q) /\ job'[q].fresh = job[q].fresh) \/ job'[q].person = x,
         \A q \in Procs : JobTrue(q)' \/ (SameJob(q) /\ (job[q].do \in Busy => job[q].person # x)),
         Following' => Following /\ job'[Worker].list = job[Worker].list
  PROVE  AllTrue'
<1>1. /\ crm'[x].due = d /\ crm'[x].at = now + 1 /\ ours'[x] = us
      /\ \A y \in Persons : y # x => crm'[y] = crm[y] /\ ours'[y] = ours[y]
  BY TakesIs DEF Base
<1>2. ASSUME NEW r \in Rows, NEW y \in Persons PROVE RowTrue(r, y)'
  <2>1. CASE y = x
    <3>1. /\ na[r].synced \in Nat /\ na[r].synced <= now /\ now \in Nat /\ cache[x].at \in Nat /\ crm[x].at \in Nat
          /\ cache[x].at <= crm[x].at /\ crm[x].at <= now
      BY Ranges
    <3>2. ASSUME Rests(r, x) PROVE ~ us
      BY <3>2
    <3> QED BY <1>1, <2>1, <3>1, <3>2 DEF RowTrue, Rests
  <2>2. CASE y # x
    BY <1>1, <2>2 DEF AllTrue, RowTrue, Rests
  <2> QED BY <2>1, <2>2
<1>3. ASSUME NEW y \in Persons PROVE ClosedTrue(y)'
  <2>1. CASE y = x
    BY <1>1, <2>1 DEF ClosedTrue
  <2>2. CASE y # x
    BY <1>1, <2>2 DEF AllTrue, ClosedTrue
  <2> QED BY <2>1, <2>2
<1>4. ASSUME NEW q \in Procs, SameJob(q), job[q].do \in Busy => job[q].person # x PROVE JobTrue(q)'
  <2>1. CASE job[q].do \notin Busy
    BY <1>4, <2>1, Calm DEF SameJob
  <2>2. CASE job[q].do \in Busy
    <3> PICK y : y = job[q].person
      OBVIOUS
    <3>1. y \in Persons /\ y # x /\ JobTrue(q) /\ job'[q].person = y
      BY <1>4, <2>2, BusyWith DEF AllTrue, SameJob
    <3>2. crm'[y] = crm[y] /\ ours'[y] = ours[y]
      BY <1>1, <3>1
    <3>3. Landed(q)' /\ NotBehind(q)' /\ AllWait(q)'
      BY <1>4, <3>1, <3>2 DEF SameJob, JobTrue, Landed, NotBehind, AllWait, Rests
    <3>4. OneRow(q)'
      BY <1>4, <3>1 DEF SameJob, JobTrue, OneRow
    <3> QED BY <3>3, <3>4 DEF JobTrue
  <2> QED BY <2>1, <2>2
<1>5. ASSUME Following', NEW seen \in job'[Worker].list PROVE SeenTrue(seen)'
  <2>1. SeenFits(seen) /\ SeenTrue(seen) /\ seen \in Seen
    BY <1>5, Basics DEF Base, AllTrue, Following, Types, Job, Seen
  <2>2. ASSUME AsSeen(seen, x)
        PROVE  ~ us /\ seen.crm.at < now + 1
    <3>1. seen.crm.at <= crm[x].at /\ crm[x].at \in Nat /\ crm[x].at <= now /\ seen.crm.at \in Nat /\ now \in Nat
      BY <2>1, <2>2, Ranges DEF SeenFits, AsSeen, Rests, Seen, Fields
    <3>2. seen.row \in Rows /\ Rests(seen.row, x)
      BY <2>1, <2>2 DEF AsSeen, Seen
    <3> QED BY <3>1, <3>2
  <2>3. \A y \in Persons : AsSeen(seen, y)' => AsSeen(seen, y)
    BY DEF AsSeen, Rests
  <2>4. seen.crm.at \in Nat /\ now \in Nat
    BY <2>1, Ranges DEF Seen, Fields
  <2> QED BY <1>1, <2>1, <2>2, <2>3, <2>4 DEF SeenTrue
<1>6. \A q \in Procs : JobTrue(q)'
  BY <1>4
<1> QED BY <1>2, <1>3, <1>5, <1>6 DEF AllTrue

LEMMA PushCallTrue ==
  ASSUME Base, AllTrue, NEW p \in Procs, PushCall(p), ~ crossed'
  PROVE  AllTrue'
<1> PICK a, x : a = job[p] /\ x = a.person
  OBVIOUS
<1>1. /\ a.do = "call" /\ UNCHANGED <<na, cache>>
      /\ \/ \E do \in {"settle", "fail"} :
              /\ Go(p, To(p, do)) /\ TwentyTakes(x, a.due, TRUE)
              /\ crossed' = (crossed \/ Pushing(x) # {p} \/ ~ a.fresh)
         \/ Go(p, To(p, "fail")) /\ UNCHANGED <<crm, ours>>
  BY DEF PushCall, At
<1>2. /\ a \in Job /\ Types /\ x \in Persons /\ a.due \in Days \cup {Blank} /\ Its(a) /\ (a.fresh => AsRead(a))
  BY <1>1 DEF Base, Types, JobFits, Pushes, Its, Job
<1>3. ASSUME NEW do \in {"settle", "fail"}, Go(p, To(p, do)), TwentyTakes(x, a.due, TRUE),
             crossed' = (crossed \/ Pushing(x) # {p} \/ ~ a.fresh)
      PROVE  AllTrue'
  <2> PICK j : j = To(p, do)
    OBVIOUS
  <2>1. j \in Job /\ j.do = do /\ j.person = x /\ j.due = a.due
    BY ToIs
  <2>2. job'[p] = j /\ \A q \in Procs : q # p => SameJob(q) /\ job'[q].fresh = job[q].fresh
    BY <1>2, <1>3, <2>1, Went
  <2>3. a.fresh /\ Pushing(x) = {p}
    BY <1>3
  <2>4. \A r \in Rows : ~ Rests(r, x)
    BY <1>1, <2>3 DEF AllTrue, JobTrue, AllWait
  <2>5. \E r \in Rows : na[r].person = x /\ na[r].pending
    BY <1>2, <2>3 DEF Its, AsRead
  <2>6. crm'[x].due = a.due /\ ours'[x] /\ \A y \in Persons : y # x => crm'[y] = crm[y]
    <3>1. TRUE \in BOOLEAN /\ Types /\ x \in Persons /\ a.due \in Days \cup {Blank} /\ TwentyTakes(x, a.due, TRUE)
      BY <1>2, <1>3
    <3>2. PICK d : d = a.due
      OBVIOUS
    <3>3. /\ crm'[x].due = d /\ (ours'[x] = TRUE)
          /\ \A y \in Persons : y # x => crm'[y] = crm[y]
      BY <3>1, <3>2, TakesIs
    <3> QED BY <3>2, <3>3
  <2>7. JobTrue(p)'
    <3>1. Landed(p)' /\ NotBehind(p)'
      BY <1>1, <2>1, <2>2, <2>4, <2>6 DEF Landed, NotBehind, Rests
    <3> QED BY <2>1, <2>2, <3>1 DEF JobTrue, AllWait, OneRow
  <2>8. ASSUME NEW q \in Procs, q # p PROVE JobTrue(q)' \/ (SameJob(q) /\ (job[q].do \in Busy => job[q].person # x))
    <3>1. CASE job[q].person # x
      BY <2>2, <2>8, <3>1
    <3>2. CASE job[q].person = x
      <4>1. job[q].do \notin {"call", "settle"} /\ SameJob(q)
        BY <2>2, <2>3, <2>8, <3>2 DEF Pushing
      <4>2. JobTrue(q)'
        BY <1>1, <2>4, <3>2, <4>1 DEF JobTrue, Landed, NotBehind, AllWait, OneRow, SameJob, Rests
      <4> QED BY <4>2
    <3> QED BY <3>1, <3>2
  <2>9. Following' => Following /\ job'[Worker].list = job[Worker].list
    BY <2>1, <2>2, Basics DEF Following, SameJob
  <2>10. \A q \in Procs : (SameJob(q) /\ job'[q].fresh = job[q].fresh) \/ job'[q].person = x
    BY <2>1, <2>2
  <2>11. UNCHANGED <<na, cache>>
    BY <1>1
  <2> QED BY <1>2, <1>3, <2>4, <2>5, <2>7, <2>8, <2>9, <2>10, <2>11, TookTrue
<1>4. CASE Go(p, To(p, "fail")) /\ UNCHANGED <<crm, ours>>
  <2>1. To(p, "fail").do = "fail"
    BY ToIs
  <2> QED BY <1>1, <1>4, <2>1, CalmTrue
<1> QED BY <1>1, <1>3, <1>4

LEMMA EditTrue ==
  ASSUME Base, AllTrue, NEW x \in Persons, EditInTwenty(x), ~ crossed'
  PROVE  AllTrue'
<1>1. PICK d \in Days \cup {Blank} : TwentyTakes(x, d, FALSE)
  BY DEF EditInTwenty
<1>2. UNCHANGED <<na, cache, job>> /\ Sending(x) = {}
  BY DEF EditInTwenty
<1>3. \A q \in Procs : SameJob(q) /\ job'[q].fresh = job[q].fresh /\ (job[q].do \in Busy => job[q].person # x)
  BY <1>2 DEF SameJob, Sending, Pushing, Busy
<1>4. Following' => Following /\ job'[Worker].list = job[Worker].list
  BY <1>2 DEF Following
<1> QED BY <1>1, <1>2, <1>3, <1>4, TookTrue

-----------------------------------------------------------------------------
LEMMA InitTrue ==
  ASSUME Init, Base
  PROVE  AllTrue
<1>1. /\ \A x \in Persons : /\ ours[x] = (\E r \in Already : Owner[r] = x)
                            /\ crm[x].due = (IF ours[x] THEN 1 ELSE Blank) /\ crm[x].at = 1
      /\ cache = crm /\ job = [p \in Procs |-> NoJob]
      /\ \A r \in Rows : /\ r \in Already => /\ na[r].state = "OPEN" /\ na[r].person = Owner[r] /\ na[r].due = 1
                                              /\ na[r].synced = 1
                         /\ r \notin Already => na[r].state = "NONE"
  BY NextActionsAssumption DEF Init, NoRow
<1>2. ASSUME NEW r \in Rows, NEW x \in Persons, Rests(r, x) PROVE RowTrue(r, x)
  <2>1. r \in Already
    BY <1>1, <1>2 DEF Rests
  <2>2. Owner[r] = x /\ na[r].synced = 1 /\ na[r].due = 1
    BY <1>1, <1>2, <2>1 DEF Rests
  <2>3. ours[x] /\ crm[x].due = 1 /\ crm[x].at = 1 /\ cache[x].at = 1
    BY <1>1, <2>1, <2>2
  <2> QED BY <2>2, <2>3 DEF RowTrue
<1>3. ASSUME NEW x \in Persons PROVE ClosedTrue(x)
  <2>1. CASE ours[x]
    <3>1. PICK r \in Already : Owner[r] = x
      BY <1>1, <2>1
    <3>2. na[r].person = x /\ na[r].state = "OPEN" /\ r \in Rows
      BY <1>1, <3>1, NextActionsAssumption
    <3> QED BY <3>2 DEF ClosedTrue
  <2>2. CASE ~ ours[x]
    BY <2>2 DEF ClosedTrue
  <2> QED BY <2>1, <2>2
<1>4. \A q \in Procs : JobTrue(q)
  BY <1>1, NoJobIs, Calm DEF Busy
<1>5. ~ Following
  BY <1>1, NoJobIs, Basics DEF Following
<1>6. \A r \in Rows, x \in Persons : RowTrue(r, x)
  BY <1>2 DEF RowTrue
<1> QED BY <1>3, <1>4, <1>5, <1>6 DEF AllTrue

LEMMA StraightInductive ==
  ASSUME Base, Straight, [Next]_vars
  PROVE  Straight'
<1> SUFFICES ASSUME ~ crossed' PROVE AllTrue'
  BY DEF Straight
<1>1. ~ crossed
  <2>1. CASE UNCHANGED crossed
    BY <2>1
  <2>2. CASE Follow \/ (\E p \in Procs : PushCall(p)) \/ (\E x \in Persons : EditInTwenty(x))
    BY <2>2 DEF Follow, PushCall, EditInTwenty
  <2>3. CASE UNCHANGED vars
    BY <2>3 DEF vars
  <2>4. CASE \/ \E u \in Users : Begin(u)
             \/ EmailSeen \/ StartPass \/ ListOpen
             \/ \E x \in Persons : Refresh(x)
    BY <2>4 DEF Begin, EmailSeen, StartPass, ListOpen, Refresh
  <2>5. CASE \E p \in Procs : \/ SetFind(p) \/ SetSave(p) \/ ReadRow(p) \/ Claim(p) \/ WriteRow(p) \/ MirrorRow(p)
                           \/ PushRead(p) \/ PushCount(p) \/ PushSettle(p) \/ PushCopy(p) \/ PushFail(p) \/ Die(p)
    <3>1. ASSUME NEW p \in Procs, SetFind(p) \/ SetSave(p) \/ ReadRow(p) PROVE ~ crossed
      BY <3>1 DEF SetFind, SetSave, ReadRow
    <3>2. ASSUME NEW p \in Procs, Claim(p) \/ WriteRow(p) \/ MirrorRow(p) PROVE ~ crossed
      BY <3>2 DEF Claim, WriteRow, MirrorRow
    <3>3. ASSUME NEW p \in Procs, PushRead(p) \/ PushCount(p) \/ PushSettle(p) PROVE ~ crossed
      BY <3>3 DEF PushRead, PushCount, PushSettle
    <3>4. ASSUME NEW p \in Procs, PushCopy(p) \/ PushFail(p) \/ Die(p) PROVE ~ crossed
      BY <3>4 DEF PushCopy, PushFail, Die
    <3> QED BY <2>5, <3>1, <3>2, <3>3, <3>4
  <2> QED BY <2>2, <2>3, <2>4, <2>5, Steps
<1>2. AllTrue
  BY <1>1 DEF Straight
<1>3. CASE UNCHANGED vars
  BY <1>2, <1>3 DEF vars, AllTrue, RowTrue, ClosedTrue, JobTrue, Landed, NotBehind, AllWait, OneRow, SeenTrue, AsSeen,
                    Rests, Following
<1>4. CASE \E u \in Users : Begin(u)
  BY <1>2, <1>4, BeginTrue
<1>5. CASE EmailSeen \/ StartPass \/ ListOpen \/ Follow
  BY <1>2, <1>5, EmailTrue, PassTrue, ListOpenTrue, FollowTrue
<1>6. CASE \E p \in Procs : SetFind(p) \/ SetSave(p) \/ ReadRow(p) \/ Claim(p) \/ WriteRow(p) \/ MirrorRow(p)
  BY <1>2, <1>6, FindTrue, SetTrue, ReadTrue, ClaimTrue, WriteRowTrue, MirrorRowTrue
<1>7. CASE \E p \in Procs : \/ PushRead(p) \/ PushCount(p) \/ PushCall(p) \/ PushSettle(p) \/ PushCopy(p)
                         \/ PushFail(p) \/ Die(p)
  BY <1>2, <1>7, PushReadTrue, PushCountTrue, PushCallTrue, PushSettleTrue, PushCopyTrue, PushFailTrue, DieTrue
<1>8. CASE \E x \in Persons : EditInTwenty(x) \/ Refresh(x)
  BY <1>2, <1>8, EditTrue, RefreshTrue
<1> QED BY <1>3, <1>4, <1>5, <1>6, <1>7, <1>8, Steps

(* "Those two fields always carry it" (next-actions.ts:24), once a person's *)
(* changes have been sent and followed and as long as no two of them       *)
(* crossed: Twenty has the open task's day, or nothing when there is none  *)
(* and Cadence wrote last.                                                 *)
THEOREM FieldsCarry == Spec => []FieldsCarryTheTask
<1>1. Init => Straight
  BY InitBase, InitTrue DEF Straight
<1>2. Base /\ Straight /\ [Next]_vars => Straight'
  BY StraightInductive
<1>3. Base /\ Straight => FieldsCarryTheTask
  <2> SUFFICES ASSUME Base, Straight, ~ crossed, NEW x \in Persons, Quiet(x) PROVE Agrees(x)
    BY DEF FieldsCarryTheTask
  <2>1. AllTrue /\ cache[x] = crm[x] /\ \A r \in Rows : na[r].person = x => ~ na[r].pending
    BY DEF Straight, Quiet
  <2>2. CASE OpenOf(x) = {}
    BY <2>1, <2>2 DEF AllTrue, ClosedTrue, OpenOf, Agrees
  <2>3. CASE OpenOf(x) # {}
    <3>1. ASSUME NEW r \in OpenOf(x) PROVE crm[x].due = na[r].due
      <4>1. r \in Rows /\ Rests(r, x) /\ RowTrue(r, x)
        BY <2>1, <3>1 DEF OpenOf, Rests, AllTrue
      <4>2. crm[x].at \in Nat /\ na[r].synced \in Nat /\ ~ (crm[x].at > na[r].synced)
        BY <2>1, <3>1, <4>1, Ranges DEF Quiet, Behind
      <4> QED BY <4>1, <4>2 DEF RowTrue
    <3> QED BY <2>3, <3>1 DEF Agrees
  <2> QED BY <2>2, <2>3
<1> QED BY <1>1, <1>2, <1>3, BaseInvariant, PTL DEF Spec
=============================================================================
