----------------------------- MODULE OutboxProofs -----------------------------
(***************************************************************************)
(* Proofs about Outbox: its types, that no refused or timed-out note is    *)
(* forgotten, that Cadence's own writes coming back complete nothing, and  *)
(* that a discarded write stays discarded.                                 *)
(***************************************************************************)
EXTENDS Outbox, SequenceTheorems, TLAPS

(* The items of a job, and whether an item of it still owes a task's note. *)
Items(s)       == {s[n] : n \in DOMAIN s}
Carries(it, t) == it.task = t /\ (it.do = "complete" \/ it.op = "createNote")
Carried(t)     == \E p \in Procs : \E it \in Items(job[p]) : Carries(it, t)
WaitsIn(w, t)  == write[w].op = "createNote" /\ write[w].task = t /\ write[w].status # "OK"

Loads == {"create", "complete", "resolve"}
Links == {"finishTask", "retireTask"}

(* An item is about a Twenty task of its Cadence task, about a row that is *)
(* of the same call, and reports what did happen.                          *)
ItemFits(it) ==
  /\ it.do \in Loads <=> it.op = Nil
  /\ it.do \in Loads => it.row = 0
  /\ it.do \in {"check", "finish"} => it.op = "createTask"
  /\ it.row # 0 => write[it.row].op = it.op /\ write[it.row].task = it.task
  /\ it.op \in Links \/ (it.do = "store" /\ it.op = "createTask") =>
       it.id \in Ids /\ crm[it.id].of = it.task
  /\ it.do = "store" /\ it.op = "createNote" => notes[it.task] > 0
  /\ it.do = "complete" \/ it.op = "finishTask" => task[it.task].state = "DONE"
WriteFits(w) ==
  LET r == write[w] IN
  /\ r.op = Nil <=> r.status = "NONE"
  /\ r.op # Nil => r.task \in Tasks
  /\ r.op \in Links => r.id \in Ids /\ crm[r.id].of = r.task
  /\ r.op = "finishTask" => task[r.task].state = "DONE"
  /\ r.op = "createNote" /\ r.status = "OK" => notes[r.task] > 0
TaskFits(t) ==
  /\ task[t].mirror # Nil => crm[task[t].mirror].of = t
  /\ task[t].noted => notes[t] > 0
CrmFits(i) == crm[i].status = "absent" <=> crm[i].of = Nil

(* With mirrors deleted when their task is not done, Twenty says a task is *)
(* done only after somebody did it.                                        *)
WorkFits == RemoveOnSkip => /\ \A t \in Tasks : task[t].state = "DONE" => t \in worked
                            /\ \A i \in Ids : <<i, "DONE">> \in events => crm[i].of \in worked

OInv == /\ TypeOK
        /\ \A p \in Procs : \A it \in Items(job[p]) : ItemFits(it)
        /\ \A w \in WriteIds : WriteFits(w)
        /\ \A t \in Tasks : TaskFits(t)
        /\ \A i \in Ids : CrmFits(i)
        /\ NothingIsLost /\ WorkFits

(* What no step takes back. *)
Grows ==
  /\ \A i \in Ids : crm[i].of # Nil => crm'[i].of = crm[i].of
  /\ \A t \in Tasks : /\ notes[t] > 0 => notes'[t] > 0
                      /\ task[t].state = "DONE" => task'[t].state = "DONE"
  /\ \A w \in WriteIds : write[w].op # Nil => /\ write'[w].op = write[w].op
                                              /\ write'[w].task = write[w].task
  /\ dropped \subseteq dropped'

-----------------------------------------------------------------------------
(* Items of the sequences a step makes of a job. *)

LEMMA ItemsTyped ==
  ASSUME NEW S, NEW s \in Seq(S)
  PROVE  Items(s) \subseteq S /\ DOMAIN s = 1 .. Len(s) /\ Len(s) \in Nat
BY LenProperties DEF Items

LEMMA NoItems == Items(<<>>) = {}
BY DEF Items

LEMMA OneItem ==
  ASSUME NEW S, NEW x \in S
  PROVE  <<x>> \in Seq(S) /\ Items(<<x>>) = {x}
BY DEF Items

LEMMA HeadItem ==
  ASSUME NEW S, NEW s \in Seq(S), s # <<>>
  PROVE  /\ Head(s) \in S /\ Tail(s) \in Seq(S)
         /\ Items(s) = {Head(s)} \cup Items(Tail(s))
<1>1. /\ Len(s) \in Nat \ {0} /\ Head(s) = s[1] /\ Head(s) \in S /\ Tail(s) \in Seq(S)
      /\ Len(Tail(s)) = Len(s) - 1 /\ \A i \in 1 .. Len(Tail(s)) : Tail(s)[i] = s[i + 1]
  BY HeadTailProperties, EmptySeq
<1>2. DOMAIN s = 1 .. Len(s) /\ DOMAIN Tail(s) = 1 .. Len(s) - 1
  BY <1>1, LenProperties
<1>3. ASSUME NEW x \in Items(s) PROVE x = Head(s) \/ x \in Items(Tail(s))
  <2>1. PICK n \in 1 .. Len(s) : x = s[n]
    BY <1>2, <1>3 DEF Items
  <2>2. n # 1 => n - 1 \in DOMAIN Tail(s) /\ x = Tail(s)[n - 1]
    BY <1>1, <1>2, <2>1
  <2> QED BY <1>1, <2>1, <2>2 DEF Items
<1>4. Head(s) \in Items(s)
  BY <1>1, <1>2 DEF Items
<1>5. ASSUME NEW x \in Items(Tail(s)) PROVE x \in Items(s)
  <2>1. PICK n \in 1 .. Len(s) - 1 : x = Tail(s)[n]
    BY <1>2 DEF Items
  <2>2. n + 1 \in DOMAIN s /\ x = s[n + 1]
    BY <1>1, <1>2, <2>1
  <2> QED BY <2>2 DEF Items
<1> QED BY <1>1, <1>3, <1>4, <1>5

LEMMA ItemsJoined ==
  ASSUME NEW S, NEW s \in Seq(S), NEW u \in Seq(S)
  PROVE  s \o u \in Seq(S) /\ Items(s \o u) = Items(s) \cup Items(u)
<1>1. /\ s \o u \in Seq(S) /\ Len(s) \in Nat /\ Len(u) \in Nat /\ Len(s \o u) = Len(s) + Len(u)
      /\ \A i \in 1 .. Len(s) + Len(u) : (s \o u)[i] = IF i <= Len(s) THEN s[i] ELSE u[i - Len(s)]
  BY ConcatProperties, LenProperties
<1>2. DOMAIN s = 1 .. Len(s) /\ DOMAIN u = 1 .. Len(u) /\ DOMAIN (s \o u) = 1 .. Len(s) + Len(u)
  BY <1>1, LenProperties
<1> DEFINE v == s \o u
<1>3. ASSUME NEW x \in Items(v) PROVE x \in Items(s) \cup Items(u)
  <2>1. PICK n \in 1 .. Len(s) + Len(u) : x = v[n]
    BY <1>2 DEF Items
  <2>2. CASE n <= Len(s)
    BY <1>1, <1>2, <2>1, <2>2 DEF Items
  <2>3. CASE n > Len(s)
    <3>1. n - Len(s) \in DOMAIN u /\ x = u[n - Len(s)]
      BY <1>1, <1>2, <2>1, <2>3
    <3> QED BY <3>1 DEF Items
  <2> QED BY <1>1, <2>2, <2>3
<1>4. ASSUME NEW x \in Items(s) PROVE x \in Items(v)
  <2>1. PICK n \in 1 .. Len(s) : x = s[n]
    BY <1>2 DEF Items
  <2>2. n \in DOMAIN v /\ x = v[n]
    BY <1>1, <1>2, <2>1
  <2> QED BY <2>2 DEF Items
<1>5. ASSUME NEW x \in Items(u) PROVE x \in Items(v)
  <2>1. PICK n \in 1 .. Len(u) : x = u[n]
    BY <1>2 DEF Items
  <2>2. n + Len(s) \in DOMAIN v /\ x = v[n + Len(s)]
    BY <1>1, <1>2, <2>1
  <2> QED BY <2>2 DEF Items
<1> QED BY <1>1, <1>3, <1>4, <1>5

LEMMA Basics ==
  /\ Nil \notin Ids /\ Nil \notin Tasks /\ Nil \notin Ops /\ 0 \notin WriteIds
  /\ WriteIds \subseteq 0 .. MaxWrites /\ 0 \in 0 .. MaxWrites
  /\ \A n \in 0 .. MaxWrites : n # 0 => n \in WriteIds
BY OutboxAssumption DEF WriteIds

LEMMA LoadIs ==
  ASSUME NEW do \in Loads, NEW t \in Tasks
  PROVE  /\ Load(do, t) \in Item /\ Load(do, t).do = do /\ Load(do, t).op = Nil
         /\ Load(do, t).task = t /\ Load(do, t).row = 0
BY Basics DEF Load, ItemOf, Item, Loads

LEMMA SendIs ==
  ASSUME NEW op \in Ops, NEW t \in Tasks, NEW id \in Ids \cup {Nil}
  PROVE  /\ SendNow(op, t, id) \in Item /\ SendNow(op, t, id).do = "send" /\ SendNow(op, t, id).op = op
         /\ SendNow(op, t, id).task = t /\ SendNow(op, t, id).id = id /\ SendNow(op, t, id).row = 0
BY Basics DEF SendNow, ItemOf, Item

-----------------------------------------------------------------------------
(* What a step leaves alone still fits. *)

LEMMA ItemKeeps ==
  ASSUME Grows, NEW it \in Item, ItemFits(it)
  PROVE  ItemFits(it)'
<1>1. it.row # 0 => write'[it.row].op = it.op /\ write'[it.row].task = it.task
  <2>1. it.row # 0 => it.row \in WriteIds /\ it.op # Nil
    BY Basics DEF Item, ItemFits
  <2> QED BY <2>1 DEF Grows, ItemFits
<1>2. it.op \in Links \/ (it.do = "store" /\ it.op = "createTask") => it.id \in Ids /\ crm'[it.id].of = it.task
  BY Basics DEF Grows, ItemFits, Item
<1>3. it.do = "store" /\ it.op = "createNote" => notes'[it.task] > 0
  BY DEF Grows, ItemFits, Item
<1>4. it.do = "complete" \/ it.op = "finishTask" => task'[it.task].state = "DONE"
  BY DEF Grows, ItemFits, Item
<1> QED BY <1>1, <1>2, <1>3, <1>4 DEF ItemFits

LEMMA OthersKeep ==
  ASSUME OInv, Grows
  PROVE  /\ \A w \in WriteIds : write'[w] = write[w] => WriteFits(w)'
         /\ \A t \in Tasks : task'[t] = task[t] => TaskFits(t)'
         /\ \A i \in Ids : crm'[i] = crm[i] => CrmFits(i)'
<1>1. ASSUME NEW w \in WriteIds, write'[w] = write[w] PROVE WriteFits(w)'
  <2>1. WriteFits(w)
    BY DEF OInv
  <2>2. write[w].op \in Links => write[w].op # Nil /\ crm'[write[w].id].of = write[w].task
    BY <2>1, Basics DEF WriteFits, Grows, Links, Ops
  <2>3. write[w].op = "finishTask" => write[w].op # Nil /\ task'[write[w].task].state = "DONE"
    BY <2>1, Basics DEF WriteFits, Grows, Ops
  <2>4. write[w].op = "createNote" /\ write[w].status = "OK" => notes'[write[w].task] > 0
    BY <2>1, Basics DEF WriteFits, Grows, Ops
  <2> QED BY <1>1, <2>1, <2>2, <2>3, <2>4 DEF WriteFits
<1>2. ASSUME NEW t \in Tasks, task'[t] = task[t] PROVE TaskFits(t)'
  <2>1. TaskFits(t) /\ task[t] \in TaskRow
    BY DEF OInv, TypeOK
  <2>2. task[t].mirror # Nil => crm'[task[t].mirror].of = t
    BY <2>1, Basics DEF TaskFits, TaskRow, Grows
  <2> QED BY <1>2, <2>1, <2>2 DEF TaskFits, Grows
<1>3. ASSUME NEW i \in Ids, crm'[i] = crm[i] PROVE CrmFits(i)'
  BY <1>3 DEF OInv, CrmFits
<1> QED BY <1>1, <1>2, <1>3

(* A step of one process, or of none: the items R are off its job, N on it.*)
JobsStep(p, R, N) ==
  /\ \A q \in Procs : q # p => job'[q] = job[q]
  /\ p \in Procs => Items(job[p]) \subseteq R \cup Items(job'[p])
  /\ p \in Procs => Items(job'[p]) \subseteq N \cup Items(job[p])
  /\ \A it \in N : ItemFits(it)'

RowsStep ==
  /\ \A w \in WriteIds : write'[w] = write[w] \/ WriteFits(w)'
  /\ \A t \in Tasks : task'[t] = task[t] \/ TaskFits(t)'
  /\ \A i \in Ids : crm'[i] = crm[i] \/ CrmFits(i)'

NotesStep(R) ==
  /\ \A t \in Tasks \ dropped' : /\ \A it \in R : Carries(it, t) => NoteIsOnItsWay(t)'
                                 /\ task'[t].state = "DONE" /\ task[t].state # "DONE" => NoteIsOnItsWay(t)'
  /\ \A w \in WriteIds, t \in Tasks : WaitsIn(w, t) => WaitsIn(w, t)' \/ notes'[t] > 0

LEMMA StepHolds ==
  ASSUME OInv, Grows, TypeOK', WorkFits', NEW p, NEW R, NEW N, JobsStep(p, R, N), RowsStep, NotesStep(R)
  PROVE  OInv'
<1> USE DEF JobsStep, RowsStep, NotesStep
<1>1. ASSUME NEW q \in Procs, NEW it \in Items(job'[q]) PROVE ItemFits(it)'
  <2>1. job \in [Procs -> Seq(Item)]
    BY DEF OInv, TypeOK
  <2>2. it \in Items(job[q]) => it \in Item /\ ItemFits(it)
    BY <2>1, ItemsTyped DEF OInv
  <2>3. it \in N \/ it \in Items(job[q])
    BY <1>1
  <2> QED BY <2>2, <2>3, ItemKeeps
<1>2. /\ \A w \in WriteIds : WriteFits(w)'
      /\ \A t \in Tasks : TaskFits(t)'
      /\ \A i \in Ids : CrmFits(i)'
  BY OthersKeep
<1>3. NothingIsLost'
  <2> SUFFICES ASSUME NEW t \in Tasks \ dropped', task'[t].state = "DONE", task[t].state = "DONE"
               PROVE  NoteIsOnItsWay(t)'
    BY DEF NothingIsLost
  <2>1. NoteIsOnItsWay(t)
    BY DEF OInv, NothingIsLost, Grows
  <2>2. CASE notes[t] > 0
    BY <2>2 DEF Grows, NoteIsOnItsWay
  <2>3. ASSUME NEW w \in WriteIds, WaitsIn(w, t) PROVE NoteIsOnItsWay(t)'
    BY <2>3 DEF WaitsIn, NoteIsOnItsWay
  <2>4. ASSUME NEW q \in Procs, NEW it \in Items(job[q]), Carries(it, t) PROVE NoteIsOnItsWay(t)'
    <3>1. CASE it \in R
      BY <2>4, <3>1
    <3>2. CASE it \in Items(job'[q])
      BY <2>4, <3>2 DEF Items, Carries, NoteIsOnItsWay
    <3> QED BY <3>1, <3>2
  <2> QED BY <2>1, <2>2, <2>3, <2>4 DEF NoteIsOnItsWay, WaitsIn, Carries, Items
<1> QED BY <1>1, <1>2, <1>3 DEF OInv

-----------------------------------------------------------------------------
(* How a step changes the job of its process. *)

LEMMA Started ==
  ASSUME TypeOK, NEW p \in Procs, NEW items \in Seq(Item), Start(p, items)
  PROVE  /\ job' \in [Procs -> Seq(Item)] /\ job'[p] = items /\ Items(job[p]) = {}
         /\ \A q \in Procs : q # p => job'[q] = job[q]
BY NoItems DEF TypeOK, Start, Idle

LEMMA WentOn ==
  ASSUME TypeOK, NEW p \in Procs, ~ Idle(p), NEW new \in Seq(Item),
         job' = [job EXCEPT ![p] = new \o Tail(@)] \/ (new = <<>> /\ job' = [job EXCEPT ![p] = Tail(@)])
  PROVE  /\ Head(job[p]) \in Item /\ Head(job[p]) \in Items(job[p])
         /\ job' \in [Procs -> Seq(Item)] /\ \A q \in Procs : q # p => job'[q] = job[q]
         /\ Items(job[p]) \subseteq {Head(job[p])} \cup Items(job'[p])
         /\ Items(job'[p]) \subseteq Items(new) \cup Items(job[p])
         /\ Items(new) \subseteq Items(job'[p])
<1>1. job \in [Procs -> Seq(Item)] /\ job[p] \in Seq(Item) /\ job[p] # <<>>
  BY DEF TypeOK, Idle
<1>2. /\ Head(job[p]) \in Item /\ Tail(job[p]) \in Seq(Item)
      /\ Items(job[p]) = {Head(job[p])} \cup Items(Tail(job[p]))
  BY <1>1, HeadItem
<1>3. /\ new \o Tail(job[p]) \in Seq(Item)
      /\ Items(new \o Tail(job[p])) = Items(new) \cup Items(Tail(job[p]))
  <2>1. \A u \in Seq(Item) : new \o u \in Seq(Item) /\ Items(new \o u) = Items(new) \cup Items(u)
    BY ItemsJoined
  <2> QED BY <1>2, <2>1
<1>4. \/ job' = [job EXCEPT ![p] = new \o Tail(job[p])]
      \/ new = <<>> /\ job' = [job EXCEPT ![p] = Tail(job[p])]
  OBVIOUS
<1>5. CASE job' = [job EXCEPT ![p] = new \o Tail(job[p])]
  <2>1. job' \in [Procs -> Seq(Item)] /\ job'[p] = new \o Tail(job[p]) /\ \A q \in Procs : q # p => job'[q] = job[q]
    BY <1>1, <1>3, <1>5
  <2> QED BY <1>2, <1>3, <2>1
<1>6. CASE new = <<>> /\ job' = [job EXCEPT ![p] = Tail(job[p])]
  <2>1. job' \in [Procs -> Seq(Item)] /\ job'[p] = Tail(job[p]) /\ \A q \in Procs : q # p => job'[q] = job[q]
    BY <1>1, <1>2, <1>6
  <2>2. Items(new) = {}
    BY <1>6, NoItems
  <2> QED BY <1>2, <2>1, <2>2
<1> QED BY <1>4, <1>5, <1>6

LEMMA LoadFits ==
  ASSUME NEW do \in Loads, NEW t \in Tasks, do = "complete" => task'[t].state = "DONE"
  PROVE  ItemFits(Load(do, t))'
<1> DEFINE it == Load(do, t)
<1>1. it.do = do /\ it.op = Nil /\ it.task = t /\ it.row = 0
  BY LoadIs
<1>2. it.op \notin Links /\ it.op # "createTask" /\ it.op # "createNote" /\ it.op # "finishTask"
  BY <1>1, Basics DEF Links, Ops
<1> HIDE DEF it
<1>3. ItemFits(it)'
  BY <1>1, <1>2 DEF ItemFits, Loads
<1> QED BY <1>3 DEF it

LEMMA SendFits ==
  ASSUME NEW op \in Ops, NEW t \in Tasks, NEW id \in Ids \cup {Nil},
         op \in Links => id \in Ids /\ crm'[id].of = t,
         op = "finishTask" => task'[t].state = "DONE"
  PROVE  ItemFits(SendNow(op, t, id))'
<1> DEFINE it == SendNow(op, t, id)
<1>1. it.do = "send" /\ it.op = op /\ it.task = t /\ it.id = id /\ it.row = 0 /\ op # Nil
  BY SendIs, Basics
<1> HIDE DEF it
<1>2. ItemFits(it)'
  BY <1>1 DEF ItemFits, Loads
<1> QED BY <1>2 DEF it

-----------------------------------------------------------------------------
(* Steps that change a Cadence task and give a process a new job. *)

LEMMA TaskStarts ==
  ASSUME OInv, NEW p \in Procs, NEW t \in Tasks, NEW row \in TaskRow, task' = [task EXCEPT ![t] = row],
         NEW items \in Seq(Item), Start(p, items), \A it \in Items(items) : ItemFits(it)',
         UNCHANGED <<crm, notes, write, dropped>>, events' \subseteq events,
         worked \subseteq worked', worked' \subseteq Tasks, mishaps' \in 0 .. MaxMishaps,
         row.mirror \in {Nil, task[t].mirror}, row.noted = task[t].noted, task[t].state # "DONE",
         row.state = "DONE" => NoteIsOnItsWay(t)' /\ (RemoveOnSkip => t \in worked')
  PROVE  OInv'
<1>1. /\ TypeOK /\ WorkFits /\ TaskFits(t)
      /\ task \in [Tasks -> TaskRow] /\ task'[t] = row /\ \A u \in Tasks : u # t => task'[u] = task[u]
  BY DEF OInv, TypeOK
<1>2. /\ job' \in [Procs -> Seq(Item)] /\ job'[p] = items /\ Items(job[p]) = {}
      /\ \A q \in Procs : q # p => job'[q] = job[q]
  BY <1>1, Started
<1>3. TypeOK'
  BY <1>1, <1>2 DEF TypeOK
<1>4. Grows
  BY <1>1 DEF Grows
<1>5. \A u \in Tasks : task'[u] = task[u] \/ TaskFits(u)'
  BY <1>1 DEF TaskFits
<1>6. WorkFits'
  BY <1>1 DEF WorkFits
<1>7. \A w \in WriteIds, u \in Tasks : WaitsIn(w, u) => WaitsIn(w, u)'
  BY DEF WaitsIn
<1> DEFINE R == {}
           N == Items(items)
<1>8. Items(job[p]) \subseteq R \cup Items(job'[p]) /\ Items(job'[p]) \subseteq N \cup Items(job[p])
  BY <1>2
<1>9. \A u \in Tasks \ dropped' : /\ \A it \in R : Carries(it, u) => NoteIsOnItsWay(u)'
                                  /\ task'[u].state = "DONE" /\ task[u].state # "DONE" => NoteIsOnItsWay(u)'
  BY <1>1
<1> HIDE DEF R, N
<1>10. \A it \in N : ItemFits(it)'
  BY DEF N
<1>11. JobsStep(p, R, N)
  BY <1>2, <1>8, <1>10 DEF JobsStep
<1>12. RowsStep
  BY <1>5 DEF RowsStep
<1>13. NotesStep(R)
  BY <1>7, <1>9 DEF NotesStep
<1> QED BY <1>3, <1>4, <1>6, <1>11, <1>12, <1>13, StepHolds

(* A task that is done is reported by the item that loads it next. *)
LEMMA LoadsTheNote ==
  ASSUME NEW p \in Procs, NEW t \in Tasks, job'[p] = <<Load("complete", t)>>
  PROVE  NoteIsOnItsWay(t)'
<1>1. 1 \in DOMAIN job'[p] /\ job'[p][1] = Load("complete", t)
  OBVIOUS
<1>2. Load("complete", t).task = t /\ Load("complete", t).do = "complete"
  BY LoadIs DEF Loads
<1>3. job'[p][1].task = t /\ job'[p][1].do = "complete"
  BY <1>1, <1>2
<1> QED BY <1>1, <1>3 DEF NoteIsOnItsWay

(* A new job of one item to load. *)
LEMMA OneLoad ==
  ASSUME NEW do \in Loads, NEW t \in Tasks, do = "complete" => task'[t].state = "DONE"
  PROVE  <<Load(do, t)>> \in Seq(Item) /\ \A it \in Items(<<Load(do, t)>>) : ItemFits(it)'
<1>1. Load(do, t) \in Item /\ ItemFits(Load(do, t))'
  BY LoadIs, LoadFits
<1>2. <<Load(do, t)>> \in Seq(Item) /\ Items(<<Load(do, t)>>) = {Load(do, t)}
  BY <1>1, OneItem
<1> QED BY <1>1, <1>2

LEMMA RowOfTask ==
  ASSUME OInv, NEW t \in Tasks, NEW state \in {"NONE", "PENDING", "DONE", "SKIPPED"}
  PROVE  /\ [task[t] EXCEPT !.state = state] \in TaskRow
         /\ [task[t] EXCEPT !.state = state].state = state
         /\ [task[t] EXCEPT !.state = state].mirror = task[t].mirror
         /\ [task[t] EXCEPT !.state = state].noted = task[t].noted
         /\ [task EXCEPT ![t].state = state] = [task EXCEPT ![t] = [task[t] EXCEPT !.state = state]]
BY DEF OInv, TypeOK, TaskRow

LEMMA GenerateHolds ==
  ASSUME OInv, NEW p \in Procs, NEW t \in Tasks, Generate(p, t)
  PROVE  OInv'
<1> PICK row : row = [task[t] EXCEPT !.state = "PENDING"]
  OBVIOUS
<1>1. /\ row \in TaskRow /\ row.state = "PENDING" /\ row.mirror = task[t].mirror /\ row.noted = task[t].noted
      /\ task' = [task EXCEPT ![t] = row]
  BY RowOfTask DEF Generate
<1>2. /\ <<Load("create", t)>> \in Seq(Item)
      /\ \A it \in Items(<<Load("create", t)>>) : ItemFits(it)'
  BY OneLoad DEF Loads
<1>3. Start(p, <<Load("create", t)>>) /\ task[t].state # "DONE"
      /\ UNCHANGED <<crm, notes, write, dropped, events, worked, mishaps>>
  BY DEF Generate
<1>4. worked' \subseteq Tasks /\ mishaps' \in 0 .. MaxMishaps
  BY <1>3 DEF OInv, TypeOK
<1> QED BY <1>1, <1>2, <1>3, <1>4, TaskStarts

LEMMA SkipHolds ==
  ASSUME OInv, NEW p \in Procs, NEW t \in Tasks, Skip(p, t)
  PROVE  OInv'
<1> PICK row : row = [task[t] EXCEPT !.state = "SKIPPED"]
  OBVIOUS
<1>1. /\ row \in TaskRow /\ row.state = "SKIPPED" /\ row.mirror = task[t].mirror /\ row.noted = task[t].noted
      /\ task' = [task EXCEPT ![t] = row]
  BY RowOfTask DEF Skip
<1>2. /\ <<Load("resolve", t)>> \in Seq(Item)
      /\ \A it \in Items(<<Load("resolve", t)>>) : ItemFits(it)'
  BY OneLoad DEF Loads
<1>3. Start(p, <<Load("resolve", t)>>) /\ task[t].state # "DONE"
      /\ UNCHANGED <<crm, notes, write, dropped, events, worked, mishaps>>
  BY DEF Skip
<1>4. worked' \subseteq Tasks /\ mishaps' \in 0 .. MaxMishaps
  BY <1>3 DEF OInv, TypeOK
<1> QED BY <1>1, <1>2, <1>3, <1>4, TaskStarts

LEMMA CompleteHolds ==
  ASSUME OInv, NEW p \in Procs, NEW t \in Tasks, Complete(p, t)
  PROVE  OInv'
<1> PICK row : row = [task[t] EXCEPT !.state = "DONE"]
  OBVIOUS
<1>1. /\ row \in TaskRow /\ row.state = "DONE" /\ row.mirror = task[t].mirror /\ row.noted = task[t].noted
      /\ task' = [task EXCEPT ![t] = row]
  BY RowOfTask DEF Complete
<1>2. task'[t].state = "DONE"
  BY <1>1 DEF OInv, TypeOK
<1>3. /\ <<Load("complete", t)>> \in Seq(Item)
      /\ \A it \in Items(<<Load("complete", t)>>) : ItemFits(it)'
  BY <1>2, OneLoad DEF Loads
<1>4. Start(p, <<Load("complete", t)>>) /\ task[t].state # "DONE" /\ worked' = worked \cup {t}
      /\ UNCHANGED <<crm, notes, write, dropped, events, mishaps>>
  BY DEF Complete
<1>5. worked' \subseteq Tasks /\ mishaps' \in 0 .. MaxMishaps
  BY <1>4 DEF OInv, TypeOK
<1>6. NoteIsOnItsWay(t)'
  BY <1>3, <1>4, Started, LoadsTheNote DEF OInv
<1> QED BY <1>1, <1>3, <1>4, <1>5, <1>6, TaskStarts

LEMMA DelegateHolds ==
  ASSUME OInv, NEW p \in Procs, NEW t \in Tasks, Delegate(p, t)
  PROVE  OInv'
<1> PICK row, i : row = [task[t] EXCEPT !.mirror = Nil] /\ i = task[t].mirror
  OBVIOUS
<1>1. row \in TaskRow /\ row.state = task[t].state /\ row.mirror = Nil /\ row.noted = task[t].noted
  BY DEF OInv, TypeOK, TaskRow
<1>2. task' = [task EXCEPT ![t] = row]
  BY DEF Delegate, OInv, TypeOK, TaskRow
<1> DEFINE old   == IF i = Nil THEN <<>> ELSE <<SendNow("retireTask", t, i)>>
           items == old \o <<Load("create", t)>>
<1>3. /\ Start(p, items) /\ task[t].state = "PENDING" /\ mishaps' \in 0 .. MaxMishaps
      /\ UNCHANGED <<crm, notes, write, dropped, events, worked>>
  BY OutboxAssumption DEF Delegate, Mishap, OInv, TypeOK
<1>4. /\ <<Load("create", t)>> \in Seq(Item)
      /\ \A it \in Items(<<Load("create", t)>>) : ItemFits(it)'
  BY OneLoad DEF Loads
<1>5. old \in Seq(Item) /\ \A it \in Items(old) : ItemFits(it)'
  <2>1. CASE i = Nil
    BY <2>1, NoItems, EmptySeq
  <2>2. CASE i # Nil
    <3>1. i \in Ids /\ crm'[i].of = t
      BY <1>3, <2>2 DEF OInv, TypeOK, TaskRow, TaskFits
    <3>2. "retireTask" \in Ops
      BY DEF Ops
    <3>3. SendNow("retireTask", t, i) \in Item /\ ItemFits(SendNow("retireTask", t, i))'
      BY <3>1, <3>2, SendIs, SendFits
    <3> QED BY <2>2, <3>3, OneItem
  <2> QED BY <2>1, <2>2
<1> HIDE DEF old
<1>6. items \in Seq(Item) /\ \A it \in Items(items) : ItemFits(it)'
  <2>1. \A u \in Seq(Item) : old \o u \in Seq(Item) /\ Items(old \o u) = Items(old) \cup Items(u)
    BY <1>5, ItemsJoined
  <2> QED BY <1>4, <1>5, <2>1
<1>7. worked' \subseteq Tasks
  BY <1>3 DEF OInv, TypeOK
<1> HIDE DEF items
<1> QED BY <1>1, <1>2, <1>3, <1>6, <1>7, TaskStarts

-----------------------------------------------------------------------------
(* Steps of no process: Twenty, time, and the admin. *)

LEMMA NobodysHolds ==
  ASSUME OInv, Grows, TypeOK', UNCHANGED <<job, notes>>,
         \A w \in WriteIds : write'[w] = write[w] \/ WriteFits(w)',
         \A t \in Tasks : task'[t] = task[t] \/ (TaskFits(t)' /\ task'[t].state = task[t].state),
         \A i \in Ids : crm'[i] = crm[i] \/ CrmFits(i)',
         \A w \in WriteIds, t \in Tasks : WaitsIn(w, t) => WaitsIn(w, t)',
         WorkFits'
  PROVE  OInv'
<1> DEFINE p == CHOOSE p : p \notin Procs
           N == {}
<1>1. p \notin Procs
  BY NoSetContainsEverything
<1>2. \A it \in N : ItemFits(it)'
  OBVIOUS
<1>3. \A t \in Tasks \ dropped' : /\ \A it \in N : Carries(it, t) => NoteIsOnItsWay(t)'
                                  /\ task'[t].state = "DONE" /\ task[t].state # "DONE" => NoteIsOnItsWay(t)'
  OBVIOUS
<1> HIDE DEF p, N
<1>4. JobsStep(p, N, N)
  BY <1>1, <1>2 DEF JobsStep
<1>5. RowsStep
  BY DEF RowsStep
<1>6. NotesStep(N)
  BY <1>3 DEF NotesStep
<1> QED BY <1>4, <1>5, <1>6, StepHolds

LEMMA LeaseHolds ==
  ASSUME OInv, NEW w \in WriteIds, LeasePasses(w)
  PROVE  OInv'
<1>1. /\ write[w].status = "RETRYING" /\ write' = [write EXCEPT ![w].overdue = TRUE]
      /\ UNCHANGED <<task, crm, notes, job, events, worked, dropped>> /\ mishaps' \in 0 .. MaxMishaps
  BY OutboxAssumption DEF LeasePasses, Mishap, OInv, TypeOK
<1>2. /\ write' \in [WriteIds -> WriteRow]
      /\ \A v \in WriteIds : /\ write'[v].op = write[v].op /\ write'[v].task = write[v].task
                             /\ write'[v].id = write[v].id /\ write'[v].status = write[v].status
  BY <1>1 DEF OInv, TypeOK, WriteRow
<1>3. TypeOK' /\ Grows
  BY <1>1, <1>2 DEF OInv, TypeOK, Grows
<1>4. \A v \in WriteIds : WriteFits(v)'
  BY <1>1, <1>2 DEF OInv, WriteFits
<1>5. WorkFits'
  BY <1>1 DEF OInv, WorkFits
<1>6. \A v \in WriteIds, t \in Tasks : WaitsIn(v, t) => WaitsIn(v, t)'
  BY <1>2 DEF WaitsIn
<1> QED BY <1>1, <1>3, <1>4, <1>5, <1>6, NobodysHolds

LEMMA DiscardHolds ==
  ASSUME OInv, NEW w \in WriteIds, Discard(w)
  PROVE  OInv'
<1>1. /\ write[w].status \in Replayable /\ write' = [write EXCEPT ![w].status = "DISCARDED"]
      /\ UNCHANGED <<task, crm, notes, job, events, worked, dropped, mishaps>>
  BY DEF Discard
<1>2. /\ write' \in [WriteIds -> WriteRow] /\ write'[w].status = "DISCARDED"
      /\ \A v \in WriteIds : /\ write'[v].op = write[v].op /\ write'[v].task = write[v].task
                             /\ write'[v].id = write[v].id
                             /\ v # w => write'[v].status = write[v].status
  BY <1>1 DEF OInv, TypeOK, WriteRow
<1>3. TypeOK' /\ Grows
  BY <1>1, <1>2 DEF OInv, TypeOK, Grows
<1>4. \A v \in WriteIds : WriteFits(v)'
  BY <1>1, <1>2 DEF OInv, WriteFits, Replayable
<1>5. WorkFits'
  BY <1>1 DEF OInv, WorkFits
<1>6. \A v \in WriteIds, t \in Tasks : WaitsIn(v, t) => WaitsIn(v, t)'
  BY <1>2 DEF WaitsIn
<1> QED BY <1>1, <1>3, <1>4, <1>5, <1>6, NobodysHolds

LEMMA InTwentyHolds ==
  ASSUME OInv, NEW i \in Ids, MarkDone(i) \/ DeleteInTwenty(i)
  PROVE  OInv'
<1>1. /\ crm[i].status \in {"TODO", "DONE"} /\ UNCHANGED <<task, notes, write, job, dropped, mishaps>>
      /\ \/ /\ crm' = [crm EXCEPT ![i].status = "DONE"] /\ events' = events \cup {<<i, "DONE">>}
            /\ worked' = worked \cup {crm[i].of}
         \/ /\ crm' = [crm EXCEPT ![i].status = "deleted"] /\ events' = events \cup {<<i, "deleted">>}
            /\ worked' = worked
  BY DEF MarkDone, DeleteInTwenty, Live
<1>2. crm \in [Ids -> CrmTask] /\ crm[i].of \in Tasks
  BY <1>1 DEF OInv, TypeOK, CrmFits, CrmTask
<1>3. /\ crm' \in [Ids -> CrmTask] /\ crm'[i].status # "absent"
      /\ \A j \in Ids : crm'[j].of = crm[j].of /\ (j # i => crm'[j] = crm[j])
  BY <1>1, <1>2 DEF CrmTask
<1>4. events' \subseteq Ids \X {"DONE", "deleted"} /\ worked \subseteq worked' /\ worked' \subseteq Tasks
  BY <1>1, <1>2 DEF OInv, TypeOK
<1>5. TypeOK' /\ Grows
  BY <1>1, <1>3, <1>4 DEF OInv, TypeOK, Grows
<1>6. CrmFits(i)'
  BY <1>2, <1>3, Basics DEF CrmFits
<1>7. WorkFits'
  <2>1. \A j \in Ids : <<j, "DONE">> \in events' => <<j, "DONE">> \in events \/ crm[j].of \in worked'
    BY <1>1
  <2> QED BY <1>1, <1>3, <1>4, <2>1 DEF OInv, WorkFits
<1>8. \A v \in WriteIds, t \in Tasks : WaitsIn(v, t) => WaitsIn(v, t)'
  BY <1>1 DEF WaitsIn
<1> QED BY <1>1, <1>3, <1>5, <1>6, <1>7, <1>8, NobodysHolds

LEMMA DeletedEventHolds ==
  ASSUME OInv, NEW i \in Ids, DeletedEvent(i)
  PROVE  OInv'
<1>1. /\ events' \subseteq events /\ UNCHANGED <<crm, notes, write, job, worked, dropped, mishaps>>
      /\ task' = [t \in Tasks |-> IF task[t].mirror = i /\ task[t].state = "PENDING"
                                    THEN [task[t] EXCEPT !.mirror = Nil] ELSE task[t]]
  BY DEF DeletedEvent
<1>2. ASSUME NEW t \in Tasks
      PROVE  /\ task'[t] \in TaskRow /\ task'[t].state = task[t].state /\ task'[t].noted = task[t].noted
             /\ task'[t].mirror \in {Nil, task[t].mirror}
  BY <1>1 DEF OInv, TypeOK, TaskRow
<1>3. task' \in [Tasks -> TaskRow]
  BY <1>1, <1>2
<1>4. TypeOK' /\ Grows
  BY <1>1, <1>2, <1>3 DEF OInv, TypeOK, Grows
<1>5. \A t \in Tasks : TaskFits(t)'
  BY <1>1, <1>2 DEF OInv, TaskFits
<1>6. WorkFits'
  BY <1>1, <1>2 DEF OInv, WorkFits
<1>7. \A v \in WriteIds, t \in Tasks : WaitsIn(v, t) => WaitsIn(v, t)'
  BY <1>1 DEF WaitsIn
<1> QED BY <1>1, <1>2, <1>4, <1>5, <1>6, <1>7, NobodysHolds

LEMMA TaskEventHolds ==
  ASSUME OInv, NEW p \in Procs, NEW i \in Ids, TaskEvent(p, i)
  PROVE  OInv'
<1>1. /\ <<i, "DONE">> \in events /\ events' \subseteq events
      /\ UNCHANGED <<crm, notes, write, worked, dropped, mishaps>>
  BY DEF TaskEvent
<1>2. worked' \subseteq Tasks /\ mishaps' \in 0 .. MaxMishaps
  BY <1>1 DEF OInv, TypeOK
<1>3. CASE UNCHANGED <<task, job>>
  <2>1. TypeOK' /\ Grows /\ WorkFits'
    BY <1>1, <1>3 DEF OInv, TypeOK, Grows, WorkFits
  <2>2. \A v \in WriteIds, t \in Tasks : WaitsIn(v, t) => WaitsIn(v, t)'
    BY <1>1 DEF WaitsIn
  <2> QED BY <1>1, <1>3, <2>1, <2>2, NobodysHolds
<1>4. ASSUME NEW t \in Mirrors(i), task[t].state = "PENDING", task' = [task EXCEPT ![t].state = "DONE"],
             Start(p, <<Load("complete", t)>>)
      PROVE  OInv'
  <2> PICK row : row = [task[t] EXCEPT !.state = "DONE"]
    OBVIOUS
  <2>1. t \in Tasks /\ crm[i].of = t
    <3>1. t \in Tasks /\ (task[t].mirror = i \/ crm[i].of = t)
      BY <1>4 DEF Mirrors
    <3>2. task[t].mirror = i => crm[i].of = t
      BY <3>1, Basics DEF OInv, TaskFits
    <3> QED BY <3>1, <3>2
  <2>2. /\ row \in TaskRow /\ row.state = "DONE" /\ row.mirror = task[t].mirror /\ row.noted = task[t].noted
        /\ task' = [task EXCEPT ![t] = row]
    BY <1>4, <2>1, RowOfTask
  <2>3. task'[t].state = "DONE"
    BY <2>1, <2>2 DEF OInv, TypeOK
  <2>4. /\ <<Load("complete", t)>> \in Seq(Item)
        /\ \A it \in Items(<<Load("complete", t)>>) : ItemFits(it)'
    BY <2>1, <2>3, OneLoad DEF Loads
  <2>5. NoteIsOnItsWay(t)'
    BY <1>4, <2>1, <2>4, Started, LoadsTheNote DEF OInv
  <2>6. RemoveOnSkip => t \in worked'
    BY <1>1, <2>1 DEF OInv, WorkFits
  <2>7. task[t].state # "DONE" /\ worked \subseteq worked'
    BY <1>1, <1>4
  <2>8. row.mirror \in {Nil, task[t].mirror} /\ UNCHANGED <<crm, notes, write, dropped>>
    BY <1>1, <2>2
  <2>9. Start(p, <<Load("complete", t)>>)
    BY <1>4
  <2> QED BY <1>1, <1>2, <2>1, <2>2, <2>4, <2>5, <2>6, <2>7, <2>8, <2>9, TaskStarts
<1> QED BY <1>3, <1>4 DEF TaskEvent

-----------------------------------------------------------------------------
(* A process goes on with its job: the item it is at is the job's head.    *)

LEMMA AtHead ==
  ASSUME OInv, NEW p \in Procs, ~ Idle(p)
  PROVE  /\ TypeOK /\ Head(job[p]) \in Item /\ Head(job[p]) \in Items(job[p]) /\ ItemFits(Head(job[p]))
<1>1. TypeOK /\ job[p] \in Seq(Item) /\ job[p] # <<>>
  BY DEF OInv, TypeOK, Idle
<1>2. Head(job[p]) \in Item /\ Items(job[p]) = {Head(job[p])} \cup Items(Tail(job[p]))
  BY <1>1, HeadItem
<1> QED BY <1>1, <1>2 DEF OInv

LEMMA NoteInJob ==
  ASSUME NEW p \in Procs, NEW t, NEW it \in Items(job'[p]), Carries(it, t)
  PROVE  NoteIsOnItsWay(t)'
BY DEF Items, Carries, NoteIsOnItsWay

LEMMA NoteInRow ==
  ASSUME NEW w \in WriteIds, NEW t, WaitsIn(w, t)'
  PROVE  NoteIsOnItsWay(t)'
BY DEF WaitsIn, NoteIsOnItsWay

(* The step of a process that is at the item h. *)
LEMMA HeadHolds ==
  ASSUME OInv, Grows, NEW p \in Procs, ~ Idle(p), NEW h, h = Head(job[p]), NEW new \in Seq(Item),
         job' = [job EXCEPT ![p] = new \o Tail(@)] \/ (new = <<>> /\ job' = [job EXCEPT ![p] = Tail(@)]),
         job' \in [Procs -> Seq(Item)] => TypeOK',
         \A it \in Items(new) : ItemFits(it)',
         \A w \in WriteIds : write'[w] = write[w] \/ WriteFits(w)',
         \A t \in Tasks : task'[t] = task[t] \/ (TaskFits(t)' /\ task'[t].state = task[t].state),
         \A i \in Ids : crm'[i] = crm[i] \/ CrmFits(i)',
         \A t \in Tasks \ dropped' : Carries(h, t) => NoteIsOnItsWay(t)' \/ \E it \in Items(new) : Carries(it, t),
         \A w \in WriteIds, t \in Tasks : WaitsIn(w, t) => WaitsIn(w, t)' \/ notes'[t] > 0,
         WorkFits'
  PROVE  OInv'
<1>1. /\ job' \in [Procs -> Seq(Item)] /\ \A q \in Procs : q # p => job'[q] = job[q]
      /\ Items(job[p]) \subseteq {h} \cup Items(job'[p])
      /\ Items(job'[p]) \subseteq Items(new) \cup Items(job[p])
      /\ Items(new) \subseteq Items(job'[p])
  BY AtHead, WentOn
<1>2. TypeOK'
  BY <1>1
<1> DEFINE R == {h}
           N == Items(new)
<1>3. \A t \in Tasks \ dropped' : /\ \A it \in R : Carries(it, t) => NoteIsOnItsWay(t)'
                                  /\ task'[t].state = "DONE" /\ task[t].state # "DONE" => NoteIsOnItsWay(t)'
  <2>1. ASSUME NEW t \in Tasks \ dropped', Carries(h, t) PROVE NoteIsOnItsWay(t)'
    BY <1>1, <2>1, NoteInJob
  <2> QED BY <2>1
<1>4. /\ Items(job[p]) \subseteq R \cup Items(job'[p]) /\ Items(job'[p]) \subseteq N \cup Items(job[p])
      /\ \A it \in N : ItemFits(it)'
  BY <1>1
<1> HIDE DEF R, N
<1>5. JobsStep(p, R, N)
  BY <1>1, <1>4 DEF JobsStep
<1>6. RowsStep
  BY DEF RowsStep
<1>7. NotesStep(R)
  BY <1>3 DEF NotesStep
<1> QED BY <1>2, <1>5, <1>6, <1>7, StepHolds

LEMMA SendsIs ==
  ASSUME OInv, NEW h \in Item, ItemFits(h), h.do \in Loads, UNCHANGED <<task, crm>>
  PROVE  /\ SendsFor(h) \in Seq(Item) /\ \A it \in Items(SendsFor(h)) : ItemFits(it)'
         /\ h.do = "complete" => \/ task[h.task].noted
                                 \/ \E it \in Items(SendsFor(h)) : it.op = "createNote" /\ it.task = h.task
<1> PICK t, i : t = h.task /\ i = task[t].mirror
  OBVIOUS
<1>1. t \in Tasks /\ i \in Ids \cup {Nil} /\ (i # Nil => i \in Ids /\ crm'[i].of = t)
  BY DEF OInv, TypeOK, TaskRow, TaskFits, Item
<1>2. <<>> \in Seq(Item) /\ Items(<<>>) = {}
  BY NoItems, EmptySeq
<1>3. ASSUME NEW op \in Ops, NEW id \in Ids \cup {Nil}, op \in Links => i # Nil /\ id = i,
             op = "finishTask" => task[t].state = "DONE"
      PROVE  /\ <<SendNow(op, t, id)>> \in Seq(Item) /\ Items(<<SendNow(op, t, id)>>) = {SendNow(op, t, id)}
             /\ ItemFits(SendNow(op, t, id))' /\ SendNow(op, t, id).op = op /\ SendNow(op, t, id).task = t
  <2>1. /\ SendNow(op, t, id) \in Item /\ ItemFits(SendNow(op, t, id))'
        /\ SendNow(op, t, id).op = op /\ SendNow(op, t, id).task = t
    BY <1>1, <1>3, SendIs, SendFits
  <2> QED BY <2>1, OneItem
<1>4. CASE h.do = "create"
  <2> DEFINE s == <<SendNow("createTask", t, Nil)>>
  <2>1. s \in Seq(Item) /\ \A it \in Items(s) : ItemFits(it)'
    BY <1>1, <1>3 DEF Ops, Links
  <2>2. SendsFor(h) = s \/ SendsFor(h) = <<>>
    BY <1>4 DEF SendsFor
  <2> HIDE DEF s
  <2> QED BY <1>2, <1>4, <2>1, <2>2
<1>5. CASE h.do = "resolve"
  <2> DEFINE s == <<SendNow("retireTask", t, i)>>
  <2>1. i # Nil => s \in Seq(Item) /\ \A it \in Items(s) : ItemFits(it)'
    BY <1>1, <1>3 DEF Ops, Links
  <2>2. SendsFor(h) = IF i = Nil THEN <<>> ELSE s
    BY <1>5 DEF SendsFor
  <2> HIDE DEF s
  <2> QED BY <1>2, <1>5, <2>1, <2>2
<1>6. CASE h.do = "complete"
  <2> DEFINE x == SendNow("createNote", t, Nil)
             s == IF task[t].noted THEN <<>> ELSE <<x>>
             u == IF i = Nil THEN <<>> ELSE <<SendNow("finishTask", t, i)>>
  <2>1. SendsFor(h) = s \o u
    BY <1>6 DEF SendsFor
  <2>2. <<x>> \in Seq(Item) /\ Items(<<x>>) = {x} /\ ItemFits(x)' /\ x.op = "createNote" /\ x.task = t
    BY <1>1, <1>3 DEF Ops, Links
  <2>3. task[t].state = "DONE"
    BY <1>6 DEF ItemFits
  <2>4. i # Nil => /\ <<SendNow("finishTask", t, i)>> \in Seq(Item)
                   /\ \A it \in Items(<<SendNow("finishTask", t, i)>>) : ItemFits(it)'
    BY <1>1, <1>3, <2>3 DEF Ops, Links
  <2>5. u \in Seq(Item) /\ \A it \in Items(u) : ItemFits(it)'
    BY <1>2, <2>4
  <2>6. s \in Seq(Item) /\ (\A it \in Items(s) : ItemFits(it)') /\ (task[t].noted \/ x \in Items(s))
    BY <1>2, <2>2
  <2> HIDE DEF x, s, u
  <2>7. s \o u \in Seq(Item) /\ Items(s \o u) = Items(s) \cup Items(u)
    BY <2>5, <2>6, ItemsJoined
  <2> QED BY <2>1, <2>2, <2>5, <2>6, <2>7
<1> QED BY <1>4, <1>5, <1>6 DEF Loads

LEMMA ReloadHolds ==
  ASSUME OInv, NEW p \in Procs, Reload(p)
  PROVE  OInv'
<1> PICK h, new : h = Head(job[p]) /\ new = SendsFor(h)
  OBVIOUS
<1>1. /\ ~ Idle(p) /\ h.do \in Loads /\ job' = [job EXCEPT ![p] = new \o Tail(@)]
      /\ UNCHANGED <<task, crm, notes, write, events, worked, dropped, mishaps>>
  BY DEF Reload, Loads
<1>2. h \in Item /\ ItemFits(h) /\ TypeOK
  BY <1>1, AtHead
<1>3. /\ new \in Seq(Item) /\ \A it \in Items(new) : ItemFits(it)'
      /\ h.do = "complete" => \/ task[h.task].noted
                              \/ \E it \in Items(new) : it.op = "createNote" /\ it.task = h.task
  BY <1>1, <1>2, SendsIs
<1>4. Grows /\ WorkFits' /\ (job' \in [Procs -> Seq(Item)] => TypeOK')
  BY <1>1, <1>2 DEF OInv, TypeOK, Grows, WorkFits
<1>5. ASSUME NEW t \in Tasks \ dropped', Carries(h, t)
      PROVE  NoteIsOnItsWay(t)' \/ \E it \in Items(new) : Carries(it, t)
  <2>1. h.do = "complete" /\ h.task = t
    BY <1>1, <1>2, <1>5, Basics DEF Carries, ItemFits, Ops
  <2>2. task[t].noted => NoteIsOnItsWay(t)'
    BY <1>1 DEF OInv, TaskFits, NoteIsOnItsWay
  <2> QED BY <1>3, <2>1, <2>2 DEF Carries
<1>6. \A w \in WriteIds, t \in Tasks : WaitsIn(w, t) => WaitsIn(w, t)'
  BY <1>1 DEF WaitsIn
<1> QED BY <1>1, <1>3, <1>4, <1>5, <1>6, HeadHolds

LEMMA CheckHolds ==
  ASSUME OInv, NEW p \in Procs, Check(p)
  PROVE  OInv'
<1> PICK h, do : h = Head(job[p]) /\ do = IF task[h.task].state = "PENDING" /\ task[h.task].mirror = Nil
                                          THEN "send" ELSE "finish"
  OBVIOUS
<1>a. PICK x : x = [h EXCEPT !.do = do]
  OBVIOUS
<1>1. /\ ~ Idle(p) /\ h.do = "check" /\ job' = [job EXCEPT ![p] = <<x>> \o Tail(@)]
      /\ UNCHANGED <<task, crm, notes, write, events, worked, dropped, mishaps>>
  BY <1>a DEF Check
<1>2. h \in Item /\ ItemFits(h) /\ TypeOK
  BY <1>1, AtHead
<1>3. /\ x \in Item /\ x.do = do /\ x.op = h.op /\ x.task = h.task /\ x.id = h.id /\ x.row = h.row
      /\ h.op = "createTask" /\ do \in {"send", "finish"}
  BY <1>a, <1>1, <1>2 DEF Item, ItemFits
<1>4. ItemFits(x)'
  BY <1>1, <1>2, <1>3, Basics DEF ItemFits, Loads, Links, Ops
<1>5. <<x>> \in Seq(Item) /\ \A it \in Items(<<x>>) : ItemFits(it)'
  <2>1. x \in Item
    BY <1>3
  <2>2. <<x>> \in Seq(Item) /\ Items(<<x>>) = {x}
    BY <2>1, OneItem
  <2> QED BY <1>4, <2>2
<1>6. Grows /\ WorkFits' /\ (job' \in [Procs -> Seq(Item)] => TypeOK')
  BY <1>1, <1>2 DEF OInv, TypeOK, Grows, WorkFits
<1>7. \A t \in Tasks \ dropped' : ~ Carries(h, t)
  BY <1>1, <1>3 DEF Carries
<1>8. \A w \in WriteIds, t \in Tasks : WaitsIn(w, t) => WaitsIn(w, t)'
  BY <1>1 DEF WaitsIn
<1> QED BY <1>1, <1>5, <1>6, <1>7, <1>8, HeadHolds

-----------------------------------------------------------------------------
(* What a call does in Twenty, answered or not. *)

CallLands ==
  /\ crm' \in [Ids -> CrmTask] /\ notes' \in [Tasks -> Nat] /\ events' \subseteq Ids \X {"DONE", "deleted"}
  /\ \A i \in Ids : /\ crm'[i] = crm[i] \/ CrmFits(i)'
                    /\ crm[i].of # Nil => crm'[i].of = crm[i].of
  /\ \A t \in Tasks : notes[t] > 0 => notes'[t] > 0
  /\ RemoveOnSkip => \A i \in Ids : <<i, "DONE">> \in events' => crm'[i].of \in worked

LEMMA NothingLands ==
  ASSUME OInv, UNCHANGED <<crm, notes, events>>
  PROVE  CallLands
BY DEF OInv, TypeOK, WorkFits, CallLands

LEMMA EffectLands ==
  ASSUME OInv, NEW h \in Item, ItemFits(h), NEW i \in Ids \cup {Nil}, Effect(h, i)
  PROVE  /\ CallLands
         /\ h.op = "createNote" => notes'[h.task] > 0
         /\ h.op \in Links \cup {"createTask"} => i \in Ids /\ crm'[i].of = h.task
         /\ h.op \in Ops
<1>1. /\ crm \in [Ids -> CrmTask] /\ notes \in [Tasks -> Nat] /\ events \subseteq Ids \X {"DONE", "deleted"}
      /\ h.task \in Tasks
  BY DEF OInv, TypeOK, Item
<1>2. RemoveOnSkip => /\ \A t \in Tasks : task[t].state = "DONE" => t \in worked
                      /\ \A j \in Ids : <<j, "DONE">> \in events => crm[j].of \in worked
  BY DEF OInv, WorkFits
<1>3. CASE h.op = "createNote" /\ i = Nil /\ notes' = [notes EXCEPT ![h.task] = @ + 1] /\ UNCHANGED <<crm, events>>
  <2>1. notes' \in [Tasks -> Nat] /\ notes'[h.task] > 0 /\ \A t \in Tasks : notes[t] > 0 => notes'[t] > 0
    BY <1>1, <1>3
  <2> QED BY <1>1, <1>2, <1>3, <2>1 DEF CallLands, Links, Ops
<1>4. CASE /\ h.op = "createTask" /\ i \in FreeIds /\ crm' = [crm EXCEPT ![i] = [of |-> h.task, status |-> "TODO"]]
           /\ UNCHANGED <<notes, events>>
  <2>1. i \in Ids /\ crm[i].of = Nil
    BY <1>4 DEF FreeIds, OInv, CrmFits
  <2>2. /\ crm' \in [Ids -> CrmTask] /\ crm'[i].of = h.task /\ crm'[i].status = "TODO"
        /\ \A j \in Ids : j # i => crm'[j] = crm[j]
    BY <1>1, <1>4, <2>1 DEF CrmTask
  <2>3. CrmFits(i)'
    BY <1>1, <2>2, Basics DEF CrmFits
  <2>4. RemoveOnSkip => \A j \in Ids : <<j, "DONE">> \in events' => crm'[j].of \in worked
    <3> SUFFICES ASSUME RemoveOnSkip, NEW j \in Ids, <<j, "DONE">> \in events PROVE crm'[j].of \in worked
      BY <1>4
    <3>1. crm[j].of \in worked /\ worked \subseteq Tasks
      BY <1>2 DEF OInv, TypeOK
    <3>2. j # i
      BY <2>1, <3>1, Basics
    <3> QED BY <2>2, <3>1, <3>2
  <2>5. CallLands
    BY <1>1, <1>4, <2>1, <2>2, <2>3, <2>4 DEF CallLands
  <2> QED BY <1>4, <2>1, <2>2, <2>5 DEF Links, Ops
<1>5. CASE /\ h.op \in {"finishTask", "retireTask"} /\ i = h.id /\ Live(i) /\ crm' = AfterCall(h.op, i)
           /\ events' = events \cup {<<i, crm'[i].status>>} /\ UNCHANGED notes
  <2>1. i \in Ids /\ crm[i].of = h.task /\ crm[i].status # "absent"
    BY <1>5 DEF ItemFits, Links, Live
  <2>2. /\ crm' \in [Ids -> CrmTask] /\ crm'[i].of = h.task
        /\ crm'[i].status = IF h.op = "retireTask" /\ RemoveOnSkip THEN "deleted" ELSE "DONE"
        /\ \A j \in Ids : j # i => crm'[j] = crm[j]
    BY <1>1, <1>5, <2>1 DEF AfterCall, CrmTask
  <2>3. CrmFits(i)' /\ events' \subseteq Ids \X {"DONE", "deleted"}
    BY <1>1, <1>5, <2>1, <2>2, Basics DEF CrmFits
  <2>4. ASSUME RemoveOnSkip, NEW j \in Ids, <<j, "DONE">> \in events' PROVE crm'[j].of \in worked
    <3>1. CASE <<j, "DONE">> \in events
      BY <1>2, <2>1, <2>2, <2>4, <3>1
    <3>2. CASE j = i /\ crm'[i].status = "DONE"
      <4>1. h.op = "finishTask"
        BY <1>5, <2>2, <2>4, <3>2
      <4>2. task[h.task].state = "DONE"
        BY <4>1 DEF ItemFits
      <4> QED BY <1>1, <1>2, <2>2, <2>4, <3>2, <4>2
    <3> QED BY <1>5, <2>4, <3>1, <3>2
  <2>5. CallLands
    BY <1>1, <1>5, <2>1, <2>2, <2>3, <2>4 DEF CallLands
  <2> QED BY <1>5, <2>1, <2>2, <2>5 DEF Ops
<1> QED BY <1>3, <1>4, <1>5 DEF Effect

LEMMA AnsweredHolds ==
  ASSUME OInv, NEW p \in Procs, Answered(p)
  PROVE  OInv'
<1> PICK h : h = Head(job[p])
  OBVIOUS
<1>1. PICK i \in Ids \cup {Nil} :
        /\ Effect(h, i)
        /\ job' = [job EXCEPT ![p] = <<[h EXCEPT !.do = "store", !.id = i]>> \o Tail(@)]
  BY DEF Answered
<1> PICK x : x = [h EXCEPT !.do = "store", !.id = i]
  OBVIOUS
<1>2. ~ Idle(p) /\ h.do = "send" /\ UNCHANGED <<task, write, worked, dropped, mishaps>>
  BY DEF Answered, Sending
<1>3. h \in Item /\ ItemFits(h) /\ TypeOK
  BY <1>2, AtHead
<1>4. /\ CallLands /\ (h.op = "createNote" => notes'[h.task] > 0) /\ h.op \in Ops
      /\ (h.op \in Links \cup {"createTask"} => i \in Ids /\ crm'[i].of = h.task)
  BY <1>1, <1>3, EffectLands
<1>5. x \in Item /\ x.do = "store" /\ x.op = h.op /\ x.task = h.task /\ x.id = i /\ x.row = h.row
  BY <1>3 DEF Item
<1>6. ItemFits(x)'
  BY <1>2, <1>3, <1>4, <1>5, Basics DEF ItemFits, Loads
<1>7. <<x>> \in Seq(Item) /\ \A it \in Items(<<x>>) : ItemFits(it)'
  BY <1>5, <1>6, OneItem
<1>8. Grows /\ WorkFits' /\ (job' \in [Procs -> Seq(Item)] => TypeOK')
  BY <1>2, <1>3, <1>4 DEF OInv, TypeOK, Grows, WorkFits, CallLands
<1>9. \A t \in Tasks \ dropped' : Carries(h, t) => NoteIsOnItsWay(t)'
  BY <1>2, <1>4 DEF Carries, NoteIsOnItsWay
<1>10. \A w \in WriteIds, t \in Tasks : WaitsIn(w, t) => WaitsIn(w, t)'
  BY <1>2 DEF WaitsIn
<1>11. \A j \in Ids : crm'[j] = crm[j] \/ CrmFits(j)'
  BY <1>4 DEF CallLands
<1> QED BY <1>1, <1>2, <1>7, <1>8, <1>9, <1>10, <1>11, HeadHolds

(* A call that failed is kept, or put back. *)
LEMMA FailedHolds ==
  ASSUME OInv, NEW p \in Procs, Sending(p), Failed(p), CallLands, UNCHANGED <<task, worked, dropped>>,
         mishaps' \in 0 .. MaxMishaps
  PROVE  OInv'
<1> PICK h, r : h = Head(job[p]) /\ r = h.row
  OBVIOUS
<1>1. ~ Idle(p) /\ h.do = "send" /\ job' = [job EXCEPT ![p] = Tail(@)]
  BY DEF Sending, Failed
<1>2. h \in Item /\ ItemFits(h) /\ TypeOK /\ write \in [WriteIds -> WriteRow] /\ h.op # Nil
  BY <1>1, AtHead DEF TypeOK, ItemFits, Loads
<1>3. h.op \in Ops /\ h.task \in Tasks /\ h.id \in Ids \cup {Nil}
  BY <1>2 DEF Item
<1>4. /\ write' \in [WriteIds -> WriteRow]
      /\ \A w \in WriteIds : /\ write[w].op # Nil => write'[w].op = write[w].op /\ write'[w].task = write[w].task
                             /\ write[w].status # "OK" => write'[w].status # "OK"
                             /\ write'[w] = write[w] \/ WriteFits(w)'
      /\ h.op = "createNote" => notes'[h.task] > 0 \/ \E w \in WriteIds : WaitsIn(w, h.task)'
  <2>1. CASE r = 0
    <3>1. PICK w \in WriteIds : write[w].status = "NONE" /\ write' = Keep(h, w)
      BY <2>1 DEF Failed
    <3> PICK row : row = [op |-> h.op, task |-> h.task, id |-> h.id, status |-> "FAILED", overdue |-> FALSE]
      OBVIOUS
    <3>2. /\ row \in WriteRow /\ row.op = h.op /\ row.task = h.task /\ row.id = h.id /\ row.status = "FAILED"
      BY <1>3 DEF WriteRow, Replayable
    <3>3. /\ write' \in [WriteIds -> WriteRow] /\ write'[w] = row
          /\ \A v \in WriteIds : v # w => write'[v] = write[v]
      BY <1>2, <3>1, <3>2 DEF Keep
    <3>4. write[w].op = Nil
      BY <3>1 DEF OInv, WriteFits
    <3>5. WriteFits(w)'
      <4>1. h.op \in Links => h.id \in Ids /\ crm'[h.id].of = h.task
        BY <1>2, <1>3, Basics DEF ItemFits, CallLands
      <4>2. h.op = "finishTask" => task'[h.task].state = "DONE"
        BY <1>2 DEF ItemFits
      <4> QED BY <1>2, <1>3, <3>2, <3>3, <4>1, <4>2 DEF WriteFits
    <3>6. h.op = "createNote" => WaitsIn(w, h.task)'
      BY <3>2, <3>3 DEF WaitsIn
    <3> QED BY <3>2, <3>3, <3>4, <3>5, <3>6
  <2>2. CASE r # 0
    <3>1. r \in WriteIds /\ write[r].op = h.op /\ write[r].task = h.task /\ write' = PutBack(r)
      BY <1>2, <2>2, Basics DEF Failed, ItemFits, Item
    <3>2. /\ write' \in [WriteIds -> WriteRow] /\ \A v \in WriteIds : v # r => write'[v] = write[v]
          /\ write'[r].op = h.op /\ write'[r].task = h.task /\ write'[r].id = write[r].id
          /\ write[r].status \in Replayable => write'[r].status = "FAILED"
          /\ write[r].status \notin Replayable => write'[r] = write[r]
      <4>1. CASE write[r].status \notin Replayable
        BY <1>2, <3>1, <4>1 DEF PutBack
      <4>2. CASE write[r].status \in Replayable
        <5> DEFINE row == [write[r] EXCEPT !.status = "FAILED", !.overdue = FALSE]
        <5>1. write' = [write EXCEPT ![r] = row]
          BY <1>2, <3>1, <4>2 DEF PutBack
        <5>2. row \in WriteRow /\ row.op = h.op /\ row.task = h.task /\ row.id = write[r].id /\ row.status = "FAILED"
          BY <1>2, <3>1 DEF WriteRow, Replayable
        <5> HIDE DEF row
        <5> QED BY <1>2, <3>1, <4>2, <5>1, <5>2
      <4> QED BY <4>1, <4>2
    <3>3. WriteFits(r)
      BY <3>1 DEF OInv
    <3>4. write'[r] = write[r] \/ WriteFits(r)'
      <4> SUFFICES ASSUME write[r].status \in Replayable PROVE WriteFits(r)'
        BY <3>2
      <4>1. h.op \in Links => write[r].id \in Ids /\ crm'[write[r].id].of = h.task
        BY <1>3, <3>1, <3>3, Basics DEF WriteFits, CallLands
      <4>2. h.op = "finishTask" => task'[h.task].state = "DONE"
        BY <1>2 DEF ItemFits
      <4> QED BY <1>2, <1>3, <3>1, <3>2, <4>1, <4>2 DEF WriteFits
    <3>5. h.op = "createNote" => notes'[h.task] > 0 \/ WaitsIn(r, h.task)'
      <4>1. h.op = "createNote" /\ write[r].status = "OK" => notes'[h.task] > 0
        BY <1>3, <3>1, <3>3 DEF WriteFits, CallLands
      <4>2. write[r].status # "OK" => write'[r].status # "OK"
        BY <3>2
      <4> QED BY <3>2, <4>1, <4>2 DEF WaitsIn
    <3>6. write[r].status # "OK" => write'[r].status # "OK"
      BY <3>2
    <3> QED BY <3>1, <3>2, <3>4, <3>5, <3>6
  <2> QED BY <2>1, <2>2
<1>5. Grows
  BY <1>4 DEF Grows, CallLands
<1>6. WorkFits' /\ (job' \in [Procs -> Seq(Item)] => TypeOK')
  BY <1>2, <1>4 DEF OInv, TypeOK, WorkFits, CallLands
<1>7. ASSUME NEW t \in Tasks \ dropped', Carries(h, t) PROVE NoteIsOnItsWay(t)'
  <2>1. h.op = "createNote" /\ h.task = t
    BY <1>1, <1>7 DEF Carries
  <2>2. notes'[t] > 0 => NoteIsOnItsWay(t)'
    BY DEF NoteIsOnItsWay
  <2> QED BY <1>4, <2>1, <2>2, NoteInRow
<1>8. \A w \in WriteIds, t \in Tasks : WaitsIn(w, t) => WaitsIn(w, t)'
  <2>1. "createNote" # Nil
    BY Basics DEF Ops
  <2> QED BY <1>4, <2>1 DEF WaitsIn
<1>9. \A i \in Ids : crm'[i] = crm[i] \/ CrmFits(i)'
  BY DEF CallLands
<1> DEFINE new == <<>>
<1>10. new \in Seq(Item) /\ new = <<>> /\ \A it \in Items(new) : ItemFits(it)'
  BY NoItems, EmptySeq
<1> HIDE DEF new
<1> QED BY <1>1, <1>4, <1>5, <1>6, <1>7, <1>8, <1>9, <1>10, HeadHolds

LEMMA RefusedHolds ==
  ASSUME OInv, NEW p \in Procs, Refused(p)
  PROVE  OInv'
<1>1. mishaps' \in 0 .. MaxMishaps
  BY DEF Refused, OInv, TypeOK
<1> QED BY <1>1, NothingLands, FailedHolds DEF Refused

LEMMA TimedOutHolds ==
  ASSUME OInv, NEW p \in Procs, TimedOut(p)
  PROVE  OInv'
<1> PICK h : h = Head(job[p])
  OBVIOUS
<1>1. ~ Idle(p) /\ Sending(p) /\ Failed(p) /\ UNCHANGED <<task, worked, dropped>>
  BY DEF TimedOut, Sending
<1>2. PICK i \in Ids \cup {Nil} : Effect(h, i)
  BY DEF TimedOut
<1>3. CallLands
  BY <1>1, <1>2, AtHead, EffectLands
<1>4. mishaps' \in 0 .. MaxMishaps
  BY OutboxAssumption DEF TimedOut, Mishap, OInv, TypeOK
<1> QED BY <1>1, <1>3, <1>4, FailedHolds

(* What the call returned is stored. *)
LEMMA LinkedIs ==
  ASSUME OInv, NEW h \in Item, ItemFits(h), task' = Linked(h), h.do = "store", notes' = notes, crm' = crm
  PROVE  /\ task' \in [Tasks -> TaskRow]
         /\ \A t \in Tasks : TaskFits(t)' /\ task'[t].state = task[t].state
<1> PICK t : t = h.task
  OBVIOUS
<1>1. t \in Tasks /\ task \in [Tasks -> TaskRow] /\ h.op \in Ops /\ \A u \in Tasks : TaskFits(u)
  BY DEF OInv, TypeOK, Item, ItemFits, Loads
<1>2. CASE task' = task
  BY <1>1, <1>2 DEF TaskFits
<1>3. CASE h.op = "createNote" /\ task' = [task EXCEPT ![t].noted = TRUE]
  <2>1. notes[t] > 0
    BY <1>3 DEF ItemFits
  <2> DEFINE row == [task[t] EXCEPT !.noted = TRUE]
  <2>5. task[t] \in TaskRow /\ task' = [task EXCEPT ![t] = row]
    BY <1>1, <1>3
  <2>6. row \in TaskRow /\ row.noted /\ row.mirror = task[t].mirror /\ row.state = task[t].state
    BY <2>5 DEF TaskRow
  <2> HIDE DEF row
  <2>2. task' \in [Tasks -> TaskRow] /\ task'[t].noted /\ task'[t].mirror = task[t].mirror
        /\ task'[t].state = task[t].state /\ \A u \in Tasks : u # t => task'[u] = task[u]
    BY <1>1, <2>5, <2>6
  <2>3. \A u \in Tasks : u # t => TaskFits(u)'
    BY <1>1, <2>2 DEF TaskFits
  <2>4. TaskFits(t)'
    BY <1>1, <2>1, <2>2 DEF TaskFits
  <2> QED BY <2>2, <2>3, <2>4
<1>4. CASE h.op = "createTask" /\ task' = [task EXCEPT ![t].mirror = h.id]
  <2>1. h.id \in Ids /\ crm[h.id].of = t
    BY <1>4 DEF ItemFits
  <2>2. task[t] \in TaskRow /\ task' = [task EXCEPT ![t] = [task[t] EXCEPT !.mirror = h.id]]
    BY <1>1, <1>4
  <2>3. PICK row \in TaskRow : row = [task[t] EXCEPT !.mirror = h.id]
    BY <2>1, <2>2 DEF TaskRow
  <2>4. row.mirror = h.id /\ row.state = task[t].state /\ row.noted = task[t].noted
    BY <2>2, <2>3 DEF TaskRow
  <2>5. task' \in [Tasks -> TaskRow] /\ task'[t] = row /\ \A u \in Tasks : u # t => task'[u] = task[u]
    BY <1>1, <2>2, <2>3
  <2>6. \A u \in Tasks : u # t => TaskFits(u)'
    BY <1>1, <2>5 DEF TaskFits
  <2>7. TaskFits(t)'
    BY <1>1, <2>1, <2>4, <2>5 DEF TaskFits
  <2> QED BY <2>4, <2>5, <2>6, <2>7
<1>5. CASE task' = [task EXCEPT ![t].mirror = Nil]
  BY <1>1, <1>5 DEF TaskFits, TaskRow
<1>6. \/ task' = task
      \/ h.op = "createNote" /\ task' = [task EXCEPT ![t].noted = TRUE]
      \/ h.op = "createTask" /\ task' = [task EXCEPT ![t].mirror = h.id]
      \/ task' = [task EXCEPT ![t].mirror = Nil]
  <2>1. h.op = "createNote" => Linked(h) = [task EXCEPT ![t].noted = TRUE]
    BY DEF Linked
  <2>2. h.op = "createTask" => Linked(h) = [task EXCEPT ![t].mirror = h.id]
    BY DEF Linked
  <2>3. h.op = "finishTask" => Linked(h) = task
    BY DEF Linked
  <2>4. h.op = "retireTask" => Linked(h) \in {task, [task EXCEPT ![t].mirror = Nil]}
    BY DEF Linked
  <2>5. h.op \in {"createNote", "createTask", "finishTask", "retireTask"}
    BY <1>1 DEF Ops
  <2>6. CASE h.op = "createNote"
    BY <2>1, <2>6
  <2>7. CASE h.op = "createTask"
    BY <2>2, <2>7
  <2>8. CASE h.op = "finishTask"
    BY <2>3, <2>8
  <2>9. CASE h.op = "retireTask"
    <3>1. Linked(h) = task \/ Linked(h) = [task EXCEPT ![t].mirror = Nil]
      BY <2>4, <2>9
    <3> QED BY <3>1
  <2> QED BY <2>5, <2>6, <2>7, <2>8, <2>9
<1> QED BY <1>2, <1>3, <1>4, <1>5, <1>6

LEMMA StoreHolds ==
  ASSUME OInv, NEW p \in Procs, Store(p)
  PROVE  OInv'
<1> PICK h, r : h = Head(job[p]) /\ r = h.row
  OBVIOUS
<1>1. /\ ~ Idle(p) /\ h.do \in {"store", "finish"} /\ job' = [job EXCEPT ![p] = Tail(@)]
      /\ task' = IF h.do = "store" THEN Linked(h) ELSE task
      /\ write' = Succeeded(h) /\ UNCHANGED <<crm, notes, events, worked, dropped, mishaps>>
  BY DEF Store
<1>2. h \in Item /\ ItemFits(h) /\ TypeOK /\ write \in [WriteIds -> WriteRow]
  BY <1>1, AtHead DEF TypeOK
<1>3. h.op \in Ops /\ (h.op = "createNote" => notes[h.task] > 0)
  BY <1>1, <1>2 DEF ItemFits, Item, Loads
<1>4. task' \in [Tasks -> TaskRow] /\ \A t \in Tasks : TaskFits(t)' /\ task'[t].state = task[t].state
  <2>1. CASE h.do = "store"
    BY <1>1, <1>2, <2>1, LinkedIs
  <2>2. CASE h.do = "finish"
    BY <1>1, <2>2 DEF OInv, TypeOK, TaskFits
  <2> QED BY <1>1, <2>1, <2>2
<1>5. /\ write' \in [WriteIds -> WriteRow]
      /\ \A w \in WriteIds : /\ write'[w].op = write[w].op /\ write'[w].task = write[w].task
                             /\ write'[w] = write[w] \/ WriteFits(w)'
                             /\ write'[w].status = write[w].status \/ (w = r /\ write[w].task = h.task /\ write[w].op = h.op)
  <2>1. CASE write' = write
    BY <1>2, <2>1
  <2>2. CASE r # 0 /\ write[r].status = "RETRYING" /\ write' = [write EXCEPT ![r].status = "OK"]
    <3>1. r \in WriteIds /\ write[r].op = h.op /\ write[r].task = h.task
      BY <1>2, <2>2, Basics DEF ItemFits, Item
    <3>2. /\ write' \in [WriteIds -> WriteRow] /\ \A v \in WriteIds : v # r => write'[v] = write[v]
          /\ write'[r].op = h.op /\ write'[r].task = h.task /\ write'[r].id = write[r].id
          /\ write'[r].status = "OK"
      BY <1>2, <2>2, <3>1 DEF WriteRow
    <3>3. WriteFits(r)
      BY <3>1 DEF OInv
    <3>4. WriteFits(r)'
      <4>1. h.op \in Links => write[r].id \in Ids /\ crm'[write[r].id].of = h.task
        BY <1>1, <3>1, <3>3 DEF WriteFits
      <4>2. h.op = "finishTask" => task'[h.task].state = "DONE"
        BY <1>2, <1>4 DEF ItemFits, Item
      <4>3. h.op # Nil /\ h.task \in Tasks
        BY <1>2, <1>3, Basics DEF Item
      <4> QED BY <1>1, <1>3, <3>2, <4>1, <4>2, <4>3 DEF WriteFits
    <3> QED BY <3>1, <3>2, <3>4
  <2> QED BY <1>1, <2>1, <2>2 DEF Succeeded
<1>6. Grows
  BY <1>1, <1>4, <1>5 DEF Grows
<1>7. WorkFits' /\ (job' \in [Procs -> Seq(Item)] => TypeOK')
  BY <1>1, <1>2, <1>4, <1>5 DEF OInv, TypeOK, WorkFits
<1>8. \A t \in Tasks \ dropped' : Carries(h, t) => NoteIsOnItsWay(t)'
  BY <1>1, <1>3 DEF Carries, NoteIsOnItsWay
<1>9. \A w \in WriteIds, t \in Tasks : WaitsIn(w, t) => WaitsIn(w, t)' \/ notes'[t] > 0
  BY <1>1, <1>3, <1>5 DEF WaitsIn
<1> DEFINE new == <<>>
<1>10. new \in Seq(Item) /\ new = <<>> /\ \A it \in Items(new) : ItemFits(it)'
  BY NoItems, EmptySeq
<1> HIDE DEF new
<1> QED BY <1>1, <1>4, <1>5, <1>6, <1>7, <1>8, <1>9, <1>10, HeadHolds

LEMMA CrashHolds ==
  ASSUME OInv, NEW p \in Procs, Crash(p)
  PROVE  OInv'
<1>1. /\ job' = [job EXCEPT ![p] = <<>>] /\ UNCHANGED <<task, crm, notes, write, events, worked>>
      /\ dropped' = dropped \cup {job[p][n].task : n \in {m \in DOMAIN job[p] : job[p][m].row = 0}}
  BY DEF Crash
<1>2. TypeOK /\ job \in [Procs -> Seq(Item)] /\ Items(job[p]) \subseteq Item
  BY ItemsTyped DEF OInv, TypeOK
<1>3. /\ job' \in [Procs -> Seq(Item)] /\ job'[p] = <<>> /\ \A q \in Procs : q # p => job'[q] = job[q]
  BY <1>1, <1>2, EmptySeq
<1>4. \A it \in Items(job[p]) : it.row = 0 => it.task \in dropped'
  BY <1>1 DEF Items
<1>5. dropped' \subseteq Tasks /\ dropped \subseteq dropped' /\ mishaps' \in 0 .. MaxMishaps
  <2>1. \A n \in DOMAIN job[p] : job[p][n].task \in Tasks
    BY <1>2 DEF Items, Item
  <2>2. mishaps' \in 0 .. MaxMishaps
    BY OutboxAssumption DEF Crash, Mishap, OInv, TypeOK
  <2> QED BY <1>1, <1>2, <2>1, <2>2 DEF TypeOK
<1>6. TypeOK' /\ Grows /\ WorkFits'
  BY <1>1, <1>2, <1>3, <1>5 DEF OInv, TypeOK, Grows, WorkFits
<1> DEFINE R == Items(job[p])
           N == {}
<1>7. ASSUME NEW t \in Tasks \ dropped', NEW it \in R, Carries(it, t) PROVE NoteIsOnItsWay(t)'
  <2>1. it \in Item /\ ItemFits(it) /\ it.row # 0 /\ it.task = t
    BY <1>2, <1>4, <1>7 DEF OInv, Carries
  <2>2. it.row \in WriteIds /\ it.op = "createNote"
    BY <1>7, <2>1, Basics DEF ItemFits, Item, Carries, Loads
  <2>3. write'[it.row].op = "createNote" /\ write'[it.row].task = t /\ WriteFits(it.row)
    BY <1>1, <2>1, <2>2 DEF ItemFits, OInv
  <2>4. write[it.row].status = "OK" => notes'[t] > 0
    BY <1>1, <2>3 DEF WriteFits
  <2> QED BY <1>1, <2>2, <2>3, <2>4 DEF NoteIsOnItsWay
<1>8. \A t \in Tasks \ dropped' : /\ \A it \in R : Carries(it, t) => NoteIsOnItsWay(t)'
                                  /\ task'[t].state = "DONE" /\ task[t].state # "DONE" => NoteIsOnItsWay(t)'
  BY <1>1, <1>7
<1>9. /\ Items(job[p]) \subseteq R \cup Items(job'[p]) /\ Items(job'[p]) \subseteq N \cup Items(job[p])
      /\ \A it \in N : ItemFits(it)'
  BY <1>3, NoItems
<1>10. \A w \in WriteIds, t \in Tasks : WaitsIn(w, t) => WaitsIn(w, t)'
  BY <1>1 DEF WaitsIn
<1>11. /\ \A w \in WriteIds : write'[w] = write[w]
       /\ \A t \in Tasks : task'[t] = task[t]
       /\ \A i \in Ids : crm'[i] = crm[i]
  BY <1>1
<1> HIDE DEF R, N
<1>12. JobsStep(p, R, N)
  BY <1>3, <1>9 DEF JobsStep
<1>13. RowsStep
  BY <1>11 DEF RowsStep
<1>14. NotesStep(R)
  BY <1>8, <1>10 DEF NotesStep
<1> QED BY <1>6, <1>12, <1>13, <1>14, StepHolds

LEMMA ClaimHolds ==
  ASSUME OInv, NEW p \in Procs, NEW w \in WriteIds, Claim(p, w)
  PROVE  OInv'
<1> PICK first : first = IF write[w].op = "createTask" THEN "check" ELSE "send"
  OBVIOUS
<1> PICK x : x = ItemOf(first, write[w].op, write[w].task, write[w].id, w)
  OBVIOUS
<1>1. /\ write[w].status \in Replayable /\ write' = [write EXCEPT ![w].status = "RETRYING", ![w].overdue = FALSE]
      /\ Start(p, <<x>>) /\ UNCHANGED <<task, crm, notes, events, worked, dropped, mishaps>>
  BY DEF Claim, Claimable, Replayable
<1>2. /\ TypeOK /\ WriteFits(w) /\ write \in [WriteIds -> WriteRow] /\ write[w].op # Nil
      /\ write[w].op \in Ops /\ write[w].task \in Tasks /\ write[w].id \in Ids \cup {Nil}
  BY <1>1 DEF OInv, TypeOK, WriteFits, WriteRow, Replayable
<1>3. /\ x \in Item /\ x.do = first /\ x.op = write[w].op /\ x.task = write[w].task /\ x.id = write[w].id
      /\ x.row = w
  BY <1>2, Basics DEF ItemOf, Item
<1>4. /\ write' \in [WriteIds -> WriteRow] /\ write'[w].op = write[w].op /\ write'[w].task = write[w].task
      /\ write'[w].id = write[w].id /\ write'[w].status = "RETRYING"
      /\ \A v \in WriteIds : v # w => write'[v] = write[v]
  <2> DEFINE row == [write[w] EXCEPT !.status = "RETRYING", !.overdue = FALSE]
  <2>1. write' = [write EXCEPT ![w] = row]
    BY <1>1, <1>2
  <2>2. row \in WriteRow /\ row.op = write[w].op /\ row.task = write[w].task /\ row.id = write[w].id /\ row.status = "RETRYING"
    BY <1>2 DEF WriteRow, Replayable
  <2> HIDE DEF row
  <2> QED BY <1>2, <2>1, <2>2
<1>5. WriteFits(w)'
  BY <1>1, <1>2, <1>4 DEF WriteFits
<1>6. ItemFits(x)'
  <2>1. x.op \in Links => x.id \in Ids /\ crm'[x.id].of = x.task
    BY <1>1, <1>2, <1>3 DEF WriteFits
  <2>2. x.op = "finishTask" => task'[x.task].state = "DONE"
    BY <1>1, <1>2, <1>3 DEF WriteFits
  <2>3. x.do \in {"check", "send"} /\ (x.do = "check" => x.op = "createTask") /\ x.op # Nil
    BY <1>2, <1>3
  <2>4. write'[x.row].op = x.op /\ write'[x.row].task = x.task
    BY <1>3, <1>4
  <2> QED BY <2>1, <2>2, <2>3, <2>4 DEF ItemFits, Loads
<1>7. <<x>> \in Seq(Item) /\ Items(<<x>>) = {x}
  BY <1>3, OneItem
<1>8. /\ job' \in [Procs -> Seq(Item)] /\ job'[p] = <<x>> /\ Items(job[p]) = {}
      /\ \A q \in Procs : q # p => job'[q] = job[q]
  BY <1>1, <1>2, <1>7, Started
<1>9. TypeOK' /\ Grows /\ WorkFits'
  BY <1>1, <1>2, <1>4, <1>8 DEF OInv, TypeOK, Grows, WorkFits
<1>10. \A v \in WriteIds, t \in Tasks : WaitsIn(v, t) => WaitsIn(v, t)'
  BY <1>4 DEF WaitsIn
<1> DEFINE R == {}
           N == {x}
<1>11. /\ Items(job[p]) \subseteq R \cup Items(job'[p]) /\ Items(job'[p]) \subseteq N \cup Items(job[p])
       /\ \A it \in N : ItemFits(it)'
  BY <1>6, <1>7, <1>8
<1>12. \A t \in Tasks \ dropped' : /\ \A it \in R : Carries(it, t) => NoteIsOnItsWay(t)'
                                   /\ task'[t].state = "DONE" /\ task[t].state # "DONE" => NoteIsOnItsWay(t)'
  BY <1>1
<1> HIDE DEF R, N
<1>13. JobsStep(p, R, N)
  BY <1>8, <1>11 DEF JobsStep
<1>14. RowsStep
  BY <1>1, <1>4, <1>5 DEF RowsStep
<1>15. NotesStep(R)
  BY <1>10, <1>12 DEF NotesStep
<1> QED BY <1>9, <1>13, <1>14, <1>15, StepHolds

-----------------------------------------------------------------------------
(* The invariant of Outbox, and what it says of the run's properties.      *)

LEMMA InitHolds == Init => OInv
<1> SUFFICES ASSUME Init PROVE OInv
  OBVIOUS
<1>1. NoWrite \in WriteRow
  BY DEF NoWrite, WriteRow
<1>2. \A p \in Procs : job[p] = <<>>
  BY DEF Init
<1>3. task \in [Tasks -> TaskRow] /\ crm \in [Ids -> CrmTask] /\ notes \in [Tasks -> Nat] /\ write \in [WriteIds -> WriteRow]
  BY <1>1 DEF Init, TaskRow, CrmTask
<1>4. job \in [Procs -> Seq(Item)]
  BY EmptySeq DEF Init
<1>5. TypeOK
  <2>1. 0 \in 0 .. MaxMishaps
    BY OutboxAssumption
  <2> QED BY <1>3, <1>4, <2>1 DEF Init, TypeOK
<1>6. \A p \in Procs : \A it \in Items(job[p]) : ItemFits(it)
  BY <1>2, NoItems
<1>7. \A w \in WriteIds : WriteFits(w)
  BY Basics DEF Init, WriteFits, NoWrite, Links, Ops
<1>8. \A t \in Tasks : TaskFits(t)
  BY DEF Init, TaskFits
<1>9. \A i \in Ids : CrmFits(i)
  BY DEF Init, CrmFits
<1>10. NothingIsLost /\ WorkFits
  BY DEF Init, NothingIsLost, WorkFits
<1> QED BY <1>5, <1>6, <1>7, <1>8, <1>9, <1>10 DEF OInv

LEMMA StutterHolds ==
  ASSUME OInv, UNCHANGED vars
  PROVE  OInv'
<1>1. TypeOK' /\ Grows /\ WorkFits'
  BY DEF OInv, TypeOK, Grows, WorkFits, vars
<1>2. \A w \in WriteIds, t \in Tasks : WaitsIn(w, t) => WaitsIn(w, t)'
  BY DEF WaitsIn, vars
<1> QED BY <1>1, <1>2, NobodysHolds DEF vars

LEMMA Inductive == OInv /\ [Next]_vars => OInv'
<1> SUFFICES ASSUME OInv, [Next]_vars PROVE OInv'
  OBVIOUS
<1>1. ASSUME NEW p \in Procs, NEW t \in Tasks,
             Generate(p, t) \/ Complete(p, t) \/ Skip(p, t) \/ Delegate(p, t)
      PROVE  OInv'
  BY <1>1, GenerateHolds, CompleteHolds, SkipHolds, DelegateHolds
<1>2. ASSUME NEW p \in Procs, Work(p) \/ Answered(p) \/ Refused(p) \/ TimedOut(p) \/ Crash(p)
      PROVE  OInv'
  BY <1>2, ReloadHolds, CheckHolds, StoreHolds, AnsweredHolds, RefusedHolds, TimedOutHolds, CrashHolds DEF Work
<1>3. ASSUME NEW p \in Procs, NEW w \in WriteIds, Claim(p, w) PROVE OInv'
  BY <1>3, ClaimHolds
<1>4. ASSUME NEW p \in Procs, NEW i \in Ids, TaskEvent(p, i) PROVE OInv'
  BY <1>4, TaskEventHolds
<1>5. ASSUME NEW w \in WriteIds, LeasePasses(w) \/ Discard(w) PROVE OInv'
  BY <1>5, LeaseHolds, DiscardHolds
<1>6. ASSUME NEW i \in Ids, MarkDone(i) \/ DeleteInTwenty(i) \/ DeletedEvent(i) PROVE OInv'
  BY <1>6, InTwentyHolds, DeletedEventHolds
<1>7. CASE UNCHANGED vars
  BY <1>7, StutterHolds
<1> QED BY <1>1, <1>2, <1>3, <1>4, <1>5, <1>6, <1>7 DEF Next

(* The invariant, for any processes, tasks and bounds, and any settings.   *)
THEOREM OutboxInvariant == Spec => []OInv
<1>1. Init => OInv
  BY InitHolds
<1>2. OInv /\ [Next]_vars => OInv'
  BY Inductive
<1> QED BY <1>1, <1>2, PTL DEF Spec

(* The states are the ones the declarations say. *)
THEOREM OutboxTypeCorrect == Spec => []TypeOK
<1>1. OInv => TypeOK
  BY DEF OInv
<1> QED BY <1>1, OutboxInvariant, PTL

(* The note of a completed task reached Twenty, is in the outbox, or is in *)
(* the job of a process that lives (reportFailure, sync-retry.ts).         *)
THEOREM NotesAreKept == Spec => []NothingIsLost
<1>1. OInv => NothingIsLost
  BY DEF OInv
<1> QED BY <1>1, OutboxInvariant, PTL

(* With mirrors deleted when their task is skipped or delegated (the       *)
(* default of settings.sync.deleteMirroredTaskOnSkip), no webhook about    *)
(* Cadence's own writes completes a task.  With mirrors closed instead and *)
(* the id field written, the webhook of a delegated task's mirror would.   *)
THEOREM EchoesCompleteNothing == ASSUME RemoveOnSkip PROVE Spec => []DoneIsSomebodysWork
<1>1. OInv => DoneIsSomebodysWork
  BY DEF OInv, WorkFits, DoneIsSomebodysWork
<1> QED BY <1>1, OutboxInvariant, PTL

(* A discarded write stays discarded, whatever a replay reports: postpone  *)
(* and the success of a replay are conditioned on the row's status.        *)
LEMMA DiscardedStays ==
  ASSUME OInv, [Next]_vars, NEW w \in WriteIds, write[w].status = "DISCARDED"
  PROVE  write'[w].status = "DISCARDED"
<1>1. write \in [WriteIds -> WriteRow]
  BY DEF OInv, TypeOK
<1>2. ASSUME NEW p \in Procs, Sending(p), Failed(p) PROVE write'[w].status = "DISCARDED"
  <2>1. ~ Idle(p)
    BY <1>2 DEF Sending
  <2>2. Head(job[p]).row # 0 => Head(job[p]).row \in WriteIds
    BY <2>1, AtHead, Basics DEF Item
  <2> QED BY <1>1, <1>2, <2>2 DEF Failed, PutBack, Keep, Replayable
<1>3. ASSUME NEW p \in Procs, Store(p) PROVE write'[w].status = "DISCARDED"
  BY <1>1, <1>3 DEF Store, Succeeded
<1>4. ASSUME NEW p \in Procs, NEW v \in WriteIds, Claim(p, v) PROVE write'[w].status = "DISCARDED"
  BY <1>1, <1>4 DEF Claim, Claimable
<1>5. ASSUME NEW v \in WriteIds, LeasePasses(v) \/ Discard(v) PROVE write'[w].status = "DISCARDED"
  <2>1. w # v => write'[w] = write[w]
    BY <1>1, <1>5 DEF LeasePasses, Discard
  <2>2. CASE w = v
    BY <1>1, <1>5, <2>2 DEF LeasePasses, Discard, Replayable
  <2> QED BY <2>1, <2>2
<1>6. CASE UNCHANGED write
  BY <1>6
<1>7. ASSUME NEW p \in Procs, NEW t \in Tasks, Generate(p, t) \/ Complete(p, t) \/ Skip(p, t) \/ Delegate(p, t)
      PROVE  UNCHANGED write
  BY <1>7 DEF Generate, Complete, Skip, Delegate
<1>8. ASSUME NEW p \in Procs, Reload(p) \/ Check(p) \/ Answered(p) \/ Crash(p) PROVE UNCHANGED write
  BY <1>8 DEF Reload, Check, Answered, Crash
<1>9. ASSUME NEW p \in Procs, Refused(p) \/ TimedOut(p) PROVE Sending(p) /\ Failed(p)
  BY <1>9 DEF Refused, TimedOut
<1>10. ASSUME NEW i \in Ids, MarkDone(i) \/ DeleteInTwenty(i) \/ DeletedEvent(i) \/ \E p \in Procs : TaskEvent(p, i)
       PROVE  UNCHANGED write
  BY <1>10 DEF MarkDone, DeleteInTwenty, DeletedEvent, TaskEvent
<1> QED BY <1>2, <1>3, <1>4, <1>5, <1>6, <1>7, <1>8, <1>9, <1>10 DEF Next, Work, vars

(* "The CRM will not receive this write", from the moment it was discarded.*)
THEOREM DiscardsStand == Spec => DiscardStands
<1>1. OInv /\ [Next]_vars => [\A w \in WriteIds :
         write[w].status = "DISCARDED" => write'[w].status = "DISCARDED"]_vars
  BY DiscardedStays
<1> QED BY <1>1, OutboxInvariant, PTL DEF Spec, DiscardStands
=============================================================================
