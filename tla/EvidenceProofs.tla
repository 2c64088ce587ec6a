---------------------------- MODULE EvidenceProofs ----------------------------
(* Proofs about Evidence: its types, one reader per event, and no record   *)
(* that closes two steps.                                                  *)
EXTENDS Evidence, TLAPS

JobTyped  == job \in [Procs -> Job]
RowsTyped == /\ linked \subseteq Records
             /\ event \in [Keys -> Results]
             /\ touch \in [Records -> TouchRow]
             /\ task \in [Tasks -> TaskRow]

(* An idle process has a well-formed job.                                  *)
LEMMA NoJobTyped == NoJob \in Job
BY DEF NoJob, Job, Results, Ref

(* Every job step leaves the jobs well-formed. *)
LEMMA JobStepTypesJob ==
  ASSUME NEW p \in Procs, JobTyped, RowsTyped, JobStep(p)
  PROVE  JobTyped'
<1> USE DEF JobTyped
<1>0. job[p] \in Job
  OBVIOUS
<1>1. ASSUME NEW j \in Job, job' = [job EXCEPT ![p] = j] PROVE JobTyped'
  BY <1>1
<1>2. ASSUME End(p) PROVE JobTyped'
  BY <1>2, <1>1, NoJobTyped DEF End
<1>3. ASSUME NEW result \in Results, Answer(p, result) PROVE JobTyped'
  <2>1. [NoJob EXCEPT !.do = "catch", !.open = job[p].open] \in Job
    BY <1>0 DEF NoJob, Job, Results, Ref
  <2>2. [NoJob EXCEPT !.do = "finish", !.key = job[p].key, !.result = result] \in Job
    BY <1>0, <1>3 DEF NoJob, Job, Ref
  <2> QED BY <2>1, <2>2, <1>1, <1>3 DEF Answer
<1>4. ASSUME NEW step \in {"read", "list", "write", "count"}, Go(p, step) PROVE JobTyped'
  <2>1. [job[p] EXCEPT !.do = step] \in Job
    BY <1>0, <1>4 DEF Job
  <2> QED BY <2>1, <1>4, <1>1 DEF Go
<1>5. CASE TakeEvent(p)
  <2>1. [job[p] EXCEPT !.do = "read", !.result = "none"] \in Job
    BY <1>0 DEF Job, Results
  <2>2. (job' = [job EXCEPT ![p].do = "read", ![p].result = "none"]) => JobTyped'
    BY <2>1, <1>1
  <2> QED BY <1>5, <2>2, <1>2 DEF TakeEvent
<1>6. CASE Read(p) BY <1>6, <1>3, <1>4 DEF Read, Results
<1>7. CASE Finish(p) BY <1>7, <1>2 DEF Finish
<1>8. CASE ListTasks(p)
  <2>1. [job[p] EXCEPT !.do = "judge", !.open = Open] \in Job
    BY <1>0 DEF Job, Open
  <2>2. (job' = [job EXCEPT ![p].do = "judge", ![p].open = Open]) => JobTyped'
    BY <2>1, <1>1
  <2> QED BY <1>8, <2>2, <1>3 DEF ListTasks, Results
<1>9. CASE Judge(p)
  <2>1. ASSUME NEW t \in Tasks PROVE [job[p] EXCEPT !.do = "check", !.task = t, !.open = {}] \in Job
    BY <1>0 DEF Job, Ref
  <2>2. ASSUME NEW t \in Tasks, job' = [job EXCEPT ![p].do = "check", ![p].task = t, ![p].open = {}]
        PROVE JobTyped'
    BY <2>2, <2>1, <1>1
  <2>3. job[p].open \subseteq Tasks
    BY <1>0 DEF Job
  <2> QED BY <1>9, <2>2, <2>3, <1>3 DEF Judge, Earliest, Results
<1>10. CASE Check(p) BY <1>10, <1>3, <1>4 DEF Check, Results
<1>11. CASE Write(p) BY <1>11, <1>3, <1>4 DEF Write, Results
<1>12. CASE Count(p) BY <1>12, <1>3 DEF Count, Results
<1>13. CASE CatchNext(p)
  <2>1. job[p].open \subseteq Tasks
    BY <1>0 DEF Job
  <2>2. ASSUME NEW t \in Tasks, job' = [job EXCEPT ![p].open = @ \ {t}] PROVE JobTyped'
    <3>1. [job[p] EXCEPT !.open = @ \ {t}] \in Job
      BY <1>0, <2>1 DEF Job
    <3> QED BY <3>1, <2>2, <1>1
  <2>3. ASSUME NEW t \in Tasks, NEW r \in Records,
               job' = [job EXCEPT ![p].do = "check", ![p].rec = r, ![p].task = t,
                                  ![p].open = @ \ {t}]
        PROVE JobTyped'
    <3>1. [job[p] EXCEPT !.do = "check", !.rec = r, !.task = t, !.open = @ \ {t}] \in Job
      BY <1>0, <2>1 DEF Job, Ref
    <3> QED BY <3>1, <2>3, <1>1
  <2> QED BY <1>13, <2>1, <2>2, <2>3, <1>2 DEF CatchNext, Earliest, Oldest, Uncounted
<1> QED
  BY <1>5, <1>6, <1>7, <1>8, <1>9, <1>10, <1>11, <1>12, <1>13 DEF JobStep

(* Storing what a touch counted for leaves its row well-formed.            *)
LEMMA CountedTyped ==
  ASSUME NEW r, NEW t \in Ref(Tasks), RowsTyped
  PROVE  Counted(r, t) \in [Records -> TouchRow]
BY DEF RowsTyped, Counted, TouchRow

(* What a touch counts for is a step, or nothing.                          *)
LEMMA CountedForTyped ==
  ASSUME NEW r \in Ref(Records), RowsTyped
  PROVE  r \in Records => CountedFor(r) \subseteq Ref(Tasks)
BY DEF RowsTyped, CountedFor, TouchRow, Ref

(* Every job step leaves the rows well-formed.                             *)
LEMMA JobStepTypesRows ==
  ASSUME NEW p \in Procs, JobTyped, RowsTyped, JobStep(p)
  PROVE  RowsTyped'
<1>0. job[p] \in Job
  BY DEF JobTyped
<1> USE DEF RowsTyped
<1>1. CASE TakeEvent(p) BY <1>1 DEF TakeEvent, Results
<1>2. CASE Read(p)
  <2>1. touch' \in [Records -> TouchRow] BY <1>2 DEF Read, TouchRow
  <2> QED BY <1>2, <2>1 DEF Read
<1>3. CASE Finish(p) BY <1>0, <1>3 DEF Finish, Job
<1>4. CASE ListTasks(p) BY <1>4 DEF ListTasks
<1>5. CASE Judge(p)
  <2>1. touch' \in [Records -> TouchRow]
    <3>1. ASSUME NEW t \in CountedFor(job[p].rec) \ {Nil}, touch' = Counted(job[p].rec, t)
          PROVE touch' \in [Records -> TouchRow]
      BY <3>1, CountedTyped, CountedForTyped, <1>0 DEF Counted, TouchRow, Job, Ref
    <3> QED BY <1>5, <3>1 DEF Judge
  <2> QED BY <1>5, <2>1 DEF Judge
<1>6. CASE Check(p) BY <1>6 DEF Check
<1>7. CASE Write(p)
  <2>1. job[p].rec \in Ref(Records)
    BY <1>0 DEF Job
  <2>2. task' \in [Tasks -> TaskRow] BY <1>7, <2>1 DEF Write, TaskRow
  <2> QED BY <1>7, <2>2 DEF Write
<1>8. CASE Count(p)
  <2>1. job[p].task \in Ref(Tasks)
    BY <1>0 DEF Job
  <2>2. touch' \in [Records -> TouchRow]
    BY <1>8, <2>1, CountedTyped DEF Count
  <2> QED BY <1>8, <2>2 DEF Count
<1>9. CASE CatchNext(p)
  <2>1. ASSUME NEW before \in SUBSET Records, NEW counts \in [before -> Tasks],
               touch' = [r \in Records |-> IF r \in before
                                           THEN [touch[r] EXCEPT !.counted = counts[r]]
                                           ELSE touch[r]]
        PROVE touch' \in [Records -> TouchRow]
    BY <2>1 DEF TouchRow, Ref
  <2>2. touch' \in [Records -> TouchRow]
    <3>1. CASE touch' = touch BY <3>1
    <3>2. CASE touch' # touch
      <4> DEFINE Free(t) == {r \in Uncounted(t) : IsFree(r)}
                 Before(t) == {r \in Uncounted(t) \ Free(t) :
                                 \A u \in Free(t) : SentAt[r] <= SentAt[u]}
      <4>0. \E t \in Earliest(job[p].open) :
              LET free == {r \in Uncounted(t) : IsFree(r)}
                  before == {r \in Uncounted(t) \ free : \A u \in free : SentAt[r] <= SentAt[u]}
              IN  \E counts \in [before -> Tasks] :
                    /\ \A r \in before : counts[r] \in CountedFor(r)
                    /\ touch' = [r \in Records |-> IF r \in before
                                   THEN [touch[r] EXCEPT !.counted = counts[r]] ELSE touch[r]]
        <5>1. ~ (job[p].open = {} /\ End(p) /\ UNCHANGED <<touch, passed>>)
          BY <3>2
        <5> QED BY <1>9, <5>1, Zenon DEF CatchNext
      <4>1. PICK t \in Earliest(job[p].open) : \E counts \in [Before(t) -> Tasks] :
              touch' = [r \in Records |-> IF r \in Before(t)
                                          THEN [touch[r] EXCEPT !.counted = counts[r]]
                                          ELSE touch[r]]
        BY <4>0, Zenon
      <4>2. Before(t) \in SUBSET Records
        BY DEF Uncounted
      <4> HIDE DEF Before, Free
      <4> QED BY <4>1, <4>2, <2>1
    <3> QED BY <3>1, <3>2
  <2> QED BY <1>9, <2>2 DEF CatchNext
<1> QED BY <1>1, <1>2, <1>3, <1>4, <1>5, <1>6, <1>7, <1>8, <1>9 DEF JobStep

-----------------------------------------------------------------------------
(* Every step, of whatever kind, keeps the types.                          *)
LEMMA StepTyped == TypeOK /\ [Next]_vars => TypeOK'
<1> SUFFICES ASSUME TypeOK, [Next]_vars PROVE TypeOK'
  OBVIOUS
<1>0. JobTyped /\ RowsTyped
  BY DEF TypeOK, JobTyped, RowsTyped
<1>1. ASSUME NEW p \in Procs, JobStep(p) PROVE TypeOK'
  <2>1. UNCHANGED <<paused, resumed, mishaps>>
    BY <1>1 DEF JobStep, TakeEvent, Read, Finish, ListTasks, Judge, Check, Write, Count, CatchNext
  <2>2. passed' \in BOOLEAN
    BY <1>1 DEF TypeOK, JobStep, TakeEvent, Read, Finish, ListTasks, Judge, Check, Write, Count,
                CatchNext
  <2> QED BY <1>0, <1>1, <2>1, <2>2, JobStepTypesJob, JobStepTypesRows DEF TypeOK, JobTyped, RowsTyped
<1>2. ASSUME NEW p \in Procs, CatchUp(p) PROVE TypeOK'
  <2>1. [NoJob EXCEPT !.do = "catch", !.open = Candidates] \in Job
    BY NoJobTyped DEF Job, Candidates, Open
  <2> QED BY <1>2, <2>1 DEF CatchUp, Begin, TypeOK
<1>3. ASSUME NEW p \in Procs, Fails(p) \/ Dies(p) PROVE TypeOK'
  <2>1. job' \in [Procs -> Job]
    <3>1. [NoJob EXCEPT !.do = "catch", !.open = job[p].open] \in Job
      BY <1>0, NoJobTyped DEF JobTyped, Job
    <3>2. [NoJob EXCEPT !.do = "finish", !.key = job[p].key, !.result = "incomplete"] \in Job
      BY <1>0, NoJobTyped DEF JobTyped, Job, Results
    <3> QED BY <1>0, <1>3, <3>1, <3>2, NoJobTyped DEF JobTyped, Fails, Dies, End, Answer
  <2>2. mishaps' \in 0 .. MaxMishaps
    BY <1>3, EvidenceAssumption DEF Fails, Dies, Mishap, TypeOK
  <2> QED BY <1>3, <2>1, <2>2 DEF Fails, Dies, TypeOK
<1>4. ASSUME NEW p \in Procs, NEW k \in Keys, Deliver(p, k) PROVE TypeOK'
  <2>1. ASSUME NEW do \in {"create", "claim"}
        PROVE [NoJob EXCEPT !.do = do, !.key = k, !.result = event[k], !.rec = k[1]] \in Job
    BY NoJobTyped DEF TypeOK, Job, Keys, Ref
  <2>2. job' \in [Procs -> Job]
    BY <1>4, <2>1 DEF Deliver, Begin, TypeOK
  <2> QED BY <1>4, <2>2 DEF Deliver, TypeOK
<1>5. ASSUME NEW t \in Tasks, Advance(t) \/ Skip(t) \/ \E e \in Emails : MarkDone(t, e)
      PROVE TypeOK'
  <2>1. task' \in [Tasks -> TaskRow]
    BY <1>5 DEF Advance, Skip, MarkDone, TypeOK, TaskRow, Ref
  <2> QED BY <1>5, <2>1 DEF Advance, Skip, MarkDone, TypeOK
<1>6. ASSUME NEW r \in Records, Link(r) PROVE TypeOK'
  BY <1>6 DEF Link, TypeOK
<1>7. CASE PauseOrResume BY <1>7 DEF PauseOrResume, TypeOK
<1>8. CASE UNCHANGED vars BY <1>8 DEF vars, TypeOK
<1> QED BY <1>1, <1>2, <1>3, <1>4, <1>5, <1>6, <1>7, <1>8 DEF Next

(* The initial state has the types.                                        *)
LEMMA InitTyped == Init => TypeOK
<1> SUFFICES ASSUME Init PROVE TypeOK
  OBVIOUS
<1>1. event \in [Keys -> Results] BY DEF Init, Results
<1>2. touch \in [Records -> TouchRow] BY DEF Init, TouchRow, Ref
<1>3. task \in [Tasks -> TaskRow] BY DEF Init, TaskRow, Ref
<1>4. job \in [Procs -> Job] BY NoJobTyped DEF Init
<1>5. mishaps \in 0 .. MaxMishaps BY EvidenceAssumption DEF Init
<1> QED BY <1>1, <1>2, <1>3, <1>4, <1>5 DEF Init, TypeOK

(* The intake's types, for any records, events, steps and processes.       *)
THEOREM EvidenceTypeCorrect == Spec => []TypeOK
<1>1. Init => TypeOK BY InitTyped
<1>2. TypeOK /\ [Next]_vars => TypeOK' BY StepTyped
<1> QED BY <1>1, <1>2, PTL DEF Spec

-----------------------------------------------------------------------------
(* What it takes to have one reader per event.                             *)
ReadInv == TypeOK /\ ReadersTookTheirEvents /\ OneReaderPerEvent

(* A catch-up, which has no key, reads no event.                           *)
LEMMA NilIsNoKey == Nil \notin Keys
BY EvidenceAssumption

(* A process that goes on reading what it read, or stops, disturbs nothing.*)
LEMMA QuietJob ==
  ASSUME NEW p \in Procs, ReadInv, TypeOK', event' = event,
         \A q \in Procs \ {p} : job'[q] = job[q],
         \A k \in Keys : Reading(p, k)' => Reading(p, k),
         job'[p].do \notin {"create", "claim"}
  PROVE  ReadInv'
<1> USE DEF ReadInv, Reading, At
<1>1. \A q \in Procs, k \in Keys : Reading(q, k)' => Reading(q, k)
  OBVIOUS
<1>2. OneReaderPerEvent'
  BY <1>1 DEF OneReaderPerEvent
<1>3. ReadersTookTheirEvents'
  BY <1>1 DEF ReadersTookTheirEvents
<1> QED BY <1>2, <1>3

(* Who takes an event found it on a result nobody leaves while reading it. *)
LEMMA TakingIsExclusive ==
  ASSUME NEW p \in Procs, ReadInv, TypeOK', TakeEvent(p)
  PROVE  ReadInv'
<1> USE DEF ReadInv
<1>1. job \in [Procs -> Job] /\ event \in [Keys -> Results]
  BY DEF TypeOK
<1>2. CASE End(p) /\ UNCHANGED event
  BY <1>1, <1>2, QuietJob, NilIsNoKey DEF End, Reading, NoJob
<1>3. CASE /\ StillUnread(p)
           /\ event' = [event EXCEPT ![job[p].key] = "reading"]
           /\ job' = [job EXCEPT ![p].do = "read", ![p].result = "none"]
  <2>1. \A q \in Procs, k \in Keys : k = job[p].key => ~Reading(q, k)
    BY <1>3 DEF TakeEvent, ReadersTookTheirEvents, StillUnread
  <2>2. \A q \in Procs \ {p} : job'[q] = job[q]
    BY <1>1, <1>3
  <2>3. job'[p].do = "read" /\ job'[p].key = job[p].key
    BY <1>1, <1>3 DEF Job
  <2>4. \A q \in Procs, k \in Keys : Reading(q, k)' =>
          (Reading(q, k) /\ q # p /\ k # job[p].key) \/ (q = p /\ k = job[p].key)
    BY <2>1, <2>2, <2>3 DEF Reading
  <2>5. OneReaderPerEvent'
    BY <2>4 DEF OneReaderPerEvent
  <2>6. ReadersTookTheirEvents'
    BY <1>1, <1>3, <2>2, <2>3, <2>4 DEF ReadersTookTheirEvents, At
  <2> QED BY <2>5, <2>6
<1> QED BY <1>2, <1>3 DEF TakeEvent

(* The result is written by the event's only reader, who stops reading it. *)
LEMMA FinishingIsLast ==
  ASSUME NEW p \in Procs, ReadInv, TypeOK', Finish(p)
  PROVE  ReadInv'
<1> USE DEF ReadInv
<1>1. job \in [Procs -> Job] /\ event \in [Keys -> Results]
  BY DEF TypeOK
<1>2. \A q \in Procs, k \in Keys : Reading(q, k)' =>
        Reading(q, k) /\ q # p /\ k # job[p].key
  <2>1. job'[p].do = "idle"
    BY <1>1 DEF Finish, End, NoJob
  <2>2. \A q \in Procs \ {p} : job'[q] = job[q]
    BY <1>1 DEF Finish, End
  <2>3. \A k \in Keys : k = job[p].key => Reading(p, k)
    BY DEF Finish, At, Reading
  <2> QED BY <2>1, <2>2, <2>3 DEF Reading, OneReaderPerEvent
<1>3. OneReaderPerEvent'
  BY <1>2 DEF OneReaderPerEvent
<1>4. ReadersTookTheirEvents'
  <2>1. \A q \in Procs, k \in Keys : Reading(q, k)' => event'[k] = "reading"
    BY <1>1, <1>2 DEF Finish, ReadersTookTheirEvents
  <2>2. \A q \in Procs : (At(q, "create") \/ At(q, "claim"))' => job'[q] = job[q]
    BY <1>1 DEF Finish, End, NoJob, At
  <2> QED BY <2>1, <2>2 DEF ReadersTookTheirEvents, At
<1> QED BY <1>3, <1>4

(* A job that neither starts nor takes an event keeps its key or drops it. *)
GoesOn(p) == job'[p].do \notin {"create", "claim"} /\ job'[p].key \in {Nil, job[p].key}

(* Stopping and answering do.                                              *)
LEMMA EndsOrAnswers ==
  ASSUME NEW p \in Procs, job \in [Procs -> Job],
         End(p) \/ \E result \in Results : Answer(p, result)
  PROVE  GoesOn(p)
<1>1. CASE End(p) BY <1>1 DEF End, NoJob, GoesOn
<1>2. ASSUME NEW result \in Results, Answer(p, result) PROVE GoesOn(p)
  <2>1. CASE job[p].key = Nil
    BY <1>2, <2>1 DEF Answer, NoJob, GoesOn
  <2>2. CASE job[p].key # Nil
    BY <1>2, <2>2 DEF Answer, NoJob, GoesOn
  <2> QED BY <2>1, <2>2
<1> QED BY <1>1, <1>2

(* So does every step between taking an event and finishing it.            *)
LEMMA JobsGoOn ==
  ASSUME NEW p \in Procs, job \in [Procs -> Job],
         \/ Read(p) \/ ListTasks(p) \/ Judge(p) \/ Check(p) \/ Write(p) \/ Count(p)
         \/ CatchNext(p)
  PROVE  GoesOn(p)
<1> USE EndsOrAnswers
<1>0. ASSUME NEW step \in {"list", "write", "count"}, Go(p, step) PROVE GoesOn(p)
  BY <1>0 DEF Go, Job, GoesOn
<1>1. CASE Read(p) BY <1>0, <1>1 DEF Read, Results
<1>2. CASE ListTasks(p)
  <2>1. CASE job' = [job EXCEPT ![p].do = "judge", ![p].open = Open]
    BY <2>1 DEF Job, GoesOn
  <2> QED BY <1>2, <2>1 DEF ListTasks, Results
<1>3. CASE Judge(p)
  <2>1. ASSUME NEW t, job' = [job EXCEPT ![p].do = "check", ![p].task = t, ![p].open = {}]
        PROVE GoesOn(p)
    BY <2>1 DEF Job, GoesOn
  <2> QED BY <1>3, <2>1 DEF Judge, Results
<1>4. CASE Check(p) BY <1>0, <1>4 DEF Check, Results
<1>5. CASE Write(p) BY <1>0, <1>5 DEF Write, Results
<1>6. CASE Count(p) BY <1>6 DEF Count, Results
<1>7. CASE CatchNext(p)
  <2>1. ASSUME NEW t, job' = [job EXCEPT ![p].open = @ \ {t}] PROVE GoesOn(p)
    <3>1. job[p].do = "catch"
      BY <1>7 DEF CatchNext, At
    <3>2. job'[p] = [job[p] EXCEPT !.open = @ \ {t}] /\ job[p] \in Job
      BY <2>1
    <3> QED BY <3>1, <3>2 DEF Job, GoesOn
  <2>2. ASSUME NEW t, NEW r,
               job' = [job EXCEPT ![p].do = "check", ![p].rec = r, ![p].task = t,
                                  ![p].open = @ \ {t}]
        PROVE GoesOn(p)
    BY <2>2 DEF Job, GoesOn
  <2> QED BY <1>7, <2>1, <2>2 DEF CatchNext
<1> QED BY <1>1, <1>2, <1>3, <1>4, <1>5, <1>6, <1>7

(* Every step keeps the inductive invariant.                               *)
LEMMA StepReads == ReadInv /\ [Next]_vars => ReadInv'
<1> SUFFICES ASSUME ReadInv, [Next]_vars PROVE ReadInv'
  OBVIOUS
<1>0. TypeOK' /\ job \in [Procs -> Job]
  BY StepTyped DEF ReadInv, TypeOK
<1>1. ASSUME NEW p \in Procs, JobStep(p) PROVE ReadInv'
  <2>0. job[p] \in Job /\ job'[p] \in Job
    BY <1>0 DEF TypeOK
  <2>1. CASE TakeEvent(p) BY <2>1, <1>0, TakingIsExclusive
  <2>2. CASE Finish(p) BY <2>2, <1>0, FinishingIsLast
  <2>3. CASE Read(p) \/ ListTasks(p) \/ Judge(p) \/ Check(p) \/ Write(p) \/ Count(p) \/ CatchNext(p)
    <3>1. UNCHANGED event
      BY <2>3 DEF Read, ListTasks, Judge, Check, Write, Count, CatchNext
    <3>2. \A q \in Procs \ {p} : job'[q] = job[q]
      BY <2>3, <1>0 DEF Read, ListTasks, Judge, Check, Write, Count, CatchNext, End, Go, Answer
    <3>3. ~At(p, "idle") /\ ~At(p, "create") /\ ~At(p, "claim")
      BY <2>3 DEF Read, ListTasks, Judge, Check, Write, Count, CatchNext, At
    <3>4. GoesOn(p)
      BY <2>3, <1>0, JobsGoOn
    <3>5. \A k \in Keys : Reading(p, k)' => Reading(p, k)
      BY <3>3, <3>4, NilIsNoKey DEF Reading, GoesOn, At
    <3> QED BY <1>0, <3>1, <3>2, <3>4, <3>5, QuietJob DEF GoesOn
  <2> QED BY <1>1, <2>1, <2>2, <2>3 DEF JobStep
<1>2. ASSUME NEW p \in Procs, CatchUp(p) \/ Fails(p) \/ Dies(p) PROVE ReadInv'
  <2>1. UNCHANGED event /\ \A q \in Procs \ {p} : job'[q] = job[q]
    BY <1>2, <1>0 DEF CatchUp, Fails, Dies, Begin, End, Answer
  <2>2. CASE CatchUp(p)
    <3>1. job'[p].do = "catch" /\ job'[p].key = Nil
      BY <2>2, <1>0 DEF CatchUp, Begin, NoJob
    <3> QED BY <1>0, <2>1, <3>1, NilIsNoKey, QuietJob DEF Reading
  <2>3. CASE Fails(p) \/ Dies(p)
    <3>1. GoesOn(p)
      BY <2>3, <1>0, EndsOrAnswers DEF Fails, Dies, Results
    <3>2. \A k \in Keys : Reading(p, k)' => Reading(p, k)
      <4>1. CASE End(p)
        BY <4>1, <1>0 DEF End, NoJob, Reading
      <4>2. CASE Fails(p)
        BY <4>2, <3>1, NilIsNoKey DEF Fails, GoesOn, Reading
      <4> QED BY <2>3, <4>1, <4>2 DEF Dies
    <3> QED BY <1>0, <2>1, <3>1, <3>2, QuietJob DEF GoesOn
  <2> QED BY <1>2, <2>2, <2>3
<1>3. ASSUME NEW p \in Procs, NEW k \in Keys, Deliver(p, k) PROVE ReadInv'
  <2>1. UNCHANGED event /\ \A q \in Procs \ {p} : job'[q] = job[q]
    BY <1>3, <1>0 DEF Deliver, Begin
  <2>2. job'[p].do \in {"create", "claim"} /\ job'[p].result \in {"none", "incomplete"}
    BY <1>3, <1>0 DEF Deliver, Begin, NoJob, ToBeRead
  <2>3. \A q \in Procs, l \in Keys : Reading(q, l)' => Reading(q, l)
    BY <2>1, <2>2 DEF Reading
  <2>4. OneReaderPerEvent' BY <2>3 DEF OneReaderPerEvent, ReadInv
  <2>5. ReadersTookTheirEvents' BY <2>1, <2>2, <2>3 DEF ReadersTookTheirEvents, ReadInv, At
  <2> QED BY <1>0, <2>4, <2>5 DEF ReadInv
<1>4. ASSUME UNCHANGED <<job, event>> PROVE ReadInv'
  BY <1>0, <1>4 DEF ReadInv, OneReaderPerEvent, ReadersTookTheirEvents, Reading, At
<1>5. CASE \/ \E t \in Tasks : Advance(t) \/ Skip(t) \/ \E e \in Emails : MarkDone(t, e)
           \/ \E r \in Records : Link(r)
           \/ PauseOrResume \/ UNCHANGED vars
  BY <1>5, <1>4 DEF Advance, Skip, MarkDone, Link, PauseOrResume, vars
<1> QED BY <1>1, <1>2, <1>3, <1>5 DEF Next

(* No event is ever read by two processes at once, for any number of       *)
(* processes, records and deliveries, whichever of them fail or die.       *)
THEOREM EventsHaveOneReader == Spec => []OneReaderPerEvent
<1>1. Init => ReadInv
  <2> SUFFICES ASSUME Init PROVE ReadInv
    OBVIOUS
  <2>1. \A p \in Procs : job[p].do = "idle"
    BY DEF Init, NoJob
  <2> QED BY <2>1, InitTyped DEF ReadInv, OneReaderPerEvent, ReadersTookTheirEvents, Reading, At
<1>2. ReadInv /\ [Next]_vars => ReadInv' BY StepReads
<1>3. ReadInv => OneReaderPerEvent BY DEF ReadInv
<1> QED BY <1>1, <1>2, <1>3, PTL DEF Spec

-----------------------------------------------------------------------------
(* What it takes for no record to close two steps.                         *)
Opened(t) == task[t].state # "NONE"
Trying(p) == job[p].do \in {"check", "write"}

(* Steps open in order, and none goes back to unopened.                    *)
StepsInOrder == \A t, u \in Tasks : (u < t /\ Opened(t)) => Opened(u)

(* A job works on steps that were opened.                                  *)
JobsSeeOpened == \A p \in Procs : /\ \A t \in job[p].open : Opened(t)
                                  /\ job[p].task # Nil => Opened(job[p].task)
                                  /\ Trying(p) => job[p].task # Nil

(* A delivery judges a list with every open step before a listed one.      *)
ListsWhole == \A p \in Procs : At(p, "judge") =>
  \A t \in job[p].open, u \in Open : u < t => u \in job[p].open

(* Whoever tries to close a step tries the earliest open one its record fits. *)
FirstFit(r, t) == InWindow(r, t) /\ ~PassesOver(r, t)
TriesFirst == ~passed => \A p \in Procs : Trying(p) => FirstFit(job[p].rec, job[p].task)

(* Who is about to close a step still open has a record that closed none.  *)
Closing(p)   == At(p, "write") /\ job[p].task \in Open
WritesFresh == ~passed => \A p \in Procs :
  Closing(p) => \A u \in Tasks : task[u].evidence # job[p].rec

UsedInv == /\ TypeOK /\ StepsInOrder /\ JobsSeeOpened /\ ListsWhole
           /\ TriesFirst /\ WritesFresh /\ EvidenceUsedOnce

(* What a step does to the job of a process, as far as this matters.       *)
Elsewhere(p) == /\ ~Trying(p)' /\ ~At(p, "judge")'
                /\ job'[p].open \subseteq job[p].open \cup Open
                /\ job'[p].task \in {Nil, job[p].task}
Lists(p)     == At(p, "list") /\ UNCHANGED task /\ ~Trying(p)'
                /\ job'[p].open = Open /\ job'[p].task = job[p].task
Judges(p)    == /\ At(p, "judge") /\ UNCHANGED <<task, passed>> /\ job'[p].do = "check"
                /\ job'[p].open = {} /\ job'[p].rec = job[p].rec
                /\ job'[p].task \in Earliest({t \in job[p].open : InWindow(job[p].rec, t)})
Catches(p)   == /\ UNCHANGED task /\ job'[p].do = "check" /\ job'[p].open \subseteq job[p].open
                /\ job'[p].task \in job[p].open /\ InWindow(job'[p].rec, job'[p].task)
                /\ passed' = (passed \/ PassesOver(job'[p].rec, job'[p].task))
Checks(p)    == /\ At(p, "check") /\ UNCHANGED <<task, passed>> /\ job'[p].do = "write"
                /\ job'[p].open = job[p].open /\ job'[p].rec = job[p].rec
                /\ job'[p].task = job[p].task
                /\ \A u \in Tasks : task[u].evidence # job[p].rec
JobMoves(p)  == Elsewhere(p) \/ Lists(p) \/ Judges(p) \/ Catches(p) \/ Checks(p)

(* Ending and answering leave the judging and the trying.                  *)
LEMMA EndsElsewhere ==
  ASSUME NEW p \in Procs, job \in [Procs -> Job],
         End(p) \/ \E result \in Results : Answer(p, result)
  PROVE  Elsewhere(p)
<1>1. CASE End(p) BY <1>1 DEF End, NoJob, Elsewhere, Trying, At
<1>2. ASSUME NEW result \in Results, Answer(p, result) PROVE Elsewhere(p)
  <2>1. CASE job[p].key = Nil
    BY <1>2, <2>1 DEF Answer, NoJob, Elsewhere, Trying, At
  <2>2. CASE job[p].key # Nil
    BY <1>2, <2>2 DEF Answer, NoJob, Elsewhere, Trying, At
  <2> QED BY <2>1, <2>2
<1> QED BY <1>1, <1>2

(* The step of one job, in those terms.                                    *)
LEMMA JobStepMoves ==
  ASSUME NEW p \in Procs, job \in [Procs -> Job], JobStep(p)
  PROVE  JobMoves(p)
<1> USE EndsElsewhere
<1>0. job[p] \in Job
  OBVIOUS
<1>1. CASE TakeEvent(p)
  <2>1. ASSUME job' = [job EXCEPT ![p].do = "read", ![p].result = "none"] PROVE Elsewhere(p)
    BY <2>1, <1>0 DEF Job, Elsewhere, Trying, At
  <2> QED BY <1>1, <2>1 DEF TakeEvent, JobMoves
<1>2. CASE Read(p)
  <2>1. ASSUME Go(p, "list") PROVE Elsewhere(p)
    BY <2>1, <1>0 DEF Go, Job, Elsewhere, Trying, At
  <2> QED BY <1>2, <2>1 DEF Read, JobMoves, Results
<1>3. CASE Finish(p) BY <1>3 DEF Finish, JobMoves
<1>4. CASE ListTasks(p)
  <2>1. ASSUME job' = [job EXCEPT ![p].do = "judge", ![p].open = Open], ListTasks(p) PROVE Lists(p)
    BY <2>1, <1>0 DEF ListTasks, Job, Lists, Trying, At
  <2> QED BY <1>4, <2>1 DEF ListTasks, JobMoves, Results
<1>5. CASE Judge(p)
  <2>1. ASSUME NEW t \in Earliest({u \in job[p].open : InWindow(job[p].rec, u)}), Judge(p),
               job' = [job EXCEPT ![p].do = "check", ![p].task = t, ![p].open = {}]
        PROVE Judges(p)
    BY <2>1, <1>0 DEF Judge, Job, Judges, At
  <2> QED BY <1>5, <2>1 DEF Judge, JobMoves, Results
<1>6. CASE Check(p)
  <2>1. ASSUME Go(p, "write"), Check(p), \A u \in Tasks : task[u].evidence # job[p].rec
        PROVE Checks(p)
    BY <2>1, <1>0 DEF Go, Check, Job, Checks, At
  <2> QED BY <1>6, <2>1 DEF Check, JobMoves, Results
<1>7. CASE Write(p)
  <2>1. ASSUME Go(p, "count") PROVE Elsewhere(p)
    BY <2>1, <1>0 DEF Go, Job, Elsewhere, Trying, At
  <2> QED BY <1>7, <2>1 DEF Write, JobMoves, Results
<1>8. CASE Count(p) BY <1>8 DEF Count, JobMoves, Results
<1>9. CASE CatchNext(p)
  <2>0. job[p].do = "catch"
    BY <1>9 DEF CatchNext, At
  <2>1. ASSUME NEW t \in job[p].open, job' = [job EXCEPT ![p].open = @ \ {t}] PROVE Elsewhere(p)
    <3>1. job'[p] = [job[p] EXCEPT !.open = @ \ {t}]
      BY <2>1
    <3> QED BY <3>1, <2>0, <1>0 DEF Job, Elsewhere, Trying, At
  <2>2. ASSUME NEW t \in job[p].open, NEW r \in Uncounted(t), UNCHANGED task,
               job' = [job EXCEPT ![p].do = "check", ![p].rec = r, ![p].task = t,
                                  ![p].open = @ \ {t}],
               passed' = (passed \/ PassesOver(r, t))
        PROVE Catches(p)
    <3>1. job'[p] = [job[p] EXCEPT !.do = "check", !.rec = r, !.task = t, !.open = @ \ {t}]
      BY <2>2
    <3>2. /\ job'[p].do = "check" /\ job'[p].rec = r /\ job'[p].task = t
          /\ job'[p].open = job[p].open \ {t}
      BY <3>1, <1>0 DEF Job
    <3>3. InWindow(r, t)
      BY <2>2 DEF Uncounted
    <3> QED BY <3>2, <3>3, <2>2 DEF Catches
  <2>3. CASE End(p) BY <2>3 DEF JobMoves
  <2>4. CASE ~End(p)
    <3>1. PICK t \in Earliest(job[p].open) :
            \/ job' = [job EXCEPT ![p].open = @ \ {t}]
            \/ \E r \in Oldest({v \in Uncounted(t) : IsFree(v)}) :
                 /\ job' = [job EXCEPT ![p].do = "check", ![p].rec = r, ![p].task = t,
                                       ![p].open = @ \ {t}]
                 /\ passed' = (passed \/ PassesOver(r, t))
      BY <1>9, <2>4 DEF CatchNext
    <3>2. t \in job[p].open /\ UNCHANGED task
      BY <1>9 DEF Earliest, CatchNext
    <3> QED BY <3>1, <3>2, <2>1, <2>2 DEF Oldest, JobMoves
  <2> QED BY <2>3, <2>4
<1> QED BY <1>1, <1>2, <1>3, <1>4, <1>5, <1>6, <1>7, <1>8, <1>9 DEF JobStep

(* No step touches two jobs.                                               *)
LEMMA OthersWait ==
  ASSUME NEW p \in Procs, job \in [Procs -> Job],
         \/ JobStep(p) \/ CatchUp(p) \/ Fails(p) \/ Dies(p) \/ \E k \in Keys : Deliver(p, k)
  PROVE  \A q \in Procs \ {p} : job'[q] = job[q]
<1>1. CASE JobStep(p)
  <2>1. CASE TakeEvent(p) \/ Read(p) \/ Finish(p) \/ ListTasks(p) \/ Judge(p)
    BY <2>1 DEF TakeEvent, Read, Finish, ListTasks, Judge, End, Go, Answer
  <2>2. CASE Check(p) \/ Write(p) \/ Count(p)
    BY <2>2 DEF Check, Write, Count, End, Go, Answer
  <2>3. CASE CatchNext(p) BY <2>3 DEF CatchNext, End
  <2> QED BY <1>1, <2>1, <2>2, <2>3 DEF JobStep
<1>2. CASE CatchUp(p) \/ Fails(p) \/ Dies(p) \/ \E k \in Keys : Deliver(p, k)
  BY <1>2 DEF CatchUp, Fails, Dies, Deliver, Begin, End, Answer
<1> QED BY <1>1, <1>2

(* Every step does that to the job of one process and leaves the others,   *)
(* or leaves them all.                                                     *)
LEMMA EveryJobMoves ==
  ASSUME TypeOK, [Next]_vars, NEW q \in Procs
  PROVE  job'[q] = job[q] \/ JobMoves(q)
<1>0. job \in [Procs -> Job]
  BY DEF TypeOK
<1>1. ASSUME NEW p \in Procs,
             \/ JobStep(p) \/ CatchUp(p) \/ Fails(p) \/ Dies(p) \/ \E k \in Keys : Deliver(p, k)
      PROVE  job'[q] = job[q] \/ JobMoves(q)
  <2>1. CASE q # p BY <1>0, <1>1, <2>1, OthersWait
  <2>2. CASE q = p
    <3>1. CASE JobStep(p) BY <1>0, <2>2, <3>1, JobStepMoves
    <3>2. CASE CatchUp(p)
      BY <1>0, <2>2, <3>2 DEF CatchUp, Begin, NoJob, Candidates, JobMoves, Elsewhere, Trying, At
    <3>3. CASE Fails(p) \/ Dies(p)
      BY <1>0, <2>2, <3>3, EndsElsewhere DEF Fails, Dies, JobMoves, Results
    <3>4. ASSUME NEW k \in Keys, Deliver(p, k) PROVE JobMoves(q)
      <4>1. job'[p].do \in {"create", "claim"} /\ job'[p].open = {} /\ job'[p].task = Nil
        BY <1>0, <3>4 DEF Deliver, Begin, NoJob
      <4> QED BY <2>2, <4>1 DEF JobMoves, Elsewhere, Trying, At
    <3> QED BY <1>1, <3>1, <3>2, <3>3, <3>4
  <2> QED BY <2>1, <2>2
<1>2. ASSUME UNCHANGED job PROVE job'[q] = job[q]
  BY <1>2
<1> QED BY <1>1, <1>2 DEF Next, Advance, Skip, MarkDone, Link, PauseOrResume, vars

(* What a step does to the steps of the campaign.                          *)
TasksGoOn == /\ \A t \in Tasks : Opened(t) => Opened(t)'
             /\ \A t \in Open' : t \in Open \/ ~Opened(t)
             /\ passed => passed'
Writes(p) == /\ Closing(p) /\ job'[p].do = "count" /\ UNCHANGED passed
             /\ \A q \in Procs \ {p} : job'[q] = job[q]
             /\ task' = [task EXCEPT ![job[p].task].state = "DONE",
                                     ![job[p].task].evidence = job[p].rec]
SameEvidence == \A t \in Tasks : task'[t].evidence = task[t].evidence

(* A person's or the scheduler's steps open, close or skip one.            *)
LEMMA HandsMove ==
  ASSUME TypeOK, StepsInOrder, NEW t \in Tasks,
         Advance(t) \/ Skip(t) \/ \E e \in Emails : MarkDone(t, e)
  PROVE  TasksGoOn /\ SameEvidence /\ StepsInOrder'
<1>0. task \in [Tasks -> TaskRow]
  BY DEF TypeOK
<1>1. PICK row \in TaskRow : /\ task' = [task EXCEPT ![t] = row]
                             /\ row.state # "NONE" /\ row.evidence = task[t].evidence
                             /\ row.state = "PENDING" => ~Opened(t)
  <2>1. CASE Advance(t)
    <3>1. [task[t] EXCEPT !.state = "PENDING"] \in TaskRow
      BY <1>0 DEF TaskRow
    <3> QED BY <1>0, <2>1, <3>1 DEF Advance, TaskRow, Opened
  <2>2. CASE Skip(t)
    <3>1. [task[t] EXCEPT !.state = "SKIPPED"] \in TaskRow
      BY <1>0 DEF TaskRow
    <3> QED BY <1>0, <2>2, <3>1 DEF Skip, TaskRow
  <2>3. ASSUME NEW e \in Emails, MarkDone(t, e)
        PROVE \E row \in TaskRow : /\ task' = [task EXCEPT ![t] = row]
                                   /\ row.state # "NONE" /\ row.evidence = task[t].evidence
                                   /\ row.state = "PENDING" => ~Opened(t)
    <3>1. [task[t] EXCEPT !.state = "DONE", !.hand = e] \in TaskRow
      BY <1>0 DEF TaskRow, Ref
    <3> QED BY <1>0, <2>3, <3>1 DEF MarkDone, TaskRow
  <2> QED BY <2>1, <2>2, <2>3
<1>2. \A u \in Tasks : task'[u] = IF u = t THEN row ELSE task[u]
  BY <1>0, <1>1
<1>3. TasksGoOn /\ SameEvidence
  <2>1. passed => passed'
    BY DEF Advance, Skip, MarkDone
  <2>2. SameEvidence
    BY <1>1, <1>2 DEF SameEvidence
  <2>3. \A u \in Tasks : Opened(u) => Opened(u)'
    BY <1>1, <1>2 DEF Opened
  <2>4. \A u \in Open' : u \in Open \/ ~Opened(u)
    BY <1>1, <1>2 DEF Open
  <2> QED BY <2>1, <2>2, <2>3, <2>4 DEF TasksGoOn
<1>4. StepsInOrder'
  <2>1. \A u \in Tasks : u < t => Opened(u)
    BY DEF Advance, Skip, MarkDone, StepsInOrder, Opened
  <2> QED BY <1>1, <1>2, <2>1 DEF StepsInOrder, Opened
<1> QED BY <1>3, <1>4

(* Every step leaves the steps of the campaign in order, and their evidence*)
(* alone unless it closes one by a record.                                 *)
LEMMA TasksMove ==
  ASSUME TypeOK, StepsInOrder, JobsSeeOpened, [Next]_vars
  PROVE  TasksGoOn /\ StepsInOrder' /\ (SameEvidence \/ \E p \in Procs : Writes(p))
<1>0. job \in [Procs -> Job] /\ task \in [Tasks -> TaskRow] /\ passed \in BOOLEAN
  BY DEF TypeOK
<1>1. ASSUME UNCHANGED task, passed => passed'
      PROVE TasksGoOn /\ StepsInOrder' /\ SameEvidence
  BY <1>1 DEF TasksGoOn, StepsInOrder, SameEvidence, Opened, Open
<1>2. ASSUME NEW p \in Procs, JobStep(p)
      PROVE  TasksGoOn /\ StepsInOrder' /\ (SameEvidence \/ Writes(p))
  <2>1. CASE ~(Write(p) /\ task[job[p].task].state = "PENDING")
    BY <1>0, <1>1, <1>2, <2>1
       DEF JobStep, TakeEvent, Read, Finish, ListTasks, Judge, Check, Write, Count, CatchNext
  <2>2. CASE Write(p) /\ task[job[p].task].state = "PENDING"
    <3>1. job[p].task \in Tasks
      <4>1. job[p] \in Job
        BY <1>0
      <4> QED BY <2>2, <4>1 DEF Write, JobsSeeOpened, Trying, At, Job, Ref
    <3>2. Writes(p)
      <4>1. job' = [job EXCEPT ![p].do = "count"] /\ UNCHANGED passed
        BY <2>2 DEF Write, Go
      <4>2. job'[p].do = "count" /\ \A q \in Procs \ {p} : job'[q] = job[q]
        BY <1>0, <4>1 DEF Job
      <4>3. Closing(p)
        BY <2>2, <3>1 DEF Write, Closing, Open
      <4> QED BY <2>2, <4>1, <4>2, <4>3 DEF Write, Writes
    <3>3. \A t \in Tasks : task'[t].state = IF t = job[p].task THEN "DONE" ELSE task[t].state
      BY <1>0, <3>1, <3>2 DEF Writes, TaskRow
    <3>4. TasksGoOn
      <4>1. passed => passed'
        BY <3>2 DEF Writes
      <4>2. \A t \in Tasks : Opened(t) => Opened(t)'
        BY <3>3 DEF Opened
      <4>3. \A t \in Open' : t \in Open
        BY <3>3 DEF Open
      <4> QED BY <4>1, <4>2, <4>3 DEF TasksGoOn
    <3>5. \A t \in Tasks : Opened(t)' => Opened(t)
      BY <2>2, <3>3 DEF Opened
    <3>6. StepsInOrder'
      BY <3>4, <3>5 DEF TasksGoOn, StepsInOrder
    <3> QED BY <3>2, <3>4, <3>6
  <2> QED BY <2>1, <2>2
<1>3. ASSUME NEW p \in Procs, CatchUp(p) \/ Fails(p) \/ Dies(p) \/ \E k \in Keys : Deliver(p, k)
      PROVE TasksGoOn /\ StepsInOrder' /\ SameEvidence
  BY <1>1, <1>3 DEF CatchUp, Fails, Dies, Deliver
<1>4. CASE (\E r \in Records : Link(r)) \/ PauseOrResume \/ UNCHANGED vars
  BY <1>1, <1>4 DEF Link, PauseOrResume, vars
<1> QED BY <1>2, <1>3, <1>4, HandsMove DEF Next

(* A step that opens is after every opened one, so it makes no try late.   *)
LEMMA StillFirst ==
  ASSUME StepsInOrder, TasksGoOn, NEW r, NEW t \in Tasks, Opened(t), FirstFit(r, t)
  PROVE  FirstFit(r, t)'
<1>1. \A u \in Open' : u < t => u \in Open
  BY DEF TasksGoOn, StepsInOrder, Open
<1> QED BY <1>1 DEF FirstFit, PassesOver, InWindow

(* Two that are about to close open steps by one record close the same one.*)
LEMMA OneFirstFit ==
  ASSUME NEW r, NEW t \in Open, NEW u \in Open, FirstFit(r, t), FirstFit(r, u)
  PROVE  t = u
BY EvidenceAssumption DEF FirstFit, PassesOver, Open, Tasks

(* Every step keeps the inductive invariant.                               *)
LEMMA StepUses == UsedInv /\ [Next]_vars => UsedInv'
<1> SUFFICES ASSUME UsedInv, [Next]_vars PROVE UsedInv'
  OBVIOUS
<1>1. TypeOK /\ StepsInOrder /\ JobsSeeOpened /\ ListsWhole
  BY DEF UsedInv
<1>2. TypeOK'
  BY <1>1, StepTyped
<1>3. TasksGoOn /\ StepsInOrder' /\ (SameEvidence \/ \E p \in Procs : Writes(p))
  BY <1>1, TasksMove
<1>4. ASSUME NEW p \in Procs PROVE job'[p] = job[p] \/ JobMoves(p)
  BY <1>1, EveryJobMoves
<1>5. \A p \in Procs : /\ job[p].open \subseteq Tasks /\ job[p].task \in Ref(Tasks)
                       /\ job'[p].open \subseteq Tasks /\ job'[p].task \in Ref(Tasks)
  BY <1>1, <1>2 DEF TypeOK, Job
<1>6. \A t \in Open : t \in Tasks /\ Opened(t)
  BY DEF Open, Opened
<1>7. JobsSeeOpened'
  <2> SUFFICES ASSUME NEW p \in Procs
               PROVE  /\ \A t \in job'[p].open : Opened(t)'
                      /\ job'[p].task # Nil => Opened(job[p].task)'
                      /\ Trying(p)' => job'[p].task # Nil
    BY DEF JobsSeeOpened
  <2>0. /\ \A t \in job[p].open : Opened(t)
        /\ job[p].task # Nil => Opened(job[p].task)
        /\ Trying(p) => job[p].task # Nil
    BY <1>1 DEF JobsSeeOpened
  <2>1. /\ \A t \in job'[p].open : Opened(t)
        /\ \A t \in Tasks : t = job'[p].task => Opened(t)
        /\ Trying(p)' => job'[p].task # Nil
    <3>1. CASE job'[p] = job[p] BY <2>0, <3>1, EvidenceAssumption DEF Trying
    <3>2. CASE Elsewhere(p) BY <2>0, <3>2, <1>6, EvidenceAssumption DEF Elsewhere
    <3>3. CASE Lists(p) BY <2>0, <3>3, <1>6, EvidenceAssumption DEF Lists
    <3>4. CASE Judges(p) BY <2>0, <3>4, <1>5, EvidenceAssumption DEF Judges, Earliest
    <3>5. CASE Catches(p) BY <2>0, <3>5, <1>5, EvidenceAssumption DEF Catches
    <3>6. CASE Checks(p) BY <2>0, <3>6, EvidenceAssumption DEF Checks, Trying, At
    <3> QED BY <1>4, <3>1, <3>2, <3>3, <3>4, <3>5, <3>6 DEF JobMoves
  <2>2. \A t \in Tasks : Opened(t) => Opened(t)'
    BY <1>3 DEF TasksGoOn
  <2>3. \A t \in job'[p].open : Opened(t)'
    BY <1>5, <2>1, <2>2
  <2>4. ASSUME job'[p].task # Nil PROVE Opened(job[p].task)'
    <3>1. PICK t \in Tasks : t = job'[p].task
      BY <1>5, <2>4 DEF Ref
    <3> QED BY <3>1, <2>1, <2>2 DEF Opened
  <2> QED BY <2>1, <2>3, <2>4
<1>8. ListsWhole'
  <2> SUFFICES ASSUME NEW p \in Procs, At(p, "judge")', NEW t \in job'[p].open, NEW u \in Open',
                      u < t
               PROVE  u \in job'[p].open
    BY DEF ListsWhole
  <2>1. CASE job'[p] = job[p]
    <3>1. t \in Tasks /\ Opened(t) /\ u \in Tasks
      BY <1>1, <1>5, <2>1 DEF JobsSeeOpened, Open
    <3>2. u \in Open
      BY <1>1, <1>3, <3>1 DEF StepsInOrder, TasksGoOn
    <3> QED BY <1>1, <2>1, <3>2 DEF ListsWhole, At
  <2>2. CASE Lists(p) BY <2>2 DEF Lists, Open
  <2> QED BY <1>4, <2>1, <2>2 DEF JobMoves, Elsewhere, Judges, Catches, Checks, At
<1>9. TriesFirst'
  <2> SUFFICES ASSUME ~passed', NEW p \in Procs, Trying(p)'
               PROVE  FirstFit(job[p].rec, job[p].task)'
    BY DEF TriesFirst
  <2>0. PICK t \in Tasks : t = job'[p].task
    <3>1. job'[p].task \in Tasks
      BY <1>5, <1>7 DEF JobsSeeOpened, Ref
    <3> QED BY <3>1
  <2>r. PICK r : r = job'[p].rec
    OBVIOUS
  <2>1. ~passed /\ (Trying(p) => FirstFit(job[p].rec, job[p].task))
    BY <1>3 DEF TasksGoOn, UsedInv, TriesFirst
  <2>2. Opened(t) /\ FirstFit(r, t)
    <3>1. CASE job'[p] = job[p]
      <4>1. t # Nil
        BY EvidenceAssumption
      <4> QED BY <1>1, <2>0, <2>r, <2>1, <3>1, <4>1 DEF Trying, JobsSeeOpened
    <3>2. CASE Judges(p)
      <4>1. t \in Earliest({v \in job[p].open : InWindow(r, v)})
        BY <2>0, <2>r, <3>2 DEF Judges
      <4>2. t \in job[p].open /\ InWindow(r, t)
        BY <4>1 DEF Earliest
      <4>3. ~PassesOver(r, t)
        <5> SUFFICES ASSUME NEW u \in Open, u < t, InWindow(r, u) PROVE FALSE
          BY DEF PassesOver
        <5>1. u \in job[p].open
          BY <1>1, <3>2, <4>2 DEF Judges, ListsWhole
        <5>2. t <= u
          BY <4>1, <5>1 DEF Earliest
        <5>3. u \in Nat /\ t \in Nat
          BY EvidenceAssumption DEF Open, Tasks
        <5> QED BY <5>2, <5>3
      <4> QED BY <1>1, <4>2, <4>3 DEF FirstFit, JobsSeeOpened
    <3>3. CASE Catches(p)
      BY <1>1, <2>0, <2>r, <3>3 DEF Catches, FirstFit, JobsSeeOpened
    <3>4. CASE Checks(p)
      <4>1. t # Nil
        BY EvidenceAssumption
      <4> QED BY <1>1, <2>0, <2>r, <2>1, <3>4, <4>1 DEF Checks, Trying, At, JobsSeeOpened
    <3> QED BY <1>4, <3>1, <3>2, <3>3, <3>4 DEF JobMoves, Elsewhere, Lists
  <2>3. FirstFit(r, t)'
    BY <1>1, <1>3, <2>2, StillFirst
  <2> QED BY <2>0, <2>r, <2>3 DEF FirstFit, InWindow, PassesOver
<1>10. WritesFresh'
  <2> SUFFICES ASSUME ~passed', NEW p \in Procs, Closing(p)', NEW u \in Tasks
               PROVE  task'[u].evidence # job'[p].rec
    BY DEF WritesFresh
  <2>1. ~passed
    BY <1>3 DEF TasksGoOn
  <2>2. CASE Checks(p) BY <2>2 DEF Checks
  <2>3. CASE job'[p] = job[p]
    <3>1. Closing(p)
      <4>1. At(p, "write") /\ job[p].task \in Open'
        BY <2>3 DEF Closing, At
      <4>2. Opened(job[p].task)
        BY <1>1, <4>1, EvidenceAssumption DEF JobsSeeOpened, Open
      <4> QED BY <1>3, <4>1, <4>2 DEF Closing, TasksGoOn
    <3>2. \A v \in Tasks : task[v].evidence # job[p].rec
      BY <2>1, <3>1 DEF UsedInv, WritesFresh
    <3>3. CASE SameEvidence BY <2>3, <3>2, <3>3 DEF SameEvidence
    <3>4. ASSUME NEW q \in Procs, Writes(q) PROVE task'[u].evidence # job'[p].rec
      <4>1. q # p
        BY <2>3, <3>1, <3>4 DEF Writes, Closing, At
      <4>2. task \in [Tasks -> TaskRow] /\ job[q].task \in Open /\ job[p].task \in Open
        BY <1>1, <3>1, <3>4 DEF TypeOK, Writes, Closing
      <4>3. job[p].task # job[q].task
        <5>1. task'[job[q].task].state = "DONE"
          BY <3>4, <4>2 DEF Writes, TaskRow, Open
        <5>2. task'[job[p].task].state = "PENDING"
          BY <2>3 DEF Closing, Open
        <5> QED BY <5>1, <5>2
      <4>4. job[p].rec # job[q].rec
        <5>1. FirstFit(job[p].rec, job[p].task) /\ FirstFit(job[q].rec, job[q].task)
          BY <2>1, <3>1, <3>4 DEF UsedInv, TriesFirst, Trying, Writes, Closing, At
        <5> QED BY <4>2, <4>3, <5>1, OneFirstFit
      <4>5. task'[u].evidence \in {task[u].evidence, job[q].rec}
        BY <3>4, <4>2 DEF Writes, TaskRow, Open
      <4> QED BY <2>3, <3>2, <4>4, <4>5
    <3> QED BY <1>3, <3>3, <3>4
  <2> QED BY <1>4, <2>2, <2>3 DEF JobMoves, Elsewhere, Lists, Judges, Catches, Closing, Trying, At
<1>11. EvidenceUsedOnce'
  <2> SUFFICES ASSUME ~passed', NEW t \in Tasks, NEW u \in Tasks, t # u,
                      task'[t].evidence # Nil, task'[t].evidence = task'[u].evidence
               PROVE  FALSE
    BY DEF EvidenceUsedOnce
  <2>1. ~passed
    BY <1>3 DEF TasksGoOn
  <2>2. \A v, w \in Tasks : (v # w /\ task[v].evidence # Nil) => task[v].evidence # task[w].evidence
    BY <2>1 DEF UsedInv, EvidenceUsedOnce
  <2>3. CASE SameEvidence BY <2>2, <2>3 DEF SameEvidence
  <2>4. ASSUME NEW q \in Procs, Writes(q) PROVE FALSE
    <3>1. \A v \in Tasks : task[v].evidence # job[q].rec
      BY <2>1, <2>4 DEF UsedInv, WritesFresh, Writes
    <3>2. task \in [Tasks -> TaskRow] /\ job[q].task \in Tasks
      BY <1>1, <2>4 DEF TypeOK, Writes, Closing, Open
    <3>3. \A v \in Tasks : task'[v].evidence = IF v = job[q].task THEN job[q].rec
                                                ELSE task[v].evidence
      BY <2>4, <3>2 DEF Writes, TaskRow
    <3> QED BY <2>2, <3>1, <3>3
  <2> QED BY <1>3, <2>3, <2>4
<1> QED BY <1>2, <1>3, <1>7, <1>8, <1>9, <1>10, <1>11 DEF UsedInv

(* No record of an email or call closes two steps, until a catch-up has    *)
(* taken a touch for a step past an open one it fits: for any number of    *)
(* steps, records, processes and pauses, whichever of them fail or die.    *)
THEOREM UsedOnce == Spec => []EvidenceUsedOnce
<1>1. Init => UsedInv
  <2> SUFFICES ASSUME Init PROVE UsedInv
    OBVIOUS
  <2>1. \A p \in Procs : job[p].do = "idle" /\ job[p].open = {} /\ job[p].task = Nil
    BY DEF Init, NoJob
  <2>2. \A t \in Tasks : ~Opened(t) /\ task[t].evidence = Nil
    BY DEF Init, Opened
  <2> QED BY <2>1, <2>2, InitTyped
          DEF UsedInv, StepsInOrder, JobsSeeOpened, ListsWhole, TriesFirst, WritesFresh,
              EvidenceUsedOnce, Trying, Closing, At
<1>2. UsedInv /\ [Next]_vars => UsedInv' BY StepUses
<1>3. UsedInv => EvidenceUsedOnce BY DEF UsedInv
<1> QED BY <1>1, <1>2, <1>3, PTL DEF Spec
=============================================================================
