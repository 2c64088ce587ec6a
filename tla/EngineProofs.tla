---------------------------- MODULE EngineProofs ----------------------------
(***************************************************************************)
(* Engine's type invariant, its locking discipline and the safety          *)
(* properties that rest on it, for every number of processes, people,      *)
(* campaigns and steps.  The last three exclude, each, the requests that   *)
(* write an enrollment without its campaign's lock.                        *)
(***************************************************************************)
EXTENDS EngineProperties, FiniteSetTheorems, SequenceTheorems, TLAPS

(* The variables that most steps leave as they are.                        *)
USE DEF aside

(* The empty transaction is a transaction. *)
LEMMA NoTxType == NoTx \in Tx
  BY EngineAssumption DEF NoTx, Tx, TxOps, Statuses, TaskStates, NoRow, AnyCampaign

(* The sets of locks a handler asks for are sets of locks. *)
LEMMA LockTypes ==
  ASSUME NEW S \in SUBSET People
  PROVE  AccountLocks(S) \subseteq Locks /\ ContactLocks(S) \subseteq Locks
  BY EngineAssumption DEF AccountLocks, ContactLocks, Locks

LEMMA CampaignLockTypes ==
  ASSUME NEW c \in Campaigns
  PROVE  CampaignLock(c) \in Locks /\ SequenceLock(c) \in Locks
  BY EngineAssumption DEF CampaignLock, SequenceLock, Locks

LEMMA RowPerson ==
  ASSUME NEW r \in Rows
  PROVE  Person(r) \in People /\ Account(r) \in Accounts \cup {NoAccount}
  BY EngineAssumption DEF Person, Account

(* There are finitely many enrollments, so any set of them can be worked   *)
(* through one by one.                                                     *)
LEMMA RowsFinite == IsFiniteSet(Rows)
  BY EngineAssumption

LEMMA OrderIsSeq ==
  ASSUME NEW S \in SUBSET Rows, NEW order \in SetToSeqs(S)
  PROVE  \E n \in Nat : order \in [1 .. n -> Rows]
<1>1. IsFiniteSet(S) BY RowsFinite, FS_Subset
<1>2. Cardinality(S) \in Nat BY <1>1, FS_CardinalityType
<1> QED BY <1>2 DEF SetToSeqs

(* A step that opens a transaction, or closes one, keeps tx well typed. *)
Typed == TypeOK /\ WritesAreResolutions

LEMMA Begins ==
  ASSUME Typed, NEW p \in Procs, NEW t \in Tx, WellFormed(t), Begin(p, t)
  PROVE  tx' \in [Procs -> Tx] /\ WritesAreResolutions'
  BY DEF Typed, TypeOK, Begin, WritesAreResolutions

LEMMA Closes ==
  ASSUME Typed, NEW p \in Procs, tx' = [tx EXCEPT ![p] = NoTx]
  PROVE  tx' \in [Procs -> Tx] /\ WritesAreResolutions'
<1>1. WellFormed(NoTx) BY DEF WellFormed, NoTx
<1> QED BY <1>1, NoTxType DEF Typed, TypeOK, WritesAreResolutions

LEMMA Proceeds ==
  ASSUME Typed, NEW p \in Procs, NEW calls \in Seq(Calls), Proceed(p, calls)
  PROVE  todo' \in [Procs -> Seq(Calls)]
<1>1. todo[p] \in Seq(Calls) BY DEF Typed, TypeOK
<1>2. Rest(p) \in Seq(Calls) BY <1>1, HeadTailProperties, EmptySeq DEF Rest
<1>3. calls \o Rest(p) \in Seq(Calls) BY <1>2, ConcatProperties
<1> QED BY <1>3 DEF Proceed, Typed, TypeOK

LEMMA CommitKeepsTypes ==
  ASSUME Typed, NEW p \in Procs, Commit(p)
  PROVE  tx' \in [Procs -> Tx] /\ WritesAreResolutions' /\ todo' \in [Procs -> Seq(Calls)]
<1>1. tx[p].then \in Seq(Calls) /\ todo[p] \in Seq(Calls) BY DEF Typed, TypeOK, Tx
<1>2. tx[p].then \o todo[p] \in Seq(Calls) BY <1>1, ConcatProperties
<1> QED BY <1>2, Closes DEF Commit, Typed, TypeOK

LEMMA Aborts ==
  ASSUME Typed, NEW p \in Procs, Raced(p) \/ Rollback(p)
  PROVE  Typed'
<1>1. tx' = [tx EXCEPT ![p] = NoTx] BY DEF Raced, Rollback, Abort
<1>2. todo' \in [Procs -> Seq(Calls)] BY EmptySeq DEF Raced, Rollback, Abort, Typed, TypeOK
<1> QED BY <1>1, <1>2, Closes DEF Raced, Rollback, Abort, Typed, TypeOK

-----------------------------------------------------------------------------
(* Every action keeps the types, and what it opens is well formed. *)

LEMMA EnrRowType ==
  ASSUME TypeOK, NEW r \in Rows
  PROVE  /\ enr[r] \in EnrRow
         /\ enr[r].status \in Statuses /\ enr[r].step \in -1 .. NumSteps - 1
         /\ enr[r].camp \in Campaigns
  BY DEF TypeOK, EnrRow

LEMMA NewRowType ==
  ASSUME NEW c \in Campaigns, NEW fixed \in BOOLEAN
  PROVE  NewRow(c, fixed) \in EnrRow
  BY EngineAssumption DEF NewRow, EnrRow, Statuses, Occupying

LEMMA AdvanceLocksType ==
  ASSUME TypeOK, NEW r \in Rows
  PROVE  AdvanceLocks(r) \subseteq Locks
  BY EnrRowType, RowPerson, LockTypes, CampaignLockTypes DEF AdvanceLocks

LEMMA SetTasksType ==
  ASSUME TypeOK, NEW K, NEW state \in TaskStates
  PROVE  SetTasks(K, state) \in [Keys -> TaskStates]
  BY DEF TypeOK, SetTasks

LEMMA SetStatusType ==
  ASSUME TypeOK, NEW R, NEW st \in Statuses
  PROVE  SetStatus(R, st) \in [Rows -> EnrRow]
  BY DEF TypeOK, SetStatus, EnrRow

LEMMA StepsAreSteps ==
  ASSUME NEW s \in Steps
  PROVE  s \in 0 .. NumSteps /\ s \in -1 .. NumSteps - 1 /\ s - 1 \in -1 .. NumSteps - 1
  BY EngineAssumption DEF Steps

LEMMA NoCalls == <<>> \in Seq(Calls)
  BY EmptySeq

(* A request that names one call. *)
LEMMA OneCall ==
  ASSUME NEW c \in Calls
  PROVE  << c >> \in Seq(Calls)
  OBVIOUS

LEMMA AdvanceGenerateTyped ==
  ASSUME Typed, NEW p \in Procs, NEW r \in Rows, AdvanceGenerate(p, r)
  PROVE  Typed'
<1>1. PICK skip \in SUBSET Actions :
        Begin(p, [NoTx EXCEPT !.op = "generate", !.row = r, !.step = enr[r].step + 1,
                              !.skip = skip, !.held = AdvanceLocks(r)])
  BY DEF AdvanceGenerate
<1> DEFINE t == [NoTx EXCEPT !.op = "generate", !.row = r, !.step = enr[r].step + 1,
                             !.skip = skip, !.held = AdvanceLocks(r)]
<1>2. enr[r].step + 1 \in Steps
  BY EnrRowType, EngineAssumption DEF AdvanceGenerate, LastStep, Steps, Typed
<1>3. t \in Tx
  BY <1>2, NoTxType, AdvanceLocksType, StepsAreSteps DEF Tx, TxOps, Typed
<1>4. WellFormed(t)
  BY <1>2, NoTxType DEF WellFormed, Tx
<1> HIDE DEF t
<1>5. tx' \in [Procs -> Tx] /\ WritesAreResolutions'
  BY <1>1, <1>3, <1>4, Begins DEF t
<1> QED
  BY <1>5, NoCalls, Proceeds DEF AdvanceGenerate, InCrm, Typed, TypeOK

LEMMA GenerateCommitTyped ==
  ASSUME Typed, NEW p \in Procs, GenerateCommit(p)
  PROVE  Typed'
<1> DEFINE r == tx[p].row
           new == {Key(r, tx[p].step, a) : a \in Actions}
<1>1. tx[p].op = "generate" /\ r \in Rows /\ tx[p].step \in Steps
  BY DEF GenerateCommit, Typed, WritesAreResolutions, WellFormed, TxOps
<1>2. CASE Raced(p) BY <1>2, Aborts
<1>3. CASE ~Raced(p)
  <2> HIDE DEF new
  <2>1. /\ task' = [k \in Keys |-> IF k \notin new THEN task[k]
                                   ELSE IF k[3] \in tx[p].skip THEN "SKIPPED" ELSE "PENDING"]
        /\ enr' = [enr EXCEPT ![r].step = tx[p].step]
        /\ Commit(p) /\ UNCHANGED <<campaign, blocked, optedOut, aside>>
    BY <1>3 DEF GenerateCommit, new
  <2>2. task' \in [Keys -> TaskStates] BY <2>1 DEF Typed, TypeOK, TaskStates
  <2>3. enr' \in [Rows -> EnrRow]
    BY <1>1, <2>1, StepsAreSteps DEF Typed, TypeOK, EnrRow
  <2> QED BY <2>1, <2>2, <2>3, CommitKeepsTypes DEF Typed, TypeOK
<1> QED BY <1>2, <1>3

LEMMA AdvanceCompleteTyped ==
  ASSUME Typed, NEW p \in Procs, NEW r \in Rows, AdvanceComplete(p, r)
  PROVE  Typed'
<1> DEFINE repeat == Repeats(r)
           t == [NoTx EXCEPT !.op = "complete", !.row = r, !.repeat = repeat,
                             !.held = AdvanceLocks(r)]
<1>1. Begin(p, t) BY DEF AdvanceComplete
<1>2. repeat \in BOOLEAN BY DEF Repeats
<1> HIDE DEF repeat
<1>3. t \in Tx BY <1>2, NoTxType, AdvanceLocksType DEF Tx, TxOps, Typed
<1>4. WellFormed(t) BY NoTxType DEF WellFormed, Tx
<1> HIDE DEF t
<1>5. tx' \in [Procs -> Tx] /\ WritesAreResolutions' BY <1>1, <1>3, <1>4, Begins
<1> QED
  BY <1>5, NoCalls, Proceeds DEF AdvanceComplete, InCrm, Typed, TypeOK

LEMMA CompleteCommitTyped ==
  ASSUME Typed, NEW p \in Procs, CompleteCommit(p)
  PROVE  Typed'
<1> DEFINE r == tx[p].row
           done == [enr EXCEPT ![r].status = "COMPLETED"]
<1>1. r \in Rows
  BY DEF CompleteCommit, Typed, WritesAreResolutions, WellFormed, TxOps
<1>2. done \in [Rows -> EnrRow]
  BY <1>1 DEF Typed, TypeOK, EnrRow, Statuses, Ended
<1>3. NewRow(enr[r].camp, FALSE) \in EnrRow
  BY <1>1, EnrRowType, NewRowType DEF Typed
<1>4. enr' = done \/ \E q \in Rows : enr' = [done EXCEPT ![q] = NewRow(enr[r].camp, FALSE)]
  BY DEF CompleteCommit
<1> HIDE DEF done, r
<1>5. enr' \in [Rows -> EnrRow] BY <1>2, <1>3, <1>4
<1> QED BY <1>5, CommitKeepsTypes DEF CompleteCommit, Typed, TypeOK

LEMMA AdvanceElseTyped ==
  ASSUME Typed, NEW p \in Procs, NEW r \in Rows, AdvanceEndsCold(p, r) \/ AdvanceWaits(p, r)
  PROVE  Typed'
<1>1. << <<"exit", r>> >> \in Seq(Calls)
  BY OneCall DEF Calls
<1>2. todo' \in [Procs -> Seq(Calls)]
  BY <1>1, NoCalls, Proceeds DEF AdvanceEndsCold, AdvanceWaits
<1> QED
  BY <1>2 DEF AdvanceEndsCold, AdvanceWaits, Typed, TypeOK, WritesAreResolutions

LEMMA ResolveTyped ==
  ASSUME Typed, NEW p \in Procs, NEW k \in Keys, NEW request, NEW state \in {"DONE", "SKIPPED"},
         NEW calls \in Seq(Calls), Resolve(p, request, k, state, calls)
  PROVE  Typed'
<1> DEFINE t == [NoTx EXCEPT !.op = "resolve", !.row = k[1], !.open = {k}, !.to = state,
                             !.then = calls]
<1>1. k[1] \in Rows BY DEF Keys
<1>2. t \in Tx BY <1>1, NoTxType DEF Tx, TxOps, TaskStates
<1>3. WellFormed(t) BY <1>1, NoTxType DEF WellFormed, Tx
<1>4. Begin(p, t) BY DEF Resolve
<1> HIDE DEF t
<1> QED BY <1>2, <1>3, <1>4, Begins DEF Resolve, Typed, TypeOK

LEMMA TaskHandlersTyped ==
  ASSUME Typed, NEW p \in Procs, NEW k \in Keys, TaskHandlers(p, k)
  PROVE  Typed'
<1>1. k[1] \in Rows /\ Person(k[1]) \in People BY RowPerson DEF Keys
<1>2. /\ << <<"advance", k[1]>> >> \in Seq(Calls)
      /\ << <<"reply", k[1]>> >> \in Seq(Calls)
      /\ << <<"optOut", Person(k[1])>>, <<"exit", k[1]>> >> \in Seq(Calls)
  BY <1>1 DEF Calls
<1> QED
  BY <1>2, ResolveTyped DEF TaskHandlers, ResolveTask, AnsweredCall, AskedToStop

LEMMA ResolveCommitTyped ==
  ASSUME Typed, NEW p \in Procs, ResolveCommit(p)
  PROVE  Typed'
<1>1. CASE Raced(p) BY <1>1, Aborts
<1>2. CASE ~Raced(p)
  <2>1. tx[p].to \in TaskStates
    BY <1>2 DEF ResolveCommit, Typed, WritesAreResolutions, WellFormed, TaskStates
  <2>2. task' \in [Keys -> TaskStates]
    BY <1>2, <2>1, SetTasksType DEF ResolveCommit, Typed
  <2> QED BY <1>2, <2>2, CommitKeepsTypes DEF ResolveCommit, Typed, TypeOK
<1> QED BY <1>1, <1>2

LEMMA OpenType ==
  ASSUME NEW r
  PROVE  Open(r) \in SUBSET Keys
  BY DEF Open

LEMMA EndEnrollmentTyped ==
  ASSUME Typed, NEW p \in Procs, NEW name, NEW r \in Rows, EndEnrollment(p, name, r)
  PROVE  Typed'
<1> DEFINE rows == IF name = "reply" THEN Colleagues(r) ELSE {}
           t == [NoTx EXCEPT !.op = "end", !.row = r, !.to = EndStatus[name], !.open = Open(r),
                             !.rows = rows]
<1>1. rows \in SUBSET Rows BY DEF Colleagues, RowsOfAccount
<1>2. EndStatus[name] \in Ended BY DEF EndEnrollment, EndStatus, Ended
<1>3. Begin(p, t) BY DEF EndEnrollment
<1> HIDE DEF rows
<1>4. t \in Tx BY <1>1, <1>2, NoTxType, OpenType DEF Tx, TxOps, Statuses
<1>5. WellFormed(t) BY <1>2, NoTxType DEF WellFormed, Tx
<1> HIDE DEF t
<1>6. tx' \in [Procs -> Tx] /\ WritesAreResolutions' BY <1>3, <1>4, <1>5, Begins
<1> QED BY <1>6, NoCalls, Proceeds DEF EndEnrollment, Typed, TypeOK

LEMMA EndCommitTyped ==
  ASSUME Typed, NEW p \in Procs, EndCommit(p)
  PROVE  Typed'
<1> DEFINE t == tx[p]
           after == [r \in Rows |->
                  IF r = t.row THEN [enr[r] EXCEPT !.status = t.to]
                  ELSE IF r \in t.rows THEN [enr[r] EXCEPT !.status = "PAUSED", !.byCampaign = FALSE]
                  ELSE enr[r]]
<1>1. t.to \in Statuses
  BY DEF EndCommit, Typed, WritesAreResolutions, WellFormed, Statuses
<1>2. after \in [Rows -> EnrRow]
  BY <1>1 DEF Typed, TypeOK, EnrRow, Statuses, Occupying
<1>3. CASE Rollback(p) BY <1>3, Aborts
<1>4. CASE ~Rollback(p)
  <2>1. enr' = after /\ task' = SetTasks(t.open, "CANCELLED") /\ Commit(p)
        /\ UNCHANGED <<campaign, blocked, optedOut, aside>>
    BY <1>4 DEF EndCommit
  <2>2. task' \in [Keys -> TaskStates] BY <2>1, SetTasksType DEF Typed, TaskStates
  <2> HIDE DEF after, t
  <2> QED BY <1>2, <2>1, <2>2, CommitKeepsTypes DEF Typed, TypeOK
<1> QED BY <1>3, <1>4

LEMMA PauseTyped ==
  ASSUME Typed, NEW p \in Procs, NEW r \in Rows, Pause(p, r)
  PROVE  Typed'
<1> DEFINE t == [NoTx EXCEPT !.op = "pause", !.row = r]
<1>1. t \in Tx BY NoTxType DEF Tx, TxOps
<1>2. WellFormed(t) BY NoTxType DEF WellFormed, Tx
<1>3. Begin(p, t) BY DEF Pause
<1> HIDE DEF t
<1> QED BY <1>1, <1>2, <1>3, Begins DEF Pause, Typed, TypeOK

LEMMA ResumeLocksType ==
  ASSUME TypeOK, NEW r \in Rows
  PROVE  ResumeLocks(r) \subseteq Locks
  BY EnrRowType, RowPerson, LockTypes, CampaignLockTypes DEF ResumeLocks

LEMMA ResumeTyped ==
  ASSUME Typed, NEW p \in Procs, NEW r \in Rows, Resume(p, r)
  PROVE  Typed'
<1> DEFINE calls == << <<"advance", r>> >>
           t == [NoTx EXCEPT !.op = "resume", !.row = r, !.held = ResumeLocks(r), !.then = calls]
<1>1. calls \in Seq(Calls) BY OneCall DEF Calls
<1>2. Begin(p, t) BY DEF Resume
<1> HIDE DEF calls
<1>3. t \in Tx BY <1>1, NoTxType, ResumeLocksType DEF Tx, TxOps, Typed
<1>4. WellFormed(t) BY NoTxType DEF WellFormed, Tx
<1> HIDE DEF t
<1>5. tx' \in [Procs -> Tx] /\ WritesAreResolutions' BY <1>2, <1>3, <1>4, Begins
<1> QED BY <1>5, NoCalls, Proceeds DEF Resume, Typed, TypeOK

LEMMA MoveTyped ==
  ASSUME Typed, NEW p \in Procs, NEW r \in Rows, NEW target \in Steps, Move(p, r, target)
  PROVE  Typed'
<1> DEFINE calls == << <<"force", r>> >>
           t == [NoTx EXCEPT !.op = "move", !.row = r, !.step = target, !.open = Open(r),
                             !.then = calls]
<1>1. calls \in Seq(Calls) BY OneCall DEF Calls
<1>2. Begin(p, t) BY DEF Move
<1> HIDE DEF calls
<1>3. t \in Tx BY <1>1, NoTxType, OpenType, StepsAreSteps DEF Tx, TxOps
<1>4. WellFormed(t) BY NoTxType DEF WellFormed, Tx
<1> HIDE DEF t
<1> QED BY <1>2, <1>3, <1>4, Begins DEF Move, Typed, TypeOK

(* What pauses, resumes and moves write of an enrollment keeps its type.    *)
LEMMA StatusWritten ==
  ASSUME NEW o \in EnrRow, NEW st \in Statuses
  PROVE  [o EXCEPT !.status = st, !.byCampaign = FALSE] \in EnrRow
BY DEF EnrRow

LEMMA StepWritten ==
  ASSUME NEW r \in Rows, NEW st \in Statuses, NEW s \in -1 .. NumSteps - 1, enr \in [Rows -> EnrRow]
  PROVE  [enr EXCEPT ![r].status = st, ![r].byCampaign = FALSE, ![r].step = s] \in [Rows -> EnrRow]
<1>1. enr[r] \in EnrRow
  OBVIOUS
<1> DEFINE row == [enr[r] EXCEPT !.status = st, !.byCampaign = FALSE, !.step = s]
<1>2. row \in EnrRow
  BY <1>1 DEF EnrRow
<1> HIDE DEF row
<1>3. [enr EXCEPT ![r] = row] \in [Rows -> EnrRow]
  BY <1>2
<1> QED BY <1>3 DEF row

LEMMA RewriteCommitTyped ==
  ASSUME Typed, NEW p \in Procs, RewriteCommit(p)
  PROVE  Typed'
<1>1. CASE ~OnePerPerson(Rewritten(tx[p]))
  <2>1. /\ Abort(p) /\ UNCHANGED <<enr, task, campaign, blocked, optedOut, moved, over, slipped>>
        /\ dropped' = dropped \cup GivenUp(p)
    BY <1>1 DEF RewriteCommit
  <2>2. dropped' \subseteq Rows
    <3>1. tx[p].row \in Rows
      BY DEF RewriteCommit, Typed, WritesAreResolutions, WellFormed, TxOps
    <3> QED BY <2>1, <3>1 DEF GivenUp, Typed, TypeOK
  <2>3. todo' \in [Procs -> Seq(Calls)] BY <2>1, EmptySeq DEF Abort, Typed, TypeOK
  <2>4. tx' = [tx EXCEPT ![p] = NoTx] BY <2>1 DEF Abort
  <2> QED BY <2>1, <2>2, <2>3, <2>4, Closes DEF Typed, TypeOK
<1>2. CASE OnePerPerson(Rewritten(tx[p]))
  <2>1. tx[p].row \in Rows /\ tx[p].op \in {"pause", "resume", "move"}
    BY DEF RewriteCommit, Typed, WritesAreResolutions, WellFormed, TxOps
  <2>2. tx[p].op = "move" => tx[p].step - 1 \in -1 .. NumSteps - 1
    BY StepsAreSteps DEF Typed, WritesAreResolutions, WellFormed
  <2>3. Rewritten(tx[p]) \in [Rows -> EnrRow]
    <3>0. enr \in [Rows -> EnrRow] /\ "PAUSED" \in Statuses /\ "ACTIVE" \in Statuses
      BY DEF Typed, TypeOK, Statuses, Occupying
    <3>1. CASE tx[p].op = "pause"
      <4>1. PICK row : row = [enr[tx[p].row] EXCEPT !.status = "PAUSED", !.byCampaign = FALSE]
        OBVIOUS
      <4>2. enr[tx[p].row] \in EnrRow /\ "PAUSED" \in Statuses
        BY <2>1, <3>0
      <4>3. row \in EnrRow
        BY <4>1, <4>2, StatusWritten
      <4>4. Rewritten(tx[p]) = [enr EXCEPT ![tx[p].row] = row]
        BY <3>1, <4>1 DEF Rewritten
      <4> QED BY <2>1, <3>0, <4>3, <4>4
    <3>2. CASE tx[p].op = "resume"
      <4>1. PICK row : row = [enr[tx[p].row] EXCEPT !.status = "ACTIVE", !.byCampaign = FALSE]
        OBVIOUS
      <4>2. enr[tx[p].row] \in EnrRow /\ "ACTIVE" \in Statuses
        BY <2>1, <3>0
      <4>3. row \in EnrRow
        BY <4>1, <4>2, StatusWritten
      <4>4. Rewritten(tx[p]) = [enr EXCEPT ![tx[p].row] = row]
        BY <3>2, <4>1 DEF Rewritten
      <4> QED BY <2>1, <3>0, <4>3, <4>4
    <3>3. CASE tx[p].op = "move"
      <4>1. Rewritten(tx[p]) = [enr EXCEPT ![tx[p].row].status = "ACTIVE",
                                           ![tx[p].row].byCampaign = FALSE,
                                           ![tx[p].row].step = tx[p].step - 1]
        BY <3>3 DEF Rewritten
      <4> DEFINE s == tx[p].step - 1
      <4>2. s \in -1 .. NumSteps - 1 BY <2>2, <3>3
      <4> HIDE DEF s
      <4>3. [enr EXCEPT ![tx[p].row].status = "ACTIVE", ![tx[p].row].byCampaign = FALSE,
                        ![tx[p].row].step = s] \in [Rows -> EnrRow]
        BY <2>1, <3>0, <4>2, StepWritten
      <4> QED BY <4>1, <4>3 DEF s
    <3> QED BY <2>1, <3>1, <3>2, <3>3
  <2>4. task' \in [Keys -> TaskStates]
    BY <1>2, SetTasksType DEF RewriteCommit, Typed, TaskStates
  <2>5. /\ enr' = Rewritten(tx[p]) /\ Commit(p)
        /\ slipped' = slipped \cup {r \in Rows : r = tx[p].row /\ HasLeft(r)}
        /\ UNCHANGED <<campaign, blocked, optedOut, moved, over, dropped>>
    BY <1>2 DEF RewriteCommit
  <2> QED BY <2>3, <2>4, <2>5, CommitKeepsTypes DEF Typed, TypeOK
<1> QED BY <1>1, <1>2

(* Handlers that only go on to other calls. *)
LEMMA OrderedCalls ==
  ASSUME NEW S \in SUBSET Rows, NEW order \in SetToSeqs(S),
         NEW name \in {"advance", "exit", "resume"}
  PROVE  [i \in DOMAIN order |-> <<name, order[i]>>] \in Seq(Calls)
<1>1. PICK n \in Nat : order \in [1 .. n -> Rows] BY OrderIsSeq
<1>2. \A r \in Rows : <<name, r>> \in Calls BY DEF Calls
<1>3. [i \in DOMAIN order |-> <<name, order[i]>>] \in [1 .. n -> Calls] BY <1>1, <1>2
<1> QED BY <1>3, SeqDef

RowCalls(p, r) == ResumeRefused(p, r) \/ \E name \in DOMAIN EndStatus : EndSkipped(p, name, r)
CampaignCalls(p, c) == LaunchSkipped(p, c) \/ ResumeAll(p, c) \/ ResumeCampaign(p, c)
PersonCalls(p, person) == OptOut(p, person) \/ ExitAll(p, person)

LEMMA RowCallsTyped ==
  ASSUME Typed, NEW p \in Procs, NEW r \in Rows, RowCalls(p, r)
  PROVE  Typed'
<1>1. todo' \in [Procs -> Seq(Calls)]
  BY NoCalls, Proceeds DEF RowCalls, EndSkipped, ResumeRefused
<1> QED BY <1>1 DEF RowCalls, EndSkipped, ResumeRefused, Typed, TypeOK, WritesAreResolutions

LEMMA CampaignCallsTyped ==
  ASSUME Typed, NEW p \in Procs, NEW c \in Campaigns, CampaignCalls(p, c)
  PROVE  Typed'
<1>1. todo' \in [Procs -> Seq(Calls)]
  <2>1. CASE LaunchSkipped(p, c)
    BY <2>1, NoCalls, Proceeds DEF LaunchSkipped
  <2>2. CASE ResumeAll(p, c)
    <3>1. PausedByCampaign(c) \in SUBSET Rows
      BY DEF PausedByCampaign, RowsOfCampaign
    <3>2. PICK order \in SetToSeqs(PausedByCampaign(c)) :
            Proceed(p, [i \in DOMAIN order |-> <<"resume", order[i]>>])
      BY <2>2 DEF ResumeAll
    <3>3. [i \in DOMAIN order |-> <<"resume", order[i]>>] \in Seq(Calls)
      BY <3>1, OrderedCalls
    <3> QED BY <3>2, <3>3, Proceeds
  <2>3. CASE ResumeCampaign(p, c)
    <3>1. << <<"resumeAll", c>>, <<"launch", c>> >> \in Seq(Calls) BY DEF Calls
    <3> QED BY <2>3, <3>1, Proceeds DEF ResumeCampaign
  <2> QED BY <2>1, <2>2, <2>3 DEF CampaignCalls
<1>2. campaign' \in [Campaigns -> CampaignStatuses]
  BY DEF CampaignCalls, LaunchSkipped, ResumeAll, ResumeCampaign, Typed, TypeOK, CampaignStatuses
<1>3. UNCHANGED <<enr, task, blocked, optedOut, moved, over, slipped, tx>>
  BY DEF CampaignCalls, LaunchSkipped, ResumeAll, ResumeCampaign
<1>4. dropped' \subseteq dropped
  BY DEF CampaignCalls, LaunchSkipped, ResumeAll, ResumeCampaign
<1> QED BY <1>1, <1>2, <1>3, <1>4 DEF Typed, TypeOK, WritesAreResolutions

LEMMA PersonCallsTyped ==
  ASSUME Typed, NEW p \in Procs, NEW person \in People, PersonCalls(p, person)
  PROVE  Typed'
<1>1. todo' \in [Procs -> Seq(Calls)]
  <2>1. << <<"exitAll", person>> >> \in Seq(Calls) BY OneCall DEF Calls
  <2>2. CASE OptOut(p, person) BY <2>1, <2>2, Proceeds DEF OptOut
  <2>3. CASE ExitAll(p, person)
    <3> DEFINE S == {r \in Rows : Person(r) = person /\ enr[r].status \in Occupying}
    <3>1. PICK order \in SetToSeqs(S) : Proceed(p, [i \in DOMAIN order |-> <<"exit", order[i]>>])
      BY <2>3 DEF ExitAll
    <3> HIDE DEF S
    <3>2. S \in SUBSET Rows BY DEF S
    <3>3. [i \in DOMAIN order |-> <<"exit", order[i]>>] \in Seq(Calls)
      BY <3>1, <3>2, OrderedCalls
    <3> QED BY <3>1, <3>3, Proceeds
  <2> QED BY <2>2, <2>3 DEF PersonCalls
<1>2. optedOut' \subseteq People BY DEF PersonCalls, OptOut, ExitAll, Typed, TypeOK
<1>3. UNCHANGED <<enr, task, campaign, blocked, aside, tx>> BY DEF PersonCalls, OptOut, ExitAll
<1> QED BY <1>1, <1>2, <1>3 DEF Typed, TypeOK, WritesAreResolutions

LEMMA LaunchTyped ==
  ASSUME Typed, NEW p \in Procs, NEW c \in Campaigns, Launch(p, c)
  PROVE  Typed'
<1>1. PICK S \in Starters(c) :
        LET new == {r \in Rows : Person(r) \in S /\ Fresh(r)}
        IN /\ enr' = [r \in Rows |-> IF r \in new THEN NewRow(c, c \in Calendar) ELSE enr[r]]
           /\ campaign' = [campaign EXCEPT ![c] = IF S = {} THEN "COMPLETED" ELSE "ACTIVE"]
           /\ \E order \in SetToSeqs(new) :
                Proceed(p, [i \in DOMAIN order |-> <<"advance", order[i]>>])
  BY DEF Launch
<1> DEFINE new == {r \in Rows : Person(r) \in S /\ Fresh(r)}
<1>2. new \in SUBSET Rows OBVIOUS
<1>3. NewRow(c, c \in Calendar) \in EnrRow
  BY EngineAssumption DEF NewRow, EnrRow, Statuses, Occupying
<1>4. enr' \in [Rows -> EnrRow] BY <1>1, <1>3 DEF Typed, TypeOK
<1>5. PICK order \in SetToSeqs(new) : Proceed(p, [i \in DOMAIN order |-> <<"advance", order[i]>>])
  BY <1>1
<1> HIDE DEF new
<1>6. todo' \in [Procs -> Seq(Calls)] BY <1>2, <1>5, OrderedCalls, Proceeds
<1>7. campaign' \in [Campaigns -> CampaignStatuses]
  BY <1>1 DEF Typed, TypeOK, CampaignStatuses
<1> QED BY <1>4, <1>6, <1>7 DEF Launch, Typed, TypeOK, WritesAreResolutions

LEMMA FirstRow ==
  ASSUME NEW person \in People
  PROVE  <<person, 1>> \in Rows
  BY EngineAssumption

LEMMA EnrollTyped ==
  ASSUME Typed, NEW p \in Procs, NEW person \in People, NEW c \in Campaigns, Enroll(p, person, c)
  PROVE  Typed'
<1> DEFINE t == [NoTx EXCEPT !.op = "enroll", !.row = <<person, 1>>, !.camp = c]
<1>1. t \in Tx BY FirstRow, NoTxType DEF Tx, TxOps
<1>2. WellFormed(t) BY FirstRow, NoTxType DEF WellFormed, Tx
<1>3. Begin(p, t) BY DEF Enroll
<1> HIDE DEF t
<1> QED BY <1>1, <1>2, <1>3, Begins DEF Enroll, Typed, TypeOK

LEMMA EnrollCommitTyped ==
  ASSUME Typed, NEW p \in Procs, EnrollCommit(p)
  PROVE  Typed'
<1>1. CASE Rollback(p) BY <1>1, Aborts
<1>2. CASE ~Rollback(p)
  <2>1. PICK q \in Rows : /\ enr' = [enr EXCEPT ![q] = NewRow(tx[p].camp, FALSE)]
                          /\ Proceed(p, << <<"advance", q>> >>)
    BY <1>2 DEF EnrollCommit
  <2>2. tx[p].camp \in Campaigns BY DEF Typed, TypeOK, Tx
  <2>3. enr' \in [Rows -> EnrRow] BY <2>1, <2>2, NewRowType DEF Typed, TypeOK
  <2>4. << <<"advance", q>> >> \in Seq(Calls) BY OneCall DEF Calls
  <2>5. todo' \in [Procs -> Seq(Calls)] BY <2>1, <2>4, Proceeds
  <2>6. tx' = [tx EXCEPT ![p] = NoTx] /\ UNCHANGED <<task, campaign, blocked, optedOut, aside>>
    BY <1>2 DEF EnrollCommit
  <2> QED BY <2>3, <2>5, <2>6, Closes DEF Typed, TypeOK
<1> QED BY <1>1, <1>2

LEMMA CampaignStatusTyped ==
  ASSUME Typed, NEW p \in Procs, NEW c \in Campaigns,
         PauseCampaign(p, c) \/ StopCampaign(p, c) \/ CompleteCampaign(p, c)
  PROVE  Typed'
<1>1. UNCHANGED <<blocked, optedOut, aside, tx, todo>>
  BY DEF PauseCampaign, StopCampaign, CompleteCampaign
<1>2. campaign' \in [Campaigns -> CampaignStatuses]
  BY DEF PauseCampaign, StopCampaign, CompleteCampaign, Typed, TypeOK, CampaignStatuses
<1>3. enr' \in [Rows -> EnrRow] /\ task' \in [Keys -> TaskStates]
  <2>1. CASE PauseCampaign(p, c)
    <3>1. task' = task /\ \E R \in SUBSET Rows :
             enr' = [r \in Rows |-> IF r \in R THEN [enr[r] EXCEPT !.status = "PAUSED", !.byCampaign = TRUE]
                                    ELSE enr[r]]
      <4>1. PICK R : R = {r \in Rows : r \in RowsOfCampaign(c) /\ enr[r].status = "ACTIVE"}
        OBVIOUS
      <4>2. enr' = [r \in Rows |-> IF r \in R THEN [enr[r] EXCEPT !.status = "PAUSED", !.byCampaign = TRUE]
                                   ELSE enr[r]]
        BY <2>1, <4>1 DEF PauseCampaign
      <4> QED BY <2>1, <4>1, <4>2 DEF PauseCampaign
    <3>2. ASSUME NEW r \in Rows PROVE [enr[r] EXCEPT !.status = "PAUSED", !.byCampaign = TRUE] \in EnrRow
      <4>1. enr[r] \in EnrRow /\ "PAUSED" \in Statuses
        BY DEF Typed, TypeOK, Statuses, Occupying
      <4> QED BY <4>1 DEF EnrRow
    <3>3. enr \in [Rows -> EnrRow] /\ task \in [Keys -> TaskStates]
      BY DEF Typed, TypeOK
    <3> QED BY <3>1, <3>2, <3>3
  <2>2. CASE StopCampaign(p, c)
    BY <2>2, SetTasksType, SetStatusType DEF StopCampaign, Typed, TaskStates, Statuses, Ended
  <2>3. CASE CompleteCampaign(p, c)
    BY <2>3 DEF CompleteCampaign, Typed, TypeOK
  <2> QED BY <2>1, <2>2, <2>3
<1> QED BY <1>1, <1>2, <1>3 DEF Typed, TypeOK, WritesAreResolutions

LEMMA BlockTyped ==
  ASSUME Typed, NEW p \in Procs, NEW a \in Accounts, Block(p, a)
  PROVE  Typed'
<1> DEFINE rows == OccupyingRows(RowsOfAccount(a))
           open == UNION {Open(r) : r \in rows}
           held == {<<"account", a>>}
           t == [NoTx EXCEPT !.op = "block", !.rows = rows, !.open = open, !.held = held]
<1>1. rows \in SUBSET Rows BY DEF OccupyingRows, RowsOfAccount
<1>2. open \in SUBSET Keys BY OpenType
<1>3. held \in SUBSET Locks BY DEF Locks
<1>4. Begin(p, t) BY DEF Block
<1> HIDE DEF rows, open, held
<1>5. t \in Tx BY <1>1, <1>2, <1>3, NoTxType DEF Tx, TxOps
<1>6. WellFormed(t) BY NoTxType DEF WellFormed, Tx
<1> HIDE DEF t
<1> QED BY <1>4, <1>5, <1>6, Begins DEF Block, Typed, TypeOK

LEMMA HardStopTyped ==
  ASSUME Typed, NEW p \in Procs, NEW c \in Campaigns, HardStop(p, c)
  PROVE  Typed'
<1> DEFINE rows == OccupyingRows(RowsOfCampaign(c))
           open == UNION {Open(r) : r \in rows}
           t == [NoTx EXCEPT !.op = "block", !.rows = rows, !.open = open]
<1>1. rows \in SUBSET Rows BY DEF OccupyingRows, RowsOfCampaign
<1>2. open \in SUBSET Keys BY OpenType
<1>3. Begin(p, t) BY DEF HardStop
<1> HIDE DEF rows, open
<1>4. t \in Tx BY <1>1, <1>2, NoTxType DEF Tx, TxOps
<1>5. WellFormed(t) BY NoTxType DEF WellFormed, Tx
<1> HIDE DEF t
<1> QED BY <1>3, <1>4, <1>5, Begins DEF HardStop, Typed, TypeOK

LEMMA BlockCommitTyped ==
  ASSUME Typed, NEW p \in Procs, BlockCommit(p)
  PROVE  Typed'
<1>1. enr' \in [Rows -> EnrRow]
  BY SetStatusType DEF BlockCommit, Typed, Statuses, Ended
<1>2. task' \in [Keys -> TaskStates]
  BY SetTasksType DEF BlockCommit, Typed, TaskStates
<1> QED BY <1>1, <1>2, CommitKeepsTypes DEF BlockCommit, Typed, TypeOK

LEMMA UnblockTyped ==
  ASSUME Typed, NEW p \in Procs, NEW a \in Accounts, Unblock(p, a)
  PROVE  Typed'
  BY DEF Unblock, Typed, TypeOK, WritesAreResolutions

(* A move to the CRM and its undo are the contact's, whose rows they read. *)
LEMMA MoveToCrmTyped ==
  ASSUME Typed, NEW p \in Procs, NEW person \in Cold, MoveToCrm(p, person)
  PROVE  Typed'
<1> DEFINE rows == OccupyingRows(RowsOf(person))
           open == UNION {Open(r) : r \in rows}
           held == ContactLocks({person})
           t == [NoTx EXCEPT !.op = "toCrm", !.row = <<person, 1>>, !.rows = rows,
                             !.open = open, !.held = held]
<1>1. rows \in SUBSET Rows BY DEF OccupyingRows, RowsOf
<1>2. open \in SUBSET Keys BY OpenType
<1>3. person \in People BY EngineAssumption
<1>4. held \in SUBSET Locks BY <1>3, LockTypes
<1>5. <<person, 1>> \in Rows BY <1>3, FirstRow
<1>6. Begin(p, t) BY DEF MoveToCrm
<1> HIDE DEF rows, open, held
<1>7. t \in Tx BY <1>1, <1>2, <1>4, <1>5, NoTxType DEF Tx, TxOps
<1>8. WellFormed(t) BY <1>5, NoTxType DEF WellFormed, Tx, Person
<1> HIDE DEF t
<1> QED BY <1>6, <1>7, <1>8, Begins DEF MoveToCrm, Typed, TypeOK

LEMMA UndoMoveTyped ==
  ASSUME Typed, NEW p \in Procs, NEW person \in Cold, UndoMove(p, person)
  PROVE  Typed'
<1>1. PICK wanted \in SUBSET {r \in RowsOf(person) : enr[r].status = "MOVED"} :
        Begin(p, [NoTx EXCEPT !.op = "restore", !.row = <<person, 1>>,
                              !.rows = {r \in wanted : /\ person \notin optedOut
                                                       /\ campaign[enr[r].camp] = "ACTIVE"},
                              !.held = ContactLocks({person})])
  BY DEF UndoMove
<1> DEFINE rows == {r \in wanted : person \notin optedOut /\ campaign[enr[r].camp] = "ACTIVE"}
           held == ContactLocks({person})
           t == [NoTx EXCEPT !.op = "restore", !.row = <<person, 1>>, !.rows = rows,
                             !.held = held]
<1>2. rows \in SUBSET Rows BY DEF RowsOf
<1>3. person \in People BY EngineAssumption
<1>4. held \in SUBSET Locks BY <1>3, LockTypes
<1>5. <<person, 1>> \in Rows BY <1>3, FirstRow
<1>6. Begin(p, t) BY <1>1
<1> HIDE DEF rows, held
<1>7. t \in Tx BY <1>2, <1>4, <1>5, NoTxType DEF Tx, TxOps
<1>8. WellFormed(t) BY <1>5, NoTxType DEF WellFormed, Tx, Person
<1> HIDE DEF t
<1> QED BY <1>6, <1>7, <1>8, Begins DEF UndoMove, Typed, TypeOK

LEMMA MoveToCrmCommitTyped ==
  ASSUME Typed, NEW p \in Procs, MoveToCrmCommit(p)
  PROVE  Typed'
<1>1. enr' \in [Rows -> EnrRow]
  BY SetStatusType DEF MoveToCrmCommit, Typed, Statuses, Ended
<1>2. task' \in [Keys -> TaskStates]
  BY SetTasksType DEF MoveToCrmCommit, Typed, TaskStates
<1>3. moved' \subseteq Cold
  BY DEF MoveToCrmCommit, Typed, TypeOK, WritesAreResolutions, WellFormed
<1>4. Commit(p) /\ UNCHANGED <<campaign, blocked, optedOut, over, slipped, dropped>>
  BY DEF MoveToCrmCommit
<1> QED BY <1>1, <1>2, <1>3, <1>4, CommitKeepsTypes DEF Typed, TypeOK

LEMMA RestoreCommitTyped ==
  ASSUME Typed, NEW p \in Procs, RestoreCommit(p)
  PROVE  Typed'
<1>1. CASE Rollback(p) BY <1>1, Aborts
<1>2. CASE ~Rollback(p)
  <2> DEFINE person == Person(tx[p].row)
             after == [r \in Rows |->
                        IF r \in tx[p].rows THEN [enr[r] EXCEPT !.status = "ACTIVE"]
                        ELSE IF Person(r) = person /\ enr[r].status = "MOVED"
                               THEN [enr[r] EXCEPT !.status = "EXITED"]
                        ELSE enr[r]]
  <2>1. /\ enr' = after /\ task' = SetTasks(Reopened(tx[p]), "PENDING") /\ Commit(p)
        /\ moved' = moved \ {person}
        /\ slipped' = slipped \cup {r \in tx[p].rows :
                                      campaign[enr[r].camp] \notin {"ACTIVE", "COMPLETED"}}
        /\ UNCHANGED <<campaign, blocked, optedOut, over, dropped>>
    BY <1>2 DEF RestoreCommit
  <2>2. after \in [Rows -> EnrRow]
    BY DEF Typed, TypeOK, EnrRow, Statuses, Occupying, Ended
  <2>3. tx[p].rows \subseteq Rows BY DEF Typed, TypeOK, Tx
  <2>4. task' \in [Keys -> TaskStates] BY <2>1, SetTasksType DEF Typed, TaskStates
  <2> HIDE DEF after, person
  <2>5. moved' \subseteq Cold /\ slipped' \subseteq Rows
    BY <2>1, <2>3 DEF Typed, TypeOK
  <2> QED BY <2>1, <2>2, <2>4, <2>5, CommitKeepsTypes DEF Typed, TypeOK
<1> QED BY <1>1, <1>2

-----------------------------------------------------------------------------
(* Type correctness. *)

LEMMA InitTyped == Init => Typed
<1> SUFFICES ASSUME Init PROVE Typed OBVIOUS
<1>1. AnyCampaign \in Campaigns BY EngineAssumption DEF AnyCampaign
<1>2. NoEnrollment \in EnrRow
  BY <1>1, EngineAssumption DEF NoEnrollment, EnrRow, Statuses
<1>3. WellFormed(NoTx) BY DEF WellFormed, NoTx
<1>4. enr \in [Rows -> EnrRow] BY <1>2 DEF Init
<1>5. tx \in [Procs -> Tx] /\ WritesAreResolutions
  BY <1>3, NoTxType DEF Init, WritesAreResolutions
<1>6. todo \in [Procs -> Seq(Calls)] BY NoCalls DEF Init
<1> QED BY <1>4, <1>5, <1>6 DEF Init, Typed, TypeOK, TaskStates, CampaignStatuses

LEMMA CommitsTyped ==
  ASSUME Typed, NEW p \in Procs, Commits(p) \/ Crash(p)
  PROVE  Typed'
<1>1. CASE CompleteRaced(p) \/ Crash(p) BY <1>1, Aborts DEF CompleteRaced, Crash
<1>2. CASE Commits(p) /\ ~CompleteRaced(p)
  BY <1>2, GenerateCommitTyped, CompleteCommitTyped, ResolveCommitTyped, EndCommitTyped,
     RewriteCommitTyped, EnrollCommitTyped, BlockCommitTyped, MoveToCrmCommitTyped,
     RestoreCommitTyped DEF Commits
<1> QED BY <1>1, <1>2

LEMMA HandlersTyped ==
  ASSUME Typed, NEW p \in Procs, Handlers(p)
  PROVE  Typed'
<1>1. ASSUME NEW r \in Rows, RowHandlers(p, r) PROVE Typed'
  BY <1>1, AdvanceGenerateTyped, AdvanceCompleteTyped, AdvanceElseTyped, EndEnrollmentTyped,
     RowCallsTyped, PauseTyped, ResumeTyped, MoveTyped DEF RowHandlers, RowCalls
<1>2. ASSUME NEW c \in Campaigns, CampaignHandlers(p, c) PROVE Typed'
  BY <1>2, LaunchTyped, CampaignCallsTyped, CampaignStatusTyped, HardStopTyped, EnrollTyped
     DEF CampaignHandlers, CampaignCalls
<1>3. ASSUME NEW a \in Accounts, Block(p, a) \/ Unblock(p, a) PROVE Typed'
  BY <1>3, BlockTyped, UnblockTyped
<1>4. ASSUME NEW person \in People, PersonCalls(p, person) PROVE Typed'
  BY <1>4, PersonCallsTyped
<1>5. ASSUME NEW person \in Cold, MoveToCrm(p, person) \/ UndoMove(p, person) PROVE Typed'
  BY <1>5, MoveToCrmTyped, UndoMoveTyped
<1> QED BY <1>1, <1>2, <1>3, <1>4, <1>5, TaskHandlersTyped DEF Handlers, PersonCalls

LEMMA StepTyped == Typed /\ [Next]_vars => Typed'
<1> SUFFICES ASSUME Typed, [Next]_vars PROVE Typed' OBVIOUS
<1>1. CASE UNCHANGED vars
  BY <1>1 DEF vars, Typed, TypeOK, WritesAreResolutions
<1>2. CASE Next
  <2>1. CASE \E c \in Campaigns : EndDatePasses(c)
    BY <2>1 DEF EndDatePasses, Typed, TypeOK, WritesAreResolutions
  <2> QED BY <1>2, <2>1, CommitsTyped, HandlersTyped DEF Next
<1> QED BY <1>1, <1>2

(* The rows, the open transactions and the pending calls always have their *)
(* types, whatever mixture of requests, jobs and crashes runs.             *)
THEOREM TypeCorrect == Spec => []TypeOK
<1>1. Typed => TypeOK BY DEF Typed
<1> QED BY <1>1, InitTyped, StepTyped, PTL DEF Spec

-----------------------------------------------------------------------------
(* The locking discipline.  What a step of p may do to what the others     *)
(* have read, and what no step but a generation's commit does.             *)

IInv == Typed /\ EngineInv

RowsKept == \A r \in Rows :
  enr[r].status # "NONE" => enr'[r].status # "NONE" /\ enr'[r].camp = enr[r].camp

NothingOpens == \A k \in Keys : task'[k] = "PENDING" => task[k] = "PENDING"

(* A task that opens does so in a row whose campaign is not stopped.       *)
OpensRight == \A k \in Keys : Opened(k) =>
  /\ enr'[k[1]].status # "NONE"
  /\ k[1] \notin slipped' => campaign'[enr'[k[1]].camp] # "STOPPED"

StopsClose == \A c \in Campaigns : campaign'[c] = "STOPPED" =>
  campaign[c] = "STOPPED" \/ \A k \in Keys : task'[k] = "PENDING" => enr[k[1]].camp # c

Others(p, lock) == \A q \in Procs \ {p} : lock \notin tx[q].held

LocksRespected(p) ==
  /\ \A c \in Campaigns : campaign[c] \in {"ACTIVE", "COMPLETED"} =>
       campaign'[c] \in {"ACTIVE", "COMPLETED"} \/ Others(p, CampaignLock(c))
  /\ \A a \in blocked' \ blocked : Others(p, <<"account", a>>)
  /\ \A person \in ((optedOut' \ optedOut) \cup (moved \ moved')) \cap Cold :
       Others(p, <<"contact", person>>)
  /\ slipped \subseteq slipped'

OwnLocks(p) == \A q \in Procs \ {p} : tx'[q] = tx[q] /\ tx'[p].held \cap tx[q].held = {}

LEMMA AdvanceLocksHave ==
  ASSUME TypeOK, NEW r \in Rows
  PROVE  /\ CampaignLock(enr[r].camp) \in AdvanceLocks(r)
         /\ Account(r) # NoAccount => <<"account", Account(r)>> \in AdvanceLocks(r)
         /\ Person(r) \in Cold \ moved => <<"contact", Person(r)>> \in AdvanceLocks(r)
  BY DEF AdvanceLocks, AccountLocks, ContactLocks, Account

LEMMA ExclusiveKept ==
  ASSUME LocksAreExclusive, NEW p \in Procs, OwnLocks(p)
  PROVE  LocksAreExclusive'
  BY DEF LocksAreExclusive, OwnLocks

(* What a generating transaction has read stays true while others step.    *)
LEMMA GeneratorKept ==
  ASSUME IInv, Typed', NEW p \in Procs, OwnLocks(p), RowsKept, LocksRespected(p),
         NEW q \in Procs \ {p}, tx[q].op = "generate"
  PROVE  \E r \in Rows : Generates(q, r)'
<1>1. tx'[q] = tx[q] BY DEF OwnLocks
<1>2. PICK r \in Rows : Generates(q, r)
  BY DEF IInv, EngineInv, GeneratorsHoldTheirLocks
<1>3. /\ CampaignLock(enr[r].camp) \in tx[q].held
      /\ Account(r) # NoAccount => <<"account", Account(r)>> \in tx[q].held
  BY <1>2 DEF Generates, AccountLocks, Account
<1>4. enr'[r].status # "NONE" /\ enr'[r].camp = enr[r].camp
  BY <1>2 DEF RowsKept, MayStep, Generates
<1>5. AccountLocks({Person(r)}) \cup {CampaignLock(enr'[r].camp)} \subseteq tx'[q].held
  BY <1>1, <1>2, <1>4 DEF Generates
<1>6. enr[r].camp \in Campaigns BY <1>2, EnrRowType DEF IInv, Typed
<1>7. campaign'[enr'[r].camp] \in {"ACTIVE", "COMPLETED"}
  BY <1>2, <1>3, <1>4, <1>6 DEF LocksRespected, Others, MayStep, Generates
<1>8. Account(r) \notin blocked'
  <2>1. blocked' \subseteq Accounts BY DEF Typed, TypeOK
  <2>2. CASE Account(r) \in blocked'
    <3>1. Account(r) # NoAccount BY <2>1, <2>2, EngineAssumption
    <3> QED BY <1>2, <1>3, <2>2, <3>1 DEF LocksRespected, Others, MayStep, Generates
  <2> QED BY <2>2
<1>9. ASSUME MayContact(r, tx[q].held) PROVE MayContact(r, tx[q].held)'
  <2>1. ContactLocks({Person(r)}) \subseteq tx[q].held /\ ~ColdGone(r) BY <1>9 DEF MayContact
  <2>2. CASE Person(r) \in Cold
    <3>1. <<"contact", Person(r)>> \in tx[q].held BY <2>1, <2>2 DEF ContactLocks
    <3>2. /\ Person(r) \in optedOut' => Person(r) \in optedOut
          /\ Person(r) \in moved => Person(r) \in moved'
      BY <2>2, <3>1 DEF LocksRespected, Others
    <3> QED BY <1>1, <2>1, <3>2 DEF MayContact, ColdGone, IsCold
  <2>3. CASE Person(r) \notin Cold
    BY <1>1, <2>1, <2>3 DEF MayContact, ColdGone, IsCold
  <2> QED BY <2>2, <2>3
<1>10. r \in slipped' \/ MayContact(r, tx[q].held)'
  BY <1>2, <1>9 DEF Generates, LocksRespected
<1> QED BY <1>1, <1>2, <1>4, <1>5, <1>7, <1>8, <1>10 DEF Generates, MayStep

(* So does what an undo's restore has read of its contact.                 *)
LEMMA UndoKept ==
  ASSUME IInv, NEW p \in Procs, OwnLocks(p), LocksRespected(p),
         NEW q \in Procs \ {p}, tx[q].op = "restore"
  PROVE  Restores(q, Person(tx[q].row))'
<1>1. tx'[q] = tx[q] BY DEF OwnLocks
<1>2. Restores(q, Person(tx[q].row)) /\ Person(tx[q].row) \in Cold
  BY DEF IInv, EngineInv, UndosHoldTheirContact, WritesAreResolutions, WellFormed
<1>3. <<"contact", Person(tx[q].row)>> \in tx[q].held BY <1>2 DEF Restores, ContactLocks
<1>4. Person(tx[q].row) \in optedOut' => Person(tx[q].row) \in optedOut
  BY <1>2, <1>3 DEF LocksRespected, Others
<1> QED BY <1>1, <1>2, <1>4 DEF Restores

(* A step of p, with what it owes if it begins a generation or a restore,  *)
(* or opens tasks.                                                         *)
LEMMA StepKeeps ==
  ASSUME IInv, Typed', NEW p \in Procs, OwnLocks(p), RowsKept, LocksRespected(p), StopsClose,
         OpensRight, tx'[p].op = "generate" => \E r \in Rows : Generates(p, r)',
         tx'[p].op = "restore" => Restores(p, Person(tx[p].row))'
  PROVE  IInv'
<1>1. LocksAreExclusive' BY ExclusiveKept DEF IInv, EngineInv
<1>2. GeneratorsHoldTheirLocks'
  BY GeneratorKept DEF GeneratorsHoldTheirLocks, OwnLocks
<1>3. UndosHoldTheirContact'
  BY UndoKept DEF UndosHoldTheirContact, OwnLocks
<1>4. \A k \in Keys : k[1] \in Rows BY DEF Keys
<1>5. OpenTasksHaveEnrollments'
  BY <1>4 DEF OpensRight, Opened, RowsKept, IInv, EngineInv, OpenTasksHaveEnrollments
<1>6. StoppedCampaignHasNoOpenTasks'
  <2> SUFFICES ASSUME NEW k \in Keys, task'[k] = "PENDING", k[1] \notin slipped'
               PROVE  campaign'[enr'[k[1]].camp] # "STOPPED"
    BY DEF StoppedCampaignHasNoOpenTasks
  <2>1. CASE task[k] = "PENDING"
    <3>1. enr[k[1]].status # "NONE" /\ campaign[enr[k[1]].camp] # "STOPPED"
      BY <2>1 DEF IInv, EngineInv, OpenTasksHaveEnrollments, StoppedCampaignHasNoOpenTasks,
                  LocksRespected
    <3>2. enr'[k[1]].camp = enr[k[1]].camp BY <1>4, <3>1 DEF RowsKept
    <3>3. enr[k[1]].camp \in Campaigns BY <1>4, EnrRowType DEF IInv, Typed
    <3> QED BY <3>1, <3>2, <3>3 DEF StopsClose
  <2>2. CASE task[k] # "PENDING"
    BY <2>2 DEF OpensRight, Opened
  <2> QED BY <2>1, <2>2
<1> QED BY <1>1, <1>2, <1>3, <1>5, <1>6 DEF IInv, EngineInv, Typed

Quiet(p) == /\ OwnLocks(p) /\ LocksRespected(p) /\ RowsKept
            /\ NothingOpens /\ StopsClose /\ tx'[p].op \notin {"generate", "restore"}

(* What every step of p does, a generation's two and an undo's as well.    *)
Respects(p) == OwnLocks(p) /\ RowsKept /\ LocksRespected(p)

(* A step of p that opens no task and begins no generation or restore.     *)
LEMMA QuietStep ==
  ASSUME IInv, Typed', NEW p \in Procs, Quiet(p)
  PROVE  IInv' /\ Respects(p)
<1>1. OpensRight BY DEF Quiet, NothingOpens, OpensRight, Opened
<1> QED BY <1>1, StepKeeps DEF Quiet, Respects

LEMMA Unchanged ==
  ASSUME Typed
  PROVE  /\ UNCHANGED enr => RowsKept
         /\ UNCHANGED task => NothingOpens
         /\ UNCHANGED campaign => StopsClose
         /\ \A p \in Procs : UNCHANGED <<campaign, blocked, optedOut, aside>> => LocksRespected(p)
  BY DEF RowsKept, NothingOpens, StopsClose, LocksRespected

LEMMA BeginOwn ==
  ASSUME Typed, NEW p \in Procs, NEW t, Begin(p, t), t.held = {} \/ Free(t.held)
  PROVE  OwnLocks(p) /\ tx'[p] = t
  BY DEF Typed, TypeOK, Begin, OwnLocks, Free

LEMMA CloseOwn ==
  ASSUME Typed, NEW p \in Procs, tx' = [tx EXCEPT ![p] = NoTx]
  PROVE  OwnLocks(p) /\ tx'[p].op \notin {"generate", "restore"}
  BY DEF Typed, TypeOK, OwnLocks, NoTx

LEMMA SameOwn ==
  ASSUME Typed, NEW p \in Procs, tx[p] = NoTx, UNCHANGED tx
  PROVE  OwnLocks(p) /\ tx'[p].op \notin {"generate", "restore"}
  BY DEF OwnLocks, NoTx

LEMMA SetTasksOpensNothing ==
  ASSUME NEW K, NEW state, state # "PENDING", task' = SetTasks(K, state)
  PROVE  NothingOpens
  BY DEF NothingOpens, SetTasks

Untouched == /\ UNCHANGED <<enr, task, campaign, blocked, optedOut, moved>>
             /\ slipped \subseteq slipped'

(* Opening a transaction of any kind but a generation or a restore. *)
LEMMA OpeningQuiet ==
  ASSUME Typed, NEW p \in Procs, NEW t, Begin(p, t), t.held = {} \/ Free(t.held),
         t.op \notin {"generate", "restore"}, Untouched
  PROVE  Quiet(p)
<1>1. OwnLocks(p) /\ tx'[p] = t BY BeginOwn
<1>2. LocksRespected(p) BY DEF Untouched, LocksRespected
<1> QED BY <1>1, <1>2, Unchanged DEF Quiet, Untouched

LEMMA RowOpeningsQuiet ==
  ASSUME Typed, NEW p \in Procs, NEW r \in Rows,
         \/ AdvanceComplete(p, r) \/ Pause(p, r) \/ Resume(p, r)
         \/ \E name \in DOMAIN EndStatus : EndEnrollment(p, name, r)
         \/ \E target \in Steps : Move(p, r, target)
  PROVE  Quiet(p)
<1> SUFFICES \E t : /\ Begin(p, t) /\ t.op \notin {"generate", "restore"} /\ (t.held = {} \/ Free(t.held))
                    /\ Untouched
  BY OpeningQuiet
<1>1. CASE AdvanceComplete(p, r)
  <2> DEFINE t == [NoTx EXCEPT !.op = "complete", !.row = r,
                               !.repeat = Repeats(r),
                               !.held = AdvanceLocks(r)]
  <2>1. t.op = "complete" /\ t.held = AdvanceLocks(r) BY DEF NoTx
  <2>2. Begin(p, t) /\ Free(AdvanceLocks(r)) BY <1>1 DEF AdvanceComplete
  <2>3. Untouched BY <1>1 DEF AdvanceComplete, Untouched
  <2> QED BY <2>1, <2>2, <2>3
<1>2. CASE Pause(p, r)
  <2> DEFINE t == [NoTx EXCEPT !.op = "pause", !.row = r]
  <2>1. t.op = "pause" /\ t.held = {} BY DEF NoTx
  <2> QED BY <1>2, <2>1 DEF Pause, Untouched
<1>3. CASE Resume(p, r)
  <2> DEFINE t == [NoTx EXCEPT !.op = "resume", !.row = r, !.held = ResumeLocks(r),
                               !.then = << <<"advance", r>> >>]
  <2>1. t.op = "resume" /\ t.held = ResumeLocks(r) BY DEF NoTx
  <2> QED BY <1>3, <2>1 DEF Resume, Untouched
<1>4. ASSUME NEW name \in DOMAIN EndStatus, EndEnrollment(p, name, r)
      PROVE  \E t : /\ Begin(p, t) /\ t.op \notin {"generate", "restore"} /\ (t.held = {} \/ Free(t.held))
                    /\ Untouched
  <2> DEFINE rows == IF name = "reply" THEN Colleagues(r) ELSE {}
             t == [NoTx EXCEPT !.op = "end", !.row = r, !.to = EndStatus[name],
                               !.open = Open(r), !.rows = rows]
  <2>1. t.op = "end" /\ t.held = {} BY DEF NoTx
  <2>2. Begin(p, t) BY <1>4 DEF EndEnrollment
  <2> QED BY <1>4, <2>1, <2>2 DEF EndEnrollment, Untouched
<1>5. ASSUME NEW target \in Steps, Move(p, r, target)
      PROVE  \E t : /\ Begin(p, t) /\ t.op \notin {"generate", "restore"} /\ (t.held = {} \/ Free(t.held))
                    /\ Untouched
  <2> DEFINE t == [NoTx EXCEPT !.op = "move", !.row = r, !.step = target, !.open = Open(r),
                               !.then = << <<"force", r>> >>]
  <2>1. t.op = "move" /\ t.held = {} BY DEF NoTx
  <2> QED BY <1>5, <2>1 DEF Move, Untouched
<1> QED BY <1>1, <1>2, <1>3, <1>4, <1>5

LEMMA OtherOpeningsQuiet ==
  ASSUME Typed, NEW p \in Procs,
         \/ \E k \in Keys : TaskHandlers(p, k)
         \/ \E a \in Accounts : Block(p, a)
         \/ \E c \in Campaigns : HardStop(p, c) \/ \E person \in People : Enroll(p, person, c)
         \/ \E person \in Cold : MoveToCrm(p, person)
  PROVE  Quiet(p)
<1> SUFFICES \E t : /\ Begin(p, t) /\ t.op \notin {"generate", "restore"} /\ (t.held = {} \/ Free(t.held))
                    /\ Untouched
  BY OpeningQuiet
<1>1. ASSUME NEW k \in Keys, NEW request, NEW state, NEW calls, Resolve(p, request, k, state, calls)
      PROVE  \E t : /\ Begin(p, t) /\ t.op \notin {"generate", "restore"} /\ (t.held = {} \/ Free(t.held))
                    /\ Untouched
  <2> DEFINE t == [NoTx EXCEPT !.op = "resolve", !.row = k[1], !.open = {k}, !.to = state,
                               !.then = calls]
  <2>1. t.op = "resolve" /\ t.held = {} BY DEF NoTx
  <2> QED BY <1>1, <2>1 DEF Resolve, Untouched
<1>2. CASE \E k \in Keys : TaskHandlers(p, k)
  BY <1>1, <1>2 DEF TaskHandlers, ResolveTask, AnsweredCall, AskedToStop
<1>3. ASSUME NEW a \in Accounts, Block(p, a)
      PROVE  \E t : /\ Begin(p, t) /\ t.op \notin {"generate", "restore"} /\ (t.held = {} \/ Free(t.held))
                    /\ Untouched
  <2> DEFINE rows == OccupyingRows(RowsOfAccount(a))
             t == [NoTx EXCEPT !.op = "block", !.rows = rows,
                               !.open = UNION {Open(r) : r \in rows}, !.held = {<<"account", a>>}]
  <2>1. t.op = "block" /\ t.held = {<<"account", a>>} BY DEF NoTx
  <2>2. Begin(p, t) BY <1>3 DEF Block
  <2> QED BY <1>3, <2>1, <2>2 DEF Block, Untouched
<1>4. ASSUME NEW c \in Campaigns, HardStop(p, c)
      PROVE  \E t : /\ Begin(p, t) /\ t.op \notin {"generate", "restore"} /\ (t.held = {} \/ Free(t.held))
                    /\ Untouched
  <2> DEFINE rows == OccupyingRows(RowsOfCampaign(c))
             t == [NoTx EXCEPT !.op = "block", !.rows = rows, !.open = UNION {Open(r) : r \in rows}]
  <2>1. t.op = "block" /\ t.held = {} BY DEF NoTx
  <2>2. Begin(p, t) BY <1>4 DEF HardStop
  <2> QED BY <1>4, <2>1, <2>2 DEF HardStop, Untouched
<1>5. ASSUME NEW c \in Campaigns, NEW person \in People, Enroll(p, person, c)
      PROVE  \E t : /\ Begin(p, t) /\ t.op \notin {"generate", "restore"} /\ (t.held = {} \/ Free(t.held))
                    /\ Untouched
  <2> DEFINE t == [NoTx EXCEPT !.op = "enroll", !.row = <<person, 1>>, !.camp = c]
  <2>1. t.op = "enroll" /\ t.held = {} BY DEF NoTx
  <2> QED BY <1>5, <2>1 DEF Enroll, Untouched
<1>6. ASSUME NEW person \in Cold, MoveToCrm(p, person)
      PROVE  \E t : /\ Begin(p, t) /\ t.op \notin {"generate", "restore"} /\ (t.held = {} \/ Free(t.held))
                    /\ Untouched
  <2> DEFINE rows == OccupyingRows(RowsOf(person))
             t == [NoTx EXCEPT !.op = "toCrm", !.row = <<person, 1>>, !.rows = rows,
                               !.open = UNION {Open(r) : r \in rows},
                               !.held = ContactLocks({person})]
  <2>1. t.op = "toCrm" /\ t.held = ContactLocks({person}) BY DEF NoTx
  <2>2. Begin(p, t) /\ Free(ContactLocks({person})) BY <1>6 DEF MoveToCrm
  <2> QED BY <1>6, <2>1, <2>2 DEF MoveToCrm, Untouched
<1> QED BY <1>2, <1>3, <1>4, <1>5, <1>6

(* Handlers that write nothing but, at most, one row of their own. *)
LEMMA CallsQuiet ==
  ASSUME Typed, NEW p \in Procs,
         \/ \E r \in Rows : RowCalls(p, r) \/ AdvanceEndsCold(p, r) \/ AdvanceWaits(p, r)
         \/ \E c \in Campaigns : LaunchSkipped(p, c) \/ ResumeAll(p, c)
         \/ \E person \in People : ExitAll(p, person)
  PROVE  Quiet(p)
<1>1. UNCHANGED <<enr, task, campaign, blocked, optedOut, moved, slipped, tx>> /\ tx[p] = NoTx
  BY DEF RowCalls, EndSkipped, ResumeRefused, AdvanceEndsCold, AdvanceWaits, LaunchSkipped,
         ResumeAll, ExitAll, AdvanceCalled, Called
<1>2. LocksRespected(p) BY <1>1 DEF LocksRespected
<1> QED BY <1>1, <1>2, Unchanged, SameOwn DEF Quiet

LEMMA OptOutQuiet ==
  ASSUME Typed, NEW p \in Procs, NEW person \in People, OptOut(p, person)
  PROVE  Quiet(p)
<1>1. UNCHANGED <<enr, task, campaign, blocked, aside, tx>> /\ tx[p] = NoTx BY DEF OptOut, Called
<1>2. \A x \in (optedOut' \ optedOut) \cap Cold : Others(p, <<"contact", x>>)
  BY DEF OptOut, Free, ContactLocks, Others
<1>3. LocksRespected(p) BY <1>1, <1>2 DEF LocksRespected
<1> QED BY <1>1, <1>3, Unchanged, SameOwn DEF Quiet

LEMMA UnblockQuiet ==
  ASSUME Typed, NEW p \in Procs, NEW a \in Accounts, Unblock(p, a)
  PROVE  Quiet(p)
<1>1. UNCHANGED <<enr, task, campaign, optedOut, aside, tx>> /\ tx[p] = NoTx /\ blocked' \subseteq blocked
  BY DEF Unblock, Asked
<1>2. LocksRespected(p) BY <1>1 DEF LocksRespected
<1> QED BY <1>1, <1>2, Unchanged, SameOwn DEF Quiet

LEMMA CampaignQuiet ==
  ASSUME Typed, OpenTasksHaveEnrollments, NEW p \in Procs, NEW c \in Campaigns,
         \/ PauseCampaign(p, c) \/ StopCampaign(p, c)
         \/ ResumeCampaign(p, c) \/ CompleteCampaign(p, c)
  PROVE  Quiet(p)
<1>1. UNCHANGED <<blocked, optedOut, aside, tx>> /\ tx[p] = NoTx
  BY DEF PauseCampaign, StopCampaign, ResumeCampaign, CompleteCampaign, Asked
<1>2. RowsKept
  <2>1. CASE PauseCampaign(p, c) BY <2>1 DEF PauseCampaign, RowsKept, Typed, TypeOK, EnrRow
  <2>2. CASE StopCampaign(p, c)
    BY <2>2 DEF StopCampaign, RowsKept, SetStatus, Typed, TypeOK, EnrRow
  <2>3. CASE ResumeCampaign(p, c) \/ CompleteCampaign(p, c)
    BY <2>3, Unchanged DEF ResumeCampaign, CompleteCampaign
  <2> QED BY <2>1, <2>2, <2>3
<1>3. NothingOpens
  <2>1. CASE StopCampaign(p, c)
    BY <2>1, SetTasksOpensNothing DEF StopCampaign
  <2>2. CASE PauseCampaign(p, c) \/ ResumeCampaign(p, c) \/ CompleteCampaign(p, c)
    BY <2>2, Unchanged DEF PauseCampaign, ResumeCampaign, CompleteCampaign
  <2> QED BY <2>1, <2>2
<1>4. LocksRespected(p)
  <2>1. CASE PauseCampaign(p, c) \/ StopCampaign(p, c)
    <3>1. Others(p, CampaignLock(c))
      BY <2>1 DEF PauseCampaign, StopCampaign, Free, Others
    <3> QED BY <1>1, <2>1, <3>1 DEF PauseCampaign, StopCampaign, LocksRespected, Typed, TypeOK
  <2>2. CASE ResumeCampaign(p, c) \/ CompleteCampaign(p, c)
    BY <1>1, <2>2 DEF ResumeCampaign, CompleteCampaign, LocksRespected, Typed, TypeOK
  <2> QED BY <2>1, <2>2
<1>5. StopsClose
  <2>1. CASE StopCampaign(p, c)
    <3>1. \A k \in Keys : task'[k] = "PENDING" => enr[k[1]].camp # c
      <4> SUFFICES ASSUME NEW k \in Keys, enr[k[1]].camp = c, task'[k] = "PENDING" PROVE FALSE
        OBVIOUS
      <4>1. task[k] = "PENDING" /\ k[1] \in Rows BY <1>3 DEF NothingOpens, Keys
      <4>2. enr[k[1]].status = "NONE"
        BY <2>1, <4>1 DEF StopCampaign, SetTasks, RowsOfCampaign
      <4> QED BY <4>1, <4>2 DEF OpenTasksHaveEnrollments
    <3> QED BY <2>1, <3>1 DEF StopCampaign, StopsClose, Typed, TypeOK
  <2>2. CASE PauseCampaign(p, c) \/ ResumeCampaign(p, c) \/ CompleteCampaign(p, c)
    BY <2>2 DEF PauseCampaign, ResumeCampaign, CompleteCampaign, StopsClose, Typed, TypeOK
  <2> QED BY <2>1, <2>2
<1> QED BY <1>1, <1>2, <1>3, <1>4, <1>5, SameOwn DEF Quiet

LEMMA LaunchQuiet ==
  ASSUME Typed, NEW p \in Procs, NEW c \in Campaigns, Launch(p, c)
  PROVE  Quiet(p)
<1>1. UNCHANGED <<task, blocked, optedOut, moved, slipped, tx>> /\ tx[p] = NoTx BY DEF Launch, Called
<1>2. RowsKept
  <2>1. PICK S \in Starters(c) :
          LET new == {r \in Rows : Person(r) \in S /\ Fresh(r)}
          IN enr' = [r \in Rows |-> IF r \in new THEN NewRow(c, c \in Calendar) ELSE enr[r]]
    BY DEF Launch
  <2>2. \A r \in Rows : enr[r].status # "NONE" => ~Fresh(r) BY DEF Fresh
  <2> QED BY <2>1, <2>2 DEF RowsKept
<1>3. campaign[c] = "SCHEDULED" /\ \A d \in Campaigns \ {c} : campaign'[d] = campaign[d]
  BY DEF Launch, Typed, TypeOK
<1>4. campaign'[c] \in {"ACTIVE", "COMPLETED"} BY DEF Launch, Typed, TypeOK
<1>5. LocksRespected(p) BY <1>1, <1>3, <1>4 DEF LocksRespected
<1>6. StopsClose BY <1>3, <1>4 DEF StopsClose
<1> QED BY <1>1, <1>2, <1>5, <1>6, Unchanged, SameOwn DEF Quiet

LEMMA AbortQuiet ==
  ASSUME Typed, NEW p \in Procs, Raced(p) \/ Rollback(p)
  PROVE  Quiet(p)
<1>1. /\ tx' = [tx EXCEPT ![p] = NoTx]
      /\ UNCHANGED <<enr, task, campaign, blocked, optedOut, aside>>
  BY DEF Raced, Rollback, Abort
<1> QED BY <1>1, Unchanged, CloseOwn DEF Quiet

LEMMA CompleteCommitQuiet ==
  ASSUME Typed, NEW p \in Procs, CompleteCommit(p)
  PROVE  Quiet(p)
<1> DEFINE r == tx[p].row
           done == [enr EXCEPT ![r].status = "COMPLETED"]
<1>1. \A q \in Rows : /\ done[q].camp = enr[q].camp
                      /\ enr[q].status # "NONE" => done[q].status # "NONE"
  BY DEF Typed, TypeOK, EnrRow
<1>2. DOMAIN done = Rows
  BY DEF Typed, TypeOK
<1>3. \/ enr' = done
      \/ \E q \in Rows : Fresh(q) /\ enr' = [done EXCEPT ![q] = NewRow(enr[r].camp, FALSE)]
  BY DEF CompleteCommit
<1> HIDE DEF done, r
<1>4. RowsKept BY <1>1, <1>2, <1>3 DEF RowsKept, Fresh
<1>5. Commit(p) /\ UNCHANGED <<task, campaign, blocked, optedOut, aside>> BY DEF CompleteCommit
<1> QED BY <1>4, <1>5, Unchanged, CloseOwn DEF Quiet, Commit

LEMMA ResolveCommitQuiet ==
  ASSUME Typed, NEW p \in Procs, ResolveCommit(p)
  PROVE  Quiet(p)
<1>1. CASE Raced(p) BY <1>1, AbortQuiet
<1>2. CASE ~Raced(p)
  <2>1. tx[p].to # "PENDING"
    BY DEF ResolveCommit, Typed, WritesAreResolutions, WellFormed
  <2>2. NothingOpens BY <1>2, <2>1, SetTasksOpensNothing DEF ResolveCommit
  <2>3. Commit(p) /\ UNCHANGED <<enr, campaign, blocked, optedOut, aside>> BY <1>2 DEF ResolveCommit
  <2> QED BY <2>2, <2>3, Unchanged, CloseOwn DEF Quiet, Commit
<1> QED BY <1>1, <1>2

LEMMA EndCommitQuiet ==
  ASSUME Typed, NEW p \in Procs, EndCommit(p)
  PROVE  Quiet(p)
<1>1. CASE Rollback(p) BY <1>1, AbortQuiet
<1>2. CASE ~Rollback(p)
  <2>1. tx[p].to # "NONE"
    BY DEF EndCommit, Typed, WritesAreResolutions, WellFormed, Ended
  <2>2. enr' = [r \in Rows |->
                  IF r = tx[p].row THEN [enr[r] EXCEPT !.status = tx[p].to]
                  ELSE IF r \in tx[p].rows
                         THEN [enr[r] EXCEPT !.status = "PAUSED", !.byCampaign = FALSE]
                  ELSE enr[r]]
    BY <1>2 DEF EndCommit
  <2>3. RowsKept BY <2>1, <2>2 DEF RowsKept, Typed, TypeOK, EnrRow
  <2>4. NothingOpens BY <1>2, SetTasksOpensNothing DEF EndCommit
  <2>5. Commit(p) /\ UNCHANGED <<campaign, blocked, optedOut, aside>> BY <1>2 DEF EndCommit
  <2> QED BY <2>3, <2>4, <2>5, Unchanged, CloseOwn DEF Quiet, Commit
<1> QED BY <1>1, <1>2

LEMMA RewriteCommitQuiet ==
  ASSUME Typed, NEW p \in Procs, RewriteCommit(p)
  PROVE  Quiet(p)
<1>1. CASE ~OnePerPerson(Rewritten(tx[p]))
  <2>1. /\ tx' = [tx EXCEPT ![p] = NoTx]
        /\ UNCHANGED <<enr, task, campaign, blocked, optedOut, moved, slipped>>
    BY <1>1 DEF RewriteCommit, Abort
  <2>2. LocksRespected(p) BY <2>1 DEF LocksRespected
  <2> QED BY <2>1, <2>2, Unchanged, CloseOwn DEF Quiet
<1>2. CASE OnePerPerson(Rewritten(tx[p]))
  <2>1. enr' = Rewritten(tx[p]) /\ tx[p].op \in {"pause", "resume", "move"}
    BY <1>2 DEF RewriteCommit
  <2>2. RowsKept BY <2>1 DEF RowsKept, Rewritten, Typed, TypeOK, EnrRow
  <2>3. NothingOpens BY <1>2, SetTasksOpensNothing DEF RewriteCommit
  <2>4. /\ tx' = [tx EXCEPT ![p] = NoTx] /\ slipped \subseteq slipped'
        /\ UNCHANGED <<campaign, blocked, optedOut, moved>>
    BY <1>2 DEF RewriteCommit, Commit
  <2>5. LocksRespected(p) BY <2>4 DEF LocksRespected
  <2> QED BY <2>2, <2>3, <2>4, <2>5, Unchanged, CloseOwn DEF Quiet
<1> QED BY <1>1, <1>2

LEMMA EnrollCommitQuiet ==
  ASSUME Typed, NEW p \in Procs, EnrollCommit(p)
  PROVE  Quiet(p)
<1>1. CASE Rollback(p) BY <1>1, AbortQuiet
<1>2. CASE ~Rollback(p)
  <2>1. PICK q \in Rows : Fresh(q) /\ enr' = [enr EXCEPT ![q] = NewRow(tx[p].camp, FALSE)]
    BY <1>2 DEF EnrollCommit
  <2>2. RowsKept BY <2>1 DEF RowsKept, Fresh, Typed, TypeOK
  <2>3. tx' = [tx EXCEPT ![p] = NoTx] /\ UNCHANGED <<task, campaign, blocked, optedOut, aside>>
    BY <1>2 DEF EnrollCommit
  <2> QED BY <2>2, <2>3, Unchanged, CloseOwn DEF Quiet
<1> QED BY <1>1, <1>2

(* The account's lock is held until the commit, so no generation is under  *)
(* way there.                                                              *)
LEMMA BlockCommitQuiet ==
  ASSUME Typed, LocksAreExclusive, NEW p \in Procs, BlockCommit(p)
  PROVE  Quiet(p)
<1>1. RowsKept BY DEF BlockCommit, RowsKept, SetStatus, Typed, TypeOK, EnrRow
<1>2. NothingOpens BY SetTasksOpensNothing DEF BlockCommit
<1>3. \A a \in blocked' \ blocked : Others(p, <<"account", a>>)
  BY DEF BlockCommit, LocksAreExclusive, Others
<1>4. UNCHANGED <<campaign, optedOut, aside>> /\ Commit(p) BY DEF BlockCommit
<1>5. LocksRespected(p) BY <1>3, <1>4 DEF LocksRespected
<1> QED BY <1>1, <1>2, <1>4, <1>5, Unchanged, CloseOwn DEF Quiet, Commit

(* The contact is locked, so nobody there is generating.                   *)
LEMMA MoveToCrmCommitQuiet ==
  ASSUME Typed, NEW p \in Procs, MoveToCrmCommit(p)
  PROVE  Quiet(p)
<1>1. RowsKept BY DEF MoveToCrmCommit, RowsKept, SetStatus, Typed, TypeOK, EnrRow
<1>2. NothingOpens BY SetTasksOpensNothing DEF MoveToCrmCommit
<1>3. UNCHANGED <<campaign, blocked, optedOut, slipped>> /\ moved \subseteq moved' /\ Commit(p)
  BY DEF MoveToCrmCommit
<1>4. LocksRespected(p) BY <1>3 DEF LocksRespected
<1> QED BY <1>1, <1>2, <1>3, <1>4, Unchanged, CloseOwn DEF Quiet, Commit

LEMMA QuietSteps ==
  ASSUME IInv, NEW p \in Procs, Commits(p) \/ Handlers(p) \/ Crash(p),
         ~GenerateCommit(p), ~\E r \in Rows : AdvanceGenerate(p, r),
         ~RestoreCommit(p), ~\E person \in Cold : UndoMove(p, person)
  PROVE  Quiet(p)
<1> USE DEF IInv, EngineInv
<1>1. CASE Crash(p) BY <1>1, AbortQuiet DEF Crash
<1>2. CASE Commits(p)
  <2>1. CASE CompleteRaced(p) BY <2>1, AbortQuiet DEF CompleteRaced
  <2> QED
    BY <1>2, <2>1, CompleteCommitQuiet, ResolveCommitQuiet, EndCommitQuiet, RewriteCommitQuiet,
       EnrollCommitQuiet, BlockCommitQuiet, MoveToCrmCommitQuiet DEF Commits
<1>3. ASSUME NEW r \in Rows, RowHandlers(p, r) PROVE Quiet(p)
  <2>1. CASE \/ AdvanceComplete(p, r) \/ Pause(p, r) \/ Resume(p, r)
             \/ \E name \in DOMAIN EndStatus : EndEnrollment(p, name, r)
             \/ \E target \in Steps : Move(p, r, target)
    BY <2>1, RowOpeningsQuiet
  <2>2. CASE RowCalls(p, r) \/ AdvanceEndsCold(p, r) \/ AdvanceWaits(p, r)
    BY <2>2, CallsQuiet
  <2> QED BY <1>3, <2>1, <2>2 DEF RowHandlers, RowCalls
<1>4. CASE \E k \in Keys : TaskHandlers(p, k)
  BY <1>4, OtherOpeningsQuiet
<1>5. ASSUME NEW c \in Campaigns, CampaignHandlers(p, c) PROVE Quiet(p)
  <2>1. CASE HardStop(p, c) \/ \E person \in People : Enroll(p, person, c)
    BY <2>1, OtherOpeningsQuiet
  <2>2. CASE LaunchSkipped(p, c) \/ ResumeAll(p, c) BY <2>2, CallsQuiet
  <2> QED BY <1>5, <2>1, <2>2, LaunchQuiet, CampaignQuiet DEF CampaignHandlers
<1>6. ASSUME NEW a \in Accounts, Block(p, a) \/ Unblock(p, a) PROVE Quiet(p)
  BY <1>6, OtherOpeningsQuiet, UnblockQuiet
<1>7. ASSUME NEW person \in People, OptOut(p, person) \/ ExitAll(p, person) PROVE Quiet(p)
  BY <1>7, OptOutQuiet, CallsQuiet
<1>8. ASSUME NEW person \in Cold, MoveToCrm(p, person) PROVE Quiet(p)
  BY <1>8, OtherOpeningsQuiet
<1> QED BY <1>1, <1>2, <1>3, <1>4, <1>5, <1>6, <1>7, <1>8 DEF Handlers

-----------------------------------------------------------------------------
(* The two steps of a generation, and the two of an undo. *)

LEMMA AdvanceGenerateInv ==
  ASSUME IInv, NEW p \in Procs, NEW r \in Rows, AdvanceGenerate(p, r)
  PROVE  IInv' /\ Respects(p)
<1>1. PICK skip \in SUBSET Actions :
        Begin(p, [NoTx EXCEPT !.op = "generate", !.row = r, !.step = enr[r].step + 1,
                              !.skip = skip, !.held = AdvanceLocks(r)])
  BY DEF AdvanceGenerate
<1> DEFINE t == [NoTx EXCEPT !.op = "generate", !.row = r, !.step = enr[r].step + 1,
                             !.skip = skip, !.held = AdvanceLocks(r)]
<1>2. t.row = r /\ t.held = AdvanceLocks(r) /\ t.op = "generate" BY DEF NoTx
<1>3. Begin(p, t) /\ Free(t.held) BY <1>1, <1>2 DEF AdvanceGenerate
<1> HIDE DEF t
<1>4. OwnLocks(p) /\ tx'[p] = t BY <1>3, BeginOwn DEF IInv
<1>5. /\ UNCHANGED <<enr, task, campaign, blocked, optedOut, moved>>
      /\ slipped' = slipped \cup InCrm({r})
  BY DEF AdvanceGenerate
<1>6. RowsKept /\ StopsClose BY <1>5, Unchanged DEF IInv
<1>7. LocksRespected(p) BY <1>5 DEF LocksRespected
<1>8. OpensRight BY <1>5 DEF OpensRight, Opened
<1>9. Typed' BY AdvanceGenerateTyped DEF IInv
<1>10. MayStep(r)' BY <1>5 DEF AdvanceGenerate, Running, MayStep
<1>11. AccountLocks({Person(r)}) \cup {CampaignLock(enr'[r].camp)} \subseteq tx'[p].held
  BY <1>2, <1>4, <1>5 DEF AdvanceLocks
<1>12. r \in slipped' \/ MayContact(r, tx[p].held)'
  <2>1. CASE Person(r) \in moved BY <1>5, <2>1 DEF InCrm
  <2>2. CASE Person(r) \notin moved
    <3>1. ContactLocks({Person(r)}) \subseteq tx'[p].held
      BY <1>2, <1>4, <2>2 DEF AdvanceLocks, ContactLocks
    <3>2. ~ColdGone(r)' BY <1>5 DEF AdvanceGenerate, ColdGone, IsCold
    <3> QED BY <3>1, <3>2 DEF MayContact
  <2> QED BY <2>1, <2>2
<1>13. Generates(p, r)' BY <1>2, <1>4, <1>10, <1>11, <1>12 DEF Generates, MayContact
<1>14. tx'[p].op = "generate" BY <1>2, <1>4
<1> QED BY <1>4, <1>6, <1>7, <1>8, <1>9, <1>13, <1>14, StepKeeps DEF Respects

LEMMA UndoMoveInv ==
  ASSUME IInv, NEW p \in Procs, NEW person \in Cold, UndoMove(p, person)
  PROVE  IInv' /\ Respects(p)
<1> DEFINE t(wanted) == [NoTx EXCEPT !.op = "restore", !.row = <<person, 1>>,
                           !.rows = {r \in wanted : /\ person \notin optedOut
                                                    /\ campaign[enr[r].camp] = "ACTIVE"},
                           !.held = ContactLocks({person})]
<1>1. PICK wanted \in SUBSET {r \in RowsOf(person) : enr[r].status = "MOVED"} : Begin(p, t(wanted))
  BY DEF UndoMove
<1>2. /\ t(wanted).op = "restore" /\ Person(t(wanted).row) = person
      /\ t(wanted).held = ContactLocks({person})
      /\ t(wanted).rows \subseteq RowsOf(person)
      /\ t(wanted).rows # {} => person \notin optedOut
  BY DEF NoTx, Person
<1>3. Free(t(wanted).held) BY <1>2 DEF UndoMove
<1> HIDE DEF t
<1>4. OwnLocks(p) /\ tx'[p] = t(wanted) BY <1>1, <1>3, BeginOwn DEF IInv
<1>5. UNCHANGED <<enr, task, campaign, blocked, optedOut, aside>> BY DEF UndoMove
<1>6. RowsKept /\ StopsClose /\ LocksRespected(p) BY <1>5, Unchanged DEF IInv
<1>7. OpensRight BY <1>5 DEF OpensRight, Opened
<1>8. Typed' BY UndoMoveTyped DEF IInv
<1>9. Restores(p, Person(tx[p].row))' BY <1>2, <1>4, <1>5 DEF Restores, RowsOf
<1>10. tx'[p].op = "restore" BY <1>2, <1>4
<1> QED BY <1>4, <1>6, <1>7, <1>8, <1>9, <1>10, StepKeeps DEF Respects

(* Where a task may open (StepsOpenWhereAllowed).                          *)
OpensAllowed(k) ==
  /\ Account(k[1]) \notin blocked
  /\ k[1] \notin slipped' => /\ ~ColdGone(k[1])'
                             /\ campaign[enr[k[1]].camp] \in {"ACTIVE", "COMPLETED"}

(* A generation opens tasks of its own enrollment only, where there were   *)
(* none, and there it may.                                                 *)
LEMMA GenerateCommitOpens ==
  ASSUME IInv, NEW p \in Procs, GenerateCommit(p), NEW k \in Keys, Opened(k)
  PROVE  /\ k[1] \in Rows /\ k[1] = tx[p].row /\ k[2] = tx[p].step
         /\ task[k] = "NONE" /\ MayStep(k[1]) /\ OpensAllowed(k)
<1> DEFINE new == {Key(tx[p].row, tx[p].step, a) : a \in Actions}
<1>1. CASE Raced(p) BY <1>1 DEF Raced, Opened
<1>2. CASE ~Raced(p)
  <2>1. PICK r \in Rows : Generates(p, r)
    BY DEF GenerateCommit, IInv, EngineInv, GeneratorsHoldTheirLocks
  <2>2. (\A x \in new : task[x] = "NONE")
        /\ task' = [x \in Keys |-> IF x \notin new THEN task[x]
                                   ELSE IF x[3] \in tx[p].skip THEN "SKIPPED" ELSE "PENDING"]
    BY <1>2 DEF GenerateCommit
  <2> HIDE DEF new
  <2>3. k \in new /\ task[k] = "NONE" BY <2>2 DEF Opened
  <2>4. k[1] = r /\ k[2] = tx[p].step BY <2>1, <2>3 DEF new, Key, Generates
  <2>5. UNCHANGED <<optedOut, moved, slipped>> BY DEF GenerateCommit, Raced
  <2>6. OpensAllowed(k)
    BY <2>1, <2>4, <2>5 DEF OpensAllowed, Generates, MayStep, MayContact, ColdGone, IsCold
  <2> QED BY <2>1, <2>3, <2>4, <2>6 DEF Generates
<1> QED BY <1>1, <1>2

(* An undo opens the tasks its move had cancelled, of the enrollments it   *)
(* makes run again.                                                        *)
LEMMA RestoreCommitOpens ==
  ASSUME IInv, NEW p \in Procs, RestoreCommit(p), NEW k \in Keys, Opened(k)
  PROVE  /\ k[1] \in Rows /\ k[1] \in tx[p].rows /\ task[k] = "LEFT"
         /\ enr'[k[1]].status = "ACTIVE" /\ enr'[k[1]].camp = enr[k[1]].camp
         /\ campaign[enr[k[1]].camp] \in {"ACTIVE", "COMPLETED"} \/ k[1] \in slipped'
         /\ OpensAllowed(k)
<1> DEFINE t == tx[p]
           person == Person(t.row)
           after == [r \in Rows |->
                       IF r \in t.rows THEN [enr[r] EXCEPT !.status = "ACTIVE"]
                       ELSE IF Person(r) = person /\ enr[r].status = "MOVED"
                              THEN [enr[r] EXCEPT !.status = "EXITED"]
                       ELSE enr[r]]
<1>1. Restores(p, person) /\ person \in Cold
  BY DEF RestoreCommit, IInv, EngineInv, UndosHoldTheirContact, WritesAreResolutions, WellFormed
<1>2. /\ enr' = after
      /\ task' = SetTasks(Reopened(t), "PENDING")
      /\ moved' = moved \ {person} /\ UNCHANGED optedOut
      /\ slipped' = slipped \cup {r \in t.rows : campaign[enr[r].camp] \notin {"ACTIVE", "COMPLETED"}}
  BY DEF RestoreCommit, Rollback, Opened
<1>3. k \in Reopened(t) BY <1>2 DEF Opened, SetTasks
<1>4. k[1] \in Rows /\ k[1] \in t.rows /\ task[k] = "LEFT" BY <1>3 DEF Reopened, Keys
<1>5. enr \in [Rows -> EnrRow] BY DEF IInv, Typed, TypeOK
<1>6. enr'[k[1]].status = "ACTIVE" /\ enr'[k[1]].camp = enr[k[1]].camp
  BY <1>2, <1>4, <1>5 DEF EnrRow
<1>7. campaign[enr[k[1]].camp] \in {"ACTIVE", "COMPLETED"} \/ k[1] \in slipped'
  BY <1>2, <1>4
<1> HIDE DEF after
<1>8. Person(k[1]) = person /\ person \notin optedOut
  BY <1>1, <1>4 DEF Restores, RowsOf
<1>9. Account(k[1]) \notin blocked
  <2>1. Account(k[1]) = NoAccount BY <1>1, <1>8, EngineAssumption DEF Account
  <2>2. blocked \subseteq Accounts BY DEF IInv, Typed, TypeOK
  <2> QED BY <2>1, <2>2, EngineAssumption
<1>10. ~ColdGone(k[1])' BY <1>2, <1>8 DEF ColdGone
<1>11. OpensAllowed(k) BY <1>7, <1>9, <1>10 DEF OpensAllowed
<1> QED BY <1>4, <1>6, <1>7, <1>11

LEMMA GenerateCommitInv ==
  ASSUME IInv, NEW p \in Procs, GenerateCommit(p)
  PROVE  IInv' /\ Respects(p)
<1>1. Typed' BY GenerateCommitTyped DEF IInv
<1>2. tx' = [tx EXCEPT ![p] = NoTx] BY DEF GenerateCommit, Commit, Raced
<1>3. OwnLocks(p) /\ tx'[p].op \notin {"generate", "restore"} BY <1>2, CloseOwn DEF IInv
<1>4. UNCHANGED <<campaign, blocked, optedOut, aside>> BY DEF GenerateCommit, Raced
<1>5. \A r \in Rows : enr'[r].status = enr[r].status /\ enr'[r].camp = enr[r].camp
  <2>1. UNCHANGED enr \/ enr' = [enr EXCEPT ![tx[p].row].step = tx[p].step]
    BY DEF GenerateCommit, Raced
  <2>2. enr \in [Rows -> EnrRow] BY DEF IInv, Typed, TypeOK
  <2> QED BY <2>1, <2>2 DEF EnrRow
<1>6. RowsKept BY <1>5 DEF RowsKept
<1>7. LocksRespected(p) /\ StopsClose BY <1>4, Unchanged DEF IInv
<1>8. OpensRight
  BY <1>4, <1>5, GenerateCommitOpens DEF OpensRight, MayStep
<1> QED BY <1>1, <1>3, <1>6, <1>7, <1>8, StepKeeps DEF Respects

LEMMA RestoreCommitInv ==
  ASSUME IInv, NEW p \in Procs, RestoreCommit(p)
  PROVE  IInv' /\ Respects(p)
<1>1. Typed' BY RestoreCommitTyped DEF IInv
<1>2. CASE Rollback(p) BY <1>1, <1>2, AbortQuiet, QuietStep DEF IInv
<1>3. CASE ~Rollback(p)
  <2>1. tx' = [tx EXCEPT ![p] = NoTx] BY <1>3 DEF RestoreCommit, Commit
  <2>2. OwnLocks(p) /\ tx'[p].op \notin {"generate", "restore"} BY <2>1, CloseOwn DEF IInv
  <2>3. enr' = [r \in Rows |->
                  IF r \in tx[p].rows THEN [enr[r] EXCEPT !.status = "ACTIVE"]
                  ELSE IF Person(r) = Person(tx[p].row) /\ enr[r].status = "MOVED"
                         THEN [enr[r] EXCEPT !.status = "EXITED"]
                  ELSE enr[r]]
    BY <1>3 DEF RestoreCommit
  <2>4. RowsKept BY <2>3 DEF RowsKept, IInv, Typed, TypeOK, EnrRow
  <2>5. /\ UNCHANGED <<campaign, blocked, optedOut>> /\ moved' = moved \ {Person(tx[p].row)}
        /\ slipped \subseteq slipped'
    BY <1>3 DEF RestoreCommit
  <2>6. ASSUME Person(tx[p].row) \in Cold PROVE Others(p, <<"contact", Person(tx[p].row)>>)
    <3>1. <<"contact", Person(tx[p].row)>> \in tx[p].held
      BY <2>6 DEF RestoreCommit, IInv, EngineInv, UndosHoldTheirContact, Restores, ContactLocks
    <3> QED BY <3>1 DEF Others, IInv, EngineInv, LocksAreExclusive
  <2>7. LocksRespected(p) BY <2>5, <2>6 DEF LocksRespected
  <2>8. StopsClose BY <2>5, Unchanged DEF IInv
  <2>9. OpensRight BY <2>5, RestoreCommitOpens DEF OpensRight
  <2> QED BY <1>1, <2>2, <2>4, <2>7, <2>8, <2>9, StepKeeps DEF Respects
<1> QED BY <1>2, <1>3

-----------------------------------------------------------------------------
(* The theorems. *)

LEMMA InitInv == Init => IInv
<1> SUFFICES ASSUME Init PROVE IInv OBVIOUS
<1>1. Typed BY InitTyped
<1>2. LocksAreExclusive /\ GeneratorsHoldTheirLocks /\ UndosHoldTheirContact
  BY DEF Init, NoTx, LocksAreExclusive, GeneratorsHoldTheirLocks, UndosHoldTheirContact
<1>3. OpenTasksHaveEnrollments /\ StoppedCampaignHasNoOpenTasks
  BY DEF Init, OpenTasksHaveEnrollments, StoppedCampaignHasNoOpenTasks
<1> QED BY <1>1, <1>2, <1>3 DEF IInv, EngineInv, Typed

(* What the invariant speaks of, all but the end dates. *)
view == <<enr, task, campaign, blocked, optedOut, moved, slipped, tx>>

LEMMA ViewInv == IInv /\ Typed' /\ UNCHANGED view => IInv'
<1> SUFFICES ASSUME IInv, Typed', UNCHANGED view PROVE IInv' OBVIOUS
<1>1. LocksAreExclusive' /\ OpenTasksHaveEnrollments' /\ StoppedCampaignHasNoOpenTasks'
  BY DEF view, IInv, EngineInv, LocksAreExclusive, OpenTasksHaveEnrollments,
         StoppedCampaignHasNoOpenTasks
<1>2. GeneratorsHoldTheirLocks'
  BY DEF view, IInv, EngineInv, GeneratorsHoldTheirLocks, Generates, MayStep, MayContact, ColdGone,
         IsCold
<1>3. UndosHoldTheirContact'
  BY DEF view, IInv, EngineInv, UndosHoldTheirContact, Restores
<1> QED BY <1>1, <1>2, <1>3 DEF IInv, EngineInv, Typed

(* A step is one of a process, or leaves that alone.                       *)
StepOf(p) == Commits(p) \/ Handlers(p) \/ Crash(p)
Idle == UNCHANGED vars \/ \E c \in Campaigns : EndDatePasses(c)

LEMMA StepKinds == [Next]_vars <=> Idle \/ \E p \in Procs : StepOf(p)
  BY DEF Next, Idle, StepOf

LEMMA IdleView == Idle => UNCHANGED <<view, todo>>
  BY DEF Idle, EndDatePasses, vars, view

LEMMA StepRespects ==
  ASSUME IInv, NEW p \in Procs, StepOf(p)
  PROVE  IInv' /\ Respects(p)
<1>1. Typed' BY StepKinds, StepTyped DEF IInv
<1>2. CASE GenerateCommit(p) BY <1>2, GenerateCommitInv
<1>3. CASE \E r \in Rows : AdvanceGenerate(p, r) BY <1>3, AdvanceGenerateInv
<1>4. CASE RestoreCommit(p) BY <1>4, RestoreCommitInv
<1>5. CASE \E person \in Cold : UndoMove(p, person) BY <1>5, UndoMoveInv
<1>6. CASE Quiet(p) BY <1>1, <1>6, QuietStep
<1> QED BY <1>2, <1>3, <1>4, <1>5, <1>6, QuietSteps DEF StepOf

LEMMA StepInv == IInv /\ [Next]_vars => IInv'
<1> SUFFICES ASSUME IInv, [Next]_vars PROVE IInv' OBVIOUS
<1>1. Typed' BY StepTyped DEF IInv
<1>2. CASE Idle BY <1>1, <1>2, IdleView, ViewInv
<1> QED BY <1>2, StepKinds, StepRespects

(* The locking discipline of advanceEnrollment and what rests on it hold   *)
(* in every reachable state.                                               *)
THEOREM EngineInvariant == Spec => []EngineInv
<1>1. IInv => EngineInv BY DEF IInv
<1> QED BY <1>1, InitInv, StepInv, PTL DEF Spec

(* A stopped campaign never has an open task, whoever was advancing its    *)
(* people when it stopped (but where the undo of a move crossed the stop). *)
THEOREM StoppedIsStopped == Spec => []StoppedCampaignHasNoOpenTasks
<1>1. EngineInv => StoppedCampaignHasNoOpenTasks BY DEF EngineInv
<1> QED BY <1>1, EngineInvariant, PTL

(* Only the commit of a generation opens a task, one that did not exist    *)
(* before, and the commit of an undo, one that its move had cancelled.     *)
LEMMA WhatOpens ==
  ASSUME IInv, NEW p \in Procs, StepOf(p), NEW k \in Keys, Opened(k)
  PROVE  /\ OpensAllowed(k)
         /\ \/ GenerateCommit(p) /\ k[1] = tx[p].row /\ k[2] = tx[p].step /\ task[k] = "NONE"
            \/ RestoreCommit(p) /\ k[1] \in tx[p].rows /\ task[k] = "LEFT"
               /\ enr'[k[1]].status = "ACTIVE"
<1>1. CASE GenerateCommit(p) BY <1>1, GenerateCommitOpens
<1>2. CASE RestoreCommit(p) BY <1>2, RestoreCommitOpens
<1>3. CASE \E r \in Rows : AdvanceGenerate(p, r) BY <1>3 DEF AdvanceGenerate, Opened
<1>4. CASE \E person \in Cold : UndoMove(p, person) BY <1>4 DEF UndoMove, Opened
<1>5. CASE Quiet(p) BY <1>5 DEF Quiet, NothingOpens, Opened
<1> QED BY <1>1, <1>2, <1>3, <1>4, <1>5, QuietSteps DEF StepOf

LEMMA OpensOnlySo ==
  ASSUME IInv, [Next]_vars, NEW k \in Keys, Opened(k)
  PROVE  task[k] \in {"NONE", "LEFT"} /\ OpensAllowed(k)
  BY WhatOpens, StepKinds, IdleView DEF view, Opened

(* No step is opened for a blocked account, for a cold contact who has     *)
(* opted out, or in a campaign that is paused, stopped or not launched:    *)
(* the locks of advanceEnrollment keep what it read true until it commits. *)
THEOREM OpensWhereAllowed == Spec => StepsOpenWhereAllowed
<1> DEFINE A == \A k \in Keys : Opened(k) =>
              /\ Account(k[1]) \notin blocked
              /\ k[1] \notin slipped' =>
                   /\ ~ColdGone(k[1])'
                   /\ campaign[enr[k[1]].camp] \in {"ACTIVE", "COMPLETED"}
<1>1. IInv /\ [Next]_vars => [A]_vars
  BY OpensOnlySo DEF OpensAllowed
<1> QED BY <1>1, InitInv, StepInv, PTL DEF Spec, StepsOpenWhereAllowed

(* A task that was done, skipped or cancelled is never open again, whatever*)
(* generates its step anew: an undo opens only what its own move cancelled.*)
THEOREM ResolvedForGood == Spec => ResolvedStaysResolved
<1> DEFINE A == \A k \in Keys :
              task[k] \in {"DONE", "SKIPPED", "CANCELLED"} => task'[k] # "PENDING"
<1>1. IInv /\ [Next]_vars => [A]_vars
  BY OpensOnlySo DEF Opened
<1> QED BY <1>1, InitInv, StepInv, PTL DEF Spec, ResolvedStaysResolved
-----------------------------------------------------------------------------
(* What a step does to an enrollment, and which transactions it opens.     *)

SameRow(r)  == /\ enr'[r].status = enr[r].status /\ enr'[r].camp = enr[r].camp
               /\ enr'[r].step = enr[r].step
Moved(r)    == enr'[r].camp = enr[r].camp /\ enr'[r].step = enr[r].step
Halted(r)   == Moved(r) /\ enr'[r].status \in {"EXITED", "REPLIED", "MEETING", "MOVED"}
(* A write by id that brings back what a move had ended slips.             *)
Slips(r)    == HasLeft(r) => r \in slipped'
Held(p, r)  == /\ Moved(r) /\ enr'[r].status = "PAUSED"
               /\ \/ enr[r].status = "ACTIVE"
                  \/ tx[p].op = "end" /\ r \in tx[p].rows
                  \/ Slips(r)
Finished(p, r)  == /\ Moved(r) /\ tx[p].op = "end" /\ tx[p].to = "COMPLETED"
                   /\ enr'[r].status = "COMPLETED"
Completed(p, r) == /\ Moved(r) /\ CompleteCommit(p) /\ r = tx[p].row
                   /\ enr'[r].status = "COMPLETED"
Resumed(p, r)   == /\ Moved(r) /\ tx[p].op = "resume" /\ r = tx[p].row /\ UNCHANGED campaign
                   /\ enr'[r].status = "ACTIVE" /\ Slips(r)
Restored(p, r)  == /\ Moved(r) /\ tx[p].op = "restore" /\ r \in tx[p].rows /\ UNCHANGED campaign
                   /\ enr'[r].status = "ACTIVE" /\ ~HasLeft(r)'
                   /\ r \in slipped' \/ campaign[enr[r].camp] \in {"ACTIVE", "COMPLETED"}
Generated(p, r) == /\ GenerateCommit(p) /\ r = tx[p].row /\ enr'[r].step = tx[p].step
                   /\ enr'[r].status = enr[r].status /\ enr'[r].camp = enr[r].camp
Started(p, r)   == /\ enr[r].status = "NONE" /\ enr'[r].status = "ACTIVE"
                   /\ \/ campaign'[enr'[r].camp] = "ACTIVE"
                      \/ /\ tx[p].op = "complete" /\ UNCHANGED campaign
                         /\ enr'[r].camp = enr[tx[p].row].camp
                      \/ tx[p].op = "enroll"
Relocated(p, r) == /\ tx[p].op = "move" /\ r = tx[p].row
                   /\ enr'[r].status = "ACTIVE" /\ enr'[r].camp = enr[r].camp /\ Slips(r)
RowMoves(p, r) == \/ SameRow(r) \/ Halted(r) \/ Held(p, r) \/ Finished(p, r) \/ Completed(p, r)
                  \/ Resumed(p, r) \/ Restored(p, r) \/ Generated(p, r) \/ Started(p, r)
                  \/ Relocated(p, r)

(* Whatever commits, each enrollment moves in one of these ways.           *)
LEMMA CommitsMoveRows ==
  ASSUME Typed, NEW p \in Procs, Commits(p), NEW r \in Rows
  PROVE  RowMoves(p, r)
<1>0. enr \in [Rows -> EnrRow]
  BY DEF Typed, TypeOK
<1>1. CASE UNCHANGED enr
  BY <1>1 DEF RowMoves, SameRow
<1>2. CASE GenerateCommit(p) /\ ~UNCHANGED enr
  <2>1. enr' = [enr EXCEPT ![tx[p].row].step = tx[p].step]
    BY <1>2 DEF GenerateCommit, Raced
  <2> QED BY <1>0, <1>2, <2>1 DEF EnrRow, RowMoves, SameRow, Generated
<1>3. CASE CompleteCommit(p)
  <2> DEFINE done == [enr EXCEPT ![tx[p].row].status = "COMPLETED"]
  <2>1. /\ DOMAIN done = Rows
        /\ done[r].camp = enr[r].camp /\ done[r].step = enr[r].step
        /\ done[r].status = IF r = tx[p].row THEN "COMPLETED" ELSE enr[r].status
    BY <1>0 DEF EnrRow
  <2>2. \/ enr' = done
        \/ \E q \in Rows : Fresh(q) /\ enr' = [done EXCEPT ![q] = NewRow(enr[tx[p].row].camp, FALSE)]
    BY <1>3 DEF CompleteCommit
  <2> HIDE DEF done
  <2>3. CASE enr'[r] = done[r]
    BY <1>3, <2>1, <2>3 DEF RowMoves, SameRow, Completed, Moved
  <2>4. CASE Fresh(r) /\ enr'[r] = NewRow(enr[tx[p].row].camp, FALSE)
    <3>1. enr[r].status = "NONE" /\ tx[p].op = "complete" /\ UNCHANGED campaign
      BY <1>3, <2>4 DEF Fresh, CompleteCommit
    <3>2. enr'[r].status = "ACTIVE" /\ enr'[r].camp = enr[tx[p].row].camp
      BY <2>4 DEF NewRow
    <3> QED BY <3>1, <3>2 DEF RowMoves, Started
  <2> QED BY <2>1, <2>2, <2>3, <2>4
<1>4. CASE EndCommit(p) /\ ~UNCHANGED enr
  <2>1. enr' = [q \in Rows |->
                  IF q = tx[p].row THEN [enr[q] EXCEPT !.status = tx[p].to]
                  ELSE IF q \in tx[p].rows
                         THEN [enr[q] EXCEPT !.status = "PAUSED", !.byCampaign = FALSE]
                  ELSE enr[q]]
    BY <1>4 DEF EndCommit, Rollback
  <2>2. tx[p].op = "end" /\ tx[p].to \in Ended
    BY <1>4 DEF EndCommit, Typed, WritesAreResolutions, WellFormed
  <2> QED BY <1>0, <2>1, <2>2 DEF EnrRow, Ended, RowMoves, SameRow, Halted, Held, Finished, Moved
<1>5. CASE RewriteCommit(p) /\ ~UNCHANGED enr
  <2>1. enr' = Rewritten(tx[p]) /\ tx[p].op \in {"pause", "resume", "move"} /\ UNCHANGED campaign
    BY <1>5 DEF RewriteCommit
  <2>2. r = tx[p].row => Slips(r)
    BY <1>5 DEF RewriteCommit, Slips
  <2>3. CASE tx[p].op = "pause"
    <3>1. enr' = [enr EXCEPT ![tx[p].row].status = "PAUSED", ![tx[p].row].byCampaign = FALSE]
      BY <2>1, <2>3 DEF Rewritten
    <3> QED BY <1>0, <2>2, <3>1 DEF EnrRow, RowMoves, SameRow, Held, Moved
  <2>4. CASE tx[p].op = "resume"
    <3>1. enr' = [enr EXCEPT ![tx[p].row].status = "ACTIVE", ![tx[p].row].byCampaign = FALSE]
      BY <2>1, <2>4 DEF Rewritten
    <3> QED BY <1>0, <2>1, <2>4, <2>2, <3>1 DEF EnrRow, RowMoves, SameRow, Resumed, Moved
  <2>5. CASE tx[p].op = "move"
    <3>1. enr' = [enr EXCEPT ![tx[p].row].status = "ACTIVE", ![tx[p].row].byCampaign = FALSE,
                             ![tx[p].row].step = tx[p].step - 1]
      BY <2>1, <2>5 DEF Rewritten
    <3>2. CASE r # tx[p].row BY <1>0, <3>1, <3>2 DEF RowMoves, SameRow
    <3>3. CASE r = tx[p].row
      <4>1. enr'[r].status = "ACTIVE" /\ enr'[r].camp = enr[r].camp
        BY <1>0, <3>1, <3>3 DEF EnrRow
      <4> QED BY <2>5, <2>2, <3>3, <4>1 DEF RowMoves, Relocated
    <3> QED BY <3>2, <3>3
  <2> QED BY <2>1, <2>3, <2>4, <2>5
<1>6. CASE EnrollCommit(p) /\ ~UNCHANGED enr
  <2>1. tx[p].op = "enroll" /\ \E q \in Rows : Fresh(q) /\ enr' = [enr EXCEPT ![q] = NewRow(tx[p].camp, FALSE)]
    BY <1>6 DEF EnrollCommit, Rollback
  <2>2. PICK q \in Rows : Fresh(q) /\ enr' = [enr EXCEPT ![q] = NewRow(tx[p].camp, FALSE)]
    BY <2>1
  <2>3. CASE r # q
    BY <1>0, <2>2, <2>3 DEF RowMoves, SameRow
  <2>4. CASE r = q
    BY <1>0, <2>1, <2>2, <2>4 DEF RowMoves, Started, Fresh, NewRow
  <2> QED BY <2>3, <2>4
<1>7. CASE BlockCommit(p)
  BY <1>0, <1>7 DEF BlockCommit, SetStatus, EnrRow, RowMoves, SameRow, Halted, Moved
<1>8. CASE ResolveCommit(p) \/ CompleteRaced(p)
  BY <1>1, <1>8 DEF ResolveCommit, CompleteRaced, Raced
<1>9. CASE MoveToCrmCommit(p)
  BY <1>0, <1>9 DEF MoveToCrmCommit, SetStatus, EnrRow, RowMoves, SameRow, Halted, Moved
<1>10. CASE RestoreCommit(p) /\ ~UNCHANGED enr
  <2>1. enr' = [q \in Rows |->
                  IF q \in tx[p].rows THEN [enr[q] EXCEPT !.status = "ACTIVE"]
                  ELSE IF Person(q) = Person(tx[p].row) /\ enr[q].status = "MOVED"
                         THEN [enr[q] EXCEPT !.status = "EXITED"]
                  ELSE enr[q]]
    BY <1>10 DEF RestoreCommit, Rollback
  <2>2. CASE r \notin tx[p].rows
    BY <1>0, <2>1, <2>2 DEF EnrRow, RowMoves, SameRow, Halted, Moved
  <2>3. CASE r \in tx[p].rows
    <3>1. enr'[r].status = "ACTIVE" /\ Moved(r) BY <1>0, <2>1, <2>3 DEF EnrRow, Moved
    <3>2. ~HasLeft(r)'
      <4>1. task' = SetTasks(Reopened(tx[p]), "PENDING") BY <1>10 DEF RestoreCommit, Rollback
      <4> QED BY <2>3, <4>1 DEF HasLeft, SetTasks, Reopened
    <3>3. /\ tx[p].op = "restore" /\ UNCHANGED campaign
          /\ r \in slipped' \/ campaign[enr[r].camp] \in {"ACTIVE", "COMPLETED"}
      BY <1>10, <2>3 DEF RestoreCommit, Rollback
    <3> QED BY <2>3, <3>1, <3>2, <3>3 DEF RowMoves, Restored
  <2> QED BY <2>2, <2>3
<1> QED BY <1>1, <1>2, <1>3, <1>4, <1>5, <1>6, <1>7, <1>8, <1>9, <1>10 DEF Commits

(* So it does in every step.                                               *)
LEMMA StepsMoveRows ==
  ASSUME Typed, NEW p \in Procs, StepOf(p), NEW r \in Rows
  PROVE  RowMoves(p, r)
<1>0. enr \in [Rows -> EnrRow] /\ campaign \in [Campaigns -> CampaignStatuses]
  BY DEF Typed, TypeOK
<1>1. CASE UNCHANGED enr
  BY <1>1 DEF RowMoves, SameRow
<1>2. CASE Commits(p) BY <1>2, CommitsMoveRows
<1>3. ASSUME NEW c \in Campaigns, Launch(p, c) PROVE RowMoves(p, r)
  <2>1. PICK S \in Starters(c) :
          /\ enr' = [q \in Rows |-> IF q \in {x \in Rows : Person(x) \in S /\ Fresh(x)}
                                    THEN NewRow(c, c \in Calendar) ELSE enr[q]]
          /\ campaign' = [campaign EXCEPT ![c] = IF S = {} THEN "COMPLETED" ELSE "ACTIVE"]
    BY <1>3 DEF Launch
  <2>2. CASE Person(r) \in S /\ Fresh(r)
    <3>1. enr'[r].status = "ACTIVE" /\ enr'[r].camp = c /\ enr[r].status = "NONE"
      BY <2>1, <2>2 DEF Fresh, NewRow
    <3>2. campaign'[c] = "ACTIVE"
      BY <1>0, <2>1, <2>2
    <3> QED BY <3>1, <3>2 DEF RowMoves, Started
  <2>3. CASE ~(Person(r) \in S /\ Fresh(r))
    BY <2>1, <2>3 DEF RowMoves, SameRow
  <2> QED BY <2>2, <2>3
<1>4. ASSUME NEW c \in Campaigns, PauseCampaign(p, c) \/ StopCampaign(p, c) PROVE RowMoves(p, r)
  <2>1. CASE PauseCampaign(p, c)
    BY <1>0, <2>1 DEF PauseCampaign, EnrRow, RowMoves, SameRow, Held, Moved
  <2>2. CASE StopCampaign(p, c)
    <3>1. enr' = SetStatus(OccupyingRows(RowsOfCampaign(c)), "EXITED")
      BY <2>2 DEF StopCampaign
    <3> QED BY <1>0, <3>1 DEF SetStatus, EnrRow, RowMoves, SameRow, Halted, Moved
  <2> QED BY <1>4, <2>1, <2>2
<1>5. ASSUME NEW q \in Rows, RowHandlers(p, q) PROVE UNCHANGED enr
  BY <1>5 DEF RowHandlers, AdvanceGenerate, AdvanceComplete, AdvanceEndsCold, AdvanceWaits,
     EndEnrollment, EndSkipped, Pause, Resume, ResumeRefused, Move
<1>6. ASSUME NEW k \in Keys, TaskHandlers(p, k) PROVE UNCHANGED enr
  BY <1>6 DEF TaskHandlers, ResolveTask, AnsweredCall, AskedToStop, Resolve
<1>7. ASSUME NEW c \in Campaigns, CampaignHandlers(p, c),
             ~Launch(p, c), ~PauseCampaign(p, c), ~StopCampaign(p, c)
      PROVE  UNCHANGED enr
  BY <1>7 DEF CampaignHandlers, LaunchSkipped, ResumeCampaign, ResumeAll, HardStop,
     CompleteCampaign, Enroll
<1>8. ASSUME NEW a \in Accounts, Block(p, a) \/ Unblock(p, a) PROVE UNCHANGED enr
  BY <1>8 DEF Block, Unblock
<1>9. ASSUME NEW x \in People, OptOut(p, x) \/ ExitAll(p, x) PROVE UNCHANGED enr
  BY <1>9 DEF OptOut, ExitAll
<1>10. ASSUME NEW x \in Cold, MoveToCrm(p, x) \/ UndoMove(p, x) PROVE UNCHANGED enr
  BY <1>10 DEF MoveToCrm, UndoMove
<1>11. CASE Crash(p) BY <1>1, <1>11 DEF Crash, Rollback
<1>12. CASE Handlers(p)
  BY <1>1, <1>3, <1>4, <1>5, <1>6, <1>7, <1>8, <1>9, <1>10, <1>12 DEF Handlers
<1> QED BY <1>2, <1>11, <1>12 DEF StepOf

(* The handlers that open a transaction which goes on with its locks, or   *)
(* whose requests the theorems below speak of.                             *)
Opens(p) == \/ tx'[p].op \in {"none", "resolve", "pause", "block", "restore"}
            \/ \E x \in Cold : MoveToCrm(p, x)
            \/ \E r \in Rows : AdvanceGenerate(p, r) \/ AdvanceComplete(p, r) \/ Resume(p, r)
            \/ \E r \in Rows, name \in DOMAIN EndStatus : EndEnrollment(p, name, r)
            \/ "move" \in Requests /\ tx'[p].op = "move"
            \/ "enroll" \in Requests /\ tx'[p].op = "enroll"

(* Every step leaves its process with one of those, or with a commit due   *)
(* that only resolves, pauses or cancels.                                  *)
LEMMA StepsOpen ==
  ASSUME Typed, NEW p \in Procs, StepOf(p)
  PROVE  Opens(p)
<1>0. tx \in [Procs -> Tx] /\ tx' \in [Procs -> Tx]
  BY StepKinds, StepTyped DEF Typed, TypeOK
<1>1. ASSUME NEW t, Begin(p, t) PROVE tx'[p] = t
  BY <1>0, <1>1 DEF Begin
<1>2. ASSUME tx'[p] = NoTx PROVE Opens(p)
  BY <1>2 DEF Opens, NoTx
<1>3. ASSUME UNCHANGED tx, tx[p] = NoTx PROVE Opens(p)
  BY <1>2, <1>3
<1>4. CASE Commits(p) \/ Crash(p)
  <2>1. tx' = [tx EXCEPT ![p] = NoTx]
    BY <1>4 DEF Commits, Crash, GenerateCommit, CompleteCommit, CompleteRaced, ResolveCommit,
       EndCommit, RewriteCommit, EnrollCommit, BlockCommit, MoveToCrmCommit, RestoreCommit, Commit,
       Raced, Rollback, Abort
  <2> QED BY <1>0, <1>2, <2>1
<1>5. ASSUME NEW r \in Rows, RowHandlers(p, r) PROVE Opens(p)
  <2>1. CASE AdvanceGenerate(p, r) \/ AdvanceComplete(p, r) \/ Resume(p, r)
    BY <2>1 DEF Opens
  <2>2. CASE \E name \in DOMAIN EndStatus : EndEnrollment(p, name, r)
    BY <2>2 DEF Opens
  <2>3. CASE Pause(p, r)
    <3>1. tx'[p].op = "pause"
      BY <1>1, <2>3 DEF Pause, NoTx
    <3> QED BY <3>1 DEF Opens
  <2>4. ASSUME NEW target \in Steps, Move(p, r, target) PROVE Opens(p)
    <3>1. tx'[p].op = "move" /\ "move" \in Requests
      BY <1>1, <2>4 DEF Move, NoTx, Asked
    <3> QED BY <3>1 DEF Opens
  <2>5. CASE \/ AdvanceEndsCold(p, r) \/ AdvanceWaits(p, r) \/ ResumeRefused(p, r)
             \/ \E name \in DOMAIN EndStatus : EndSkipped(p, name, r)
    BY <1>3, <2>5 DEF AdvanceEndsCold, AdvanceWaits, ResumeRefused, EndSkipped, AdvanceCalled, Called
  <2> QED BY <1>5, <2>1, <2>2, <2>3, <2>4, <2>5 DEF RowHandlers
<1>6. ASSUME NEW k \in Keys, TaskHandlers(p, k) PROVE Opens(p)
  <2>1. ASSUME NEW request, NEW state, NEW calls, Resolve(p, request, k, state, calls)
        PROVE  tx'[p].op = "resolve"
    BY <1>1, <2>1 DEF Resolve, NoTx
  <2>2. tx'[p].op = "resolve"
    BY <1>6, <2>1 DEF TaskHandlers, ResolveTask, AnsweredCall, AskedToStop
  <2> QED BY <2>2 DEF Opens
<1>7. ASSUME NEW c \in Campaigns, CampaignHandlers(p, c) PROVE Opens(p)
  <2>1. CASE HardStop(p, c)
    <3>1. tx'[p].op = "block"
      BY <1>1, <2>1 DEF HardStop, NoTx
    <3> QED BY <3>1 DEF Opens
  <2>2. ASSUME NEW x \in People, Enroll(p, x, c) PROVE Opens(p)
    <3>1. tx'[p].op = "enroll" /\ "enroll" \in Requests
      BY <1>1, <2>2 DEF Enroll, NoTx, Asked
    <3> QED BY <3>1 DEF Opens
  <2>3. CASE \/ Launch(p, c) \/ LaunchSkipped(p, c) \/ PauseCampaign(p, c) \/ StopCampaign(p, c)
             \/ ResumeCampaign(p, c) \/ ResumeAll(p, c) \/ CompleteCampaign(p, c)
    BY <1>3, <2>3 DEF Launch, LaunchSkipped, PauseCampaign, StopCampaign, ResumeCampaign, ResumeAll,
       CompleteCampaign, Called, Asked
  <2> QED BY <1>7, <2>1, <2>2, <2>3 DEF CampaignHandlers
<1>8. ASSUME NEW a \in Accounts, Block(p, a) \/ Unblock(p, a) PROVE Opens(p)
  <2>1. CASE Block(p, a)
    <3>1. tx'[p].op = "block"
      BY <1>1, <2>1 DEF Block, NoTx
    <3> QED BY <3>1 DEF Opens
  <2>2. CASE Unblock(p, a) BY <1>3, <2>2 DEF Unblock, Asked
  <2> QED BY <1>8, <2>1, <2>2
<1>9. ASSUME NEW x \in People, OptOut(p, x) \/ ExitAll(p, x) PROVE Opens(p)
  BY <1>3, <1>9 DEF OptOut, ExitAll, Called
<1>10. ASSUME NEW x \in Cold, UndoMove(p, x) PROVE Opens(p)
  <2>1. tx'[p].op = "restore"
    BY <1>1, <1>10 DEF UndoMove, NoTx
  <2> QED BY <2>1 DEF Opens
<1> QED BY <1>4, <1>5, <1>6, <1>7, <1>8, <1>9, <1>10 DEF StepOf, Handlers, Opens

(* A completion and a resume hold their campaign's lock, too, and what they*)
(* read of it stays true until they commit.                                *)
HoldsCampaign(q) == \E r \in Rows :
  /\ r = tx[q].row /\ enr[r].status # "NONE"
  /\ CampaignLock(enr[r].camp) \in tx[q].held
  /\ campaign[enr[r].camp] \in {"ACTIVE", "COMPLETED"}
CampaignsHeld == \A q \in Procs : tx[q].op \in {"complete", "resume"} => HoldsCampaign(q)

Base == IInv /\ CampaignsHeld

(* No step of another process takes it from them.                          *)
LEMMA HolderKept ==
  ASSUME Typed, NEW p \in Procs, OwnLocks(p), RowsKept, LocksRespected(p),
         NEW q \in Procs \ {p}, HoldsCampaign(q)
  PROVE  HoldsCampaign(q)'
<1>1. tx'[q] = tx[q] BY DEF OwnLocks
<1>2. PICK r \in Rows : /\ r = tx[q].row /\ enr[r].status # "NONE"
                        /\ CampaignLock(enr[r].camp) \in tx[q].held
                        /\ campaign[enr[r].camp] \in {"ACTIVE", "COMPLETED"}
  BY DEF HoldsCampaign
<1>3. enr'[r].status # "NONE" /\ enr'[r].camp = enr[r].camp BY <1>2 DEF RowsKept
<1>4. enr[r].camp \in Campaigns BY EnrRowType DEF Typed
<1>5. campaign'[enr[r].camp] \in {"ACTIVE", "COMPLETED"}
  BY <1>2, <1>4 DEF LocksRespected, Others
<1> QED BY <1>1, <1>2, <1>3, <1>5 DEF HoldsCampaign, CampaignLock

(* They hold it from the moment they begin.                                *)
LEMMA OpenedHolds ==
  ASSUME Typed, NEW p \in Procs, NEW r \in Rows, AdvanceComplete(p, r) \/ Resume(p, r)
  PROVE  HoldsCampaign(p)' /\ tx'[p].row = r /\ UNCHANGED <<enr, task, campaign>>
<1>0. tx \in [Procs -> Tx]
  BY DEF Typed, TypeOK
<1>1. CASE AdvanceComplete(p, r)
  <2> DEFINE t == [NoTx EXCEPT !.op = "complete", !.row = r,
                               !.repeat = Repeats(r),
                               !.held = AdvanceLocks(r)]
  <2>1. t.row = r /\ t.held = AdvanceLocks(r) BY DEF NoTx
  <2>2. tx'[p] = t BY <1>0, <1>1 DEF AdvanceComplete, Begin
  <2> HIDE DEF t
  <2>3. UNCHANGED <<enr, task, campaign>> /\ Running(r) BY <1>1 DEF AdvanceComplete
  <2>4. CampaignLock(enr[r].camp) \in tx'[p].held BY <2>1, <2>2, AdvanceLocksHave DEF Typed
  <2> QED BY <2>1, <2>2, <2>3, <2>4 DEF HoldsCampaign, CampaignLock, Running
<1>2. CASE Resume(p, r)
  <2> DEFINE t == [NoTx EXCEPT !.op = "resume", !.row = r, !.held = ResumeLocks(r),
                               !.then = << <<"advance", r>> >>]
  <2>1. t.row = r /\ t.held = ResumeLocks(r) BY DEF NoTx
  <2>2. tx'[p] = t BY <1>0, <1>2 DEF Resume, Begin
  <2> HIDE DEF t
  <2>3. UNCHANGED <<enr, task, campaign>> /\ Resumable(r) BY <1>2 DEF Resume
  <2>4. CampaignLock(enr[r].camp) \in tx'[p].held BY <2>1, <2>2 DEF ResumeLocks
  <2> QED BY <2>1, <2>2, <2>3, <2>4 DEF HoldsCampaign, CampaignLock, Resumable
<1> QED BY <1>1, <1>2

(* The transaction each of those handlers opens.                           *)
LEMMA OpenedOps ==
  ASSUME Typed, NEW p \in Procs, NEW r \in Rows
  PROVE  /\ AdvanceGenerate(p, r) => /\ tx'[p].op = "generate" /\ tx'[p].row = r
                                     /\ tx'[p].held = AdvanceLocks(r)
                                     /\ UNCHANGED <<enr, task, campaign>>
         /\ AdvanceComplete(p, r) => /\ tx'[p].op = "complete" /\ tx'[p].row = r
                                     /\ tx'[p].held = AdvanceLocks(r)
                                     /\ UNCHANGED <<enr, task, campaign>>
         /\ Resume(p, r) => tx'[p].op = "resume"
         /\ \A name \in DOMAIN EndStatus : EndEnrollment(p, name, r) =>
              /\ tx'[p].op = "end" /\ tx'[p].to = EndStatus[name]
              /\ tx'[p].rows \subseteq Colleagues(r)
<1>0. tx \in [Procs -> Tx]
  BY DEF Typed, TypeOK
<1>1. ASSUME NEW t, Begin(p, t) PROVE tx'[p] = t
  BY <1>0, <1>1 DEF Begin
<1>2. ASSUME AdvanceGenerate(p, r)
      PROVE  /\ tx'[p].op = "generate" /\ tx'[p].row = r /\ tx'[p].held = AdvanceLocks(r)
             /\ UNCHANGED <<enr, task, campaign>>
  <2>1. PICK skip \in SUBSET Actions :
          tx'[p] = [NoTx EXCEPT !.op = "generate", !.row = r, !.step = enr[r].step + 1,
                                !.skip = skip, !.held = AdvanceLocks(r)]
    BY <1>1, <1>2 DEF AdvanceGenerate
  <2> QED BY <1>2, <2>1 DEF NoTx, AdvanceGenerate
<1>3. ASSUME AdvanceComplete(p, r)
      PROVE  /\ tx'[p].op = "complete" /\ tx'[p].row = r /\ tx'[p].held = AdvanceLocks(r)
             /\ UNCHANGED <<enr, task, campaign>>
  <2>1. tx'[p] = [NoTx EXCEPT !.op = "complete", !.row = r, !.repeat = Repeats(r),
                              !.held = AdvanceLocks(r)]
    BY <1>1, <1>3 DEF AdvanceComplete
  <2> QED BY <1>3, <2>1 DEF NoTx, AdvanceComplete
<1>4. Resume(p, r) => tx'[p].op = "resume"
  BY <1>1 DEF Resume, NoTx
<1>5. ASSUME NEW name \in DOMAIN EndStatus, EndEnrollment(p, name, r)
      PROVE  tx'[p].op = "end" /\ tx'[p].to = EndStatus[name] /\ tx'[p].rows \subseteq Colleagues(r)
  <2>1. tx'[p] = [NoTx EXCEPT !.op = "end", !.row = r, !.to = EndStatus[name], !.open = Open(r),
                              !.rows = IF name = "reply" THEN Colleagues(r) ELSE {}]
    BY <1>1, <1>5 DEF EndEnrollment
  <2> QED BY <2>1 DEF NoTx
<1> QED BY <1>2, <1>3, <1>4, <1>5

LEMMA MovesOutOp ==
  ASSUME Typed, NEW p \in Procs, NEW x \in Cold, MoveToCrm(p, x)
  PROVE  /\ tx'[p].op = "toCrm" /\ tx'[p].then = <<>>
         /\ tx'[p].row = <<x, 1>> /\ tx'[p].rows = OccupyingRows(RowsOf(x))
         /\ tx'[p].open = UNION {Open(r) : r \in OccupyingRows(RowsOf(x))}
         /\ tx'[p].held = ContactLocks({x})
<1> DEFINE rows == OccupyingRows(RowsOf(x))
           opens == UNION {Open(r) : r \in rows}
<1>1. tx'[p] = [NoTx EXCEPT !.op = "toCrm", !.row = <<x, 1>>, !.rows = rows, !.open = opens,
                            !.held = ContactLocks({x})]
  BY DEF MoveToCrm, Begin, Typed, TypeOK
<1> HIDE DEF rows, opens
<1>2. /\ tx'[p].op = "toCrm" /\ tx'[p].then = <<>> /\ tx'[p].row = <<x, 1>>
      /\ tx'[p].rows = rows /\ tx'[p].open = opens /\ tx'[p].held = ContactLocks({x})
  BY <1>1 DEF NoTx
<1> QED BY <1>2 DEF rows, opens

(* A move opens nothing but a move.                                        *)
LEMMA MoveOpens ==
  ASSUME Typed, NEW p \in Procs, \E x \in Cold : MoveToCrm(p, x)
  PROVE  tx'[p].op = "toCrm"
BY MovesOutOp

(* The engine's invariant and the campaigns held are kept by every step.   *)
LEMMA StepBase ==
  ASSUME Base, NEW p \in Procs, StepOf(p)
  PROVE  Base'
<1>0. IInv' /\ Typed
  BY StepRespects DEF Base, IInv
<1>1. OwnLocks(p) /\ RowsKept /\ LocksRespected(p)
  BY StepRespects DEF Base, Respects
<1>2. ASSUME NEW q \in Procs, tx'[q].op \in {"complete", "resume"} PROVE HoldsCampaign(q)'
  <2>1. CASE q # p
    <3>1. tx'[q] = tx[q] BY <1>1, <2>1 DEF OwnLocks
    <3> QED BY <1>0, <1>1, <1>2, <2>1, <3>1, HolderKept DEF Base, CampaignsHeld
  <2>2. CASE q = p
    <3>1. \E r \in Rows : AdvanceComplete(p, r) \/ Resume(p, r)
      BY <1>0, <1>2, <2>2, StepsOpen, OpenedOps, MoveOpens DEF Opens
    <3> QED BY <1>0, <2>2, <3>1, OpenedHolds
  <2> QED BY <2>1, <2>2
<1> QED BY <1>0, <1>2 DEF Base, CampaignsHeld

(* And when nothing happens, and they hold at first.                       *)
LEMMA IdleBase ==
  ASSUME Base, Idle
  PROVE  Base'
<1>1. IInv' BY StepKinds, StepInv DEF Base
<1>2. UNCHANGED view BY IdleView
<1> QED BY <1>1, <1>2 DEF view, Base, CampaignsHeld, HoldsCampaign, CampaignLock

(* The steps that write a campaign's status.                               *)
LEMMA WhatPauses ==
  ASSUME NEW p \in Procs, StepOf(p)
  PROVE  \/ UNCHANGED campaign
         \/ \E c \in Campaigns : \/ PauseCampaign(p, c) \/ StopCampaign(p, c)
                                 \/ ResumeCampaign(p, c) \/ CompleteCampaign(p, c)
                                 \/ Launch(p, c)
<1>1. CASE Commits(p) \/ Crash(p)
  BY <1>1 DEF Commits, Crash, GenerateCommit, CompleteCommit, CompleteRaced, ResolveCommit,
     EndCommit, RewriteCommit, EnrollCommit, BlockCommit, MoveToCrmCommit, RestoreCommit, Raced,
     Rollback
<1>2. ASSUME NEW r \in Rows, RowHandlers(p, r) PROVE UNCHANGED campaign
  BY <1>2 DEF RowHandlers, AdvanceGenerate, AdvanceComplete, AdvanceEndsCold, AdvanceWaits,
     EndEnrollment, EndSkipped, Pause, Resume, ResumeRefused, Move
<1>3. ASSUME NEW k \in Keys, TaskHandlers(p, k) PROVE UNCHANGED campaign
  BY <1>3 DEF TaskHandlers, ResolveTask, AnsweredCall, AskedToStop, Resolve
<1>4. ASSUME NEW c \in Campaigns,
             LaunchSkipped(p, c) \/ ResumeAll(p, c) \/ HardStop(p, c)
             \/ \E x \in People : Enroll(p, x, c)
      PROVE  UNCHANGED campaign
  BY <1>4 DEF LaunchSkipped, ResumeAll, HardStop, Enroll
<1>5. ASSUME NEW a \in Accounts, Block(p, a) \/ Unblock(p, a) PROVE UNCHANGED campaign
  BY <1>5 DEF Block, Unblock
<1>6. ASSUME NEW x \in People, OptOut(p, x) \/ ExitAll(p, x) PROVE UNCHANGED campaign
  BY <1>6 DEF OptOut, ExitAll
<1>7. ASSUME NEW x \in Cold, MoveToCrm(p, x) \/ UndoMove(p, x) PROVE UNCHANGED campaign
  BY <1>7 DEF MoveToCrm, UndoMove
<1> QED BY <1>1, <1>2, <1>3, <1>4, <1>5, <1>6, <1>7 DEF StepOf, Handlers, CampaignHandlers

LEMMA InitBase == Init => Base
  BY InitInv DEF Init, NoTx, Base, CampaignsHeld

-----------------------------------------------------------------------------
(* Without manual moves and late additions, nobody runs where they may not.*)

RunsWhereAllowed ==
  /\ Base /\ NobodyRunsInAPausedCampaign
  /\ \A q \in Procs : tx[q].op \notin {"move", "enroll"}

(* A campaign is paused or stopped together with its running enrollments,  *)
(* and a row only starts to run where its campaign lets it.                *)
LEMMA StepRuns ==
  ASSUME Requests \cap {"move", "enroll"} = {}, RunsWhereAllowed, NEW p \in Procs, StepOf(p)
  PROVE  RunsWhereAllowed'
<1>1. Base /\ Base' /\ Typed /\ tx[p].op \notin {"move", "enroll"}
  BY StepBase DEF RunsWhereAllowed, Base, IInv
<1>2. ASSUME NEW q \in Procs PROVE tx'[q].op \notin {"move", "enroll"}
  <2>1. CASE q # p
    BY <2>1, <1>1, StepRespects DEF Respects, OwnLocks, RunsWhereAllowed, Base
  <2>2. CASE q = p
    BY <1>1, <2>2, StepsOpen, OpenedOps, MoveOpens DEF Opens
  <2> QED BY <2>1, <2>2
<1>3. ASSUME NEW r \in Rows, enr'[r].status = "ACTIVE", r \notin slipped'
      PROVE  campaign'[enr'[r].camp] \in {"ACTIVE", "COMPLETED"}
  <2>0. enr \in [Rows -> EnrRow] /\ campaign \in [Campaigns -> CampaignStatuses]
        /\ enr[r].camp \in Campaigns
    BY <1>1, EnrRowType DEF Typed, TypeOK
  <2>1. RowMoves(p, r) /\ r \notin slipped
    BY <1>1, <1>3, StepsMoveRows, StepRespects DEF Base, Respects, LocksRespected
  <2>2. ASSUME enr[r].status = "ACTIVE", enr'[r].camp = enr[r].camp
        PROVE  campaign'[enr'[r].camp] \in {"ACTIVE", "COMPLETED"}
    <3>1. campaign[enr[r].camp] \in {"ACTIVE", "COMPLETED"}
      BY <2>1, <2>2 DEF RunsWhereAllowed, NobodyRunsInAPausedCampaign
    <3>2. ASSUME NEW c \in Campaigns, PauseCampaign(p, c) PROVE enr[r].camp # c
      BY <1>3, <2>0, <2>2, <3>2 DEF PauseCampaign, RowsOfCampaign, EnrRow
    <3>3. ASSUME NEW c \in Campaigns, StopCampaign(p, c) PROVE enr[r].camp # c
      BY <1>3, <2>0, <2>2, <3>3 DEF StopCampaign, SetStatus, OccupyingRows, Occupying,
         RowsOfCampaign, EnrRow
    <3>4. CASE UNCHANGED campaign BY <2>2, <3>1, <3>4
    <3>5. ASSUME NEW c \in Campaigns,
                 \/ PauseCampaign(p, c) \/ StopCampaign(p, c)
                 \/ ResumeCampaign(p, c) \/ CompleteCampaign(p, c) \/ Launch(p, c)
          PROVE  campaign'[enr[r].camp] \in {"ACTIVE", "COMPLETED"}
      <4>1. CASE enr[r].camp = c
        BY <2>0, <3>1, <3>2, <3>3, <3>5, <4>1 DEF ResumeCampaign, CompleteCampaign, Launch
      <4>2. CASE enr[r].camp # c
        BY <2>0, <3>1, <3>5, <4>2
           DEF PauseCampaign, StopCampaign, ResumeCampaign, CompleteCampaign, Launch
      <4> QED BY <4>1, <4>2
    <3> QED BY <2>2, <3>4, <3>5, WhatPauses
  <2>3. CASE Resumed(p, r)
    BY <1>1, <2>3 DEF Resumed, Moved, Base, CampaignsHeld, HoldsCampaign
  <2>4. CASE Started(p, r)
    BY <1>1, <2>4 DEF Started, Base, CampaignsHeld, HoldsCampaign
  <2>5. CASE SameRow(r) BY <1>3, <2>2, <2>5 DEF SameRow
  <2>6. CASE Generated(p, r) BY <1>3, <2>2, <2>6 DEF Generated
  <2>7. CASE Halted(r) \/ Held(p, r) \/ Finished(p, r) \/ Completed(p, r)
    BY <1>3, <2>7 DEF Halted, Held, Finished, Completed
  <2>8. CASE Restored(p, r) BY <1>3, <2>8 DEF Restored, Moved
  <2> QED BY <1>1, <2>1, <2>3, <2>4, <2>5, <2>6, <2>7, <2>8 DEF RowMoves, Relocated
<1> QED BY <1>1, <1>2, <1>3 DEF RunsWhereAllowed, NobodyRunsInAPausedCampaign

(* Pausing a campaign leaves nobody running in it, nor does stopping it,   *)
(* if no request moves people by hand or adds them late (neither takes the *)
(* campaign's lock), and but for the undo of a move that crossed it.       *)
THEOREM PausedIsPaused ==
  ASSUME Requests \cap {"move", "enroll"} = {}
  PROVE  Spec => []NobodyRunsInAPausedCampaign
<1>1. Init => RunsWhereAllowed
  <2>1. Init => NobodyRunsInAPausedCampaign /\ \A q \in Procs : tx[q].op \notin {"move", "enroll"}
    BY DEF Init, NobodyRunsInAPausedCampaign, NoEnrollment, NoTx
  <2> QED BY <2>1, InitBase DEF RunsWhereAllowed
<1>2. RunsWhereAllowed /\ [Next]_vars => RunsWhereAllowed'
  <2> SUFFICES ASSUME RunsWhereAllowed, [Next]_vars PROVE RunsWhereAllowed'
    OBVIOUS
  <2>1. CASE Idle
    <3>1. Base' BY <2>1, IdleBase DEF RunsWhereAllowed
    <3> QED BY <2>1, <3>1, IdleView DEF view, RunsWhereAllowed, NobodyRunsInAPausedCampaign
  <2> QED BY <2>1, StepKinds, StepRuns
<1>3. RunsWhereAllowed => NobodyRunsInAPausedCampaign BY DEF RunsWhereAllowed
<1> QED BY <1>1, <1>2, <1>3, PTL DEF Spec

-----------------------------------------------------------------------------
(* What a move to the CRM leaves behind.  The rows it ended, and those of  *)
(* its tasks it cancelled, are nobody's to work on until its undo: a       *)
(* generation or completion of a cold contact's row holds the contact, as  *)
(* the move does (but for a row that slipped).                             *)
MovesOut(p) ==
  LET person == Person(tx[p].row)
  IN /\ ContactLocks({person}) \subseteq tx[p].held
     /\ tx[p].rows \subseteq RowsOf(person)
     /\ \A r \in tx[p].rows : enr[r].status # "NONE"
     /\ \A k \in tx[p].open : k[1] \in tx[p].rows
WorksAlone(p) == LET r == tx[p].row
                 IN r \in slipped \/ (~HasLeft(r) /\ ContactLocks({Person(r)}) \subseteq tx[p].held)
LeftRow(r) == /\ enr[r].status # "NONE" /\ Person(r) \in Cold
              /\ r \in slipped \/ enr[r].status \notin Occupying
LeftBehind ==
  /\ Base
  /\ \A r \in Rows : HasLeft(r) => LeftRow(r)
  /\ \A q \in Procs : /\ tx[q].op = "toCrm" => MovesOut(q)
                      /\ tx[q].op = "end" => \A r \in tx[q].rows : Account(r) # NoAccount
                      /\ tx[q].op \in {"generate", "complete"} => WorksAlone(q)

(* Only the commit of a move leaves a task behind.                         *)
LEMMA WhatLeaves ==
  ASSUME Typed, NEW p \in Procs, StepOf(p), NEW k \in Keys, task[k] # "LEFT", task'[k] = "LEFT"
  PROVE  MoveToCrmCommit(p) /\ k \in tx[p].open
<1>1. UNCHANGED task => FALSE OBVIOUS
<1>2. ASSUME NEW K, NEW state, task' = SetTasks(K, state) PROVE k \in K /\ state = "LEFT"
  BY <1>2 DEF SetTasks
<1>3. CASE Commits(p)
  <2>1. CASE GenerateCommit(p) BY <2>1 DEF GenerateCommit, Raced
  <2>2. CASE ResolveCommit(p)
    <3>1. tx[p].to # "LEFT" BY <2>2 DEF ResolveCommit, Typed, WritesAreResolutions, WellFormed
    <3> QED BY <1>2, <2>2, <3>1 DEF ResolveCommit, Raced
  <2>3. CASE EndCommit(p)
    <3>1. UNCHANGED task \/ task' = SetTasks(tx[p].open, "CANCELLED")
      BY <2>3 DEF EndCommit, Rollback
    <3> QED BY <1>1, <1>2, <3>1
  <2>4. CASE RewriteCommit(p) BY <1>2, <2>4 DEF RewriteCommit
  <2>5. CASE BlockCommit(p) BY <1>2, <2>5 DEF BlockCommit
  <2>6. CASE MoveToCrmCommit(p) BY <1>2, <2>6 DEF MoveToCrmCommit
  <2>7. CASE RestoreCommit(p) BY <1>2, <2>7 DEF RestoreCommit, Rollback
  <2>8. CASE CompleteCommit(p) \/ CompleteRaced(p) \/ EnrollCommit(p)
    BY <1>1, <2>8 DEF CompleteCommit, CompleteRaced, EnrollCommit, Raced, Rollback
  <2> QED BY <1>3, <2>1, <2>2, <2>3, <2>4, <2>5, <2>6, <2>7, <2>8 DEF Commits
<1>4. ASSUME NEW r \in Rows, RowHandlers(p, r) PROVE FALSE
  BY <1>1, <1>4 DEF RowHandlers, AdvanceGenerate, AdvanceComplete, AdvanceEndsCold, AdvanceWaits,
     EndEnrollment, EndSkipped, Pause, Resume, ResumeRefused, Move
<1>5. ASSUME NEW x \in Keys, TaskHandlers(p, x) PROVE FALSE
  BY <1>1, <1>5 DEF TaskHandlers, ResolveTask, AnsweredCall, AskedToStop, Resolve
<1>6. ASSUME NEW c \in Campaigns, CampaignHandlers(p, c) PROVE FALSE
  <2>1. CASE StopCampaign(p, c) BY <1>2, <2>1 DEF StopCampaign
  <2> QED BY <1>1, <1>6, <2>1 DEF CampaignHandlers, Launch, LaunchSkipped, PauseCampaign,
     ResumeCampaign, ResumeAll, HardStop, CompleteCampaign, Enroll
<1>7. ASSUME NEW a \in Accounts, Block(p, a) \/ Unblock(p, a) PROVE FALSE
  BY <1>1, <1>7 DEF Block, Unblock
<1>8. ASSUME NEW x \in People, OptOut(p, x) \/ ExitAll(p, x) PROVE FALSE
  BY <1>1, <1>8 DEF OptOut, ExitAll
<1>9. ASSUME NEW x \in Cold, MoveToCrm(p, x) \/ UndoMove(p, x) PROVE FALSE
  BY <1>1, <1>9 DEF MoveToCrm, UndoMove
<1>10. CASE Crash(p) BY <1>1, <1>10 DEF Crash, Rollback
<1> QED BY <1>3, <1>4, <1>5, <1>6, <1>7, <1>8, <1>9, <1>10 DEF StepOf, Handlers

(* A row some task of which is left behind is over, or has slipped.        *)
LEMMA LeftRowKept ==
  ASSUME LeftBehind, NEW p \in Procs, StepOf(p), NEW r \in Rows, HasLeft(r)'
  PROVE  LeftRow(r)'
<1>0. Typed /\ RowsKept /\ slipped \subseteq slipped'
  BY StepRespects DEF LeftBehind, Base, IInv, Respects, LocksRespected
<1>1. CASE HasLeft(r)
  <2>1. LeftRow(r) BY <1>1 DEF LeftBehind
  <2>2. enr'[r].status # "NONE" /\ Person(r) \in Cold BY <1>0, <2>1 DEF LeftRow, RowsKept
  <2>3. Account(r) = NoAccount BY <2>2, EngineAssumption DEF Account
  <2>4. ASSUME enr'[r].status \in Occupying PROVE r \in slipped'
    <3>1. RowMoves(p, r) BY <1>0, StepsMoveRows
    <3>2. CASE SameRow(r) \/ Generated(p, r)
      BY <1>0, <2>1, <2>4, <3>2 DEF SameRow, Generated, LeftRow
    <3>3. CASE Halted(r) \/ Finished(p, r) \/ Completed(p, r)
      BY <2>4, <3>3 DEF Halted, Finished, Completed, Occupying
    <3>4. CASE Held(p, r)
      <4>1. CASE enr[r].status = "ACTIVE" BY <1>0, <2>1, <4>1 DEF LeftRow, Occupying
      <4>2. CASE tx[p].op = "end" /\ r \in tx[p].rows BY <2>3, <4>2 DEF LeftBehind
      <4> QED BY <1>1, <3>4, <4>1, <4>2 DEF Held, Slips
    <3>5. CASE Resumed(p, r) \/ Relocated(p, r)
      BY <1>1, <3>5 DEF Resumed, Relocated, Slips
    <3>6. CASE Restored(p, r) BY <3>6 DEF Restored
    <3>7. CASE Started(p, r) BY <2>1, <3>7 DEF Started, LeftRow
    <3> QED BY <3>1, <3>2, <3>3, <3>4, <3>5, <3>6, <3>7 DEF RowMoves
  <2> QED BY <2>2, <2>4 DEF LeftRow
<1>2. CASE ~HasLeft(r)
  <2>1. PICK k \in Keys : k[1] = r /\ task'[k] = "LEFT" /\ task[k] # "LEFT"
    BY <1>2 DEF HasLeft
  <2>2. MoveToCrmCommit(p) /\ k \in tx[p].open BY <1>0, <2>1, WhatLeaves
  <2>3. MovesOut(p) /\ Person(tx[p].row) \in Cold
    BY <2>2 DEF MoveToCrmCommit, LeftBehind, Base, IInv, EngineInv, WritesAreResolutions, WellFormed
  <2>4. r \in tx[p].rows /\ Person(r) = Person(tx[p].row)
    BY <2>1, <2>2, <2>3 DEF MovesOut, RowsOf
  <2>5. enr'[r].status = "MOVED"
    BY <1>0, <2>2, <2>4 DEF MoveToCrmCommit, SetStatus, Typed, TypeOK, EnrRow
  <2> QED BY <2>3, <2>4, <2>5 DEF LeftRow, Occupying
<1> QED BY <1>1, <1>2

(* Nobody leaves a task of a row behind while another works on it.         *)
LEMMA WorkerKept ==
  ASSUME LeftBehind, NEW p \in Procs, StepOf(p), NEW q \in Procs \ {p},
         tx[q].op \in {"generate", "complete"}
  PROVE  WorksAlone(q)'
<1>0. Typed /\ tx'[q] = tx[q] /\ slipped \subseteq slipped'
  BY StepRespects DEF LeftBehind, Base, IInv, Respects, OwnLocks, LocksRespected
<1> DEFINE r == tx[q].row
<1>1. CASE r \in slipped BY <1>0, <1>1 DEF WorksAlone
<1>2. CASE r \notin slipped
  <2>1. ~HasLeft(r) /\ ContactLocks({Person(r)}) \subseteq tx[q].held
    BY <1>2 DEF LeftBehind, WorksAlone
  <2>2. ASSUME NEW k \in Keys, k[1] = r, task'[k] = "LEFT" PROVE FALSE
    <3>1. task[k] # "LEFT" BY <2>1, <2>2 DEF HasLeft
    <3>2. MoveToCrmCommit(p) /\ k \in tx[p].open BY <1>0, <2>2, <3>1, WhatLeaves
    <3>3. MovesOut(p) /\ Person(tx[p].row) \in Cold
      BY <3>2 DEF MoveToCrmCommit, LeftBehind, Base, IInv, EngineInv, WritesAreResolutions, WellFormed
    <3>4. Person(r) = Person(tx[p].row)
      BY <2>2, <3>2, <3>3 DEF MovesOut, RowsOf
    <3>5. <<"contact", Person(r)>> \in tx[p].held \cap tx[q].held
      BY <2>1, <3>3, <3>4 DEF MovesOut, ContactLocks
    <3> QED BY <3>5 DEF LeftBehind, Base, IInv, EngineInv, LocksAreExclusive
  <2> QED BY <1>0, <2>1, <2>2 DEF WorksAlone, HasLeft
<1> QED BY <1>1, <1>2

(* Who begins to work on a row finds nothing left behind there.            *)
LEMMA WorkerBegins ==
  ASSUME LeftBehind, NEW p \in Procs, NEW r \in Rows, AdvanceGenerate(p, r) \/ AdvanceComplete(p, r)
  PROVE  WorksAlone(p)' /\ tx'[p].row = r /\ UNCHANGED <<enr, task>>
<1>0. Typed BY DEF LeftBehind, Base, IInv
<1>1. tx'[p].row = r /\ tx'[p].held = AdvanceLocks(r) /\ UNCHANGED <<enr, task>>
  BY <1>0, OpenedOps
<1>2. slipped' = slipped \cup InCrm({r}) /\ enr[r].status = "ACTIVE"
  BY DEF AdvanceGenerate, AdvanceComplete, Running
<1>3. r \in slipped \/ ~HasLeft(r) BY <1>2 DEF LeftBehind, LeftRow, Occupying
<1>4. CASE Person(r) \in moved BY <1>1, <1>2, <1>4 DEF InCrm, WorksAlone
<1>5. CASE Person(r) \notin moved
  <2>1. ContactLocks({Person(r)}) \subseteq tx'[p].held
    BY <1>1, <1>5 DEF AdvanceLocks, ContactLocks
  <2>2. r \in slipped' \/ ~HasLeft(r)' BY <1>1, <1>2, <1>3 DEF HasLeft
  <2> QED BY <1>1, <2>1, <2>2 DEF WorksAlone
<1> QED BY <1>1, <1>4, <1>5

LEMMA StepLeft ==
  ASSUME LeftBehind, NEW p \in Procs, StepOf(p)
  PROVE  LeftBehind'
<1>0. Typed /\ Base' /\ RowsKept /\ Opens(p) /\ \A q \in Procs \ {p} : tx'[q] = tx[q]
  BY StepBase, StepRespects, StepsOpen DEF LeftBehind, Base, IInv, Respects, OwnLocks
<1>1. \A r \in Rows : HasLeft(r)' => LeftRow(r)' BY LeftRowKept
<1>2. ASSUME NEW q \in Procs, tx'[q].op = "toCrm" PROVE MovesOut(q)'
  <2>1. CASE q # p
    <3>1. MovesOut(q) /\ tx'[q] = tx[q] BY <1>0, <1>2, <2>1 DEF LeftBehind
    <3>2. tx[q].rows \subseteq Rows BY <3>1 DEF MovesOut, RowsOf
    <3> QED BY <1>0, <3>1, <3>2 DEF MovesOut, RowsKept
  <2>2. CASE q = p
    <3>1. PICK x \in Cold : MoveToCrm(p, x)
      BY <1>0, <1>2, <2>2, OpenedOps DEF Opens
    <3> DEFINE rows == OccupyingRows(RowsOf(x))
    <3>0. Typed BY <1>0
    <3>2. /\ tx'[p].row = <<x, 1>> /\ tx'[p].rows = rows
          /\ tx'[p].open = UNION {Open(r) : r \in rows} /\ tx'[p].held = ContactLocks({x})
      BY <3>0, <3>1, MovesOutOp
    <3>3. /\ Person(tx'[p].row) = x /\ tx'[p].rows = rows
          /\ tx'[p].open = UNION {Open(r) : r \in rows} /\ tx'[p].held = ContactLocks({x})
      BY <3>2 DEF Person
    <3>4. /\ rows \subseteq RowsOf(x)
          /\ \A r \in rows : enr'[r].status # "NONE"
          /\ \A k \in UNION {Open(r) : r \in rows} : k[1] \in rows
      BY <3>1 DEF MoveToCrm, OccupyingRows, Occupying, Open
    <3> QED BY <2>2, <3>3, <3>4 DEF MovesOut, RowsOf
  <2> QED BY <2>1, <2>2
<1>3. ASSUME NEW q \in Procs, tx'[q].op = "end", NEW r \in tx'[q].rows PROVE Account(r) # NoAccount
  <2>1. CASE q # p BY <1>0, <1>3, <2>1 DEF LeftBehind
  <2>2. CASE q = p
    <3>1. PICK x \in Rows : \E name \in DOMAIN EndStatus : EndEnrollment(p, name, x)
      BY <1>0, <1>3, <2>2, OpenedOps, MoveOpens DEF Opens, NoTx
    <3>2. PICK name \in DOMAIN EndStatus : EndEnrollment(p, name, x)
      BY <3>1
    <3>3. tx'[p].rows \subseteq Colleagues(x) BY <1>0, <3>2, OpenedOps
    <3> QED BY <1>3, <2>2, <3>3 DEF Colleagues, RowsOfAccount
  <2> QED BY <2>1, <2>2
<1>4. ASSUME NEW q \in Procs, tx'[q].op \in {"generate", "complete"} PROVE WorksAlone(q)'
  <2>1. CASE q # p
    <3>1. tx[q].op \in {"generate", "complete"} BY <1>0, <1>4, <2>1
    <3> QED BY <2>1, <3>1, WorkerKept
  <2>2. CASE q = p
    <3>1. \E r \in Rows : AdvanceGenerate(p, r) \/ AdvanceComplete(p, r)
      BY <1>0, <1>4, <2>2, OpenedOps, MoveOpens DEF Opens, NoTx
    <3> QED BY <2>2, <3>1, WorkerBegins
  <2> QED BY <2>1, <2>2
<1> QED BY <1>0, <1>1, <1>2, <1>3, <1>4 DEF LeftBehind

LEMMA IdleLeft ==
  ASSUME LeftBehind, Idle
  PROVE  LeftBehind'
<1>1. Base' BY IdleBase DEF LeftBehind
<1>2. UNCHANGED view BY IdleView
<1> QED BY <1>1, <1>2 DEF view, LeftBehind, LeftRow, HasLeft, MovesOut, WorksAlone

LEMMA InitLeft == Init => LeftBehind
  BY InitBase DEF Init, NoTx, LeftBehind, HasLeft

(* A generation, and another one or a completion, are of two enrollments.  *)
LEMMA Apart ==
  ASSUME Base, NEW p \in Procs, NEW q \in Procs, p # q,
         tx[p].op = "generate", tx[q].op \in {"generate", "complete"}
  PROVE  tx[p].row # tx[q].row
<1>1. \A x \in Procs : tx[x].op \in {"generate", "complete"} =>
        tx[x].row \in Rows /\ CampaignLock(enr[tx[x].row].camp) \in tx[x].held
  BY DEF Base, IInv, EngineInv, GeneratorsHoldTheirLocks, Generates, CampaignsHeld, HoldsCampaign
<1>2. tx[p].held \cap tx[q].held = {}
  BY DEF Base, IInv, EngineInv, LocksAreExclusive
<1> QED BY <1>1, <1>2

(* While a generation or completion of an enrollment is under way, nobody  *)
(* else opens a task of it, unless it has slipped.                         *)
ClearOrSlipped(r) == r \in slipped \/ Open(r) = {}

LEMMA StaysClear ==
  ASSUME LeftBehind, NEW p \in Procs, StepOf(p), NEW q \in Procs \ {p},
         tx[q].op \in {"generate", "complete"}, ClearOrSlipped(tx[q].row)
  PROVE  tx'[q] = tx[q] /\ ClearOrSlipped(tx[q].row)'
<1>1. tx'[q] = tx[q] /\ slipped \subseteq slipped'
  BY StepRespects DEF LeftBehind, Base, Respects, OwnLocks, LocksRespected
<1>2. CASE tx[q].row \in slipped BY <1>1, <1>2 DEF ClearOrSlipped
<1>3. CASE tx[q].row \notin slipped
  <2>1. \A k \in Keys : k[1] = tx[q].row => task'[k] # "PENDING"
    <3> SUFFICES ASSUME NEW k \in Keys, k[1] = tx[q].row, task'[k] = "PENDING" PROVE FALSE
      OBVIOUS
    <3>1. Opened(k)
      BY <1>3 DEF ClearOrSlipped, Open, Opened
    <3>2. ~(GenerateCommit(p) /\ k[1] = tx[p].row)
      BY Apart DEF GenerateCommit, LeftBehind
    <3>3. task[k] # "LEFT"
      BY <1>3 DEF LeftBehind, WorksAlone, HasLeft
    <3> QED BY <3>1, <3>2, <3>3, WhatOpens DEF LeftBehind, Base
  <2> QED BY <1>1, <2>1 DEF ClearOrSlipped, Open
<1> QED BY <1>2, <1>3

-----------------------------------------------------------------------------
(* Unless people are finished by hand, the completed have no open task.    *)
CompletesWhenDone ==
  /\ LeftBehind /\ CompletedHasNoOpenTasks
  /\ \A q \in Procs : /\ tx[q].op = "end" => tx[q].to # "COMPLETED"
                      /\ tx[q].op = "complete" => ClearOrSlipped(tx[q].row)
                      /\ tx[q].op = "generate" => enr[tx[q].row].status # "COMPLETED"

(* Nobody finishes an enrollment but on request.                           *)
LEMMA FinishIsAsked ==
  ASSUME Typed, "finish" \notin Requests, NEW p \in Procs, NEW r \in Rows,
         NEW name \in DOMAIN EndStatus, EndEnrollment(p, name, r)
  PROVE  EndStatus[name] # "COMPLETED"
<1> SUFFICES ASSUME name = "finish" PROVE FALSE
  BY DEF EndStatus
<1>1. todo[p] # <<>> /\ Head(todo[p]) = <<"finish", r>> /\ todo[p] \in Seq(Calls)
  BY DEF EndEnrollment, Called, Typed, TypeOK
<1>2. Head(todo[p]) \in Calls
  BY <1>1, HeadTailProperties
<1> QED BY <1>1, <1>2 DEF Calls

(* What a completion found without open tasks stays without.               *)
LEMMA StepCompletes ==
  ASSUME "finish" \notin Requests, CompletesWhenDone, NEW p \in Procs, StepOf(p)
  PROVE  CompletesWhenDone'
<1>1. LeftBehind /\ LeftBehind' /\ Base /\ IInv /\ Typed
  BY StepLeft DEF CompletesWhenDone, LeftBehind, Base, IInv
<1>2. slipped \subseteq slipped' /\ \A q \in Procs \ {p} : tx'[q] = tx[q]
  BY <1>1, StepRespects DEF Respects, OwnLocks, LocksRespected
<1>3. Opens(p)
  BY <1>1, StepsOpen
<1>4. ASSUME NEW q \in Procs, tx'[q].op = "end" PROVE tx'[q].to # "COMPLETED"
  <2>1. CASE q # p BY <1>2, <1>4, <2>1 DEF CompletesWhenDone
  <2>2. CASE q = p
    BY <1>1, <1>3, <1>4, <2>2, OpenedOps, MoveOpens, FinishIsAsked DEF Opens, NoTx
  <2> QED BY <2>1, <2>2
<1>5. ASSUME NEW q \in Procs, tx'[q].op = "complete" PROVE ClearOrSlipped(tx[q].row)'
  <2>1. CASE q # p
    <3>1. tx[q].op = "complete" /\ ClearOrSlipped(tx[q].row)
      BY <1>2, <1>5, <2>1 DEF CompletesWhenDone
    <3>2. tx'[q] = tx[q] /\ ClearOrSlipped(tx[q].row)'
      BY <1>1, <2>1, <3>1, StaysClear
    <3> QED BY <3>2
  <2>2. CASE q = p
    <3>1. PICK r \in Rows : AdvanceComplete(p, r)
      BY <1>1, <1>3, <1>5, <2>2, OpenedOps, MoveOpens DEF Opens, NoTx
    <3>2. tx'[p].row = r /\ UNCHANGED task
      BY <1>1, <3>1, OpenedHolds
    <3>3. Open(r) = {}
      BY <3>1 DEF AdvanceComplete, MayComplete
    <3> QED BY <2>2, <3>2, <3>3 DEF ClearOrSlipped, Open
  <2> QED BY <2>1, <2>2
<1>6. ASSUME NEW r \in Rows, enr'[r].status = "COMPLETED"
      PROVE  enr[r].status = "COMPLETED" \/ (CompleteCommit(p) /\ r = tx[p].row)
  <2>1. RowMoves(p, r)
    BY <1>1, StepsMoveRows
  <2>2. ~Finished(p, r)
    BY DEF Finished, CompletesWhenDone
  <2> QED BY <1>6, <2>1, <2>2
          DEF RowMoves, SameRow, Halted, Held, Completed, Resumed, Restored, Generated, Started,
              Relocated
<1>7. ASSUME NEW q \in Procs, tx'[q].op = "generate" PROVE enr'[tx'[q].row].status # "COMPLETED"
  <2>1. CASE q # p
    <3>1. tx[q].op = "generate" /\ tx'[q].row = tx[q].row /\ enr[tx[q].row].status # "COMPLETED"
      BY <1>2, <1>7, <2>1 DEF CompletesWhenDone
    <3>2. tx[q].row \in Rows
      BY <1>1, <3>1 DEF IInv, EngineInv, GeneratorsHoldTheirLocks, Generates
    <3>3. CompleteCommit(p) => tx[p].row # tx[q].row
      BY <1>1, <2>1, <3>1, Apart DEF CompleteCommit
    <3> QED BY <1>6, <3>1, <3>2, <3>3
  <2>2. CASE q = p
    <3>1. PICK r \in Rows : AdvanceGenerate(p, r)
      BY <1>1, <1>3, <1>7, <2>2, OpenedOps, MoveOpens DEF Opens, NoTx
    <3>2. tx'[p].row = r /\ UNCHANGED enr
      BY <1>1, <3>1, OpenedOps
    <3> QED BY <2>2, <3>1, <3>2 DEF AdvanceGenerate, Running
  <2> QED BY <2>1, <2>2
<1>8. ASSUME NEW r \in Rows, enr'[r].status = "COMPLETED", r \notin slipped',
             NEW k \in Keys, k[1] = r, task'[k] = "PENDING"
      PROVE  FALSE
  <2>1. CASE enr[r].status = "COMPLETED"
    <3>1. Opened(k)
      BY <1>2, <1>8, <2>1 DEF CompletesWhenDone, CompletedHasNoOpenTasks, Open, Opened
    <3>2. tx[p].op = "generate" /\ r = tx[p].row
      BY <1>1, <1>8, <3>1, WhatOpens DEF GenerateCommit
    <3> QED BY <2>1, <3>2 DEF CompletesWhenDone
  <2>2. CASE CompleteCommit(p) /\ r = tx[p].row
    <3>1. Open(r) = {} /\ UNCHANGED task
      BY <1>2, <1>8, <2>2 DEF CompleteCommit, CompletesWhenDone, ClearOrSlipped
    <3> QED BY <1>8, <3>1 DEF Open
  <2> QED BY <1>6, <1>8, <2>1, <2>2
<1>9. CompletedHasNoOpenTasks'
  BY <1>8 DEF CompletedHasNoOpenTasks, Open
<1> QED BY <1>1, <1>4, <1>5, <1>7, <1>9 DEF CompletesWhenDone

(* An enrollment the engine completes has no task left open, in hold mode  *)
(* too, where steps overlap: completion and generation exclude each other  *)
(* by the campaign's lock, completion and the undo of a move by the        *)
(* contact's (a slipped row apart).  A finish by hand takes no lock.       *)
THEOREM CompletedIsDone ==
  ASSUME "finish" \notin Requests
  PROVE  Spec => []CompletedHasNoOpenTasks
<1>1. Init => CompletesWhenDone
  <2>1. Init => /\ CompletedHasNoOpenTasks
                /\ \A q \in Procs : tx[q].op = "none"
    BY DEF Init, CompletedHasNoOpenTasks, Open, NoTx
  <2> QED BY <2>1, InitLeft DEF CompletesWhenDone
<1>2. CompletesWhenDone /\ [Next]_vars => CompletesWhenDone'
  <2> SUFFICES ASSUME CompletesWhenDone, [Next]_vars PROVE CompletesWhenDone'
    OBVIOUS
  <2>1. CASE Idle
    <3>1. LeftBehind' BY <2>1, IdleLeft DEF CompletesWhenDone
    <3> QED BY <2>1, <3>1, IdleView
            DEF view, CompletesWhenDone, CompletedHasNoOpenTasks, ClearOrSlipped, Open
  <2> QED BY <2>1, StepKinds, StepCompletes
<1>3. CompletesWhenDone => CompletedHasNoOpenTasks BY DEF CompletesWhenDone
<1> QED BY <1>1, <1>2, <1>3, PTL DEF Spec

-----------------------------------------------------------------------------
(* Without manual moves no step is ever forced.                            *)
Calm == Calls \ ({"force"} \X Rows)
Unforced == \A q \in Procs : /\ tx[q].op # "move"
                             /\ todo[q] \in Seq(Calm) /\ tx[q].then \in Seq(Calm)

(* The calls that are due stay unforced, however a handler goes on.        *)
LEMMA CalmProceeds ==
  ASSUME Typed, Unforced, NEW p \in Procs, NEW calls \in Seq(Calm), Proceed(p, calls)
  PROVE  \A q \in Procs : todo'[q] \in Seq(Calm)
<1>1. Rest(p) \in Seq(Calm) BY HeadTailProperties, EmptySeq DEF Unforced, Rest
<1>2. calls \o Rest(p) \in Seq(Calm) BY <1>1, ConcatProperties
<1>3. todo' = [todo EXCEPT ![p] = calls \o Rest(p)] /\ todo \in [Procs -> Seq(Calls)]
  BY DEF Proceed, Typed, TypeOK
<1> QED BY <1>2, <1>3 DEF Unforced

LEMMA CalmCommits ==
  ASSUME Typed, Unforced, NEW p \in Procs, Commit(p)
  PROVE  \A q \in Procs : todo'[q] \in Seq(Calm)
<1>1. tx[p].then \o todo[p] \in Seq(Calm) BY ConcatProperties DEF Unforced
<1>2. todo' = [todo EXCEPT ![p] = tx[p].then \o todo[p]] /\ todo \in [Procs -> Seq(Calls)]
  BY DEF Commit, Typed, TypeOK
<1> QED BY <1>1, <1>2 DEF Unforced

LEMMA CalmOrder ==
  ASSUME NEW S \in SUBSET Rows, NEW order \in SetToSeqs(S),
         NEW name \in {"advance", "exit", "resume"}
  PROVE  [i \in DOMAIN order |-> <<name, order[i]>>] \in Seq(Calm)
<1>1. PICK n \in Nat : order \in [1 .. n -> Rows] BY OrderIsSeq
<1>2. \A r \in Rows : <<name, r>> \in Calm BY DEF Calm, Calls
<1>3. [i \in DOMAIN order |-> <<name, order[i]>>] \in [1 .. n -> Calm] BY <1>1, <1>2
<1> QED BY <1>3, SeqDef

LEMMA StepCalm ==
  ASSUME Typed, Unforced, NEW p \in Procs, StepOf(p)
  PROVE  \A q \in Procs : todo'[q] \in Seq(Calm)
<1>0. <<>> \in Seq(Calm)
  BY EmptySeq
<1>1. CASE UNCHANGED todo BY <1>1 DEF Unforced
<1>2. CASE Rollback(p)
  BY <1>0, <1>2 DEF Rollback, Abort, Unforced, Typed, TypeOK
<1>3. CASE Commit(p) BY <1>3, CalmCommits
<1>4. CASE Proceed(p, <<>>) BY <1>0, <1>4, CalmProceeds
<1>5. CASE Commits(p)
  <2>0. CASE Abort(p) BY <1>0, <2>0 DEF Abort, Unforced, Typed, TypeOK
  <2>1. ASSUME NEW r \in Rows, Proceed(p, << <<"advance", r>> >>)
        PROVE  \A q \in Procs : todo'[q] \in Seq(Calm)
    <3>1. << <<"advance", r>> >> \in Seq(Calm) BY DEF Calm, Calls
    <3> QED BY <2>1, <3>1, CalmProceeds
  <2>2. CASE EnrollCommit(p) BY <1>2, <2>1, <2>2 DEF EnrollCommit
  <2> QED BY <1>1, <1>2, <1>3, <1>5, <2>0, <2>2
          DEF Commits, GenerateCommit, CompleteCommit, CompleteRaced, ResolveCommit, EndCommit,
              RewriteCommit, BlockCommit, MoveToCrmCommit, RestoreCommit, Raced
<1>6. ASSUME NEW r \in Rows, RowHandlers(p, r) PROVE \A q \in Procs : todo'[q] \in Seq(Calm)
  <2>1. CASE AdvanceEndsCold(p, r)
    <3>1. << <<"exit", r>> >> \in Seq(Calm) BY DEF Calm, Calls
    <3> QED BY <2>1, <3>1, CalmProceeds DEF AdvanceEndsCold
  <2> QED BY <1>1, <1>4, <1>6, <2>1
          DEF RowHandlers, AdvanceGenerate, AdvanceComplete, AdvanceWaits, EndEnrollment, EndSkipped,
              Pause, Resume, ResumeRefused, Move
<1>7. ASSUME NEW k \in Keys, TaskHandlers(p, k) PROVE \A q \in Procs : todo'[q] \in Seq(Calm)
  BY <1>1, <1>7 DEF TaskHandlers, ResolveTask, AnsweredCall, AskedToStop, Resolve
<1>8. ASSUME NEW c \in Campaigns, CampaignHandlers(p, c)
      PROVE  \A q \in Procs : todo'[q] \in Seq(Calm)
  <2>1. CASE Launch(p, c)
    <3>1. PICK S \in Starters(c) :
            \E order \in SetToSeqs({r \in Rows : Person(r) \in S /\ Fresh(r)}) :
              Proceed(p, [i \in DOMAIN order |-> <<"advance", order[i]>>])
      BY <2>1 DEF Launch
    <3> DEFINE new == {r \in Rows : Person(r) \in S /\ Fresh(r)}
    <3>2. new \in SUBSET Rows OBVIOUS
    <3>3. PICK order \in SetToSeqs(new) : Proceed(p, [i \in DOMAIN order |-> <<"advance", order[i]>>])
      BY <3>1
    <3> HIDE DEF new
    <3> QED BY <3>2, <3>3, CalmOrder, CalmProceeds
  <2>2. CASE ResumeAll(p, c)
    <3>1. PausedByCampaign(c) \in SUBSET Rows BY DEF PausedByCampaign, RowsOfCampaign
    <3>2. PICK order \in SetToSeqs(PausedByCampaign(c)) :
            Proceed(p, [i \in DOMAIN order |-> <<"resume", order[i]>>])
      BY <2>2 DEF ResumeAll
    <3> QED BY <3>1, <3>2, CalmOrder, CalmProceeds
  <2>3. CASE ResumeCampaign(p, c)
    <3>1. << <<"resumeAll", c>>, <<"launch", c>> >> \in Seq(Calm) BY DEF Calm, Calls
    <3> QED BY <2>3, <3>1, CalmProceeds DEF ResumeCampaign
  <2> QED BY <1>1, <1>4, <1>8, <2>1, <2>2, <2>3
          DEF CampaignHandlers, LaunchSkipped, PauseCampaign, StopCampaign, HardStop,
              CompleteCampaign, Enroll
<1>9. ASSUME NEW a \in Accounts, Block(p, a) \/ Unblock(p, a)
      PROVE  \A q \in Procs : todo'[q] \in Seq(Calm)
  BY <1>1, <1>9 DEF Block, Unblock
<1>10. ASSUME NEW x \in People, OptOut(p, x) \/ ExitAll(p, x)
       PROVE  \A q \in Procs : todo'[q] \in Seq(Calm)
  <2>1. << <<"exitAll", x>> >> \in Seq(Calm) BY DEF Calm, Calls
  <2>2. CASE OptOut(p, x) BY <2>1, <2>2, CalmProceeds DEF OptOut
  <2>3. CASE ExitAll(p, x)
    <3> DEFINE S == {r \in Rows : Person(r) = x /\ enr[r].status \in Occupying}
    <3>1. PICK order \in SetToSeqs(S) : Proceed(p, [i \in DOMAIN order |-> <<"exit", order[i]>>])
      BY <2>3 DEF ExitAll
    <3> HIDE DEF S
    <3>2. S \in SUBSET Rows BY DEF S
    <3> QED BY <3>1, <3>2, CalmOrder, CalmProceeds
  <2> QED BY <1>10, <2>2, <2>3
<1>11. ASSUME NEW x \in Cold, MoveToCrm(p, x) \/ UndoMove(p, x)
       PROVE  \A q \in Procs : todo'[q] \in Seq(Calm)
  BY <1>1, <1>11 DEF MoveToCrm, UndoMove
<1> QED BY <1>2, <1>5, <1>6, <1>7, <1>8, <1>9, <1>10, <1>11 DEF StepOf, Handlers, Crash

(* Nor does any transaction end in a forced step.                          *)
LEMMA StepUnforced ==
  ASSUME "move" \notin Requests, Typed, Unforced, NEW p \in Procs, StepOf(p),
         \A q \in Procs \ {p} : tx'[q] = tx[q]
  PROVE  Unforced'
<1>0. tx \in [Procs -> Tx] /\ <<>> \in Seq(Calm)
  BY EmptySeq DEF Typed, TypeOK
<1>1. ASSUME NEW t, Begin(p, t) PROVE tx'[p] = t
  BY <1>0, <1>1 DEF Begin
<1>2. ASSUME tx'[p] = NoTx PROVE tx'[p].then \in Seq(Calm)
  BY <1>0, <1>2 DEF NoTx
<1>3. ASSUME tx' = tx PROVE tx'[p].then \in Seq(Calm)
  BY <1>3 DEF Unforced
<1>4. ASSUME Commits(p) \/ Crash(p) PROVE tx'[p].then \in Seq(Calm)
  <2>1. tx' = [tx EXCEPT ![p] = NoTx]
    BY <1>4 DEF Commits, Crash, GenerateCommit, CompleteCommit, CompleteRaced, ResolveCommit,
       EndCommit, RewriteCommit, EnrollCommit, BlockCommit, MoveToCrmCommit, RestoreCommit, Commit,
       Raced, Rollback, Abort
  <2>2. tx'[p].then \in Seq(Calm) BY <1>0, <1>2, <2>1
  <2> QED BY <2>2
<1>5. ASSUME NEW r \in Rows, RowHandlers(p, r) PROVE tx'[p].then \in Seq(Calm)
  <2>1. CASE AdvanceGenerate(p, r)
    <3>1. PICK skip \in SUBSET Actions :
            tx'[p] = [NoTx EXCEPT !.op = "generate", !.row = r, !.step = enr[r].step + 1,
                                  !.skip = skip, !.held = AdvanceLocks(r)]
      BY <1>1, <2>1 DEF AdvanceGenerate
    <3> QED BY <1>0, <3>1 DEF NoTx
  <2>2. CASE AdvanceComplete(p, r)
    <3>1. tx'[p] = [NoTx EXCEPT !.op = "complete", !.row = r,
                      !.repeat = Repeats(r), !.held = AdvanceLocks(r)]
      BY <1>1, <2>2 DEF AdvanceComplete
    <3> QED BY <1>0, <3>1 DEF NoTx
  <2>3. CASE Resume(p, r)
    <3>1. tx'[p] = [NoTx EXCEPT !.op = "resume", !.row = r, !.held = ResumeLocks(r),
                                !.then = << <<"advance", r>> >>]
      BY <1>1, <2>3 DEF Resume
    <3>2. << <<"advance", r>> >> \in Seq(Calm) BY DEF Calm, Calls
    <3> QED BY <3>1, <3>2 DEF NoTx
  <2>4. ASSUME NEW name \in DOMAIN EndStatus, EndEnrollment(p, name, r)
        PROVE  tx'[p].then \in Seq(Calm)
    <3>1. tx'[p] = [NoTx EXCEPT !.op = "end", !.row = r, !.to = EndStatus[name], !.open = Open(r),
                                !.rows = IF name = "reply" THEN Colleagues(r) ELSE {}]
      BY <1>1, <2>4 DEF EndEnrollment
    <3> QED BY <1>0, <3>1 DEF NoTx
  <2>5. CASE Pause(p, r)
    <3>1. tx'[p] = [NoTx EXCEPT !.op = "pause", !.row = r] BY <1>1, <2>5 DEF Pause
    <3> QED BY <1>0, <3>1 DEF NoTx
  <2>6. CASE \/ AdvanceEndsCold(p, r) \/ AdvanceWaits(p, r) \/ ResumeRefused(p, r)
             \/ \E name \in DOMAIN EndStatus : EndSkipped(p, name, r)
    BY <1>3, <2>6 DEF AdvanceEndsCold, AdvanceWaits, ResumeRefused, EndSkipped
  <2>7. ASSUME NEW target \in Steps, Move(p, r, target) PROVE FALSE
    BY <2>7 DEF Move, Asked
  <2> QED BY <1>5, <2>1, <2>2, <2>3, <2>4, <2>5, <2>6, <2>7 DEF RowHandlers
<1>6. ASSUME NEW k \in Keys, TaskHandlers(p, k) PROVE tx'[p].then \in Seq(Calm)
  <2>1. k[1] \in Rows /\ Person(k[1]) \in People BY RowPerson DEF Keys
  <2>2. /\ << <<"advance", k[1]>> >> \in Seq(Calm)
        /\ << <<"reply", k[1]>> >> \in Seq(Calm)
        /\ << <<"optOut", Person(k[1])>>, <<"exit", k[1]>> >> \in Seq(Calm)
    BY <2>1 DEF Calm, Calls
  <2>3. ASSUME NEW request, NEW state, NEW calls \in Seq(Calm), Resolve(p, request, k, state, calls)
        PROVE  tx'[p].then \in Seq(Calm)
    <3>1. tx'[p] = [NoTx EXCEPT !.op = "resolve", !.row = k[1], !.open = {k}, !.to = state,
                                !.then = calls]
      BY <1>1, <2>3 DEF Resolve
    <3> QED BY <3>1 DEF NoTx
  <2> QED BY <1>6, <2>2, <2>3 DEF TaskHandlers, ResolveTask, AnsweredCall, AskedToStop
<1>7. ASSUME NEW c \in Campaigns, CampaignHandlers(p, c) PROVE tx'[p].then \in Seq(Calm)
  <2>1. CASE HardStop(p, c)
    <3> DEFINE rows == OccupyingRows(RowsOfCampaign(c))
    <3>1. tx'[p] = [NoTx EXCEPT !.op = "block", !.rows = rows, !.open = UNION {Open(r) : r \in rows}]
      BY <1>1, <2>1 DEF HardStop
    <3> QED BY <1>0, <3>1 DEF NoTx
  <2>2. ASSUME NEW x \in People, Enroll(p, x, c) PROVE tx'[p].then \in Seq(Calm)
    <3>1. tx'[p] = [NoTx EXCEPT !.op = "enroll", !.row = <<x, 1>>, !.camp = c]
      BY <1>1, <2>2 DEF Enroll
    <3> QED BY <1>0, <3>1 DEF NoTx
  <2> QED BY <1>3, <1>7, <2>1, <2>2
          DEF CampaignHandlers, Launch, LaunchSkipped, PauseCampaign, StopCampaign, ResumeCampaign,
              ResumeAll, CompleteCampaign
<1>8. ASSUME NEW a \in Accounts, Block(p, a) \/ Unblock(p, a) PROVE tx'[p].then \in Seq(Calm)
  <2>1. CASE Block(p, a)
    <3> DEFINE rows == OccupyingRows(RowsOfAccount(a))
    <3>1. tx'[p] = [NoTx EXCEPT !.op = "block", !.rows = rows, !.open = UNION {Open(r) : r \in rows},
                                !.held = {<<"account", a>>}]
      BY <1>1, <2>1 DEF Block
    <3> QED BY <1>0, <3>1 DEF NoTx
  <2> QED BY <1>3, <1>8, <2>1 DEF Unblock
<1>9. ASSUME NEW x \in People, OptOut(p, x) \/ ExitAll(p, x) PROVE tx'[p].then \in Seq(Calm)
  BY <1>3, <1>9 DEF OptOut, ExitAll
<1>10. ASSUME NEW x \in Cold, MoveToCrm(p, x) \/ UndoMove(p, x) PROVE tx'[p].then \in Seq(Calm)
  <2>1. CASE MoveToCrm(p, x) BY <1>0, <2>1, MovesOutOp DEF NoTx
  <2>2. CASE UndoMove(p, x)
    <3>1. PICK wanted \in SUBSET {r \in RowsOf(x) : enr[r].status = "MOVED"} :
            tx'[p] = [NoTx EXCEPT !.op = "restore", !.row = <<x, 1>>,
                                  !.rows = {r \in wanted : /\ x \notin optedOut
                                                           /\ campaign[enr[r].camp] = "ACTIVE"},
                                  !.held = ContactLocks({x})]
      BY <1>1, <2>2 DEF UndoMove
    <3> QED BY <1>0, <3>1 DEF NoTx
  <2> QED BY <1>10, <2>1, <2>2
<1>11. tx'[p].then \in Seq(Calm)
  BY <1>4, <1>5, <1>6, <1>7, <1>8, <1>9, <1>10 DEF StepOf, Handlers
<1>12. tx'[p].op # "move"
  BY StepsOpen, OpenedOps, MoveOpens DEF Opens, NoTx
<1>13. \A q \in Procs : todo'[q] \in Seq(Calm)
  BY StepCalm
<1> QED BY <1>11, <1>12, <1>13 DEF Unforced

(* In shift mode, then, a step is generated when nothing is open, and what *)
(* a move leaves behind is of the current step.                            *)
InTurn(k) == k[1] \in slipped \/ k[2] = enr[k[1]].step
OpensInTurn ==
  /\ LeftBehind /\ Unforced
  /\ \A k \in Keys : task[k] \in {"PENDING", "LEFT"} => InTurn(k)
  /\ \A q \in Procs : /\ tx[q].op = "generate" => ClearOrSlipped(tx[q].row)
                      /\ tx[q].op = "toCrm" => \A k \in tx[q].open : InTurn(k)

(* A generation that is not forced begins when its enrollment has no open  *)
(* task: those it has are of its step, and that step is done.              *)
LEMMA GeneratesWhenClear ==
  ASSUME ClockMode = "shift", OpensInTurn, NEW p \in Procs, NEW r \in Rows, AdvanceGenerate(p, r)
  PROVE  ClearOrSlipped(r)
<1>0. enr[r].step \in -1 .. NumSteps - 1
  BY EnrRowType DEF OpensInTurn, LeftBehind, Base, IInv, Typed
<1>1. ~Forced(p, r)
  <2> SUFFICES ASSUME todo[p] # <<>>, Head(todo[p]) = <<"force", r>> PROVE FALSE
    BY DEF Forced
  <2>1. Head(todo[p]) \in Calm
    BY HeadTailProperties DEF OpensInTurn, Unforced
  <2>2. <<"force", r>> \in {"force"} \X Rows OBVIOUS
  <2> QED BY <2>1, <2>2 DEF Calm
<1>2. enr[r].step < 0 \/ StepDone(r)
  BY <1>1 DEF AdvanceGenerate, MayGenerate
<1>3. ASSUME r \notin slipped, NEW k \in Keys, k[1] = r, task[k] = "PENDING" PROVE FALSE
  <2>1. k[2] = enr[r].step /\ k[2] \in Steps
    BY <1>3 DEF OpensInTurn, InTurn, Keys
  <2>2. k[2] \in Nat
    BY <2>1 DEF Steps
  <2>3. StepDone(r)
    BY <1>0, <1>2, <2>1, <2>2
  <2>4. k \in StepKeys(r, enr[r].step)
    BY <1>3, <2>1 DEF StepKeys
  <2> QED BY <1>3, <2>3, <2>4 DEF StepDone
<1> QED BY <1>3 DEF ClearOrSlipped, Open

(* The step of an enrollment that has a task changes by the commit of a    *)
(* generation only.                                                        *)
LEMMA StepStays ==
  ASSUME Typed, Unforced, NEW p \in Procs, StepOf(p), NEW r \in Rows, enr[r].status # "NONE",
         ~(GenerateCommit(p) /\ r = tx[p].row)
  PROVE  enr'[r].step = enr[r].step
<1>1. RowMoves(p, r) BY StepsMoveRows
<1>2. ~Started(p, r) /\ ~Relocated(p, r) /\ ~Generated(p, r)
  BY DEF Started, Relocated, Generated, Unforced
<1> QED BY <1>1, <1>2
        DEF RowMoves, SameRow, Halted, Held, Finished, Completed, Resumed, Restored, Moved

(* It still has none at the commit, where it opens those of the next step. *)
LEMMA StepInTurn ==
  ASSUME ClockMode = "shift", "move" \notin Requests, OpensInTurn, NEW p \in Procs, StepOf(p)
  PROVE  OpensInTurn'
<1>1. LeftBehind /\ LeftBehind' /\ Base /\ IInv /\ Typed /\ Unforced
  BY StepLeft DEF OpensInTurn, LeftBehind, Base, IInv
<1>2. slipped \subseteq slipped' /\ \A q \in Procs \ {p} : tx'[q] = tx[q]
  BY <1>1, StepRespects DEF Respects, OwnLocks, LocksRespected
<1>3. Unforced'
  BY <1>1, <1>2, StepUnforced
<1>4. ASSUME NEW q \in Procs, tx'[q].op = "generate" PROVE ClearOrSlipped(tx[q].row)'
  <2>1. CASE q # p
    <3>1. tx[q].op = "generate" /\ ClearOrSlipped(tx[q].row)
      BY <1>2, <1>4, <2>1 DEF OpensInTurn
    <3>2. tx'[q] = tx[q] /\ ClearOrSlipped(tx[q].row)'
      BY <1>1, <2>1, <3>1, StaysClear
    <3> QED BY <3>2
  <2>2. CASE q = p
    <3>1. PICK r \in Rows : AdvanceGenerate(p, r)
      BY <1>1, <1>4, <2>2, StepsOpen, OpenedOps, MoveOpens DEF Opens, NoTx
    <3>2. tx'[p].row = r /\ UNCHANGED task
      BY <1>1, <3>1, OpenedOps
    <3>3. ClearOrSlipped(r)
      BY <3>1, GeneratesWhenClear
    <3> QED BY <1>2, <2>2, <3>2, <3>3 DEF ClearOrSlipped, Open
  <2> QED BY <2>1, <2>2
<1>5. ASSUME NEW k \in Keys, k[1] \notin slipped', InTurn(k), enr[k[1]].status # "NONE",
             task[k] \in {"PENDING", "LEFT"} \/ ~(GenerateCommit(p) /\ k[1] = tx[p].row)
      PROVE  InTurn(k)'
  <2>1. k[1] \in Rows BY DEF Keys
  <2>2. k[2] = enr[k[1]].step BY <1>2, <1>5 DEF InTurn
  <2>3. ASSUME GenerateCommit(p), k[1] = tx[p].row PROVE FALSE
    <3>1. ~HasLeft(k[1]) /\ Open(k[1]) = {}
      BY <1>1, <1>2, <1>5, <2>3
         DEF GenerateCommit, LeftBehind, WorksAlone, OpensInTurn, ClearOrSlipped
    <3> QED BY <1>5, <2>3, <3>1 DEF HasLeft, Open
  <2>4. enr'[k[1]].step = enr[k[1]].step BY <1>1, <1>5, <2>1, <2>3, StepStays
  <2> QED BY <2>2, <2>4 DEF InTurn
<1>6. ASSUME NEW k \in Keys, task'[k] \in {"PENDING", "LEFT"}, k[1] \notin slipped' PROVE InTurn(k)'
  <2>0. k[1] \in Rows BY DEF Keys
  <2>1. CASE task[k] \in {"PENDING", "LEFT"}
    <3>1. enr[k[1]].status # "NONE"
      BY <1>1, <2>0, <2>1
         DEF IInv, EngineInv, OpenTasksHaveEnrollments, LeftBehind, HasLeft, LeftRow
    <3>2. InTurn(k) BY <2>1 DEF OpensInTurn
    <3> QED BY <1>5, <1>6, <2>1, <3>1, <3>2
  <2>2. CASE task[k] \notin {"PENDING", "LEFT"} /\ task'[k] = "PENDING"
    <3>1. GenerateCommit(p) /\ k[1] = tx[p].row /\ k[2] = tx[p].step
      BY <1>1, <2>2, WhatOpens DEF Opened
    <3>2. enr' = [enr EXCEPT ![tx[p].row].step = tx[p].step]
      BY <2>2, <3>1 DEF GenerateCommit, Raced
    <3>3. enr \in [Rows -> EnrRow] BY <1>1 DEF Typed, TypeOK
    <3> QED BY <2>0, <3>1, <3>2, <3>3 DEF InTurn, EnrRow
  <2>3. CASE task[k] \notin {"PENDING", "LEFT"} /\ task'[k] = "LEFT"
    <3>1. MoveToCrmCommit(p) /\ k \in tx[p].open BY <1>1, <2>3, WhatLeaves
    <3>2. InTurn(k) /\ MovesOut(p)
      BY <1>1, <3>1 DEF MoveToCrmCommit, OpensInTurn, LeftBehind
    <3>3. enr[k[1]].status # "NONE" BY <3>1, <3>2 DEF MovesOut
    <3>4. ~GenerateCommit(p) BY <3>1 DEF MoveToCrmCommit, GenerateCommit
    <3> QED BY <1>5, <1>6, <3>2, <3>3, <3>4
  <2> QED BY <1>6, <2>1, <2>2, <2>3
<1>7. ASSUME NEW q \in Procs, tx'[q].op = "toCrm", NEW k \in tx'[q].open, k[1] \notin slipped'
      PROVE  InTurn(k)'
  <2>1. CASE q # p
    <3>1. tx'[q] = tx[q] BY <1>2, <2>1
    <3>2. InTurn(k) /\ MovesOut(q) BY <1>1, <1>7, <3>1 DEF OpensInTurn, LeftBehind
    <3>3. k \in Keys BY <1>1, <1>7, <3>1 DEF Typed, TypeOK, Tx
    <3>4. k[1] \in RowsOf(Person(tx[q].row)) /\ enr[k[1]].status # "NONE"
      BY <1>7, <3>1, <3>2 DEF MovesOut
    <3>5. ASSUME GenerateCommit(p), k[1] = tx[p].row PROVE FALSE
      <4>1. ContactLocks({Person(k[1])}) \subseteq tx[p].held
        BY <1>1, <1>2, <1>7, <3>5 DEF GenerateCommit, LeftBehind, WorksAlone
      <4>2. Person(k[1]) = Person(tx[q].row) /\ Person(k[1]) \in Cold
        BY <1>1, <1>7, <3>1, <3>4
           DEF RowsOf, IInv, EngineInv, WritesAreResolutions, WellFormed
      <4>3. <<"contact", Person(k[1])>> \in tx[p].held \cap tx[q].held
        BY <3>2, <4>1, <4>2 DEF MovesOut, ContactLocks
      <4> QED BY <1>1, <2>1, <4>3 DEF IInv, EngineInv, LocksAreExclusive
    <3> QED BY <1>5, <1>7, <3>2, <3>3, <3>4, <3>5
  <2>2. CASE q = p
    <3>1. PICK x \in Cold : MoveToCrm(p, x)
      BY <1>1, <1>7, <2>2, StepsOpen, OpenedOps DEF Opens
    <3>2. k \in UNION {Open(r) : r \in OccupyingRows(RowsOf(x))}
      BY <1>1, <1>7, <2>2, <3>1, MovesOutOp DEF NoTx
    <3>3. k \in Keys /\ task[k] = "PENDING" BY <3>2 DEF Open
    <3> QED BY <1>6, <1>7, <3>1, <3>3 DEF MoveToCrm
  <2> QED BY <2>1, <2>2
<1> QED BY <1>1, <1>3, <1>4, <1>6, <1>7 DEF OpensInTurn, InTurn

(* In shift mode the open tasks of an enrollment are those of its current  *)
(* step, for any processes, people, pauses, replies, crashes, moves to the *)
(* CRM and their undos, if nobody is moved to a step by hand (moveToStep   *)
(* cancels the tasks it read, without a lock).                             *)
THEOREM StepsInTurn ==
  ASSUME "move" \notin Requests
  PROVE  Spec => []StepsOpenInOrder
<1>1. CASE ClockMode # "shift"
  <2>1. StepsOpenInOrder BY <1>1 DEF StepsOpenInOrder
  <2> QED BY <2>1, PTL
<1>2. CASE ClockMode = "shift"
  <2>1. Init => OpensInTurn
    <3>1. Init => /\ \A k \in Keys : task[k] = "NONE"
                  /\ \A q \in Procs : tx[q].op = "none" /\ tx[q].then = <<>> /\ todo[q] = <<>>
      BY DEF Init, NoTx
    <3>2. <<>> \in Seq(Calm) BY EmptySeq
    <3> QED BY <3>1, <3>2, InitLeft DEF OpensInTurn, Unforced
  <2>2. OpensInTurn /\ [Next]_vars => OpensInTurn'
    <3> SUFFICES ASSUME OpensInTurn, [Next]_vars PROVE OpensInTurn'
      OBVIOUS
    <3>1. CASE Idle
      <4>1. LeftBehind' BY <3>1, IdleLeft DEF OpensInTurn
      <4> QED BY <3>1, <4>1, IdleView DEF view, OpensInTurn, Unforced, InTurn, ClearOrSlipped, Open
    <3> QED BY <1>2, <3>1, StepKinds, StepInTurn
  <2>3. OpensInTurn => StepsOpenInOrder BY DEF OpensInTurn, InTurn, StepsOpenInOrder
  <2> QED BY <2>1, <2>2, <2>3, PTL DEF Spec
<1> QED BY <1>1, <1>2
=============================================================================
