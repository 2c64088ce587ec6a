-------------------------- MODULE EngineProperties --------------------------
(***************************************************************************)
(* What the engine promises about enrollments and tasks, over Engine.      *)
(***************************************************************************)
EXTENDS Engine

(* The rows, and every open transaction and pending call, have their types. *)
TypeOK ==
  /\ enr \in [Rows -> EnrRow]
  /\ task \in [Keys -> TaskStates]
  /\ campaign \in [Campaigns -> CampaignStatuses]
  /\ blocked \subseteq Accounts
  /\ optedOut \subseteq People
  /\ moved \subseteq Cold /\ over \subseteq Campaigns
  /\ slipped \subseteq Rows /\ dropped \subseteq Rows
  /\ tx \in [Procs -> Tx]
  /\ todo \in [Procs -> Seq(Calls)]

(* Stopping a campaign leaves nothing to do in it, whoever was advancing,  *)
(* resuming or moving its people when it stopped (changeCampaignStatus and *)
(* advanceEnrollment share the campaign's lock), but for the undo of a     *)
(* move, which takes no campaign lock: the rows it slipped in are apart.   *)
StoppedCampaignHasNoOpenTasks ==
  \A k \in Keys : task[k] = "PENDING" /\ k[1] \notin slipped =>
                     campaign[enr[k[1]].camp] # "STOPPED"

(* A task is only ever opened where it may be worked at that moment: not   *)
(* for a blocked account, not for a cold contact who has opted out, not in *)
(* a campaign that is paused, stopped or not yet launched (an undo's       *)
(* restore included, unless it crossed the pause or stop: slipped).        *)
Opened(k) == task[k] # "PENDING" /\ task'[k] = "PENDING"
StepsOpenWhereAllowed == [][\A k \in Keys : Opened(k) =>
    /\ Account(k[1]) \notin blocked
    /\ k[1] \notin slipped' =>
         /\ ~ColdGone(k[1])'
         /\ campaign[enr[k[1]].camp] \in {"ACTIVE", "COMPLETED"}]_vars

(* Pausing a campaign pauses everyone in it: nobody is left running in a   *)
(* campaign that is paused or stopped (without a manual move, a late       *)
(* addition or an undo's restore, which take no campaign lock).            *)
NobodyRunsInAPausedCampaign ==
  \A r \in Rows : enr[r].status = "ACTIVE" /\ r \notin slipped =>
                     campaign[enr[r].camp] \in {"ACTIVE", "COMPLETED"}

(* In shift mode a step opens only when the one before it is resolved, so  *)
(* the open tasks of an enrollment are always those of its current step,   *)
(* after the undo of a move too (apart from a row that was overwritten and *)
(* advanced while its contact was in the CRM: slipped).                    *)
StepsOpenInOrder ==
  ClockMode = "shift" => \A k \in Keys : task[k] = "PENDING" /\ k[1] \notin slipped =>
                                          k[2] = enr[k[1]].step

(* An enrollment the engine completes has no task left open, in hold mode  *)
(* too, where steps overlap (apart from a row that was overwritten while   *)
(* its contact was in the CRM, and completed without the contact's lock).  *)
CompletedHasNoOpenTasks ==
  \A r \in Rows : enr[r].status = "COMPLETED" /\ r \notin slipped => Open(r) = {}

(* A task that is resolved stays resolved: no second generation of its     *)
(* step, by a tick, a resume or another request, opens it again, and the   *)
(* undo of a move opens again the tasks the move itself cancelled (LEFT)   *)
(* and nothing that was done, skipped or cancelled for another reason.     *)
ResolvedStaysResolved == [][\A k \in Keys :
    task[k] \in {"DONE", "SKIPPED", "CANCELLED"} => task'[k] # "PENDING"]_vars

(* An enrollment whose current step is resolved goes on (the next step, or *)
(* its completion) even if the request that resolved it died before its    *)
(* advance: the scheduler's tick picks it up.  On a published calendar the *)
(* next step has until the campaign's end date; the completion has not.    *)
InWindow(r) == LastStep(r) \/ ~enr[r].fixed \/ enr[r].camp \notin over
Ready(r) == Running(r) /\ ~ColdGone(r) /\ StepDone(r) /\ Open(r) = {} /\ InWindow(r)
StepsGoOn == \A r \in Rows : Ready(r) ~> ~Ready(r)

(* Resuming a campaign releases everyone its pause held, one by one, until *)
(* somebody in that loop has been enrolled elsewhere meanwhile: the error  *)
(* ends it, and who was left (dropped) stays held.                         *)
HeldByRunning(r) == /\ enr[r].status = "PAUSED" /\ enr[r].byCampaign
                    /\ campaign[enr[r].camp] = "ACTIVE" /\ r \notin dropped
ResumeReleasesEveryone == \A r \in Rows : HeldByRunning(r) ~> ~HeldByRunning(r)

-----------------------------------------------------------------------------
(* What makes the two properties above hold, strengthened until every step *)
(* preserves it (the inductive invariant of EngineProofs).                 *)

LocksAreExclusive == \A p, q \in Procs : p # q => tx[p].held \cap tx[q].held = {}

(* Between its reads and its writes a generating transaction keeps its     *)
(* locks, and what it read of the campaign, account and contact stays true.*)
MayStep(r) == /\ enr[r].status # "NONE"
              /\ campaign[enr[r].camp] \in {"ACTIVE", "COMPLETED"}
              /\ Account(r) \notin blocked
MayContact(r, held) == /\ ContactLocks({Person(r)}) \subseteq held
                       /\ ~ColdGone(r)
Generates(p, r) ==
  /\ r = tx[p].row /\ MayStep(r)
  /\ AccountLocks({Person(r)}) \cup {CampaignLock(enr[r].camp)} \subseteq tx[p].held
  /\ r \in slipped \/ MayContact(r, tx[p].held)
GeneratorsHoldTheirLocks == \A p \in Procs :
  tx[p].op = "generate" => \E r \in Rows : Generates(p, r)

(* An undo's restore holds its contact, who did not opt out.               *)
Restores(p, person) == /\ ContactLocks({person}) \subseteq tx[p].held
                       /\ tx[p].rows \subseteq RowsOf(person)
                       /\ tx[p].rows # {} => person \notin optedOut
UndosHoldTheirContact == \A p \in Procs :
  tx[p].op = "restore" => Restores(p, Person(tx[p].row))

(* What each kind of open transaction is about and will write. *)
WellFormed(t) ==
  /\ t.op = "resolve" => t.to \in {"DONE", "SKIPPED"}
  /\ t.op = "end" => t.to \in Ended
  /\ t.op \in TxOps \ {"none", "block"} => t.row \in Rows
  /\ t.op \in {"generate", "move"} => t.step \in Steps
  /\ t.op \in {"toCrm", "restore"} => Person(t.row) \in Cold
WritesAreResolutions == \A p \in Procs : WellFormed(tx[p])

OpenTasksHaveEnrollments == \A k \in Keys : task[k] = "PENDING" => enr[k[1]].status # "NONE"

EngineInv == /\ LocksAreExclusive
             /\ GeneratorsHoldTheirLocks
             /\ UndosHoldTheirContact
             /\ WritesAreResolutions
             /\ OpenTasksHaveEnrollments
             /\ StoppedCampaignHasNoOpenTasks

=============================================================================
