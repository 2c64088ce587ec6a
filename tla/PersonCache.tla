----------------------------- MODULE PersonCache -----------------------------
(***************************************************************************)
(* Cadence's copy of Twenty's people (person-cache.ts), and the worker's   *)
(* continuous sync that keeps it (continuous-sync.ts): a full listing once *)
(* a day, and in every pass what changed and what was deleted since the    *)
(* watermark of its listing.  Webhooks bring the same records at any time, *)
(* late or never, and a page of a listing is stored after it was read.     *)
(* The 10 minutes taken off a watermark before it is used are left out:    *)
(* a listing with them shows more, never less.                             *)
(*                                                                         *)
(* A record is its version.  Twenty stamps its changes 2, 4, 6...; what    *)
(* Cadence stamps in between is odd.                                       *)
(***************************************************************************)
EXTENDS Integers, FiniteSets

CONSTANTS
  Persons,
  Failures,    \* what can fail: "stage" (a listing stops), "record" (one cannot be stored)
  MaxChanges,  \* bound: changes made in Twenty
  MaxFailures  \* bound: failures

Listings == {"people", "deletedPeople"}     \* the stages of CURSOR_STAGES for people

ASSUME PersonCacheAssumption ==
  /\ Failures \subseteq {"stage", "record"}
  /\ MaxChanges \in Nat /\ MaxFailures \in Nat

VARIABLES
  crm,       \* person -> [exists, at (updatedAt), gone (deletedAt, 0: not deleted)]
  row,       \* person -> [cached, at (twentyUpdatedAt), gone (deletedAt), touched (syncedAt)]
  mail,      \* webhook deliveries that may still arrive, as <<person, record>>
  marks,     \* listing -> its watermark (0: there is none yet)
  fullDue,   \* a complete listing is due
  pass,      \* the sync pass under way
  changes, failures

vars == <<crm, row, mail, marks, fullDue, pass, changes, failures>>

Version == [at : Nat, gone : Nat]
CrmRow  == [exists : BOOLEAN, at : Nat, gone : Nat]
Row     == [cached : BOOLEAN, at : Nat, gone : Nat, touched : BOOLEAN]
Pass    == [do : {"idle", "full", "remove", "people", "deletedPeople", "save"},
            since : [Listings -> Nat], started : Nat, todo : SUBSET Persons,
            page : SUBSET (Persons \X Version),
            failed : BOOLEAN, stopped : SUBSET (Listings \cup {"full"}), full : BOOLEAN]

NoPass == [do |-> "idle", since |-> [l \in Listings |-> 0], started |-> 0, todo |-> {}, page |-> {},
           failed |-> FALSE, stopped |-> {}, full |-> FALSE]

Init ==
  /\ crm \in [Persons -> [exists : BOOLEAN, at : {0}, gone : {0}]]
  /\ row = [p \in Persons |-> [cached |-> FALSE, at |-> 0, gone |-> 0, touched |-> FALSE]]
  /\ mail = {}
  /\ marks = [l \in Listings |-> 0]
  /\ fullDue = TRUE
  /\ pass = NoPass
  /\ changes = 0 /\ failures = 0

TwentyTime  == 2 * changes + 2      \* the stamp of Twenty's next change
CadenceTime == 2 * changes + 1      \* Cadence's clock: after every change so far
Larger(i, j) == IF i > j THEN i ELSE j

-----------------------------------------------------------------------------
(* upsertPersonCache: the record is marked as seen, and taken unless what  *)
(* is here is newer by either of its two clocks.                           *)

(* Mutation: only updatedAt is compared, which a deletion does not move. *)
InOrder_ByUpdate(r, v) == r.at <= v.at

InOrder(r, v) == r.at <= Larger(v.at, v.gone) /\ r.gone <= Larger(v.at, v.gone)

Upserted(r, v) ==
  IF ~ r.cached \/ InOrder(r, v) THEN [cached |-> TRUE, at |-> v.at, gone |-> v.gone, touched |-> TRUE]
  ELSE [r EXCEPT !.touched = TRUE]

(* markPersonDeleted. *)
MarkedDeleted(r, at) ==
  IF r.cached /\ r.at <= at /\ r.gone <= at THEN [r EXCEPT !.gone = at, !.touched = TRUE] ELSE r

-----------------------------------------------------------------------------
(* Twenty. *)

Change(p, new) ==
  /\ changes < MaxChanges /\ changes' = changes + 1
  /\ crm' = [crm EXCEPT ![p] = new]
  /\ mail' = mail \cup {<<p, [at |-> new.at, gone |-> new.gone]>>}
  /\ UNCHANGED <<row, marks, fullDue, pass, failures>>

Live(p) == crm[p].exists /\ crm[p].gone = 0
Create(p)  == ~ crm[p].exists /\ crm[p].at = 0 /\ Change(p, [exists |-> TRUE, at |-> TwentyTime, gone |-> 0])
Edit(p)    == Live(p) /\ Change(p, [crm[p] EXCEPT !.at = TwentyTime])
(* Soft deletion leaves updatedAt as it was. *)
Delete(p)  == Live(p) /\ Change(p, [crm[p] EXCEPT !.gone = TwentyTime])
(* Merged away or destroyed: no listing returns it, and no webhook says so. *)
Destroy(p) ==
  /\ crm[p].exists
  /\ changes < MaxChanges /\ changes' = changes + 1
  /\ crm' = [crm EXCEPT ![p] = [exists |-> FALSE, at |-> TwentyTime, gone |-> TwentyTime]]
  /\ UNCHANGED <<row, mail, marks, fullDue, pass, failures>>

(* A webhook arrives (handlePerson), or a page opened in Cadence has read  *)
(* the person (liveRead); ingestEvent drops one that comes again.          *)
Deliver(p, v) ==
  /\ mail' = mail \ {<<p, v>>}
  /\ row' = [row EXCEPT ![p] = IF v.gone # 0 THEN MarkedDeleted(@, v.gone) ELSE Upserted(@, v)]
  /\ UNCHANGED <<crm, marks, fullDue, pass, changes, failures>>

-----------------------------------------------------------------------------
(* syncContinuously. *)

Tick(next) ==
  /\ pass' = next
  /\ UNCHANGED <<crm, mail, changes>>

(* Mutation: a complete listing only before there is a watermark. *)
FullNow_FirstOnly == marks["people"] = 0

FullNow == fullDue \/ marks["people"] = 0
(* A pass, and with it a complete listing when one is due: whoever is not  *)
(* seen from now on is no longer in Twenty.                                *)
StartPass ==
  LET full == FullNow
      started == [NoPass EXCEPT !.do = IF full THEN "full" ELSE "people", !.since = marks,
                                !.started = CadenceTime, !.todo = Persons, !.full = full]
  IN
  /\ pass.do = "idle"
  /\ Tick(started)
  /\ row' = IF full THEN [p \in Persons |-> [row[p] EXCEPT !.touched = FALSE]] ELSE row
  /\ UNCHANGED <<marks, fullDue, failures>>

Listed(p) ==
  /\ crm[p].exists
  /\ CASE pass.do = "full"          -> TRUE
       [] pass.do = "people"        -> crm[p].at >= pass.since["people"]
       [] pass.do = "deletedPeople" -> crm[p].gone # 0 /\ crm[p].gone >= pass.since["deletedPeople"]

(* A page is read, in the order of the records' ids. *)
ReadPage ==
  /\ pass.do \in {"full", "people", "deletedPeople"} /\ pass.page = {} /\ pass.todo # {}
  /\ \E p \in pass.todo :
       Tick([pass EXCEPT !.todo = @ \ {p},
                         !.page = IF Listed(p) THEN {<<p, [at |-> crm[p].at, gone |-> crm[p].gone]>>}
                                  ELSE {}])
  /\ UNCHANGED <<row, marks, fullDue, failures>>

Fail == failures < MaxFailures /\ failures' = failures + 1

(* ... and stored.  A record that cannot be stored is counted, and the run *)
(* goes on.                                                                *)
StoreRecord ==
  \E m \in pass.page :
    \/ /\ row' = [row EXCEPT ![m[1]] = Upserted(@, m[2])]
       /\ Tick([pass EXCEPT !.page = {}])
       /\ UNCHANGED <<marks, fullDue, failures>>
    \/ /\ "record" \in Failures /\ Fail
       /\ Tick([pass EXCEPT !.page = {}, !.failed = pass.full /\ pass.do = "full"])
       /\ UNCHANGED <<row, marks, fullDue>>

After(do) == CASE do = "full" -> "remove" [] do = "people" -> "deletedPeople" [] OTHER -> "save"
Onward(do) == [pass EXCEPT !.do = do, !.todo = Persons]

(* The listing ends; only the daily one removes. *)
EndListing ==
  /\ pass.do \in {"full", "people", "deletedPeople"} /\ pass.page = {} /\ pass.todo = {}
  /\ Tick(Onward(After(pass.do)))
  /\ UNCHANGED <<row, marks, fullDue, failures>>

(* Mutation: the clean-up runs even though the listing did not finish. *)
AfterStopped_CleanUp == "remove"

AfterStopped == "people"
(* A listing stops part-way.  Without people nothing is saved and the pass *)
(* is over; a stopped complete listing removes nobody.                     *)
StopListing ==
  /\ pass.do \in {"full", "people", "deletedPeople"} /\ pass.page = {}
  /\ "stage" \in Failures /\ Fail
  /\ \/ /\ pass.do = "people" \/ (pass.do = "full" /\ marks["people"] = 0)
        /\ Tick(NoPass)
     \/ /\ pass.do = "full" /\ marks["people"] # 0
        /\ Tick([Onward(AfterStopped) EXCEPT !.stopped = @ \cup {"full"}])
     \/ /\ pass.do = "deletedPeople"
        /\ Tick([Onward("save") EXCEPT !.stopped = @ \cup {"deletedPeople"}])
  /\ UNCHANGED <<row, marks, fullDue>>

(* Rows the complete listing did not touch are marked deleted. *)
RemoveUnseen ==
  /\ pass.do = "remove"
  /\ row' = [p \in Persons |->
               IF row[p].cached /\ row[p].gone = 0 /\ ~ row[p].touched
               THEN [row[p] EXCEPT !.gone = pass.started] ELSE row[p]]
  /\ Tick(Onward("people"))
  /\ UNCHANGED <<marks, fullDue, failures>>

(* Mutation: the watermark is the time the pass ended. *)
NewMark_AtEnd == CadenceTime

(* The watermark of a listing that finished is the time its pass began.    *)
NewMark == pass.started
SavePass ==
  /\ pass.do = "save"
  /\ marks' = [l \in Listings |-> IF l \in pass.stopped THEN marks[l] ELSE NewMark]
  /\ fullDue' = (fullDue /\ ~ (pass.full /\ "full" \notin pass.stopped /\ ~ pass.failed))
  /\ Tick(NoPass)
  /\ UNCHANGED <<row, failures>>

(* A day has passed since the last complete listing. *)
NewDay ==
  /\ ~ fullDue /\ fullDue' = TRUE
  /\ UNCHANGED <<crm, row, mail, marks, pass, changes, failures>>

(* The worker is stopped in the middle of a pass: nothing is saved.        *)
Restart ==
  /\ pass.do # "idle" /\ Fail
  /\ Tick(NoPass)
  /\ UNCHANGED <<row, marks, fullDue>>

-----------------------------------------------------------------------------
SyncStep == StartPass \/ ReadPage \/ StoreRecord \/ EndListing \/ StopListing \/ RemoveUnseen \/ SavePass

Next ==
  \/ \E p \in Persons : Create(p) \/ Edit(p) \/ Delete(p) \/ Destroy(p)
  \/ \E m \in mail : Deliver(m[1], m[2])
  \/ SyncStep \/ NewDay \/ Restart

Spec == Init /\ [][Next]_vars

(* The worker's ticks go on, and every day comes; webhooks need not.       *)
LiveSpec == Spec /\ WF_vars(SyncStep) /\ WF_vars(NewDay)

-----------------------------------------------------------------------------
TypeOK ==
  /\ crm \in [Persons -> CrmRow] /\ row \in [Persons -> Row]
  /\ mail \subseteq Persons \X Version
  /\ marks \in [Listings -> Nat] /\ fullDue \in BOOLEAN
  /\ pass \in Pass
  /\ changes \in 0 .. MaxChanges /\ failures \in 0 .. MaxFailures

(* Nobody who is in Twenty is shown as deleted: the daily clean-up only    *)
(* takes rows whose record is gone, whatever was created, edited or        *)
(* delivered while the listing ran (refreshPersonCache: "anything cached   *)
(* that Twenty did not return no longer exists there").                    *)
NobodyWrittenOff == \A p \in Persons : Live(p) => row[p].gone = 0

(* A person once seen as deleted does not come back with a page read or a  *)
(* webhook sent before the deletion (snapshotOrder).                       *)
DeletedStaysDeleted ==
  [][\A p \in Persons : crm[p].exists /\ crm[p].gone # 0 /\ row[p].gone # 0 => row'[p].gone # 0]_vars

UpToDate(p) ==
  IF crm[p].exists
  THEN row[p].cached /\ row[p].at = crm[p].at /\ (row[p].gone # 0 <=> crm[p].gone # 0)
  ELSE row[p].cached => row[p].gone # 0

(* Every change of Twenty from before the watermark of its listing has     *)
(* been stored, or its person is known to be deleted since: a change that  *)
(* lands while the listing runs, a stopped listing or a restart never lets *)
(* a watermark step over one.                                              *)
WatermarkSkipsNothing ==
  \A p \in Persons : crm[p].exists =>
    /\ crm[p].at # 0 /\ crm[p].at < marks["people"] =>
         row[p].cached /\ (row[p].at >= crm[p].at \/ (crm[p].gone # 0 /\ row[p].gone = crm[p].gone))
    /\ crm[p].gone # 0 /\ crm[p].gone < marks["deletedPeople"] => row[p].gone >= crm[p].gone

(* Without a single webhook, through stopped listings and restarts, the    *)
(* copy of everyone ends up as Twenty has it, the people it no longer has  *)
(* included.                                                               *)
CacheCatchesUp == \A p \in Persons : <>[]UpToDate(p)
=============================================================================
