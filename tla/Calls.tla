-------------------------------- MODULE Calls --------------------------------
(***************************************************************************)
(* Calls and their forms: the Twilio import (calls/import.ts, call-log.ts) *)
(* run by the worker and by "Import now", a call logged by hand, the CRM's *)
(* quick Log call on a step, and the post-call form: submitted, closed by  *)
(* a leader, or the call discarded (form.ts, form-tools.ts,                *)
(* form-context.ts).                                                       *)
(*                                                                         *)
(* One rep and one person, who the import always recognises; every call is *)
(* outgoing and answered, and one call step of a running campaign is due.  *)
(* Time is in ticks.  What is decided from a read before the write carries *)
(* the read.                                                               *)
(***************************************************************************)
EXTENDS Integers, FiniteSets

CONSTANTS
  TwilioCalls,  \* calls Twilio knows of
  Importers,    \* processes that run the import
  Worker,       \* the one that does so every two minutes
  Tabs,         \* the rep's and the leader's requests
  None,
  MaxByHand,    \* bound: calls logged by hand
  MaxFailures,  \* bound: runs that fail or die
  MaxRequests,  \* bound: requests
  MaxBusy,      \* bound: runs and requests under way at once
  LastTick,     \* bound: time
  Lease,        \* how long a run holds the lease: LEASE_MS, 10 minutes
  Overlap,      \* how far behind the watermark a run reads: OVERLAP_MS, 10 minutes
  Reread,       \* how old an unfinished call still read again may be: 6 hours (import.ts)
  CatchUp       \* a call this old opens no form: FORM_CATCH_UP_MS, 7 days (N049)

Ids     == 1..(Cardinality(TwilioCalls) + MaxByHand)
Ticks   == 0..LastTick
Touches == ({"twilio"} \X TwilioCalls) \cup ({"call"} \X Ids) \cup {<<"task", 0>>}
Never   == LastTick + 1

ASSUME CallsAssumption ==
  /\ IsFiniteSet(TwilioCalls) /\ Worker \in Importers /\ None \notin TwilioCalls \cup Importers \cup Touches
  /\ MaxByHand \in Nat /\ MaxFailures \in Nat /\ MaxRequests \in Nat /\ MaxBusy \in Nat /\ LastTick \in Nat
  /\ Lease \in Nat /\ Overlap \in Nat /\ Reread \in Nat /\ CatchUp \in Nat

VARIABLES
  now,
  twilio,     \* call -> [is: what Twilio says of it, at: when it started, till: when it ended]
  rows,       \* CallLog, by order of creation
  forms,      \* row -> how many CallForms it was given
  step,       \* the call step due: [open, touch: the touch it was done with]
  touches,    \* the timeline's calls, by externalId
  lease,      \* the import's lease: [by, until]
  mark,       \* twilioImport.watermark
  formsFrom,  \* twilioImport.formsFrom (LastTick + 1: no run went through)
  run,        \* importer -> its run
  tab,        \* tab -> its request
  failures, requests,
  rejoined    \* history: two runs took one call logged by hand, each for a call of its own

vars == <<now, twilio, rows, forms, step, touches, lease, mark, formsFrom, run, tab, failures, requests, rejoined>>

Row == [sid : TwilioCalls \cup {None}, hand : BOOLEAN,
        final : BOOLEAN,                     \* statusRank 4
        touch : Touches \cup {None}, step : BOOLEAN,
        due : BOOLEAN, done : BOOLEAN, discarded : BOOLEAN]
NoRow == [sid |-> None, hand |-> FALSE, final |-> FALSE, touch |-> None, step |-> FALSE,
          due |-> FALSE, done |-> FALSE, discarded |-> FALSE]

(* What a run decides by, of a row it read or wrote. *)
Seen == [final : BOOLEAN, touched : BOOLEAN, step : BOOLEAN, due : BOOLEAN, done : BOOLEAN]
AsSeen(r) == [final |-> r.final, touched |-> r.touch # None, step |-> r.step, due |-> r.due, done |-> r.done]

Leg == [sid : TwilioCalls, final : BOOLEAN]
Run == [at : {"idle", "list", "store", "file"}, started : Ticks, formsFrom : Ticks,
        legs : SUBSET Leg, leg : Leg \cup {None},
        id : Ids \cup {0},          \* the row it read for the leg, then wrote
        call : Seen,                \* as it was then
        hand : Ids \cup {0},        \* the hand-logged call it read
        filed : BOOLEAN]            \* the step was done by the quick Log call
NoRun == [at |-> "idle", started |-> 0, formsFrom |-> 0, legs |-> {}, leg |-> None, id |-> 0,
          call |-> AsSeen(NoRow), hand |-> 0, filed |-> FALSE]

Tab == [op : {"none", "log", "submit", "close", "discard"}, at : {"read", "touch", "step"},
        id : Ids \cup {0}, sid : TwilioCalls \cup {None}, touch : Touches \cup {None},
        closes : BOOLEAN]
NoTab == [op |-> "none", at |-> "read", id |-> 0, sid |-> None, touch |-> None, closes |-> FALSE]

Stored == {i \in Ids : rows[i].sid # None \/ rows[i].hand}
RowOf(c) == {i \in Ids : rows[i].sid = c}
NextId  == CHOOSE i \in Ids \ Stored : \A j \in Ids \ Stored : i <= j
Waiting(r) == r.due /\ ~r.done /\ ~r.discarded       \* formsHeldBy

(* Requests are alike: the next one takes the first free tab. *)
FreeTab(t) == tab[t] = NoTab /\ t = CHOOSE u \in Tabs : tab[u] = NoTab

MayBegin == Cardinality({p \in Importers : run[p].at # "idle"})
              + Cardinality({t \in Tabs : tab[t] # NoTab}) < MaxBusy

Init ==
  /\ now = 0
  /\ twilio = [c \in TwilioCalls |-> [is |-> "none", at |-> 0, till |-> 0]]
  /\ rows = [i \in Ids |-> NoRow]
  /\ forms = [i \in Ids |-> 0]
  /\ step = [open |-> TRUE, touch |-> None]
  /\ touches = {}
  /\ lease = [by |-> None, until |-> 0]
  /\ mark = 0
  /\ formsFrom = Never
  /\ run = [p \in Importers |-> NoRun]
  /\ tab = [t \in Tabs |-> NoTab]
  /\ failures = 0 /\ requests = 0 /\ rejoined = FALSE

(***************************************************************************)
(* Twilio and time.                                                        *)
(***************************************************************************)

Tick == /\ now < LastTick
        /\ now' = now + 1
        /\ UNCHANGED <<twilio, rows, forms, step, touches, lease, mark, formsFrom, run, tab, failures, requests, rejoined>>

Ring(c) ==
  /\ twilio[c].is = "none"
  /\ twilio' = [twilio EXCEPT ![c] = [@ EXCEPT !.is = "ringing", !.at = now]]
  /\ UNCHANGED <<now, rows, forms, step, touches, lease, mark, formsFrom, run, tab, failures, requests, rejoined>>

HangUp(c) ==
  /\ twilio[c].is = "ringing"
  /\ twilio' = [twilio EXCEPT ![c] = [@ EXCEPT !.is = "ended", !.till = now]]
  /\ UNCHANGED <<now, rows, forms, step, touches, lease, mark, formsFrom, run, tab, failures, requests, rejoined>>

(***************************************************************************)
(* The import.  StartRun takes the lease and reads the calls from the      *)
(* watermark less the overlap, and those stored that had not ended.        *)
(***************************************************************************)

(* takeLease: no live run holds it. *)
LeaseFree(t) == lease.by = None \/ lease.until < t

Age(c) == now - twilio[c].at

(* statusRank below 4, and begun in the last six hours. *)
Unfinished(i) == rows[i].sid # None /\ ~rows[i].final /\ Age(rows[i].sid) <= Reread

Listed == {c \in TwilioCalls : /\ twilio[c].is # "none"
                               /\ twilio[c].at >= mark - Overlap \/ \E i \in RowOf(c) : Unfinished(i)}

StartRun(p) ==
  /\ run[p].at = "idle" /\ MayBegin
  /\ LeaseFree(now)
  /\ lease' = [by |-> p, until |-> now + Lease]
  /\ run' = [run EXCEPT ![p] = [NoRun EXCEPT
       !.at = "list", !.started = now,
       !.formsFrom = IF formsFrom = Never THEN now ELSE formsFrom,
       !.legs = {[sid |-> c, final |-> twilio[c].is = "ended"] : c \in Listed}]]
  /\ UNCHANGED <<now, twilio, rows, forms, step, touches, mark, formsFrom, tab, failures, requests, rejoined>>

(* loggedByHand: the latest call logged by hand, not Twilio's yet. *)
LoggedByHand == LET hands == {i \in Ids : rows[i].hand /\ rows[i].sid = None /\ ~rows[i].discarded}
                IN IF hands = {} THEN 0 ELSE CHOOSE i \in hands : \A j \in hands : j <= i

(* loggedOnStep: the step was done as a call, and no call record has it. *)
LoggedOnStep == /\ ~step.open
                /\ \A i \in Ids : ~rows[i].step /\ (rows[i].touch # None => rows[i].touch # step.touch)

ReadLeg(p) ==
  \E leg \in run[p].legs :
    LET known == RowOf(leg.sid)
        id    == IF known = {} THEN 0 ELSE CHOOSE i \in known : TRUE IN
    /\ run[p].at = "list"
    /\ run' = [run EXCEPT ![p] = [@ EXCEPT
         !.at = "store", !.leg = leg, !.id = id,
         !.call = AsSeen(IF id = 0 THEN NoRow ELSE rows[id]),
         !.hand = IF id = 0 THEN LoggedByHand ELSE 0,
         !.filed = id = 0 /\ LoggedByHand = 0 /\ leg.final /\ LoggedOnStep]]
    /\ UNCHANGED <<now, twilio, rows, forms, step, touches, lease, mark, formsFrom, tab, failures, requests, rejoined>>

(* What the row's status becomes: it only moves forward from the one read. *)
FinalAfter(p) == run[p].leg.final \/ run[p].call.final

(* An ended call of a matched rep opens its form, once, if the import was there from its  *)
(* start; never an old one's (N049), the run's time being the one it began with.          *)
FormOpens(p) ==
  /\ FinalAfter(p)
  /\ ~run[p].call.due /\ ~run[p].call.done
  /\ twilio[run[p].leg.sid].at >= run[p].formsFrom
  /\ run[p].started - twilio[run[p].leg.sid].at < CatchUp
  /\ ~run[p].filed

EndLeg(p) == [run[p] EXCEPT !.at = "list", !.legs = @ \ {run[p].leg}, !.leg = None, !.id = 0,
                            !.call = AsSeen(NoRow), !.hand = 0, !.filed = FALSE]

(* The run goes on with the row as its write left it. *)
Wrote(p, i, r) == /\ rows' = [rows EXCEPT ![i] = r]
                  /\ run' = [run EXCEPT ![p].at = "file", ![p].id = i, ![p].call = AsSeen(r), ![p].hand = 0]

StoreKnown(p) ==
  /\ run[p].at = "store" /\ run[p].id # 0
  /\ Wrote(p, run[p].id, [rows[run[p].id] EXCEPT
       !.final = IF run[p].leg.final \/ ~run[p].call.final THEN run[p].leg.final ELSE @,
       !.due = @ \/ FormOpens(p)])
  /\ UNCHANGED <<now, twilio, forms, step, touches, lease, mark, formsFrom, tab, failures, requests, rejoined>>

(* The call logged by hand becomes Twilio's and keeps its form; it is written by id, *)
(* though another run may have taken it since it was read.                          *)
JoinByHand(p) ==
  LET c == run[p].leg.sid
      h == run[p].hand IN
  /\ run[p].at = "store" /\ h # 0
  /\ RowOf(c) \subseteq {h}
  /\ rows' = [rows EXCEPT ![h].sid = c, ![h].final = run[p].leg.final]
  /\ run' = [run EXCEPT ![p] = EndLeg(p)]
  /\ rejoined' = (rejoined \/ rows[h].sid \notin {None, c})
  /\ UNCHANGED <<now, twilio, forms, step, touches, lease, mark, formsFrom, tab, failures, requests>>

TouchTaken(p) == run[p].filed /\ \E i \in Ids : rows[i].touch = step.touch

StoreNew(p) ==
  /\ run[p].at = "store" /\ run[p].id = 0 /\ run[p].hand = 0
  /\ RowOf(run[p].leg.sid) = {} /\ ~TouchTaken(p)
  /\ Wrote(p, NextId, [NoRow EXCEPT
       !.sid = run[p].leg.sid, !.final = run[p].leg.final, !.due = FormOpens(p),
       !.step = run[p].filed, !.done = run[p].filed,
       !.touch = IF run[p].filed THEN step.touch ELSE None])
  /\ UNCHANGED <<now, twilio, forms, step, touches, lease, mark, formsFrom, tab, failures, requests, rejoined>>

(* Another import stored the same call a moment ago: only the facts are written. *)
StoreTwice(p) ==
  /\ run[p].at = "store" /\ run[p].id = 0 /\ run[p].hand = 0
  /\ \E i \in RowOf(run[p].leg.sid) : Wrote(p, i, [rows[i] EXCEPT !.final = run[p].leg.final])
  /\ UNCHANGED <<now, twilio, forms, step, touches, lease, mark, formsFrom, tab, failures, requests, rejoined>>

(* stepByRule and recordCallTouch, on the row as the run wrote it. *)
FileLeg(p) ==
  LET r     == run[p].call
      touch == <<"twilio", run[p].leg.sid>>
      links == r.final /\ ~r.step /\ ~r.done /\ step.open IN
  /\ run[p].at = "file"
  /\ IF r.final /\ ~r.touched
     THEN /\ touches' = touches \cup {touch}
          /\ rows' = [rows EXCEPT ![run[p].id].touch = touch, ![run[p].id].step = @ \/ links]
     ELSE /\ rows' = [rows EXCEPT ![run[p].id].step = @ \/ links]
          /\ UNCHANGED touches
  /\ run' = [run EXCEPT ![p] = EndLeg(p)]
  /\ UNCHANGED <<now, twilio, forms, step, lease, mark, formsFrom, tab, failures, requests, rejoined>>

DropLease(p) == lease' = IF lease.by = p /\ lease.until = run[p].started + Lease
                         THEN [by |-> None, until |-> 0] ELSE lease

(* Mutation: the watermark is the time the run ends. *)
NewMark_AtEnd(p) == now
(* Mutation: the watermark is set ahead of the run. *)
NewMark_Ahead(p) == run[p].started + 1
(* The watermark is the time the run began. *)
NewMark(p) == run[p].started

EndRun(p) ==
  /\ run[p].at = "list" /\ run[p].legs = {}
  /\ mark' = NewMark(p)
  /\ formsFrom' = IF formsFrom = Never THEN run[p].formsFrom ELSE formsFrom
  /\ DropLease(p)
  /\ run' = [run EXCEPT ![p] = NoRun]
  /\ UNCHANGED <<now, twilio, rows, forms, step, touches, tab, failures, requests, rejoined>>

(* The database or Twilio stops the run: the watermark stays. *)
FailRun(p) ==
  /\ run[p].at # "idle" /\ failures < MaxFailures
  /\ failures' = failures + 1
  /\ DropLease(p)
  /\ run' = [run EXCEPT ![p] = NoRun]
  /\ UNCHANGED <<now, twilio, rows, forms, step, touches, mark, formsFrom, tab, requests, rejoined>>

(* So does a unique key: two runs joined one call logged by hand, or one step's touch. *)
UniqueKey(p) ==
  /\ run[p].at = "store"
  /\ IF run[p].hand # 0 THEN ~(RowOf(run[p].leg.sid) \subseteq {run[p].hand})
     ELSE run[p].id = 0 /\ TouchTaken(p) /\ RowOf(run[p].leg.sid) = {}
  /\ DropLease(p)
  /\ run' = [run EXCEPT ![p] = NoRun]
  /\ UNCHANGED <<now, twilio, rows, forms, step, touches, mark, formsFrom, tab, failures, requests, rejoined>>

(* The process dies and leaves its lease (bound: early enough for it to end). *)
DieRun(p) ==
  /\ run[p].at # "idle" /\ failures < MaxFailures /\ run[p].started + Lease < LastTick
  /\ failures' = failures + 1
  /\ run' = [run EXCEPT ![p] = NoRun]
  /\ UNCHANGED <<now, twilio, rows, forms, step, touches, lease, mark, formsFrom, tab, requests, rejoined>>

RunStep(p) == ReadLeg(p) \/ StoreKnown(p) \/ JoinByHand(p) \/ StoreNew(p) \/ StoreTwice(p)
              \/ FileLeg(p) \/ EndRun(p) \/ UniqueKey(p)

(***************************************************************************)
(* The rep's requests, and a leader's.  Each reads the call, then writes.  *)
(***************************************************************************)

(* logManualCallAction: not while a form waits; with the step due as the one it closes. *)
LogByHand(t) ==
  LET r == [NoRow EXCEPT !.hand = TRUE, !.final = TRUE, !.due = TRUE, !.step = step.open] IN
  /\ FreeTab(t) /\ MayBegin /\ requests < MaxRequests
  /\ Cardinality({i \in Ids : rows[i].hand}) < MaxByHand
  /\ \A i \in Ids : ~Waiting(rows[i])
  /\ rows' = [rows EXCEPT ![NextId] = r]
  /\ tab' = [tab EXCEPT ![t] = [NoTab EXCEPT !.op = "log", !.at = "touch", !.id = NextId]]
  /\ requests' = requests + 1
  /\ UNCHANGED <<now, twilio, forms, step, touches, lease, mark, formsFrom, run, failures, rejoined>>

(* The CRM's quick Log call on the step, which the engine closes with a touch of its own. *)
LogOnStep ==
  /\ step.open /\ requests < MaxRequests
  /\ step' = [open |-> FALSE, touch |-> <<"task", 0>>]
  /\ touches' = touches \cup {<<"task", 0>>}
  /\ requests' = requests + 1
  /\ UNCHANGED <<now, twilio, rows, forms, lease, mark, formsFrom, run, tab, failures, rejoined>>

(* submitCallForm, closeFormWithoutForm and discardCall begin with the call's row; *)
(* the form closes the step it is linked to or the one the rep picks, or none.     *)
ReadCall(t, op, i, closes) ==
  /\ FreeTab(t) /\ MayBegin /\ requests < MaxRequests
  /\ i \in Stored /\ ~rows[i].done /\ ~rows[i].discarded
  /\ op \in {"submit", "close"} => rows[i].due
  /\ closes => op = "submit" /\ step.open
  /\ tab' = [tab EXCEPT ![t] = [op |-> op, at |-> "read", id |-> i, sid |-> rows[i].sid,
                                touch |-> rows[i].touch, closes |-> closes]]
  /\ requests' = requests + 1
  /\ UNCHANGED <<now, twilio, rows, forms, step, touches, lease, mark, formsFrom, run, failures, rejoined>>

(* Mutation: the form is saved on the call as it was read, with no form. *)
Claimable_AsRead(t) == TRUE
(* The call's row is claimed first, by a conditional update. *)
Claimable(t) == ~rows[tab[t].id].done /\ ~rows[tab[t].id].discarded

Submit(t) ==
  /\ tab[t].op = "submit" /\ tab[t].at = "read" /\ Claimable(t)
  /\ rows' = [rows EXCEPT ![tab[t].id] = [@ EXCEPT !.done = TRUE, !.due = TRUE, !.step = tab[t].closes]]
  /\ forms' = [forms EXCEPT ![tab[t].id] = @ + 1]
  /\ tab' = [tab EXCEPT ![t].at = "touch"]
  /\ UNCHANGED <<now, twilio, step, touches, lease, mark, formsFrom, run, failures, requests, rejoined>>

(* recordCallTouch of the call as the request read it. *)
TouchCall(t) ==
  LET touch == IF tab[t].sid # None THEN <<"twilio", tab[t].sid>> ELSE <<"call", tab[t].id>> IN
  /\ tab[t].at = "touch"
  /\ IF tab[t].touch = None
     THEN /\ touches' = touches \cup {touch}
          /\ rows' = [rows EXCEPT ![tab[t].id].touch = touch]
     ELSE UNCHANGED <<touches, rows>>
  /\ tab' = [tab EXCEPT ![t] =
       IF tab[t].op = "log" THEN NoTab
       ELSE [@ EXCEPT !.at = "step", !.touch = IF tab[t].touch = None THEN touch ELSE tab[t].touch]]
  /\ UNCHANGED <<now, twilio, forms, step, lease, mark, formsFrom, run, failures, requests, rejoined>>

(* The step closes with the call's own touch, unless it closed meanwhile. *)
CloseStep(t) ==
  /\ tab[t].at = "step"
  /\ step' = IF tab[t].closes /\ step.open THEN [open |-> FALSE, touch |-> tab[t].touch] ELSE step
  /\ tab' = [tab EXCEPT ![t] = NoTab]
  /\ UNCHANGED <<now, twilio, rows, forms, touches, lease, mark, formsFrom, run, failures, requests, rejoined>>

(* closeFormWithoutForm: only if nobody filled it meanwhile. *)
CloseForm(t) ==
  /\ tab[t].op = "close" /\ ~rows[tab[t].id].done
  /\ rows' = [rows EXCEPT ![tab[t].id].done = TRUE]
  /\ tab' = [tab EXCEPT ![t] = NoTab]
  /\ UNCHANGED <<now, twilio, forms, step, touches, lease, mark, formsFrom, run, failures, requests, rejoined>>

(* discardCall: out of every count, and the touch it was read with goes. *)
Discard(t) ==
  /\ tab[t].op = "discard" /\ Claimable(t)
  /\ rows' = [rows EXCEPT ![tab[t].id].discarded = TRUE,
                           ![tab[t].id].touch = IF @ = tab[t].touch THEN None ELSE @]
  /\ touches' = touches \ {tab[t].touch}
  /\ tab' = [tab EXCEPT ![t] = NoTab]
  /\ UNCHANGED <<now, twilio, forms, step, lease, mark, formsFrom, run, failures, requests, rejoined>>

(* The call was filed, closed or discarded since it was read. *)
Refused(t) ==
  /\ tab[t].op # "none" /\ tab[t].at = "read"
  /\ IF tab[t].op = "close" THEN rows[tab[t].id].done ELSE ~Claimable(t)
  /\ tab' = [tab EXCEPT ![t] = NoTab]
  /\ UNCHANGED <<now, twilio, rows, forms, step, touches, lease, mark, formsFrom, run, failures, requests, rejoined>>

TabStep(t) == Submit(t) \/ TouchCall(t) \/ CloseStep(t) \/ CloseForm(t) \/ Discard(t) \/ Refused(t)

Next ==
  \/ Tick
  \/ \E c \in TwilioCalls : Ring(c) \/ HangUp(c)
  \/ \E p \in Importers : StartRun(p) \/ RunStep(p) \/ FailRun(p) \/ DieRun(p)
  \/ LogOnStep
  \/ \E t \in Tabs : \/ LogByHand(t)
                     \/ \E i \in Ids, closes \in BOOLEAN, op \in {"submit", "close", "discard"} :
                          ReadCall(t, op, i, closes)
                     \/ TabStep(t)

Spec == Init /\ [][Next]_vars

(* The worker imports every two minutes, a run that goes on goes on, time passes, and so does a request. *)
LiveSpec == /\ Spec
            /\ WF_vars(Tick)
            /\ WF_vars(StartRun(Worker))
            /\ \A p \in Importers : WF_vars(RunStep(p))
            /\ \A t \in Tabs : WF_vars(TabStep(t))

(***************************************************************************)
(* Properties.                                                             *)
(***************************************************************************)

Types ==
  /\ now \in Ticks
  /\ twilio \in [TwilioCalls -> [is : {"none", "ringing", "ended"}, at : Ticks, till : Ticks]]
  /\ rows \in [Ids -> Row]
  /\ forms \in [Ids -> Nat]
  /\ step \in [open : BOOLEAN, touch : Touches \cup {None}]
  /\ touches \subseteq Touches
  /\ lease \in [by : Importers \cup {None}, until : 0..(LastTick + Lease)]
  /\ mark \in Ticks /\ formsFrom \in 0..Never
  /\ run \in [Importers -> Run] /\ tab \in [Tabs -> Tab]
  /\ failures \in 0..MaxFailures /\ requests \in 0..MaxRequests /\ rejoined \in BOOLEAN

TypeOK ==
  /\ Types
  /\ \A c \in TwilioCalls : Cardinality(RowOf(c)) <= 1    \* twilioCallSid is unique
  /\ \A p \in Importers : run[p].at # "idle" => run[p].started <= now
  /\ mark <= now

(* One form per call, even with two tabs or a leader closing it at once, and none for *)
(* a call that was discarded (submitCallForm, B184).                                  *)
OneFormPerCall ==
  \A i \in Ids : forms[i] <= 1 /\ (forms[i] > 0 => rows[i].done /\ ~rows[i].discarded)

(* One call is one touch: the step a call's form closed keeps that touch, which no discard, *)
(* import or second tab takes off the timeline (B043, B024) - as long as no two runs took   *)
(* one call logged by hand, for then its first Twilio call is stored again, and discarded   *)
(* it takes the touch with it.                                                              *)
ClosedStepKeepsItsTouch == ~rejoined /\ ~step.open => step.touch \in touches

Overlapping == \E p, q \in Importers : p # q /\ run[p].at # "idle" /\ run[q].at # "idle"

(* The call's record says it ended, and its form is asked for or no longer needed. *)
Asked(c) == \E i \in RowOf(c) : rows[i].final /\ (rows[i].due \/ rows[i].done \/ rows[i].discarded)

(* After the call ended a good run begins in time: before it is seven days old, or, once *)
(* the watermark and its overlap are past its beginning, six hours.                       *)
ReadInTime(c) ==
  twilio[c].is = "ended" /\ mark <= twilio[c].till =>
    Age(c) < CatchUp /\ (twilio[c].at < mark - Overlap => Age(c) <= Reread)

(* While no run outlasts its lease, a call that began after the first good run, and that a *)
(* good run can read in time once it has ended, comes to be asked about, through runs that *)
(* failed and processes that died: the watermark, its overlap and the calls read again     *)
(* skip none (import.ts, N049).                                                            *)
FormsAreAsked ==
  \A c \in TwilioCalls :
    [](~Overlapping /\ ReadInTime(c)) =>
      ((twilio[c].is = "ended" /\ formsFrom <= twilio[c].at) ~> Asked(c))

(* A discarded call counts nowhere: it has no touch on the timeline (discardCall, B024). *)
DiscardedCountsNowhere ==
  \A i \in Ids : rows[i].discarded => rows[i].touch = None

==============================================================================
