----------------------------- MODULE CallsProofs -----------------------------
(***************************************************************************)
(* Proofs about Calls: its types (one row for a Twilio call among them),   *)
(* that a call gets one form and a discarded one none, and that the step a *)
(* form closed keeps its touch.                                            *)
(***************************************************************************)
EXTENDS Calls, FiniteSetTheorems, WellFoundedInduction, TLAPS

(* The touch x is the one the row i of rs gives its call. *)
Own(rs, x, i) == \/ x = <<"call", i>>
                 \/ \E c \in TwilioCalls : x = <<"twilio", c>> /\ rs[i].sid = c
OnTask    == <<"task", 0>>

Active(t)    == tab[t].op # "none"
Submitted(t) == tab[t].op = "submit" /\ tab[t].at \in {"touch", "step"}

(* Rows: a Twilio call has one, those not stored yet are blank, and calls  *)
(* logged by hand leave room for Twilio's.                                 *)
SidsUnique   == \A i, j \in Ids : rows[i].sid # None /\ rows[i].sid = rows[j].sid => i = j
BlankRows    == \A i \in Ids : i \notin Stored => rows[i] = NoRow /\ forms[i] = 0
Hands        == {i \in Ids : rows[i].hand}
HandsBounded == Cardinality(Hands) <= MaxByHand

(* What a run and a request are about. *)
RunFits(p) ==
  /\ run[p].at = "store" => run[p].leg \in Leg
  /\ run[p].at = "file" => run[p].id # 0
  /\ run[p].id # 0 => run[p].id \in Stored /\ run[p].leg \in Leg
  /\ run[p].hand # 0 => rows[run[p].hand].hand
  /\ run[p].at # "idle" => run[p].started <= now
TabFits(t) ==
  /\ Active(t) => tab[t].id \in Stored
  /\ ~ Active(t) => tab[t] = NoTab
  /\ tab[t].op = "log" => tab[t].at = "touch"
  /\ tab[t].op \in {"close", "discard"} => tab[t].at = "read"
  /\ tab[t].closes => tab[t].op = "submit"
  /\ Submitted(t) => /\ rows[tab[t].id].done /\ ~ rows[tab[t].id].discarded
                     /\ tab[t].closes => rows[tab[t].id].step
  /\ tab[t].at = "step" => tab[t].touch # None

(* Whose the touches are, while no call logged by hand was taken twice.    *)
RowTouches(i) ==
  rows[i].touch # None => /\ rows[i].touch \in touches
                          /\ Own(rows, rows[i].touch, i) \/ (rows[i].done /\ rows[i].touch = OnTask)
TabTouches(t) ==
  Active(t) => /\ tab[t].sid # None => rows[tab[t].id].sid = tab[t].sid
               /\ tab[t].touch # None => Own(rows, tab[t].touch, tab[t].id)
               /\ tab[t].touch # None /\ tab[t].op = "submit" =>
                    tab[t].touch \in touches \/ (tab[t].at = "read" /\ rows[tab[t].id].discarded)
RunTouches(p) ==
  /\ run[p].id # 0 => rows[run[p].id].sid = run[p].leg.sid
  /\ run[p].filed => ~ step.open /\ step.touch = OnTask
StepTouches ==
  ~ step.open => /\ step.touch \in touches
                 /\ \/ step.touch = OnTask
                    \/ \E i \in Ids : rows[i].done /\ rows[i].step /\ Own(rows, step.touch, i)
TouchesFit ==
  /\ \A i \in Ids : RowTouches(i)
  /\ \A t \in Tabs : TabTouches(t)
  /\ \A p \in Importers : RunTouches(p)
  /\ StepTouches

RowsFit == OneFormPerCall /\ SidsUnique /\ BlankRows /\ HandsBounded
JobsFit == (\A p \in Importers : RunFits(p)) /\ (\A t \in Tabs : TabFits(t))
CInv == Types /\ mark <= now /\ RowsFit /\ JobsFit /\ (~ rejoined => TouchesFit)

(* What no step takes from a row. *)
RowsGrow ==
  \A i \in Ids :
    /\ rows[i].hand => rows'[i].hand
    /\ rows[i].sid # None => rows'[i].sid # None /\ (~ rejoined' => rows'[i].sid = rows[i].sid)
    /\ rows[i].done => rows'[i].done /\ (rows[i].step => rows'[i].step)
    /\ rows[i].discarded => rows'[i].discarded
    /\ rows[i].done /\ ~ rows[i].discarded => ~ rows'[i].discarded

(* A touch goes only with a discarded call that had no form.               *)
TouchesKeep ==
  \A x \in touches :
    \/ x \in touches'
    \/ \E i \in Ids : Own(rows, x, i) /\ rows'[i].discarded /\ ~ rows[i].discarded /\ ~ rows[i].done

(* A closed step stays as it is. *)
StepKeeps == ~ step.open => step' = step

(* What every step does, seen from the runs and requests it is not of.     *)
Keeps == /\ RowsGrow /\ StepKeeps
         /\ now \in Ticks /\ now' \in Ticks /\ now <= now'
         /\ rejoined => rejoined'
         /\ ~ rejoined' => TouchesKeep

-----------------------------------------------------------------------------
LEMMA Basics ==
  /\ Cardinality(TwilioCalls) \in Nat /\ Ids \subseteq Nat \ {0} /\ 0 \notin Ids
  /\ OnTask \in Touches /\ None \notin Touches /\ None \notin TwilioCalls /\ None \notin Importers
  /\ \A i \in Ids : <<"call", i>> \in Touches
  /\ \A c \in TwilioCalls : <<"twilio", c>> \in Touches
  /\ Ticks \subseteq Nat /\ Never \in Nat /\ Ticks \subseteq 0..Never
BY FS_CardinalityType, CallsAssumption DEF Ids, Touches, Ticks, Never, OnTask

(* A set of numbers has a least element, and a bounded one a greatest.     *)
LEMMA LeastOf ==
  ASSUME NEW T, T \subseteq Nat, T # {}
  PROVE  \E x \in T : \A y \in T : x <= y
<1> DEFINE R == {ss \in Nat \X Nat : ss[1] < ss[2]}
<1>1. IsWellFoundedOn(R, Nat)
  BY NatLessThanWellFounded DEF OpToRel
<1>2. \A x, y \in Nat : y < x => <<y, x>> \in R
  OBVIOUS
<1> HIDE DEF R
<1>3. PICK x \in T : \A y \in T : <<y, x>> \notin R
  BY <1>1, WFMin
<1>4. ASSUME NEW y \in T PROVE x <= y
  <2>1. x \in Nat /\ y \in Nat /\ <<y, x>> \notin R
    BY <1>3
  <2>2. ~ (y < x)
    BY <1>2, <2>1
  <2> QED BY <2>1, <2>2
<1> QED BY <1>4

LEMMA GreatestOf ==
  ASSUME NEW b \in Nat, NEW T, T \subseteq 0..b, T # {}
  PROVE  \E x \in T : \A y \in T : y <= x
<1> DEFINE U == {b - x : x \in T}
<1>1. U \subseteq Nat /\ U # {}
  <2>1. ASSUME NEW x \in T PROVE b - x \in Nat
    OBVIOUS
  <2>2. PICK x \in T : TRUE
    OBVIOUS
  <2>3. b - x \in U
    OBVIOUS
  <2> QED BY <2>1, <2>3
<1>2. PICK u \in U : \A v \in U : u <= v
  BY <1>1, LeastOf
<1>3. PICK x \in T : u = b - x
  BY <1>2
<1>4. ASSUME NEW y \in T PROVE y <= x
  <2>1. b - x <= b - y
    BY <1>2, <1>3
  <2> QED BY <2>1
<1> QED BY <1>4

(* The call a run finds logged by hand was; the next row is a free one.    *)
LEMMA HandIsOne ==
  LoggedByHand \in Ids \cup {0} /\ (LoggedByHand # 0 => rows[LoggedByHand].hand)
<1> DEFINE hands == {i \in Ids : rows[i].hand /\ rows[i].sid = None /\ ~ rows[i].discarded}
<1>1. CASE hands = {}
  BY <1>1, Basics DEF LoggedByHand
<1>2. CASE hands # {}
  <2>1. Cardinality(TwilioCalls) + MaxByHand \in Nat /\ hands \subseteq 0..(Cardinality(TwilioCalls) + MaxByHand)
    BY Basics, CallsAssumption DEF Ids
  <2> HIDE DEF hands
  <2>2. \E i \in hands : \A j \in hands : j <= i
    BY <1>2, <2>1, GreatestOf
  <2>3. LoggedByHand \in hands
    <3>1. LoggedByHand = CHOOSE i \in hands : \A j \in hands : j <= i
      BY <1>2 DEF LoggedByHand, hands
    <3> QED BY <2>2, <3>1
  <2> QED BY <2>3 DEF hands
<1> QED BY <1>1, <1>2

LEMMA NextIsFree ==
  ASSUME Ids \ Stored # {}
  PROVE  NextId \in Ids /\ NextId \notin Stored
<1> DEFINE free == Ids \ Stored
<1>1. free \subseteq Nat /\ free # {}
  BY Basics
<1>2. \E i \in free : \A j \in free : i <= j
  BY <1>1, LeastOf
<1>3. NextId \in free
  BY <1>2 DEF NextId
<1> QED BY <1>3

LEMMA HandsFinite ==
  /\ IsFiniteSet(Ids) /\ Cardinality(Ids) = Cardinality(TwilioCalls) + MaxByHand
  /\ IsFiniteSet(Hands) /\ Cardinality(Hands) \in Nat
<1> DEFINE n == Cardinality(TwilioCalls) + MaxByHand
<1>1. n \in Nat /\ Ids = 1..n
  BY Basics, CallsAssumption DEF Ids
<1> HIDE DEF n
<1>2. IsFiniteSet(1..n) /\ Cardinality(1..n) = n
  BY <1>1, FS_Interval
<1>3. IsFiniteSet(Ids) /\ Cardinality(Ids) = n
  BY <1>1, <1>2
<1>4. Hands \in SUBSET Ids
  BY DEF Hands
<1>5. IsFiniteSet(Hands) /\ Cardinality(Hands) \in Nat
  BY <1>3, <1>4, FS_Subset, FS_CardinalityType
<1> QED BY <1>3, <1>5 DEF n

(* A row is free while the hand-logged calls and the Twilio calls stored   *)
(* are fewer than the rows there are.                                      *)
LEMMA RoomLeft ==
  ASSUME CInv, NEW S \in SUBSET TwilioCalls, \A i \in Ids : rows[i].sid \in S \cup {None},
         Cardinality(Hands) + Cardinality(S) < Cardinality(TwilioCalls) + MaxByHand
  PROVE  Ids \ Stored # {}
<1> SUFFICES ASSUME Ids \subseteq Stored PROVE FALSE
  OBVIOUS
<1> DEFINE N == Cardinality(TwilioCalls)
           others == Ids \ Hands
           f == [i \in others |-> rows[i].sid]
<1>1. N \in Nat /\ MaxByHand \in Nat
  BY Basics, CallsAssumption
<1>2. IsFiniteSet(Ids) /\ Cardinality(Ids) = N + MaxByHand
  BY HandsFinite
<1>3. IsFiniteSet(S) /\ Cardinality(S) \in Nat
  BY CallsAssumption, FS_Subset, FS_CardinalityType
<1>4. Ids \cap Hands = Hands /\ IsFiniteSet(Hands) /\ Cardinality(Hands) \in Nat
  BY HandsFinite DEF Hands
<1>5. IsFiniteSet(others) /\ Cardinality(others) = N + MaxByHand - Cardinality(Hands)
  <2>1. IsFiniteSet(Ids \ Hands) /\ Cardinality(Ids \ Hands) = Cardinality(Ids) - Cardinality(Ids \cap Hands)
    BY <1>2, FS_Difference
  <2>2. Cardinality(Ids \cap Hands) = Cardinality(Hands)
    BY <1>4
  <2>3. Cardinality(Ids \ Hands) = N + MaxByHand - Cardinality(Hands)
    <3> HIDE DEF N
    <3> QED BY <1>1, <1>2, <1>4, <2>1, <2>2
  <2> QED BY <2>1, <2>3
<1>6. f \in Injection(others, S)
  <2>1. \A i \in others : rows[i].sid # None /\ rows[i].sid \in S
    BY DEF Hands, Stored
  <2>2. \A i, j \in others : rows[i].sid = rows[j].sid => i = j
    BY <2>1 DEF CInv, RowsFit, SidsUnique
  <2>3. f \in [others -> S]
    BY <2>1
  <2>4. \A i, j \in others : f[i] = f[j] => i = j
    BY <2>2
  <2> QED BY <2>3, <2>4 DEF Injection, IsInjective
<1> HIDE DEF f, others, N
<1>7. Cardinality(others) <= Cardinality(S)
  BY <1>3, <1>6, FS_Injection
<1> QED BY <1>1, <1>3, <1>4, <1>5, <1>7 DEF N

LEMMA OwnIsOne ==
  ASSUME SidsUnique, NEW x, NEW i \in Ids, NEW j \in Ids, Own(rows, x, i), Own(rows, x, j)
  PROVE  i = j
BY Basics DEF Own, SidsUnique

LEMMA TaskIsNobodys ==
  ASSUME NEW i
  PROVE  ~ Own(rows, OnTask, i)
BY DEF Own, OnTask

LEMMA OwnTyped ==
  ASSUME NEW i \in Ids, NEW x, Own(rows, x, i)
  PROVE  x \in Touches /\ x # None
BY Basics DEF Own

LEMMA OwnKeeps ==
  ASSUME RowsGrow, ~ rejoined', NEW i \in Ids, NEW x, Own(rows, x, i)
  PROVE  Own(rows', x, i)
BY Basics DEF Own, RowsGrow

LEMMA StoredKeeps ==
  ASSUME RowsGrow
  PROVE  Stored \subseteq Stored'
BY DEF Stored, RowsGrow

(* The runs and requests a step is not of still fit. *)
LEMMA OthersFit ==
  ASSUME CInv, Keeps
  PROVE  /\ \A p \in Importers : run'[p] = run[p] => RunFits(p)'
         /\ \A t \in Tabs : tab'[t] = tab[t] => TabFits(t)'
<1>1. Types /\ RowsGrow
  BY DEF CInv, Keeps
<1>2. ASSUME NEW p \in Importers, run'[p] = run[p] PROVE RunFits(p)'
  <2>1. run[p] \in Run /\ RunFits(p)
    BY <1>1 DEF Types, CInv, JobsFit
  <2>2. run[p].hand \in Ids \cup {0} /\ run[p].started \in Nat
    BY <2>1, Basics DEF Run
  <2>3. run[p].hand # 0 => rows'[run[p].hand].hand
    BY <1>1, <2>1, <2>2 DEF RowsGrow, RunFits
  <2>4. run[p].at # "idle" => run[p].started <= now'
    BY <2>1, <2>2, Basics DEF RunFits, Keeps
  <2> QED BY <1>1, <1>2, <2>1, <2>3, <2>4, StoredKeeps DEF RunFits
<1>3. ASSUME NEW t \in Tabs, tab'[t] = tab[t] PROVE TabFits(t)'
  <2>1. tab[t] \in Tab /\ TabFits(t)
    BY <1>1 DEF Types, CInv, JobsFit
  <2>2. Active(t) => tab[t].id \in Ids
    BY <2>1 DEF TabFits, Stored
  <2>3. Submitted(t) => /\ rows'[tab[t].id].done /\ ~ rows'[tab[t].id].discarded
                        /\ tab[t].closes => rows'[tab[t].id].step
    BY <1>1, <2>1, <2>2 DEF RowsGrow, TabFits, Submitted, Active
  <2> QED BY <1>1, <1>3, <2>1, <2>3, StoredKeeps DEF TabFits, Active, Submitted
<1> QED BY <1>2, <1>3

LEMMA OthersTouches ==
  ASSUME CInv, Keeps, ~ rejoined'
  PROVE  /\ \A i \in Ids : rows'[i] = rows[i] => RowTouches(i)'
         /\ \A p \in Importers : run'[p] = run[p] => RunTouches(p)'
         /\ \A t \in Tabs : tab'[t] = tab[t] => TabTouches(t)'
         /\ step' = step => StepTouches'
<1>1. Types /\ SidsUnique /\ RowsGrow /\ TouchesKeep /\ StepKeeps /\ TouchesFit
  BY DEF CInv, Keeps, RowsFit
<1>2. ASSUME NEW i \in Ids, rows'[i] = rows[i] PROVE RowTouches(i)'
  <2> SUFFICES ASSUME rows[i].touch # None
               PROVE  /\ rows[i].touch \in touches'
                      /\ Own(rows', rows[i].touch, i) \/ (rows'[i].done /\ rows[i].touch = OnTask)
    BY <1>2 DEF RowTouches
  <2>1. /\ rows[i].touch \in touches
        /\ Own(rows, rows[i].touch, i) \/ (rows[i].done /\ rows[i].touch = OnTask)
    BY <1>1 DEF TouchesFit, RowTouches
  <2>2. rows[i].touch \in touches'
    <3>1. rows[i].touch = OnTask => rows[i].touch \in touches'
      BY <1>1, <2>1, TaskIsNobodys DEF TouchesKeep
    <3>2. Own(rows, rows[i].touch, i) => rows[i].touch \in touches'
      BY <1>1, <1>2, <2>1, OwnIsOne DEF TouchesKeep
    <3> QED BY <2>1, <3>1, <3>2
  <2> QED BY <1>1, <1>2, <2>1, <2>2, OwnKeeps DEF RowsGrow
<1>3. ASSUME NEW p \in Importers, run'[p] = run[p] PROVE RunTouches(p)'
  <2>1. run[p] \in Run /\ RunFits(p) /\ RunTouches(p)
    BY <1>1 DEF Types, CInv, JobsFit, TouchesFit
  <2>2. run[p].id # 0 => run[p].id \in Ids /\ run[p].leg.sid # None
    BY <2>1, Basics DEF Run, RunFits, Leg
  <2>3. run[p].id # 0 => rows'[run[p].id].sid = run[p].leg.sid
    BY <1>1, <2>1, <2>2 DEF RunTouches, RowsGrow
  <2>4. run[p].filed => step' = step
    BY <1>1, <2>1 DEF RunTouches, StepKeeps
  <2> QED BY <1>3, <2>1, <2>3, <2>4 DEF RunTouches
<1>4. ASSUME NEW t \in Tabs, tab'[t] = tab[t] PROVE TabTouches(t)'
  <2> SUFFICES ASSUME Active(t) PROVE TabTouches(t)'
    BY <1>4 DEF TabTouches, Active
  <2>1. tab[t] \in Tab /\ TabFits(t) /\ TabTouches(t)
    BY <1>1 DEF Types, CInv, JobsFit, TouchesFit
  <2> DEFINE i == tab[t].id
             x == tab[t].touch
  <2>2. i \in Ids
    BY <2>1 DEF TabFits, Stored
  <2>3. tab[t].sid # None => rows'[i].sid = tab[t].sid
    BY <1>1, <2>1, <2>2 DEF TabTouches, RowsGrow
  <2>4. x # None => Own(rows', x, i)
    BY <1>1, <2>1, <2>2, OwnKeeps DEF TabTouches
  <2>5. x # None /\ tab[t].op = "submit" => x \in touches' \/ (tab[t].at = "read" /\ rows'[i].discarded)
    <3> SUFFICES ASSUME x # None, tab[t].op = "submit"
                 PROVE  x \in touches' \/ (tab[t].at = "read" /\ rows'[i].discarded)
      OBVIOUS
    <3>1. Own(rows, x, i) /\ (x \in touches \/ (tab[t].at = "read" /\ rows[i].discarded))
      BY <2>1 DEF TabTouches
    <3>2. x \in touches => x \in touches' \/ (rows'[i].discarded /\ ~ rows[i].done)
      BY <1>1, <2>2, <3>1, OwnIsOne DEF TouchesKeep
    <3>3. Submitted(t) => rows[i].done
      BY <2>1 DEF TabFits
    <3>4. Submitted(t) \/ tab[t].at = "read"
      BY <2>1 DEF Submitted, Tab
    <3>5. rows[i].discarded => rows'[i].discarded
      BY <1>1, <2>2 DEF RowsGrow
    <3> QED BY <3>1, <3>2, <3>3, <3>4, <3>5
  <2> QED BY <1>4, <2>3, <2>4, <2>5 DEF TabTouches
<1>5. ASSUME step' = step PROVE StepTouches'
  <2> SUFFICES ASSUME ~ step.open PROVE StepTouches'
    BY <1>5 DEF StepTouches
  <2>1. step.touch \in touches
    BY <1>1 DEF TouchesFit, StepTouches
  <2>2. CASE step.touch = OnTask
    BY <1>1, <1>5, <2>1, <2>2, TaskIsNobodys DEF TouchesKeep, StepTouches
  <2>3. ASSUME NEW i \in Ids, rows[i].done, rows[i].step, Own(rows, step.touch, i) PROVE StepTouches'
    <3>1. step.touch \in touches'
      BY <1>1, <2>1, <2>3, OwnIsOne DEF TouchesKeep
    <3>2. rows'[i].done /\ rows'[i].step /\ Own(rows', step.touch, i)
      BY <1>1, <2>3, OwnKeeps DEF RowsGrow
    <3> QED BY <1>5, <3>1, <3>2 DEF StepTouches
  <2> QED BY <1>1, <2>2, <2>3 DEF TouchesFit, StepTouches
<1> QED BY <1>2, <1>3, <1>4, <1>5

-----------------------------------------------------------------------------
(* What is left to show of a step: what it wrote, and whose step it is.    *)

Fits(p, t) ==
  /\ \A q \in Importers : q # p => run'[q] = run[q]
  /\ \A u \in Tabs : u # t => tab'[u] = tab[u]
  /\ p \in Importers => RunFits(p)' /\ (~ rejoined' => RunTouches(p)')
  /\ t \in Tabs => TabFits(t)' /\ (~ rejoined' => TabTouches(t)')

LEMMA StepHolds ==
  ASSUME CInv, Keeps, Types', mark' <= now', RowsFit', NEW p, NEW t, Fits(p, t),
         ~ rejoined' => \A i \in Ids : rows'[i] = rows[i] \/ RowTouches(i)',
         ~ rejoined' => step' = step \/ StepTouches'
  PROVE  CInv'
<1>1. JobsFit'
  BY OthersFit DEF Fits, JobsFit
<1>2. ~ rejoined' => TouchesFit'
  BY OthersTouches DEF Fits, TouchesFit
<1> QED BY <1>1, <1>2 DEF CInv

(* Nothing is written. *)
LEMMA QuietHolds ==
  ASSUME CInv, UNCHANGED <<rows, forms, step, touches, rejoined>>, now' \in Ticks, now <= now',
         Types', mark' <= now', NEW p, NEW t, Fits(p, t)
  PROVE  CInv'
<1>1. Keeps
  BY DEF Keeps, RowsGrow, StepKeeps, TouchesKeep, CInv, Types
<1>2. RowsFit'
  BY DEF CInv, RowsFit, OneFormPerCall, SidsUnique, BlankRows, HandsBounded, Hands, Stored
<1> QED BY <1>1, <1>2, StepHolds

(* A row that is stored is written. *)
Revises(i, r) ==
  /\ r.sid = rows[i].sid /\ r.hand = rows[i].hand
  /\ rows[i].done => r.done /\ (rows[i].step => r.step)
  /\ rows[i].discarded => r.discarded
  /\ rows[i].done /\ ~ rows[i].discarded => ~ r.discarded

LEMMA RowRevised ==
  ASSUME CInv, NEW i \in Stored, NEW r \in Row, Revises(i, r), rows' = [rows EXCEPT ![i] = r],
         forms' \in [Ids -> Nat], \A j \in Ids : j # i => forms'[j] = forms[j],
         forms'[i] <= 1, forms'[i] > 0 => r.done /\ ~ r.discarded
  PROVE  rows' \in [Ids -> Row] /\ rows'[i] = r /\ (\A j \in Ids : j # i => rows'[j] = rows[j])
         /\ RowsFit' /\ RowsGrow
<1>1. rows \in [Ids -> Row] /\ i \in Ids /\ RowsFit
  BY DEF CInv, Types, Stored
<1>2. rows' \in [Ids -> Row] /\ rows'[i] = r /\ (\A j \in Ids : j # i => rows'[j] = rows[j])
  BY <1>1
<1>3. \A j \in Ids : rows'[j].sid = rows[j].sid /\ rows'[j].hand = rows[j].hand
  BY <1>2 DEF Revises
<1>4. Stored' = Stored /\ Hands' = Hands
  BY <1>3 DEF Stored, Hands
<1>5. OneFormPerCall'
  BY <1>1, <1>2 DEF RowsFit, OneFormPerCall
<1>6. SidsUnique' /\ BlankRows' /\ HandsBounded'
  BY <1>1, <1>2, <1>3, <1>4 DEF RowsFit, SidsUnique, BlankRows, HandsBounded
<1>7. RowsGrow
  BY <1>1, <1>2, <1>3 DEF RowsGrow, Revises
<1> QED BY <1>2, <1>5, <1>6, <1>7 DEF RowsFit

(* The forms as they were, and the row's done and discarded too. *)
LEMMA RowTouched ==
  ASSUME CInv, NEW i \in Stored, NEW r \in Row, Revises(i, r), rows' = [rows EXCEPT ![i] = r],
         r.discarded => rows[i].discarded \/ ~ rows[i].done, UNCHANGED forms
  PROVE  rows' \in [Ids -> Row] /\ rows'[i] = r /\ (\A j \in Ids : j # i => rows'[j] = rows[j])
         /\ RowsFit' /\ RowsGrow
<1>1. i \in Ids /\ forms \in [Ids -> Nat] /\ rows \in [Ids -> Row]
  BY DEF CInv, Types, Stored
<1>2. forms[i] <= 1 /\ (forms[i] > 0 => rows[i].done /\ ~ rows[i].discarded)
  BY <1>1 DEF CInv, RowsFit, OneFormPerCall
<1> QED BY <1>1, <1>2, RowRevised DEF Revises

-----------------------------------------------------------------------------
(* Time, Twilio, and steps that only read. *)

LEMMA TypesOf ==
  CInv => /\ rows \in [Ids -> Row] /\ run \in [Importers -> Run] /\ tab \in [Tabs -> Tab]
          /\ now \in Ticks /\ touches \subseteq Touches /\ forms \in [Ids -> Nat]
          /\ step \in [open : BOOLEAN, touch : Touches \cup {None}] /\ rejoined \in BOOLEAN
          /\ (\A p \in Importers : RunFits(p)) /\ (\A t \in Tabs : TabFits(t))
BY DEF CInv, Types, JobsFit

(* Of nobody's run and request. *)
LEMMA NobodysFit ==
  ASSUME UNCHANGED <<run, tab>>
  PROVE  \E p, t : Fits(p, t)
<1> DEFINE p == CHOOSE p : p \notin Importers
           t == CHOOSE t : t \notin Tabs
<1>1. p \notin Importers /\ t \notin Tabs
  BY NoSetContainsEverything
<1> HIDE DEF p, t
<1>2. Fits(p, t)
  BY <1>1 DEF Fits
<1> QED BY <1>2

LEMMA TickHolds ==
  ASSUME CInv, Tick
  PROVE  CInv'
<1>1. now' \in Ticks /\ now <= now' /\ mark' <= now' /\ UNCHANGED <<rows, forms, step, touches, rejoined>>
  BY CallsAssumption DEF Tick, CInv, Types, Ticks
<1>2. Types'
  BY <1>1 DEF Tick, CInv, Types
<1> QED BY <1>1, <1>2, NobodysFit, QuietHolds DEF Tick

LEMMA RingHolds ==
  ASSUME CInv, NEW c \in TwilioCalls, Ring(c) \/ HangUp(c)
  PROVE  CInv'
<1>1. now' \in Ticks /\ now <= now' /\ mark' <= now' /\ UNCHANGED <<rows, forms, step, touches, rejoined>>
  BY DEF Ring, HangUp, CInv, Types, Ticks
<1>2. twilio' \in [TwilioCalls -> [is : {"none", "ringing", "ended"}, at : Ticks, till : Ticks]]
  <2> DEFINE rung  == [twilio[c] EXCEPT !.is = "ringing", !.at = now]
             ended == [twilio[c] EXCEPT !.is = "ended", !.till = now]
  <2>1. now \in Ticks /\ twilio \in [TwilioCalls -> [is : {"none", "ringing", "ended"}, at : Ticks, till : Ticks]]
    BY DEF CInv, Types
  <2>2. /\ rung \in [is : {"none", "ringing", "ended"}, at : Ticks, till : Ticks]
        /\ ended \in [is : {"none", "ringing", "ended"}, at : Ticks, till : Ticks]
    BY <2>1
  <2>3. twilio' = [twilio EXCEPT ![c] = rung] \/ twilio' = [twilio EXCEPT ![c] = ended]
    BY <2>1 DEF Ring, HangUp
  <2> HIDE DEF rung, ended
  <2> QED BY <2>1, <2>2, <2>3
<1>3. Types'
  BY <1>1, <1>2 DEF Ring, HangUp, CInv, Types
<1> QED BY <1>1, <1>3, NobodysFit, QuietHolds DEF Ring, HangUp

(* A step of one run, or of one request, that writes no row. *)
LEMMA RunQuietly ==
  ASSUME CInv, NEW p \in Importers, NEW r \in Run, run' = [run EXCEPT ![p] = r],
         UNCHANGED <<now, twilio, rows, forms, step, touches, tab, requests, rejoined>>,
         lease' \in [by : Importers \cup {None}, until : 0..(LastTick + Lease)], failures' \in 0..MaxFailures,
         mark' \in Ticks, mark' <= now, formsFrom' \in 0..Never,
         RunFits(p)', ~ rejoined' => RunTouches(p)'
  PROVE  CInv'
<1>1. Types' /\ now' \in Ticks /\ now <= now'
  BY DEF CInv, Types, Ticks
<1>2. \E t : Fits(p, t)
  <2> DEFINE t == CHOOSE t : t \notin Tabs
  <2>1. t \notin Tabs
    BY NoSetContainsEverything
  <2> HIDE DEF t
  <2>2. Fits(p, t)
    BY <2>1, TypesOf DEF Fits
  <2> QED BY <2>2
<1> QED BY <1>1, <1>2, QuietHolds

LEMMA TabQuietly ==
  ASSUME CInv, NEW t \in Tabs, NEW b \in Tab, tab' = [tab EXCEPT ![t] = b],
         UNCHANGED <<now, twilio, rows, forms, step, touches, lease, mark, formsFrom, run, failures, rejoined>>,
         requests' \in 0..MaxRequests, TabFits(t)', ~ rejoined' => TabTouches(t)'
  PROVE  CInv'
<1>1. Types' /\ now' \in Ticks /\ now <= now' /\ mark' <= now'
  BY DEF CInv, Types, Ticks
<1>2. \E p : Fits(p, t)
  <2> DEFINE p == CHOOSE p : p \notin Importers
  <2>1. p \notin Importers
    BY NoSetContainsEverything
  <2> HIDE DEF p
  <2>2. Fits(p, t)
    BY <2>1, TypesOf DEF Fits
  <2> QED BY <2>2
<1> QED BY <1>1, <1>2, QuietHolds

LEMMA NoRunFits ==
  ASSUME CInv, NEW p \in Importers, run' = [run EXCEPT ![p] = NoRun]
  PROVE  NoRun \in Run /\ RunFits(p)' /\ RunTouches(p)'
<1>1. NoRun \in Run
  BY Basics, CallsAssumption DEF NoRun, Run, AsSeen, NoRow, Seen, Ticks
<1>2. run'[p] = NoRun
  BY TypesOf
<1> QED BY <1>1, <1>2 DEF NoRun, RunFits, RunTouches

LEMMA NoTabFits ==
  ASSUME CInv, NEW t \in Tabs, tab' = [tab EXCEPT ![t] = NoTab]
  PROVE  NoTab \in Tab /\ TabFits(t)' /\ TabTouches(t)'
<1>1. NoTab \in Tab
  BY Basics DEF NoTab, Tab
<1>2. tab'[t] = NoTab
  BY TypesOf
<1> QED BY <1>1, <1>2 DEF NoTab, TabFits, TabTouches, Active, Submitted

LEMMA LeaseTyped ==
  ASSUME CInv, NEW p \in Importers, DropLease(p)
  PROVE  lease' \in [by : Importers \cup {None}, until : 0..(LastTick + Lease)]
BY Basics, CallsAssumption DEF DropLease, CInv, Types

LEMMA StartRunHolds ==
  ASSUME CInv, NEW p \in Importers, StartRun(p)
  PROVE  CInv'
<1> DEFINE r == [NoRun EXCEPT !.at = "list", !.started = now,
                   !.formsFrom = IF formsFrom = Never THEN now ELSE formsFrom,
                   !.legs = {[sid |-> c, final |-> twilio[c].is = "ended"] : c \in Listed}]
<1>1. now \in Ticks /\ now + Lease \in 0..(LastTick + Lease) /\ now <= now
      /\ (IF formsFrom = Never THEN now ELSE formsFrom) \in Ticks
  BY CallsAssumption DEF CInv, Types, Ticks, Never
<1>2. {[sid |-> c, final |-> twilio[c].is = "ended"] : c \in Listed} \in SUBSET Leg
  <2>1. ASSUME NEW c \in Listed PROVE [sid |-> c, final |-> twilio[c].is = "ended"] \in Leg
    BY DEF Listed, Leg
  <2> QED BY <2>1
<1>3. /\ r \in Run /\ r.at = "list" /\ r.id = 0 /\ r.hand = 0 /\ r.started = now /\ ~ r.filed
  BY <1>1, <1>2, Basics DEF NoRun, Run, AsSeen, NoRow, Seen
<1>4. run' = [run EXCEPT ![p] = r]
  BY DEF StartRun
<1> HIDE DEF r
<1>5. run'[p] = r
  BY <1>4, TypesOf
<1>6. RunFits(p)' /\ RunTouches(p)'
  BY <1>1, <1>3, <1>5 DEF RunFits, RunTouches, StartRun
<1>7. lease' \in [by : Importers \cup {None}, until : 0..(LastTick + Lease)]
  BY <1>1 DEF StartRun
<1> QED BY <1>3, <1>4, <1>6, <1>7, RunQuietly DEF StartRun, CInv, Types

LEMMA ReadLegHolds ==
  ASSUME CInv, NEW p \in Importers, ReadLeg(p)
  PROVE  CInv'
<1>1. PICK leg \in run[p].legs : LET known == RowOf(leg.sid)
                                     id    == IF known = {} THEN 0 ELSE CHOOSE i \in known : TRUE IN
        run' = [run EXCEPT ![p] = [@ EXCEPT
         !.at = "store", !.leg = leg, !.id = id,
         !.call = AsSeen(IF id = 0 THEN NoRow ELSE rows[id]),
         !.hand = IF id = 0 THEN LoggedByHand ELSE 0,
         !.filed = id = 0 /\ LoggedByHand = 0 /\ leg.final /\ LoggedOnStep]]
  BY DEF ReadLeg
<1>2. /\ run[p].at = "list"
      /\ UNCHANGED <<now, twilio, rows, forms, step, touches, lease, mark, formsFrom, tab, failures, requests, rejoined>>
  BY DEF ReadLeg
<1>3. run[p] \in Run /\ RunFits(p)
  BY TypesOf
<1>4. leg \in Leg /\ leg.sid \in TwilioCalls /\ leg.final \in BOOLEAN
  BY <1>3 DEF Run, Leg
<1> DEFINE known == RowOf(leg.sid)
           id    == IF known = {} THEN 0 ELSE CHOOSE i \in known : TRUE
           call  == AsSeen(IF id = 0 THEN NoRow ELSE rows[id])
           hand  == IF id = 0 THEN LoggedByHand ELSE 0
           filed == id = 0 /\ LoggedByHand = 0 /\ leg.final /\ LoggedOnStep
           r     == [run[p] EXCEPT !.at = "store", !.leg = leg, !.id = id, !.call = call,
                                   !.hand = hand, !.filed = filed]
<1>5. run' = [run EXCEPT ![p] = r]
  BY <1>1
<1>6. id \in Ids \cup {0} /\ (id # 0 => id \in Stored /\ rows[id].sid = leg.sid)
  BY <1>4, Basics DEF RowOf, Stored
<1>7. LoggedByHand \in Ids \cup {0} /\ (LoggedByHand # 0 => rows[LoggedByHand].hand)
  BY HandIsOne
<1> HIDE DEF known, id
<1>8. call \in Seen
  <2>1. NoRow \in Row
    BY Basics DEF NoRow, Row
  <2>2. (IF id = 0 THEN NoRow ELSE rows[id]) \in Row
    BY <1>6, <2>1, TypesOf
  <2> QED BY <2>2 DEF AsSeen, Seen, Row
<1>9. hand \in Ids \cup {0} /\ (hand # 0 => rows[hand].hand)
  BY <1>7
<1>10. filed \in BOOLEAN /\ (filed => LoggedOnStep)
  BY <1>4 DEF LoggedOnStep
<1> HIDE DEF call, hand, filed
<1>11. /\ r \in Run /\ r.at = "store" /\ r.id = id /\ r.hand = hand /\ r.started = run[p].started
       /\ r.leg = leg /\ r.filed = filed
  BY <1>3, <1>4, <1>6, <1>8, <1>9, <1>10 DEF Run
<1> HIDE DEF r
<1>12. run'[p] = r
  BY <1>5, TypesOf
<1>13. RunFits(p)'
  BY <1>2, <1>3, <1>4, <1>6, <1>9, <1>11, <1>12 DEF RunFits, Stored
<1>14. ASSUME ~ rejoined', filed PROVE ~ step.open /\ step.touch = OnTask
  BY <1>2, <1>10, <1>14 DEF LoggedOnStep, CInv, TouchesFit, StepTouches
<1>15. ~ rejoined' => RunTouches(p)'
  BY <1>2, <1>6, <1>11, <1>12, <1>14 DEF RunTouches
<1> QED BY <1>2, <1>5, <1>11, <1>13, <1>15, RunQuietly DEF CInv, Types

LEMMA RunEnds ==
  ASSUME CInv, NEW p \in Importers, EndRun(p) \/ FailRun(p) \/ UniqueKey(p) \/ DieRun(p)
  PROVE  CInv'
<1>1. /\ run' = [run EXCEPT ![p] = NoRun]
      /\ UNCHANGED <<now, twilio, rows, forms, step, touches, tab, requests, rejoined>>
  BY DEF EndRun, FailRun, UniqueKey, DieRun
<1>2. lease' \in [by : Importers \cup {None}, until : 0..(LastTick + Lease)]
  BY LeaseTyped DEF EndRun, FailRun, UniqueKey, DieRun, CInv, Types
<1>3. failures' \in 0..MaxFailures
  BY CallsAssumption DEF EndRun, FailRun, UniqueKey, DieRun, CInv, Types
<1>4. run[p] \in Run /\ RunFits(p)
  BY TypesOf
<1>5. mark' \in Ticks /\ mark' <= now
  BY <1>4 DEF EndRun, FailRun, UniqueKey, DieRun, CInv, Types, NewMark, Run, RunFits
<1>6. formsFrom' \in 0..Never
  BY <1>4, Basics DEF EndRun, FailRun, UniqueKey, DieRun, CInv, Types, Run
<1> QED BY <1>1, <1>2, <1>3, <1>5, <1>6, NoRunFits, RunQuietly

LEMMA ReadCallHolds ==
  ASSUME CInv, NEW t \in Tabs, NEW i \in Ids, NEW closes \in BOOLEAN,
         NEW op \in {"submit", "close", "discard"}, ReadCall(t, op, i, closes)
  PROVE  CInv'
<1> DEFINE b == [op |-> op, at |-> "read", id |-> i, sid |-> rows[i].sid, touch |-> rows[i].touch,
                 closes |-> closes]
<1>1. /\ i \in Stored /\ ~ rows[i].done /\ (closes => op = "submit")
      /\ tab' = [tab EXCEPT ![t] = b] /\ requests' \in 0..MaxRequests
      /\ UNCHANGED <<now, twilio, rows, forms, step, touches, lease, mark, formsFrom, run, failures, rejoined>>
  BY CallsAssumption DEF ReadCall, CInv, Types
<1>2. rows[i] \in Row
  BY TypesOf
<1>3. b \in Tab
  BY <1>2 DEF Tab, Row
<1>4. tab'[t] = b
  BY <1>1, TypesOf
<1>5. TabFits(t)'
  BY <1>1, <1>4 DEF TabFits, Active, Submitted, Stored
<1>6. ~ rejoined' => TabTouches(t)'
  BY <1>1, <1>4 DEF TabTouches, Active, CInv, TouchesFit, RowTouches
<1> QED BY <1>1, <1>3, <1>5, <1>6, TabQuietly

LEMMA RefusedHolds ==
  ASSUME CInv, NEW t \in Tabs, Refused(t)
  PROVE  CInv'
BY NoTabFits, TabQuietly DEF Refused, CInv, Types

-----------------------------------------------------------------------------
(* A row not stored before is written. *)
LEMMA RowStored ==
  ASSUME CInv, NEW i \in Ids, i \notin Stored, NEW r \in Row, rows' = [rows EXCEPT ![i] = r],
         UNCHANGED forms, r.sid # None \/ r.hand,
         r.sid # None => RowOf(r.sid) = {}, r.hand => Cardinality(Hands) < MaxByHand
  PROVE  rows' \in [Ids -> Row] /\ rows'[i] = r /\ (\A j \in Ids : j # i => rows'[j] = rows[j])
         /\ RowsFit' /\ RowsGrow
<1>1. rows \in [Ids -> Row] /\ RowsFit /\ rows[i] = NoRow /\ forms[i] = 0
  BY DEF CInv, Types, RowsFit, BlankRows
<1>2. rows' \in [Ids -> Row] /\ rows'[i] = r /\ (\A j \in Ids : j # i => rows'[j] = rows[j])
  BY <1>1
<1>3. OneFormPerCall'
  BY <1>1, <1>2 DEF RowsFit, OneFormPerCall
<1>4. SidsUnique'
  BY <1>1, <1>2 DEF RowsFit, SidsUnique, RowOf
<1>5. BlankRows'
  <2> SUFFICES ASSUME NEW j \in Ids, j \notin Stored' PROVE rows'[j] = NoRow /\ forms'[j] = 0
    BY DEF BlankRows
  <2>1. j # i
    BY <1>2 DEF Stored
  <2>2. j \notin Stored
    BY <1>2, <2>1 DEF Stored
  <2> QED BY <1>1, <1>2, <2>1, <2>2 DEF RowsFit, BlankRows
<1>6. HandsBounded'
  <2>1. CASE r.hand
    <3>1. Hands' = Hands \cup {i}
      BY <1>2, <2>1 DEF Hands
    <3>2. IsFiniteSet(Hands) /\ Cardinality(Hands) \in Nat
      BY HandsFinite
    <3>3. Cardinality(Hands \cup {i}) <= Cardinality(Hands) + 1
      <4>1. Cardinality(Hands \cup {i}) = IF i \in Hands THEN Cardinality(Hands) ELSE Cardinality(Hands) + 1
        BY <3>2, FS_AddElement
      <4> QED BY <3>2, <4>1
    <3>4. IsFiniteSet(Hands \cup {i}) /\ Cardinality(Hands \cup {i}) \in Nat
      BY <3>2, FS_AddElement, FS_CardinalityType
    <3> QED BY <2>1, <3>1, <3>2, <3>3, <3>4, CallsAssumption DEF HandsBounded
  <2>2. CASE ~ r.hand
    <3>1. Hands' = Hands
      BY <1>1, <1>2, <2>2 DEF Hands, NoRow
    <3> QED BY <1>1, <3>1 DEF RowsFit, HandsBounded
  <2> QED BY <2>1, <2>2
<1>7. RowsGrow
  BY <1>1, <1>2 DEF RowsGrow, NoRow
<1> QED BY <1>2, <1>3, <1>4, <1>5, <1>6, <1>7 DEF RowsFit

(* A touch a row had before is still its own. *)
LEMMA RowTouchKeeps ==
  ASSUME CInv, RowsGrow, ~ rejoined, ~ rejoined', NEW i \in Ids,
         rows'[i].touch # None => rows'[i].touch = rows[i].touch /\ rows[i].touch \in touches'
  PROVE  RowTouches(i)'
<1> SUFFICES ASSUME rows'[i].touch # None PROVE RowTouches(i)'
  BY DEF RowTouches
<1>1. rows'[i].touch = rows[i].touch /\ rows[i].touch \in touches'
  OBVIOUS
<1>2. Own(rows, rows[i].touch, i) \/ (rows[i].done /\ rows[i].touch = OnTask)
  BY <1>1 DEF CInv, TouchesFit, RowTouches
<1> QED BY <1>1, <1>2, OwnKeeps DEF RowTouches, RowsGrow

(* A step of one run, or of one request, that writes the row i. *)
LEMMA RunWrites ==
  ASSUME CInv, NEW p \in Importers, NEW r \in Run, run' = [run EXCEPT ![p] = r],
         rows' \in [Ids -> Row], RowsFit', RowsGrow, NEW i \in Ids, \A j \in Ids : j # i => rows'[j] = rows[j],
         UNCHANGED <<now, twilio, forms, step, lease, mark, formsFrom, tab, failures, requests>>,
         touches \subseteq touches', touches' \subseteq Touches, rejoined' \in BOOLEAN, rejoined => rejoined',
         RunFits(p)', ~ rejoined' => RunTouches(p)' /\ RowTouches(i)'
  PROVE  CInv'
<1>1. Types'
  BY DEF CInv, Types
<1>2. Keeps
  BY DEF Keeps, CInv, Types, Ticks, StepKeeps, TouchesKeep
<1>3. mark' <= now'
  BY DEF CInv
<1> DEFINE t == CHOOSE t : t \notin Tabs
<1>4. t \notin Tabs
  BY NoSetContainsEverything
<1> HIDE DEF t
<1>5. Fits(p, t)
  BY <1>4, TypesOf DEF Fits
<1> QED BY <1>1, <1>2, <1>3, <1>5, StepHolds

LEMMA TabWrites ==
  ASSUME CInv, NEW t \in Tabs, NEW b \in Tab, tab' = [tab EXCEPT ![t] = b],
         rows' \in [Ids -> Row], RowsFit', RowsGrow, NEW i \in Ids, \A j \in Ids : j # i => rows'[j] = rows[j],
         UNCHANGED <<now, twilio, step, lease, mark, formsFrom, run, failures, rejoined>>,
         forms' \in [Ids -> Nat], requests' \in 0..MaxRequests,
         touches' \subseteq Touches, ~ rejoined' => TouchesKeep,
         TabFits(t)', ~ rejoined' => TabTouches(t)' /\ RowTouches(i)'
  PROVE  CInv'
<1>1. Types'
  BY DEF CInv, Types
<1>2. Keeps
  BY DEF Keeps, CInv, Types, Ticks, StepKeeps
<1>3. mark' <= now'
  BY DEF CInv
<1> DEFINE p == CHOOSE p : p \notin Importers
<1>4. p \notin Importers
  BY NoSetContainsEverything
<1> HIDE DEF p
<1>5. Fits(p, t)
  BY <1>4, TypesOf DEF Fits
<1> QED BY <1>1, <1>2, <1>3, <1>5, StepHolds

-----------------------------------------------------------------------------
(* The import's writes. *)

LEMMA EndLegIs ==
  ASSUME CInv, NEW p \in Importers, run' = [run EXCEPT ![p] = EndLeg(p)], run[p].at # "idle", now' = now
  PROVE  EndLeg(p) \in Run /\ RunFits(p)' /\ RunTouches(p)'
<1>1. run[p] \in Run /\ RunFits(p)
  BY TypesOf
<1>2. AsSeen(NoRow) \in Seen
  BY Basics DEF AsSeen, NoRow, Seen
<1>3. /\ EndLeg(p) \in Run /\ EndLeg(p).at = "list" /\ EndLeg(p).id = 0 /\ EndLeg(p).hand = 0
      /\ EndLeg(p).started = run[p].started /\ ~ EndLeg(p).filed
  BY <1>1, <1>2 DEF EndLeg, Run
<1>4. run'[p] = EndLeg(p)
  BY TypesOf
<1> QED BY <1>1, <1>3, <1>4 DEF RunFits, RunTouches

(* A run that wrote its row goes on with it. *)
LEMMA WroteFits ==
  ASSUME CInv, NEW p \in Importers, run[p].at = "store", NEW i \in Ids, NEW r \in Row,
         rows' = [rows EXCEPT ![i] = r], r.sid # None \/ r.hand, ~ rejoined => r.sid = run[p].leg.sid,
         now' = now, step' = step,
         NEW w, w = [run[p] EXCEPT !.at = "file", !.id = i, !.call = AsSeen(r), !.hand = 0],
         run' = [run EXCEPT ![p] = w]
  PROVE  w \in Run /\ RunFits(p)' /\ (~ rejoined => RunTouches(p)')
<1>1. run[p] \in Run /\ RunFits(p)
  BY TypesOf
<1>2. AsSeen(r) \in Seen
  BY DEF AsSeen, Seen, Row
<1>3. /\ w \in Run /\ w.at = "file" /\ w.id = i /\ w.hand = 0 /\ w.leg = run[p].leg
      /\ w.started = run[p].started /\ w.filed = run[p].filed
  BY <1>1, <1>2 DEF Run
<1>4. run'[p] = w /\ rows'[i] = r /\ run[p].leg \in Leg
  BY <1>1, TypesOf DEF RunFits
<1>5. i \in Stored'
  BY <1>4 DEF Stored
<1>6. RunFits(p)'
  <2>1. run'[p].started <= now'
    BY <1>1, <1>3, <1>4 DEF RunFits
  <2>2. run'[p].at = "file" /\ run'[p].id = i /\ run'[p].hand = 0 /\ run'[p].leg \in Leg
    BY <1>3, <1>4
  <2>3. i # 0
    BY Basics
  <2> QED BY <1>5, <2>1, <2>2, <2>3 DEF RunFits
<1>7. ~ rejoined => RunTouches(p)'
  BY <1>3, <1>4 DEF RunTouches, CInv, TouchesFit
<1> QED BY <1>3, <1>6, <1>7

LEMMA StoreKnownHolds ==
  ASSUME CInv, NEW p \in Importers, StoreKnown(p)
  PROVE  CInv'
<1> PICK i : i = run[p].id
  OBVIOUS
<1> DEFINE r == [rows[i] EXCEPT !.final = IF run[p].leg.final \/ ~ run[p].call.final THEN run[p].leg.final ELSE @,
                                !.due = @ \/ FormOpens(p)]
           w == [run[p] EXCEPT !.at = "file", !.id = i, !.call = AsSeen(r), !.hand = 0]
<1>1. /\ run[p].at = "store" /\ i # 0 /\ rows' = [rows EXCEPT ![i] = r] /\ run' = [run EXCEPT ![p] = w]
      /\ UNCHANGED <<now, twilio, forms, step, touches, lease, mark, formsFrom, tab, failures, requests, rejoined>>
  BY DEF StoreKnown, Wrote
<1>2. run[p] \in Run /\ RunFits(p)
  BY TypesOf
<1>3. i \in Stored /\ i \in Ids /\ rows[i] \in Row /\ run[p].leg \in Leg
  BY <1>1, <1>2, TypesOf DEF RunFits, Stored
<1>4. FormOpens(p) \in BOOLEAN
  BY DEF FormOpens
<1>5. /\ r \in Row /\ r.sid = rows[i].sid /\ r.hand = rows[i].hand /\ r.touch = rows[i].touch
      /\ r.step = rows[i].step /\ r.done = rows[i].done /\ r.discarded = rows[i].discarded
  <2> DEFINE final == IF run[p].leg.final \/ ~ run[p].call.final THEN run[p].leg.final ELSE rows[i].final
             due == rows[i].due \/ FormOpens(p)
  <2>1. final \in BOOLEAN
    BY <1>3 DEF Leg, Row
  <2>2. due \in BOOLEAN
    BY <1>3, <1>4 DEF Row
  <2>3. r = [rows[i] EXCEPT !.final = final, !.due = due]
    OBVIOUS
  <2> HIDE DEF final, due, r
  <2> QED BY <1>3, <2>1, <2>2, <2>3 DEF Row
<1> HIDE DEF r
<1>6. Revises(i, r)
  BY <1>5 DEF Revises
<1>7. /\ rows' \in [Ids -> Row] /\ rows'[i] = r /\ (\A j \in Ids : j # i => rows'[j] = rows[j])
      /\ RowsFit' /\ RowsGrow
  BY <1>1, <1>3, <1>5, <1>6, RowTouched
<1>8. r.sid # None \/ r.hand
  BY <1>3, <1>5 DEF Stored
<1>9. ~ rejoined => r.sid = run[p].leg.sid
  BY <1>1, <1>5 DEF CInv, TouchesFit, RunTouches
<1>10. w \in Run /\ RunFits(p)' /\ (~ rejoined => RunTouches(p)')
  <2> HIDE DEF w
  <2> QED BY <1>1, <1>3, <1>5, <1>8, <1>9, WroteFits DEF w
<1>11. ~ rejoined' => RowTouches(i)'
  <2> SUFFICES ASSUME ~ rejoined, ~ rejoined' PROVE RowTouches(i)'
    BY <1>1
  <2>1. RowTouches(i)
    BY <1>3 DEF CInv, TouchesFit
  <2>2. rows'[i].touch # None => rows'[i].touch = rows[i].touch /\ rows[i].touch \in touches'
    BY <1>1, <1>5, <1>7, <2>1 DEF RowTouches
  <2>3. i \in Ids /\ RowsGrow
    BY <1>3, <1>7
  <2> QED BY <2>2, <2>3, RowTouchKeeps
<1>12. touches' \subseteq Touches /\ touches \subseteq touches' /\ rejoined' \in BOOLEAN /\ (rejoined => rejoined')
  BY <1>1, TypesOf
<1>13. i \in Ids /\ w \in Run /\ RunFits(p)' /\ (~ rejoined' => RunTouches(p)' /\ RowTouches(i)')
  BY <1>1, <1>3, <1>10, <1>11
<1> HIDE DEF w
<1> QED BY <1>1, <1>7, <1>12, <1>13, RunWrites

LEMMA JoinByHandHolds ==
  ASSUME CInv, NEW p \in Importers, JoinByHand(p)
  PROVE  CInv'
<1> PICK h, c : h = run[p].hand /\ c = run[p].leg.sid
  OBVIOUS
<1> DEFINE r == [rows[h] EXCEPT !.sid = c, !.final = run[p].leg.final]
<1>1. /\ run[p].at = "store" /\ h # 0 /\ RowOf(c) \subseteq {h}
      /\ rows' = [rows EXCEPT ![h] = r] /\ run' = [run EXCEPT ![p] = EndLeg(p)]
      /\ rejoined' = (rejoined \/ rows[h].sid \notin {None, c})
      /\ UNCHANGED <<now, twilio, forms, step, touches, lease, mark, formsFrom, tab, failures, requests>>
  BY DEF JoinByHand
<1>2. run[p] \in Run /\ RunFits(p)
  BY TypesOf
<1>3. h \in Ids /\ rows[h].hand /\ rows[h] \in Row /\ run[p].leg \in Leg
  BY <1>1, <1>2, TypesOf DEF RunFits, Run
<1>4. /\ r \in Row /\ r.sid = c /\ c \in TwilioCalls /\ c # None /\ r.hand = rows[h].hand /\ r.touch = rows[h].touch
      /\ r.step = rows[h].step /\ r.done = rows[h].done /\ r.discarded = rows[h].discarded
  BY <1>3, Basics DEF Row, Leg
<1> HIDE DEF r
<1>5. rows' \in [Ids -> Row] /\ rows'[h] = r /\ (\A j \in Ids : j # h => rows'[j] = rows[j])
  BY <1>1, <1>3, <1>4, TypesOf
<1>6. RowsFit'
  <2>1. RowsFit
    BY DEF CInv
  <2>2. h \in Stored /\ Stored' = Stored /\ Hands' = Hands
    BY <1>3, <1>4, <1>5 DEF Stored, Hands
  <2>3. OneFormPerCall'
    BY <1>1, <1>4, <1>5, <2>1 DEF RowsFit, OneFormPerCall
  <2>4. SidsUnique'
    BY <1>1, <1>4, <1>5, <2>1 DEF RowsFit, SidsUnique, RowOf
  <2>5. BlankRows'
    BY <1>1, <1>5, <2>1, <2>2 DEF RowsFit, BlankRows
  <2>6. HandsBounded'
    BY <2>1, <2>2 DEF RowsFit, HandsBounded
  <2> QED BY <2>3, <2>4, <2>5, <2>6 DEF RowsFit
<1>7. RowsGrow
  BY <1>1, <1>4, <1>5 DEF RowsGrow
<1>8. EndLeg(p) \in Run /\ RunFits(p)' /\ RunTouches(p)'
  BY <1>1, EndLegIs
<1>9. ~ rejoined' => RowTouches(h)'
  <2> SUFFICES ASSUME ~ rejoined, ~ rejoined' PROVE RowTouches(h)'
    BY <1>1
  <2>1. RowTouches(h)
    BY <1>3 DEF CInv, TouchesFit
  <2>2. rows'[h].touch # None => rows'[h].touch = rows[h].touch /\ rows[h].touch \in touches'
    BY <1>1, <1>4, <1>5, <2>1 DEF RowTouches
  <2> QED BY <1>3, <1>7, <2>2, RowTouchKeeps
<1>10. touches' \subseteq Touches /\ touches \subseteq touches' /\ rejoined' \in BOOLEAN /\ (rejoined => rejoined')
  BY <1>1, TypesOf
<1> QED BY <1>1, <1>3, <1>5, <1>6, <1>7, <1>8, <1>9, <1>10, RunWrites

LEMMA StoreNewHolds ==
  ASSUME CInv, NEW p \in Importers, StoreNew(p)
  PROVE  CInv'
<1> PICK i, c : i = NextId /\ c = run[p].leg.sid
  OBVIOUS
<1> DEFINE r == [NoRow EXCEPT !.sid = c, !.final = run[p].leg.final, !.due = FormOpens(p),
                              !.step = run[p].filed, !.done = run[p].filed,
                              !.touch = IF run[p].filed THEN step.touch ELSE None]
           w == [run[p] EXCEPT !.at = "file", !.id = i, !.call = AsSeen(r), !.hand = 0]
<1>1. /\ run[p].at = "store" /\ RowOf(c) = {}
      /\ rows' = [rows EXCEPT ![i] = r] /\ run' = [run EXCEPT ![p] = w]
      /\ UNCHANGED <<now, twilio, forms, step, touches, lease, mark, formsFrom, tab, failures, requests, rejoined>>
  BY DEF StoreNew, Wrote
<1>2. run[p] \in Run /\ RunFits(p) /\ run[p].filed \in BOOLEAN
  BY TypesOf DEF Run
<1>3. run[p].leg \in Leg /\ c \in TwilioCalls /\ c # None /\ run[p].leg.final \in BOOLEAN
  BY <1>1, <1>2, Basics DEF RunFits, Leg
<1>4. i \in Ids /\ i \notin Stored
  <2> DEFINE S == TwilioCalls \ {c}
  <2>1. \A j \in Ids : rows[j].sid \in S \cup {None}
    BY <1>1, TypesOf DEF RowOf, Row
  <2>2. IsFiniteSet(TwilioCalls) /\ Cardinality(TwilioCalls) \in Nat
    BY Basics, CallsAssumption
  <2>3. Cardinality(S) = Cardinality(TwilioCalls) - 1
    <3>1. c \in TwilioCalls
      BY <1>3
    <3>2. Cardinality(TwilioCalls \ {c}) = IF c \in TwilioCalls THEN Cardinality(TwilioCalls) - 1
                                           ELSE Cardinality(TwilioCalls)
      BY <2>2, FS_RemoveElement
    <3> QED BY <3>1, <3>2 DEF S
  <2>4. Cardinality(Hands) \in Nat /\ Cardinality(Hands) <= MaxByHand
    BY HandsFinite DEF CInv, RowsFit, HandsBounded
  <2>5. Cardinality(Hands) + Cardinality(S) < Cardinality(TwilioCalls) + MaxByHand
    BY <2>2, <2>3, <2>4, CallsAssumption
  <2> HIDE DEF S
  <2>6. S \in SUBSET TwilioCalls
    BY DEF S
  <2>7. Ids \ Stored # {}
    BY <2>1, <2>5, <2>6, RoomLeft
  <2> QED BY <2>7, NextIsFree
<1>5. FormOpens(p) \in BOOLEAN
  BY DEF FormOpens
<1>6. step.touch \in Touches \cup {None}
  BY TypesOf
<1>7. /\ r \in Row /\ r.sid = c /\ ~ r.hand /\ r.done = run[p].filed
      /\ r.touch = IF run[p].filed THEN step.touch ELSE None
  <2> DEFINE t == IF run[p].filed THEN step.touch ELSE None
  <2>1. t \in Touches \cup {None}
    BY <1>2, <1>6
  <2>2. r = [NoRow EXCEPT !.sid = c, !.final = run[p].leg.final, !.due = FormOpens(p), !.step = run[p].filed,
                          !.done = run[p].filed, !.touch = t]
    OBVIOUS
  <2> HIDE DEF t, r
  <2>3. /\ r \in Row /\ r.sid = c /\ ~ r.hand /\ r.done = run[p].filed /\ r.touch = t
    BY <1>2, <1>3, <1>5, <2>1, <2>2, Basics DEF Row, NoRow
  <2> QED BY <2>3 DEF t
<1> HIDE DEF r
<1>8. /\ rows' \in [Ids -> Row] /\ rows'[i] = r /\ (\A j \in Ids : j # i => rows'[j] = rows[j])
      /\ RowsFit' /\ RowsGrow
  BY <1>1, <1>3, <1>4, <1>7, RowStored
<1>9. w \in Run /\ RunFits(p)' /\ (~ rejoined => RunTouches(p)')
  <2> HIDE DEF w
  <2> QED BY <1>1, <1>3, <1>4, <1>7, WroteFits DEF w
<1>10. ~ rejoined' => RowTouches(i)'
  <2> SUFFICES ASSUME ~ rejoined, ~ rejoined' PROVE RowTouches(i)'
    BY <1>1
  <2>1. CASE run[p].filed
    <3>1. ~ step.open /\ step.touch = OnTask /\ step.touch \in touches
      BY <2>1 DEF CInv, TouchesFit, RunTouches, StepTouches
    <3>2. rows'[i].touch = OnTask /\ rows'[i].done
      BY <1>7, <1>8, <2>1, <3>1
    <3> QED BY <1>1, <3>1, <3>2 DEF RowTouches
  <2>2. CASE ~ run[p].filed
    BY <1>7, <1>8, <2>2 DEF RowTouches
  <2> QED BY <2>1, <2>2
<1>11. touches' \subseteq Touches /\ touches \subseteq touches' /\ rejoined' \in BOOLEAN /\ (rejoined => rejoined')
  BY <1>1, TypesOf
<1> HIDE DEF w
<1>12. w \in Run /\ (~ rejoined' => RunTouches(p)' /\ RowTouches(i)')
  BY <1>1, <1>9, <1>10
<1> QED BY <1>1, <1>4, <1>8, <1>9, <1>11, <1>12, RunWrites

LEMMA StoreTwiceHolds ==
  ASSUME CInv, NEW p \in Importers, StoreTwice(p)
  PROVE  CInv'
<1>0. PICK i \in RowOf(run[p].leg.sid) : Wrote(p, i, [rows[i] EXCEPT !.final = run[p].leg.final])
  BY Zenon DEF StoreTwice
<1> DEFINE r == [rows[i] EXCEPT !.final = run[p].leg.final]
           w == [run[p] EXCEPT !.at = "file", !.id = i, !.call = AsSeen(r), !.hand = 0]
<1>1. /\ run[p].at = "store" /\ rows' = [rows EXCEPT ![i] = r] /\ run' = [run EXCEPT ![p] = w]
      /\ UNCHANGED <<now, twilio, forms, step, touches, lease, mark, formsFrom, tab, failures, requests, rejoined>>
  <2>1. /\ run[p].at = "store"
        /\ UNCHANGED <<now, twilio, forms, step, touches, lease, mark, formsFrom, tab, failures, requests, rejoined>>
    BY DEF StoreTwice
  <2>2. Wrote(p, i, r)
    BY <1>0
  <2> HIDE DEF r
  <2>3. rows' = [rows EXCEPT ![i] = r]
    BY <2>2 DEF Wrote
  <2>4. run' = [run EXCEPT ![p].at = "file", ![p].id = i, ![p].call = AsSeen(r), ![p].hand = 0]
    BY <2>2 DEF Wrote
  <2> QED BY <2>1, <2>3, <2>4
<1>2. run[p] \in Run /\ RunFits(p)
  BY TypesOf
<1>3. i \in Ids /\ rows[i] \in Row /\ run[p].leg \in Leg /\ rows[i].sid = run[p].leg.sid
  BY <1>1, <1>2, TypesOf DEF RunFits, RowOf
<1>4. rows[i].sid # None /\ i \in Stored /\ run[p].leg.final \in BOOLEAN
  BY <1>3, Basics DEF Leg, Stored
<1>5. /\ r \in Row /\ r.sid = rows[i].sid /\ r.hand = rows[i].hand /\ r.touch = rows[i].touch
      /\ r.step = rows[i].step /\ r.done = rows[i].done /\ r.discarded = rows[i].discarded
  BY <1>3, <1>4 DEF Row
<1> HIDE DEF r
<1>6. Revises(i, r)
  BY <1>5 DEF Revises
<1>7. /\ rows' \in [Ids -> Row] /\ rows'[i] = r /\ (\A j \in Ids : j # i => rows'[j] = rows[j])
      /\ RowsFit' /\ RowsGrow
  BY <1>1, <1>4, <1>5, <1>6, RowTouched
<1>8. w \in Run /\ RunFits(p)' /\ (~ rejoined => RunTouches(p)')
  <2> HIDE DEF w
  <2> QED BY <1>1, <1>3, <1>4, <1>5, WroteFits DEF w
<1>9. ~ rejoined' => RowTouches(i)'
  <2> SUFFICES ASSUME ~ rejoined, ~ rejoined' PROVE RowTouches(i)'
    BY <1>1
  <2>1. RowTouches(i)
    BY <1>3 DEF CInv, TouchesFit
  <2>2. rows'[i].touch # None => rows'[i].touch = rows[i].touch /\ rows[i].touch \in touches'
    BY <1>1, <1>5, <1>7, <2>1 DEF RowTouches
  <2> QED BY <1>3, <1>7, <2>2, RowTouchKeeps
<1>10. touches' \subseteq Touches /\ touches \subseteq touches' /\ rejoined' \in BOOLEAN /\ (rejoined => rejoined')
  BY <1>1, TypesOf
<1> HIDE DEF w
<1>11. w \in Run /\ (~ rejoined' => RunTouches(p)' /\ RowTouches(i)')
  BY <1>1, <1>8, <1>9
<1> QED BY <1>1, <1>3, <1>7, <1>8, <1>10, <1>11, RunWrites

LEMMA FileLegHolds ==
  ASSUME CInv, NEW p \in Importers, FileLeg(p)
  PROVE  CInv'
<1> PICK i, c : i = run[p].id /\ c = run[p].leg.sid
  OBVIOUS
<1> DEFINE call  == run[p].call
           x     == <<"twilio", c>>
           links == call.final /\ ~ call.step /\ ~ call.done /\ step.open
           adds  == call.final /\ ~ call.touched
           r == IF adds THEN [rows[i] EXCEPT !.touch = x, !.step = @ \/ links]
                ELSE [rows[i] EXCEPT !.step = @ \/ links]
<1>1. /\ run[p].at = "file" /\ run' = [run EXCEPT ![p] = EndLeg(p)]
      /\ rows' = [rows EXCEPT ![i] = r] /\ touches' = IF adds THEN touches \cup {x} ELSE touches
      /\ UNCHANGED <<now, twilio, forms, step, lease, mark, formsFrom, tab, failures, requests, rejoined>>
  BY DEF FileLeg
<1>2. run[p] \in Run /\ RunFits(p)
  BY TypesOf
<1>3. i \in Ids /\ i \in Stored /\ rows[i] \in Row /\ c \in TwilioCalls
  BY <1>1, <1>2, TypesOf DEF RunFits, Leg, Stored
<1>4. x \in Touches
  BY <1>3, Basics
<1>5. /\ r \in Row /\ r.sid = rows[i].sid /\ r.hand = rows[i].hand /\ (rows[i].step => r.step)
      /\ r.done = rows[i].done /\ r.discarded = rows[i].discarded
      /\ r.touch = IF adds THEN x ELSE rows[i].touch
  <2> HIDE DEF links, adds, x
  <2>1. links \in BOOLEAN
    BY DEF links
  <2> QED BY <1>3, <1>4, <2>1 DEF Row
<1> HIDE DEF r
<1>6. Revises(i, r)
  BY <1>5 DEF Revises
<1>7. /\ rows' \in [Ids -> Row] /\ rows'[i] = r /\ (\A j \in Ids : j # i => rows'[j] = rows[j])
      /\ RowsFit' /\ RowsGrow
  BY <1>1, <1>3, <1>5, <1>6, RowTouched
<1>8. EndLeg(p) \in Run /\ RunFits(p)' /\ RunTouches(p)'
  BY <1>1, EndLegIs
<1>9. ~ rejoined' => RowTouches(i)'
  <2> SUFFICES ASSUME ~ rejoined, ~ rejoined' PROVE RowTouches(i)'
    BY <1>1
  <2>1. RowTouches(i) /\ rows[i].sid = c
    BY <1>1, <1>2, <1>3 DEF CInv, TouchesFit, RunTouches, RunFits
  <2>2. CASE adds
    <3>1. rows'[i].touch = x /\ x \in touches' /\ rows'[i].sid = c
      BY <1>1, <1>5, <1>7, <2>1, <2>2
    <3> QED BY <1>3, <3>1 DEF RowTouches, Own
  <2>3. CASE ~ adds
    <3>1. rows'[i].touch # None => rows'[i].touch = rows[i].touch /\ rows[i].touch \in touches'
      BY <1>1, <1>5, <1>7, <2>1, <2>3 DEF RowTouches
    <3> QED BY <1>3, <1>7, <3>1, RowTouchKeeps
  <2> QED BY <2>2, <2>3
<1>10. touches' \subseteq Touches /\ touches \subseteq touches' /\ rejoined' \in BOOLEAN /\ (rejoined => rejoined')
  BY <1>1, <1>4, TypesOf
<1> QED BY <1>1, <1>3, <1>7, <1>8, <1>9, <1>10, RunWrites

-----------------------------------------------------------------------------
(* The requests' writes. *)

LEMMA LogByHandHolds ==
  ASSUME CInv, NEW t \in Tabs, LogByHand(t)
  PROVE  CInv'
<1> PICK i : i = NextId
  OBVIOUS
<1> DEFINE r == [NoRow EXCEPT !.hand = TRUE, !.final = TRUE, !.due = TRUE, !.step = step.open]
           b == [NoTab EXCEPT !.op = "log", !.at = "touch", !.id = i]
<1>1. /\ rows' = [rows EXCEPT ![i] = r] /\ tab' = [tab EXCEPT ![t] = b]
      /\ Cardinality(Hands) < MaxByHand /\ requests' = requests + 1 /\ requests < MaxRequests
      /\ UNCHANGED <<now, twilio, forms, step, touches, lease, mark, formsFrom, run, failures, rejoined>>
  BY DEF LogByHand, Hands
<1>2. i \in Ids /\ i \notin Stored
  <2>1. \A j \in Ids : rows[j].sid \in TwilioCalls \cup {None}
    BY TypesOf DEF Row
  <2>2. IsFiniteSet(Hands) /\ Cardinality(Hands) \in Nat
    BY HandsFinite
  <2>3. Cardinality(Hands) + Cardinality(TwilioCalls) < Cardinality(TwilioCalls) + MaxByHand
    BY <1>1, <2>2, Basics, CallsAssumption
  <2>4. TwilioCalls \in SUBSET TwilioCalls
    OBVIOUS
  <2>5. Ids \ Stored # {}
    BY <2>1, <2>3, <2>4, RoomLeft
  <2> QED BY <2>5, NextIsFree
<1>3. r \in Row /\ r.hand /\ r.sid = None /\ r.touch = None
  BY Basics, TypesOf DEF Row, NoRow
<1>4. b \in Tab /\ b.op = "log" /\ b.at = "touch" /\ b.id = i /\ b.sid = None /\ b.touch = None /\ ~ b.closes
  BY <1>2, Basics DEF Tab, NoTab
<1> HIDE DEF r, b
<1>5. /\ rows' \in [Ids -> Row] /\ rows'[i] = r /\ (\A j \in Ids : j # i => rows'[j] = rows[j])
      /\ RowsFit' /\ RowsGrow
  BY <1>1, <1>2, <1>3, RowStored
<1>6. tab'[t] = b /\ i \in Stored'
  BY <1>1, <1>2, <1>3, <1>5, TypesOf DEF Stored
<1>7. TabFits(t)' /\ TabTouches(t)'
  BY <1>4, <1>6 DEF TabFits, TabTouches, Active, Submitted
<1>8. RowTouches(i)'
  BY <1>3, <1>5 DEF RowTouches
<1>9. touches' \subseteq Touches /\ TouchesKeep /\ forms' \in [Ids -> Nat] /\ requests' \in 0..MaxRequests
  BY <1>1, TypesOf, CallsAssumption DEF TouchesKeep, CInv, Types
<1> QED BY <1>1, <1>2, <1>4, <1>5, <1>7, <1>8, <1>9, TabWrites

LEMMA LogOnStepHolds ==
  ASSUME CInv, LogOnStep
  PROVE  CInv'
<1>1. /\ step.open /\ step' = [open |-> FALSE, touch |-> OnTask] /\ touches' = touches \cup {OnTask}
      /\ requests' = requests + 1 /\ requests < MaxRequests
      /\ UNCHANGED <<now, twilio, rows, forms, lease, mark, formsFrom, run, tab, failures, rejoined>>
  BY DEF LogOnStep, OnTask
<1>2. Types' /\ mark' <= now'
  BY <1>1, Basics, CallsAssumption DEF CInv, Types
<1>3. Keeps
  BY <1>1 DEF Keeps, RowsGrow, StepKeeps, TouchesKeep, CInv, Types, Ticks
<1>4. RowsFit'
  BY <1>1 DEF CInv, RowsFit, OneFormPerCall, SidsUnique, BlankRows, HandsBounded, Hands, Stored
<1>5. StepTouches'
  BY <1>1 DEF StepTouches
<1> QED BY <1>1, <1>2, <1>3, <1>4, <1>5, NobodysFit, StepHolds

LEMMA SubmitHolds ==
  ASSUME CInv, NEW t \in Tabs, Submit(t)
  PROVE  CInv'
<1> PICK i : i = tab[t].id
  OBVIOUS
<1> DEFINE r == [rows[i] EXCEPT !.done = TRUE, !.due = TRUE, !.step = tab[t].closes]
           b == [tab[t] EXCEPT !.at = "touch"]
<1>1. /\ tab[t].op = "submit" /\ tab[t].at = "read" /\ ~ rows[i].done /\ ~ rows[i].discarded
      /\ rows' = [rows EXCEPT ![i] = r] /\ forms' = [forms EXCEPT ![i] = @ + 1] /\ tab' = [tab EXCEPT ![t] = b]
      /\ UNCHANGED <<now, twilio, step, touches, lease, mark, formsFrom, run, failures, requests, rejoined>>
  BY DEF Submit, Claimable
<1>2. tab[t] \in Tab /\ TabFits(t)
  BY TypesOf
<1>3. i \in Stored /\ i \in Ids /\ rows[i] \in Row /\ forms[i] \in Nat
  BY <1>1, <1>2, TypesOf DEF TabFits, Active, Stored
<1>4. /\ r \in Row /\ r.sid = rows[i].sid /\ r.hand = rows[i].hand /\ r.touch = rows[i].touch
      /\ r.step = tab[t].closes /\ r.done /\ r.discarded = rows[i].discarded
  BY <1>2, <1>3 DEF Row, Tab
<1>5. /\ b \in Tab /\ b.op = "submit" /\ b.at = "touch" /\ b.id = i
      /\ b.sid = tab[t].sid /\ b.touch = tab[t].touch /\ b.closes = tab[t].closes
  BY <1>1, <1>2 DEF Tab
<1> HIDE DEF r, b
<1>6. Revises(i, r)
  BY <1>1, <1>4 DEF Revises
<1>7. forms[i] = 0
  BY <1>1, <1>3 DEF CInv, RowsFit, OneFormPerCall
<1>8. forms' \in [Ids -> Nat] /\ forms'[i] = 1 /\ \A j \in Ids : j # i => forms'[j] = forms[j]
  BY <1>1, <1>3, <1>7, TypesOf
<1>9. /\ rows' \in [Ids -> Row] /\ rows'[i] = r /\ (\A j \in Ids : j # i => rows'[j] = rows[j])
      /\ RowsFit' /\ RowsGrow
  <2>1. forms'[i] <= 1 /\ (forms'[i] > 0 => r.done /\ ~ r.discarded)
    BY <1>1, <1>4, <1>8
  <2> QED BY <1>1, <1>3, <1>4, <1>6, <1>8, <2>1, RowRevised
<1>10. tab'[t] = b /\ i \in Stored'
  BY <1>1, <1>3, <1>9, TypesOf, StoredKeeps
<1>11. TabFits(t)'
  BY <1>1, <1>4, <1>5, <1>9, <1>10 DEF TabFits, Active, Submitted
<1>12. ~ rejoined' => TabTouches(t)'
  <2> SUFFICES ASSUME ~ rejoined, ~ rejoined' PROVE TabTouches(t)'
    BY <1>1
  <2>1. TabTouches(t) /\ Active(t)
    BY <1>1 DEF CInv, TouchesFit, Active
  <2>2. tab[t].touch # None => Own(rows, tab[t].touch, i) /\ tab[t].touch \in touches'
    BY <1>1, <2>1 DEF TabTouches
  <2>3. tab[t].touch # None => Own(rows', tab[t].touch, i)
    BY <1>3, <1>9, <2>2, OwnKeeps
  <2>4. tab[t].sid # None => rows'[i].sid = tab[t].sid
    BY <1>4, <1>9, <2>1 DEF TabTouches
  <2> QED BY <1>5, <1>10, <2>2, <2>3, <2>4 DEF TabTouches
<1>13. ~ rejoined' => RowTouches(i)'
  <2> SUFFICES ASSUME ~ rejoined, ~ rejoined' PROVE RowTouches(i)'
    BY <1>1
  <2>1. rows'[i].touch # None => rows'[i].touch = rows[i].touch /\ rows[i].touch \in touches'
    BY <1>1, <1>3, <1>4, <1>9 DEF CInv, TouchesFit, RowTouches
  <2> QED BY <1>3, <1>9, <2>1, RowTouchKeeps
<1>14. touches' \subseteq Touches /\ TouchesKeep /\ requests' \in 0..MaxRequests
  BY <1>1, TypesOf DEF TouchesKeep, CInv, Types
<1> QED BY <1>1, <1>3, <1>5, <1>8, <1>9, <1>11, <1>12, <1>13, <1>14, TabWrites

(* A request at its touch or its step is a submission, or the touch of a call just logged. *)
LEMMA LaterOps ==
  ASSUME CInv, NEW t \in Tabs, tab[t].at \in {"touch", "step"}
  PROVE  /\ tab[t] \in Tab /\ TabFits(t) /\ Active(t) /\ tab[t].id \in Stored /\ tab[t].id \in Ids
         /\ tab[t].op = "submit" \/ (tab[t].op = "log" /\ tab[t].at = "touch")
BY TypesOf DEF TabFits, Active, Tab, NoTab, Stored

LEMMA TouchCallHolds ==
  ASSUME CInv, NEW t \in Tabs, TouchCall(t)
  PROVE  CInv'
<1> PICK i, x : i = tab[t].id /\ x = IF tab[t].sid # None THEN <<"twilio", tab[t].sid>> ELSE <<"call", i>>
  OBVIOUS
<1> DEFINE r == [rows[i] EXCEPT !.touch = x]
           b == IF tab[t].op = "log" THEN NoTab
                ELSE [tab[t] EXCEPT !.at = "step", !.touch = IF tab[t].touch = None THEN x ELSE tab[t].touch]
<1>1. /\ tab[t].at = "touch" /\ tab' = [tab EXCEPT ![t] = b]
      /\ UNCHANGED <<now, twilio, forms, step, lease, mark, formsFrom, run, failures, requests, rejoined>>
  BY DEF TouchCall
<1>2. \/ tab[t].touch = None /\ touches' = touches \cup {x} /\ rows' = [rows EXCEPT ![i] = r]
      \/ tab[t].touch # None /\ UNCHANGED <<touches, rows>>
  BY DEF TouchCall
<1>3. /\ tab[t] \in Tab /\ TabFits(t) /\ Active(t) /\ i \in Stored /\ i \in Ids /\ rows[i] \in Row
      /\ tab[t].op = "submit" \/ tab[t].op = "log"
  BY <1>1, LaterOps, TypesOf
<1>4. x \in Touches /\ x # None
  BY <1>3, Basics DEF Tab
<1>5. /\ r \in Row /\ r.sid = rows[i].sid /\ r.hand = rows[i].hand /\ r.touch = x
      /\ r.step = rows[i].step /\ r.done = rows[i].done /\ r.discarded = rows[i].discarded
  BY <1>3, <1>4 DEF Row
<1>6. /\ b \in Tab
      /\ tab[t].op = "log" => b = NoTab
      /\ tab[t].op = "submit" => /\ b.op = "submit" /\ b.at = "step" /\ b.id = i /\ b.sid = tab[t].sid
                                 /\ b.closes = tab[t].closes
                                 /\ b.touch = IF tab[t].touch = None THEN x ELSE tab[t].touch
  BY <1>3, <1>4, Basics DEF Tab, NoTab
<1> HIDE DEF r, b
<1>7. Revises(i, r)
  BY <1>5 DEF Revises
<1>8. CInv /\ UNCHANGED <<rows, forms>> => RowsFit' /\ RowsGrow
  BY DEF CInv, RowsFit, OneFormPerCall, SidsUnique, BlankRows, HandsBounded, Hands, Stored, RowsGrow
<1>9. /\ rows' \in [Ids -> Row] /\ (\A j \in Ids : j # i => rows'[j] = rows[j])
      /\ rows'[i] = IF tab[t].touch = None THEN r ELSE rows[i]
      /\ RowsFit' /\ RowsGrow
  <2>1. CASE tab[t].touch = None
    BY <1>1, <1>2, <1>3, <1>5, <1>7, <2>1, RowTouched
  <2>2. CASE tab[t].touch # None
    BY <1>1, <1>2, <1>8, <2>2, TypesOf
  <2> QED BY <2>1, <2>2
<1>10. tab'[t] = b /\ i \in Stored'
  BY <1>1, <1>3, <1>9, TypesOf, StoredKeeps
<1>11. TabFits(t)'
  <2>1. CASE tab[t].op = "log"
    BY <1>1, <1>6, <2>1, NoTabFits
  <2>2. CASE tab[t].op = "submit"
    <3>1. rows[i].done /\ ~ rows[i].discarded /\ (tab[t].closes => rows[i].step)
      BY <1>1, <1>3, <2>2 DEF TabFits, Submitted
    <3>2. rows'[i].done /\ ~ rows'[i].discarded /\ (tab[t].closes => rows'[i].step)
      BY <1>5, <1>9, <3>1
    <3> QED BY <1>4, <1>6, <1>10, <2>2, <3>2 DEF TabFits, Active, Submitted
  <2> QED BY <1>3, <2>1, <2>2
<1>12. ~ rejoined' => TabTouches(t)' /\ RowTouches(i)'
  <2> SUFFICES ASSUME ~ rejoined, ~ rejoined' PROVE TabTouches(t)' /\ RowTouches(i)'
    BY <1>1
  <2>1. TabTouches(t) /\ RowTouches(i)
    BY <1>3 DEF CInv, TouchesFit
  <2>2. tab[t].sid # None => rows'[i].sid = tab[t].sid
    BY <1>3, <1>5, <1>9, <2>1 DEF TabTouches
  <2>3. Own(rows', x, i)
    BY <1>3, <2>2, Basics DEF Own, Tab
  <2>4. tab[t].touch # None => Own(rows', tab[t].touch, i)
    BY <1>3, <1>9, <2>1, OwnKeeps DEF TabTouches
  <2>5. tab[t].touch # None /\ tab[t].op = "submit" => tab[t].touch \in touches'
    BY <1>1, <1>2, <1>3, <2>1 DEF TabTouches
  <2>6. tab[t].touch = None => x \in touches'
    BY <1>2
  <2>7. TabTouches(t)'
    <3>1. CASE tab[t].op = "log"
      BY <1>1, <1>6, <3>1, NoTabFits
    <3>2. CASE tab[t].op = "submit"
      BY <1>6, <1>10, <2>2, <2>3, <2>4, <2>5, <2>6, <3>2 DEF TabTouches
    <3> QED BY <1>3, <3>1, <3>2
  <2>8. RowTouches(i)'
    <3>1. CASE tab[t].touch = None
      BY <1>5, <1>9, <2>3, <2>6, <3>1 DEF RowTouches
    <3>2. CASE tab[t].touch # None
      <4>1. rows'[i].touch # None => rows'[i].touch = rows[i].touch /\ rows[i].touch \in touches'
        BY <1>2, <1>9, <2>1, <3>2 DEF RowTouches
      <4> QED BY <1>3, <1>9, <4>1, RowTouchKeeps
    <3> QED BY <3>1, <3>2
  <2> QED BY <2>7, <2>8
<1>13. touches' \subseteq Touches /\ TouchesKeep /\ requests' \in 0..MaxRequests /\ forms' \in [Ids -> Nat]
  BY <1>1, <1>2, <1>4, TypesOf DEF TouchesKeep, CInv, Types
<1> QED BY <1>1, <1>3, <1>6, <1>9, <1>11, <1>12, <1>13, TabWrites

LEMMA CloseStepHolds ==
  ASSUME CInv, NEW t \in Tabs, CloseStep(t)
  PROVE  CInv'
<1> PICK i : i = tab[t].id
  OBVIOUS
<1>1. /\ tab[t].at = "step" /\ tab' = [tab EXCEPT ![t] = NoTab]
      /\ step' = IF tab[t].closes /\ step.open THEN [open |-> FALSE, touch |-> tab[t].touch] ELSE step
      /\ UNCHANGED <<now, twilio, rows, forms, touches, lease, mark, formsFrom, run, failures, requests, rejoined>>
  BY DEF CloseStep
<1>2. tab[t] \in Tab /\ TabFits(t) /\ Submitted(t) /\ i \in Ids
  BY <1>1, LaterOps DEF Submitted
<1>3. step' \in [open : BOOLEAN, touch : Touches \cup {None}]
  BY <1>1, <1>2, TypesOf DEF Tab
<1>4. Types' /\ mark' <= now'
  BY <1>1, <1>3, NoTabFits DEF CInv, Types
<1>5. Keeps
  BY <1>1 DEF Keeps, RowsGrow, StepKeeps, TouchesKeep, CInv, Types, Ticks
<1>6. RowsFit'
  BY <1>1 DEF CInv, RowsFit, OneFormPerCall, SidsUnique, BlankRows, HandsBounded, Hands, Stored
<1>7. ~ rejoined' => step' = step \/ StepTouches'
  <2> SUFFICES ASSUME ~ rejoined', tab[t].closes, step.open PROVE StepTouches'
    BY <1>1
  <2>1. TabTouches(t) /\ Active(t) /\ tab[t].touch # None /\ tab[t].op = "submit"
    BY <1>1, <1>2 DEF CInv, TouchesFit, TabFits, Active, Submitted
  <2>2. tab[t].touch \in touches /\ Own(rows, tab[t].touch, i)
    BY <1>1, <2>1 DEF TabTouches
  <2>3. rows[i].done /\ rows[i].step
    BY <1>2 DEF TabFits
  <2> QED BY <1>1, <1>2, <2>2, <2>3 DEF StepTouches, Own
<1>8. \E p : Fits(p, t)
  <2> DEFINE p == CHOOSE p : p \notin Importers
  <2>1. p \notin Importers
    BY NoSetContainsEverything
  <2> HIDE DEF p
  <2>2. Fits(p, t)
    BY <1>1, <2>1, TypesOf, NoTabFits DEF Fits
  <2> QED BY <2>2
<1> QED BY <1>1, <1>4, <1>5, <1>6, <1>7, <1>8, StepHolds

LEMMA CloseFormHolds ==
  ASSUME CInv, NEW t \in Tabs, CloseForm(t)
  PROVE  CInv'
<1> PICK i : i = tab[t].id
  OBVIOUS
<1> DEFINE r == [rows[i] EXCEPT !.done = TRUE]
<1>1. /\ tab[t].op = "close" /\ rows' = [rows EXCEPT ![i].done = TRUE] /\ tab' = [tab EXCEPT ![t] = NoTab]
      /\ UNCHANGED <<now, twilio, forms, step, touches, lease, mark, formsFrom, run, failures, requests, rejoined>>
  BY DEF CloseForm
<1>2. i \in Stored /\ i \in Ids /\ rows[i] \in Row
  BY <1>1, TypesOf DEF TabFits, Active, Stored
<1>3. rows' = [rows EXCEPT ![i] = r]
  BY <1>1, <1>2, TypesOf
<1>4. /\ r \in Row /\ r.sid = rows[i].sid /\ r.hand = rows[i].hand /\ r.touch = rows[i].touch
      /\ r.step = rows[i].step /\ r.done /\ r.discarded = rows[i].discarded
  BY <1>2 DEF Row
<1> HIDE DEF r
<1>5. Revises(i, r)
  BY <1>4 DEF Revises
<1>6. /\ rows' \in [Ids -> Row] /\ rows'[i] = r /\ (\A j \in Ids : j # i => rows'[j] = rows[j])
      /\ RowsFit' /\ RowsGrow
  BY <1>1, <1>2, <1>3, <1>4, <1>5, RowTouched
<1>7. ~ rejoined' => RowTouches(i)'
  <2> SUFFICES ASSUME ~ rejoined, ~ rejoined' PROVE RowTouches(i)'
    BY <1>1
  <2>1. rows'[i].touch # None => rows'[i].touch = rows[i].touch /\ rows[i].touch \in touches'
    BY <1>1, <1>2, <1>4, <1>6 DEF CInv, TouchesFit, RowTouches
  <2> QED BY <1>2, <1>6, <2>1, RowTouchKeeps
<1>8. touches' \subseteq Touches /\ TouchesKeep /\ requests' \in 0..MaxRequests /\ forms' \in [Ids -> Nat]
  BY <1>1, TypesOf DEF TouchesKeep, CInv, Types
<1> QED BY <1>1, <1>2, <1>6, <1>7, <1>8, NoTabFits, TabWrites

LEMMA DiscardHolds ==
  ASSUME CInv, NEW t \in Tabs, Discard(t)
  PROVE  CInv'
<1> PICK i, x : i = tab[t].id /\ x = tab[t].touch
  OBVIOUS
<1> DEFINE touch == IF rows[i].touch = x THEN None ELSE rows[i].touch
           r == [rows[i] EXCEPT !.discarded = TRUE, !.touch = touch]
<1>1. /\ tab[t].op = "discard" /\ ~ rows[i].done /\ ~ rows[i].discarded
      /\ rows' = [rows EXCEPT ![i].discarded = TRUE, ![i].touch = IF @ = x THEN None ELSE @]
      /\ touches' = touches \ {x} /\ tab' = [tab EXCEPT ![t] = NoTab]
      /\ UNCHANGED <<now, twilio, forms, step, lease, mark, formsFrom, run, failures, requests, rejoined>>
  BY DEF Discard, Claimable
<1>2. i \in Stored /\ i \in Ids /\ rows[i] \in Row
  BY <1>1, TypesOf DEF TabFits, Active, Stored
<1>3. rows' = [rows EXCEPT ![i] = r]
  BY <1>1, <1>2, TypesOf DEF Row
<1>4. /\ r \in Row /\ r.sid = rows[i].sid /\ r.hand = rows[i].hand /\ r.touch = touch
      /\ r.step = rows[i].step /\ r.done = rows[i].done /\ r.discarded
  BY <1>2 DEF Row
<1> HIDE DEF r, touch
<1>5. Revises(i, r)
  BY <1>1, <1>4 DEF Revises
<1>6. /\ rows' \in [Ids -> Row] /\ rows'[i] = r /\ (\A j \in Ids : j # i => rows'[j] = rows[j])
      /\ RowsFit' /\ RowsGrow
  BY <1>1, <1>2, <1>3, <1>4, <1>5, RowTouched
<1>7. ~ rejoined' => RowTouches(i)'
  <2> SUFFICES ASSUME ~ rejoined, ~ rejoined' PROVE RowTouches(i)'
    BY <1>1
  <2>1. rows'[i].touch # None => rows'[i].touch = rows[i].touch /\ rows[i].touch # x
    BY <1>4, <1>6 DEF touch
  <2>2. rows'[i].touch # None => rows'[i].touch = rows[i].touch /\ rows[i].touch \in touches'
    BY <1>1, <1>2, <2>1 DEF CInv, TouchesFit, RowTouches
  <2> QED BY <1>2, <1>6, <2>2, RowTouchKeeps
<1>8. ~ rejoined' => TouchesKeep
  <2> SUFFICES ASSUME ~ rejoined', NEW y \in touches
               PROVE  y \in touches' \/ (Own(rows, y, i) /\ rows'[i].discarded /\ ~ rows[i].discarded /\ ~ rows[i].done)
    BY <1>2 DEF TouchesKeep
  <2>1. y \in Touches /\ y # None
    BY Basics, TypesOf
  <2>2. TabTouches(t) /\ Active(t)
    BY <1>1 DEF CInv, TouchesFit, Active
  <2> QED BY <1>1, <1>4, <1>6, <2>1, <2>2 DEF TabTouches
<1>9. touches' \subseteq Touches /\ requests' \in 0..MaxRequests /\ forms' \in [Ids -> Nat]
  BY <1>1, TypesOf DEF CInv, Types
<1> QED BY <1>1, <1>2, <1>6, <1>7, <1>8, <1>9, NoTabFits, TabWrites

-----------------------------------------------------------------------------
(* The invariant of Calls, and what it says of the runs' properties. *)

LEMMA InitHolds == Init => CInv
<1> SUFFICES ASSUME Init PROVE CInv
  OBVIOUS
<1>1. NoRun \in Run
  BY Basics, CallsAssumption DEF NoRun, Run, AsSeen, NoRow, Seen, Ticks
<1>2. NoRow \in Row /\ NoTab \in Tab
  BY Basics DEF NoRow, Row, NoTab, Tab
<1>3. Types /\ mark <= now
  <2>1. now \in Ticks /\ mark \in Ticks /\ mark <= now /\ formsFrom \in 0..Never
    BY CallsAssumption DEF Init, Ticks, Never
  <2>2. twilio \in [TwilioCalls -> [is : {"none", "ringing", "ended"}, at : Ticks, till : Ticks]]
    BY CallsAssumption DEF Init, Ticks
  <2>3. rows \in [Ids -> Row] /\ forms \in [Ids -> Nat] /\ step \in [open : BOOLEAN, touch : Touches \cup {None}]
    BY <1>2 DEF Init
  <2>4. lease \in [by : Importers \cup {None}, until : 0..(LastTick + Lease)]
    BY Basics, CallsAssumption DEF Init
  <2>5. run \in [Importers -> Run] /\ tab \in [Tabs -> Tab] /\ touches \subseteq Touches
    BY <1>1, <1>2 DEF Init
  <2>6. failures \in 0..MaxFailures /\ requests \in 0..MaxRequests
    BY CallsAssumption DEF Init
  <2>7. rejoined \in BOOLEAN
    BY DEF Init
  <2> QED BY <2>1, <2>2, <2>3, <2>4, <2>5, <2>6, <2>7 DEF Types
<1>4. RowsFit
  <2>1. Hands = {}
    BY DEF Init, Hands, NoRow
  <2>2. Cardinality(Hands) = 0
    BY <2>1, FS_EmptySet
  <2> QED BY <2>2, CallsAssumption DEF Init, RowsFit, OneFormPerCall, SidsUnique, BlankRows, HandsBounded, NoRow
<1>5. JobsFit
  BY DEF Init, JobsFit, RunFits, TabFits, Active, Submitted, NoRun, NoTab
<1>6. TouchesFit
  BY DEF Init, TouchesFit, RowTouches, TabTouches, RunTouches, StepTouches, NoRow, NoRun, NoTab, Active
<1> QED BY <1>3, <1>4, <1>5, <1>6 DEF CInv

LEMMA StutterHolds ==
  ASSUME CInv, UNCHANGED vars
  PROVE  CInv'
<1>1. Types' /\ now' \in Ticks /\ now <= now' /\ mark' <= now'
  BY DEF CInv, Types, Ticks, vars
<1> QED BY <1>1, NobodysFit, QuietHolds DEF vars

LEMMA Inductive == CInv /\ [Next]_vars => CInv'
<1> SUFFICES ASSUME CInv, [Next]_vars PROVE CInv'
  OBVIOUS
<1>1. CASE Tick
  BY <1>1, TickHolds
<1>2. CASE \E c \in TwilioCalls : Ring(c) \/ HangUp(c)
  BY <1>2, RingHolds
<1>3. CASE \E p \in Importers : StartRun(p) \/ RunStep(p) \/ FailRun(p) \/ DieRun(p)
  <2> PICK p \in Importers : StartRun(p) \/ RunStep(p) \/ FailRun(p) \/ DieRun(p)
    BY <1>3
  <2> QED BY StartRunHolds, ReadLegHolds, StoreKnownHolds, JoinByHandHolds, StoreNewHolds, StoreTwiceHolds,
             FileLegHolds, RunEnds DEF RunStep
<1>4. CASE LogOnStep
  BY <1>4, LogOnStepHolds
<1>5. ASSUME NEW t \in Tabs, LogByHand(t) PROVE CInv'
  BY <1>5, LogByHandHolds
<1>6. ASSUME NEW t \in Tabs, \E i \in Ids, closes \in BOOLEAN, op \in {"submit", "close", "discard"} :
                               ReadCall(t, op, i, closes)
      PROVE  CInv'
  BY <1>6, ReadCallHolds
<1>7. ASSUME NEW t \in Tabs, TabStep(t) PROVE CInv'
  BY <1>7, SubmitHolds, TouchCallHolds, CloseStepHolds, CloseFormHolds, DiscardHolds, RefusedHolds DEF TabStep
<1>8. CASE UNCHANGED vars
  BY <1>8, StutterHolds
<1> QED BY <1>1, <1>2, <1>3, <1>4, <1>5, <1>6, <1>7, <1>8 DEF Next

(* The invariant, for any calls, runs, requests and bounds. *)
THEOREM CallsInvariant == Spec => []CInv
<1>1. Init => CInv
  BY InitHolds
<1>2. CInv /\ [Next]_vars => CInv'
  BY Inductive
<1> QED BY <1>1, <1>2, PTL DEF Spec

(* The states are the ones the declarations say, a Twilio call has one row *)
(* (the unique twilioCallSid of CallLog), and the watermark is never ahead *)
(* of the time.                                                            *)
THEOREM CallsTypeCorrect == Spec => []TypeOK
<1>1. CInv => TypeOK
  <2> SUFFICES ASSUME CInv PROVE TypeOK
    OBVIOUS
  <2>1. ASSUME NEW c \in TwilioCalls PROVE Cardinality(RowOf(c)) <= 1
    <3>1. CASE RowOf(c) = {}
      BY <3>1, FS_EmptySet
    <3>2. ASSUME NEW i \in RowOf(c) PROVE Cardinality(RowOf(c)) <= 1
      <4>1. RowOf(c) = {i}
        BY <3>2, Basics DEF CInv, RowsFit, SidsUnique, RowOf
      <4>2. Cardinality({i}) = 1
        BY FS_Singleton
      <4> QED BY <4>1, <4>2
    <3> QED BY <3>1, <3>2
  <2> QED BY <2>1 DEF CInv, JobsFit, RunFits, TypeOK
<1> QED BY <1>1, CallsInvariant, PTL

(* A call is given one form, whoever submits it, and a discarded call none *)
(* (submitCallForm claims the row by a conditional update).                *)
THEOREM OneFormEach == Spec => []OneFormPerCall
<1>1. CInv => OneFormPerCall
  BY DEF CInv, RowsFit
<1> QED BY <1>1, CallsInvariant, PTL

(* The step a form closed keeps the touch it was closed with, unless two   *)
(* runs took one call logged by hand (recordCallTouch, discardCall).       *)
THEOREM TouchStays == Spec => []ClosedStepKeepsItsTouch
<1>1. CInv => ClosedStepKeepsItsTouch
  BY DEF CInv, TouchesFit, StepTouches, ClosedStepKeepsItsTouch
<1> QED BY <1>1, CallsInvariant, PTL
=============================================================================
