----------------------------- MODULE CacheProofs -----------------------------
(***************************************************************************)
(* Proofs about PersonCache: no listing, webhook, stopped listing or       *)
(* restart makes a watermark step over a change, shows somebody who is in  *)
(* Twenty as deleted, or brings somebody back who was seen deleted.        *)
(***************************************************************************)
EXTENDS PersonCache, TLAPS

(* What these need of the environment: each record listed can be stored.   *)
RecordsAreStored == "record" \notin Failures

(* Of a record c of Twenty and a row r of the cache. *)
Known(c) == c.exists \/ c.at # 0
(* v was read of c, now or earlier. *)
EarlierOf(v, c) ==
  /\ Known(c)
  /\ c.exists => v.at <= c.at /\ (v.gone = 0 \/ (v.gone = c.gone /\ v.at = c.at))
RowFits(c, r) ==
  /\ r.cached => Known(c)
  /\ ~ r.cached => r.at = 0 /\ r.gone = 0
  /\ c.exists => r.at <= c.at /\ r.gone \in {0, c.gone}

(* The change stamped before t, or the deletion, is in the row. *)
HasUpdate(c, r)   == r.cached /\ (r.at >= c.at \/ (c.gone # 0 /\ r.gone = c.gone))
UpdatedBy(c, r, t) == c.exists /\ c.at # 0 /\ c.at < t => HasUpdate(c, r)
DeletedBy(c, r, t) == c.exists /\ c.gone # 0 /\ c.gone < t => r.gone = c.gone

(* Twenty's stamps are in its past, and a deletion is the last of them. *)
StampsFit == \A p \in Persons : /\ crm[p].at <= 2 * changes /\ crm[p].gone <= 2 * changes
                                /\ crm[p].exists /\ crm[p].gone # 0 => crm[p].at < crm[p].gone
RowsFit  == \A p \in Persons : RowFits(crm[p], row[p])
MailFits == \A m \in mail : EarlierOf(m[2], crm[m[1]])
PageFits == /\ \A m \in pass.page : EarlierOf(m[2], crm[m[1]]) /\ pass.page = {m}
            /\ pass.do = "remove" => pass.page = {}
MarksFit ==
  /\ \A l \in Listings : marks[l] <= CadenceTime
  /\ \A p \in Persons : UpdatedBy(crm[p], row[p], marks["people"])
                        /\ DeletedBy(crm[p], row[p], marks["deletedPeople"])

(* A pass knows the watermarks it began with, and when it began. *)
PassBegan == pass.do # "idle" => pass.since = marks /\ pass.started <= CadenceTime

(* Whom a listing has still to bring: those to read, or on the page read. *)
ToCome(p) == p \in pass.todo \/ \E m \in pass.page : m[1] = p
UpdateToCome(p) == p \in pass.todo \/ \E m \in pass.page : m[1] = p /\ m[2].at = crm[p].at
DeletionToCome(p) == p \in pass.todo \/ \E m \in pass.page : m[1] = p /\ m[2].gone = crm[p].gone

Unseen(p) == crm[p].exists /\ row[p].cached /\ ~ row[p].touched
FullSees == /\ pass.do = "full" => \A p \in Persons : Unseen(p) => ToCome(p)
            /\ pass.do = "remove" => \A p \in Persons : ~ Unseen(p)
UpdatesListed ==
  /\ pass.do = "people" =>
       \A p \in Persons : UpdatedBy(crm[p], row[p], pass.started) \/ UpdateToCome(p)
  /\ pass.do \in {"deletedPeople", "save"} =>
       \A p \in Persons : UpdatedBy(crm[p], row[p], pass.started)
DeletionsListed ==
  /\ pass.do = "deletedPeople" =>
       \A p \in Persons : DeletedBy(crm[p], row[p], pass.started) \/ DeletionToCome(p)
  /\ pass.do = "save" /\ "deletedPeople" \notin pass.stopped =>
       \A p \in Persons : DeletedBy(crm[p], row[p], pass.started)

PassFits == PageFits /\ PassBegan /\ FullSees /\ UpdatesListed /\ DeletionsListed
WorldFits == StampsFit /\ RowsFit /\ MailFits /\ MarksFit
CInv == TypeOK /\ RecordsAreStored /\ WorldFits /\ PassFits

(* No row loses what it had of Twenty, or is seen no longer. *)
RowsKeep ==
  \A p \in Persons :
    /\ RowFits(crm[p], row'[p])
    /\ crm[p].exists /\ HasUpdate(crm[p], row[p]) => HasUpdate(crm[p], row'[p])
    /\ crm[p].exists /\ crm[p].gone # 0 /\ row[p].gone = crm[p].gone => row'[p].gone = crm[p].gone

-----------------------------------------------------------------------------
(* Storing a record, whenever it was read. *)

LEMMA UpsertFits ==
  ASSUME NEW c \in CrmRow, NEW r \in Row, NEW v \in Version, EarlierOf(v, c), RowFits(c, r),
         c.exists /\ c.gone # 0 => c.at < c.gone
  PROVE  /\ Upserted(r, v) \in Row
         /\ RowFits(c, Upserted(r, v))
         /\ Upserted(r, v).touched /\ Upserted(r, v).cached
         /\ c.exists /\ HasUpdate(c, r) => HasUpdate(c, Upserted(r, v))
         /\ c.exists /\ c.gone # 0 /\ r.gone = c.gone => Upserted(r, v).gone = c.gone
         /\ c.exists /\ v.at = c.at => HasUpdate(c, Upserted(r, v))
         /\ c.exists /\ c.gone # 0 /\ v.gone = c.gone => Upserted(r, v).gone = c.gone
<1> DEFINE new == [cached |-> TRUE, at |-> v.at, gone |-> v.gone, touched |-> TRUE]
           kept == [r EXCEPT !.touched = TRUE]
<1>1. /\ new \in Row /\ new.cached /\ new.touched /\ new.at = v.at /\ new.gone = v.gone
  BY DEF Row, Version
<1>2. /\ kept \in Row /\ kept.touched /\ kept.cached = r.cached /\ kept.at = r.at /\ kept.gone = r.gone
  BY DEF Row
<1>3. /\ v.at \in Nat /\ v.gone \in Nat /\ c.at \in Nat /\ c.gone \in Nat /\ r.at \in Nat /\ r.gone \in Nat
      /\ r.cached \in BOOLEAN /\ c.exists \in BOOLEAN
  BY DEF Row, Version, CrmRow
<1> HIDE DEF new, kept
<1>4. CASE ~ r.cached \/ InOrder(r, v)
  <2>1. Upserted(r, v) = new
    BY <1>4 DEF Upserted, new
  <2> QED BY <1>1, <1>3, <1>4, <2>1 DEF InOrder, Larger, EarlierOf, RowFits, HasUpdate, Known
<1>5. CASE r.cached /\ ~ InOrder(r, v)
  <2>1. Upserted(r, v) = kept
    BY <1>5 DEF Upserted, kept
  <2>2. \/ r.at > v.at /\ r.at > v.gone
        \/ r.gone > v.at /\ r.gone > v.gone
    BY <1>3, <1>5 DEF InOrder, Larger
  <2>3. RowFits(c, kept) /\ (HasUpdate(c, r) => HasUpdate(c, kept))
    BY <1>2 DEF RowFits, HasUpdate
  <2>4. c.exists => \/ c.gone # 0 /\ r.gone = c.gone
                  \/ r.at >= v.at
    BY <1>3, <2>2 DEF RowFits
  <2>5. c.exists /\ v.at = c.at => HasUpdate(c, kept)
    BY <1>2, <1>3, <1>5, <2>4 DEF HasUpdate
  <2>6. ~ (c.exists /\ c.gone # 0 /\ v.gone = c.gone)
    BY <1>3, <2>2 DEF EarlierOf, RowFits
  <2> QED BY <1>2, <1>5, <2>1, <2>3, <2>5, <2>6
<1> QED BY <1>3, <1>4, <1>5

LEMMA MarkingFits ==
  ASSUME NEW c \in CrmRow, NEW r \in Row, NEW v \in Version, EarlierOf(v, c), RowFits(c, r), v.gone # 0
  PROVE  /\ MarkedDeleted(r, v.gone) \in Row
         /\ RowFits(c, MarkedDeleted(r, v.gone))
         /\ r.cached => MarkedDeleted(r, v.gone).cached
         /\ MarkedDeleted(r, v.gone).cached => r.cached
         /\ r.touched => MarkedDeleted(r, v.gone).touched
         /\ c.exists /\ HasUpdate(c, r) => HasUpdate(c, MarkedDeleted(r, v.gone))
         /\ c.exists /\ c.gone # 0 /\ r.gone = c.gone => MarkedDeleted(r, v.gone).gone = c.gone
<1> DEFINE new == [r EXCEPT !.gone = v.gone, !.touched = TRUE]
<1>1. /\ new \in Row /\ new.cached = r.cached /\ new.touched /\ new.at = r.at /\ new.gone = v.gone
  BY DEF Row, Version
<1>2. /\ v.at \in Nat /\ v.gone \in Nat /\ c.at \in Nat /\ c.gone \in Nat /\ r.at \in Nat /\ r.gone \in Nat
      /\ r.cached \in BOOLEAN /\ c.exists \in BOOLEAN
  BY DEF Row, Version, CrmRow
<1> HIDE DEF new
<1>3. MarkedDeleted(r, v.gone) = IF r.cached /\ r.at <= v.gone /\ r.gone <= v.gone THEN new ELSE r
  BY DEF MarkedDeleted, new
<1> QED BY <1>1, <1>2, <1>3 DEF EarlierOf, RowFits, HasUpdate, Known

-----------------------------------------------------------------------------
(* Changes in Twenty. *)

(* What can become of a record c at the time t. *)
Becomes(c, new, t) ==
  \/ ~ c.exists /\ c.at = 0 /\ new = [exists |-> TRUE, at |-> t, gone |-> 0]
  \/ c.exists /\ c.gone = 0 /\ new = [c EXCEPT !.at = t]
  \/ c.exists /\ c.gone = 0 /\ new = [c EXCEPT !.gone = t]
  \/ c.exists /\ new = [exists |-> FALSE, at |-> t, gone |-> t]

LEMMA BecomingFits ==
  ASSUME NEW c \in CrmRow, NEW new \in CrmRow, NEW r \in Row, NEW n \in Nat, Becomes(c, new, 2 * n + 2),
         c.at <= 2 * n, c.gone <= 2 * n, RowFits(c, r)
  PROVE  /\ new.at <= 2 * n + 2 /\ new.gone <= 2 * n + 2
         /\ new.exists /\ new.gone # 0 => new.at < new.gone
         /\ RowFits(new, r)
         /\ EarlierOf([at |-> new.at, gone |-> new.gone], new)
         /\ \A v \in Version : EarlierOf(v, c) => EarlierOf(v, new)
         /\ \A t \in 0 .. 2 * n + 1 :
              /\ UpdatedBy(c, r, t) => UpdatedBy(new, r, t)
              /\ DeletedBy(c, r, t) => DeletedBy(new, r, t)
              /\ new.at < t => new.at = c.at
              /\ new.gone # 0 /\ new.gone < t => new.gone = c.gone
         /\ new.exists /\ r.cached => c.exists
<1>1. /\ c.at \in Nat /\ c.gone \in Nat /\ r.at \in Nat /\ r.gone \in Nat
      /\ r.cached \in BOOLEAN /\ c.exists \in BOOLEAN
  BY DEF Row, CrmRow
<1> DEFINE s == 2 * n + 2
<1>2. CASE ~ c.exists /\ c.at = 0 /\ new = [exists |-> TRUE, at |-> s, gone |-> 0]
  BY <1>1, <1>2 DEF RowFits, EarlierOf, Known, UpdatedBy, DeletedBy, HasUpdate, Version
<1>3. CASE c.exists /\ c.gone = 0 /\ new = [c EXCEPT !.at = s]
  <2>1. new.exists /\ new.at = s /\ new.gone = 0
    BY <1>3 DEF CrmRow
  <2> QED BY <1>1, <1>3, <2>1 DEF RowFits, EarlierOf, Known, UpdatedBy, DeletedBy, HasUpdate, Version
<1>4. CASE c.exists /\ c.gone = 0 /\ new = [c EXCEPT !.gone = s]
  <2>1. new.exists /\ new.at = c.at /\ new.gone = s
    BY <1>4 DEF CrmRow
  <2> QED BY <1>1, <1>4, <2>1 DEF RowFits, EarlierOf, Known, UpdatedBy, DeletedBy, HasUpdate, Version
<1>5. CASE c.exists /\ new = [exists |-> FALSE, at |-> s, gone |-> s]
  BY <1>1, <1>5 DEF RowFits, EarlierOf, Known, UpdatedBy, DeletedBy, HasUpdate, Version
<1> QED BY <1>2, <1>3, <1>4, <1>5 DEF Becomes

LEMMA ChangeHolds ==
  ASSUME CInv, NEW p \in Persons, NEW new \in CrmRow, Becomes(crm[p], new, TwentyTime),
         changes < MaxChanges, changes' = changes + 1, crm' = [crm EXCEPT ![p] = new],
         mail' \in {mail, mail \cup {<<p, [at |-> new.at, gone |-> new.gone]>>}},
         UNCHANGED <<row, marks, fullDue, pass, failures>>
  PROVE  CInv'
<1>1. /\ crm \in [Persons -> CrmRow] /\ row \in [Persons -> Row] /\ changes \in Nat
      /\ mail \subseteq Persons \X Version /\ pass \in Pass /\ marks \in [Listings -> Nat]
  BY DEF CInv, TypeOK
<1>2. TypeOK'
  <2>1. [at |-> new.at, gone |-> new.gone] \in Version
    BY DEF CrmRow, Version
  <2>2. mail' \subseteq Persons \X Version /\ crm' \in [Persons -> CrmRow]
    BY <1>1, <2>1
  <2>3. changes' \in 0 .. MaxChanges
    BY PersonCacheAssumption DEF CInv, TypeOK
  <2> QED BY <2>2, <2>3 DEF CInv, TypeOK
<1>3. /\ crm'[p] = new
      /\ \A q \in Persons \ {p} : crm'[q] = crm[q]
  BY <1>1
<1>4. ASSUME NEW q \in Persons, q # p
      PROVE  crm'[q].at <= 2 * changes' /\ crm'[q].gone <= 2 * changes'
  <2>1. crm[q].at \in Nat /\ crm[q].gone \in Nat
    BY <1>1 DEF CrmRow
  <2> QED BY <1>1, <1>3, <1>4, <2>1 DEF CInv, WorldFits, StampsFit
<1> DEFINE c == crm[p]
           r == row[p]
<1>5. /\ new.at <= 2 * changes + 2 /\ new.gone <= 2 * changes + 2
      /\ new.exists /\ new.gone # 0 => new.at < new.gone
      /\ RowFits(new, r)
      /\ EarlierOf([at |-> new.at, gone |-> new.gone], new)
      /\ \A v \in Version : EarlierOf(v, c) => EarlierOf(v, new)
      /\ \A t \in 0 .. 2 * changes + 1 :
           /\ UpdatedBy(c, r, t) => UpdatedBy(new, r, t)
           /\ DeletedBy(c, r, t) => DeletedBy(new, r, t)
           /\ new.at < t => new.at = c.at
           /\ new.gone # 0 /\ new.gone < t => new.gone = c.gone
      /\ new.exists /\ r.cached => c.exists
  <2>1. c \in CrmRow /\ r \in Row /\ c.at <= 2 * changes /\ c.gone <= 2 * changes /\ RowFits(c, r)
    BY <1>1 DEF CInv, WorldFits, StampsFit, RowsFit
  <2> HIDE DEF c, r
  <2>2. Becomes(c, new, 2 * changes + 2)
    BY DEF TwentyTime, c
  <2> QED BY <1>1, <2>1, <2>2, BecomingFits
<1> HIDE DEF c, r
<1>6. StampsFit'
  BY <1>1, <1>3, <1>4, <1>5 DEF CInv, WorldFits, StampsFit
<1>7. RowsFit'
  BY <1>3, <1>5 DEF CInv, WorldFits, RowsFit, r
<1>8. \A m \in Persons \X Version : EarlierOf(m[2], crm[m[1]]) => EarlierOf(m[2], crm'[m[1]])
  <2> SUFFICES ASSUME NEW q \in Persons, NEW v \in Version, EarlierOf(v, crm[q])
               PROVE  EarlierOf(v, crm'[q])
    OBVIOUS
  <2> QED BY <1>3, <1>5 DEF c
<1>9. MailFits'
  <2>1. ASSUME NEW m \in mail PROVE EarlierOf(m[2], crm'[m[1]])
    BY <1>1, <1>8, <2>1 DEF CInv, WorldFits, MailFits
  <2>2. ASSUME NEW m, m = <<p, [at |-> new.at, gone |-> new.gone]>> PROVE EarlierOf(m[2], crm'[m[1]])
    BY <1>3, <1>5, <2>2
  <2> QED BY <2>1, <2>2 DEF MailFits
<1>10. /\ pass.page \subseteq Persons \X Version /\ pass.started \in Nat
  BY <1>1 DEF Pass
<1>11. PageFits'
  BY <1>8, <1>10 DEF CInv, PassFits, PageFits
<1>12. /\ marks["people"] \in 0 .. 2 * changes + 1 /\ marks["deletedPeople"] \in 0 .. 2 * changes + 1
       /\ pass.do # "idle" => pass.started \in 0 .. 2 * changes + 1
  BY <1>1, <1>10 DEF CInv, WorldFits, MarksFit, PassFits, PassBegan, CadenceTime, Listings
<1>13. MarksFit'
  <2>1. \A l \in Listings : marks'[l] <= 2 * changes' + 1
    BY <1>1 DEF CInv, WorldFits, MarksFit, CadenceTime
  <2>2. ASSUME NEW q \in Persons
        PROVE  /\ UpdatedBy(crm'[q], row[q], marks["people"])
               /\ DeletedBy(crm'[q], row[q], marks["deletedPeople"])
    BY <1>3, <1>5, <1>12 DEF CInv, WorldFits, MarksFit, c, r
  <2> QED BY <2>1, <2>2 DEF MarksFit, CadenceTime
<1>14. PassBegan'
  BY <1>1, <1>10 DEF CInv, PassFits, PassBegan, CadenceTime
<1>15. FullSees'
  <2>1. ASSUME NEW q \in Persons, Unseen(q)' PROVE Unseen(q)
    BY <1>3, <1>5, <2>1 DEF Unseen, c, r
  <2>2. \A q \in Persons : ToCome(q)' <=> ToCome(q)
    BY DEF ToCome
  <2> QED BY <2>1, <2>2 DEF CInv, PassFits, FullSees
<1>16. UpdatesListed'
  <2>1. ASSUME NEW q \in Persons, pass.do # "idle", UpdatedBy(crm[q], row[q], pass.started)
        PROVE  UpdatedBy(crm'[q], row[q], pass.started)
    BY <1>3, <1>5, <1>12, <2>1 DEF c, r
  <2>2. ASSUME NEW q \in Persons, pass.do # "idle", UpdateToCome(q)
        PROVE  UpdatedBy(crm'[q], row[q], pass.started) \/ UpdateToCome(q)'
    BY <1>3, <1>5, <1>12, <2>2 DEF UpdateToCome, UpdatedBy, c, r
  <2> QED BY <2>1, <2>2 DEF CInv, PassFits, UpdatesListed
<1>17. DeletionsListed'
  <2>1. ASSUME NEW q \in Persons, pass.do # "idle", DeletedBy(crm[q], row[q], pass.started)
        PROVE  DeletedBy(crm'[q], row[q], pass.started)
    BY <1>3, <1>5, <1>12, <2>1 DEF c, r
  <2>2. ASSUME NEW q \in Persons, pass.do # "idle", DeletionToCome(q)
        PROVE  DeletedBy(crm'[q], row[q], pass.started) \/ DeletionToCome(q)'
    BY <1>3, <1>5, <1>12, <2>2 DEF DeletionToCome, DeletedBy, c, r
  <2> QED BY <2>1, <2>2 DEF CInv, PassFits, DeletionsListed
<1> QED BY <1>2, <1>6, <1>7, <1>9, <1>11, <1>13, <1>14, <1>15, <1>16, <1>17
        DEF CInv, WorldFits, PassFits, RecordsAreStored

-----------------------------------------------------------------------------
(* Records stored, and steps of a pass. *)

LEMMA RowsKept ==
  ASSUME CInv, row' \in [Persons -> Row], RowsKeep, mail' \subseteq mail, UNCHANGED <<crm, marks, changes>>
  PROVE  WorldFits'
<1>1. StampsFit' /\ RowsFit' /\ MailFits'
  BY DEF CInv, WorldFits, StampsFit, RowsFit, MailFits, RowsKeep
<1>2. MarksFit'
  <2>1. \A p \in Persons : UpdatedBy(crm[p], row'[p], marks["people"])
                           /\ DeletedBy(crm[p], row'[p], marks["deletedPeople"])
    BY DEF CInv, WorldFits, MarksFit, RowsKeep, UpdatedBy, DeletedBy
  <2> QED BY <2>1 DEF CInv, WorldFits, MarksFit, CadenceTime
<1> QED BY <1>1, <1>2 DEF WorldFits

LEMMA RowsSame ==
  ASSUME CInv, UNCHANGED row
  PROVE  row' \in [Persons -> Row] /\ RowsKeep
BY DEF CInv, TypeOK, WorldFits, RowsFit, RowsKeep

(* What is listed stays listed. *)
LEMMA ListedStays ==
  ASSUME RowsKeep, UNCHANGED crm, NEW p \in Persons, NEW t
  PROVE  /\ UpdatedBy(crm[p], row[p], t) => UpdatedBy(crm[p], row'[p], t)
         /\ DeletedBy(crm[p], row[p], t) => DeletedBy(crm[p], row'[p], t)
BY DEF RowsKeep, UpdatedBy, DeletedBy

LEMMA DeliverHolds ==
  ASSUME CInv, NEW m \in mail, Deliver(m[1], m[2])
  PROVE  CInv' /\ RowsKeep
<1> DEFINE p == m[1]
           v == m[2]
<1>1. /\ p \in Persons /\ v \in Version /\ v.gone \in Nat
      /\ crm \in [Persons -> CrmRow] /\ row \in [Persons -> Row]
  BY DEF CInv, TypeOK, Version
<1>2. EarlierOf(v, crm[p]) /\ RowFits(crm[p], row[p])
      /\ (crm[p].exists /\ crm[p].gone # 0 => crm[p].at < crm[p].gone)
  BY <1>1 DEF CInv, WorldFits, StampsFit, RowsFit, MailFits
<1> DEFINE new == IF v.gone # 0 THEN MarkedDeleted(row[p], v.gone) ELSE Upserted(row[p], v)
<1>3. row' = [row EXCEPT ![p] = new] /\ mail' \subseteq mail /\ UNCHANGED <<crm, marks, fullDue, pass, changes, failures>>
  BY DEF Deliver
<1> HIDE DEF p, v
<1>4. /\ new \in Row /\ RowFits(crm[p], new)
      /\ crm[p].exists /\ HasUpdate(crm[p], row[p]) => HasUpdate(crm[p], new)
      /\ crm[p].exists /\ crm[p].gone # 0 /\ row[p].gone = crm[p].gone => new.gone = crm[p].gone
      /\ new.cached /\ ~ new.touched => row[p].cached /\ ~ row[p].touched
  <2>1. crm[p] \in CrmRow /\ row[p] \in Row
    BY <1>1
  <2>2. CASE v.gone # 0
    BY <1>1, <1>2, <2>1, <2>2, MarkingFits
  <2>3. CASE v.gone = 0
    BY <1>1, <1>2, <2>1, <2>3, UpsertFits
  <2> QED BY <2>2, <2>3
<1> HIDE DEF new
<1>5. row' \in [Persons -> Row] /\ RowsKeep
  BY <1>1, <1>3, <1>4 DEF RowsKeep, CInv, WorldFits, RowsFit
<1>6. WorldFits'
  BY <1>3, <1>5, RowsKept
<1>7. TypeOK'
  BY <1>3, <1>5 DEF CInv, TypeOK
<1>8. PassFits'
  <2>1. ASSUME NEW q \in Persons, Unseen(q)' PROVE Unseen(q)
    BY <1>1, <1>3, <1>4, <2>1 DEF Unseen
  <2>2. FullSees'
    BY <1>3, <2>1 DEF CInv, PassFits, FullSees, ToCome
  <2>3. UpdatesListed' /\ DeletionsListed'
    BY <1>3, <1>5, ListedStays DEF CInv, PassFits, UpdatesListed, DeletionsListed, UpdateToCome, DeletionToCome
  <2>4. PageFits' /\ PassBegan'
    BY <1>3 DEF CInv, PassFits, PageFits, PassBegan, CadenceTime
  <2> QED BY <2>2, <2>3, <2>4 DEF PassFits
<1> QED BY <1>5, <1>6, <1>7, <1>8 DEF CInv, RecordsAreStored

LEMMA StoreRecordHolds ==
  ASSUME CInv, StoreRecord
  PROVE  CInv' /\ RowsKeep
<1>1. PICK m \in pass.page : /\ row' = [row EXCEPT ![m[1]] = Upserted(@, m[2])]
                             /\ pass' = [pass EXCEPT !.page = {}]
                             /\ UNCHANGED <<crm, mail, changes, marks, fullDue, failures>>
  BY DEF StoreRecord, Tick, CInv, RecordsAreStored
<1> DEFINE p == m[1]
           v == m[2]
<1>2. /\ p \in Persons /\ v \in Version
      /\ crm \in [Persons -> CrmRow] /\ row \in [Persons -> Row] /\ pass \in Pass
  BY DEF CInv, TypeOK, Pass
<1>3. EarlierOf(v, crm[p]) /\ RowFits(crm[p], row[p])
      /\ (crm[p].exists /\ crm[p].gone # 0 => crm[p].at < crm[p].gone)
  BY <1>2 DEF CInv, WorldFits, StampsFit, RowsFit, PassFits, PageFits
<1>4. pass.page = {m}
  BY DEF CInv, PassFits, PageFits
<1> DEFINE new == Upserted(row[p], v)
<1>5. /\ new \in Row /\ RowFits(crm[p], new) /\ new.touched
      /\ crm[p].exists /\ HasUpdate(crm[p], row[p]) => HasUpdate(crm[p], new)
      /\ crm[p].exists /\ crm[p].gone # 0 /\ row[p].gone = crm[p].gone => new.gone = crm[p].gone
      /\ crm[p].exists /\ v.at = crm[p].at => HasUpdate(crm[p], new)
      /\ crm[p].exists /\ crm[p].gone # 0 /\ v.gone = crm[p].gone => new.gone = crm[p].gone
  <2> HIDE DEF p, v
  <2>1. crm[p] \in CrmRow /\ row[p] \in Row
    BY <1>2
  <2> QED BY <1>2, <1>3, <2>1, UpsertFits
<1>6. row' = [row EXCEPT ![p] = new]
  BY <1>1
<1> HIDE DEF p, v, new
<1>7. row' \in [Persons -> Row] /\ RowsKeep
  BY <1>1, <1>2, <1>5, <1>6 DEF RowsKeep, CInv, WorldFits, RowsFit
<1>8. WorldFits'
  BY <1>1, <1>7, RowsKept
<1>9. /\ pass' \in Pass /\ pass'.page = {} /\ pass'.do = pass.do /\ pass'.todo = pass.todo
      /\ pass'.since = pass.since /\ pass'.started = pass.started /\ pass'.stopped = pass.stopped
  BY <1>1, <1>2 DEF Pass
<1>10. TypeOK'
  BY <1>1, <1>7, <1>9 DEF CInv, TypeOK
<1>11. \A q \in Persons \ {p} : row'[q] = row[q]
  BY <1>2, <1>6
<1>12. row'[p] = new
  BY <1>2, <1>6
<1>13. FullSees'
  <2>1. ASSUME NEW q \in Persons, Unseen(q)' PROVE q # p /\ Unseen(q)
    BY <1>1, <1>5, <1>11, <1>12, <2>1 DEF Unseen
  <2>2. ASSUME NEW q \in Persons, q # p, ToCome(q) PROVE ToCome(q)'
    BY <1>4, <1>9, <2>2 DEF ToCome, p
  <2> QED BY <1>9, <2>1, <2>2 DEF CInv, PassFits, FullSees
<1>14. UpdatesListed'
  <2>1. ASSUME NEW q \in Persons, UpdateToCome(q)
        PROVE  UpdatedBy(crm[q], row'[q], pass.started) \/ UpdateToCome(q)'
    <3>1. CASE q \in pass.todo
      BY <1>9, <3>1 DEF UpdateToCome
    <3>2. CASE q = p /\ v.at = crm[p].at
      BY <1>5, <1>12, <3>2 DEF UpdatedBy
    <3> QED BY <1>4, <2>1, <3>1, <3>2 DEF UpdateToCome, p, v
  <2> QED BY <1>1, <1>7, <1>9, <2>1, ListedStays DEF CInv, PassFits, UpdatesListed
<1>15. DeletionsListed'
  <2>1. ASSUME NEW q \in Persons, DeletionToCome(q)
        PROVE  DeletedBy(crm[q], row'[q], pass.started) \/ DeletionToCome(q)'
    <3>1. CASE q \in pass.todo
      BY <1>9, <3>1 DEF DeletionToCome
    <3>2. CASE q = p /\ v.gone = crm[p].gone
      BY <1>5, <1>12, <3>2 DEF DeletedBy
    <3> QED BY <1>4, <2>1, <3>1, <3>2 DEF DeletionToCome, p, v
  <2> QED BY <1>1, <1>7, <1>9, <2>1, ListedStays DEF CInv, PassFits, DeletionsListed
<1>16. PageFits' /\ PassBegan'
  BY <1>1, <1>9 DEF CInv, PassFits, PageFits, PassBegan, CadenceTime
<1> QED BY <1>7, <1>8, <1>10, <1>13, <1>14, <1>15, <1>16 DEF CInv, PassFits, RecordsAreStored

LEMMA StartPassHolds ==
  ASSUME CInv, StartPass
  PROVE  CInv' /\ RowsKeep
<1>1. /\ row \in [Persons -> Row] /\ marks \in [Listings -> Nat] /\ changes \in Nat
  BY DEF CInv, TypeOK
<1> DEFINE full == FullNow
           next == [NoPass EXCEPT !.do = IF full THEN "full" ELSE "people", !.since = marks,
                                  !.started = CadenceTime, !.todo = Persons, !.full = full]
<1>2. /\ pass' = next
      /\ row' = IF full THEN [p \in Persons |-> [row[p] EXCEPT !.touched = FALSE]] ELSE row
      /\ UNCHANGED <<crm, mail, changes, marks, fullDue, failures>>
  BY DEF StartPass, Tick
<1>3. full \in BOOLEAN /\ CadenceTime \in Nat
  BY <1>1 DEF FullNow, CInv, TypeOK, CadenceTime
<1>4. /\ next \in Pass /\ next.do \in {"full", "people"} /\ next.since = marks
      /\ next.started = CadenceTime /\ next.todo = Persons /\ next.page = {}
  BY <1>1, <1>3 DEF NoPass, Pass
<1> HIDE DEF next, full
<1>5. \A p \in Persons : /\ row'[p] \in Row /\ row'[p].cached = row[p].cached
                         /\ row'[p].at = row[p].at /\ row'[p].gone = row[p].gone
  BY <1>1, <1>2 DEF Row
<1>6. row' \in [Persons -> Row]
  BY <1>1, <1>2, <1>5
<1>7. RowsKeep
  BY <1>5 DEF RowsKeep, RowFits, HasUpdate, CInv, WorldFits, RowsFit
<1>8. WorldFits'
  BY <1>2, <1>6, <1>7, RowsKept
<1>9. TypeOK'
  BY <1>2, <1>4, <1>6 DEF CInv, TypeOK
<1>10. PassFits'
  <2>1. CadenceTime' = CadenceTime /\ CadenceTime <= CadenceTime
    BY <1>2, <1>3 DEF CadenceTime
  <2>2. PageFits' /\ PassBegan'
    BY <1>2, <1>4, <2>1 DEF PageFits, PassBegan
  <2>3. \A p \in Persons : ToCome(p)' /\ UpdateToCome(p)' /\ DeletionToCome(p)'
    BY <1>2, <1>4 DEF ToCome, UpdateToCome, DeletionToCome
  <2>4. FullSees' /\ UpdatesListed' /\ DeletionsListed'
    BY <1>2, <1>4, <2>3 DEF FullSees, UpdatesListed, DeletionsListed
  <2> QED BY <2>2, <2>4 DEF PassFits
<1> QED BY <1>7, <1>8, <1>9, <1>10 DEF CInv, RecordsAreStored

(* A step that stores nothing. *)
LEMMA NothingStored ==
  ASSUME CInv, UNCHANGED <<crm, row, mail, marks, changes>>, pass' \in Pass, PassFits',
         fullDue' \in BOOLEAN, failures' \in 0 .. MaxFailures
  PROVE  CInv'
<1>1. WorldFits'
  BY RowsSame, RowsKept
<1> QED BY <1>1 DEF CInv, TypeOK, RecordsAreStored

LEMMA FailCounts ==
  ASSUME CInv, Fail
  PROVE  failures' \in 0 .. MaxFailures
BY PersonCacheAssumption DEF Fail, CInv, TypeOK

LEMMA IdleFits ==
  ASSUME pass' = NoPass
  PROVE  pass' \in Pass /\ PassFits'
BY DEF NoPass, Pass, PassFits, PageFits, PassBegan, FullSees, UpdatesListed, DeletionsListed

(* What is listed of a person once the page with them is read. *)
LEMMA ReadPageHolds ==
  ASSUME CInv, ReadPage
  PROVE  CInv'
<1>1. /\ pass \in Pass /\ crm \in [Persons -> CrmRow] /\ changes \in Nat
      /\ pass.do \in {"full", "people", "deletedPeople"} /\ pass.page = {}
      /\ UNCHANGED <<crm, row, mail, marks, changes, fullDue, failures>>
  BY DEF ReadPage, Tick, CInv, TypeOK
<1>2. PICK p \in pass.todo :
        pass' = [pass EXCEPT !.todo = @ \ {p},
                             !.page = IF Listed(p) THEN {<<p, [at |-> crm[p].at, gone |-> crm[p].gone]>>}
                                      ELSE {}]
  BY DEF ReadPage, Tick
<1> DEFINE v == [at |-> crm[p].at, gone |-> crm[p].gone]
           page == IF Listed(p) THEN {<<p, v>>} ELSE {}
<1>3. p \in Persons /\ crm[p] \in CrmRow /\ v \in Version /\ v.at = crm[p].at /\ v.gone = crm[p].gone
  BY <1>1 DEF Pass, CrmRow, Version
<1>4. /\ pass' \in Pass /\ pass'.page = page /\ pass'.do = pass.do /\ pass'.todo = pass.todo \ {p}
      /\ pass'.since = pass.since /\ pass'.started = pass.started /\ pass'.stopped = pass.stopped
  <2>1. page \in SUBSET (Persons \X Version)
    BY <1>3
  <2> QED BY <1>1, <1>2, <2>1 DEF Pass
<1>5. Listed(p) => EarlierOf(v, crm[p])
  BY <1>3 DEF Listed, EarlierOf, Known, CrmRow
<1>6. PageFits'
  <2> HIDE DEF v
  <2>1. ASSUME NEW m \in page PROVE m = <<p, v>> /\ Listed(p) /\ page = {m}
    BY <2>1
  <2> HIDE DEF page
  <2> QED BY <1>1, <1>4, <1>5, <2>1 DEF PageFits
<1>7. PassBegan'
  BY <1>1, <1>4 DEF CInv, PassFits, PassBegan, CadenceTime
<1>8. Listed(p) => \E m \in pass'.page : m[1] = p /\ m[2].at = crm[p].at /\ m[2].gone = crm[p].gone
  <2>1. v.at = crm[p].at /\ v.gone = crm[p].gone
    BY <1>3
  <2> HIDE DEF v
  <2>2. Listed(p) => <<p, v>> \in pass'.page
    BY <1>4
  <2> QED BY <2>1, <2>2
<1> HIDE DEF v, page
<1>9. ASSUME NEW q \in Persons, q # p
      PROVE  /\ ToCome(q) => ToCome(q)'
             /\ UpdateToCome(q) => UpdateToCome(q)'
             /\ DeletionToCome(q) => DeletionToCome(q)'
  BY <1>1, <1>4, <1>9 DEF ToCome, UpdateToCome, DeletionToCome
<1>10. FullSees'
  <2>1. pass.do = "full" /\ crm[p].exists => ToCome(p)'
    BY <1>8 DEF Listed, ToCome
  <2>2. \A q \in Persons : Unseen(q)' <=> Unseen(q)
    BY <1>1 DEF Unseen
  <2> QED BY <1>1, <1>4, <1>9, <2>1, <2>2 DEF CInv, PassFits, FullSees, Unseen
<1>11. UpdatesListed'
  <2>1. pass.do = "people" => UpdatedBy(crm[p], row[p], pass.started) \/ UpdateToCome(p)'
    <3>1. CASE pass.do = "people" /\ Listed(p)
      BY <1>1, <1>8, <3>1 DEF UpdateToCome
    <3>2. CASE pass.do = "people" /\ ~ Listed(p)
      <4>1. ~ crm[p].exists \/ crm[p].at < marks["people"]
        <5>1. marks["people"] \in Nat /\ crm[p].at \in Nat /\ pass.since = marks
          BY <1>3, <3>2 DEF CInv, TypeOK, Listings, CrmRow, PassFits, PassBegan
        <5> QED BY <3>2, <5>1 DEF Listed
      <4> QED BY <1>3, <4>1 DEF CInv, WorldFits, MarksFit, UpdatedBy
    <3> QED BY <3>1, <3>2
  <2> QED BY <1>1, <1>4, <1>9, <2>1 DEF CInv, PassFits, UpdatesListed
<1>12. DeletionsListed'
  <2>1. pass.do = "deletedPeople" => DeletedBy(crm[p], row[p], pass.started) \/ DeletionToCome(p)'
    <3>1. CASE pass.do = "deletedPeople" /\ Listed(p)
      BY <1>1, <1>8, <3>1 DEF DeletionToCome
    <3>2. CASE pass.do = "deletedPeople" /\ ~ Listed(p)
      <4>1. ~ crm[p].exists \/ crm[p].gone = 0 \/ crm[p].gone < marks["deletedPeople"]
        <5>1. marks["deletedPeople"] \in Nat /\ crm[p].gone \in Nat /\ pass.since = marks
          BY <1>3, <3>2 DEF CInv, TypeOK, Listings, CrmRow, PassFits, PassBegan
        <5> QED BY <3>2, <5>1 DEF Listed
      <4> QED BY <1>3, <4>1 DEF CInv, WorldFits, MarksFit, DeletedBy
    <3> QED BY <3>1, <3>2
  <2> QED BY <1>1, <1>4, <1>9, <2>1 DEF CInv, PassFits, DeletionsListed
<1>13. PassFits'
  BY <1>6, <1>7, <1>10, <1>11, <1>12 DEF PassFits
<1> QED BY <1>1, <1>4, <1>13, NothingStored DEF CInv, TypeOK

(* The next stage begins with everyone to read, nobody on the page. *)
LEMMA Onwards ==
  ASSUME CInv, NEW do \in {"remove", "people", "deletedPeople", "save"}, pass.page = {}
  PROVE  /\ Onward(do) \in Pass /\ Onward(do).do = do /\ Onward(do).todo = Persons
         /\ Onward(do).page = {} /\ Onward(do).since = pass.since /\ Onward(do).started = pass.started
         /\ Onward(do).stopped = pass.stopped
<1>1. pass \in Pass
  BY DEF CInv, TypeOK
<1> QED BY <1>1 DEF Onward, Pass

LEMMA EndListingHolds ==
  ASSUME CInv, EndListing
  PROVE  CInv'
<1>1. /\ pass.do \in {"full", "people", "deletedPeople"} /\ pass.page = {} /\ pass.todo = {}
      /\ UNCHANGED <<crm, row, mail, marks, changes, fullDue, failures>>
      /\ pass' = Onward(After(pass.do))
  BY DEF EndListing, Tick
<1> DEFINE do == After(pass.do)
<1>2. /\ do \in {"remove", "deletedPeople", "save"}
      /\ do = "remove" <=> pass.do = "full"
      /\ do = "deletedPeople" <=> pass.do = "people"
      /\ do = "save" <=> pass.do = "deletedPeople"
  BY <1>1 DEF After
<1> HIDE DEF do
<1>3. /\ pass' \in Pass /\ pass'.do = do /\ pass'.todo = Persons /\ pass'.page = {}
      /\ pass'.since = pass.since /\ pass'.started = pass.started /\ pass'.stopped = pass.stopped
  BY <1>1, <1>2, Onwards DEF do
<1>4. \A p : ~ ToCome(p) /\ ~ UpdateToCome(p) /\ ~ DeletionToCome(p)
  BY <1>1 DEF ToCome, UpdateToCome, DeletionToCome
<1>5. PageFits' /\ PassBegan'
  BY <1>1, <1>3 DEF CInv, PassFits, PageFits, PassBegan, CadenceTime
<1>6. FullSees'
  <2>1. \A p \in Persons : Unseen(p)' <=> Unseen(p)
    BY <1>1 DEF Unseen
  <2> QED BY <1>1, <1>2, <1>3, <1>4, <2>1 DEF CInv, PassFits, FullSees
<1>7. UpdatesListed'
  BY <1>1, <1>2, <1>3, <1>4 DEF CInv, PassFits, UpdatesListed
<1>8. DeletionsListed'
  BY <1>1, <1>2, <1>3, <1>4 DEF CInv, PassFits, DeletionsListed, DeletionToCome
<1> QED BY <1>1, <1>3, <1>5, <1>6, <1>7, <1>8, NothingStored DEF CInv, TypeOK, PassFits

LEMMA StopListingHolds ==
  ASSUME CInv, StopListing
  PROVE  CInv'
<1>1. /\ pass.do \in {"full", "people", "deletedPeople"} /\ pass.page = {}
      /\ UNCHANGED <<crm, row, mail, marks, changes, fullDue>>
      /\ failures' \in 0 .. MaxFailures /\ fullDue' \in BOOLEAN
  BY FailCounts DEF StopListing, Tick, CInv, TypeOK
<1>2. CASE pass' = NoPass
  BY <1>1, <1>2, IdleFits, NothingStored
<1>3. ASSUME pass.do = "full", pass' = [Onward(AfterStopped) EXCEPT !.stopped = @ \cup {"full"}]
      PROVE  CInv'
  <2>1. /\ pass' \in Pass /\ pass'.do = "people" /\ pass'.todo = Persons /\ pass'.page = {}
        /\ pass'.since = pass.since /\ pass'.started = pass.started
    BY <1>1, <1>3, Onwards DEF AfterStopped, Pass
  <2>2. PassFits'
    BY <1>1, <1>3, <2>1 DEF CInv, PassFits, PageFits, PassBegan, FullSees, UpdatesListed,
       DeletionsListed, UpdateToCome, CadenceTime
  <2> QED BY <1>1, <2>1, <2>2, NothingStored
<1>4. ASSUME pass.do = "deletedPeople", pass' = [Onward("save") EXCEPT !.stopped = @ \cup {"deletedPeople"}]
      PROVE  CInv'
  <2>1. /\ pass' \in Pass /\ pass'.do = "save" /\ pass'.todo = Persons /\ pass'.page = {}
        /\ pass'.since = pass.since /\ pass'.started = pass.started /\ "deletedPeople" \in pass'.stopped
    BY <1>1, <1>4, Onwards DEF Pass, Listings
  <2>2. PassFits'
    BY <1>1, <1>4, <2>1 DEF CInv, PassFits, PageFits, PassBegan, FullSees, UpdatesListed,
       DeletionsListed, CadenceTime
  <2> QED BY <1>1, <2>1, <2>2, NothingStored
<1> QED BY <1>2, <1>3, <1>4 DEF StopListing, Tick

(* The clean-up takes only who is no longer in Twenty. *)
LEMMA RemoveUnseenHolds ==
  ASSUME CInv, RemoveUnseen
  PROVE  CInv' /\ RowsKeep
<1>1. /\ pass.do = "remove" /\ pass' = Onward("people")
      /\ row' = [p \in Persons |->
                   IF row[p].cached /\ row[p].gone = 0 /\ ~ row[p].touched
                   THEN [row[p] EXCEPT !.gone = pass.started] ELSE row[p]]
      /\ UNCHANGED <<crm, mail, marks, changes, fullDue, failures>>
  BY DEF RemoveUnseen, Tick
<1>2. row \in [Persons -> Row] /\ pass \in Pass /\ pass.started \in Nat
  BY DEF CInv, TypeOK, Pass
<1>3. ASSUME NEW p \in Persons
      PROVE  /\ row'[p] \in Row /\ row'[p].cached = row[p].cached /\ row'[p].at = row[p].at
             /\ crm[p].exists => row'[p] = row[p]
             /\ ~ row[p].cached => row'[p] = row[p]
  BY <1>1, <1>2 DEF Row, CInv, PassFits, FullSees, Unseen
<1>4. row' \in [Persons -> Row]
  BY <1>1, <1>3
<1>5. RowsKeep
  BY <1>3 DEF RowsKeep, RowFits, CInv, WorldFits, RowsFit
<1>6. WorldFits'
  BY <1>1, <1>4, <1>5, RowsKept
<1>7. PassFits' /\ pass' \in Pass
  <2>1. pass.page = {}
    BY <1>1 DEF CInv, PassFits, PageFits
  <2>2. /\ pass' \in Pass /\ pass'.do = "people" /\ pass'.todo = Persons /\ pass'.page = {}
        /\ pass'.since = pass.since /\ pass'.started = pass.started
    BY <1>1, <2>1, Onwards
  <2> QED BY <1>1, <2>1, <2>2 DEF CInv, PassFits, PageFits, PassBegan, FullSees, UpdatesListed,
       DeletionsListed, UpdateToCome, CadenceTime
<1> QED BY <1>1, <1>4, <1>5, <1>6, <1>7 DEF CInv, TypeOK, RecordsAreStored

LEMMA SavePassHolds ==
  ASSUME CInv, SavePass
  PROVE  CInv'
<1>1. /\ pass.do = "save" /\ pass' = NoPass
      /\ marks' = [l \in Listings |-> IF l \in pass.stopped THEN marks[l] ELSE pass.started]
      /\ fullDue' \in BOOLEAN /\ UNCHANGED <<crm, row, mail, changes, failures>>
  BY DEF SavePass, Tick, NewMark, CInv, TypeOK
<1>2. /\ marks \in [Listings -> Nat] /\ pass.started \in Nat /\ pass.started <= CadenceTime
  BY <1>1 DEF CInv, TypeOK, Pass, PassFits, PassBegan
<1>3. /\ marks' \in [Listings -> Nat]
      /\ \A l \in Listings : marks'[l] <= 2 * changes' + 1
  BY <1>1, <1>2 DEF CInv, WorldFits, MarksFit, CadenceTime
<1>4. ASSUME NEW p \in Persons
      PROVE  /\ UpdatedBy(crm[p], row[p], marks'["people"])
             /\ DeletedBy(crm[p], row[p], marks'["deletedPeople"])
  <2>1. marks'["people"] \in {marks["people"], pass.started}
    BY <1>1 DEF Listings
  <2>2. \/ marks'["deletedPeople"] = marks["deletedPeople"]
        \/ marks'["deletedPeople"] = pass.started /\ "deletedPeople" \notin pass.stopped
    BY <1>1 DEF Listings
  <2>3. /\ UpdatedBy(crm[p], row[p], marks["people"])
        /\ DeletedBy(crm[p], row[p], marks["deletedPeople"])
    BY DEF CInv, WorldFits, MarksFit
  <2>4. /\ UpdatedBy(crm[p], row[p], pass.started)
        /\ "deletedPeople" \notin pass.stopped => DeletedBy(crm[p], row[p], pass.started)
    BY <1>1 DEF CInv, PassFits, UpdatesListed, DeletionsListed
  <2> QED BY <2>1, <2>2, <2>3, <2>4
<1>5. WorldFits'
  BY <1>1, <1>3, <1>4 DEF CInv, WorldFits, StampsFit, RowsFit, MailFits, MarksFit, CadenceTime
<1>6. pass' \in Pass /\ PassFits'
  BY <1>1, IdleFits
<1> QED BY <1>1, <1>3, <1>5, <1>6 DEF CInv, TypeOK, RecordsAreStored

LEMMA NewDayHolds ==
  ASSUME CInv, NewDay
  PROVE  CInv'
<1>1. UNCHANGED <<crm, row, mail, marks, pass, changes, failures>> /\ fullDue' \in BOOLEAN
  BY DEF NewDay
<1>2. PassFits'
  BY <1>1 DEF CInv, PassFits, PageFits, PassBegan, FullSees, UpdatesListed, DeletionsListed,
     ToCome, UpdateToCome, DeletionToCome, Unseen, CadenceTime
<1> QED BY <1>1, <1>2, NothingStored DEF CInv, TypeOK

LEMMA RestartHolds ==
  ASSUME CInv, Restart
  PROVE  CInv'
BY IdleFits, FailCounts, NothingStored DEF Restart, Tick, CInv, TypeOK

-----------------------------------------------------------------------------
(* Twenty's own changes, and the whole. *)

LEMMA TwentyHolds ==
  ASSUME CInv, NEW p \in Persons, Create(p) \/ Edit(p) \/ Delete(p) \/ Destroy(p)
  PROVE  CInv'
<1>1. crm[p] \in CrmRow /\ TwentyTime \in Nat
  BY DEF CInv, TypeOK, TwentyTime
<1>2. CASE Create(p)
  <2> DEFINE new == [exists |-> TRUE, at |-> TwentyTime, gone |-> 0]
  <2>1. new \in CrmRow /\ Becomes(crm[p], new, TwentyTime) /\ Change(p, new)
    BY <1>1, <1>2 DEF Create, CrmRow, Becomes
  <2> HIDE DEF new
  <2> QED BY <2>1, ChangeHolds DEF Change
<1>3. CASE Edit(p)
  <2> DEFINE new == [crm[p] EXCEPT !.at = TwentyTime]
  <2>1. new \in CrmRow /\ Becomes(crm[p], new, TwentyTime) /\ Change(p, new)
    BY <1>1, <1>3 DEF Edit, Live, CrmRow, Becomes
  <2> HIDE DEF new
  <2> QED BY <2>1, ChangeHolds DEF Change
<1>4. CASE Delete(p)
  <2> DEFINE new == [crm[p] EXCEPT !.gone = TwentyTime]
  <2>1. new \in CrmRow /\ Becomes(crm[p], new, TwentyTime) /\ Change(p, new)
    BY <1>1, <1>4 DEF Delete, Live, CrmRow, Becomes
  <2> HIDE DEF new
  <2> QED BY <2>1, ChangeHolds DEF Change
<1>5. CASE Destroy(p)
  <2> DEFINE new == [exists |-> FALSE, at |-> TwentyTime, gone |-> TwentyTime]
  <2>1. /\ new \in CrmRow /\ Becomes(crm[p], new, TwentyTime)
        /\ changes < MaxChanges /\ changes' = changes + 1 /\ crm' = [crm EXCEPT ![p] = new]
        /\ UNCHANGED <<row, mail, marks, fullDue, pass, failures>>
    BY <1>1, <1>5 DEF Destroy, CrmRow, Becomes
  <2> HIDE DEF new
  <2> QED BY <2>1, ChangeHolds
<1> QED BY <1>2, <1>3, <1>4, <1>5

LEMMA Initially == Init /\ RecordsAreStored => CInv
<1> SUFFICES ASSUME Init, RecordsAreStored PROVE CInv
  OBVIOUS
<1>1. pass \in Pass /\ PassFits
  BY DEF Init, NoPass, Pass, PassFits, PageFits, PassBegan, FullSees, UpdatesListed, DeletionsListed
<1>2. TypeOK
  <2>1. crm \in [Persons -> CrmRow] /\ row \in [Persons -> Row]
    BY DEF Init, CrmRow, Row
  <2> QED BY <1>1, <2>1, PersonCacheAssumption DEF Init, TypeOK, Version
<1>3. \A p \in Persons : crm[p].at = 0 /\ crm[p].gone = 0
  BY DEF Init
<1>4. WorldFits
  BY <1>3 DEF Init, WorldFits, StampsFit, RowsFit, RowFits, MailFits, MarksFit, CadenceTime, UpdatedBy, DeletedBy, Listings
<1> QED BY <1>1, <1>2, <1>4 DEF CInv

LEMMA Stutters ==
  ASSUME CInv, UNCHANGED vars
  PROVE  CInv'
<1>1. UNCHANGED <<crm, row, mail, marks, fullDue, pass, changes, failures>>
  BY DEF vars
<1>2. PassFits'
  BY <1>1 DEF CInv, PassFits, PageFits, PassBegan, FullSees, UpdatesListed, DeletionsListed,
     ToCome, UpdateToCome, DeletionToCome, Unseen, CadenceTime
<1> QED BY <1>1, <1>2, NothingStored DEF CInv, TypeOK

LEMMA Inductive == CInv /\ [Next]_vars => CInv'
BY TwentyHolds, DeliverHolds, StartPassHolds, ReadPageHolds, StoreRecordHolds, EndListingHolds,
   StopListingHolds, RemoveUnseenHolds, SavePassHolds, NewDayHolds, RestartHolds, Stutters
   DEF Next, SyncStep

(* What is known of records, rows, watermarks and the pass under way holds *)
(* in every reachable state, if each record listed can be stored.          *)
THEOREM CacheInvariant == Spec /\ RecordsAreStored => []CInv
BY Initially, Inductive, PTL DEF Spec

-----------------------------------------------------------------------------
(* Types need nothing of the environment. *)

LEMMA UpsertedIsRow ==
  ASSUME NEW r \in Row, NEW v \in Version
  PROVE  Upserted(r, v) \in Row /\ MarkedDeleted(r, v.gone) \in Row
BY DEF Upserted, MarkedDeleted, Row, Version

LEMMA TypesKept ==
  ASSUME TypeOK, [Next]_vars
  PROVE  TypeOK'
<1>1. /\ crm \in [Persons -> CrmRow] /\ row \in [Persons -> Row] /\ pass \in Pass
      /\ changes \in Nat /\ TwentyTime \in Nat /\ CadenceTime \in Nat
  BY PersonCacheAssumption DEF TypeOK, TwentyTime, CadenceTime
<1>2. ASSUME NEW p \in Persons, Create(p) \/ Edit(p) \/ Delete(p) \/ Destroy(p)
      PROVE  TypeOK'
  <2>1. PICK new \in CrmRow : /\ changes < MaxChanges /\ changes' = changes + 1 /\ crm' = [crm EXCEPT ![p] = new]
                              /\ mail' \in {mail, mail \cup {<<p, [at |-> new.at, gone |-> new.gone]>>}}
                              /\ UNCHANGED <<row, marks, fullDue, pass, failures>>
    BY <1>1, <1>2 DEF Create, Edit, Delete, Destroy, Change, Live, CrmRow
  <2>2. [at |-> new.at, gone |-> new.gone] \in Version
    BY DEF CrmRow, Version
  <2> QED BY <1>1, <2>1, <2>2, PersonCacheAssumption DEF TypeOK
<1>3. ASSUME NEW m \in mail, Deliver(m[1], m[2]) PROVE TypeOK'
  <2>1. PICK p \in Persons, v \in Version : m = <<p, v>>
    BY DEF TypeOK
  <2>2. Upserted(row[p], v) \in Row /\ MarkedDeleted(row[p], v.gone) \in Row
    BY <1>1, <2>1, UpsertedIsRow
  <2>3. row' \in [Persons -> Row]
    BY <1>1, <1>3, <2>1, <2>2 DEF Deliver
  <2> QED BY <1>3, <2>3 DEF Deliver, TypeOK
<1>4. CASE StartPass
  <2>1. pass' \in Pass
    BY <1>1, <1>4 DEF StartPass, Tick, NoPass, Pass, TypeOK, FullNow
  <2>2. row' \in [Persons -> Row]
    BY <1>1, <1>4 DEF StartPass, Row
  <2> QED BY <1>4, <2>1, <2>2 DEF StartPass, Tick, TypeOK
<1>5. CASE ReadPage
  <2>1. PICK p \in pass.todo :
          pass' = [pass EXCEPT !.todo = @ \ {p},
                               !.page = IF Listed(p) THEN {<<p, [at |-> crm[p].at, gone |-> crm[p].gone]>>}
                                        ELSE {}]
    BY <1>5 DEF ReadPage, Tick
  <2>2. p \in Persons /\ [at |-> crm[p].at, gone |-> crm[p].gone] \in Version
    BY <1>1 DEF Pass, CrmRow, Version
  <2> DEFINE page == IF Listed(p) THEN {<<p, [at |-> crm[p].at, gone |-> crm[p].gone]>>} ELSE {}
  <2>3. page \in SUBSET (Persons \X Version)
    BY <2>2
  <2> HIDE DEF page
  <2>4. pass' = [pass EXCEPT !.todo = @ \ {p}, !.page = page]
    BY <2>1 DEF page
  <2>5. pass' \in Pass
    BY <1>1, <2>3, <2>4 DEF Pass
  <2> QED BY <1>5, <2>5 DEF ReadPage, Tick, TypeOK
<1>6. CASE StoreRecord
  <2>1. PICK m \in pass.page :
          \/ row' = [row EXCEPT ![m[1]] = Upserted(@, m[2])] /\ pass' = [pass EXCEPT !.page = {}]
                /\ UNCHANGED failures
          \/ pass' = [pass EXCEPT !.page = {}, !.failed = pass.full /\ pass.do = "full"] /\ Fail
                /\ UNCHANGED row
    BY <1>6 DEF StoreRecord, Tick
  <2>2. UNCHANGED <<crm, mail, marks, fullDue, changes>>
    BY <1>6 DEF StoreRecord, Tick
  <2>3. PICK p \in Persons, v \in Version : m = <<p, v>>
    BY <1>1 DEF Pass
  <2>4. Upserted(row[p], v) \in Row
    BY <1>1, UpsertedIsRow
  <2>5. row' \in [Persons -> Row]
    BY <1>1, <2>1, <2>3, <2>4
  <2>7. pass' \in Pass
    <3>1. (pass.full /\ pass.do = "full") \in BOOLEAN /\ {} \subseteq Persons \X Version
      OBVIOUS
    <3> QED BY <1>1, <2>1, <3>1 DEF Pass
  <2>6. failures' \in 0 .. MaxFailures
    BY <2>1, PersonCacheAssumption DEF Fail, TypeOK
  <2> QED BY <2>2, <2>5, <2>6, <2>7 DEF TypeOK
<1>7. CASE EndListing \/ StopListing \/ Restart
  <2>1. pass' \in Pass
    <3>1. NoPass \in Pass
      BY DEF NoPass, Pass
    <3>2. \A do \in {"remove", "people", "deletedPeople", "save"} : Onward(do) \in Pass
      BY <1>1 DEF Onward, Pass
    <3>3. \A l \in Listings \cup {"full"} :
            [Onward("people") EXCEPT !.stopped = @ \cup {l}] \in Pass /\ [Onward("save") EXCEPT !.stopped = @ \cup {l}] \in Pass
      BY <3>2 DEF Pass
    <3>4. \A do \in {"full", "people", "deletedPeople"} : After(do) \in {"remove", "deletedPeople", "save"}
      BY DEF After
    <3>5. CASE EndListing
      BY <3>2, <3>4, <3>5 DEF EndListing, Tick
    <3>6. CASE StopListing
      BY <3>1, <3>3, <3>6 DEF StopListing, Tick, AfterStopped, Listings
    <3> QED BY <1>7, <3>1, <3>5, <3>6 DEF Restart, Tick
  <2>2. failures' \in 0 .. MaxFailures /\ UNCHANGED <<crm, row, mail, marks, fullDue, changes>>
    BY <1>7, PersonCacheAssumption DEF EndListing, StopListing, Restart, Tick, Fail, TypeOK
  <2> QED BY <2>1, <2>2 DEF TypeOK
<1>8. CASE RemoveUnseen
  <2>1. pass' \in Pass /\ pass.started \in Nat
    BY <1>1, <1>8 DEF RemoveUnseen, Tick, Onward, Pass
  <2>2. row' \in [Persons -> Row]
    BY <1>1, <1>8, <2>1 DEF RemoveUnseen, Row
  <2> QED BY <1>8, <2>1, <2>2 DEF RemoveUnseen, Tick, TypeOK
<1>9. CASE SavePass
  <2>1. pass' \in Pass /\ pass.started \in Nat
    BY <1>1, <1>9 DEF SavePass, Tick, NoPass, Pass
  <2> QED BY <1>9, <2>1 DEF SavePass, Tick, NewMark, TypeOK
<1>10. CASE NewDay
  BY <1>10 DEF NewDay, TypeOK
<1>11. CASE UNCHANGED vars
  BY <1>11 DEF vars, TypeOK
<1> QED BY <1>2, <1>3, <1>4, <1>5, <1>6, <1>7, <1>8, <1>9, <1>10, <1>11 DEF Next, SyncStep

LEMMA TypedInitially == Init => TypeOK
<1> SUFFICES ASSUME Init PROVE TypeOK
  OBVIOUS
<1>1. crm \in [Persons -> CrmRow] /\ row \in [Persons -> Row] /\ pass \in Pass
  BY DEF Init, CrmRow, Row, NoPass, Pass
<1> QED BY <1>1, PersonCacheAssumption DEF Init, TypeOK, Version

(* Records, rows, deliveries and the pass have their types, whatever fails. *)
THEOREM CacheTypeCorrect == Spec => []TypeOK
BY TypedInitially, TypesKept, PTL DEF Spec

-----------------------------------------------------------------------------
(* Nobody who is in Twenty is shown as deleted: the daily clean-up takes   *)
(* only rows whose record is gone, whatever happens during the listing.    *)
THEOREM CleanUpSpares == Spec /\ RecordsAreStored => []NobodyWrittenOff
<1>1. CInv => NobodyWrittenOff
  BY DEF CInv, WorldFits, RowsFit, RowFits, NobodyWrittenOff, Live
<1> QED BY <1>1, CacheInvariant, PTL

(* No watermark steps over a change that is not stored: not through one    *)
(* that lands during the listing, a stopped listing or a restart.          *)
THEOREM WatermarksAreSafe == Spec /\ RecordsAreStored => []WatermarkSkipsNothing
<1>1. CInv => WatermarkSkipsNothing
  <2> SUFFICES ASSUME CInv, NEW p \in Persons, crm[p].exists
               PROVE  /\ crm[p].at # 0 /\ crm[p].at < marks["people"] =>
                           row[p].cached /\ (row[p].at >= crm[p].at \/ (crm[p].gone # 0 /\ row[p].gone = crm[p].gone))
                      /\ crm[p].gone # 0 /\ crm[p].gone < marks["deletedPeople"] => row[p].gone >= crm[p].gone
    BY DEF WatermarkSkipsNothing
  <2>1. crm[p].gone \in Nat
    BY DEF CInv, TypeOK, CrmRow
  <2> QED BY <2>1 DEF CInv, WorldFits, MarksFit, UpdatedBy, DeletedBy, HasUpdate
<1> QED BY <1>1, CacheInvariant, PTL

(* A row seen as deleted is not brought back by a record read before: what *)
(* is older than the deletion is not in order, and the row's deletion is   *)
(* Twenty's.                                                               *)
THEOREM DeletionsStand == Spec /\ RecordsAreStored => DeletedStaysDeleted
<1>1. ASSUME CInv, [Next]_vars, NEW p \in Persons, crm[p].exists, crm[p].gone # 0, row[p].gone # 0
      PROVE  row'[p].gone # 0
  <2>1. row[p].gone = crm[p].gone
    BY <1>1 DEF CInv, WorldFits, RowsFit, RowFits
  <2>2. RowsKeep \/ UNCHANGED row
    BY <1>1, DeliverHolds, StoreRecordHolds, StartPassHolds, RemoveUnseenHolds
       DEF Next, SyncStep, vars, Create, Edit, Delete, Destroy, Change, ReadPage, EndListing, StopListing,
       SavePass, NewDay, Restart
  <2> QED BY <1>1, <2>1, <2>2 DEF RowsKeep
<1>2. CInv /\ [Next]_vars =>
        \A p \in Persons : crm[p].exists /\ crm[p].gone # 0 /\ row[p].gone # 0 => row'[p].gone # 0
  BY <1>1
<1> QED BY <1>2, CacheInvariant, PTL DEF Spec, DeletedStaysDeleted
=============================================================================
