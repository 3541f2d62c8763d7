------------------------- MODULE LineItemFormProofs -------------------------
(***************************************************************************)
(* Type correctness of the line item page, that its saving flags are up    *)
(* only while a save runs, and what it knows of the stored line item, for  *)
(* any skills, prices and bounds.                                          *)
(***************************************************************************)
EXTENDS LineItemForm, FiniteSetTheorems, TLAPS

(* What TypeOK needs beside itself to be inductive: commit reads an id for *)
(* every row it sent, and reload shows the line item the reply names.      *)
ReplyFitsThePayload ==
  /\ IsFiniteSet(pending.payload.added)
  /\ \A request \in late : IsFiniteSet(request.payload.added)
  /\ pending.phase = "stored" =>
       /\ pending.reply.item \in Items
       /\ pending.reply.ids \in [1 .. Cardinality(pending.payload.added) -> Rows]

IInv == TypeOK /\ ReplyFitsThePayload

-----------------------------------------------------------------------------
(* Every added row has a place among the ids of the reply. *)
LEMMA PlaceIsInThePayload ==
  ASSUME NEW added, IsFiniteSet(added), \A b \in added : b.row \in Int,
         NEW a \in added
  PROVE  Place(a, added) \in 0 .. Cardinality(added) - 1
<1> DEFINE before == {b \in added : b.row < a.row}
<1>1. before \in SUBSET (added \ {a})
  OBVIOUS
<1>2. /\ IsFiniteSet(added \ {a})
      /\ Cardinality(added \ {a}) = Cardinality(added) - 1
  BY FS_RemoveElement
<1>3. /\ IsFiniteSet(before)
      /\ Cardinality(before) <= Cardinality(added) - 1
  BY <1>1, <1>2, FS_Subset
<1>4. Cardinality(before) \in Nat /\ Cardinality(added) \in Nat
  BY <1>3, FS_CardinalityType
<1> QED
  BY <1>3, <1>4 DEF Place

(* The tables stay typed when the server stores a payload, and its reply   *)
(* names a line item and one id per added row.                             *)
LEMMA StoringIsTyped ==
  ASSUME ConstantsAssumption, db \in Tables,
         NEW p \in Payloads, IsFiniteSet(p.added), Fits(p)
  PROVE  /\ Stored(p) \in Tables
         /\ Reply(p) \in Replies
         /\ Reply(p).item \in Items
         /\ Reply(p).ids \in [1 .. Cardinality(p.added) -> Rows]
<1> DEFINE n == Cardinality(p.added)
<1>1. n \in Nat
  BY FS_CardinalityType
<1>2. /\ ItemId(p) \in Items
      /\ db.next_row + n \in 1 .. MaxRows + 1
      /\ n \in Ids
  BY <1>1 DEF Fits, ItemId, Items, Ids, Tables, Payloads, ConstantsAssumption
<1>3. \A i \in Rows : StoredRow(i, p) \in SkillRows
  <2> TAKE i \in Rows
  <2>1. CASE \E a \in p.added : RowId(p, a) = i
    <3> DEFINE a == CHOOSE a \in p.added : RowId(p, a) = i
    <3>1. a \in p.added
      BY <2>1
    <3>2. StoredRow(i, p) = [item |-> ItemId(p), skill |-> a.skill, count |-> a.count]
      BY <2>1 DEF StoredRow
    <3> QED
      BY <1>2, <3>1, <3>2 DEF SkillRows, Payloads, Items
  <2>2. CASE ~(\E a \in p.added : RowId(p, a) = i) /\ i \in p.removed
    BY <2>2 DEF StoredRow, NoSkillRow, SkillRows, ConstantsAssumption
  <2>3. CASE ~(\E a \in p.added : RowId(p, a) = i) /\ i \notin p.removed
    <3> DEFINE c == CHOOSE c \in p.changed : c.id = i
    <3>1. db.skills[i] \in SkillRows
      BY DEF Tables
    <3>2. (\E d \in p.changed : d.id = i) => c.count \in Nat
      BY DEF Payloads
    <3>3. CASE db.skills[i].item # 0 /\ \E d \in p.changed : d.id = i
      <4>1. StoredRow(i, p) = [db.skills[i] EXCEPT !.count = c.count]
        BY <2>3, <3>3 DEF StoredRow
      <4> QED
        BY <4>1, <3>1, <3>2, <3>3 DEF SkillRows
    <3>4. CASE ~(db.skills[i].item # 0 /\ \E d \in p.changed : d.id = i)
      BY <2>3, <3>1, <3>4 DEF StoredRow
    <3> QED
      BY <3>3, <3>4
  <2> QED
    BY <2>1, <2>2, <2>3
<1>4. [db.items EXCEPT ![ItemId(p)] = StoredItem(@, p)] \in [Items -> ItemRows]
  BY <1>2 DEF StoredItem, ItemRows, Tables, Payloads
<1>5. Stored(p) \in Tables
  <2>1. db.next_item + (IF p.item = 0 THEN 1 ELSE 0) \in 1 .. MaxItems + 1
    BY <1>2 DEF ItemId, Items, Tables, Payloads, ConstantsAssumption
  <2> QED
    BY <1>2, <1>3, <1>4, <2>1 DEF Stored, Tables
<1>6. Reply(p).ids \in [1 .. n -> Rows]
  BY <1>1, <1>2 DEF Reply, Rows, Tables, ConstantsAssumption
<1>7. Reply(p).item = ItemId(p) /\ Reply(p) \in Replies
  BY <1>2, <1>6 DEF Reply, Replies, Items
<1> QED
  BY <1>2, <1>5, <1>6, <1>7

(* A form made from stored values is typed.                                *)
LEMMA ShowStoredIsTyped ==
  ASSUME ConstantsAssumption, db \in Tables, NEW item \in Items, ShowStored(item)
  PROVE  /\ record' \in Records
         /\ rows' \in [Rows -> RowRecords]
         /\ made' \in Ids
         /\ work_skills' \in SUBSET Rows
         /\ work_skills_in_db' \in SUBSET Rows
         /\ ids_in_db' \in SUBSET Rows
         /\ array_saving' \in BOOLEAN
         /\ price' \in Prices
         /\ price_in_db' \in Prices \cup {NoPrice}
<1>1. db.items[item] \in ItemRows /\ db.next_row - 1 \in Ids
  BY DEF Tables, Ids, ConstantsAssumption
<1>2. LoadedRecord(db, item) \in Records
  BY <1>1 DEF LoadedRecord, ItemRows, Records, Items
<1>3. LoadedRows(db, item) \in [Rows -> RowRecords]
  <2> SUFFICES ASSUME NEW r \in Rows
               PROVE  LoadedRows(db, item)[r] \in RowRecords
    BY DEF LoadedRows
  <2>1. db.skills[r] \in SkillRows
    BY DEF Tables
  <2>2. r \in Ids /\ 0 \in Ids
    BY DEF Rows, Ids, ConstantsAssumption
  <2> QED
    BY <2>1, <2>2 DEF LoadedRows, NoRow, RowRecords, SkillRows
<1>4. RowsOf(db, item) \in SUBSET Rows
  BY DEF RowsOf
<1> QED
  BY <1>1, <1>2, <1>3, <1>4 DEF ShowStored, ItemRows

(* The payload start_save builds is typed, and finite.                     *)
LEMMA PayloadIsTyped ==
  ASSUME ConstantsAssumption, TypeOK
  PROVE  Payload \in Payloads /\ IsFiniteSet(Payload.added)
<1> DEFINE new == {q \in Started : rows[q].id = 0}
           sent(r) == [row |-> r, skill |-> rows[r].skill, count |-> rows[r].count]
           f == [r \in new |-> sent(r)]
           added == {sent(r) : r \in new}
           changed == {[id |-> rows[r].id, count |-> rows[r].count] : r \in {q \in Started : rows[q].id # 0}}
<1>1. Started \subseteq Rows /\ new \subseteq Rows
  BY DEF Started, TypeOK
<1>2. IsFiniteSet(Rows)
  BY FS_Interval DEF Rows, ConstantsAssumption
<1>3. IsFiniteSet(new)
  BY <1>1, <1>2, FS_Subset
<1>4. f \in Surjection(new, added)
  BY DEF Surjection
<1>5. IsFiniteSet(added)
  BY <1>3, <1>4, FS_Surjection
<1>6. \A r \in Rows : rows[r] \in RowRecords
  BY DEF TypeOK
<1>7. added \in SUBSET [row : Rows, skill : Skills \cup {NoSkill}, count : Nat]
  BY <1>1, <1>6 DEF RowRecords
<1>8. changed \in SUBSET [id : Rows, count : Nat]
  BY <1>1, <1>6 DEF RowRecords, Rows, Ids, ConstantsAssumption
<1>9. RemovedIds \in SUBSET Rows
  BY DEF RemovedIds, TypeOK
<1>10. record.id \in 0 .. MaxItems /\ record.crew \in Nat /\ price \in Prices
  BY DEF TypeOK, Records
<1>11. Payload.added = added /\ Payload.changed = changed
  BY DEF Payload
<1> QED
  BY <1>5, <1>7, <1>8, <1>9, <1>10, <1>11 DEF Payload, Payloads

(* Commit reads only ids the reply holds.                                  *)
LEMMA CommittedRowIsTyped ==
  ASSUME ConstantsAssumption, IInv, pending.phase = "stored", NEW r \in Rows
  PROVE  CommittedRow(r) \in RowRecords
<1>1. rows[r] \in RowRecords /\ Sent \in Payloads
  BY DEF IInv, TypeOK, Saves, Sent
<1>2. CASE \E a \in Sent.added : a.row = r
  <2> DEFINE a == CHOOSE a \in Sent.added : a.row = r
             id == pending.reply.ids[Place(a, Sent.added) + 1]
  <2>1. a \in Sent.added /\ a.count \in Nat
    BY <1>1, <1>2 DEF Payloads
  <2>2. \A b \in Sent.added : b.row \in Int
    BY <1>1 DEF Payloads, Rows
  <2>3. IsFiniteSet(Sent.added) /\ Cardinality(Sent.added) \in Nat
    BY FS_CardinalityType DEF IInv, ReplyFitsThePayload, Sent
  <2>4. Place(a, Sent.added) \in 0 .. Cardinality(Sent.added) - 1
    BY <2>1, <2>2, <2>3, PlaceIsInThePayload
  <2>5. id \in Ids
    <3>1. Place(a, Sent.added) + 1 \in 1 .. Cardinality(Sent.added)
      BY <2>3, <2>4
    <3>2. id \in Rows
      BY <3>1 DEF IInv, ReplyFitsThePayload, Sent
    <3> QED
      BY <3>2 DEF Rows, Ids, ConstantsAssumption
  <2>6. CommittedRow(r) = [rows[r] EXCEPT !.id = id, !.count_in_db = a.count, !.saving = FALSE]
    BY <1>2 DEF CommittedRow
  <2> QED
    BY <1>1, <2>1, <2>5, <2>6 DEF RowRecords
<1>3. CASE /\ ~(\E a \in Sent.added : a.row = r)
           /\ rows[r].id # 0 /\ \E c \in Sent.changed : c.id = rows[r].id
  <2> DEFINE c == CHOOSE c \in Sent.changed : c.id = rows[r].id
  <2>1. c.count \in Nat
    BY <1>1, <1>3 DEF Payloads
  <2>2. CommittedRow(r) = [rows[r] EXCEPT !.count_in_db = c.count, !.saving = FALSE]
    BY <1>3 DEF CommittedRow
  <2> QED
    BY <1>1, <2>1, <2>2 DEF RowRecords
<1>4. CASE /\ ~(\E a \in Sent.added : a.row = r)
           /\ ~(rows[r].id # 0 /\ \E c \in Sent.changed : c.id = rows[r].id)
  BY <1>1, <1>4 DEF CommittedRow
<1> QED
  BY <1>2, <1>3, <1>4

-----------------------------------------------------------------------------
LEMMA NoSaveIsTyped ==
  ASSUME ConstantsAssumption
  PROVE  /\ NoSave \in Saves
         /\ NoSave.phase = "none"
         /\ IsFiniteSet(NoSave.payload.added)
         /\ NoReply \in Replies
<1>1. NoPayload \in Payloads
  BY DEF NoPayload, Payloads, ConstantsAssumption
<1>2. NoReply \in Replies
  <2>1. [k \in {} |-> 0] \in [1 .. 0 -> Rows] /\ 0 \in Ids
    BY DEF Ids, ConstantsAssumption
  <2> QED
    BY <2>1 DEF NoReply, Replies, ConstantsAssumption
<1> QED
  BY <1>1, <1>2, FS_EmptySet DEF NoSave, NoPayload, Saves, ConstantsAssumption

LEMMA InitIsTyped == ConstantsAssumption /\ Init => IInv
<1> SUFFICES ASSUME ConstantsAssumption, Init
             PROVE  IInv
  OBVIOUS
<1>1. db \in Tables
  <2>1. CASE db = NoTables
    BY <2>1 DEF NoTables, NoItem, NoSkillRow, Tables, ItemRows, SkillRows, ConstantsAssumption
  <2>2. CASE db # NoTables
    <3>1. PICK crew \in CrewSizes, p \in Prices,
               f \in UNION {{g \in [1 .. n -> Skills] : \A i, j \in 1 .. n : g[i] = g[j] => i = j} :
                               n \in {m \in 0 .. MaxPeople : m <= MaxRows}} :
            db = [items |-> [i \in Items |-> IF i = 1 THEN [stored |-> TRUE, crew |-> crew, price |-> p] ELSE NoItem],
                  skills |-> [i \in Rows |-> IF i \in DOMAIN f
                                             THEN [item |-> 1, skill |-> f[i], count |-> 1] ELSE NoSkillRow],
                  next_item |-> 2, next_row |-> Cardinality(DOMAIN f) + 1]
      BY <2>2 DEF Init, InitialTables
    <3>2. PICK n \in 0 .. MaxPeople : n <= MaxRows /\ f \in [1 .. n -> Skills]
      OBVIOUS
    <3>3. Cardinality(DOMAIN f) = n
      BY <3>2, FS_Interval DEF ConstantsAssumption
    <3>4. db.items \in [Items -> ItemRows]
      BY <3>1 DEF NoItem, ItemRows, ConstantsAssumption
    <3>5. db.skills \in [Rows -> SkillRows]
      <4> SUFFICES ASSUME NEW i \in Rows PROVE db.skills[i] \in SkillRows
        BY <3>1
      <4>1. CASE i \in DOMAIN f
        BY <3>1, <3>2, <4>1 DEF SkillRows, ConstantsAssumption
      <4>2. CASE i \notin DOMAIN f
        BY <3>1, <4>2 DEF NoSkillRow, SkillRows, ConstantsAssumption
      <4> QED
        BY <4>1, <4>2
    <3>6. db.next_item \in 1 .. MaxItems + 1 /\ db.next_row \in 1 .. MaxRows + 1
      BY <3>1, <3>2, <3>3 DEF ConstantsAssumption
    <3>7. db = [items |-> db.items, skills |-> db.skills, next_item |-> db.next_item, next_row |-> db.next_row]
      BY <3>1
    <3> QED
      BY <3>4, <3>5, <3>6, <3>7 DEF Tables
  <2> QED
    BY <2>1, <2>2
<1>2. 1 \in Items /\ 0 \in 0 .. MaxItems /\ db.items[1] \in ItemRows
  BY <1>1 DEF Items, Tables, ConstantsAssumption
<1>3. /\ record \in Records
      /\ rows \in [Rows -> RowRecords]
      /\ price_in_db \in Prices \cup {NoPrice}
  <2>1. LoadedRecord(db, 1) \in Records /\ NewRecord \in Records
    BY <1>2 DEF LoadedRecord, NewRecord, Records, ItemRows, Items
  <2>2. NoRow \in RowRecords
    BY DEF NoRow, RowRecords, Ids, ConstantsAssumption
  <2>3. LoadedRows(db, 1) \in [Rows -> RowRecords]
    <3> SUFFICES ASSUME NEW r \in Rows PROVE LoadedRows(db, 1)[r] \in RowRecords
      BY DEF LoadedRows
    <3>1. db.skills[r] \in SkillRows /\ r \in Ids
      BY <1>1 DEF Tables, Rows, Ids, ConstantsAssumption
    <3> QED
      BY <2>2, <3>1 DEF LoadedRows, SkillRows, RowRecords
  <2> QED
    BY <1>2, <2>1, <2>2, <2>3 DEF Init, ItemRows
<1>4. /\ made \in Ids
      /\ price \in Prices
      /\ work_skills \in SUBSET Rows
      /\ work_skills_in_db \in SUBSET Rows
      /\ ids_in_db \in SUBSET Rows
  BY <1>1, <1>2 DEF Init, Tables, ItemRows, Ids, RowsOf, ConstantsAssumption
<1>5. NoSave \in Saves /\ IsFiniteSet(NoSave.payload.added)
  BY NoSaveIsTyped
<1>6. TypeOK
  <2>1. pending \in Saves
    BY <1>5 DEF Init
  <2>2. array_saving \in BOOLEAN
    BY Zenon DEF Init
  <2>3. late \in SUBSET [nth : 0 .. MaxLost, payload : Payloads] /\ lost \in 0 .. MaxLost
    BY DEF Init, ConstantsAssumption
  <2> QED
    BY <1>1, <1>3, <1>4, <2>1, <2>2, <2>3 DEF TypeOK
<1>7. ReplyFitsThePayload
  BY <1>5 DEF ReplyFitsThePayload, Init, NoSave
<1> QED
  BY <1>6, <1>7 DEF IInv

(* Editing leaves the save and the tables alone.                           *)
LEMMA EditIsTyped ==
  ASSUME ConstantsAssumption, IInv,
         \/ \E crew \in CrewSizes : EditCrew(crew)
         \/ \E p \in Prices : EditPrice(p)
         \/ \E skill \in Skills : AddWorkSkill(skill)
         \/ \E r \in work_skills : RemoveWorkSkill(r)
         \/ Revert
  PROVE  IInv'
<1> USE DEF IInv
<1>1. UNCHANGED <<pending, late>> => ReplyFitsThePayload'
  BY DEF ReplyFitsThePayload
<1>2. ASSUME NEW crew \in CrewSizes, EditCrew(crew)
      PROVE  IInv'
  BY <1>1, <1>2 DEF EditCrew, TypeOK, Records, ConstantsAssumption
<1>3. ASSUME NEW p \in Prices, EditPrice(p)
      PROVE  IInv'
  BY <1>1, <1>3 DEF EditPrice, TypeOK
<1>4. ASSUME NEW skill \in Skills, AddWorkSkill(skill)
      PROVE  IInv'
  <2>1. /\ rows' \in [Rows -> RowRecords]
        /\ made' \in Ids
        /\ work_skills' \in SUBSET Rows
    <3> DEFINE existing == {r \in work_skills : rows[r].skill = skill}
    <3>1. CASE existing # {}
      <4>1. PICK r : rows' = [rows EXCEPT ![r].count = @ + 1]
        BY <1>4, <3>1 DEF AddWorkSkill
      <4>2. \A q \in Rows : rows[q] \in RowRecords
        BY DEF TypeOK
      <4>3. \A q \in Rows : [rows[q] EXCEPT !.count = rows[q].count + 1] \in RowRecords
        BY <4>2 DEF RowRecords
      <4>4. rows' \in [Rows -> RowRecords]
        BY <4>1, <4>2, <4>3 DEF TypeOK
      <4> QED
        BY <1>4, <3>1, <4>4 DEF AddWorkSkill, TypeOK
    <3>2. CASE existing = {}
      <4>1. /\ made < MaxRows
            /\ made' = made + 1
            /\ work_skills' = work_skills \cup {made + 1}
            /\ rows' = [rows EXCEPT ![made + 1] = NewRow(skill)]
        BY <1>4, <3>2 DEF AddWorkSkill
      <4>2. made + 1 \in Rows /\ made + 1 \in Ids
        BY <4>1 DEF TypeOK, Rows, Ids, ConstantsAssumption
      <4>3. NewRow(skill) \in RowRecords
        BY DEF NewRow, RowRecords, Ids, ConstantsAssumption
      <4> QED
        BY <4>1, <4>2, <4>3 DEF TypeOK
    <3> QED
      BY <3>1, <3>2
  <2>2. record' \in Records
    <3> DEFINE crew == IF record.crew < People + 1 THEN People + 1 ELSE record.crew
    <3>1. People + 1 \in Nat
      <4>1. People + 1 \in 1 .. MaxPeople
        BY <1>4 DEF AddWorkSkill
      <4> QED
        BY <4>1 DEF ConstantsAssumption
    <3>2. crew \in Nat
      BY <3>1 DEF TypeOK, Records
    <3>3. record' = [record EXCEPT !.crew = crew]
      BY <1>4 DEF AddWorkSkill, TypeOK, Records
    <3> QED
      BY <3>2, <3>3 DEF TypeOK, Records
  <2> QED
    BY <1>1, <1>4, <2>1, <2>2 DEF AddWorkSkill, TypeOK
<1>5. ASSUME NEW r \in work_skills, RemoveWorkSkill(r)
      PROVE  IInv'
  <2>1. r \in Rows /\ rows[r] \in RowRecords
    BY DEF TypeOK
  <2>2. rows' \in [Rows -> RowRecords] /\ work_skills' \in SUBSET Rows
    BY <1>5, <2>1 DEF RemoveWorkSkill, TypeOK, RowRecords
  <2> QED
    BY <1>1, <1>5, <2>2 DEF RemoveWorkSkill, TypeOK
<1>6. ASSUME Revert
      PROVE  IInv'
  <2>1. record' \in Records
    BY <1>6 DEF Revert, TypeOK, NewRecord, Records, ConstantsAssumption
  <2>2. \A r \in Rows : rows[r] \in RowRecords /\ [rows[r] EXCEPT !.count = rows[r].count_in_db] \in RowRecords
    BY DEF TypeOK, RowRecords
  <2>3. rows' \in [Rows -> RowRecords]
    BY <1>6, <2>2 DEF Revert
  <2> QED
    BY <1>1, <1>6, <2>1, <2>3 DEF Revert, TypeOK, ConstantsAssumption
<1> QED
  BY <1>2, <1>3, <1>4, <1>5, <1>6

(* The page starts a save; the server stores it, refuses it, or stores it late. *)
LEMMA SavingIsTyped ==
  ASSUME ConstantsAssumption, IInv,
         \/ \E after \in {"stay", "reload", "next"} : Save(after)
         \/ ServerStores
         \/ ServerRefuses
         \/ \E request \in late : LateStore(request)
  PROVE  IInv'
<1>1. ASSUME NEW after \in {"stay", "reload", "next"}, Save(after)
      PROVE  IInv'
  <2>1. Payload \in Payloads /\ IsFiniteSet(Payload.added)
    BY PayloadIsTyped DEF IInv
  <2>2. NoReply \in Replies
    BY NoSaveIsTyped
  <2>3. pending' \in Saves
    BY <1>1, <2>1, <2>2 DEF Save, Saves, IInv, TypeOK
  <2>4. record' \in Records /\ rows' \in [Rows -> RowRecords]
    <3>1. \A r \in Rows : [rows[r] EXCEPT !.saving = @ \/ r \in Started] \in RowRecords
      BY DEF IInv, TypeOK, RowRecords
    <3> QED
      BY <1>1, <3>1 DEF Save, IInv, TypeOK, Records
  <2>5. TypeOK'
    BY <1>1, <2>3, <2>4 DEF Save, IInv, TypeOK
  <2>6. ReplyFitsThePayload'
    BY <1>1, <2>1 DEF Save, IInv, ReplyFitsThePayload
  <2> QED
    BY <2>5, <2>6 DEF IInv
<1>2. ASSUME ServerStores
      PROVE  IInv'
  <2>1. pending.payload \in Payloads /\ IsFiniteSet(pending.payload.added)
    BY DEF IInv, TypeOK, Saves, ReplyFitsThePayload
  <2>2. /\ Stored(pending.payload) \in Tables
        /\ Reply(pending.payload) \in Replies
        /\ Reply(pending.payload).item \in Items
        /\ Reply(pending.payload).ids \in [1 .. Cardinality(pending.payload.added) -> Rows]
    BY <1>2, <2>1, StoringIsTyped DEF ServerStores, IInv, TypeOK
  <2>3. TypeOK'
    BY <1>2, <2>2 DEF ServerStores, IInv, TypeOK, Saves, form
  <2>4. /\ pending'.payload = pending.payload
        /\ pending'.reply = Reply(pending.payload)
    BY <1>2 DEF ServerStores, IInv, TypeOK, Saves
  <2>5. ReplyFitsThePayload'
    BY <1>2, <2>1, <2>2, <2>4 DEF ServerStores, IInv, ReplyFitsThePayload
  <2> QED
    BY <2>3, <2>5 DEF IInv
<1>3. ASSUME ServerRefuses
      PROVE  IInv'
  BY <1>3 DEF ServerRefuses, IInv, TypeOK, ReplyFitsThePayload, Saves, form
<1>4. ASSUME NEW request \in late, LateStore(request)
      PROVE  IInv'
  <2>1. request.payload \in Payloads /\ IsFiniteSet(request.payload.added)
    BY DEF IInv, TypeOK, ReplyFitsThePayload
  <2>2. db' \in Tables
    BY <1>4, <2>1, StoringIsTyped DEF LateStore, IInv, TypeOK
  <2> QED
    BY <1>4, <2>2 DEF LateStore, IInv, TypeOK, ReplyFitsThePayload, form
<1> QED
  BY <1>1, <1>2, <1>3, <1>4

LEMMA DiscardIsTyped ==
  ASSUME TypeOK, Discard
  PROVE  /\ record' \in Records
         /\ rows' \in [Rows -> RowRecords]
         /\ array_saving' \in BOOLEAN
<1>1. \A r \in Rows : rows[r] \in RowRecords /\ [rows[r] EXCEPT !.saving = FALSE] \in RowRecords
  BY DEF TypeOK, RowRecords
<1>2. rows' \in [Rows -> RowRecords]
  BY <1>1 DEF Discard
<1>3. array_saving' \in BOOLEAN
  BY Zenon DEF Discard
<1> QED
  BY <1>2, <1>3 DEF Discard, TypeOK, Records

LEMMA AbandonIsTyped ==
  ASSUME ConstantsAssumption, IInv, Abandon
  PROVE  /\ pending' \in Saves
         /\ db' \in Tables
         /\ late' \in SUBSET [nth : 0 .. MaxLost, payload : Payloads]
         /\ lost' \in 0 .. MaxLost
         /\ ReplyFitsThePayload'
<1>1. pending' = NoSave /\ pending' \in Saves
  BY NoSaveIsTyped DEF Abandon
<1>2. lost' \in 0 .. MaxLost /\ db' \in Tables
  BY DEF Abandon, IInv, TypeOK, ConstantsAssumption
<1>3. /\ late' \in SUBSET [nth : 0 .. MaxLost, payload : Payloads]
      /\ \A request \in late' : IsFiniteSet(request.payload.added)
  <2>1. pending.payload \in Payloads /\ IsFiniteSet(pending.payload.added)
    BY DEF IInv, TypeOK, Saves, ReplyFitsThePayload
  <2>2. lost \in 0 .. MaxLost
    BY DEF IInv, TypeOK
  <2> QED
    BY <2>1, <2>2 DEF Abandon, IInv, TypeOK, ReplyFitsThePayload
<1>4. ReplyFitsThePayload'
  BY <1>1, <1>3, NoSaveIsTyped DEF ReplyFitsThePayload
<1> QED
  BY <1>1, <1>2, <1>3, <1>4

(* The answer arrives, or it is given up on.                               *)
LEMMA AnswerIsTyped ==
  ASSUME ConstantsAssumption, IInv, Saved \/ Refused \/ Timeout \/ Reopen
  PROVE  IInv'
<1>1. ASSUME Saved
      PROVE  IInv'
  <2>1. pending' = NoSave /\ pending' \in Saves /\ IsFiniteSet(pending'.payload.added)
    BY <1>1, NoSaveIsTyped DEF Saved
  <2>2. ASSUME late' = late \/ late' = {}
        PROVE  ReplyFitsThePayload'
    BY <2>1, <2>2, NoSaveIsTyped DEF IInv, ReplyFitsThePayload
  <2>3. CASE Commit /\ UNCHANGED <<db, late, lost>>
    <3>1. pending.reply \in Replies /\ pending.price \in Prices /\ Sent \in Payloads
      BY DEF IInv, TypeOK, Saves, Sent
    <3>2. record' \in Records
      BY <2>3, <3>1 DEF Commit, IInv, TypeOK, Records, Replies, Payloads, Unsent
    <3>3. rows' \in [Rows -> RowRecords]
      BY <1>1, <2>3, CommittedRowIsTyped DEF Commit, Saved
    <3>4. NewIds \in SUBSET Rows
      <4> SUFFICES ASSUME NEW a \in Sent.added
                   PROVE  pending.reply.ids[Place(a, Sent.added) + 1] \in Rows
        BY DEF NewIds
      <4>1. IsFiniteSet(Sent.added) /\ Cardinality(Sent.added) \in Nat
        BY FS_CardinalityType DEF IInv, ReplyFitsThePayload, Sent
      <4>2. \A b \in Sent.added : b.row \in Int
        BY <3>1 DEF Payloads, Rows
      <4>3. Place(a, Sent.added) \in 0 .. Cardinality(Sent.added) - 1
        BY <4>1, <4>2, PlaceIsInThePayload
      <4>4. Place(a, Sent.added) + 1 \in 1 .. Cardinality(Sent.added)
        BY <4>1, <4>3
      <4> QED
        BY <1>1, <4>4 DEF Saved, IInv, ReplyFitsThePayload, Sent
    <3>5. ids_in_db' \in SUBSET Rows /\ work_skills_in_db' \in SUBSET Rows
      BY <2>3, <3>4 DEF Commit, IInv, TypeOK, Saves
    <3>6. array_saving' \in BOOLEAN
      BY <2>3, Zenon DEF Commit
    <3>7. TypeOK'
      BY <2>1, <2>3, <3>1, <3>2, <3>3, <3>5, <3>6 DEF Commit, IInv, TypeOK
    <3> QED
      BY <2>2, <2>3, <3>7 DEF IInv
  <2>4. CASE ShowStored(pending.reply.item) /\ UNCHANGED <<db, late, lost>>
    <3>1. pending.reply.item \in Items
      BY <1>1 DEF Saved, IInv, ReplyFitsThePayload
    <3>2. TypeOK'
      BY <2>1, <2>4, <3>1, ShowStoredIsTyped DEF IInv, TypeOK
    <3> QED
      BY <2>2, <2>4, <3>2 DEF IInv
  <2>5. CASE ShowNew /\ db' = NoTables /\ late' = {} /\ lost' = 0
    <3>1. db' \in Tables
      BY <2>5 DEF NoTables, NoItem, NoSkillRow, Tables, ItemRows, SkillRows, ConstantsAssumption
    <3>2. record' \in Records
      BY <2>5 DEF ShowNew, NewRecord, Records, ConstantsAssumption
    <3>3. NoRow \in RowRecords /\ 0 \in Ids /\ 0 \in 0 .. MaxLost
      BY DEF NoRow, RowRecords, Ids, ConstantsAssumption
    <3>4. rows' \in [Rows -> RowRecords] /\ made' \in Ids
      BY <2>5, <3>3 DEF ShowNew
    <3>5. array_saving' \in BOOLEAN
      BY <2>5, Zenon DEF ShowNew
    <3>6. /\ work_skills' \in SUBSET Rows /\ work_skills_in_db' \in SUBSET Rows /\ ids_in_db' \in SUBSET Rows
          /\ price' \in Prices /\ price_in_db' \in Prices \cup {NoPrice}
      BY <2>5 DEF ShowNew, ConstantsAssumption
    <3>7. TypeOK'
      BY <2>1, <2>5, <3>1, <3>2, <3>3, <3>4, <3>5, <3>6 DEF TypeOK
    <3> QED
      BY <2>2, <2>5, <3>7 DEF IInv
  <2> QED
    BY <1>1, <2>3, <2>4, <2>5 DEF Saved
<1>2. ASSUME Refused
      PROVE  IInv'
  <2>1. pending' = NoSave /\ pending' \in Saves
    BY <1>2, NoSaveIsTyped DEF Refused
  <2>2. TypeOK'
    BY <1>2, <2>1, DiscardIsTyped DEF Refused, Discard, IInv, TypeOK
  <2>3. ReplyFitsThePayload'
    BY <1>2, <2>1, NoSaveIsTyped DEF Refused, IInv, ReplyFitsThePayload
  <2> QED
    BY <2>2, <2>3 DEF IInv
<1>3. ASSUME Timeout
      PROVE  IInv'
  <2>1. TypeOK'
    BY <1>3, AbandonIsTyped, DiscardIsTyped DEF Timeout, Discard, IInv, TypeOK
  <2> QED
    BY <1>3, <2>1, AbandonIsTyped DEF Timeout, IInv
<1>4. ASSUME Reopen
      PROVE  IInv'
  <2>1. record.id \in Items
    BY <1>4 DEF Reopen, IInv, TypeOK, Records, Items, ConstantsAssumption
  <2>2. \/ UNCHANGED <<pending, db, late, lost>> /\ ReplyFitsThePayload'
        \/ Abandon
    BY <1>4 DEF Reopen, IInv, ReplyFitsThePayload
  <2>3. /\ pending' \in Saves /\ db' \in Tables /\ lost' \in 0 .. MaxLost
        /\ late' \in SUBSET [nth : 0 .. MaxLost, payload : Payloads]
        /\ ReplyFitsThePayload'
    BY <2>2, AbandonIsTyped DEF IInv, TypeOK
  <2>4. TypeOK'
    BY <1>4, <2>1, <2>3, ShowStoredIsTyped DEF Reopen, IInv, TypeOK
  <2> QED
    BY <2>3, <2>4 DEF IInv
<1> QED
  BY <1>1, <1>2, <1>3, <1>4

-----------------------------------------------------------------------------
LEMMA InductiveStep == ConstantsAssumption /\ IInv /\ [Next]_vars => IInv'
<1> SUFFICES ASSUME ConstantsAssumption, IInv, [Next]_vars
             PROVE  IInv'
  OBVIOUS
<1>1. CASE UNCHANGED vars
  BY <1>1 DEF vars, form, IInv, TypeOK, ReplyFitsThePayload
<1>2. CASE Next
  BY <1>2, EditIsTyped, SavingIsTyped, AnswerIsTyped DEF Next
<1> QED
  BY <1>1, <1>2

(* The page and the tables are typed in every reachable state: no start_save, commit,
   discard or reply makes a record, a row or an id outside its range. *)
THEOREM TypeCorrect == Spec => []TypeOK
<1> USE ConstantsAssumption
<1>1. Init => IInv
  BY InitIsTyped
<1>2. IInv /\ [Next]_vars => IInv'
  BY InductiveStep
<1>3. IInv => TypeOK
  BY DEF IInv
<1> QED
  BY <1>1, <1>2, <1>3, PTL DEF Spec

-----------------------------------------------------------------------------
(* The flags.  FlagsMatchTheSave is inductive relative to the types: a     *)
(* save raises flags only of rows its payload names, and both ways a save  *)
(* ends lower the flag of every row the payload names.                     *)

LEMMA DiscardLowersTheFlags ==
  ASSUME TypeOK, FlagsMatchTheSave, Discard, pending' = NoSave
  PROVE  FlagsMatchTheSave'
<1>1. ~Saving'
  BY DEF Saving, NoSave
<1>2. record'.saving = FALSE /\ array_saving' = FALSE
  BY DEF Discard, TypeOK, Records
<1>3. \A r \in Rows : ~rows'[r].saving
  <2> TAKE r \in Rows
  <2>1. rows[r] \in RowRecords
    BY DEF TypeOK
  <2>2. rows'[r] = IF SavedRow(r) THEN [rows[r] EXCEPT !.saving = FALSE] ELSE rows[r]
    BY DEF Discard
  <2>3. CASE SavedRow(r)
    BY <2>1, <2>2, <2>3 DEF RowRecords
  <2>4. CASE ~SavedRow(r)
    BY <2>2, <2>4 DEF FlagsMatchTheSave
  <2> QED
    BY <2>3, <2>4
<1> QED
  BY <1>1, <1>2, <1>3 DEF FlagsMatchTheSave

LEMMA CommitLowersTheFlags ==
  ASSUME TypeOK, FlagsMatchTheSave, Commit, pending' = NoSave
  PROVE  FlagsMatchTheSave'
<1>1. ~Saving'
  BY DEF Saving, NoSave
<1>2. record'.saving = FALSE /\ array_saving' = FALSE
  BY DEF Commit, TypeOK, Records
<1>3. \A r \in Rows : ~rows'[r].saving
  <2> TAKE r \in Rows
  <2>1. rows[r] \in RowRecords
    BY DEF TypeOK
  <2>2. rows'[r] = CommittedRow(r)
    BY DEF Commit
  <2>3. SavedRow(r) => CommittedRow(r).saving = FALSE
    BY <2>1 DEF SavedRow, CommittedRow, RowRecords
  <2>4. ~SavedRow(r) => CommittedRow(r) = rows[r] /\ ~rows[r].saving
    BY DEF SavedRow, CommittedRow, FlagsMatchTheSave
  <2> QED
    BY <2>2, <2>3, <2>4
<1> QED
  BY <1>1, <1>2, <1>3 DEF FlagsMatchTheSave

(* A form that was just made has no flag up, whatever save ran before.     *)
LEMMA NewFormHasNoFlags ==
  ASSUME NEW item, ShowStored(item) \/ ShowNew, ~Saving'
  PROVE  FlagsMatchTheSave'
<1>1. record'.saving = FALSE /\ array_saving' = FALSE
  BY DEF ShowStored, LoadedRecord, ShowNew, NewRecord
<1>2. \A r \in Rows : rows'[r].saving = FALSE
  BY DEF ShowStored, LoadedRows, ShowNew, NoRow
<1> QED
  BY <1>1, <1>2 DEF FlagsMatchTheSave

(* An edit raises no flag, and changes no id of a row whose flag is up.    *)
LEMMA EditKeepsTheFlags ==
  ASSUME UNCHANGED <<pending, array_saving>>, record'.saving = record.saving,
         \A r \in Rows : rows'[r].saving => rows[r].saving /\ rows'[r].id = rows[r].id,
         FlagsMatchTheSave
  PROVE  FlagsMatchTheSave'
<1>1. Saving' = Saving
  BY DEF Saving
<1>2. (record'.saving <=> Saving') /\ (array_saving' <=> Saving')
  BY <1>1 DEF FlagsMatchTheSave
<1>3. ASSUME NEW r \in Rows, rows'[r].saving
      PROVE  Saving' /\ SavedRow(r)'
  <2>1. Saving /\ SavedRow(r) /\ rows'[r].id = rows[r].id
    BY <1>3 DEF FlagsMatchTheSave
  <2> QED
    BY <1>1, <2>1 DEF SavedRow, Sent
<1> QED
  BY <1>2, <1>3 DEF FlagsMatchTheSave

(* A save raises the flags of exactly the rows its payload names.          *)
LEMMA SaveRaisesTheFlags ==
  ASSUME ConstantsAssumption, TypeOK, FlagsMatchTheSave, NEW after, Save(after)
  PROVE  FlagsMatchTheSave'
<1>1. Saving' /\ Sent' = Payload
  BY DEF Save, Saving, Sent
<1>2. record'.saving = TRUE /\ array_saving' = TRUE
  BY DEF Save, TypeOK, Records
<1>3. ASSUME NEW r \in Rows, rows'[r].saving
      PROVE  SavedRow(r)'
  <2>1. rows'[r] = [rows[r] EXCEPT !.saving = @ \/ r \in Started] /\ rows[r] \in RowRecords
    BY DEF Save, TypeOK
  <2>2. rows'[r].id = rows[r].id /\ r \in Started
    BY <1>3, <2>1 DEF Save, FlagsMatchTheSave, RowRecords
  <2>3. CASE rows[r].id = 0
    <3>1. [row |-> r, skill |-> rows[r].skill, count |-> rows[r].count] \in Payload.added
      BY <2>2, <2>3 DEF Payload
    <3> QED
      BY <1>1, <3>1 DEF SavedRow
  <2>4. CASE rows[r].id # 0
    <3>1. [id |-> rows[r].id, count |-> rows[r].count] \in Payload.changed
      BY <2>2, <2>4 DEF Payload
    <3> QED
      BY <1>1, <2>2, <2>4, <3>1 DEF SavedRow
  <2> QED
    BY <2>3, <2>4
<1> QED
  BY <1>1, <1>2, <1>3 DEF FlagsMatchTheSave

(* The server changes the phase of a save, never its payload.              *)
LEMMA ServerKeepsTheFlags ==
  ASSUME TypeOK, FlagsMatchTheSave, UNCHANGED form, Saving' <=> Saving,
         pending'.payload = pending.payload
  PROVE  FlagsMatchTheSave'
<1>1. \A r : SavedRow(r)' <=> SavedRow(r)
  BY DEF SavedRow, Sent, form
<1> QED
  BY <1>1 DEF FlagsMatchTheSave, form

(* The saving flags are up only while a save runs, and a row's only while  *)
(* the save that reads it runs: no start_save or revert of the page meets  *)
(* a flag that a finished, refused or abandoned save has left behind.      *)
THEOREM FlagsMatch == Spec => []FlagsMatchTheSave
<1> USE ConstantsAssumption
<1>1. Init => FlagsMatchTheSave
  <2> SUFFICES ASSUME Init
               PROVE  FlagsMatchTheSave
    OBVIOUS
  <2>1. ~Saving
    BY DEF Init, Saving, NoSave
  <2>2. record.saving = FALSE /\ array_saving = FALSE
    BY DEF Init, LoadedRecord, NewRecord
  <2>3. \A r \in Rows : rows[r].saving = FALSE
    BY DEF Init, LoadedRows, NoRow
  <2> QED
    BY <2>1, <2>2, <2>3 DEF FlagsMatchTheSave
<1>2. TypeOK /\ FlagsMatchTheSave /\ [Next]_vars => FlagsMatchTheSave'
  <2> SUFFICES ASSUME TypeOK, FlagsMatchTheSave, [Next]_vars
               PROVE  FlagsMatchTheSave'
    OBVIOUS
  <2> \A r \in Rows : rows[r] \in RowRecords
    BY DEF TypeOK
  <2>1. ASSUME NEW crew \in CrewSizes, EditCrew(crew)
        PROVE  FlagsMatchTheSave'
    BY <2>1, EditKeepsTheFlags DEF EditCrew, TypeOK, Records
  <2>2. ASSUME NEW p \in Prices, EditPrice(p)
        PROVE  FlagsMatchTheSave'
    BY <2>2, EditKeepsTheFlags DEF EditPrice
  <2>3. ASSUME NEW skill \in Skills, AddWorkSkill(skill)
        PROVE  FlagsMatchTheSave'
    <3> DEFINE existing == {r \in work_skills : rows[r].skill = skill}
    <3>1. \A r \in Rows : rows'[r].saving => rows[r].saving /\ rows'[r].id = rows[r].id
      <4>1. CASE existing # {}
        <5>1. PICK q : rows' = [rows EXCEPT ![q].count = @ + 1]
          BY <2>3, <4>1 DEF AddWorkSkill
        <5> QED
          BY <5>1 DEF TypeOK, RowRecords
      <4>2. CASE existing = {}
        <5>1. rows' = [rows EXCEPT ![made + 1] = NewRow(skill)]
          BY <2>3, <4>2 DEF AddWorkSkill
        <5> QED
          BY <5>1 DEF TypeOK, NewRow
      <4> QED
        BY <4>1, <4>2
    <3>2. record'.saving = record.saving
      BY <2>3 DEF AddWorkSkill, TypeOK, Records
    <3> QED
      BY <2>3, <3>1, <3>2, EditKeepsTheFlags DEF AddWorkSkill
  <2>4. ASSUME NEW r \in work_skills, RemoveWorkSkill(r)
        PROVE  FlagsMatchTheSave'
    <3>1. \A q \in Rows : rows'[q].saving = rows[q].saving /\ rows'[q].id = rows[q].id
      BY <2>4 DEF RemoveWorkSkill, TypeOK, RowRecords
    <3> QED
      BY <2>4, <3>1, EditKeepsTheFlags DEF RemoveWorkSkill
  <2>5. ASSUME Revert
        PROVE  FlagsMatchTheSave'
    <3>1. \A q \in Rows : rows'[q].saving = rows[q].saving /\ rows'[q].id = rows[q].id
      BY <2>5 DEF Revert, RowRecords
    <3>2. record.saving <=> FALSE
      BY <2>5 DEF Revert, FlagsMatchTheSave
    <3>3. record'.saving <=> FALSE
      BY <2>5, <3>2 DEF Revert, NewRecord, TypeOK, Records
    <3>4. UNCHANGED <<pending, array_saving>>
      BY <2>5 DEF Revert
    <3>5. ~Saving /\ ~Saving' /\ ~array_saving'
      BY <2>5, <3>4 DEF Revert, Saving, FlagsMatchTheSave
    <3>6. \A q \in Rows : ~rows'[q].saving
      BY <3>1, <3>5 DEF FlagsMatchTheSave
    <3> QED
      BY <3>3, <3>5, <3>6 DEF FlagsMatchTheSave
  <2>6. ASSUME NEW after \in {"stay", "reload", "next"}, Save(after)
        PROVE  FlagsMatchTheSave'
    BY <2>6, SaveRaisesTheFlags
  <2>7. ASSUME ServerStores \/ ServerRefuses
        PROVE  FlagsMatchTheSave'
    <3>1. Saving /\ Saving' /\ pending'.payload = pending.payload
      BY <2>7 DEF ServerStores, ServerRefuses, Saving, TypeOK, Saves
    <3> QED
      BY <2>7, <3>1, ServerKeepsTheFlags DEF ServerStores, ServerRefuses
  <2>8. ASSUME NEW request \in late, LateStore(request)
        PROVE  FlagsMatchTheSave'
    BY <2>8, ServerKeepsTheFlags DEF LateStore, Saving
  <2>9. ASSUME Saved
        PROVE  FlagsMatchTheSave'
    <3>1. pending' = NoSave /\ ~Saving'
      BY <2>9 DEF Saved, Saving, NoSave
    <3> QED
      BY <2>9, <3>1, CommitLowersTheFlags, NewFormHasNoFlags DEF Saved
  <2>10. ASSUME Refused \/ Timeout
         PROVE  FlagsMatchTheSave'
    BY <2>10, DiscardLowersTheFlags DEF Refused, Timeout, Abandon
  <2>11. ASSUME Reopen
         PROVE  FlagsMatchTheSave'
    <3>1. ~Saving'
      BY <2>11 DEF Reopen, Abandon, Saving, NoSave
    <3> QED
      BY <2>11, <3>1, NewFormHasNoFlags DEF Reopen
  <2>12. CASE UNCHANGED vars
    BY <2>12, ServerKeepsTheFlags DEF vars, Saving
  <2> QED
    BY <2>1, <2>2, <2>3, <2>4, <2>5, <2>6, <2>7, <2>8, <2>9, <2>10, <2>11, <2>12 DEF Next
<1> QED
  BY <1>1, <1>2, TypeCorrect, PTL DEF Spec

-----------------------------------------------------------------------------
(* Before the line item is stored no row on the page, shown or not, has an  *)
(* id: the invariant must speak of the rows that a revert would bring back. *)
NothingStoredYet == record.id = 0 => ids_in_db = {} /\ \A r \in Rows : rows[r].id = 0

LEMMA InitStoresNothing == ConstantsAssumption /\ Init => NothingStoredYet
<1> SUFFICES ASSUME ConstantsAssumption, Init
             PROVE  NothingStoredYet
  OBVIOUS
<1>1. CASE db.items[1].stored
  BY <1>1 DEF Init, LoadedRecord, NothingStoredYet
<1>2. CASE ~db.items[1].stored
  <2>1. db = NoTables
    BY <1>2 DEF Init, InitialTables, Items
  <2>2. RowsOf(db, 1) = {}
    BY <2>1 DEF NoTables, RowsOf, NoSkillRow
  <2> QED
    BY <1>2, <2>2 DEF Init, NoRow, NothingStoredYet
<1> QED
  BY <1>1, <1>2

LEMMA NothingStoredIsKept == ConstantsAssumption /\ IInv /\ NothingStoredYet /\ [Next]_vars => NothingStoredYet'
<1> SUFFICES ASSUME ConstantsAssumption, IInv, NothingStoredYet, [Next]_vars
             PROVE  NothingStoredYet'
  OBVIOUS
<1> TypeOK
  BY DEF IInv
<1>1. ASSUME UNCHANGED ids_in_db, record'.id = record.id,
             \A r \in Rows : rows[r].id = 0 => rows'[r].id = 0
      PROVE  NothingStoredYet'
  BY <1>1 DEF NothingStoredYet
<1>2. \A item \in Items : ShowStored(item) => NothingStoredYet'
  BY DEF ShowStored, LoadedRecord, NothingStoredYet, Items
<1>3. ASSUME \/ \E crew \in CrewSizes : EditCrew(crew)
             \/ \E p \in Prices : EditPrice(p)
             \/ \E skill \in Skills : AddWorkSkill(skill)
             \/ \E r \in work_skills : RemoveWorkSkill(r)
             \/ Revert
      PROVE  NothingStoredYet'
  <2>1. UNCHANGED ids_in_db
    BY <1>3 DEF EditCrew, EditPrice, AddWorkSkill, RemoveWorkSkill, Revert
  <2>2. record'.id = record.id
    <3>1. CASE Revert
      BY <3>1 DEF Revert, NewRecord, TypeOK, Records
    <3>2. ASSUME NEW skill \in Skills, AddWorkSkill(skill)
          PROVE  record'.id = record.id
      BY <3>2 DEF AddWorkSkill, TypeOK, Records
    <3>3. CASE \/ \E crew \in CrewSizes : EditCrew(crew)
               \/ \E p \in Prices : EditPrice(p)
               \/ \E r \in work_skills : RemoveWorkSkill(r)
      BY <3>3 DEF EditCrew, EditPrice, RemoveWorkSkill, TypeOK, Records
    <3> QED
      BY <1>3, <3>1, <3>2, <3>3
  <2>3. \A r \in Rows : rows[r].id = 0 => rows'[r].id = 0
    <3>1. ASSUME NEW skill \in Skills, AddWorkSkill(skill)
          PROVE  \A r \in Rows : rows[r].id = 0 => rows'[r].id = 0
      <4> DEFINE existing == {r \in work_skills : rows[r].skill = skill}
      <4>1. \/ \E q : rows' = [rows EXCEPT ![q].count = @ + 1]
            \/ rows' = [rows EXCEPT ![made + 1] = NewRow(skill)]
        BY <3>1 DEF AddWorkSkill
      <4> QED
        BY <4>1 DEF NewRow, TypeOK, RowRecords
    <3> QED
      BY <1>3, <3>1 DEF EditCrew, EditPrice, RemoveWorkSkill, Revert, TypeOK, RowRecords
  <2> QED
    BY <1>1, <2>1, <2>2, <2>3
<1>4. ASSUME NEW after \in {"stay", "reload", "next"}, Save(after)
      PROVE  NothingStoredYet'
  <2>1. \A r \in Rows : rows'[r].id = rows[r].id
    BY <1>4 DEF Save, TypeOK, RowRecords
  <2> QED
    BY <1>1, <1>4, <2>1 DEF Save, TypeOK, Records
<1>5. ASSUME ServerStores \/ ServerRefuses \/ \E request \in late : LateStore(request)
      PROVE  NothingStoredYet'
  BY <1>1, <1>5 DEF ServerStores, ServerRefuses, LateStore, form
<1>6. ASSUME Discard
      PROVE  NothingStoredYet'
  <2>1. \A r \in Rows : rows'[r].id = rows[r].id
    BY <1>6 DEF Discard, TypeOK, RowRecords
  <2> QED
    BY <1>1, <1>6, <2>1 DEF Discard, TypeOK, Records
<1>7. ASSUME Saved
      PROVE  NothingStoredYet'
  <2>1. pending.reply.item \in Items
    BY <1>7 DEF Saved, IInv, ReplyFitsThePayload
  <2>2. CASE Commit
    BY <2>1, <2>2 DEF Commit, NothingStoredYet, TypeOK, Records, Items
  <2>3. CASE ShowNew
    BY <2>3 DEF ShowNew, NoRow, NothingStoredYet
  <2> QED
    BY <1>2, <1>7, <2>1, <2>2, <2>3 DEF Saved
<1>8. ASSUME Refused \/ Timeout
      PROVE  NothingStoredYet'
  BY <1>6, <1>8 DEF Refused, Timeout
<1>9. ASSUME Reopen
      PROVE  NothingStoredYet'
  BY <1>2, <1>9 DEF Reopen, TypeOK, Records, Items
<1>10. CASE UNCHANGED vars
  BY <1>1, <1>10 DEF vars, form
<1> QED
  BY <1>3, <1>4, <1>5, <1>7, <1>8, <1>9, <1>10 DEF Next

(* What start_save asserts of a new line item always holds: the upsert that *)
(* adds it names no row to change or to remove.                             *)
THEOREM NewLineItem == Spec => []NewLineItemHasNoStoredSkills
<1> USE ConstantsAssumption
<1>1. Init => IInv /\ NothingStoredYet
  BY InitIsTyped, InitStoresNothing
<1>2. IInv /\ NothingStoredYet /\ [Next]_vars => IInv' /\ NothingStoredYet'
  BY InductiveStep, NothingStoredIsKept
<1>3. IInv /\ NothingStoredYet => NewLineItemHasNoStoredSkills
  BY DEF IInv, TypeOK, NothingStoredYet, NewLineItemHasNoStoredSkills, RemovedIds
<1> QED
  BY <1>1, <1>2, <1>3, PTL DEF Spec

-----------------------------------------------------------------------------
(* What the line item page knows of the stored line item is true: the ids  *)
(* of its rows at all times, everything else while no answer was lost, so  *)
(* that a save stores what the form showed.  The invariants say which ids  *)
(* the tables gave out, what the save in flight was built from, and what   *)
(* its answer says; the server's lemma says what storing a payload does.   *)

RowsOnThePage == work_skills \cup work_skills_in_db \cup pending.work_skills

(* The ids the tables gave out are those below the next one, and no line   *)
(* item has two rows of one skill.                                         *)
TablesAreNumbered ==
  /\ \A i \in Items : db.items[i].stored => i < db.next_item
  /\ \A i \in Rows : db.skills[i].item # 0 =>
       i < db.next_row /\ db.skills[i].item < db.next_item /\ db.skills[i].skill \in Skills

UniqueKeys ==
  \A i, j \in Rows :
    /\ db.skills[i].item # 0
    /\ db.skills[i].item = db.skills[j].item
    /\ db.skills[i].skill = db.skills[j].skill
    => i = j

(* A payload adds each row of the form once.                               *)
AddsEachRowOnce(p) ==
  /\ \A a \in p.added : a.skill \in Skills
  /\ \A a, b \in p.added : a.row = b.row => a = b

PayloadsAreSound ==
  /\ AddsEachRowOnce(pending.payload)
  /\ \A request \in late : AddsEachRowOnce(request.payload)

(* The rows a form shows, would revert to or has sent were made on it, and *)
(* none of the three has two rows of one skill.                            *)
RowsWereMade == \A r \in RowsOnThePage : r <= made /\ rows[r].skill \in Skills

OneRowPerSkill(set) == \A r, q \in set : rows[r].skill = rows[q].skill => r = q

FormsHaveOneRowPerSkill ==
  OneRowPerSkill(work_skills) /\ OneRowPerSkill(work_skills_in_db) /\ OneRowPerSkill(pending.work_skills)

IdleIsNoSave == ~Saving => pending = NoSave

(* While a save runs the rows it adds wait for an id.                      *)
SentRowsWait ==
  Saving =>
    /\ Sent.item = record.id
    /\ \A a \in Sent.added :
         a.row \in pending.work_skills /\ rows[a.row].id = 0 /\ rows[a.row].skill = a.skill

IdsWereGivenOut ==
  /\ \A r \in Rows : rows[r].id < db.next_row
  /\ record.id # 0 => db.items[record.id].stored

ReplyId(a) == pending.reply.ids[Place(a, Sent.added) + 1]

(* The id answered for a row is the id of a row with that skill, of the    *)
(* line item that was saved, unless that row was removed since.            *)
ReplyIsTrue ==
  pending.phase = "stored" =>
    /\ db.items[pending.reply.item].stored
    /\ Sent.item # 0 => pending.reply.item = Sent.item
    /\ \A a \in Sent.added :
         /\ ReplyId(a) < db.next_row
         /\ db.skills[ReplyId(a)].item # 0 =>
              db.skills[ReplyId(a)].item = pending.reply.item /\ db.skills[ReplyId(a)].skill = a.skill

RInv ==
  /\ TablesAreNumbered
  /\ UniqueKeys
  /\ PayloadsAreSound
  /\ IdleIsNoSave
  /\ RowsWereMade
  /\ FormsHaveOneRowPerSkill
  /\ SentRowsWait
  /\ IdsWereGivenOut
  /\ ReplyIsTrue
  /\ IdsBelongToTheirRows

-----------------------------------------------------------------------------
(* What the server does with a payload.                                    *)

(* The ids of the added rows come in the order of the rows.                *)
LEMMA PlacesAreOrdered ==
  ASSUME NEW added, IsFiniteSet(added), \A c \in added : c.row \in Int,
         NEW a \in added, NEW b \in added, a.row < b.row
  PROVE  Place(a, added) < Place(b, added)
<1> DEFINE before(c) == {d \in added : d.row < c.row}
<1>1. /\ IsFiniteSet(before(b))
      /\ a \in before(b)
  BY FS_Subset
<1>2. /\ IsFiniteSet(before(b) \ {a})
      /\ Cardinality(before(b) \ {a}) = Cardinality(before(b)) - 1
  BY <1>1, FS_RemoveElement
<1>3. before(a) \subseteq before(b) \ {a}
  OBVIOUS
<1>4. /\ IsFiniteSet(before(a))
      /\ Cardinality(before(a)) <= Cardinality(before(b)) - 1
  BY <1>2, <1>3, FS_Subset
<1>5. Cardinality(before(a)) \in Nat /\ Cardinality(before(b)) \in Nat
  BY <1>1, <1>4, FS_CardinalityType
<1> QED
  BY <1>4, <1>5 DEF Place

LEMMA PlacesDiffer ==
  ASSUME NEW added, IsFiniteSet(added), \A c \in added : c.row \in Int,
         \A c, d \in added : c.row = d.row => c = d,
         NEW a \in added, NEW b \in added, Place(a, added) = Place(b, added)
  PROVE  a = b
<1>1. a.row < b.row \/ b.row < a.row \/ a.row = b.row
  OBVIOUS
<1>2. Place(a, added) \in Int
  BY PlaceIsInThePayload
<1> QED
  BY <1>1, <1>2, PlacesAreOrdered

(* Every added row is stored under the id the server answers for it, the   *)
(* others are removed, changed or left alone, and no other id is given out.*)
LEMMA WhatIsStored ==
  ASSUME ConstantsAssumption, db \in Tables,
         NEW p \in Payloads, IsFiniteSet(p.added), AddsEachRowOnce(p), Fits(p)
  PROVE  /\ Stored(p).next_row \in Nat /\ db.next_row <= Stored(p).next_row
         /\ \A a \in p.added :
              /\ RowId(p, a) \in Rows
              /\ db.next_row <= RowId(p, a) /\ RowId(p, a) < Stored(p).next_row
              /\ Stored(p).skills[RowId(p, a)] = [item |-> ItemId(p), skill |-> a.skill, count |-> a.count]
              /\ Reply(p).ids[Place(a, p.added) + 1] = RowId(p, a)
         /\ \A i \in Rows : (\A a \in p.added : RowId(p, a) # i) =>
              /\ i \in p.removed => Stored(p).skills[i] = NoSkillRow
              /\ i \notin p.removed =>
                   /\ Stored(p).skills[i].item = db.skills[i].item
                   /\ Stored(p).skills[i].skill = db.skills[i].skill
                   /\ Stored(p).skills[i] =
                        IF db.skills[i].item # 0 /\ \E c \in p.changed : c.id = i
                        THEN [db.skills[i] EXCEPT !.count = (CHOOSE c \in p.changed : c.id = i).count]
                        ELSE db.skills[i]
<1> DEFINE n == Cardinality(p.added)
<1>1. n \in Nat /\ db.next_row \in Nat /\ db.next_row >= 1 /\ db.next_row + n <= MaxRows + 1
  BY FS_CardinalityType DEF Fits, Tables, ConstantsAssumption
<1>2. Stored(p).next_row = db.next_row + n
  BY DEF Stored
<1>3. \A c \in p.added : c.row \in Int
  BY DEF Payloads, Rows
<1>4. ASSUME NEW a \in p.added
      PROVE  /\ RowId(p, a) \in Rows
             /\ db.next_row <= RowId(p, a) /\ RowId(p, a) < db.next_row + n
             /\ Stored(p).skills[RowId(p, a)] = [item |-> ItemId(p), skill |-> a.skill, count |-> a.count]
             /\ Reply(p).ids[Place(a, p.added) + 1] = RowId(p, a)
  <2>1. Place(a, p.added) \in 0 .. n - 1
    BY <1>3, PlaceIsInThePayload
  <2>2. RowId(p, a) \in Rows /\ db.next_row <= RowId(p, a) /\ RowId(p, a) < db.next_row + n
    BY <1>1, <2>1 DEF RowId, Rows, ConstantsAssumption
  <2>3. \A b \in p.added : RowId(p, b) = RowId(p, a) => b = a
    <3> SUFFICES ASSUME NEW b \in p.added, RowId(p, b) = RowId(p, a)
                 PROVE  b = a
      OBVIOUS
    <3>1. Place(b, p.added) \in Int
      BY <1>3, PlaceIsInThePayload
    <3>2. Place(b, p.added) = Place(a, p.added)
      BY <1>1, <2>1, <3>1 DEF RowId
    <3> QED
      BY <1>3, <3>2, PlacesDiffer DEF AddsEachRowOnce
  <2>4. (CHOOSE b \in p.added : RowId(p, b) = RowId(p, a)) = a
    BY <2>3
  <2>5. StoredRow(RowId(p, a), p) = [item |-> ItemId(p), skill |-> a.skill, count |-> a.count]
    BY <2>4 DEF StoredRow
  <2>6. Place(a, p.added) + 1 \in 1 .. n
    BY <1>1, <2>1
  <2>7. Reply(p).ids[Place(a, p.added) + 1] = db.next_row + (Place(a, p.added) + 1) - 1
    BY <2>6 DEF Reply
  <2> QED
    BY <1>1, <2>1, <2>2, <2>5, <2>7 DEF Stored, RowId
<1>5. ASSUME NEW i \in Rows, \A a \in p.added : RowId(p, a) # i
      PROVE  /\ i \in p.removed => Stored(p).skills[i] = NoSkillRow
             /\ i \notin p.removed =>
                  /\ Stored(p).skills[i].item = db.skills[i].item
                  /\ Stored(p).skills[i].skill = db.skills[i].skill
                  /\ Stored(p).skills[i] =
                       IF db.skills[i].item # 0 /\ \E c \in p.changed : c.id = i
                       THEN [db.skills[i] EXCEPT !.count = (CHOOSE c \in p.changed : c.id = i).count]
                       ELSE db.skills[i]
  <2>1. Stored(p).skills[i] = StoredRow(i, p) /\ db.skills[i] \in SkillRows
    BY DEF Stored, Tables
  <2>2. i \in p.removed => Stored(p).skills[i] = NoSkillRow
    BY <1>5, <2>1 DEF StoredRow
  <2>3. i \notin p.removed =>
          Stored(p).skills[i] =
            IF db.skills[i].item # 0 /\ \E c \in p.changed : c.id = i
            THEN [db.skills[i] EXCEPT !.count = (CHOOSE c \in p.changed : c.id = i).count]
            ELSE db.skills[i]
    BY <1>5, <2>1 DEF StoredRow
  <2> QED
    BY <2>1, <2>2, <2>3 DEF SkillRows
<1> QED
  BY <1>1, <1>2, <1>4, <1>5

(* The rows of a line item, after a payload that removes only some of them.*)
LEMMA RowsOfStored ==
  ASSUME ConstantsAssumption, db \in Tables, TablesAreNumbered,
         NEW p \in Payloads, IsFiniteSet(p.added), AddsEachRowOnce(p), Fits(p)
  PROVE  /\ \A i \in RowsOf(db, ItemId(p)) : \A a \in p.added : RowId(p, a) # i
         /\ p.removed \subseteq RowsOf(db, ItemId(p)) =>
              RowsOf(Stored(p), ItemId(p)) =
                (RowsOf(db, ItemId(p)) \ p.removed) \cup {RowId(p, a) : a \in p.added}
<1> DEFINE old == RowsOf(db, ItemId(p))
           new == {RowId(p, a) : a \in p.added}
<1>1. ItemId(p) # 0 /\ db.next_row \in Nat /\ \A i \in Rows : i \in Nat
  BY DEF Fits, ItemId, Tables, Rows, Payloads, ConstantsAssumption
<1>2. \A a \in p.added :
        /\ RowId(p, a) \in Rows /\ db.next_row <= RowId(p, a)
        /\ Stored(p).skills[RowId(p, a)] = [item |-> ItemId(p), skill |-> a.skill, count |-> a.count]
  BY WhatIsStored
<1>3. \A i \in Rows : (\A a \in p.added : RowId(p, a) # i) =>
        /\ i \in p.removed => Stored(p).skills[i] = NoSkillRow
        /\ i \notin p.removed => Stored(p).skills[i].item = db.skills[i].item
  BY WhatIsStored
<1>4. ASSUME NEW i \in old, NEW a \in p.added
      PROVE  RowId(p, a) # i
  <2>1. i \in Rows /\ i < db.next_row
    BY <1>1 DEF RowsOf, TablesAreNumbered
  <2>2. db.next_row <= RowId(p, a) /\ RowId(p, a) \in Nat
    BY <1>1, <1>2
  <2> QED
    BY <1>1, <2>1, <2>2
<1>5. ASSUME p.removed \subseteq old, NEW i \in Rows
      PROVE  Stored(p).skills[i].item = ItemId(p) <=> i \in (old \ p.removed) \cup new
  <2>1. CASE \E a \in p.added : RowId(p, a) = i
    <3>1. PICK a \in p.added : RowId(p, a) = i
      BY <2>1
    <3>2. Stored(p).skills[i] = [item |-> ItemId(p), skill |-> a.skill, count |-> a.count]
      BY <1>2, <3>1
    <3> QED
      BY <3>1, <3>2
  <2>2. CASE ~(\E a \in p.added : RowId(p, a) = i) /\ i \in p.removed
    <3>1. Stored(p).skills[i] = NoSkillRow
      BY <1>3, <2>2
    <3> QED
      BY <1>1, <2>2, <3>1 DEF NoSkillRow
  <2>3. CASE ~(\E a \in p.added : RowId(p, a) = i) /\ i \notin p.removed
    <3>1. Stored(p).skills[i].item = db.skills[i].item
      BY <1>3, <2>3
    <3> QED
      BY <2>3, <3>1 DEF RowsOf
  <2> QED
    BY <2>1, <2>2, <2>3
<1>6. new \subseteq Rows /\ old \subseteq Rows
  BY <1>2 DEF RowsOf
<1>7. p.removed \subseteq old => RowsOf(Stored(p), ItemId(p)) = (old \ p.removed) \cup new
  BY <1>5, <1>6 DEF RowsOf
<1> QED
  BY <1>4, <1>7

(* The tables only grow: what is stored stays, and the row of an id is     *)
(* removed or stays the row of that line item and skill.                   *)
TablesGrow ==
  /\ db.next_row <= db'.next_row
  /\ \A i \in Items : db.items[i].stored => db'.items[i].stored
  /\ \A i \in Rows : i < db.next_row /\ db'.skills[i].item # 0 =>
       db'.skills[i].item = db.skills[i].item /\ db'.skills[i].skill = db.skills[i].skill

LEMMA StoringKeepsTheTables ==
  ASSUME ConstantsAssumption, db \in Tables, TablesAreNumbered, UniqueKeys,
         NEW p \in Payloads, IsFiniteSet(p.added), AddsEachRowOnce(p), Accepts(p), Fits(p),
         db' = Stored(p)
  PROVE  TablesAreNumbered' /\ UniqueKeys' /\ TablesGrow /\ db'.items[ItemId(p)].stored
<1> DEFINE new(i) == \E a \in p.added : RowId(p, a) = i
<1>1. /\ db.next_item \in Nat /\ db.next_item >= 1 /\ db.next_row \in Nat /\ db.next_row >= 1
      /\ \A i \in Rows : i \in Nat /\ i # 0 /\ db.skills[i].item \in Nat
      /\ ItemId(p) \in Items /\ ItemId(p) \in Nat /\ ItemId(p) # 0
  BY DEF Tables, SkillRows, Rows, Items, Fits, ItemId, Payloads, ConstantsAssumption
<1>2. /\ db'.next_row \in Nat /\ db.next_row <= db'.next_row
      /\ \A a \in p.added :
           /\ RowId(p, a) \in Rows
           /\ db.next_row <= RowId(p, a) /\ RowId(p, a) < db'.next_row
           /\ db'.skills[RowId(p, a)] = [item |-> ItemId(p), skill |-> a.skill, count |-> a.count]
      /\ \A i \in Rows : ~new(i) =>
           /\ i \in p.removed => db'.skills[i] = NoSkillRow
           /\ i \notin p.removed =>
                db'.skills[i].item = db.skills[i].item /\ db'.skills[i].skill = db.skills[i].skill
  <2>1. Stored(p).next_row \in Nat /\ db.next_row <= Stored(p).next_row
    BY WhatIsStored
  <2>2. \A a \in p.added :
          /\ RowId(p, a) \in Rows
          /\ db.next_row <= RowId(p, a) /\ RowId(p, a) < Stored(p).next_row
          /\ Stored(p).skills[RowId(p, a)] =
               [item |-> ItemId(p), skill |-> a.skill, count |-> a.count]
    BY WhatIsStored
  <2>3. \A i \in Rows : (\A a \in p.added : RowId(p, a) # i) =>
          /\ i \in p.removed => Stored(p).skills[i] = NoSkillRow
          /\ i \notin p.removed =>
               /\ Stored(p).skills[i].item = db.skills[i].item
               /\ Stored(p).skills[i].skill = db.skills[i].skill
    BY WhatIsStored
  <2>4. db' = Stored(p)
    OBVIOUS
  <2>5. db'.next_row \in Nat /\ db.next_row <= db'.next_row
    BY <2>1, <2>4
  <2>6. \A a \in p.added :
          /\ RowId(p, a) \in Rows
          /\ db.next_row <= RowId(p, a) /\ RowId(p, a) < db'.next_row
          /\ db'.skills[RowId(p, a)] = [item |-> ItemId(p), skill |-> a.skill, count |-> a.count]
    BY <2>2, <2>4, Zenon
  <2>7. \A i \in Rows : ~new(i) =>
          /\ i \in p.removed => db'.skills[i] = NoSkillRow
          /\ i \notin p.removed =>
               db'.skills[i].item = db.skills[i].item /\ db'.skills[i].skill = db.skills[i].skill
    <3> SUFFICES ASSUME NEW i \in Rows, \A a \in p.added : RowId(p, a) # i
                 PROVE  /\ i \in p.removed => db'.skills[i] = NoSkillRow
                        /\ i \notin p.removed =>
                             /\ db'.skills[i].item = db.skills[i].item
                             /\ db'.skills[i].skill = db.skills[i].skill
      OBVIOUS
    <3> QED
      BY <2>3, <2>4
  <2> QED
    BY <2>5, <2>6, <2>7, Zenon
<1>3. \A i \in Rows : new(i) =>
        /\ db.next_row <= i /\ i < db'.next_row
        /\ db'.skills[i].item = ItemId(p)
        /\ \E a \in p.added : RowId(p, a) = i /\ db'.skills[i].skill = a.skill
  <2> SUFFICES ASSUME NEW i \in Rows, NEW a \in p.added, RowId(p, a) = i
               PROVE  /\ db.next_row <= i /\ i < db'.next_row
                      /\ db'.skills[i].item = ItemId(p) /\ db'.skills[i].skill = a.skill
    OBVIOUS
  <2>1. db'.skills[i] = [item |-> ItemId(p), skill |-> a.skill, count |-> a.count]
    BY <1>2
  <2> QED
    BY <1>2, <2>1
<1>4. /\ db'.next_item \in Nat /\ db.next_item <= db'.next_item /\ ItemId(p) < db'.next_item
      /\ db'.items[ItemId(p)].stored
      /\ \A i \in Items : i # ItemId(p) => db'.items[i] = db.items[i]
  <2>1. p.item # 0 => p.item < db.next_item
    BY DEF Accepts, LineItemExists, TablesAreNumbered, Items, Payloads
  <2>2. db'.next_item = db.next_item + IF p.item = 0 THEN 1 ELSE 0
    BY DEF Stored
  <2>3. db'.items = [db.items EXCEPT ![ItemId(p)] = StoredItem(db.items[ItemId(p)], p)]
    BY DEF Stored
  <2> QED
    BY <1>1, <2>1, <2>2, <2>3 DEF Tables, StoredItem, ItemId, Payloads
<1>5. \A i \in Rows : ~new(i) /\ db'.skills[i].item # 0 =>
        /\ i \notin p.removed
        /\ db'.skills[i].item = db.skills[i].item /\ db'.skills[i].skill = db.skills[i].skill
  BY <1>2 DEF NoSkillRow
<1>6. TablesAreNumbered'
  <2>1. \A i \in Items : db'.items[i].stored => i < db'.next_item
    BY <1>1, <1>4 DEF TablesAreNumbered, Items
  <2>2. ASSUME NEW i \in Rows, db'.skills[i].item # 0
        PROVE  i < db'.next_row /\ db'.skills[i].item < db'.next_item /\ db'.skills[i].skill \in Skills
    <3>1. CASE new(i)
      BY <1>4, <1>3, <3>1 DEF AddsEachRowOnce
    <3>2. CASE ~new(i)
      BY <1>1, <1>2, <1>4, <1>5, <2>2, <3>2 DEF TablesAreNumbered
    <3> QED
      BY <3>1, <3>2
  <2> QED
    BY <2>1, <2>2 DEF TablesAreNumbered
<1>7. TablesGrow
  <2>1. \A i \in Rows : i < db.next_row => ~new(i)
    BY <1>1, <1>3
  <2> QED
    BY <1>2, <1>4, <1>5, <2>1 DEF TablesGrow
<1>8. UniqueKeys'
  <2> SUFFICES ASSUME NEW i \in Rows, NEW j \in Rows, db'.skills[i].item # 0,
                      db'.skills[i].item = db'.skills[j].item, db'.skills[i].skill = db'.skills[j].skill
               PROVE  i = j
    BY DEF UniqueKeys
  <2>1. ASSUME NEW a \in p.added, NEW k \in Rows, ~new(k), db'.skills[k].item = ItemId(p), db'.skills[k].skill = a.skill
        PROVE  FALSE
    <3>1. db.skills[k].item = ItemId(p) /\ db.skills[k].skill = a.skill /\ k \notin p.removed
      BY <1>1, <1>5, <2>1
    <3>2. p.item # 0
      BY <1>1, <3>1 DEF TablesAreNumbered, ItemId
    <3> QED
      BY <3>1, <3>2 DEF Accepts, KeysAreFree, RowsOf, ItemId
  <2>2. CASE new(i) /\ new(j)
    <3>1. PICK a \in p.added : RowId(p, a) = i /\ db'.skills[i].skill = a.skill
      BY <1>3, <2>2
    <3>2. PICK b \in p.added : RowId(p, b) = j /\ db'.skills[j].skill = b.skill
      BY <1>3, <2>2
    <3> QED
      BY <3>1, <3>2 DEF Accepts, KeysAreFree
  <2>3. CASE new(i) /\ ~new(j)
    BY <1>3, <2>1, <2>3
  <2>4. CASE ~new(i) /\ new(j)
    BY <1>3, <2>1, <2>4
  <2>5. CASE ~new(i) /\ ~new(j)
    BY <1>5, <2>5 DEF UniqueKeys
  <2> QED
    BY <2>2, <2>3, <2>4, <2>5
<1> QED
  BY <1>4, <1>6, <1>7, <1>8

-----------------------------------------------------------------------------
(* What the page's steps do to its rows.                                   *)

RowKept(r) == rows'[r].id = rows[r].id /\ rows'[r].skill = rows[r].skill /\ rows'[r].count_in_db = rows[r].count_in_db

RecordKept == record'.id = record.id /\ (record.id # 0 => record'.crew_in_db = record.crew_in_db)

(* Editing, saving and discarding make no row and store no id.             *)
PageKeepsItsRows ==
  /\ RecordKept
  /\ UNCHANGED <<made, work_skills_in_db, ids_in_db, price_in_db>>
  /\ \A r \in Rows : RowKept(r)
  /\ work_skills' \subseteq work_skills \/ (~Saving /\ work_skills' = work_skills_in_db)

(* A skill that is not on the form becomes a row of its own.               *)
PageMakesARow ==
  /\ RecordKept
  /\ UNCHANGED <<work_skills_in_db, ids_in_db, price_in_db>>
  /\ made + 1 \in Rows
  /\ made' = made + 1
  /\ \A r \in Rows \ {made + 1} : RowKept(r)
  /\ work_skills' = work_skills \cup {made + 1}
  /\ rows'[made + 1].id = 0
  /\ rows'[made + 1].skill \in Skills
  /\ \A r \in work_skills : rows[r].skill # rows'[made + 1].skill

LEMMA EditsAreSmall ==
  ASSUME ConstantsAssumption, TypeOK,
         \/ \E crew \in CrewSizes : EditCrew(crew)
         \/ \E p \in Prices : EditPrice(p)
         \/ \E skill \in Skills : AddWorkSkill(skill)
         \/ \E r \in work_skills : RemoveWorkSkill(r)
         \/ Revert
  PROVE  UNCHANGED <<pending, db, late, lost>> /\ (PageKeepsItsRows \/ PageMakesARow)
<1>1. \A r \in Rows : rows[r] \in RowRecords
  BY DEF TypeOK
<1>2. ASSUME NEW crew \in CrewSizes, EditCrew(crew)
      PROVE  UNCHANGED <<pending, db, late, lost>> /\ PageKeepsItsRows
  BY <1>2 DEF EditCrew, PageKeepsItsRows, RecordKept, RowKept, TypeOK, Records
<1>3. ASSUME NEW p \in Prices, EditPrice(p)
      PROVE  UNCHANGED <<pending, db, late, lost>> /\ PageKeepsItsRows
  BY <1>3 DEF EditPrice, PageKeepsItsRows, RecordKept, RowKept
<1>4. ASSUME NEW skill \in Skills, AddWorkSkill(skill)
      PROVE  UNCHANGED <<pending, db, late, lost>> /\ (PageKeepsItsRows \/ PageMakesARow)
  <2> DEFINE existing == {r \in work_skills : rows[r].skill = skill}
  <2>1. RecordKept
    BY <1>4 DEF AddWorkSkill, RecordKept, TypeOK, Records
  <2>2. UNCHANGED <<work_skills_in_db, ids_in_db, price_in_db, pending, db, late, lost>>
    BY <1>4 DEF AddWorkSkill
  <2>3. CASE existing # {}
    <3>1. PICK q : rows' = [rows EXCEPT ![q].count = @ + 1]
      BY <1>4, <2>3 DEF AddWorkSkill
    <3>2. UNCHANGED <<made, work_skills>>
      BY <1>4, <2>3 DEF AddWorkSkill
    <3>3. \A r \in Rows : RowKept(r)
      BY <1>1, <3>1 DEF RowKept, TypeOK, RowRecords
    <3> QED
      BY <2>1, <2>2, <3>2, <3>3 DEF PageKeepsItsRows
  <2>4. CASE existing = {}
    <3>1. /\ made < MaxRows
          /\ made' = made + 1
          /\ work_skills' = work_skills \cup {made + 1}
          /\ rows' = [rows EXCEPT ![made + 1] = NewRow(skill)]
      BY <1>4, <2>4 DEF AddWorkSkill
    <3>2. made + 1 \in Rows
      BY <3>1 DEF TypeOK, Rows, Ids, ConstantsAssumption
    <3>3. rows'[made + 1].id = 0 /\ rows'[made + 1].skill = skill
      BY <3>1, <3>2 DEF NewRow, TypeOK
    <3>4. \A r \in Rows \ {made + 1} : RowKept(r)
      BY <3>1 DEF RowKept, TypeOK
    <3> QED
      BY <2>1, <2>2, <2>4, <3>1, <3>2, <3>3, <3>4 DEF PageMakesARow
  <2> QED
    BY <2>2, <2>3, <2>4
<1>5. ASSUME NEW r \in work_skills, RemoveWorkSkill(r)
      PROVE  UNCHANGED <<pending, db, late, lost>> /\ PageKeepsItsRows
  <2>1. \A q \in Rows : RowKept(q)
    BY <1>1, <1>5 DEF RemoveWorkSkill, RowKept, TypeOK, RowRecords
  <2>2. work_skills' \subseteq work_skills
    BY <1>5 DEF RemoveWorkSkill
  <2> QED
    BY <1>5, <2>1, <2>2 DEF RemoveWorkSkill, PageKeepsItsRows, RecordKept
<1>6. ASSUME Revert
      PROVE  UNCHANGED <<pending, db, late, lost>> /\ PageKeepsItsRows
  <2>1. \A q \in Rows : RowKept(q)
    BY <1>1, <1>6 DEF Revert, RowKept, RowRecords
  <2>2. RecordKept
    BY <1>6 DEF Revert, RecordKept, NewRecord, TypeOK, Records
  <2> QED
    BY <1>6, <2>1, <2>2 DEF Revert, PageKeepsItsRows
<1> QED
  BY <1>2, <1>3, <1>4, <1>5, <1>6

LEMMA SavingIsSmall ==
  ASSUME TypeOK, (\E after : Save(after)) \/ Discard
  PROVE  PageKeepsItsRows
<1>1. \A r \in Rows : rows[r] \in RowRecords
  BY DEF TypeOK
<1>2. ASSUME NEW after, Save(after)
      PROVE  PageKeepsItsRows
  BY <1>1, <1>2 DEF Save, PageKeepsItsRows, RecordKept, RowKept, RowRecords, TypeOK, Records
<1>3. CASE Discard
  BY <1>1, <1>3 DEF Discard, PageKeepsItsRows, RecordKept, RowKept, RowRecords, TypeOK, Records
<1> QED
  BY <1>2, <1>3

-----------------------------------------------------------------------------
(* RInv, one step after the other.                                         *)

LEMMA PageIsNumbered ==
  ASSUME ConstantsAssumption, TypeOK
  PROVE  /\ RowsOnThePage \subseteq Rows
         /\ \A r \in Rows : r \in Nat /\ rows[r] \in RowRecords /\ rows[r].id \in Nat
         /\ made \in Nat
         /\ db.next_row \in Nat /\ db.next_row >= 1
         /\ RowsWereMade => \A r \in RowsOnThePage : r <= made
<1>1. RowsOnThePage \subseteq Rows
  BY DEF RowsOnThePage, TypeOK, Saves
<1>2. /\ \A r \in Rows : r \in Nat /\ rows[r] \in RowRecords
      /\ made \in Nat /\ db.next_row \in Nat /\ db.next_row >= 1
  BY DEF TypeOK, Tables, Rows, Ids, ConstantsAssumption
<1>3. \A r \in Rows : rows[r].id \in Nat
  BY <1>2 DEF RowRecords, Ids, ConstantsAssumption
<1> QED
  BY <1>1, <1>2, <1>3 DEF RowsWereMade

LEMMA EditsKeepTheRows ==
  ASSUME ConstantsAssumption, IInv, RInv, UNCHANGED <<pending, db, late>>, PageKeepsItsRows \/ PageMakesARow
  PROVE  RInv'
<1> TypeOK
  BY DEF IInv
<1>1. /\ RowsOnThePage \subseteq Rows
      /\ \A r \in Rows : r \in Nat
      /\ made \in Nat
      /\ db.next_row \in Nat /\ db.next_row >= 1
      /\ \A r \in RowsOnThePage : r <= made
  BY PageIsNumbered DEF RInv
<1>2. /\ TablesAreNumbered' /\ UniqueKeys' /\ PayloadsAreSound'
      /\ ReplyIsTrue' /\ IdleIsNoSave'
  BY DEF RInv, TablesAreNumbered, UniqueKeys, PayloadsAreSound, AddsEachRowOnce, ReplyIsTrue, ReplyId, Sent,
         IdleIsNoSave, Saving
<1>3. CASE PageKeepsItsRows
  <2>1. /\ \A r \in Rows : RowKept(r)
        /\ RecordKept /\ made' = made
        /\ work_skills_in_db' = work_skills_in_db
        /\ work_skills' \subseteq work_skills \/ work_skills' = work_skills_in_db
    BY <1>3 DEF PageKeepsItsRows
  <2>2. RowsOnThePage' \subseteq RowsOnThePage
    BY <2>1 DEF RowsOnThePage
  <2>3. RowsWereMade'
    BY <1>1, <2>1, <2>2 DEF RInv, RowsWereMade, RowKept
  <2>4. FormsHaveOneRowPerSkill'
    <3>1. /\ work_skills' \subseteq Rows /\ work_skills_in_db \subseteq Rows /\ pending.work_skills \subseteq Rows
      BY <1>1, <2>1, <2>2 DEF RowsOnThePage
    <3> QED
      BY <2>1, <3>1 DEF RInv, FormsHaveOneRowPerSkill, OneRowPerSkill, RowKept
  <2>5. SentRowsWait'
    <3>1. pending.work_skills \subseteq Rows
      BY <1>1 DEF RowsOnThePage
    <3> QED
      BY <2>1, <3>1 DEF RInv, SentRowsWait, Saving, Sent, RowKept, RecordKept
  <2>6. IdsWereGivenOut' /\ IdsBelongToTheirRows'
    BY <2>1 DEF RInv, IdsWereGivenOut, IdsBelongToTheirRows, RowKept, RecordKept
  <2> QED
    BY <1>2, <2>3, <2>4, <2>5, <2>6 DEF RInv
<1>4. CASE PageMakesARow
  <2> DEFINE new == made + 1
  <2>1. /\ \A r \in Rows : r # new => RowKept(r)
        /\ RecordKept /\ made' = new /\ new \in Rows
        /\ work_skills_in_db' = work_skills_in_db
        /\ work_skills' = work_skills \cup {new}
        /\ rows'[new].id = 0 /\ rows'[new].skill \in Skills
        /\ \A r \in work_skills : rows[r].skill # rows'[new].skill
    BY <1>4 DEF PageMakesARow
  <2>2. /\ RowsOnThePage' \subseteq RowsOnThePage \cup {new}
        /\ \A r \in RowsOnThePage : r # new
    BY <1>1, <2>1 DEF RowsOnThePage
  <2>3. RowsWereMade'
    BY <1>1, <2>1, <2>2 DEF RInv, RowsWereMade, RowKept
  <2>4. \A r \in RowsOnThePage : r \in Rows /\ RowKept(r)
    BY <1>1, <2>1, <2>2
  <2>5. FormsHaveOneRowPerSkill'
    BY <2>1, <2>4 DEF RInv, FormsHaveOneRowPerSkill, OneRowPerSkill, RowKept, RowsOnThePage
  <2>6. SentRowsWait'
    BY <2>1, <2>4 DEF RInv, SentRowsWait, Saving, Sent, RowKept, RecordKept, RowsOnThePage
  <2>7. IdsWereGivenOut' /\ IdsBelongToTheirRows'
    BY <1>1, <2>1 DEF RInv, IdsWereGivenOut, IdsBelongToTheirRows, RowKept, RecordKept
  <2> QED
    BY <1>2, <2>3, <2>5, <2>6, <2>7 DEF RInv
<1> QED
  BY <1>3, <1>4

(* The payload names the rows that have no id yet, each with its skill.    *)
LEMMA SavingKeepsTheRows ==
  ASSUME ConstantsAssumption, IInv, RInv, NEW after, Save(after)
  PROVE  RInv'
<1> TypeOK
  BY DEF IInv
<1>1. /\ PageKeepsItsRows
      /\ work_skills' = work_skills
      /\ pending'.phase = "sent" /\ Sent' = Payload /\ pending'.work_skills = work_skills
      /\ UNCHANGED <<db, late>>
  BY SavingIsSmall DEF Save, Sent
<1>2. /\ \A r \in Rows : RowKept(r)
      /\ RecordKept /\ made' = made
      /\ work_skills_in_db' = work_skills_in_db
  BY <1>1 DEF PageKeepsItsRows
<1>3. work_skills \subseteq Rows /\ work_skills_in_db \subseteq Rows /\ work_skills \subseteq RowsOnThePage
  BY DEF TypeOK, RowsOnThePage
<1>4. \A a \in Payload.added :
        a.row \in work_skills /\ rows[a.row].id = 0 /\ a.skill = rows[a.row].skill /\ a.count = rows[a.row].count
          /\ a = [row |-> a.row, skill |-> rows[a.row].skill, count |-> rows[a.row].count]
  BY DEF Payload, Started
<1>5. PayloadsAreSound'
  <2>1. AddsEachRowOnce(Payload)
    BY <1>3, <1>4 DEF AddsEachRowOnce, RInv, RowsWereMade
  <2> QED
    BY <1>1, <2>1 DEF RInv, PayloadsAreSound, AddsEachRowOnce, Sent
<1>6. RowsWereMade'
  BY <1>1, <1>2, <1>3 DEF RInv, RowsWereMade, RowKept, RowsOnThePage
<1>7. FormsHaveOneRowPerSkill'
  BY <1>1, <1>2, <1>3 DEF RInv, FormsHaveOneRowPerSkill, OneRowPerSkill, RowKept
<1>8. SentRowsWait'
  <2>1. Payload.item = record.id
    BY DEF Payload
  <2> QED
    BY <1>1, <1>2, <1>3, <1>4, <2>1 DEF SentRowsWait, RowKept, RecordKept
<1>9. IdsWereGivenOut' /\ IdsBelongToTheirRows'
  BY <1>1, <1>2 DEF RInv, IdsWereGivenOut, IdsBelongToTheirRows, RowKept, RecordKept
<1>10. TablesAreNumbered' /\ UniqueKeys' /\ ReplyIsTrue' /\ IdleIsNoSave'
  BY <1>1 DEF RInv, TablesAreNumbered, UniqueKeys, ReplyIsTrue, IdleIsNoSave, Saving
<1> QED
  BY <1>5, <1>6, <1>7, <1>8, <1>9, <1>10 DEF RInv

(* A page that does not move stays true to tables that grow.               *)
LEMMA GrowingKeepsTheRows ==
  ASSUME ConstantsAssumption, IInv, RInv, TypeOK', UNCHANGED form, late' \subseteq late,
         TablesAreNumbered', UniqueKeys', TablesGrow, ReplyIsTrue', IdleIsNoSave',
         pending'.payload = pending.payload, pending'.work_skills = pending.work_skills,
         Saving' => Saving
  PROVE  RInv'
<1> TypeOK
  BY DEF IInv
<1>1. \A r \in Rows : rows[r].id \in Nat /\ (rows[r].id # 0 => rows[r].id \in Rows)
  BY PageIsNumbered DEF TypeOK, RowRecords, Ids, Rows, ConstantsAssumption
<1>2. record.id # 0 => record.id \in Items
  BY DEF TypeOK, Records, Items, ConstantsAssumption
<1>3. db.next_row \in Nat /\ db'.next_row \in Nat
  BY DEF TypeOK, Tables, ConstantsAssumption
<1>4. IdsWereGivenOut'
  BY <1>1, <1>2, <1>3 DEF RInv, IdsWereGivenOut, TablesGrow, form
<1>5. IdsBelongToTheirRows'
  <2> SUFFICES ASSUME NEW r \in Rows, rows[r].id # 0, db'.skills[rows[r].id].item # 0
               PROVE  db'.skills[rows[r].id].skill = rows[r].skill /\ db'.skills[rows[r].id].item = record.id
    BY DEF IdsBelongToTheirRows, form
  <2>1. rows[r].id \in Rows /\ rows[r].id < db.next_row
    BY <1>1 DEF RInv, IdsWereGivenOut
  <2> QED
    BY <2>1 DEF RInv, IdsBelongToTheirRows, TablesGrow
<1>6. PayloadsAreSound' /\ SentRowsWait'
  BY DEF RInv, PayloadsAreSound, AddsEachRowOnce, SentRowsWait, Saving, Sent, form
<1>7. RowsWereMade' /\ FormsHaveOneRowPerSkill'
  BY DEF RInv, RowsWereMade, RowsOnThePage, FormsHaveOneRowPerSkill, OneRowPerSkill, form
<1> QED
  BY <1>4, <1>5, <1>6, <1>7 DEF RInv

LEMMA ReplyIdsAreRows ==
  ASSUME ConstantsAssumption, IInv, pending.phase = "stored", NEW a \in Sent.added
  PROVE  ReplyId(a) \in Rows /\ ReplyId(a) \in Nat /\ ReplyId(a) # 0
<1>1. Sent \in Payloads /\ IsFiniteSet(Sent.added) /\ Cardinality(Sent.added) \in Nat
  BY FS_CardinalityType DEF IInv, TypeOK, Saves, Sent, ReplyFitsThePayload
<1>2. \A b \in Sent.added : b.row \in Int
  BY <1>1 DEF Payloads, Rows
<1>3. Place(a, Sent.added) \in 0 .. Cardinality(Sent.added) - 1
  BY <1>1, <1>2, PlaceIsInThePayload
<1>4. Place(a, Sent.added) + 1 \in 1 .. Cardinality(Sent.added)
  BY <1>1, <1>3
<1>5. ReplyId(a) \in Rows
  BY <1>4 DEF ReplyId, IInv, ReplyFitsThePayload, Sent
<1> QED
  BY <1>5 DEF Rows

LEMMA ServerKeepsTheRows ==
  ASSUME ConstantsAssumption, IInv, RInv, IInv',
         ServerStores \/ ServerRefuses \/ \E request \in late : LateStore(request)
  PROVE  RInv'
<1> TypeOK /\ TypeOK' /\ db \in Tables
  BY DEF IInv, TypeOK
<1>1. IdleIsNoSave'
  BY DEF RInv, IdleIsNoSave, ServerStores, ServerRefuses, LateStore, Saving, TypeOK, Saves
<1>2. CASE ServerStores
  <2> DEFINE p == pending.payload
  <2>1. p \in Payloads /\ IsFiniteSet(p.added) /\ AddsEachRowOnce(p) /\ Accepts(p) /\ Fits(p) /\ db' = Stored(p)
    BY <1>2 DEF ServerStores, TypeOK, Saves, IInv, ReplyFitsThePayload, RInv, PayloadsAreSound
  <2>2. TablesAreNumbered' /\ UniqueKeys' /\ TablesGrow /\ db'.items[ItemId(p)].stored
    BY <2>1, StoringKeepsTheTables DEF RInv
  <2>3. /\ pending'.payload = p /\ Sent' = p /\ pending'.phase = "stored" /\ pending'.reply = Reply(p)
        /\ pending'.work_skills = pending.work_skills /\ Saving
        /\ UNCHANGED form /\ UNCHANGED late
    BY <1>2 DEF ServerStores, TypeOK, Saves, Saving, Sent
  <2>4. ReplyIsTrue'
    <3>1. Reply(p).item = ItemId(p) /\ (p.item # 0 => ItemId(p) = p.item)
      BY DEF Reply, ItemId
    <3>2. ASSUME NEW a \in p.added
          PROVE  /\ ReplyId(a)' < db'.next_row
                 /\ db'.skills[ReplyId(a)'].item = Reply(p).item /\ db'.skills[ReplyId(a)'].skill = a.skill
      <4>1. ReplyId(a)' = RowId(p, a)
        <5>1. ReplyId(a)' = Reply(p).ids[Place(a, p.added) + 1]
          BY <2>3 DEF ReplyId, Place
        <5>2. Reply(p).ids[Place(a, p.added) + 1] = RowId(p, a)
          BY <2>1, WhatIsStored
        <5> QED
          BY <5>1, <5>2
      <4>2. RowId(p, a) < Stored(p).next_row
        BY <2>1, WhatIsStored
      <4>3. Stored(p).skills[RowId(p, a)] = [item |-> ItemId(p), skill |-> a.skill, count |-> a.count]
        BY <2>1, WhatIsStored
      <4> QED
        BY <2>1, <3>1, <4>1, <4>2, <4>3
    <3> QED
      BY <2>2, <2>3, <3>1, <3>2 DEF ReplyIsTrue
  <2> QED
    BY <1>1, <2>2, <2>3, <2>4, GrowingKeepsTheRows
<1>3. CASE ServerRefuses
  <2>1. /\ pending'.payload = pending.payload /\ pending'.phase = "refused" /\ Saving
        /\ pending'.work_skills = pending.work_skills
        /\ UNCHANGED <<db, late>> /\ UNCHANGED form
    BY <1>3 DEF ServerRefuses, TypeOK, Saves, Saving
  <2>2. TablesAreNumbered' /\ UniqueKeys' /\ ReplyIsTrue'
    BY <2>1 DEF RInv, TablesAreNumbered, UniqueKeys, ReplyIsTrue
  <2>3. TablesGrow
    BY <2>1 DEF TablesGrow, TypeOK, Tables
  <2> QED
    BY <1>1, <2>1, <2>2, <2>3, GrowingKeepsTheRows
<1>4. ASSUME NEW request \in late, LateStore(request)
      PROVE  RInv'
  <2> DEFINE p == request.payload
  <2>1. p \in Payloads /\ IsFiniteSet(p.added) /\ AddsEachRowOnce(p)
    BY DEF TypeOK, IInv, ReplyFitsThePayload, RInv, PayloadsAreSound
  <2>2. UNCHANGED pending /\ UNCHANGED form /\ late' \subseteq late /\ (Saving' => Saving)
    BY <1>4 DEF LateStore, Saving
  <2>3. TablesAreNumbered' /\ UniqueKeys' /\ TablesGrow
    <3>1. CASE Accepts(p) /\ Fits(p)
      <4>1. db' = Stored(p)
        BY <1>4, <3>1 DEF LateStore
      <4> QED
        BY <2>1, <3>1, <4>1, StoringKeepsTheTables DEF RInv
    <3>2. CASE ~(Accepts(p) /\ Fits(p))
      <4>1. db' = db
        BY <1>4, <3>2 DEF LateStore
      <4> QED
        BY <4>1 DEF RInv, TablesAreNumbered, UniqueKeys, TablesGrow, TypeOK, Tables
    <3> QED
      BY <3>1, <3>2
  <2>4. ReplyIsTrue'
    <3> SUFFICES ASSUME pending.phase = "stored"
                 PROVE  ReplyIsTrue'
      BY <2>2 DEF ReplyIsTrue
    <3>1. pending.reply.item \in Items
      BY DEF IInv, ReplyFitsThePayload
    <3>2. db.next_row \in Nat /\ db'.next_row \in Nat
      BY DEF TypeOK, Tables, ConstantsAssumption
    <3>3. \A a \in Sent.added :
            /\ ReplyId(a) < db'.next_row
            /\ db'.skills[ReplyId(a)].item # 0 =>
                 db'.skills[ReplyId(a)].item = pending.reply.item /\ db'.skills[ReplyId(a)].skill = a.skill
      BY <2>3, <3>2, ReplyIdsAreRows DEF RInv, ReplyIsTrue, TablesGrow
    <3>4. \A a : ReplyId(a)' = ReplyId(a)
      BY <2>2 DEF ReplyId, Place, Sent
    <3> QED
      BY <2>2, <2>3, <3>1, <3>3, <3>4 DEF RInv, ReplyIsTrue, TablesGrow, Sent
  <2> QED
    BY <1>1, <2>2, <2>3, <2>4, GrowingKeepsTheRows
<1> QED
  BY <1>2, <1>3, <1>4

(* A save that ended leaves nothing to say of it.                          *)
LEMMA NoSaveKeepsTheRows ==
  ASSUME pending' = NoSave, \A request \in late' : AddsEachRowOnce(request.payload)
  PROVE  /\ PayloadsAreSound' /\ IdleIsNoSave' /\ SentRowsWait' /\ ReplyIsTrue'
         /\ pending'.work_skills = {} /\ ~Saving'
<1>1. /\ pending'.phase = "none" /\ pending'.work_skills = {} /\ pending'.payload.added = {}
  BY DEF NoSave, NoPayload
<1>2. PayloadsAreSound'
  BY <1>1 DEF PayloadsAreSound, AddsEachRowOnce
<1> QED
  BY <1>1, <1>2 DEF IdleIsNoSave, SentRowsWait, ReplyIsTrue, Saving

(* What commit makes of a row: an added row takes the id answered for it   *)
(* and the count that was sent, the others keep their id.                  *)
LEMMA CommittedRows ==
  ASSUME ConstantsAssumption, IInv, AddsEachRowOnce(Sent), NEW r \in Rows
  PROVE  /\ CommittedRow(r).skill = rows[r].skill /\ CommittedRow(r).count = rows[r].count
         /\ \A a \in Sent.added : a.row = r =>
              CommittedRow(r).id = ReplyId(a) /\ CommittedRow(r).count_in_db = a.count
         /\ (\A a \in Sent.added : a.row # r) =>
              /\ CommittedRow(r).id = rows[r].id
              /\ CommittedRow(r).count_in_db =
                   IF rows[r].id # 0 /\ \E c \in Sent.changed : c.id = rows[r].id
                   THEN (CHOOSE c \in Sent.changed : c.id = rows[r].id).count ELSE rows[r].count_in_db
<1>1. rows[r] \in RowRecords
  BY DEF IInv, TypeOK
<1>2. ASSUME NEW a \in Sent.added, a.row = r
      PROVE  /\ CommittedRow(r).skill = rows[r].skill /\ CommittedRow(r).count = rows[r].count
             /\ CommittedRow(r).id = ReplyId(a) /\ CommittedRow(r).count_in_db = a.count
  <2>1. (CHOOSE b \in Sent.added : b.row = r) = a
    BY <1>2 DEF AddsEachRowOnce
  <2>2. CommittedRow(r) = [rows[r] EXCEPT !.id = ReplyId(a), !.count_in_db = a.count, !.saving = FALSE]
    BY <1>2, <2>1 DEF CommittedRow, ReplyId
  <2> QED
    BY <1>1, <2>2 DEF RowRecords
<1>3. ASSUME \A a \in Sent.added : a.row # r
      PROVE  /\ CommittedRow(r).skill = rows[r].skill /\ CommittedRow(r).count = rows[r].count
             /\ CommittedRow(r).id = rows[r].id
             /\ CommittedRow(r).count_in_db =
                  IF rows[r].id # 0 /\ \E c \in Sent.changed : c.id = rows[r].id
                  THEN (CHOOSE c \in Sent.changed : c.id = rows[r].id).count ELSE rows[r].count_in_db
  <2> DEFINE count == (CHOOSE c \in Sent.changed : c.id = rows[r].id).count
  <2>1. CASE rows[r].id # 0 /\ \E c \in Sent.changed : c.id = rows[r].id
    <3>1. CommittedRow(r) = [rows[r] EXCEPT !.count_in_db = count, !.saving = FALSE]
      BY <1>3, <2>1 DEF CommittedRow
    <3> HIDE DEF count
    <3>2. /\ CommittedRow(r).skill = rows[r].skill /\ CommittedRow(r).count = rows[r].count
          /\ CommittedRow(r).id = rows[r].id /\ CommittedRow(r).count_in_db = count
      BY <1>1, <3>1 DEF RowRecords
    <3> QED
      BY <2>1, <3>2 DEF count
  <2>2. CASE ~(rows[r].id # 0 /\ \E c \in Sent.changed : c.id = rows[r].id)
    BY <1>3, <2>2 DEF CommittedRow
  <2> QED
    BY <2>1, <2>2
<1> QED
  BY <1>2, <1>3

LEMMA CommitKeepsTheRows ==
  ASSUME ConstantsAssumption, IInv, RInv, NothingStoredYet,
         pending.phase = "stored", Commit, pending' = NoSave, UNCHANGED <<db, late>>
  PROVE  RInv'
<1> TypeOK
  BY DEF IInv
<1>1. /\ PayloadsAreSound' /\ IdleIsNoSave' /\ SentRowsWait' /\ ReplyIsTrue'
      /\ pending'.work_skills = {} /\ Saving
  BY NoSaveKeepsTheRows DEF RInv, PayloadsAreSound, Saving
<1>2. /\ made' = made /\ work_skills' = work_skills
      /\ \A r \in Rows : rows'[r] = CommittedRow(r)
      /\ work_skills_in_db' \subseteq pending.work_skills
      /\ record'.id = pending.reply.item
  BY DEF Commit, TypeOK, Records
<1>3. Sent = pending.payload /\ AddsEachRowOnce(Sent)
  BY DEF RInv, PayloadsAreSound, Sent
<1>4. /\ \A r \in Rows : rows'[r].skill = rows[r].skill
      /\ \A r \in Rows : \A a \in Sent.added : a.row = r => rows'[r].id = ReplyId(a)
      /\ \A r \in Rows : (\A a \in Sent.added : a.row # r) => rows'[r].id = rows[r].id
  BY <1>2, <1>3, CommittedRows
<1>5. work_skills \subseteq Rows /\ pending.work_skills \subseteq Rows
  BY DEF TypeOK, Saves
<1>6. RowsWereMade' /\ FormsHaveOneRowPerSkill'
  BY <1>1, <1>2, <1>4, <1>5 DEF RInv, RowsWereMade, RowsOnThePage, FormsHaveOneRowPerSkill, OneRowPerSkill
<1>7. IdsWereGivenOut'
  <2>1. \A r \in Rows : rows'[r].id < db.next_row
    BY <1>4 DEF RInv, IdsWereGivenOut, ReplyIsTrue
  <2> QED
    BY <1>2, <2>1 DEF RInv, IdsWereGivenOut, ReplyIsTrue
<1>8. IdsBelongToTheirRows'
  <2> SUFFICES ASSUME NEW r \in Rows, rows'[r].id # 0, db.skills[rows'[r].id].item # 0
               PROVE  db.skills[rows'[r].id].skill = rows[r].skill /\ db.skills[rows'[r].id].item = pending.reply.item
    BY <1>2, <1>4 DEF IdsBelongToTheirRows
  <2>1. ASSUME NEW a \in Sent.added, a.row = r
        PROVE  db.skills[rows'[r].id].skill = rows[r].skill /\ db.skills[rows'[r].id].item = pending.reply.item
    BY <1>1, <1>4, <2>1 DEF RInv, ReplyIsTrue, SentRowsWait
  <2>2. ASSUME \A a \in Sent.added : a.row # r
        PROVE  db.skills[rows'[r].id].skill = rows[r].skill /\ db.skills[rows'[r].id].item = pending.reply.item
    <3>1. rows'[r].id = rows[r].id /\ record.id # 0
      BY <1>4, <2>2 DEF NothingStoredYet
    <3>2. pending.reply.item = record.id
      BY <1>1, <3>1 DEF RInv, ReplyIsTrue, SentRowsWait
    <3> QED
      BY <3>1, <3>2 DEF RInv, IdsBelongToTheirRows
  <2> QED
    BY <2>1, <2>2
<1>9. TablesAreNumbered' /\ UniqueKeys'
  BY DEF RInv, TablesAreNumbered, UniqueKeys
<1> QED
  BY <1>1, <1>6, <1>7, <1>8, <1>9 DEF RInv

LEMMA ShowingKeepsTheRows ==
  ASSUME ConstantsAssumption, IInv, RInv, NEW item \in Items, db.items[item].stored,
         ShowStored(item), UNCHANGED db, pending' = NoSave,
         \A request \in late' : AddsEachRowOnce(request.payload)
  PROVE  RInv'
<1> TypeOK
  BY DEF IInv
<1>1. /\ PayloadsAreSound' /\ IdleIsNoSave' /\ SentRowsWait' /\ ReplyIsTrue'
      /\ pending'.work_skills = {}
  BY NoSaveKeepsTheRows
<1>2. /\ work_skills' = RowsOf(db, item) /\ work_skills_in_db' = RowsOf(db, item)
      /\ made' = db.next_row - 1 /\ record'.id = item
      /\ \A r \in RowsOf(db, item) : rows'[r].id = r /\ rows'[r].skill = db.skills[r].skill
      /\ \A r \in Rows \ RowsOf(db, item) : rows'[r].id = 0
  BY DEF ShowStored, LoadedRecord, LoadedRows, NoRow, RowsOf
<1>3. /\ \A r \in RowsOf(db, item) : r \in Rows /\ db.skills[r].item = item
      /\ item # 0
      /\ db.next_row \in Nat /\ db.next_row >= 1
      /\ \A r \in Rows : r \in Nat
  BY DEF RowsOf, Items, Rows, TypeOK, Tables, ConstantsAssumption
<1>4. RowsWereMade'
  BY <1>1, <1>2, <1>3 DEF RInv, TablesAreNumbered, RowsWereMade, RowsOnThePage
<1>5. FormsHaveOneRowPerSkill'
  BY <1>1, <1>2, <1>3 DEF RInv, UniqueKeys, FormsHaveOneRowPerSkill, OneRowPerSkill
<1>6. IdsWereGivenOut'
  BY <1>2, <1>3 DEF RInv, TablesAreNumbered, IdsWereGivenOut
<1>7. IdsBelongToTheirRows'
  BY <1>2, <1>3 DEF IdsBelongToTheirRows
<1>8. TablesAreNumbered' /\ UniqueKeys'
  BY DEF RInv, TablesAreNumbered, UniqueKeys
<1> QED
  BY <1>1, <1>4, <1>5, <1>6, <1>7, <1>8 DEF RInv

LEMMA NewFormKeepsTheRows ==
  ASSUME ConstantsAssumption, db' = NoTables, pending' = NoSave, late' = {},
         record'.id = 0, work_skills' = {}, work_skills_in_db' = {},
         \A r \in Rows : rows'[r].id = 0
  PROVE  RInv'
<1>1. /\ PayloadsAreSound' /\ IdleIsNoSave' /\ SentRowsWait' /\ ReplyIsTrue'
      /\ pending'.work_skills = {}
  BY NoSaveKeepsTheRows
<1>2. /\ \A i \in Items : db'.items[i].stored = FALSE
      /\ \A i \in Rows : db'.skills[i].item = 0
      /\ db'.next_row = 1
  BY DEF NoTables, NoItem, NoSkillRow
<1>3. TablesAreNumbered' /\ UniqueKeys'
  BY <1>2 DEF TablesAreNumbered, UniqueKeys
<1>4. RowsWereMade' /\ FormsHaveOneRowPerSkill'
  BY <1>1 DEF RowsWereMade, RowsOnThePage, FormsHaveOneRowPerSkill, OneRowPerSkill
<1>5. IdsWereGivenOut' /\ IdsBelongToTheirRows'
  BY <1>2 DEF IdsWereGivenOut, IdsBelongToTheirRows
<1> QED
  BY <1>1, <1>3, <1>4, <1>5 DEF RInv

LEMMA DiscardingKeepsTheRows ==
  ASSUME ConstantsAssumption, IInv, RInv, Discard, UNCHANGED db, pending' = NoSave,
         \A request \in late' : AddsEachRowOnce(request.payload)
  PROVE  RInv'
<1> TypeOK
  BY DEF IInv
<1>1. /\ PayloadsAreSound' /\ IdleIsNoSave' /\ SentRowsWait' /\ ReplyIsTrue'
      /\ pending'.work_skills = {}
  BY NoSaveKeepsTheRows
<1>2. /\ \A r \in Rows : RowKept(r)
      /\ RecordKept /\ made' = made
      /\ work_skills' = work_skills /\ work_skills_in_db' = work_skills_in_db
  BY SavingIsSmall DEF PageKeepsItsRows, Discard
<1>3. work_skills \subseteq Rows /\ work_skills_in_db \subseteq Rows
  BY DEF TypeOK
<1>4. RowsWereMade' /\ FormsHaveOneRowPerSkill'
  BY <1>1, <1>2, <1>3 DEF RInv, RowsWereMade, RowsOnThePage, FormsHaveOneRowPerSkill, OneRowPerSkill, RowKept
<1>5. IdsWereGivenOut' /\ IdsBelongToTheirRows'
  BY <1>2 DEF RInv, IdsWereGivenOut, IdsBelongToTheirRows, RowKept, RecordKept
<1>6. TablesAreNumbered' /\ UniqueKeys'
  BY DEF RInv, TablesAreNumbered, UniqueKeys
<1> QED
  BY <1>1, <1>4, <1>5, <1>6 DEF RInv

(* A page that just opened shows what the tables hold.                     *)
LEMMA InitHasItsRows == ConstantsAssumption /\ Init => RInv
<1> SUFFICES ASSUME ConstantsAssumption, Init
             PROVE  RInv
  OBVIOUS
<1> TypeOK
  BY InitIsTyped DEF IInv
<1>1. /\ pending.phase = "none" /\ pending.work_skills = {} /\ pending.payload.added = {}
      /\ pending = NoSave /\ late = {} /\ ~Saving
  BY DEF Init, NoSave, NoPayload, Saving
<1>2. PayloadsAreSound /\ IdleIsNoSave /\ SentRowsWait /\ ReplyIsTrue
  BY <1>1 DEF PayloadsAreSound, AddsEachRowOnce, IdleIsNoSave, SentRowsWait, ReplyIsTrue
<1>3. 1 \in Items /\ db.next_row \in Nat /\ db.next_row >= 1 /\ \A i \in Rows : i \in Nat /\ i >= 1
  BY DEF TypeOK, Tables, Items, Rows, ConstantsAssumption
<1>4. TablesAreNumbered /\ UniqueKeys
  <2>1. CASE db = NoTables
    BY <2>1 DEF NoTables, NoItem, NoSkillRow, TablesAreNumbered, UniqueKeys
  <2>2. CASE db # NoTables
    <3>1. PICK crew \in CrewSizes, p \in Prices,
               f \in UNION {{g \in [1 .. n -> Skills] : \A i, j \in 1 .. n : g[i] = g[j] => i = j} :
                               n \in {m \in 0 .. MaxPeople : m <= MaxRows}} :
            db = [items |-> [i \in Items |-> IF i = 1 THEN [stored |-> TRUE, crew |-> crew, price |-> p] ELSE NoItem],
                  skills |-> [i \in Rows |-> IF i \in DOMAIN f
                                             THEN [item |-> 1, skill |-> f[i], count |-> 1] ELSE NoSkillRow],
                  next_item |-> 2, next_row |-> Cardinality(DOMAIN f) + 1]
      BY <2>2 DEF Init, InitialTables
    <3>2. PICK n \in 0 .. MaxPeople : /\ n <= MaxRows
                                      /\ f \in [1 .. n -> Skills]
                                      /\ \A i, j \in 1 .. n : f[i] = f[j] => i = j
      OBVIOUS
    <3>3. Cardinality(DOMAIN f) = n /\ n \in Nat
      BY <3>2, FS_Interval DEF ConstantsAssumption
    <3>4. \A i \in Items : db.items[i].stored => i = 1
      BY <3>1 DEF NoItem
    <3>5. \A i \in Rows : db.skills[i].item # 0 =>
            i \in 1 .. n /\ db.skills[i].item = 1 /\ db.skills[i].skill = f[i]
      BY <3>1, <3>2 DEF NoSkillRow
    <3>6. db.next_item = 2 /\ db.next_row = n + 1
      BY <3>1, <3>3
    <3>7. TablesAreNumbered
      BY <1>3, <3>2, <3>3, <3>4, <3>5, <3>6 DEF TablesAreNumbered
    <3>8. UniqueKeys
      BY <3>2, <3>5 DEF UniqueKeys
    <3> QED
      BY <3>7, <3>8
  <2> QED
    BY <2>1, <2>2
<1>5. /\ work_skills = RowsOf(db, 1) /\ work_skills_in_db = RowsOf(db, 1) /\ made = db.next_row - 1
      /\ \A r \in RowsOf(db, 1) : r \in Rows /\ db.skills[r].item = 1
  BY DEF Init, RowsOf
<1>6. /\ \A r \in RowsOf(db, 1) : rows[r].skill = db.skills[r].skill
      /\ \A r \in Rows : rows[r].id # 0 =>
           rows[r].id = r /\ rows[r].skill = db.skills[r].skill /\ db.skills[r].item = 1 /\ record.id = 1
      /\ record.id # 0 => record.id = 1 /\ db.items[1].stored
  <2>1. CASE db.items[1].stored
    BY <2>1 DEF Init, LoadedRecord, LoadedRows, NoRow, RowsOf
  <2>2. CASE ~db.items[1].stored
    <3>1. db = NoTables
      BY <1>3, <2>2 DEF Init, InitialTables
    <3>2. RowsOf(db, 1) = {}
      BY <3>1 DEF NoTables, RowsOf, NoSkillRow
    <3> QED
      BY <2>2, <3>2 DEF Init, NewRecord, NoRow
  <2> QED
    BY <2>1, <2>2
<1>7. RowsWereMade
  BY <1>1, <1>3, <1>4, <1>5, <1>6 DEF RowsWereMade, RowsOnThePage, TablesAreNumbered
<1>8. FormsHaveOneRowPerSkill
  BY <1>1, <1>4, <1>5, <1>6 DEF FormsHaveOneRowPerSkill, OneRowPerSkill, UniqueKeys
<1>9. IdsWereGivenOut
  <2>1. ASSUME NEW r \in Rows
        PROVE  rows[r].id < db.next_row
    <3>1. CASE rows[r].id = 0
      BY <1>3, <3>1
    <3>2. CASE rows[r].id # 0
      BY <1>4, <1>6, <3>2 DEF TablesAreNumbered
    <3> QED
      BY <3>1, <3>2
  <2> QED
    BY <1>6, <2>1 DEF IdsWereGivenOut
<1>10. IdsBelongToTheirRows
  BY <1>6 DEF IdsBelongToTheirRows
<1> QED
  BY <1>2, <1>4, <1>7, <1>8, <1>9, <1>10 DEF RInv

LEMMA RowsAreKept ==
  ConstantsAssumption /\ IInv /\ NothingStoredYet /\ RInv /\ [Next]_vars => RInv'
<1> SUFFICES ASSUME ConstantsAssumption, IInv, NothingStoredYet, RInv, [Next]_vars
             PROVE  RInv'
  OBVIOUS
<1> TypeOK /\ IInv'
  BY InductiveStep DEF IInv
<1>1. /\ \A request \in late : AddsEachRowOnce(request.payload)
      /\ AddsEachRowOnce(pending.payload)
  BY DEF RInv, PayloadsAreSound
<1>2. ASSUME \/ \E crew \in CrewSizes : EditCrew(crew)
             \/ \E p \in Prices : EditPrice(p)
             \/ \E skill \in Skills : AddWorkSkill(skill)
             \/ \E r \in work_skills : RemoveWorkSkill(r)
             \/ Revert
      PROVE  RInv'
  BY <1>2, EditsAreSmall, EditsKeepTheRows
<1>3. ASSUME NEW after \in {"stay", "reload", "next"}, Save(after)
      PROVE  RInv'
  BY <1>3, SavingKeepsTheRows
<1>4. ASSUME ServerStores \/ ServerRefuses \/ \E request \in late : LateStore(request)
      PROVE  RInv'
  BY <1>4, ServerKeepsTheRows
<1>5. ASSUME Saved
      PROVE  RInv'
  <2>1. pending.phase = "stored" /\ pending' = NoSave
    BY <1>5 DEF Saved
  <2>2. CASE Commit /\ UNCHANGED <<db, late, lost>>
    BY <2>1, <2>2, CommitKeepsTheRows
  <2>3. CASE ShowStored(pending.reply.item) /\ UNCHANGED <<db, late, lost>>
    <3>1. pending.reply.item \in Items /\ db.items[pending.reply.item].stored
      BY <2>1 DEF IInv, ReplyFitsThePayload, RInv, ReplyIsTrue
    <3> QED
      BY <1>1, <2>1, <2>3, <3>1, ShowingKeepsTheRows
  <2>4. CASE ShowNew /\ db' = NoTables /\ late' = {} /\ lost' = 0
    <3>1. record'.id = 0 /\ work_skills' = {} /\ work_skills_in_db' = {} /\ \A r \in Rows : rows'[r].id = 0
      BY <2>4 DEF ShowNew, NewRecord, NoRow
    <3> QED
      BY <2>1, <2>4, <3>1, NewFormKeepsTheRows
  <2> QED
    BY <1>5, <2>2, <2>3, <2>4 DEF Saved
<1>6. Abandon => /\ UNCHANGED db /\ pending' = NoSave
                 /\ \A request \in late' : AddsEachRowOnce(request.payload)
  BY <1>1 DEF Abandon
<1>7. ASSUME Refused \/ Timeout
      PROVE  RInv'
  <2>1. /\ Discard /\ UNCHANGED db /\ pending' = NoSave
        /\ \A request \in late' : AddsEachRowOnce(request.payload)
    BY <1>1, <1>6, <1>7 DEF Refused, Timeout
  <2> QED
    BY <2>1, DiscardingKeepsTheRows
<1>8. ASSUME Reopen
      PROVE  RInv'
  <2>1. /\ record.id \in Items /\ db.items[record.id].stored /\ ShowStored(record.id)
    BY <1>8 DEF Reopen, TypeOK, Records, Items, RInv, IdsWereGivenOut
  <2>2. /\ UNCHANGED db /\ pending' = NoSave
        /\ \A request \in late' : AddsEachRowOnce(request.payload)
    BY <1>1, <1>6, <1>8 DEF Reopen, RInv, IdleIsNoSave
  <2> QED
    BY <2>1, <2>2, ShowingKeepsTheRows
<1>9. CASE UNCHANGED vars
  <2>1. PageKeepsItsRows
    BY <1>9 DEF vars, form, PageKeepsItsRows, RecordKept, RowKept
  <2> QED
    BY <1>9, <2>1, EditsKeepTheRows DEF vars
<1> QED
  BY <1>2, <1>3, <1>4, <1>5, <1>7, <1>8, <1>9 DEF Next

(* The id of a row on the page is, as long as that row is stored, the id   *)
(* of a row of that skill and of the page's line item, whatever was edited *)
(* while saves ran, answered late or lost.                                 *)
THEOREM OwnIds == Spec => []IdsBelongToTheirRows
<1> USE ConstantsAssumption
<1>1. Init => IInv /\ NothingStoredYet /\ RInv
  BY InitIsTyped, InitStoresNothing, InitHasItsRows
<1>2. IInv /\ NothingStoredYet /\ RInv /\ [Next]_vars => IInv' /\ NothingStoredYet' /\ RInv'
  BY InductiveStep, NothingStoredIsKept, RowsAreKept
<1>3. RInv => IdsBelongToTheirRows
  BY DEF RInv
<1> QED
  BY <1>1, <1>2, <1>3, PTL DEF Spec

-----------------------------------------------------------------------------
(* Line items that are stored twice.                                       *)

(* Requests on their way that would store another line item.               *)
Inserts == {request \in late : request.payload.item = 0}

Own == IF record.id # 0 \/ pending.phase = "stored" THEN 1 ELSE 0

(* Every line item stored beside the page's own, and every request that    *)
(* may still store one, is a save the page gave up on.                     *)
OthersWereLost ==
  /\ IsFiniteSet(late)
  /\ db.next_item - 1 + Cardinality(Inserts) <= lost + Own

LEMMA InsertsAreCounted ==
  ASSUME IsFiniteSet(late)
  PROVE  IsFiniteSet(Inserts) /\ Cardinality(Inserts) \in Nat
BY FS_Subset, FS_CardinalityType DEF Inserts

(* A step that neither stores nor loses anything.                          *)
LEMMA NothingLost ==
  ASSUME ConstantsAssumption, TypeOK, OthersWereLost, UNCHANGED <<late, lost>>,
         db'.next_item = db.next_item, Own' >= Own
  PROVE  OthersWereLost'
<1>1. db.next_item \in Int /\ lost \in Int
  BY DEF TypeOK, Tables, ConstantsAssumption
<1>2. Cardinality(Inserts) \in Nat
  BY InsertsAreCounted DEF OthersWereLost
<1>3. Inserts' = Inserts
  BY DEF Inserts
<1>4. Own \in Int /\ Own' \in Int
  BY DEF Own
<1> QED
  BY <1>1, <1>2, <1>3, <1>4 DEF OthersWereLost

(* A save is given up: its request is on its way, or its line item stored. *)
LEMMA AbandoningLosesOne ==
  ASSUME ConstantsAssumption, TypeOK, OthersWereLost, SentRowsWait, Abandon, record'.id = record.id
  PROVE  OthersWereLost'
<1>1. db'.next_item = db.next_item /\ db.next_item \in Int /\ lost \in Int /\ lost' = lost + 1
  BY DEF Abandon, TypeOK, Tables, ConstantsAssumption
<1>2. Cardinality(Inserts) \in Nat /\ IsFiniteSet(Inserts) /\ IsFiniteSet(late)
  BY InsertsAreCounted DEF OthersWereLost
<1>3. pending'.phase = "none"
  BY DEF Abandon, NoSave
<1>4. CASE pending.phase = "sent"
  <2> DEFINE x == [nth |-> lost, payload |-> pending.payload]
  <2>1. late' = late \cup {x}
    BY <1>4 DEF Abandon
  <2>2. x.payload = pending.payload
    OBVIOUS
  <2> HIDE DEF x
  <2>3. IsFiniteSet(late')
    BY <1>2, <2>1, FS_AddElement
  <2>4. CASE record.id = 0
    <3>1. Inserts' \subseteq Inserts \cup {x}
      BY <2>1 DEF Inserts
    <3>2. IsFiniteSet(Inserts \cup {x}) /\ Cardinality(Inserts \cup {x}) <= Cardinality(Inserts) + 1
      <4>1. /\ IsFiniteSet(Inserts \cup {x})
            /\ Cardinality(Inserts \cup {x}) = IF x \in Inserts THEN Cardinality(Inserts) ELSE Cardinality(Inserts) + 1
        BY <1>2, FS_AddElement, Zenon
      <4> QED
        BY <1>2, <4>1
    <3>3. Cardinality(Inserts \cup {x}) \in Nat
      BY <3>2, FS_CardinalityType
    <3>4. IsFiniteSet(Inserts') /\ Cardinality(Inserts') <= Cardinality(Inserts \cup {x})
      BY <3>1, <3>2, FS_Subset
    <3>5. Cardinality(Inserts') \in Nat
      BY <3>4, FS_CardinalityType
    <3>6. Own = 0 /\ Own' = 0
      BY <1>3, <1>4, <2>4 DEF Own
    <3> QED
      BY <1>1, <1>2, <2>3, <3>2, <3>3, <3>4, <3>5, <3>6 DEF OthersWereLost
  <2>5. CASE record.id # 0
    <3>1. pending.payload.item # 0
      BY <1>4, <2>5 DEF SentRowsWait, Saving, Sent
    <3>2. Inserts' = Inserts
      BY <2>1, <2>2, <3>1 DEF Inserts
    <3>3. Own = 1 /\ Own' = 1
      BY <2>5 DEF Own
    <3> QED
      BY <1>1, <1>2, <2>3, <3>2, <3>3 DEF OthersWereLost
  <2> QED
    BY <2>4, <2>5
<1>5. CASE pending.phase # "sent"
  <2>1. late' = late
    BY <1>5 DEF Abandon
  <2>2. Inserts' = Inserts
    BY <2>1 DEF Inserts
  <2>3. Own \in Int /\ Own' \in Int /\ Own' >= Own - 1
    BY DEF Own
  <2> QED
    BY <1>1, <1>2, <2>1, <2>2, <2>3 DEF OthersWereLost
<1> QED
  BY <1>4, <1>5

LEMMA InitLostNothing == ConstantsAssumption /\ Init => OthersWereLost
<1> SUFFICES ASSUME ConstantsAssumption, Init
             PROVE  OthersWereLost
  OBVIOUS
<1>1. late = {} /\ lost = 0
  BY DEF Init
<1>2. Inserts = {} /\ Cardinality({}) = 0 /\ IsFiniteSet({})
  BY <1>1, FS_EmptySet DEF Inserts
<1>3. db.next_item - 1 = Own
  <2>1. 1 \in Items
    BY DEF Items, ConstantsAssumption
  <2>2. pending.phase = "none"
    BY DEF Init, NoSave
  <2>3. CASE db = NoTables
    <3>1. record.id = 0
      BY <2>1, <2>3 DEF Init, NoTables, NoItem, NewRecord
    <3> QED
      BY <2>2, <2>3, <3>1 DEF NoTables, Own
  <2>4. CASE db # NoTables
    <3>1. db.items[1].stored /\ db.next_item = 2
      BY <2>1, <2>4 DEF Init, InitialTables
    <3>2. record.id = 1
      BY <3>1 DEF Init, LoadedRecord
    <3> QED
      BY <3>1, <3>2 DEF Own
  <2> QED
    BY <2>3, <2>4
<1>4. Own \in Int
  BY DEF Own
<1> QED
  BY <1>1, <1>2, <1>3, <1>4 DEF OthersWereLost

LEMMA OnlyLostSavesInsertTwice ==
  ConstantsAssumption /\ IInv /\ RInv /\ OthersWereLost /\ [Next]_vars => OthersWereLost'
<1> SUFFICES ASSUME ConstantsAssumption, IInv, RInv, OthersWereLost, [Next]_vars
             PROVE  OthersWereLost'
  OBVIOUS
<1> TypeOK /\ SentRowsWait
  BY DEF IInv, RInv
<1>1. db.next_item \in Int /\ lost \in Int
  BY DEF TypeOK, Tables, ConstantsAssumption
<1>2. Cardinality(Inserts) \in Nat /\ IsFiniteSet(Inserts) /\ IsFiniteSet(late)
  BY InsertsAreCounted DEF OthersWereLost
<1>3. ASSUME UNCHANGED <<db, late, lost>>, Own' >= Own
      PROVE  OthersWereLost'
  BY <1>3, NothingLost
<1>4. ASSUME \/ \E crew \in CrewSizes : EditCrew(crew)
             \/ \E p \in Prices : EditPrice(p)
             \/ \E skill \in Skills : AddWorkSkill(skill)
             \/ \E r \in work_skills : RemoveWorkSkill(r)
             \/ Revert
      PROVE  OthersWereLost'
  <2>1. UNCHANGED <<pending, db, late, lost>> /\ record'.id = record.id
    BY <1>4, EditsAreSmall DEF PageKeepsItsRows, PageMakesARow, RecordKept
  <2> QED
    BY <1>3, <2>1 DEF Own
<1>5. ASSUME NEW after \in {"stay", "reload", "next"}, Save(after)
      PROVE  OthersWereLost'
  <2>1. UNCHANGED <<db, late, lost>> /\ record'.id = record.id /\ pending.phase = "none"
    BY <1>5 DEF Save, Saving, TypeOK, Records
  <2> QED
    BY <1>3, <2>1 DEF Own
<1>6. ASSUME ServerStores
      PROVE  OthersWereLost'
  <2>1. /\ pending.phase = "sent" /\ pending'.phase = "stored"
        /\ UNCHANGED <<late, lost, record>>
        /\ pending.payload.item = record.id
    BY <1>6 DEF ServerStores, TypeOK, Saves, form, SentRowsWait, Saving, Sent
  <2>2. db'.next_item = db.next_item + IF record.id = 0 THEN 1 ELSE 0
    BY <1>6, <2>1 DEF ServerStores, Stored
  <2>3. Inserts' = Inserts
    BY <2>1 DEF Inserts
  <2>4. Own' = Own + IF record.id = 0 THEN 1 ELSE 0
    BY <2>1 DEF Own
  <2>5. Own \in Int
    BY DEF Own
  <2> QED
    BY <1>1, <1>2, <2>1, <2>2, <2>3, <2>4, <2>5 DEF OthersWereLost
<1>7. ASSUME ServerRefuses
      PROVE  OthersWereLost'
  <2>1. /\ UNCHANGED <<db, late, lost, record>> /\ pending.phase = "sent"
    BY <1>7 DEF ServerRefuses, form
  <2> QED
    BY <1>3, <2>1 DEF Own
<1>8. ASSUME NEW request \in late, LateStore(request)
      PROVE  OthersWereLost'
  <2> DEFINE added == IF request.payload.item = 0 THEN 1 ELSE 0
  <2>1. late' = late \ {request} /\ UNCHANGED <<lost, record, pending>>
    BY <1>8 DEF LateStore, form
  <2>2. db'.next_item = db.next_item \/ db'.next_item = db.next_item + added
    BY <1>8 DEF LateStore, Stored
  <2>3. Cardinality(Inserts') = Cardinality(Inserts) - added
    <3>1. CASE request.payload.item = 0
      <4>1. request \in Inserts /\ Inserts' = Inserts \ {request}
        BY <2>1, <3>1 DEF Inserts
      <4> QED
        BY <1>2, <3>1, <4>1, FS_RemoveElement
    <3>2. CASE request.payload.item # 0
      <4>1. Inserts' = Inserts
        BY <2>1, <3>2 DEF Inserts
      <4> QED
        BY <1>2, <3>2, <4>1
    <3> QED
      BY <3>1, <3>2
  <2>4. IsFiniteSet(late')
    BY <1>2, <2>1, FS_Subset
  <2>5. Own' = Own /\ Own \in Int
    BY <2>1 DEF Own
  <2> QED
    BY <1>1, <1>2, <2>1, <2>2, <2>3, <2>4, <2>5 DEF OthersWereLost
<1>9. ASSUME Saved
      PROVE  OthersWereLost'
  <2>1. pending.phase = "stored"
    BY <1>9 DEF Saved
  <2>2. ASSUME UNCHANGED <<db, late, lost>>, record'.id = pending.reply.item
        PROVE  OthersWereLost'
    <3>1. pending.reply.item # 0
      BY <2>1 DEF IInv, ReplyFitsThePayload, Items
    <3> QED
      BY <1>3, <2>2, <3>1 DEF Own
  <2>3. CASE Commit /\ UNCHANGED <<db, late, lost>>
    BY <2>2, <2>3 DEF Commit, TypeOK, Records
  <2>4. CASE ShowStored(pending.reply.item) /\ UNCHANGED <<db, late, lost>>
    BY <2>2, <2>4 DEF ShowStored, LoadedRecord
  <2>5. CASE ShowNew /\ db' = NoTables /\ late' = {} /\ lost' = 0
    <3>1. db'.next_item = 1 /\ Inserts' = {}
      BY <2>5 DEF NoTables, Inserts
    <3>2. Own' \in Int /\ Own' >= 0
      BY DEF Own
    <3> QED
      BY <2>5, <3>1, <3>2, FS_EmptySet DEF OthersWereLost
  <2> QED
    BY <1>9, <2>3, <2>4, <2>5 DEF Saved
<1>10. ASSUME Refused
       PROVE  OthersWereLost'
  <2>1. UNCHANGED <<db, late, lost>> /\ record'.id = record.id /\ pending.phase = "refused"
    BY <1>10 DEF Refused, Discard, TypeOK, Records
  <2> QED
    BY <1>3, <2>1 DEF Own
<1>11. ASSUME Timeout
       PROVE  OthersWereLost'
  <2>1. record'.id = record.id
    BY <1>11 DEF Timeout, Discard, TypeOK, Records
  <2> QED
    BY <1>11, <2>1, AbandoningLosesOne DEF Timeout
<1>12. ASSUME Reopen
       PROVE  OthersWereLost'
  <2>1. record'.id = record.id
    BY <1>12 DEF Reopen, ShowStored, LoadedRecord
  <2>2. CASE UNCHANGED <<pending, db, late, lost>>
    BY <1>3, <2>1, <2>2 DEF Own
  <2>3. CASE Abandon
    BY <2>1, <2>3, AbandoningLosesOne
  <2> QED
    BY <1>12, <2>2, <2>3 DEF Reopen
<1>13. CASE UNCHANGED vars
  BY <1>3, <1>13 DEF vars, form, Own
<1> QED
  BY <1>4, <1>5, <1>6, <1>7, <1>8, <1>9, <1>10, <1>11, <1>12, <1>13 DEF Next

(* A line item is stored once more only for a save that the page gave up   *)
(* on: no edit, retry or reload after an answer that came inserts it twice.*)
THEOREM DuplicatesAreLost == Spec => []DuplicatesNeedALostAnswer
<1> USE ConstantsAssumption
<1>1. Init => IInv /\ NothingStoredYet /\ RInv /\ OthersWereLost
  BY InitIsTyped, InitStoresNothing, InitHasItsRows, InitLostNothing
<1>2. IInv /\ NothingStoredYet /\ RInv /\ OthersWereLost /\ [Next]_vars =>
        IInv' /\ NothingStoredYet' /\ RInv' /\ OthersWereLost'
  BY InductiveStep, NothingStoredIsKept, RowsAreKept, OnlyLostSavesInsertTwice
<1>3. IInv /\ RInv /\ OthersWereLost => DuplicatesNeedALostAnswer
  <2> SUFFICES ASSUME IInv, RInv, OthersWereLost
               PROVE  DuplicatesNeedALostAnswer
    OBVIOUS
  <2> DEFINE twice == {i \in Items : db.items[i].stored}
             given == 1 .. db.next_item - 1
  <2>1. db.next_item \in Nat /\ db.next_item >= 1 /\ lost \in Nat
    BY DEF IInv, TypeOK, Tables, ConstantsAssumption
  <2>2. twice \subseteq given
    BY <2>1 DEF RInv, TablesAreNumbered, Items
  <2>3. IsFiniteSet(given) /\ Cardinality(given) = db.next_item - 1
    <3> DEFINE n == db.next_item - 1
    <3>1. n \in Int /\ n >= 0
      BY <2>1
    <3> HIDE DEF n
    <3>2. IsFiniteSet(1 .. n) /\ Cardinality(1 .. n) = n
      BY <3>1, FS_Interval
    <3> QED
      BY <3>2 DEF n
  <2>4. Cardinality(twice) <= db.next_item - 1 /\ Cardinality(twice) \in Nat
    BY <2>2, <2>3, FS_Subset, FS_CardinalityType
  <2>5. Cardinality(Inserts) \in Nat
    BY InsertsAreCounted DEF OthersWereLost
  <2>6. db.next_item - 1 <= lost + 1
    BY <2>1, <2>5 DEF OthersWereLost, Own
  <2> QED
    BY <2>1, <2>4, <2>6 DEF DuplicatesNeedALostAnswer
<1> QED
  BY <1>1, <1>2, <1>3, PTL DEF Spec

-----------------------------------------------------------------------------
(* What the page knows of the stored line item, as long as every answer    *)
(* came.                                                                   *)

KnownIsStored ==
  IF record.id = 0 THEN price_in_db = NoPrice
  ELSE pending.phase # "stored" =>
    /\ ids_in_db = RowsOf(db, record.id)
    /\ db.items[record.id] = [stored |-> TRUE, crew |-> record.crew_in_db, price |-> price_in_db]
    /\ \A r \in RowsOnThePage : rows[r].id # 0 =>
         db.skills[rows[r].id] = [item |-> record.id, skill |-> rows[r].skill, count |-> rows[r].count_in_db]

(* What is left out of the payload is what the page knows to be stored.    *)
SentIsKnown ==
  Saving =>
    /\ \A r \in work_skills \ pending.work_skills : rows[r].id = 0
    /\ Sent.removed = ids_in_db \ {rows[r].id : r \in pending.work_skills}
    /\ Sent.price = IF pending.price = price_in_db THEN NoPrice ELSE pending.price
    /\ Sent.crew = Unsent => record.id # 0

SentCount(i, count) ==
  IF \E c \in Sent.changed : c.id = i THEN (CHOOSE c \in Sent.changed : c.id = i).count ELSE count

(* What commit is about to write down as stored.                           *)
SentIsStored ==
  pending.phase = "stored" =>
    /\ (ids_in_db \cup NewIds) \ Sent.removed = RowsOf(db, pending.reply.item)
    /\ db.items[pending.reply.item] =
         [stored |-> TRUE, crew |-> IF Sent.crew = Unsent THEN record.crew_in_db ELSE Sent.crew,
          price |-> pending.price]
    /\ \A a \in Sent.added :
         db.skills[ReplyId(a)] = [item |-> pending.reply.item, skill |-> a.skill, count |-> a.count]
    /\ \A r \in pending.work_skills : rows[r].id # 0 =>
         db.skills[rows[r].id] =
           [item |-> pending.reply.item, skill |-> rows[r].skill, count |-> SentCount(rows[r].id, rows[r].count_in_db)]

PageIsTrue == late = {} /\ KnownIsStored /\ SentIsKnown /\ SentIsStored

TrueUnlessLost == lost = 0 => PageIsTrue

LEMMA EditsKeepItTrue ==
  ASSUME ConstantsAssumption, IInv, RInv, PageIsTrue,
         UNCHANGED <<pending, db, late>>, PageKeepsItsRows \/ PageMakesARow
  PROVE  PageIsTrue'
<1> TypeOK
  BY DEF IInv
<1> DEFINE new == made + 1
<1>1. /\ RowsOnThePage \subseteq Rows
      /\ \A r \in RowsOnThePage : r <= made
      /\ made \in Nat
  BY PageIsNumbered DEF RInv
<1>2. /\ RecordKept
      /\ UNCHANGED <<work_skills_in_db, ids_in_db, price_in_db>>
      /\ \A r \in RowsOnThePage : RowKept(r)
  BY <1>1 DEF PageKeepsItsRows, PageMakesARow
<1>3. /\ \A r \in RowsOnThePage' : r \in RowsOnThePage \/ (r = new /\ rows'[new].id = 0)
      /\ Saving => \A r \in work_skills' : r \in work_skills \/ (r = new /\ rows'[new].id = 0)
  BY DEF PageKeepsItsRows, PageMakesARow, RowsOnThePage
<1>4. work_skills \subseteq RowsOnThePage /\ pending.work_skills \subseteq RowsOnThePage
  BY DEF RowsOnThePage
<1>5. KnownIsStored'
  <2>1. ASSUME record.id # 0, pending.phase # "stored", NEW r \in RowsOnThePage', rows'[r].id # 0
        PROVE  db.skills[rows'[r].id] =
                 [item |-> record.id, skill |-> rows'[r].skill, count |-> rows'[r].count_in_db]
    BY <1>2, <1>3, <2>1 DEF PageIsTrue, KnownIsStored, RowKept
  <2>2. record.id # 0 /\ pending.phase # "stored" =>
          /\ ids_in_db = RowsOf(db, record.id)
          /\ db.items[record.id] = [stored |-> TRUE, crew |-> record.crew_in_db, price |-> price_in_db]
    BY DEF PageIsTrue, KnownIsStored
  <2>3. record.id = 0 => price_in_db = NoPrice
    BY DEF PageIsTrue, KnownIsStored
  <2> QED
    BY <1>2, <2>1, <2>2, <2>3 DEF KnownIsStored, RecordKept, RowsOf
<1>6. SentIsKnown'
  <2> SUFFICES ASSUME Saving
               PROVE  /\ \A r \in work_skills' \ pending.work_skills : rows'[r].id = 0
                      /\ Sent.removed = ids_in_db \ {rows'[r].id : r \in pending.work_skills}
                      /\ Sent.price = IF pending.price = price_in_db THEN NoPrice ELSE pending.price
                      /\ Sent.crew = Unsent => record.id # 0
    BY <1>2 DEF SentIsKnown, Saving, Sent, RecordKept
  <2>1. \A r \in work_skills' \ pending.work_skills : rows'[r].id = 0
    BY <1>2, <1>3, <1>4 DEF PageIsTrue, SentIsKnown, RowKept
  <2>2. {rows'[r].id : r \in pending.work_skills} = {rows[r].id : r \in pending.work_skills}
    BY <1>2, <1>4 DEF RowKept
  <2> QED
    BY <2>1, <2>2 DEF PageIsTrue, SentIsKnown
<1>7. SentIsStored'
  <2> SUFFICES ASSUME pending.phase = "stored"
               PROVE  SentIsStored'
    BY DEF SentIsStored
  <2>1. /\ Sent' = Sent /\ NewIds' = NewIds
        /\ \A a : ReplyId(a)' = ReplyId(a)
        /\ \A i, count : SentCount(i, count)' = SentCount(i, count)
    BY DEF Sent, NewIds, ReplyId, SentCount, Place
  <2>2. Sent.crew = Unsent => record'.crew_in_db = record.crew_in_db
    BY <1>2 DEF PageIsTrue, SentIsKnown, Saving, RecordKept
  <2>3. /\ (ids_in_db \cup NewIds) \ Sent.removed = RowsOf(db, pending.reply.item)
        /\ db.items[pending.reply.item] =
             [stored |-> TRUE, crew |-> IF Sent.crew = Unsent THEN record.crew_in_db ELSE Sent.crew,
              price |-> pending.price]
        /\ \A a \in Sent.added :
             db.skills[ReplyId(a)] = [item |-> pending.reply.item, skill |-> a.skill, count |-> a.count]
    BY DEF PageIsTrue, SentIsStored
  <2>4. ASSUME NEW r \in pending.work_skills, rows'[r].id # 0
        PROVE  db.skills[rows'[r].id] =
                 [item |-> pending.reply.item, skill |-> rows'[r].skill,
                  count |-> SentCount(rows'[r].id, rows'[r].count_in_db)]
    <3>1. rows'[r].id = rows[r].id /\ rows'[r].skill = rows[r].skill /\ rows'[r].count_in_db = rows[r].count_in_db
      BY <1>2, <1>4 DEF RowKept
    <3> QED
      BY <2>4, <3>1 DEF PageIsTrue, SentIsStored
  <2>5. \A r : SentCount(rows[r].id, rows[r].count_in_db)' = SentCount(rows'[r].id, rows'[r].count_in_db)
    BY DEF SentCount, Sent
  <2> QED
    BY <1>2, <2>1, <2>2, <2>3, <2>4, <2>5 DEF SentIsStored, RowsOf
<1> QED
  BY <1>5, <1>6, <1>7 DEF PageIsTrue

LEMMA SavingKeepsItTrue ==
  ASSUME ConstantsAssumption, IInv, RInv, PageIsTrue, NEW after, Save(after)
  PROVE  PageIsTrue'
<1> TypeOK
  BY DEF IInv
<1>1. /\ PageKeepsItsRows
      /\ work_skills' = work_skills /\ ~Saving
      /\ pending'.phase = "sent" /\ Sent' = Payload /\ pending'.work_skills = work_skills
      /\ pending'.price = price
      /\ UNCHANGED <<db, late>>
  BY SavingIsSmall DEF Save, Sent
<1>2. /\ \A r \in Rows : RowKept(r)
      /\ RecordKept
      /\ UNCHANGED <<work_skills_in_db, ids_in_db, price_in_db>>
  BY <1>1 DEF PageKeepsItsRows
<1>3. work_skills \subseteq Rows /\ work_skills_in_db \subseteq Rows
  BY DEF TypeOK
<1>4. pending.phase # "stored"
  BY <1>1 DEF Saving
<1>5. KnownIsStored'
  <2>1. \A r \in RowsOnThePage' : r \in RowsOnThePage /\ RowKept(r)
    BY <1>1, <1>2, <1>3 DEF RowsOnThePage
  <2>2. ASSUME record.id # 0, NEW r \in RowsOnThePage', rows'[r].id # 0
        PROVE  db.skills[rows'[r].id] =
                 [item |-> record.id, skill |-> rows'[r].skill, count |-> rows'[r].count_in_db]
    BY <1>4, <2>1, <2>2 DEF PageIsTrue, KnownIsStored, RowKept
  <2>3. record.id # 0 =>
          /\ ids_in_db = RowsOf(db, record.id)
          /\ db.items[record.id] = [stored |-> TRUE, crew |-> record.crew_in_db, price |-> price_in_db]
    BY <1>4 DEF PageIsTrue, KnownIsStored
  <2>4. record.id = 0 => price_in_db = NoPrice
    BY DEF PageIsTrue, KnownIsStored
  <2> QED
    BY <1>1, <1>2, <2>2, <2>3, <2>4 DEF KnownIsStored, RecordKept, RowsOf
<1>6. SentIsKnown'
  <2>1. \A r \in work_skills : rows'[r].id = rows[r].id
    BY <1>2, <1>3 DEF RowKept
  <2>2. Payload.removed = ids_in_db \ {rows[r].id : r \in work_skills}
    BY DEF Payload, RemovedIds
  <2>3. Payload.price = IF price = price_in_db THEN NoPrice ELSE price
    BY DEF Payload, PriceNeedsToBeSaved
  <2>4. Payload.crew = Unsent => record.id # 0
    BY DEF Payload, RecordNeedsToBeSaved, Unsent, TypeOK, Records
  <2> QED
    BY <1>1, <1>2, <2>1, <2>2, <2>3, <2>4 DEF SentIsKnown, RecordKept
<1>7. SentIsStored' /\ late' = {}
  BY <1>1 DEF SentIsStored, PageIsTrue
<1> QED
  BY <1>5, <1>6, <1>7 DEF PageIsTrue

(* Of a line item that is not stored yet there is nothing to know.         *)
LEMMA KnownIds ==
  ASSUME ConstantsAssumption, IInv, RInv, NothingStoredYet, KnownIsStored, pending.phase # "stored",
         NEW item, item = IF record.id = 0 THEN db.next_item ELSE record.id
  PROVE  ids_in_db = RowsOf(db, item)
<1> db \in Tables
  BY DEF IInv, TypeOK
<1>1. CASE record.id = 0
  <2>1. RowsOf(db, db.next_item) = {}
    BY DEF RInv, TablesAreNumbered, RowsOf, Tables, ConstantsAssumption
  <2> QED
    BY <1>1, <2>1 DEF NothingStoredYet
<1>2. CASE record.id # 0
  BY <1>2 DEF KnownIsStored
<1> QED
  BY <1>1, <1>2

(* The server stores what was sent beside what the page knows.             *)
LEMMA StoringKeepsItTrue ==
  ASSUME ConstantsAssumption, IInv, RInv, NothingStoredYet, PageIsTrue, ServerStores
  PROVE  PageIsTrue'
<1> TypeOK /\ db \in Tables
  BY DEF IInv, TypeOK
<1> DEFINE p == Sent
<1>1. /\ p \in Payloads /\ IsFiniteSet(p.added) /\ AddsEachRowOnce(p) /\ Accepts(p) /\ Fits(p)
      /\ db' = Stored(p)
  BY DEF ServerStores, TypeOK, Saves, IInv, ReplyFitsThePayload, RInv, PayloadsAreSound, Sent
<1>2. /\ pending.phase = "sent" /\ Saving /\ Sent' = p
      /\ pending' = [pending EXCEPT !.phase = "stored", !.reply = Reply(p)]
      /\ pending'.phase = "stored" /\ pending'.reply = Reply(p) /\ pending'.price = pending.price
      /\ pending'.work_skills = pending.work_skills
      /\ UNCHANGED form /\ UNCHANGED late
  BY DEF ServerStores, TypeOK, Saves, Saving, Sent
<1>3. /\ p.item = record.id
      /\ \A a \in p.added : a.row \in pending.work_skills /\ rows[a.row].id = 0 /\ rows[a.row].skill = a.skill
      /\ p.removed = ids_in_db \ {rows[r].id : r \in pending.work_skills}
      /\ p.price = IF pending.price = price_in_db THEN NoPrice ELSE pending.price
      /\ p.crew = Unsent => record.id # 0
  BY <1>2 DEF RInv, SentRowsWait, PageIsTrue, SentIsKnown
<1>4. /\ Reply(p).item = ItemId(p)
      /\ record.id # 0 => ItemId(p) = record.id
      /\ record.id = 0 => ItemId(p) = db.next_item
      /\ ItemId(p) \in Items /\ ItemId(p) # 0
  BY <1>1, <1>3 DEF Reply, ItemId, Fits, Items, Tables, Payloads, ConstantsAssumption
<1>5. \A a \in p.added :
        /\ RowId(p, a) \in Rows /\ db.next_row <= RowId(p, a)
        /\ db'.skills[RowId(p, a)] = [item |-> ItemId(p), skill |-> a.skill, count |-> a.count]
        /\ Reply(p).ids[Place(a, p.added) + 1] = RowId(p, a)
  BY <1>1, WhatIsStored
<1>6. \A i \in Rows : (\A a \in p.added : RowId(p, a) # i) =>
        /\ i \in p.removed => db'.skills[i] = NoSkillRow
        /\ i \notin p.removed =>
             /\ db'.skills[i].item = db.skills[i].item
             /\ db'.skills[i] =
                  IF db.skills[i].item # 0 /\ \E c \in p.changed : c.id = i
                  THEN [db.skills[i] EXCEPT !.count = (CHOOSE c \in p.changed : c.id = i).count]
                  ELSE db.skills[i]
  BY <1>1, WhatIsStored
<1>7. \A a \in p.added : ReplyId(a)' = RowId(p, a)
  <2> TAKE a \in p.added
  <2>1. ReplyId(a)' = Reply(p).ids[Place(a, p.added) + 1]
    BY <1>2 DEF ReplyId, Place
  <2> QED
    BY <1>5, <2>1
<1>8. ids_in_db = RowsOf(db, ItemId(p))
  BY <1>2, <1>4, KnownIds DEF PageIsTrue
<1>9. \A i \in ids_in_db : \A a \in p.added : RowId(p, a) # i
  BY <1>1, <1>8, RowsOfStored DEF RInv
<1>10. (ids_in_db \cup NewIds') \ p.removed = RowsOf(db', ItemId(p))
  <2>1. NewIds' = {RowId(p, a) : a \in p.added}
    <3>1. NewIds' = {ReplyId(a)' : a \in p.added}
      BY <1>2 DEF NewIds, ReplyId, Place
    <3> QED
      BY <1>7, <3>1
  <2>2. p.removed \subseteq ids_in_db
    BY <1>3
  <2>3. RowsOf(Stored(p), ItemId(p)) = (RowsOf(db, ItemId(p)) \ p.removed) \cup {RowId(p, a) : a \in p.added}
    BY <1>1, <1>8, <2>2, RowsOfStored DEF RInv
  <2> QED
    BY <1>1, <1>8, <1>9, <2>1, <2>2, <2>3
<1>11. db'.items[ItemId(p)] =
         [stored |-> TRUE, crew |-> IF p.crew = Unsent THEN record.crew_in_db ELSE p.crew, price |-> pending.price]
  <2> DEFINE old == db.items[ItemId(p)]
  <2>1. db'.items[ItemId(p)] = StoredItem(old, p)
    BY <1>1, <1>4 DEF Stored, Tables
  <2>2. p.crew = Unsent => old.crew = record.crew_in_db
    BY <1>2, <1>3, <1>4 DEF PageIsTrue, KnownIsStored
  <2>3. p.price = NoPrice => old.price = pending.price
    <3>1. pending.price \in Prices
      BY DEF TypeOK, Saves
    <3>2. p.price = NoPrice => pending.price = price_in_db /\ record.id # 0
      BY <1>3, <3>1 DEF PageIsTrue, KnownIsStored, ConstantsAssumption
    <3> QED
      BY <1>2, <1>4, <3>2 DEF PageIsTrue, KnownIsStored
  <2>4. p.price # NoPrice => p.price = pending.price
    BY <1>3
  <2> QED
    BY <2>1, <2>2, <2>3, <2>4 DEF StoredItem
<1>12. ASSUME NEW r \in pending.work_skills, rows[r].id # 0
       PROVE  db'.skills[rows[r].id] =
                [item |-> ItemId(p), skill |-> rows[r].skill, count |-> SentCount(rows[r].id, rows[r].count_in_db)]
  <2> DEFINE i == rows[r].id
             count == (CHOOSE c \in p.changed : c.id = i).count
  <2>1. record.id # 0 /\ r \in Rows
    BY <1>12 DEF NothingStoredYet, TypeOK, Saves
  <2>2. i \in Rows
    BY <1>12, <2>1 DEF TypeOK, RowRecords, Rows, Ids, ConstantsAssumption
  <2>3. db.skills[i] = [item |-> record.id, skill |-> rows[r].skill, count |-> rows[r].count_in_db]
    BY <1>2, <1>12, <2>1 DEF PageIsTrue, KnownIsStored, RowsOnThePage
  <2>4. i \in ids_in_db /\ i \notin p.removed
    BY <1>3, <1>4, <1>8, <2>1, <2>2, <2>3 DEF RowsOf
  <2>5. db'.skills[i] = IF db.skills[i].item # 0 /\ \E c \in p.changed : c.id = i
                        THEN [db.skills[i] EXCEPT !.count = count] ELSE db.skills[i]
    BY <1>6, <1>9, <2>2, <2>4
  <2>6. CASE \E c \in p.changed : c.id = i
    <3>1. db'.skills[i] = [db.skills[i] EXCEPT !.count = count]
      BY <2>1, <2>3, <2>5, <2>6
    <3>2. SentCount(i, rows[r].count_in_db) = count
      BY <2>6 DEF SentCount
    <3> HIDE DEF count
    <3>3. db'.skills[i] = [item |-> record.id, skill |-> rows[r].skill, count |-> count]
      BY <2>3, <3>1
    <3> QED
      BY <1>4, <2>1, <3>2, <3>3
  <2>7. CASE ~(\E c \in p.changed : c.id = i)
    <3>1. db'.skills[i] = db.skills[i]
      BY <2>5, <2>7
    <3>2. SentCount(i, rows[r].count_in_db) = rows[r].count_in_db
      BY <2>7 DEF SentCount
    <3> QED
      BY <1>4, <2>1, <2>3, <3>1, <3>2
  <2> QED
    BY <2>6, <2>7
<1>13. SentIsStored'
  <2>1. \A i, count : SentCount(i, count)' = SentCount(i, count)
    BY <1>2 DEF SentCount
  <2>2. /\ UNCHANGED <<record, rows, ids_in_db>>
        /\ pending'.reply.item = ItemId(p)
    BY <1>2, <1>4 DEF form
  <2>3. ASSUME NEW r \in pending.work_skills
        PROVE  SentCount(rows[r].id, rows[r].count_in_db)' = SentCount(rows[r].id, rows[r].count_in_db)
    BY <1>2, <2>2 DEF SentCount
  <2>4. RowsOf(db, pending.reply.item)' = RowsOf(db', ItemId(p))
    BY <2>2 DEF RowsOf
  <2>5. \A a \in p.added : db'.skills[ReplyId(a)'] = [item |-> ItemId(p), skill |-> a.skill, count |-> a.count]
    BY <1>5, <1>7
  <2> QED
    BY <1>2, <1>10, <1>11, <1>12, <2>2, <2>3, <2>4, <2>5 DEF SentIsStored
<1>14. KnownIsStored' /\ SentIsKnown' /\ late' = {}
  BY <1>2 DEF PageIsTrue, KnownIsStored, SentIsKnown, form, Saving
<1> QED
  BY <1>13, <1>14 DEF PageIsTrue

LEMMA CommittingKeepsItTrue ==
  ASSUME ConstantsAssumption, IInv, RInv, PageIsTrue,
         pending.phase = "stored", Commit, pending' = NoSave, UNCHANGED <<db, late>>
  PROVE  PageIsTrue'
<1> TypeOK
  BY DEF IInv
<1>1. /\ pending'.phase = "none" /\ pending'.work_skills = {} /\ ~Saving' /\ Saving
  BY DEF NoSave, Saving
<1>2. /\ pending.reply.item # 0
      /\ (ids_in_db \cup NewIds) \ Sent.removed = RowsOf(db, pending.reply.item)
      /\ db.items[pending.reply.item] =
           [stored |-> TRUE, crew |-> IF Sent.crew = Unsent THEN record.crew_in_db ELSE Sent.crew,
            price |-> pending.price]
      /\ \A r \in work_skills \ pending.work_skills : rows[r].id = 0
      /\ \A a \in Sent.added : a.row \in pending.work_skills
  BY <1>1 DEF IInv, ReplyFitsThePayload, Items, PageIsTrue, SentIsKnown, SentIsStored, RInv, SentRowsWait
<1>3. /\ record'.id = pending.reply.item
      /\ record'.crew_in_db = IF Sent.crew = Unsent THEN record.crew_in_db ELSE Sent.crew
      /\ ids_in_db' = (ids_in_db \cup NewIds) \ Sent.removed
      /\ price_in_db' = pending.price
      /\ work_skills' = work_skills /\ work_skills_in_db' \subseteq pending.work_skills
      /\ \A r \in Rows : rows'[r] = CommittedRow(r)
  BY DEF Commit, TypeOK, Records
<1>4. AddsEachRowOnce(Sent)
  BY DEF RInv, PayloadsAreSound, Sent
<1>5. ASSUME NEW r \in RowsOnThePage', rows'[r].id # 0
      PROVE  db.skills[rows'[r].id] =
               [item |-> pending.reply.item, skill |-> rows'[r].skill, count |-> rows'[r].count_in_db]
  <2>1. r \in work_skills \/ r \in pending.work_skills
    BY <1>1, <1>3 DEF RowsOnThePage
  <2>2. r \in Rows
    BY <2>1 DEF TypeOK, Saves
  <2>3. rows'[r] = CommittedRow(r) /\ rows'[r].skill = rows[r].skill
    BY <1>3, <1>4, <2>2, CommittedRows
  <2>4. ASSUME NEW a \in Sent.added, a.row = r
        PROVE  db.skills[rows'[r].id] =
                 [item |-> pending.reply.item, skill |-> rows'[r].skill, count |-> rows'[r].count_in_db]
    <3>1. rows'[r].id = ReplyId(a) /\ rows'[r].count_in_db = a.count
      BY <1>4, <2>2, <2>3, <2>4, CommittedRows
    <3>2. rows[r].skill = a.skill
      BY <1>1, <2>4 DEF RInv, SentRowsWait
    <3> QED
      BY <2>3, <3>1, <3>2 DEF PageIsTrue, SentIsStored
  <2>5. ASSUME \A a \in Sent.added : a.row # r
        PROVE  db.skills[rows'[r].id] =
                 [item |-> pending.reply.item, skill |-> rows'[r].skill, count |-> rows'[r].count_in_db]
    <3>1. /\ rows'[r].id = rows[r].id
          /\ rows'[r].count_in_db =
               IF rows[r].id # 0 /\ \E c \in Sent.changed : c.id = rows[r].id
               THEN (CHOOSE c \in Sent.changed : c.id = rows[r].id).count ELSE rows[r].count_in_db
      BY <1>4, <2>2, <2>3, <2>5, CommittedRows
    <3>2. rows[r].id # 0 /\ r \in pending.work_skills
      BY <1>2, <1>5, <2>1, <3>1
    <3>3. rows'[r].count_in_db = SentCount(rows[r].id, rows[r].count_in_db)
      BY <3>1, <3>2 DEF SentCount
    <3> QED
      BY <2>3, <3>1, <3>2, <3>3 DEF PageIsTrue, SentIsStored
  <2> QED
    BY <2>4, <2>5
<1>6. KnownIsStored'
  <2>1. record'.id # 0
    BY <1>2, <1>3
  <2>2. ids_in_db' = RowsOf(db', record'.id)
    BY <1>2, <1>3 DEF RowsOf
  <2>3. db'.items[record'.id] = [stored |-> TRUE, crew |-> record'.crew_in_db, price |-> price_in_db']
    BY <1>2, <1>3
  <2>4. RowsOf(db, record.id)' = RowsOf(db', record'.id)
    BY DEF RowsOf
  <2> QED
    BY <1>3, <1>5, <2>1, <2>2, <2>3, <2>4 DEF KnownIsStored
<1> QED
  BY <1>1, <1>6 DEF PageIsTrue, SentIsKnown, SentIsStored

LEMMA ShowingKeepsItTrue ==
  ASSUME ConstantsAssumption, IInv, RInv, NEW item \in Items, db.items[item].stored,
         ShowStored(item), UNCHANGED db, pending' = NoSave, late' = {}
  PROVE  PageIsTrue'
<1> TypeOK /\ db \in Tables
  BY DEF IInv, TypeOK
<1>1. /\ pending'.phase = "none" /\ pending'.work_skills = {} /\ ~Saving'
  BY DEF NoSave, Saving
<1>2. /\ record'.id = item /\ item # 0
      /\ record'.crew_in_db = db.items[item].crew
      /\ price_in_db' = db.items[item].price
      /\ work_skills' = RowsOf(db, item) /\ work_skills_in_db' = RowsOf(db, item) /\ ids_in_db' = RowsOf(db, item)
  BY DEF ShowStored, LoadedRecord, Items
<1>3. \A r \in RowsOf(db, item) :
        /\ rows'[r].id = r /\ rows'[r].skill = db.skills[r].skill /\ rows'[r].count_in_db = db.skills[r].count
        /\ db.skills[r] = [item |-> item, skill |-> db.skills[r].skill, count |-> db.skills[r].count]
  <2> TAKE r \in RowsOf(db, item)
  <2>1. r \in Rows /\ db.skills[r].item = item /\ db.skills[r] \in SkillRows
    BY DEF RowsOf, Tables
  <2>2. db.skills[r] = [item |-> item, skill |-> db.skills[r].skill, count |-> db.skills[r].count]
    BY <2>1 DEF SkillRows
  <2>3. /\ rows'[r].id = r /\ rows'[r].skill = db.skills[r].skill /\ rows'[r].count_in_db = db.skills[r].count
    BY <2>1 DEF ShowStored, LoadedRows
  <2> QED
    BY <2>2, <2>3
<1>4. db.items[item] = [stored |-> TRUE, crew |-> db.items[item].crew, price |-> db.items[item].price]
  <2>1. db.items[item] \in ItemRows
    BY DEF Tables
  <2> QED
    BY <2>1 DEF ItemRows
<1>5. RowsOnThePage' = RowsOf(db, item)
  BY <1>1, <1>2 DEF RowsOnThePage
<1>6. KnownIsStored'
  <2>1. RowsOf(db, record.id)' = RowsOf(db, item)
    BY <1>2 DEF RowsOf
  <2> QED
    BY <1>2, <1>3, <1>4, <1>5, <2>1, ZenonT(60) DEF KnownIsStored
<1> QED
  BY <1>1, <1>6 DEF PageIsTrue, SentIsKnown, SentIsStored

(* A save that is refused changes nothing that the page knows.             *)
LEMMA RefusingKeepsItTrue ==
  ASSUME ConstantsAssumption, IInv, PageIsTrue,
         \/ ServerRefuses
         \/ Refused
  PROVE  PageIsTrue'
<1> TypeOK
  BY DEF IInv
<1>1. CASE ServerRefuses
  <2>1. /\ pending.phase = "sent" /\ pending'.phase = "refused" /\ Sent' = Sent /\ Saving
        /\ pending'.price = pending.price /\ pending'.work_skills = pending.work_skills
        /\ UNCHANGED <<db, late>> /\ UNCHANGED form
    BY <1>1 DEF ServerRefuses, TypeOK, Saves, Saving, Sent
  <2> QED
    BY <2>1 DEF PageIsTrue, KnownIsStored, SentIsKnown, SentIsStored, form, RowsOnThePage, RowsOf
<1>2. CASE Refused
  <2>1. /\ pending.phase = "refused" /\ pending'.phase = "none" /\ pending'.work_skills = {} /\ ~Saving'
        /\ UNCHANGED <<db, late>>
    BY <1>2 DEF Refused, NoSave, Saving
  <2>2. /\ \A r \in Rows : RowKept(r)
        /\ RecordKept
        /\ UNCHANGED <<work_skills, work_skills_in_db, ids_in_db, price_in_db>>
    BY <1>2, SavingIsSmall DEF PageKeepsItsRows, Refused, Discard
  <2>3. \A r \in RowsOnThePage' : r \in RowsOnThePage /\ r \in Rows
    BY <2>1, <2>2 DEF RowsOnThePage, TypeOK
  <2>4. KnownIsStored'
    <3>1. ASSUME record.id # 0, NEW r \in RowsOnThePage', rows'[r].id # 0
          PROVE  db.skills[rows'[r].id] =
                   [item |-> record.id, skill |-> rows'[r].skill, count |-> rows'[r].count_in_db]
      BY <2>1, <2>2, <2>3, <3>1 DEF PageIsTrue, KnownIsStored, RowKept
    <3>2. record.id # 0 =>
            /\ ids_in_db = RowsOf(db, record.id)
            /\ db.items[record.id] = [stored |-> TRUE, crew |-> record.crew_in_db, price |-> price_in_db]
      BY <2>1 DEF PageIsTrue, KnownIsStored
    <3>3. record.id = 0 => price_in_db = NoPrice
      BY DEF PageIsTrue, KnownIsStored
    <3> QED
      BY <2>1, <2>2, <3>1, <3>2, <3>3 DEF KnownIsStored, RecordKept, RowsOf
  <2> QED
    BY <2>1, <2>4 DEF PageIsTrue, SentIsKnown, SentIsStored
<1> QED
  BY <1>1, <1>2

LEMMA InitIsTrue == ConstantsAssumption /\ Init => PageIsTrue
<1> SUFFICES ASSUME ConstantsAssumption, Init
             PROVE  PageIsTrue
  OBVIOUS
<1> TypeOK /\ db \in Tables /\ 1 \in Items
  BY InitIsTyped DEF IInv, TypeOK, Items, ConstantsAssumption
<1>1. pending.phase = "none" /\ pending.work_skills = {} /\ ~Saving /\ late = {}
  BY DEF Init, NoSave, Saving
<1>2. RowsOnThePage = RowsOf(db, 1) /\ ids_in_db = RowsOf(db, 1)
  BY <1>1 DEF RowsOnThePage, Init
<1>3. KnownIsStored
  <2>1. CASE ~db.items[1].stored
    BY <2>1 DEF Init, NewRecord, KnownIsStored
  <2>2. CASE db.items[1].stored
    <3>1. /\ record.id = 1 /\ record.crew_in_db = db.items[1].crew /\ price_in_db = db.items[1].price
          /\ rows = LoadedRows(db, 1)
      BY <2>2 DEF Init, LoadedRecord
    <3>2. db.items[1] = [stored |-> TRUE, crew |-> db.items[1].crew, price |-> db.items[1].price]
      <4>1. db.items[1] \in ItemRows
        BY DEF Tables
      <4> QED
        BY <2>2, <4>1 DEF ItemRows
    <3>3. \A r \in RowsOf(db, 1) :
            db.skills[rows[r].id] = [item |-> 1, skill |-> rows[r].skill, count |-> rows[r].count_in_db]
      <4> TAKE r \in RowsOf(db, 1)
      <4>1. r \in Rows /\ db.skills[r].item = 1 /\ db.skills[r] \in SkillRows
        BY DEF RowsOf, Tables
      <4>2. rows[r].id = r /\ rows[r].skill = db.skills[r].skill /\ rows[r].count_in_db = db.skills[r].count
        BY <3>1, <4>1 DEF LoadedRows
      <4> QED
        BY <4>1, <4>2 DEF SkillRows
    <3> QED
      BY <1>2, <3>1, <3>2, <3>3 DEF KnownIsStored
  <2> QED
    BY <2>1, <2>2
<1> QED
  BY <1>1, <1>3 DEF PageIsTrue, SentIsKnown, SentIsStored

LEMMA ItStaysTrue ==
  ConstantsAssumption /\ IInv /\ NothingStoredYet /\ RInv /\ TrueUnlessLost /\ [Next]_vars => TrueUnlessLost'
<1> SUFFICES ASSUME ConstantsAssumption, IInv, NothingStoredYet, RInv, TrueUnlessLost, [Next]_vars, lost' = 0
             PROVE  PageIsTrue'
  BY DEF TrueUnlessLost
<1> TypeOK /\ lost \in Nat
  BY DEF IInv, TypeOK, ConstantsAssumption
<1>1. UNCHANGED lost => PageIsTrue
  BY DEF TrueUnlessLost
<1>2. ~Abandon
  BY DEF Abandon
<1>3. ASSUME \/ \E crew \in CrewSizes : EditCrew(crew)
             \/ \E p \in Prices : EditPrice(p)
             \/ \E skill \in Skills : AddWorkSkill(skill)
             \/ \E r \in work_skills : RemoveWorkSkill(r)
             \/ Revert
      PROVE  PageIsTrue'
  BY <1>1, <1>3, EditsAreSmall, EditsKeepItTrue
<1>4. ASSUME NEW after \in {"stay", "reload", "next"}, Save(after)
      PROVE  PageIsTrue'
  <2>1. UNCHANGED lost
    BY <1>4 DEF Save
  <2> QED
    BY <1>1, <1>4, <2>1, SavingKeepsItTrue
<1>5. ASSUME ServerStores
      PROVE  PageIsTrue'
  <2>1. UNCHANGED lost
    BY <1>5 DEF ServerStores
  <2> QED
    BY <1>1, <1>5, <2>1, StoringKeepsItTrue
<1>6. ASSUME ServerRefuses \/ Refused
      PROVE  PageIsTrue'
  <2>1. UNCHANGED lost
    BY <1>6 DEF ServerRefuses, Refused
  <2> QED
    BY <1>1, <1>6, <2>1, RefusingKeepsItTrue
<1>7. ASSUME NEW request \in late, LateStore(request)
      PROVE  PageIsTrue'
  <2>1. UNCHANGED lost
    BY <1>7 DEF LateStore
  <2> QED
    BY <1>1, <2>1 DEF PageIsTrue
<1>8. ASSUME Saved
      PROVE  PageIsTrue'
  <2>1. pending.phase = "stored" /\ pending' = NoSave
    BY <1>8 DEF Saved
  <2>2. CASE Commit /\ UNCHANGED <<db, late, lost>>
    BY <1>1, <2>1, <2>2, CommittingKeepsItTrue
  <2>3. CASE ShowStored(pending.reply.item) /\ UNCHANGED <<db, late, lost>>
    <3>1. pending.reply.item \in Items /\ db.items[pending.reply.item].stored
      BY <2>1 DEF IInv, ReplyFitsThePayload, RInv, ReplyIsTrue
    <3>2. late' = {}
      BY <1>1, <2>3 DEF PageIsTrue
    <3> QED
      BY <2>1, <2>3, <3>1, <3>2, ShowingKeepsItTrue
  <2>4. CASE ShowNew /\ db' = NoTables /\ late' = {} /\ lost' = 0
    <3>1. record'.id = 0 /\ price_in_db' = NoPrice
      BY <2>4 DEF ShowNew, NewRecord
    <3>2. pending'.phase = "none" /\ ~Saving'
      BY <2>1 DEF NoSave, Saving
    <3> QED
      BY <2>4, <3>1, <3>2 DEF PageIsTrue, KnownIsStored, SentIsKnown, SentIsStored
  <2> QED
    BY <1>8, <2>2, <2>3, <2>4 DEF Saved
<1>9. ASSUME Timeout
      PROVE  PageIsTrue'
  BY <1>2, <1>9 DEF Timeout
<1>10. ASSUME Reopen
       PROVE  PageIsTrue'
  <2>1. /\ record.id \in Items /\ db.items[record.id].stored /\ ShowStored(record.id)
    BY <1>10 DEF Reopen, TypeOK, Records, Items, RInv, IdsWereGivenOut
  <2>2. /\ UNCHANGED <<pending, db, late, lost>> /\ pending' = NoSave
    BY <1>2, <1>10 DEF Reopen, RInv, IdleIsNoSave
  <2>3. late' = {}
    BY <1>1, <2>2 DEF PageIsTrue
  <2> QED
    BY <2>1, <2>2, <2>3, ShowingKeepsItTrue
<1>11. CASE UNCHANGED vars
  <2>1. PageKeepsItsRows
    BY <1>11 DEF vars, form, PageKeepsItsRows, RecordKept, RowKept
  <2> QED
    BY <1>1, <1>11, <2>1, EditsKeepItTrue DEF vars
<1> QED
  BY <1>3, <1>4, <1>5, <1>6, <1>7, <1>8, <1>9, <1>10, <1>11 DEF Next

LEMMA SaveInvariant ==
  Spec => [](IInv /\ NothingStoredYet /\ RInv /\ OthersWereLost /\ TrueUnlessLost)
<1> USE ConstantsAssumption
<1> DEFINE Inv == IInv /\ NothingStoredYet /\ RInv /\ OthersWereLost /\ TrueUnlessLost
<1>1. Init => Inv
  BY InitIsTyped, InitStoresNothing, InitHasItsRows, InitLostNothing, InitIsTrue DEF TrueUnlessLost
<1>2. Inv /\ [Next]_vars => Inv'
  BY InductiveStep, NothingStoredIsKept, RowsAreKept, OnlyLostSavesInsertTwice, ItStaysTrue
<1> QED
  BY <1>1, <1>2, PTL DEF Spec

(* A form that says nothing needs to be saved shows exactly what is stored, *)
(* as long as every answer came: nothing edited, removed or added again     *)
(* while a save was in flight is taken for stored.                          *)
THEOREM CleanIsStored == Spec => [](lost = 0 => CleanMeansStored)
<1>1. ASSUME ConstantsAssumption, IInv, RInv, TrueUnlessLost, lost = 0
      PROVE  CleanMeansStored
  <2> SUFFICES ASSUME ~Saving, record.id # 0, ~NeedsToBeSaved
               PROVE  FormView = ViewOf(db, record.id)
    BY DEF CleanMeansStored
  <2> TypeOK
    BY <1>1 DEF IInv
  <2>1. /\ ids_in_db = RowsOf(db, record.id)
        /\ db.items[record.id] = [stored |-> TRUE, crew |-> record.crew_in_db, price |-> price_in_db]
        /\ \A r \in work_skills : rows[r].id # 0 =>
             db.skills[rows[r].id] = [item |-> record.id, skill |-> rows[r].skill, count |-> rows[r].count_in_db]
    BY <1>1 DEF TrueUnlessLost, PageIsTrue, KnownIsStored, Saving, RowsOnThePage
  <2>2. /\ record.crew = record.crew_in_db /\ price = price_in_db
        /\ \A r \in work_skills : rows[r].id # 0 /\ rows[r].count = rows[r].count_in_db
        /\ ids_in_db \subseteq {rows[r].id : r \in work_skills}
    BY DEF NeedsToBeSaved, RecordNeedsToBeSaved, WorkSkillsNeedToBeSaved, PriceNeedsToBeSaved,
           RowNeedsToBeSaved, RemovedIds
  <2>3. \A r \in work_skills : rows[r].id \in ids_in_db
    <3> TAKE r \in work_skills
    <3>1. rows[r].id \in Rows
      BY <2>2 DEF TypeOK, RowRecords, Rows, Ids, ConstantsAssumption
    <3>2. db.skills[rows[r].id] = [item |-> record.id, skill |-> rows[r].skill, count |-> rows[r].count_in_db]
      BY <2>1, <2>2
    <3>3. db.skills[rows[r].id].item = record.id
      BY <3>2
    <3> QED
      BY <2>1, <3>1, <3>3 DEF RowsOf
  <2>4. {<<rows[r].skill, rows[r].count>> : r \in work_skills}
          = {<<db.skills[i].skill, db.skills[i].count>> : i \in ids_in_db}
    <3>1. \A r \in work_skills : db.skills[rows[r].id].skill = rows[r].skill /\ db.skills[rows[r].id].count = rows[r].count
      <4> TAKE r \in work_skills
      <4>1. db.skills[rows[r].id] = [item |-> record.id, skill |-> rows[r].skill, count |-> rows[r].count_in_db]
        BY <2>1, <2>2
      <4> QED
        BY <2>2, <4>1
    <3> QED
      BY <2>2, <2>3, <3>1
  <2>5. db.items[record.id].crew = record.crew /\ db.items[record.id].price = price
    BY <2>1, <2>2
  <2> QED
    BY <2>1, <2>4, <2>5 DEF FormView, ViewOf
<1>2. IInv /\ RInv /\ TrueUnlessLost => (lost = 0 => CleanMeansStored)
  BY <1>1, ConstantsAssumption
<1> QED
  BY <1>2, SaveInvariant, PTL

(* As long as every answer came the page knows exactly which rows are       *)
(* stored, and the server refuses no payload it builds: the rows it removes *)
(* exist, and a skill removed and added again in one save finds its key     *)
(* free.                                                                    *)
THEOREM PageKnows == Spec => [](lost = 0 => PageKnowsTheRows)
<1>1. ASSUME ConstantsAssumption, IInv, NothingStoredYet, RInv, TrueUnlessLost, lost = 0
      PROVE  PageKnowsTheRows
  <2> TypeOK
    BY <1>1 DEF IInv
  <2>1. KnownRowsAreStored
    BY <1>1 DEF TrueUnlessLost, PageIsTrue, KnownIsStored, KnownRowsAreStored, RowsOnThePage
  <2>2. ASSUME pending.phase = "sent"
        PROVE  Accepts(pending.payload)
    <3> DEFINE p == pending.payload
    <3>1. /\ p.item = record.id
          /\ \A a \in p.added : a.row \in pending.work_skills /\ rows[a.row].id = 0 /\ rows[a.row].skill = a.skill
          /\ \A a, b \in p.added : a.row = b.row => a = b
          /\ p.removed = ids_in_db \ {rows[r].id : r \in pending.work_skills}
      BY <1>1, <2>2 DEF RInv, SentRowsWait, PayloadsAreSound, AddsEachRowOnce, TrueUnlessLost, PageIsTrue,
                        SentIsKnown, Saving, Sent
    <3>2. record.id # 0 =>
            /\ ids_in_db = RowsOf(db, record.id)
            /\ \A r \in pending.work_skills : rows[r].id # 0 =>
                 db.skills[rows[r].id] = [item |-> record.id, skill |-> rows[r].skill, count |-> rows[r].count_in_db]
      BY <1>1, <2>2 DEF TrueUnlessLost, PageIsTrue, KnownIsStored, RowsOnThePage
    <3>3. record.id = 0 => ids_in_db = {}
      BY <1>1 DEF NothingStoredYet
    <3>4. LineItemExists(p)
      BY <1>1, <3>1 DEF LineItemExists, RInv, IdsWereGivenOut
    <3>5. RemovedRowsExist(p)
      BY <3>1, <3>2, <3>3 DEF RemovedRowsExist, RowsOf
    <3>6. KeysAreFree(p, p.removed)
      <4>1. \A a, b \in p.added : a.skill = b.skill => a = b
        BY <1>1, <3>1 DEF RInv, FormsHaveOneRowPerSkill, OneRowPerSkill
      <4>2. ASSUME NEW a \in p.added, NEW i \in RowsOf(db, p.item) \ p.removed, p.item # 0,
                   db.skills[i].skill = a.skill
            PROVE  FALSE
        <5>1. i \in ids_in_db /\ i # 0
          BY <3>1, <3>2, <4>2 DEF RowsOf, Rows
        <5>2. PICK r \in pending.work_skills : rows[r].id = i
          BY <3>1, <4>2, <5>1
        <5>3. db.skills[i] = [item |-> record.id, skill |-> rows[r].skill, count |-> rows[r].count_in_db]
          BY <3>1, <3>2, <4>2, <5>1, <5>2
        <5>4. rows[r].skill = a.skill
          BY <4>2, <5>3
        <5>5. r = a.row
          BY <1>1, <3>1, <5>4 DEF RInv, FormsHaveOneRowPerSkill, OneRowPerSkill
        <5> QED
          BY <3>1, <5>1, <5>2, <5>5
      <4> QED
        BY <4>1, <4>2 DEF KeysAreFree
    <3> QED
      BY <3>4, <3>5, <3>6 DEF Accepts
  <2> QED
    BY <2>1, <2>2 DEF PageKnowsTheRows, UpsertIsAccepted
<1>2. IInv /\ NothingStoredYet /\ RInv /\ TrueUnlessLost => (lost = 0 => PageKnowsTheRows)
  BY <1>1, ConstantsAssumption
<1> QED
  BY <1>2, SaveInvariant, PTL


-----------------------------------------------------------------------------
(* The tables have room for every row that waits for an id: the bound on   *)
(* the tables stops no save, as long as every answer came.                 *)

Added(p) == {a.row : a \in p.added}

Waiting == {r \in RowsOnThePage : rows[r].id = 0} \ (IF pending.phase = "stored" THEN Added(Sent) ELSE {})

TablesHaveRoom == db.next_row - 1 + Cardinality(Waiting) <= made

RoomUnlessLost == lost = 0 => TablesHaveRoom

LEMMA AddedRowsAreCounted ==
  ASSUME NEW p, IsFiniteSet(p.added), AddsEachRowOnce(p)
  PROVE  IsFiniteSet(Added(p)) /\ Cardinality(Added(p)) = Cardinality(p.added)
<1> DEFINE f == [a \in p.added |-> a.row]
<1>1. f \in Surjection(p.added, Added(p))
  BY DEF Added, Surjection
<1>2. f \in Injection(p.added, Added(p))
  BY DEF Added, AddsEachRowOnce, Injection, IsInjective
<1> HIDE DEF f
<1> QED
  BY <1>1, <1>2, FS_Surjection

LEMMA WaitingRowsAreCounted ==
  ASSUME ConstantsAssumption, TypeOK
  PROVE  IsFiniteSet(Waiting) /\ Cardinality(Waiting) \in Nat
<1>1. IsFiniteSet(Rows)
  BY FS_Interval DEF Rows, ConstantsAssumption
<1>2. Waiting \subseteq Rows
  BY DEF Waiting, RowsOnThePage, TypeOK, Saves
<1> QED
  BY <1>1, <1>2, FS_Subset, FS_CardinalityType

(* No row begins to wait but one that is made.                             *)
LEMMA FewerWait ==
  ASSUME ConstantsAssumption, TypeOK, TablesHaveRoom, UNCHANGED db,
         \/ made' = made /\ Waiting' \subseteq Waiting
         \/ made' = made + 1 /\ Waiting' \subseteq Waiting \cup {made + 1}
  PROVE  TablesHaveRoom'
<1>1. IsFiniteSet(Waiting) /\ Cardinality(Waiting) \in Nat /\ made \in Nat /\ db.next_row \in Int
  BY WaitingRowsAreCounted DEF TypeOK, Ids, Tables, ConstantsAssumption
<1>2. CASE made' = made /\ Waiting' \subseteq Waiting
  <2>1. Cardinality(Waiting') <= Cardinality(Waiting) /\ Cardinality(Waiting') \in Nat
    BY <1>1, <1>2, FS_Subset, FS_CardinalityType
  <2> QED
    BY <1>1, <1>2, <2>1 DEF TablesHaveRoom
<1>3. CASE made' = made + 1 /\ Waiting' \subseteq Waiting \cup {made + 1}
  <2> DEFINE more == Waiting \cup {made + 1}
  <2>1. /\ IsFiniteSet(more)
        /\ Cardinality(more) = IF made + 1 \in Waiting THEN Cardinality(Waiting) ELSE Cardinality(Waiting) + 1
    BY <1>1, FS_AddElement, Zenon
  <2>2. Cardinality(more) <= Cardinality(Waiting) + 1 /\ Cardinality(more) \in Nat
    BY <1>1, <2>1
  <2>3. Cardinality(Waiting') <= Cardinality(more) /\ Cardinality(Waiting') \in Nat
    BY <1>3, <2>1, FS_Subset, FS_CardinalityType
  <2> QED
    BY <1>1, <1>3, <2>2, <2>3 DEF TablesHaveRoom
<1> QED
  BY <1>2, <1>3

(* Each row of the payload takes the next id.                              *)
LEMMA StoringUsesTheRoom ==
  ASSUME ConstantsAssumption, IInv, RInv, IInv', TablesHaveRoom, ServerStores
  PROVE  TablesHaveRoom'
<1> TypeOK /\ db \in Tables
  BY DEF IInv, TypeOK
<1> DEFINE p == Sent
<1>1. /\ IsFiniteSet(p.added) /\ AddsEachRowOnce(p) /\ Cardinality(p.added) \in Nat
      /\ db'.next_row = db.next_row + Cardinality(p.added)
  BY FS_CardinalityType DEF ServerStores, IInv, ReplyFitsThePayload, RInv, PayloadsAreSound, Sent, Stored
<1>2. /\ pending.phase = "sent" /\ pending'.phase = "stored" /\ Sent' = p
      /\ pending'.work_skills = pending.work_skills /\ UNCHANGED form
  BY DEF ServerStores, TypeOK, Saves, Sent
<1>3. Added(p) \subseteq Waiting
  BY <1>2 DEF Added, Waiting, RInv, SentRowsWait, Saving, Sent, RowsOnThePage
<1>4. Waiting' = Waiting \ Added(p)
  <2>1. RowsOnThePage' = RowsOnThePage
    BY <1>2 DEF RowsOnThePage, form
  <2>2. Waiting = {r \in RowsOnThePage : rows[r].id = 0}
    BY <1>2 DEF Waiting
  <2>3. Waiting' = {r \in RowsOnThePage' : rows'[r].id = 0} \ Added(Sent')
    BY <1>2 DEF Waiting, Added
  <2> QED
    BY <1>2, <2>1, <2>2, <2>3 DEF form
<1>5. IsFiniteSet(Waiting) /\ Cardinality(Waiting) \in Nat /\ made \in Nat /\ db.next_row \in Int
  BY WaitingRowsAreCounted DEF TypeOK, Ids, Tables, ConstantsAssumption
<1>6. Cardinality(Waiting') = Cardinality(Waiting) - Cardinality(p.added)
  <2>1. Cardinality(Waiting \ Added(p)) = Cardinality(Waiting) - Cardinality(Waiting \cap Added(p))
    BY <1>5, FS_Difference
  <2>2. Waiting \cap Added(p) = Added(p)
    BY <1>3
  <2>3. Cardinality(Added(p)) = Cardinality(p.added)
    BY <1>1, AddedRowsAreCounted
  <2> QED
    BY <1>4, <2>1, <2>2, <2>3
<1> QED
  BY <1>1, <1>2, <1>5, <1>6 DEF TablesHaveRoom, form

(* A form that is shown anew has no row that waits.                        *)
LEMMA NoRowWaits ==
  ASSUME ConstantsAssumption, TypeOK',
         made' = db'.next_row - 1, \A r \in RowsOnThePage' : rows'[r].id # 0
  PROVE  TablesHaveRoom'
<1>1. Waiting' = {}
  BY DEF Waiting
<1>2. Cardinality(Waiting') = 0 /\ db'.next_row \in Int
  BY <1>1, FS_EmptySet DEF TypeOK, Tables, ConstantsAssumption
<1> QED
  BY <1>2 DEF TablesHaveRoom

LEMMA ShowingHasRoom ==
  ASSUME ConstantsAssumption, TypeOK', NEW item \in Items, ShowStored(item), UNCHANGED db, pending' = NoSave
  PROVE  TablesHaveRoom'
<1>1. RowsOnThePage' = RowsOf(db, item)
  BY DEF RowsOnThePage, ShowStored, NoSave
<1>2. \A r \in RowsOf(db, item) : rows'[r].id = r /\ r # 0
  BY DEF ShowStored, LoadedRows, RowsOf, Rows
<1> QED
  BY <1>1, <1>2, NoRowWaits DEF ShowStored


LEMMA RoomIsKept ==
  ConstantsAssumption /\ IInv /\ RInv /\ TrueUnlessLost /\ RoomUnlessLost /\ [Next]_vars => RoomUnlessLost'
<1> SUFFICES ASSUME ConstantsAssumption, IInv, RInv, TrueUnlessLost, RoomUnlessLost, [Next]_vars, lost' = 0
             PROVE  TablesHaveRoom'
  BY DEF RoomUnlessLost
<1> TypeOK /\ TypeOK' /\ IInv' /\ lost \in Nat
  BY InductiveStep DEF IInv, TypeOK, ConstantsAssumption
<1>1. UNCHANGED lost => TablesHaveRoom /\ PageIsTrue
  BY DEF RoomUnlessLost, TrueUnlessLost
<1>2. ~Abandon
  BY DEF Abandon
<1>3. /\ RowsOnThePage \subseteq Rows
      /\ made \in Nat
      /\ \A r \in RowsOnThePage : r <= made
  BY PageIsNumbered DEF RInv
<1>4. ASSUME PageKeepsItsRows \/ PageMakesARow, UNCHANGED <<db, lost>>,
             pending'.phase = "stored" <=> pending.phase = "stored",
             Sent' = Sent \/ pending.phase # "stored",
             pending'.work_skills \subseteq RowsOnThePage
      PROVE  TablesHaveRoom'
  <2>1. pending.phase = "stored" => Added(Sent)' = Added(Sent)
    BY <1>4 DEF Added
  <2>2. \A r \in RowsOnThePage' : r \in RowsOnThePage \/ (PageMakesARow /\ r = made + 1)
    BY <1>4 DEF PageKeepsItsRows, PageMakesARow, RowsOnThePage
  <2>3. \A r \in RowsOnThePage : RowKept(r)
    BY <1>3, <1>4 DEF PageKeepsItsRows, PageMakesARow
  <2>4. Waiting' \subseteq Waiting \/ (PageMakesARow /\ Waiting' \subseteq Waiting \cup {made + 1})
    BY <1>4, <2>1, <2>2, <2>3 DEF Waiting, RowKept
  <2>5. made' = made \/ (PageMakesARow /\ made' = made + 1)
    BY <1>4 DEF PageKeepsItsRows, PageMakesARow
  <2> QED
    BY <1>1, <1>4, <2>4, <2>5, FewerWait DEF PageMakesARow, PageKeepsItsRows
<1>5. ASSUME \/ \E crew \in CrewSizes : EditCrew(crew)
             \/ \E p \in Prices : EditPrice(p)
             \/ \E skill \in Skills : AddWorkSkill(skill)
             \/ \E r \in work_skills : RemoveWorkSkill(r)
             \/ Revert
      PROVE  TablesHaveRoom'
  BY <1>4, <1>5, EditsAreSmall DEF Sent, RowsOnThePage
<1>6. ASSUME NEW after \in {"stay", "reload", "next"}, Save(after)
      PROVE  TablesHaveRoom'
  <2>1. /\ pending.phase = "none" /\ pending'.phase = "sent" /\ pending'.work_skills = work_skills
        /\ UNCHANGED <<db, lost>>
    BY <1>6 DEF Save, Saving
  <2> QED
    BY <1>4, <1>6, <2>1, SavingIsSmall DEF RowsOnThePage
<1>7. ASSUME ServerStores
      PROVE  TablesHaveRoom'
  <2>1. UNCHANGED lost
    BY <1>7 DEF ServerStores
  <2> QED
    BY <1>1, <1>7, <2>1, StoringUsesTheRoom
<1>8. ASSUME ServerRefuses
      PROVE  TablesHaveRoom'
  <2>1. /\ pending.phase = "sent" /\ pending'.phase = "refused" /\ pending'.work_skills = pending.work_skills
        /\ UNCHANGED <<form, db, lost>>
    BY <1>8 DEF ServerRefuses, TypeOK, Saves
  <2>2. RowsOnThePage' = RowsOnThePage
    BY <2>1 DEF RowsOnThePage, form
  <2>3. Waiting' \subseteq Waiting
    BY <2>1, <2>2 DEF Waiting, form
  <2> QED
    BY <1>1, <2>1, <2>3, FewerWait DEF form
<1>9. ASSUME Refused
      PROVE  TablesHaveRoom'
  <2>1. /\ pending.phase = "refused" /\ pending'.phase = "none" /\ pending'.work_skills = {}
        /\ Discard /\ UNCHANGED <<db, lost>>
    BY <1>9 DEF Refused, NoSave
  <2> QED
    BY <1>4, <2>1, SavingIsSmall
<1>10. ASSUME Saved
       PROVE  TablesHaveRoom'
  <2>1. pending.phase = "stored" /\ pending' = NoSave
    BY <1>10 DEF Saved
  <2>2. pending'.phase = "none" /\ pending'.work_skills = {}
    BY <2>1 DEF NoSave
  <2>3. CASE Commit /\ UNCHANGED <<db, late, lost>>
    <3>1. /\ work_skills' = work_skills /\ made' = made
          /\ work_skills_in_db' \subseteq pending.work_skills
          /\ \A r \in Rows : rows'[r] = CommittedRow(r)
      BY <2>3 DEF Commit
    <3>2. RowsOnThePage' \subseteq RowsOnThePage
      BY <2>2, <3>1 DEF RowsOnThePage
    <3>3. ASSUME NEW r \in RowsOnThePage, CommittedRow(r).id = 0
          PROVE  r \in Waiting
      <4>1. r \in Rows /\ AddsEachRowOnce(Sent)
        BY <1>3 DEF RInv, PayloadsAreSound, Sent
      <4>2. \A a \in Sent.added : a.row # r
        BY <2>1, <3>3, <4>1, CommittedRows, ReplyIdsAreRows
      <4>3. rows[r].id = 0
        BY <3>3, <4>1, <4>2, CommittedRows
      <4> QED
        BY <4>2, <4>3 DEF Waiting, Added
    <3>4. Waiting' \subseteq Waiting
      <4>1. Waiting' \subseteq {r \in RowsOnThePage' : rows'[r].id = 0}
        BY DEF Waiting
      <4> QED
        BY <1>3, <3>1, <3>2, <3>3, <4>1
    <3> QED
      BY <1>1, <2>3, <3>1, <3>4, FewerWait
  <2>4. CASE ShowStored(pending.reply.item) /\ UNCHANGED <<db, late, lost>>
    <3>1. pending.reply.item \in Items
      BY <2>1 DEF IInv, ReplyFitsThePayload
    <3> QED
      BY <2>1, <2>4, <3>1, ShowingHasRoom
  <2>5. CASE ShowNew /\ db' = NoTables
    <3>1. RowsOnThePage' = {} /\ made' = db'.next_row - 1
      BY <2>2, <2>5 DEF RowsOnThePage, ShowNew, NoTables
    <3> QED
      BY <3>1, NoRowWaits
  <2> QED
    BY <1>10, <2>3, <2>4, <2>5 DEF Saved
<1>11. ASSUME Reopen
       PROVE  TablesHaveRoom'
  <2>1. record.id \in Items /\ ShowStored(record.id) /\ UNCHANGED db /\ pending' = NoSave
    BY <1>2, <1>11 DEF Reopen, TypeOK, Records, Items, RInv, IdleIsNoSave
  <2> QED
    BY <2>1, ShowingHasRoom
<1>12. ASSUME NEW request \in late, LateStore(request)
       PROVE  TablesHaveRoom'
  <2>1. UNCHANGED lost
    BY <1>12 DEF LateStore
  <2> QED
    BY <1>1, <2>1 DEF PageIsTrue
<1>13. ~Timeout
  BY <1>2 DEF Timeout
<1>14. CASE UNCHANGED vars
  <2>1. PageKeepsItsRows
    BY <1>14 DEF vars, form, PageKeepsItsRows, RecordKept, RowKept
  <2> QED
    BY <1>4, <1>14, <2>1 DEF vars, Sent, RowsOnThePage
<1> QED
  BY <1>5, <1>6, <1>7, <1>8, <1>9, <1>10, <1>11, <1>12, <1>13, <1>14 DEF Next

LEMMA InitHasRoom == ConstantsAssumption /\ Init => TablesHaveRoom
<1> SUFFICES ASSUME ConstantsAssumption, Init
             PROVE  TablesHaveRoom
  OBVIOUS
<1> TypeOK /\ db \in Tables /\ 1 \in Items
  BY InitIsTyped DEF IInv, TypeOK, Items, ConstantsAssumption
<1>1. RowsOnThePage = RowsOf(db, 1) /\ made = db.next_row - 1 /\ pending.phase = "none"
  BY DEF RowsOnThePage, Init, NoSave
<1>2. \A r \in RowsOf(db, 1) : rows[r].id # 0
  <2>1. CASE db.items[1].stored
    BY <2>1 DEF Init, LoadedRows, RowsOf, Rows
  <2>2. CASE ~db.items[1].stored
    <3>1. db = NoTables
      BY <2>2 DEF Init, InitialTables
    <3> QED
      BY <3>1 DEF NoTables, NoSkillRow, RowsOf
  <2> QED
    BY <2>1, <2>2
<1>3. Waiting = {} /\ Cardinality({}) = 0 /\ db.next_row \in Int
  BY <1>1, <1>2, FS_EmptySet DEF Waiting, Tables, ConstantsAssumption
<1> QED
  BY <1>1, <1>3 DEF TablesHaveRoom


-----------------------------------------------------------------------------
(* A save keeps the promise of SavedView, as long as every answer came.    *)

(* While nothing was lost there is one line item, the page's own.          *)
LEMMA OneLineItem ==
  ASSUME ConstantsAssumption, IInv, RInv, OthersWereLost, lost = 0
  PROVE  /\ record.id # 0 => record.id = 1
         /\ record.id = 0 /\ pending.phase # "stored" => db.next_item = 1
         /\ pending.phase = "sent" => ItemId(Sent) = 1
         /\ pending.phase = "stored" => pending.reply.item = 1
<1> TypeOK
  BY DEF IInv
<1>1. /\ db.next_item \in Int /\ db.next_item >= 1
      /\ record.id \in Int /\ record.id >= 0
      /\ pending.reply.item \in Int /\ pending.reply.item >= 0
  BY DEF TypeOK, Tables, Records, Saves, Replies, ConstantsAssumption
<1>2. db.next_item <= 1 + Own /\ Own \in Int /\ Own <= 1
  <2>1. Cardinality(Inserts) \in Nat
    BY InsertsAreCounted DEF OthersWereLost
  <2>2. Own \in Int /\ Own <= 1
    BY DEF Own
  <2> QED
    BY <1>1, <2>1, <2>2 DEF OthersWereLost
<1>3. record.id = 0 /\ pending.phase # "stored" => Own = 0
  BY DEF Own
<1>4. ASSUME NEW i \in Int, i > 0, i <= MaxItems, db.items[i].stored
      PROVE  i = 1
  <2>1. i < db.next_item
    BY <1>4 DEF RInv, TablesAreNumbered, Items
  <2> QED
    BY <1>1, <1>2, <1>4, <2>1
<1>5. record.id # 0 => record.id = 1
  BY <1>1, <1>4 DEF RInv, IdsWereGivenOut, TypeOK, Records, ConstantsAssumption
<1>6. ASSUME pending.phase = "stored"
      PROVE  pending.reply.item = 1
  <2>1. db.items[pending.reply.item].stored /\ pending.reply.item <= MaxItems
    BY <1>6 DEF RInv, ReplyIsTrue, TypeOK, Saves, Replies, ConstantsAssumption
  <2>2. pending.reply.item # 0
    BY <1>6 DEF IInv, ReplyFitsThePayload, Items
  <2> QED
    BY <1>1, <1>4, <2>1, <2>2
<1>7. pending.phase = "sent" => ItemId(Sent) = 1
  BY <1>1, <1>2, <1>3, <1>5 DEF ItemId, RInv, SentRowsWait, Saving
<1> QED
  BY <1>1, <1>2, <1>3, <1>5, <1>6, <1>7

(* The tables have room for the payload the form builds.                   *)
LEMMA PayloadFits ==
  ASSUME ConstantsAssumption, IInv, RInv, OthersWereLost, TablesHaveRoom, lost = 0, ~Saving
  PROVE  /\ Payload \in Payloads
         /\ IsFiniteSet(Payload.added)
         /\ AddsEachRowOnce(Payload)
         /\ Fits(Payload)
<1> TypeOK /\ db \in Tables
  BY DEF IInv, TypeOK
<1> DEFINE p == Payload
<1>1. /\ Payload \in Payloads
  BY PayloadIsTyped
<1>2. \A a \in p.added :
        a.row \in work_skills /\ rows[a.row].id = 0 /\ a.skill = rows[a.row].skill /\ a.count = rows[a.row].count
          /\ a = [row |-> a.row, skill |-> rows[a.row].skill, count |-> rows[a.row].count]
  BY DEF Payload, Started
<1>3. AddsEachRowOnce(p)
  BY <1>2 DEF AddsEachRowOnce, RInv, RowsWereMade, RowsOnThePage
<1>4. IsFiniteSet(p.added)
  BY PayloadIsTyped
<1>5. Cardinality(p.added) <= Cardinality(Waiting) /\ Cardinality(p.added) \in Nat /\ Cardinality(Waiting) \in Nat
  <2>1. Added(p) \subseteq Waiting
    BY <1>2 DEF Added, Waiting, Saving, RowsOnThePage
  <2>2. Cardinality(Added(p)) = Cardinality(p.added)
    BY <1>3, <1>4, AddedRowsAreCounted
  <2> QED
    BY <1>4, <2>1, <2>2, WaitingRowsAreCounted, FS_Subset, FS_CardinalityType
<1>6. db.next_row + Cardinality(p.added) <= MaxRows + 1
  BY <1>5 DEF TablesHaveRoom, TypeOK, Tables, Ids, ConstantsAssumption
<1>7. ItemId(p) <= MaxItems
  <2>1. p.item = record.id
    BY DEF Payload
  <2>2. record.id = 0 => db.next_item = 1
    BY OneLineItem DEF Saving
  <2> QED
    BY <2>1, <2>2 DEF ItemId, TypeOK, Records, ConstantsAssumption
<1> QED
  BY <1>1, <1>3, <1>4, <1>6, <1>7 DEF Fits


(* Storing the payload the form builds makes the line item what the form   *)
(* shows: what the payload leaves out is stored already.                   *)
LEMMA PayloadStoresTheForm ==
  ASSUME ConstantsAssumption, IInv, RInv, NothingStoredYet, PageIsTrue, ~Saving,
         IsFiniteSet(Payload.added), Fits(Payload)
  PROVE  ViewOf(Stored(Payload), ItemId(Payload)) = FormView
<1> TypeOK /\ db \in Tables
  BY DEF IInv, TypeOK
<1> DEFINE p == Payload
           d == Stored(Payload)
           item == ItemId(Payload)
<1>1. /\ p \in Payloads
      /\ p.item = record.id
      /\ p.removed = ids_in_db \ {rows[r].id : r \in work_skills}
      /\ p.crew = IF RecordNeedsToBeSaved THEN record.crew ELSE Unsent
      /\ p.price = IF PriceNeedsToBeSaved THEN price ELSE NoPrice
      /\ p.changed = {[id |-> rows[r].id, count |-> rows[r].count] : r \in {q \in Started : rows[q].id # 0}}
      /\ p.added = {[row |-> r, skill |-> rows[r].skill, count |-> rows[r].count] :
                      r \in {q \in Started : rows[q].id = 0}}
  BY PayloadIsTyped DEF Payload, RemovedIds
<1>2. /\ item = IF record.id = 0 THEN db.next_item ELSE record.id
      /\ item \in Items /\ item # 0
  BY <1>1 DEF ItemId, Fits, Items, Tables, Payloads, ConstantsAssumption
<1>3. pending.phase # "stored"
  BY DEF Saving
<1>4. ids_in_db = RowsOf(db, item)
  BY <1>2, <1>3, KnownIds DEF PageIsTrue
<1>5. \A a \in p.added :
        a.row \in work_skills /\ rows[a.row].id = 0 /\ a.skill = rows[a.row].skill /\ a.count = rows[a.row].count
  BY <1>1 DEF Started
<1>6. AddsEachRowOnce(p)
  <2>1. \A a \in p.added : a = [row |-> a.row, skill |-> a.skill, count |-> a.count]
    BY <1>1
  <2> QED
    BY <1>5, <2>1 DEF AddsEachRowOnce, RInv, RowsWereMade, RowsOnThePage
<1>7. \A a \in p.added : d.skills[RowId(p, a)] = [item |-> item, skill |-> a.skill, count |-> a.count]
  BY <1>1, <1>6, WhatIsStored
<1>8. RowsOf(d, item) = (ids_in_db \ p.removed) \cup {RowId(p, a) : a \in p.added}
  <2>1. p.removed \subseteq RowsOf(db, item)
    BY <1>1, <1>4
  <2> QED
    BY <1>1, <1>4, <1>6, <2>1, RowsOfStored DEF RInv
<1>9. ASSUME NEW r \in work_skills, rows[r].id # 0
      PROVE  /\ rows[r].id \in ids_in_db \ p.removed
             /\ d.skills[rows[r].id].skill = rows[r].skill
             /\ d.skills[rows[r].id].count = rows[r].count
  <2> DEFINE i == rows[r].id
             count == (CHOOSE c \in p.changed : c.id = i).count
  <2>1. record.id # 0 /\ r \in Rows /\ r \in RowsOnThePage
    BY <1>9 DEF NothingStoredYet, TypeOK, RowsOnThePage
  <2>2. i \in Rows
    BY <1>9, <2>1 DEF TypeOK, RowRecords, Rows, Ids, ConstantsAssumption
  <2>3. db.skills[i] = [item |-> record.id, skill |-> rows[r].skill, count |-> rows[r].count_in_db]
    BY <1>3, <1>9, <2>1 DEF PageIsTrue, KnownIsStored
  <2>4. i \in ids_in_db \ p.removed
    <3>1. db.skills[i].item = record.id
      BY <2>3
    <3> QED
      BY <1>1, <1>2, <1>4, <1>9, <2>1, <2>2, <3>1 DEF RowsOf
  <2>5. \A a \in p.added : RowId(p, a) # i
    BY <1>1, <1>4, <1>6, <2>4, RowsOfStored DEF RInv
  <2>6. d.skills[i] = IF db.skills[i].item # 0 /\ \E c \in p.changed : c.id = i
                      THEN [db.skills[i] EXCEPT !.count = count] ELSE db.skills[i]
    BY <1>1, <1>6, <2>2, <2>4, <2>5, WhatIsStored, ZenonT(60)
  <2>7. CASE r \in Started
    <3>1. [id |-> i, count |-> rows[r].count] \in p.changed
      BY <1>1, <1>9, <2>7
    <3>2. \A c \in p.changed : c.id = i => c.count = rows[r].count
      <4> SUFFICES ASSUME NEW q \in Started, rows[q].id = i
                   PROVE  rows[q].count = rows[r].count
        BY <1>1
      <4>1. q \in work_skills /\ q \in RowsOnThePage
        BY DEF Started, RowsOnThePage
      <4>2. db.skills[i] = [item |-> record.id, skill |-> rows[q].skill, count |-> rows[q].count_in_db]
        BY <1>3, <1>9, <2>1, <4>1 DEF PageIsTrue, KnownIsStored
      <4>3. rows[q].skill = rows[r].skill
        BY <2>3, <4>2
      <4>4. q = r
        BY <4>1, <4>3 DEF RInv, FormsHaveOneRowPerSkill, OneRowPerSkill
      <4> QED
        BY <4>4
    <3>3. \E c \in p.changed : c.id = i
      BY <3>1
    <3>4. count = rows[r].count
      BY <3>2, <3>3
    <3> HIDE DEF count
    <3>5. db.skills[i].item # 0
      BY <2>1, <2>3
    <3>6. d.skills[i] = [db.skills[i] EXCEPT !.count = count]
      BY <2>6, <3>3, <3>5
    <3>7. d.skills[i] = [item |-> record.id, skill |-> rows[r].skill, count |-> count]
      BY <2>3, <3>6
    <3> QED
      BY <2>4, <3>4, <3>7
  <2>8. CASE r \notin Started
    <3>1. rows[r].count = rows[r].count_in_db
      BY <1>9, <2>8 DEF Started, RowNeedsToBeSaved
    <3>2. ~\E c \in p.changed : c.id = i
      <4> SUFFICES ASSUME NEW q \in Started, rows[q].id = i
                   PROVE  FALSE
        BY <1>1
      <4>1. q \in work_skills /\ q \in RowsOnThePage
        BY DEF Started, RowsOnThePage
      <4>2. db.skills[i] = [item |-> record.id, skill |-> rows[q].skill, count |-> rows[q].count_in_db]
        BY <1>3, <1>9, <2>1, <4>1 DEF PageIsTrue, KnownIsStored
      <4>3. rows[q].skill = rows[r].skill
        BY <2>3, <4>2
      <4> QED
        BY <2>8, <4>1, <4>3 DEF RInv, FormsHaveOneRowPerSkill, OneRowPerSkill
    <3>3. d.skills[i] = db.skills[i]
      BY <2>6, <3>2
    <3>4. d.skills[i] = [item |-> record.id, skill |-> rows[r].skill, count |-> rows[r].count_in_db]
      BY <2>3, <3>3
    <3> QED
      BY <2>4, <3>1, <3>4
  <2> QED
    BY <2>7, <2>8
<1>10. {<<d.skills[i].skill, d.skills[i].count>> : i \in RowsOf(d, item)}
         = {<<rows[r].skill, rows[r].count>> : r \in work_skills}
  <2>1. ASSUME NEW i \in RowsOf(d, item)
        PROVE  \E r \in work_skills : d.skills[i].skill = rows[r].skill /\ d.skills[i].count = rows[r].count
    <3>1. CASE i \in ids_in_db \ p.removed
      <4>1. PICK r \in work_skills : rows[r].id = i
        BY <1>1, <3>1
      <4>2. i # 0
        BY <3>1 DEF TypeOK, Rows
      <4> QED
        BY <1>9, <4>1, <4>2
    <3>2. CASE \E a \in p.added : i = RowId(p, a)
      <4>1. PICK a \in p.added : i = RowId(p, a)
        BY <3>2
      <4>2. d.skills[i] = [item |-> item, skill |-> a.skill, count |-> a.count]
        BY <1>7, <4>1
      <4>3. d.skills[i].skill = a.skill /\ d.skills[i].count = a.count
        BY <4>2
      <4> QED
        BY <1>5, <4>1, <4>3
    <3> QED
      BY <1>8, <3>1, <3>2
  <2>2. ASSUME NEW r \in work_skills
        PROVE  \E i \in RowsOf(d, item) : d.skills[i].skill = rows[r].skill /\ d.skills[i].count = rows[r].count
    <3>1. CASE rows[r].id # 0
      BY <1>8, <1>9, <3>1
    <3>2. CASE rows[r].id = 0
      <4> DEFINE a == [row |-> r, skill |-> rows[r].skill, count |-> rows[r].count]
      <4>1. a \in p.added
        BY <1>1, <3>2 DEF Started, RowNeedsToBeSaved
      <4>2. RowId(p, a) \in RowsOf(d, item)
        BY <1>8, <4>1
      <4>3. d.skills[RowId(p, a)] = [item |-> item, skill |-> a.skill, count |-> a.count]
        BY <1>7, <4>1
      <4>4. d.skills[RowId(p, a)].skill = rows[r].skill /\ d.skills[RowId(p, a)].count = rows[r].count
        BY <4>3
      <4> QED
        BY <4>2, <4>4
    <3> QED
      BY <3>1, <3>2
  <2> QED
    BY <2>1, <2>2
<1>11. d.items[item].crew = record.crew /\ d.items[item].price = price
  <2> DEFINE old == db.items[item]
  <2>1. d.items[item] = StoredItem(old, p)
    BY <1>2 DEF Stored, Tables
  <2>2. record.id # 0 => old = [stored |-> TRUE, crew |-> record.crew_in_db, price |-> price_in_db]
    BY <1>2, <1>3 DEF PageIsTrue, KnownIsStored
  <2>3. (IF p.crew = Unsent THEN old.crew ELSE p.crew) = record.crew
    BY <1>1, <2>2 DEF RecordNeedsToBeSaved, Unsent, TypeOK, Records
  <2>4. record.id = 0 => price # price_in_db
    BY DEF PageIsTrue, KnownIsStored, TypeOK, ConstantsAssumption
  <2>5. (IF p.price = NoPrice THEN old.price ELSE p.price) = price
    BY <1>1, <2>2, <2>4 DEF PriceNeedsToBeSaved, TypeOK, ConstantsAssumption
  <2> HIDE DEF p, d, item, old
  <2> QED
    BY <2>1, <2>3, <2>5 DEF StoredItem
<1> QED
  BY <1>10, <1>11 DEF ViewOf, FormView


(* What the form, the tables and the save in flight are to SavedView.      *)
AllViews == [crew : Nat, price : Prices, skills : SUBSET SkillCounts]

StoredView == IF db.items[1].stored THEN {ViewOf(db, 1)} ELSE {}

SavePhase == CASE pending.phase = "sent" -> "running"
               [] pending.phase = "stored" -> "answered"
               [] OTHER -> "idle"

SentView == IF pending.phase = "sent" THEN {ViewOf(Stored(Sent), ItemId(Sent))} ELSE {}

(* What each of SavedView's actions means of the form.                     *)
LEMMA PromisedSteps ==
  ASSUME \/ FormView' \in AllViews /\ UNCHANGED <<StoredView, SavePhase, SentView>>
         \/ /\ SavePhase = "idle" /\ SavePhase' = "running"
            /\ SentView' = {FormView}
            /\ UNCHANGED <<FormView, StoredView>>
         \/ /\ SavePhase = "running" /\ SavePhase' = "answered"
            /\ StoredView' = SentView /\ SentView' = {}
            /\ UNCHANGED FormView
         \/ /\ SavePhase = "running" /\ SavePhase' = "idle"
            /\ SentView' = {}
            /\ UNCHANGED <<FormView, StoredView>>
         \/ /\ SavePhase = "answered" /\ SavePhase' = "idle"
            /\ UNCHANGED <<StoredView, SentView>>
            /\ FormView' = FormView \/ {FormView'} = StoredView
         \/ /\ SavePhase = "answered" /\ SavePhase' = "idle"
            /\ StoredView' = {} /\ FormView' \in AllViews
            /\ UNCHANGED SentView
  PROVE  Promise!Next
BY DEF AllViews, StoredView, SavePhase, SentView,
       Promise!Next, Promise!Edit, Promise!Begin, Promise!Store, Promise!Fail, Promise!Finish, Promise!Turn

LEMMA FormIsAView ==
  ASSUME ConstantsAssumption, TypeOK, RowsWereMade
  PROVE  FormView \in AllViews
<1>1. \A r \in work_skills : rows[r].skill \in Skills /\ rows[r].count \in Nat
  BY DEF RowsWereMade, RowsOnThePage, TypeOK, RowRecords
<1> QED
  BY <1>1 DEF FormView, AllViews, SkillCounts, TypeOK, Records

LEMMA InitKeepsThePromise == ConstantsAssumption /\ Init => Promise!Init
<1> SUFFICES ASSUME ConstantsAssumption, Init
             PROVE  Promise!Init
  OBVIOUS
<1> TypeOK /\ RInv /\ db \in Tables /\ 1 \in Items
  BY InitIsTyped, InitHasItsRows DEF IInv, TypeOK, Items, ConstantsAssumption
<1>1. FormView \in AllViews
  BY FormIsAView DEF RInv
<1>2. ViewOf(db, 1) \in AllViews
  <2>1. \A i \in RowsOf(db, 1) : db.skills[i].skill \in Skills /\ db.skills[i].count \in Nat
    BY DEF RowsOf, RInv, TablesAreNumbered, Tables, SkillRows
  <2>2. db.items[1].crew \in Nat /\ db.items[1].price \in Prices
    BY DEF Tables, ItemRows
  <2> QED
    BY <2>1, <2>2 DEF ViewOf, AllViews, SkillCounts
<1>3. pending.phase = "none"
  BY DEF Init, NoSave
<1>4. SavePhase = "idle" /\ SentView = {}
  BY <1>3 DEF SavePhase, SentView
<1>5. StoredView \in SUBSET AllViews /\ \A v, w \in StoredView : v = w
  BY <1>2 DEF StoredView
<1> QED
  BY <1>1, <1>4, <1>5 DEF Promise!Init, AllViews, SavePhase, SentView, StoredView


LEMMA StepsKeepThePromise ==
  ASSUME ConstantsAssumption, IInv, RInv, NothingStoredYet, OthersWereLost, PageIsTrue, TablesHaveRoom,
         lost = 0, lost' = 0, FormView' \in AllViews, [Next]_vars
  PROVE  Promise!Next \/ UNCHANGED <<FormView, StoredView, SavePhase, SentView>>
<1> TypeOK
  BY DEF IInv
<1>1. ~Abandon /\ late = {}
  BY DEF Abandon, PageIsTrue
<1>2. UNCHANGED <<db, pending>> => UNCHANGED <<StoredView, SavePhase, SentView>>
  BY DEF StoredView, SavePhase, SentView, ViewOf, Stored, StoredRow, StoredItem, ItemId, RowId, Place, RowsOf, Sent
<1>3. UNCHANGED db => UNCHANGED StoredView
  BY DEF StoredView, ViewOf, RowsOf
<1>4. SentView' = IF pending'.phase = "sent" THEN {ViewOf(Stored(Sent), ItemId(Sent))'} ELSE {}
  BY DEF SentView
<1>5. ASSUME \/ \E crew \in CrewSizes : EditCrew(crew)
             \/ \E p \in Prices : EditPrice(p)
             \/ \E skill \in Skills : AddWorkSkill(skill)
             \/ \E r \in work_skills : RemoveWorkSkill(r)
             \/ Revert
      PROVE  Promise!Next
  BY <1>2, <1>5, EditsAreSmall, PromisedSteps
<1>6. ASSUME NEW after \in {"stay", "reload", "next"}, Save(after)
      PROVE  Promise!Next
  <2>1. /\ ~Saving /\ pending.phase = "none" /\ pending'.phase = "sent" /\ Sent' = Payload
        /\ UNCHANGED <<db, work_skills, price>>
    BY <1>6 DEF Save, Saving, Sent
  <2>2. SavePhase = "idle" /\ SavePhase' = "running"
    BY <2>1 DEF SavePhase
  <2>3. UNCHANGED FormView
    <3>1. record'.crew = record.crew
      BY <1>6 DEF Save, TypeOK, Records
    <3>2. \A r \in work_skills : rows'[r].skill = rows[r].skill /\ rows'[r].count = rows[r].count
      BY <1>6 DEF Save, TypeOK, RowRecords
    <3> QED
      BY <2>1, <3>1, <3>2 DEF FormView
  <2>4. ViewOf(Stored(Sent), ItemId(Sent))' = ViewOf(Stored(Payload), ItemId(Payload))
    BY <2>1 DEF ViewOf, Stored, StoredRow, StoredItem, ItemId, RowId, RowsOf
  <2>5. ViewOf(Stored(Payload), ItemId(Payload)) = FormView
    BY <2>1, PayloadFits, PayloadStoresTheForm
  <2>6. SentView' = {FormView}
    BY <1>4, <2>1, <2>4, <2>5
  <2> QED
    BY <1>3, <2>1, <2>2, <2>3, <2>6, PromisedSteps
<1>7. ASSUME ServerStores
      PROVE  Promise!Next
  <2>1. /\ pending.phase = "sent" /\ pending'.phase = "stored" /\ UNCHANGED form
        /\ Sent \in Payloads /\ IsFiniteSet(Sent.added) /\ AddsEachRowOnce(Sent) /\ Accepts(Sent) /\ Fits(Sent)
        /\ db' = Stored(Sent)
    BY <1>7 DEF ServerStores, TypeOK, Saves, Sent, IInv, ReplyFitsThePayload, RInv, PayloadsAreSound
  <2>2. SavePhase = "running" /\ SavePhase' = "answered" /\ SentView' = {}
    BY <2>1 DEF SavePhase, SentView
  <2>3. UNCHANGED FormView
    BY <2>1 DEF FormView, form
  <2>4. ItemId(Sent) = 1
    BY <2>1, OneLineItem
  <2>5. db'.items[1].stored
    BY <2>1, <2>4, StoringKeepsTheTables DEF RInv, TypeOK
  <2>6. ViewOf(db, 1)' = ViewOf(Stored(Sent), ItemId(Sent))
    BY <2>1, <2>4 DEF ViewOf, RowsOf
  <2>7. StoredView' = SentView
    BY <2>1, <2>5, <2>6 DEF StoredView, SentView
  <2> QED
    BY <2>2, <2>3, <2>7, PromisedSteps
<1>8. ASSUME ServerRefuses
      PROVE  Promise!Next
  <2>1. pending.phase = "sent" /\ pending'.phase = "refused" /\ UNCHANGED form /\ UNCHANGED db
    BY <1>8 DEF ServerRefuses, TypeOK, Saves
  <2>2. SavePhase = "running" /\ SavePhase' = "idle" /\ SentView' = {}
    BY <2>1 DEF SavePhase, SentView
  <2>3. UNCHANGED FormView
    BY <2>1 DEF FormView, form
  <2> QED
    BY <1>3, <2>1, <2>2, <2>3, PromisedSteps
<1>9. ASSUME Refused
      PROVE  UNCHANGED <<FormView, StoredView, SavePhase, SentView>>
  <2>1. /\ pending.phase = "refused" /\ pending'.phase = "none" /\ UNCHANGED db
        /\ Discard
    BY <1>9 DEF Refused, NoSave
  <2>2. record'.crew = record.crew /\ UNCHANGED <<work_skills, price>>
    BY <2>1 DEF Discard, TypeOK, Records
  <2>3. \A r \in work_skills : rows'[r].skill = rows[r].skill /\ rows'[r].count = rows[r].count
    BY <2>1 DEF Discard, TypeOK, RowRecords
  <2>4. UNCHANGED FormView
    BY <2>2, <2>3 DEF FormView
  <2>5. UNCHANGED <<SavePhase, SentView>>
    BY <2>1 DEF SavePhase, SentView
  <2> QED
    BY <1>3, <2>1, <2>4, <2>5
<1>10. ASSUME Saved
       PROVE  Promise!Next
  <2>1. pending.phase = "stored" /\ pending'.phase = "none"
    BY <1>10 DEF Saved, NoSave
  <2>2. SavePhase = "answered" /\ SavePhase' = "idle" /\ SentView = {} /\ SentView' = {}
    BY <2>1 DEF SavePhase, SentView
  <2>3. CASE Commit /\ UNCHANGED <<db, late, lost>>
    <3>1. /\ record'.crew = record.crew /\ UNCHANGED <<work_skills, price>>
          /\ \A r \in Rows : rows'[r] = CommittedRow(r)
      BY <2>3 DEF Commit, TypeOK, Records
    <3>2. \A r \in work_skills : rows'[r].skill = rows[r].skill /\ rows'[r].count = rows[r].count
      BY <3>1, CommittedRows DEF TypeOK, RInv, PayloadsAreSound, Sent
    <3>3. UNCHANGED FormView
      BY <3>1, <3>2 DEF FormView
    <3> QED
      BY <1>3, <2>2, <2>3, <3>3, PromisedSteps
  <2>4. CASE ShowStored(pending.reply.item) /\ UNCHANGED <<db, late, lost>>
    <3>1. pending.reply.item = 1 /\ db.items[1].stored
      BY <2>1, OneLineItem DEF RInv, ReplyIsTrue
    <3>2. FormView' = ViewOf(db, 1)
      <4>1. /\ record'.crew = db.items[1].crew /\ price' = db.items[1].price
            /\ work_skills' = RowsOf(db, 1)
        BY <2>4, <3>1 DEF ShowStored, LoadedRecord
      <4>2. \A r \in RowsOf(db, 1) : rows'[r].skill = db.skills[r].skill /\ rows'[r].count = db.skills[r].count
        BY <2>4, <3>1 DEF ShowStored, LoadedRows, RowsOf
      <4> QED
        BY <4>1, <4>2 DEF FormView, ViewOf
    <3>3. {FormView'} = StoredView
      BY <3>1, <3>2 DEF StoredView
    <3> QED
      BY <1>3, <2>2, <2>4, <3>3, PromisedSteps
  <2>5. CASE ShowNew /\ db' = NoTables
    <3>1. StoredView' = {}
      <4>1. 1 \in Items
        BY DEF Items, ConstantsAssumption
      <4> QED
        BY <2>5, <4>1 DEF StoredView, NoTables, NoItem
    <3> QED
      BY <2>2, <3>1, PromisedSteps
  <2> QED
    BY <1>10, <2>3, <2>4, <2>5 DEF Saved
<1>11. ASSUME Reopen
       PROVE  Promise!Next
  BY <1>1, <1>2, <1>11, PromisedSteps DEF Reopen
<1>12. ~Timeout /\ ~\E request \in late : LateStore(request)
  BY <1>1 DEF Timeout
<1>13. CASE UNCHANGED vars
  <2>1. UNCHANGED FormView
    BY <1>13 DEF vars, form, FormView
  <2> QED
    BY <1>2, <1>13, <2>1 DEF vars
<1> QED
  BY <1>5, <1>6, <1>7, <1>8, <1>9, <1>10, <1>11, <1>12, <1>13 DEF Next

(* The line item page implements SavedView as long as every answer came: a *)
(* save stores all of the form as it was when the save began, or nothing,  *)
(* and the edits made while it ran are neither stored with it nor undone.  *)
THEOREM SavesKeepTheirPromise == Spec /\ [](lost = 0) => StoresWhatWasShown
<1> USE ConstantsAssumption
<1> DEFINE Inv == IInv /\ NothingStoredYet /\ RInv /\ OthersWereLost /\ TrueUnlessLost /\ RoomUnlessLost
           View == FormView \in AllViews
<1>1. Init => Inv
  BY InitIsTyped, InitStoresNothing, InitHasItsRows, InitLostNothing, InitIsTrue, InitHasRoom
     DEF TrueUnlessLost, RoomUnlessLost
<1>2. Inv /\ [Next]_vars => Inv'
  BY InductiveStep, NothingStoredIsKept, RowsAreKept, OnlyLostSavesInsertTwice, ItStaysTrue, RoomIsKept
<1>3. Inv => View
  BY FormIsAView DEF IInv, RInv
<1>4. Init => Promise!Init
  BY InitKeepsThePromise
<1>5. Inv /\ View' /\ lost = 0 /\ (lost = 0)' /\ [Next]_vars
        => Promise!Next \/ UNCHANGED <<FormView, StoredView, SavePhase, SentView>>
  BY StepsKeepThePromise DEF TrueUnlessLost, RoomUnlessLost
<1>6. Promise!Next \/ UNCHANGED <<FormView, StoredView, SavePhase, SentView>>
        => [Promise!Next]_<<FormView, IF db.items[1].stored THEN {ViewOf(db, 1)} ELSE {},
                            CASE pending.phase = "sent" -> "running"
                              [] pending.phase = "stored" -> "answered"
                              [] OTHER -> "idle",
                            IF pending.phase = "sent" THEN {ViewOf(Stored(Sent), ItemId(Sent))} ELSE {}>>
  BY DEF StoredView, SavePhase, SentView
<1> QED
  BY <1>1, <1>2, <1>3, <1>4, <1>5, <1>6, PTL DEF Spec, StoresWhatWasShown, Promise!Spec

=============================================================================
