---------------------------- MODULE LineItemForm ----------------------------
(***************************************************************************)
(* The page that edits one line item of an estimate: the line item's own   *)
(* record, its work skill rows, its price, the saver that sends the form,  *)
(* and the upsert_line_item call that stores it.                           *)
(*                                                                         *)
(* Every thing that can be saved answers start_save() with a pending save: *)
(* a payload read once from the form, a commit and a discard.  The user    *)
(* goes on editing while the payload travels.  A request is aborted after  *)
(* 60 seconds whether or not the server has applied it, so a reply can be  *)
(* lost and a request can be applied after the page has given up on it.    *)
(*                                                                         *)
(* Abstractions.  The line item's own fields (title, item type, details,   *)
(* hours, ...) are one field, the crew size, the only one that another     *)
(* operation writes.  A price is a member of Prices: whenever the form     *)
(* recomputes it the model takes any price.  Rows and ids are numbers in   *)
(* order of creation, 0 is the null id.  The database holds the rows of    *)
(* the line item on the page (and of its duplicates, if any): leaving for  *)
(* the next line item turns the page to one that has no rows yet.          *)
(***************************************************************************)
EXTENDS Integers, FiniteSetsExt

CONSTANTS
  Skills,       \* the company's work skills
  Prices,       \* what a line item can cost
  DefaultPrice, \* the price of a new line item
  CrewSizes,    \* the crew sizes a user types, 0 for none
  MaxPeople,    \* bound: people on a line item
  MaxRows,      \* bound: work skill records the page creates, work skill rows stored
  MaxItems,     \* bound: line items stored
  MaxLost,      \* bound: requests whose answer never reaches the page
  NoSkill, NoPrice

ASSUME ConstantsAssumption ==
  /\ DefaultPrice \in Prices
  /\ NoSkill \notin Skills
  /\ NoPrice \notin Prices
  /\ CrewSizes \subseteq Nat
  /\ MaxPeople \in Nat
  /\ MaxRows \in Nat
  /\ MaxItems \in Nat \ {0}
  /\ MaxLost \in Nat

VARIABLES
  record,       \* the line item's tracked_record
  rows,         \* rows[r]: the work skill tracked_record made r-th on this page
  made,         \* how many of them were made
  work_skills,  \* the rows on the form
  work_skills_in_db, \* the rows a revert brings back
  ids_in_db,    \* tracked_record_array: the work skill row ids known to be stored
  array_saving, \* tracked_record_array: its saving flag
  price,
  price_in_db,
  pending,      \* the save in flight, at most one: form_saver and its request
  db,           \* the project_line_item and project_line_item_work_skill tables
  late,         \* payloads the page gave up on that the server may still apply
  lost          \* how many saves the page gave up on

form == <<record, rows, made, work_skills, work_skills_in_db, ids_in_db, array_saving, price, price_in_db>>
vars == <<form, pending, db, late, lost>>

-----------------------------------------------------------------------------
Rows   == 1 .. MaxRows
Ids    == 0 .. MaxRows          \* 0 is null
Items  == 1 .. MaxItems
Unsent == -1                    \* a field the payload leaves out

NewRecord == [id |-> 0, crew |-> 0, crew_in_db |-> 0, saving |-> FALSE]
NoRow     == [skill |-> NoSkill, count |-> 0, id |-> 0, count_in_db |-> 0, saving |-> FALSE]
NoItem    == [stored |-> FALSE, crew |-> 0, price |-> DefaultPrice]
NoSkillRow == [item |-> 0, skill |-> NoSkill, count |-> 0]
NoPayload == [item |-> 0, crew |-> Unsent, price |-> NoPrice, added |-> {}, changed |-> {}, removed |-> {}]
NoReply   == [item |-> 0, ids |-> [k \in {} |-> 0]]
NoSave    == [phase |-> "none", after |-> "stay", payload |-> NoPayload,
              work_skills |-> {}, price |-> DefaultPrice, reply |-> NoReply]

\* The work skill rows of a line item in the tables d.
RowsOf(d, item) == {i \in Rows : d.skills[i].item = item}

Saving == pending.phase # "none"

\* Where a stands in the payload's list of added rows, counted from 0.
Place(a, added) == Cardinality({b \in added : b.row < a.row})

People == MapThenSumSet(LAMBDA r : rows[r].count, work_skills)

-----------------------------------------------------------------------------
(* What the form says of itself.                                           *)

\* (a mistake) only new rows are saved
OnlyNewRowNeedsToBeSaved(r) == rows[r].id = 0

RowNeedsToBeSaved(r) == rows[r].id = 0 \/ rows[r].count # rows[r].count_in_db

RemovedIds == ids_in_db \ {rows[r].id : r \in work_skills}

WorkSkillsNeedToBeSaved ==
  \/ \E r \in work_skills : RowNeedsToBeSaved(r)
  \/ RemovedIds # {}

PriceNeedsToBeSaved == price # price_in_db

RecordNeedsToBeSaved == record.id = 0 \/ record.crew # record.crew_in_db

IsEmpty == record.id = 0 /\ record.crew = 0 /\ work_skills = {} /\ price = DefaultPrice

NeedsToBeSaved ==
  IF record.id # 0
  THEN RecordNeedsToBeSaved \/ WorkSkillsNeedToBeSaved \/ PriceNeedsToBeSaved
  ELSE ~IsEmpty

-----------------------------------------------------------------------------
(* The user edits the form, also while a save is in flight.                *)

EditCrew(crew) ==
  /\ crew # record.crew
  /\ record' = [record EXCEPT !.crew = crew]
  /\ price' \in Prices
  /\ UNCHANGED <<rows, made, work_skills, work_skills_in_db, ids_in_db, array_saving, price_in_db, pending, db, late, lost>>

EditPrice(p) ==
  /\ p # price
  /\ price' = p
  /\ UNCHANGED <<record, rows, made, work_skills, work_skills_in_db, ids_in_db, array_saving, price_in_db, pending, db, late, lost>>

\* make_work_skill: a row that is not stored yet.
NewRow(skill) == [skill |-> skill, count |-> 1, id |-> 0, count_in_db |-> 0, saving |-> FALSE]

AddWorkSkill(skill) ==
  /\ People + 1 \in 1 .. MaxPeople
  /\ LET existing == {r \in work_skills : rows[r].skill = skill} IN
     \/ /\ existing # {}
        /\ LET r == CHOOSE r \in existing : \A q \in existing : r <= q
           IN rows' = [rows EXCEPT ![r].count = @ + 1]
        /\ UNCHANGED <<made, work_skills>>
     \/ /\ existing = {}
        /\ made < MaxRows
        /\ made' = made + 1
        /\ work_skills' = work_skills \cup {made + 1}
        /\ rows' = [rows EXCEPT ![made + 1] = NewRow(skill)]
  /\ record' = [record EXCEPT !.crew = IF @ < People + 1 THEN People + 1 ELSE @]
  /\ price' \in Prices
  /\ UNCHANGED <<work_skills_in_db, ids_in_db, array_saving, price_in_db, pending, db, late, lost>>

RemoveWorkSkill(r) ==
  /\ \/ /\ rows[r].count > 1
        /\ rows' = [rows EXCEPT ![r].count = @ - 1]
        /\ UNCHANGED work_skills
     \/ /\ rows[r].count <= 1
        /\ work_skills' = work_skills \ {r}
        /\ UNCHANGED rows
  /\ price' \in Prices
  /\ UNCHANGED <<record, made, work_skills_in_db, ids_in_db, array_saving, price_in_db, pending, db, late, lost>>

\* "Discard changes": enabled while nothing is saving and something needs to be saved.
Revert ==
  /\ ~Saving
  /\ NeedsToBeSaved
  /\ record' = IF record.id = 0 THEN NewRecord ELSE [record EXCEPT !.crew = record.crew_in_db]
  /\ rows' = [r \in Rows |-> IF r \in work_skills_in_db
                             THEN [rows[r] EXCEPT !.count = rows[r].count_in_db] ELSE rows[r]]
  /\ work_skills' = work_skills_in_db
  /\ price' = IF price_in_db = NoPrice THEN DefaultPrice ELSE price_in_db
  /\ UNCHANGED <<made, work_skills_in_db, ids_in_db, array_saving, price_in_db, pending, db, late, lost>>

-----------------------------------------------------------------------------
(* start_save: every record that must be saved reads its values once and   *)
(* raises its saving flag; so does the array.                              *)

Started == {r \in work_skills : RowNeedsToBeSaved(r)}

Payload ==
  [item    |-> record.id,
   crew    |-> IF RecordNeedsToBeSaved THEN record.crew ELSE Unsent,
   price   |-> IF PriceNeedsToBeSaved THEN price ELSE NoPrice,
   added   |-> {[row |-> r, skill |-> rows[r].skill, count |-> rows[r].count] :
                  r \in {q \in Started : rows[q].id = 0}},
   changed |-> {[id |-> rows[r].id, count |-> rows[r].count] : r \in {q \in Started : rows[q].id # 0}},
   removed |-> RemovedIds]

\* What the page does once the save succeeds: stay, show the stored line item anew
\* (after adding it, or after a visit to its photos), or go to the next line item.
Afters(id) == IF id = 0 THEN {"reload", "next"} ELSE {"stay", "reload", "next"}

\* (a mistake) a save starts while another one runs
SaveAgain(after) ==
  /\ NeedsToBeSaved
  /\ after \in Afters(record.id)
  /\ record' = [record EXCEPT !.saving = TRUE]
  /\ rows' = [r \in Rows |-> [rows[r] EXCEPT !.saving = @ \/ r \in Started]]
  /\ array_saving' = TRUE
  /\ pending' = [phase |-> "sent", after |-> after, payload |-> Payload,
                 work_skills |-> work_skills, price |-> price, reply |-> NoReply]
  /\ UNCHANGED <<made, work_skills, work_skills_in_db, ids_in_db, price, price_in_db, db, late, lost>>

Save(after) ==
  /\ ~Saving
  /\ NeedsToBeSaved
  /\ after \in Afters(record.id)
  /\ record' = [record EXCEPT !.saving = TRUE]
  /\ rows' = [r \in Rows |-> [rows[r] EXCEPT !.saving = @ \/ r \in Started]]
  /\ array_saving' = TRUE
  /\ pending' = [phase |-> "sent", after |-> after, payload |-> Payload,
                 work_skills |-> work_skills, price |-> price, reply |-> NoReply]
  /\ UNCHANGED <<made, work_skills, work_skills_in_db, ids_in_db, price, price_in_db, db, late, lost>>

-----------------------------------------------------------------------------
(* upsert_line_item on the server, in one transaction.                     *)

\* assert_input_ids_valid: a line item that is changed is stored.
LineItemExists(p) == p.item # 0 => db.items[p.item].stored

\* remove_work_skills: every removed row matches one stored row.
RemovedRowsExist(p) == \A i \in p.removed : db.skills[i].item # 0

\* The unique key (line item, work skill) is free for the added rows, when the rows left
\* are those of the line item that are not in gone.
KeysAreFree(p, gone) ==
  \A a \in p.added :
    /\ \A i \in RowsOf(db, p.item) \ gone : p.item # 0 => db.skills[i].skill # a.skill
    /\ \A b \in p.added : a.skill = b.skill => a = b

\* The rows are removed before the others are added.
Accepts(p) == LineItemExists(p) /\ RemovedRowsExist(p) /\ KeysAreFree(p, p.removed)

ItemId(p) == IF p.item = 0 THEN db.next_item ELSE p.item
RowId(p, a) == db.next_row + Place(a, p.added)

\* The tables once p is stored: the fields, then the removed, the changed and the added rows.
StoredItem(old, p) ==
  [stored |-> TRUE,
   crew   |-> IF p.crew = Unsent THEN old.crew ELSE p.crew,
   price  |-> IF p.price = NoPrice THEN old.price ELSE p.price]

StoredRow(i, p) ==
  IF \E a \in p.added : RowId(p, a) = i
  THEN LET a == CHOOSE a \in p.added : RowId(p, a) = i
       IN [item |-> ItemId(p), skill |-> a.skill, count |-> a.count]
  ELSE IF i \in p.removed THEN NoSkillRow
  ELSE IF db.skills[i].item # 0 /\ \E c \in p.changed : c.id = i
  THEN [db.skills[i] EXCEPT !.count = (CHOOSE c \in p.changed : c.id = i).count]
  ELSE db.skills[i]

Stored(p) ==
  [items  |-> [db.items EXCEPT ![ItemId(p)] = StoredItem(@, p)],
   skills |-> [i \in Rows |-> StoredRow(i, p)],
   next_item |-> db.next_item + IF p.item = 0 THEN 1 ELSE 0,
   next_row  |-> db.next_row + Cardinality(p.added)]

\* (a mistake) the ids are not answered in payload order
ReplyLastFirst(p) ==
  [item |-> ItemId(p), ids |-> [k \in 1 .. Cardinality(p.added) |-> db.next_row + Cardinality(p.added) - k]]

\* The ids the server answers with, in payload order.
Reply(p) == [item |-> ItemId(p), ids |-> [k \in 1 .. Cardinality(p.added) |-> db.next_row + k - 1]]

\* Bound: the tables have room for p.
Fits(p) == ItemId(p) <= MaxItems /\ db.next_row + Cardinality(p.added) <= MaxRows + 1

ServerStores ==
  /\ pending.phase = "sent"
  /\ Accepts(pending.payload)
  /\ Fits(pending.payload)
  /\ db' = Stored(pending.payload)
  /\ pending' = [pending EXCEPT !.phase = "stored", !.reply = Reply(pending.payload)]
  /\ UNCHANGED <<form, late, lost>>

\* An assertion or the unique key refuses the payload, or the server fails: the
\* transaction is rolled back.
ServerRefuses ==
  /\ pending.phase = "sent"
  /\ pending' = [pending EXCEPT !.phase = "refused"]
  /\ UNCHANGED <<form, db, late, lost>>

\* A payload the page gave up on reaches the server after all.
LateStore(request) ==
  /\ late' = late \ {request}
  /\ LET p == request.payload IN db' = IF Accepts(p) /\ Fits(p) THEN Stored(p) ELSE db
  /\ UNCHANGED <<form, pending, lost>>

-----------------------------------------------------------------------------
(* The answer arrives: commit or discard.                                  *)

Sent == pending.payload

\* (a mistake) commit reads the form again instead of what was sent
CommittedRowRereadingTheForm(r) ==
  IF \E a \in Sent.added : a.row = r
  THEN LET a == CHOOSE a \in Sent.added : a.row = r
       IN [rows[r] EXCEPT !.id = pending.reply.ids[Place(a, Sent.added) + 1],
                          !.count_in_db = rows[r].count, !.saving = FALSE]
  ELSE IF rows[r].id # 0 /\ \E c \in Sent.changed : c.id = rows[r].id
  THEN [rows[r] EXCEPT !.count_in_db = rows[r].count, !.saving = FALSE]
  ELSE rows[r]

CommittedRow(r) ==
  IF \E a \in Sent.added : a.row = r
  THEN LET a == CHOOSE a \in Sent.added : a.row = r
       IN [rows[r] EXCEPT !.id = pending.reply.ids[Place(a, Sent.added) + 1],
                          !.count_in_db = a.count, !.saving = FALSE]
  ELSE IF rows[r].id # 0 /\ \E c \in Sent.changed : c.id = rows[r].id
  THEN [rows[r] EXCEPT !.count_in_db = (CHOOSE c \in Sent.changed : c.id = rows[r].id).count,
                       !.saving = FALSE]
  ELSE rows[r]

NewIds == {pending.reply.ids[Place(a, Sent.added) + 1] : a \in Sent.added}

\* (a mistake) commit keeps the ids it removed
CommitKeepingRemovedIds ==
  /\ record' = [record EXCEPT !.id = pending.reply.item, !.saving = FALSE,
                              !.crew_in_db = IF Sent.crew = Unsent THEN @ ELSE Sent.crew]
  /\ rows' = [r \in Rows |-> CommittedRow(r)]
  /\ ids_in_db' = ids_in_db \cup NewIds
  /\ array_saving' = FALSE
  /\ work_skills_in_db' = {r \in pending.work_skills : CommittedRow(r).id # 0}
  /\ price_in_db' = pending.price
  /\ UNCHANGED <<made, work_skills, price>>

Commit ==
  /\ record' = [record EXCEPT !.id = pending.reply.item, !.saving = FALSE,
                              !.crew_in_db = IF Sent.crew = Unsent THEN @ ELSE Sent.crew]
  /\ rows' = [r \in Rows |-> CommittedRow(r)]
  /\ ids_in_db' = (ids_in_db \cup NewIds) \ Sent.removed
  /\ array_saving' = FALSE
  /\ work_skills_in_db' = {r \in pending.work_skills : CommittedRow(r).id # 0}
  /\ price_in_db' = pending.price
  /\ UNCHANGED <<made, work_skills, price>>

SavedRow(r) ==
  \/ \E a \in Sent.added : a.row = r
  \/ rows[r].id # 0 /\ \E c \in Sent.changed : c.id = rows[r].id

DiscardWithoutArray ==
  /\ record' = [record EXCEPT !.saving = FALSE]
  /\ rows' = [r \in Rows |-> IF SavedRow(r) THEN [rows[r] EXCEPT !.saving = FALSE] ELSE rows[r]]
  /\ UNCHANGED <<made, work_skills, work_skills_in_db, ids_in_db, array_saving, price, price_in_db>>

Discard ==
  /\ record' = [record EXCEPT !.saving = FALSE]
  /\ rows' = [r \in Rows |-> IF SavedRow(r) THEN [rows[r] EXCEPT !.saving = FALSE] ELSE rows[r]]
  /\ array_saving' = FALSE
  /\ UNCHANGED <<made, work_skills, work_skills_in_db, ids_in_db, price, price_in_db>>

-----------------------------------------------------------------------------
(* A form made from stored values, and the form of a new line item.        *)

LoadedRecord(d, item) ==
  [id |-> item, crew |-> d.items[item].crew, crew_in_db |-> d.items[item].crew, saving |-> FALSE]

LoadedRows(d, item) ==
  [r \in Rows |-> IF r \in RowsOf(d, item)
                  THEN [skill |-> d.skills[r].skill, count |-> d.skills[r].count,
                        id |-> r, count_in_db |-> d.skills[r].count, saving |-> FALSE]
                  ELSE NoRow]

\* A loaded row takes the number of its id, so that later rows come after it.
ShowStored(item) ==
  /\ record' = LoadedRecord(db, item)
  /\ rows' = LoadedRows(db, item)
  /\ made' = db.next_row - 1
  /\ work_skills' = RowsOf(db, item)
  /\ work_skills_in_db' = RowsOf(db, item)
  /\ ids_in_db' = RowsOf(db, item)
  /\ array_saving' = FALSE
  /\ price' = db.items[item].price
  /\ price_in_db' = db.items[item].price

NoTables == [items |-> [i \in Items |-> NoItem], skills |-> [i \in Rows |-> NoSkillRow],
             next_item |-> 1, next_row |-> 1]

ShowNew ==
  /\ record' = NewRecord
  /\ rows' = [r \in Rows |-> NoRow]
  /\ made' = 0
  /\ work_skills' = {}
  /\ work_skills_in_db' = {}
  /\ ids_in_db' = {}
  /\ array_saving' = FALSE
  /\ price' = DefaultPrice
  /\ price_in_db' = NoPrice

Saved ==
  /\ pending.phase = "stored"
  /\ pending' = NoSave
  /\ \/ /\ pending.after = "stay"
        /\ Commit
        /\ UNCHANGED <<db, late, lost>>
     \/ /\ pending.after = "reload"
        /\ ShowStored(pending.reply.item)
        /\ UNCHANGED <<db, late, lost>>
     \/ /\ pending.after = "next"
        /\ ShowNew
        /\ db' = NoTables
        /\ late' = {}
        /\ lost' = 0

Refused ==
  /\ pending.phase = "refused"
  /\ pending' = NoSave
  /\ Discard
  /\ UNCHANGED <<db, late, lost>>

\* A request that is abandoned before it is applied may still be on its way.
Abandon ==
  /\ lost < MaxLost
  /\ lost' = lost + 1
  /\ late' = IF pending.phase = "sent" THEN late \cup {[nth |-> lost, payload |-> pending.payload]} ELSE late
  /\ pending' = NoSave
  /\ UNCHANGED db

\* The 60 second limit passes, or the connection breaks, before the answer arrives.
Timeout ==
  /\ pending.phase \in {"sent", "stored"}
  /\ Abandon
  /\ Discard

\* The user leaves the page and comes back to the stored line item.
Reopen ==
  /\ record.id # 0
  /\ ShowStored(record.id)
  /\ \/ ~Saving /\ UNCHANGED <<pending, db, late, lost>>
     \/ Saving /\ Abandon

-----------------------------------------------------------------------------
InitialTables ==
  LET none == {NoTables}
      one == {[items |-> [i \in Items |-> IF i = 1 THEN [stored |-> TRUE, crew |-> crew, price |-> p] ELSE NoItem],
               skills |-> [i \in Rows |-> IF i \in DOMAIN f
                                          THEN [item |-> 1, skill |-> f[i], count |-> 1] ELSE NoSkillRow],
               next_item |-> 2, next_row |-> Cardinality(DOMAIN f) + 1] :
               crew \in CrewSizes, p \in Prices,
               f \in UNION {{g \in [1 .. n -> Skills] : \A i, j \in 1 .. n : g[i] = g[j] => i = j} :
                              n \in {m \in 0 .. MaxPeople : m <= MaxRows}}}
  IN none \cup one

Init ==
  /\ db \in InitialTables
  /\ \/ /\ db.items[1].stored
        /\ record = LoadedRecord(db, 1)
        /\ rows = LoadedRows(db, 1)
        /\ price_in_db = db.items[1].price
     \/ /\ ~db.items[1].stored
        /\ record = NewRecord
        /\ rows = [r \in Rows |-> NoRow]
        /\ price_in_db = NoPrice
  /\ price = db.items[1].price
  /\ made = db.next_row - 1
  /\ work_skills = RowsOf(db, 1)
  /\ work_skills_in_db = work_skills
  /\ ids_in_db = work_skills
  /\ array_saving = FALSE
  /\ pending = NoSave
  /\ late = {}
  /\ lost = 0

Next ==
  \/ \E crew \in CrewSizes : EditCrew(crew)
  \/ \E p \in Prices : EditPrice(p)
  \/ \E skill \in Skills : AddWorkSkill(skill)
  \/ \E r \in work_skills : RemoveWorkSkill(r)
  \/ Revert
  \/ \E after \in {"stay", "reload", "next"} : Save(after)
  \/ ServerStores
  \/ ServerRefuses
  \/ Saved
  \/ Refused
  \/ Timeout
  \/ Reopen
  \/ \E request \in late : LateStore(request)

Spec == Init /\ [][Next]_vars

\* For TLC: the work skills are interchangeable.
SkillSymmetry == {[s \in Skills |-> IF s = a THEN b ELSE IF s = b THEN a ELSE s] : a, b \in Skills}

-----------------------------------------------------------------------------
(* What must hold.                                                         *)

SkillCounts == Skills \X Nat

Payloads == [item : 0 .. MaxItems, crew : Nat \cup {Unsent}, price : Prices \cup {NoPrice},
             added : SUBSET [row : Rows, skill : Skills \cup {NoSkill}, count : Nat],
             changed : SUBSET [id : Rows, count : Nat], removed : SUBSET Rows]

Replies == [item : 0 .. MaxItems, ids : UNION {[1 .. n -> Rows] : n \in Ids}]

Records == [id : 0 .. MaxItems, crew : Nat, crew_in_db : Nat, saving : BOOLEAN]

RowRecords == [skill : Skills \cup {NoSkill}, count : Nat, id : Ids, count_in_db : Nat, saving : BOOLEAN]

Saves == [phase : {"none", "sent", "stored", "refused"}, after : {"stay", "reload", "next"},
          payload : Payloads, work_skills : SUBSET Rows, price : Prices, reply : Replies]

ItemRows == [stored : BOOLEAN, crew : Nat, price : Prices]

SkillRows == [item : 0 .. MaxItems, skill : Skills \cup {NoSkill}, count : Nat]

Tables == [items : [Items -> ItemRows], skills : [Rows -> SkillRows],
           next_item : 1 .. MaxItems + 1, next_row : 1 .. MaxRows + 1]

\* The types of the page's state, of the save in flight and of the tables: no record, row
\* or id is ever made beyond those the bounds allow.
TypeOK ==
  /\ record \in Records
  /\ rows \in [Rows -> RowRecords]
  /\ made \in Ids
  /\ work_skills \in SUBSET Rows
  /\ work_skills_in_db \in SUBSET Rows
  /\ ids_in_db \in SUBSET Rows
  /\ array_saving \in BOOLEAN
  /\ price \in Prices
  /\ price_in_db \in Prices \cup {NoPrice}
  /\ pending \in Saves
  /\ db \in Tables
  /\ late \in SUBSET [nth : 0 .. MaxLost, payload : Payloads]
  /\ lost \in 0 .. MaxLost

\* No save that ended leaves a saving flag up: the record's and the array's flags are up
\* exactly while a save runs, a row's only while the save that reads it runs.  So no
\* start_save or revert ever meets the flag of a finished save and throws for good ("a
\* record has at most one save running").
FlagsMatchTheSave ==
  /\ record.saving <=> Saving
  /\ array_saving <=> Saving
  /\ \A r \in Rows : rows[r].saving => Saving /\ SavedRow(r)

\* What start_save asserts of a line item that is not stored: it has no stored work skills.
NewLineItemHasNoStoredSkills ==
  record.id = 0 => RemovedIds = {} /\ \A r \in work_skills : rows[r].id = 0

FormView == [crew |-> record.crew, price |-> price,
             skills |-> {<<rows[r].skill, rows[r].count>> : r \in work_skills}]

ViewOf(d, item) == [crew |-> d.items[item].crew, price |-> d.items[item].price,
                    skills |-> {<<d.skills[i].skill, d.skills[i].count>> : i \in RowsOf(d, item)}]

\* A form that says nothing needs to be saved shows exactly what is stored, whatever
\* was edited, removed or added again while its saves were in flight.
CleanMeansStored ==
  ~Saving /\ record.id # 0 /\ ~NeedsToBeSaved => FormView = ViewOf(db, record.id)

\* What the page knows of the stored rows is true while no answer is on its way: the ids
\* it would remove are stored, and each row it shows as stored has that skill and count.
KnownRowsAreStored ==
  record.id # 0 /\ pending.phase # "stored" =>
    /\ ids_in_db = RowsOf(db, record.id)
    /\ \A r \in work_skills \cup work_skills_in_db : rows[r].id # 0 =>
         db.skills[rows[r].id] = [item |-> record.id, skill |-> rows[r].skill, count |-> rows[r].count_in_db]

\* The server refuses no payload the form builds: removed rows exist, and the unique key
\* on (line item, work skill) is free when a removed skill is added again in one save.
UpsertIsAccepted == pending.phase = "sent" => Accepts(pending.payload)

\* The page knows the stored rows well enough for the server never to refuse what it sends.
PageKnowsTheRows == KnownRowsAreStored /\ UpsertIsAccepted

\* A stored row id belongs to the record of that very row, also after lost answers: the
\* ids come back in payload order, and no id is ever given to another record.
IdsBelongToTheirRows ==
  \A r \in Rows : rows[r].id # 0 /\ db.skills[rows[r].id].item # 0 =>
    /\ db.skills[rows[r].id].skill = rows[r].skill
    /\ db.skills[rows[r].id].item = record.id

\* A line item is stored twice only if the page gave up on a save: "start_save throws
\* instead of inserting twice".
DuplicatesNeedALostAnswer ==
  Cardinality({i \in Items : db.items[i].stored}) <= 1 + lost

\* The form keeps the promise of SavedView: a save stores the form as it was when the save
\* began.
Promise == INSTANCE SavedView WITH
  Views  <- [crew : Nat, price : Prices, skills : SUBSET SkillCounts],
  shown  <- FormView,
  stored <- IF db.items[1].stored THEN {ViewOf(db, 1)} ELSE {},
  phase  <- CASE pending.phase = "sent" -> "running"
              [] pending.phase = "stored" -> "answered"
              [] OTHER -> "idle",
  sent   <- IF pending.phase = "sent" THEN {ViewOf(Stored(Sent), ItemId(Sent))} ELSE {}

StoresWhatWasShown == Promise!Spec

=============================================================================
