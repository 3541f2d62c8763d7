------------------------------ MODULE ClientForm ------------------------------
(***************************************************************************)
(* A list on the client page: rows that are typed into, an empty one at the *)
(* end to type the next into, and empty ones that go away when the focus   *)
(* leaves them (component/list_input), saved with the client                *)
(* (client_form.svelte.ts, update_client in client.fns.ts).  The page has   *)
(* two, contacts and addresses, that are alike: the model has the contacts. *)
(*                                                                         *)
(* A row is a tracked_record with one field.  Rows are only ever added at   *)
(* the end, so that those on the page are a set of records, in the order    *)
(* in which they were made.  An effect runs before the next event, so it is *)
(* part of every action; the timer that removes empty rows is one that     *)
(* fires later.  The user goes on while a save travels, and an answer may   *)
(* be lost.                                                                *)
(***************************************************************************)
EXTENDS Integers, Sequences, FiniteSets

CONSTANTS
    Texts, Blank,       \* what can be typed, and the default
    FirstContacts,      \* the texts of the contacts there are, a sequence
    MaxRecords,         \* bound on the rows made, above the first ones
    MaxSaves, MaxLost,  \* bounds on saves, and on lost answers to those that were done
    None

VARIABLES
    records,    \* of tracked_records made: what the form and the database say
    rows,       \* the records on the page
    focused_row_key,
    ids_in_db,  \* tracked_record_array: ids known to be stored
    pending,    \* the save in flight, or None
    contacts,   \* the client_contact table: id -> text
    referenced, \* ids that projects and addresses have come to use
    last_id, saves, lost

page == <<records, rows, focused_row_key, ids_in_db, pending>>
vars == <<page, contacts, referenced, last_id, saves, lost>>

\* Assumed by the module that gives the constants their values.
FormAssumption == FirstContacts \in Seq(Texts) /\ None \notin Nat

NewRecord == [text |-> Blank, text_in_db |-> None, id |-> None]
IsEmpty(made, r) == made[r].id = None /\ made[r].text = Blank
LastOf(shown) == CHOOSE r \in shown : \A other \in shown : other <= r

\* The rows that plan_cleanup keeps.
RowsToKeep == {r \in rows : r = LastOf(rows) \/ r = focused_row_key \/ ~IsEmpty(records, r)}

\* The effect: made and shown, with an empty row after the last that is not.
Settle(made, shown) ==
    LET needs_new_empty_row == shown = {} \/ ~IsEmpty(made, LastOf(shown))
    IN  /\ needs_new_empty_row => Len(made) < MaxRecords
        /\ records' = IF needs_new_empty_row THEN Append(made, NewRecord) ELSE made
        /\ rows' = IF needs_new_empty_row THEN shown \cup {Len(made) + 1} ELSE shown

NonEmptyRows == {r \in rows : ~IsEmpty(records, r)}
RemovedIds == ids_in_db \ {records[r].id : r \in NonEmptyRows}
AddedRows == {r \in NonEmptyRows : records[r].id = None}
ChangedRows == {r \in NonEmptyRows : records[r].id # None /\ records[r].text # records[r].text_in_db}
NeedsToBeSaved == AddedRows \cup ChangedRows # {} \/ RemovedIds # {}

Init ==
    /\ contacts = FirstContacts
    /\ records = Append([id \in DOMAIN FirstContacts |->
                           [text |-> FirstContacts[id], text_in_db |-> FirstContacts[id], id |-> id]], NewRecord)
    /\ rows = 1 .. Len(FirstContacts) + 1
    /\ ids_in_db = DOMAIN FirstContacts
    /\ last_id = Len(FirstContacts)
    /\ focused_row_key = None /\ pending = None
    /\ referenced = {}
    /\ saves = 0 /\ lost = 0

-----------------------------------------------------------------------------
(* What the user does.                                                     *)

Focus(r) ==
    /\ r \in rows \cup {None}
    /\ focused_row_key # r
    /\ focused_row_key' = r
    /\ UNCHANGED <<records, rows, ids_in_db, pending, contacts, referenced, last_id, saves, lost>>

Type(text) ==
    /\ focused_row_key \in rows
    /\ records[focused_row_key].text # text
    /\ Settle([records EXCEPT ![focused_row_key].text = text], rows)
    /\ UNCHANGED <<focused_row_key, ids_in_db, pending, contacts, referenced, last_id, saves, lost>>

\* The button is there for a row that is not the placeholder, and was not in
\* use when the page was loaded.
RemoveRow(r) ==
    /\ r \in rows
    /\ ~(r = LastOf(rows) /\ IsEmpty(records, r))
    /\ Settle(records, rows \ {r})
    /\ UNCHANGED <<focused_row_key, ids_in_db, pending, contacts, referenced, last_id, saves, lost>>

\* The timer: the plan is made anew when it fires.
RemoveEmptyRows ==
    /\ RowsToKeep # rows
    /\ Settle(records, RowsToKeep)
    /\ UNCHANGED <<focused_row_key, ids_in_db, pending, contacts, referenced, last_id, saves, lost>>

\* start_save: a payload that is read once.
Save ==
    /\ pending = None
    /\ saves < MaxSaves
    /\ saves' = saves + 1
    /\ pending' = [added |-> [r \in AddedRows |-> records[r].text],
                   changed |-> [r \in ChangedRows |-> [id |-> records[r].id, text |-> records[r].text]],
                   removed |-> RemovedIds]
    /\ UNCHANGED <<records, rows, focused_row_key, ids_in_db, contacts, referenced, last_id, lost>>

-----------------------------------------------------------------------------
(* The server, and what becomes of its answer.                             *)

\* A project or an address elsewhere comes to use a contact.
Reference(id) ==
    /\ id \in DOMAIN contacts \ referenced
    /\ referenced' = referenced \cup {id}
    /\ UNCHANGED <<page, contacts, last_id, saves, lost>>

Refuses == pending.removed \cap referenced # {} \/ ~(pending.removed \subseteq DOMAIN contacts)

\* The rows that are added take the next ids, in their order.
AddedId(r) == last_id + Cardinality({other \in DOMAIN pending.added : other <= r})
AddedIds == {AddedId(r) : r \in DOMAIN pending.added}
\* Row -> what is written of it.
Written ==
    [r \in DOMAIN pending.added \cup DOMAIN pending.changed |->
        IF r \in DOMAIN pending.added THEN [id |-> AddedId(r), text |-> pending.added[r]] ELSE pending.changed[r]]
Stored ==
    [id \in (DOMAIN contacts \cup AddedIds) \ pending.removed |->
        IF \E r \in DOMAIN Written : Written[r].id = id
        THEN Written[CHOOSE r \in DOMAIN Written : Written[r].id = id].text
        ELSE contacts[id]]

Discard ==
    /\ pending' = None
    /\ UNCHANGED <<records, rows, focused_row_key, ids_in_db>>

\* (a mistake) a row that was added is not known to be stored
IdsInDbWithoutAdded == ids_in_db \ pending.removed
IdsInDb == (ids_in_db \ pending.removed) \cup AddedIds

\* A record that was saved takes what was sent, whatever the form says by then.
Commit ==
    /\ Settle([r \in DOMAIN records |->
                 IF r \in DOMAIN Written
                 THEN [records[r] EXCEPT !.id = Written[r].id, !.text_in_db = Written[r].text]
                 ELSE records[r]], rows)
    /\ ids_in_db' = IdsInDb
    /\ pending' = None
    /\ UNCHANGED focused_row_key

UpdateClient(answered) ==
    /\ pending # None /\ ~Refuses
    /\ ~answered => lost < MaxLost
    /\ lost' = IF answered THEN lost ELSE lost + 1
    /\ contacts' = Stored
    /\ last_id' = last_id + Cardinality(DOMAIN pending.added)
    /\ IF answered THEN Commit ELSE Discard
    /\ UNCHANGED <<referenced, saves>>

\* Nothing of it is stored, for the server refuses it or was not reached.
SaveFails ==
    /\ pending # None
    /\ Discard
    /\ UNCHANGED <<contacts, referenced, last_id, saves, lost>>

Next ==
    \/ \E r \in DOMAIN records \cup {None} : Focus(r)
    \/ \E text \in Texts \cup {Blank} : Type(text)
    \/ \E r \in DOMAIN records : RemoveRow(r)
    \/ RemoveEmptyRows
    \/ Save
    \/ \E id \in DOMAIN contacts : Reference(id)
    \/ \E answered \in BOOLEAN : UpdateClient(answered)
    \/ SaveFails

Spec == Init /\ [][Next]_vars

-----------------------------------------------------------------------------
\* A form that says that nothing needs to be saved shows what is stored, all of
\* it and nothing else, also after a row was emptied, cleaned up or removed while
\* it was being saved and after saves that were refused; unless the answer to one
\* that was done got lost
\* (tracked_record_array.ts:33-49, editable_rows.svelte.ts:16-35).
CleanFormIsStored ==
    pending = None /\ ~NeedsToBeSaved /\ lost = 0 =>
        /\ \A r \in NonEmptyRows :
             records[r].id \in DOMAIN contacts /\ contacts[records[r].id] = records[r].text
        /\ DOMAIN contacts = {records[r].id : r \in NonEmptyRows}
=============================================================================
