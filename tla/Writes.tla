------------------------------- MODULE Writes -------------------------------
(***************************************************************************)
(* The helper that every INSERT, UPDATE and DELETE goes through            *)
(* (shared/sql_request/typed_write_helper.ts).  A helper is bound to one    *)
(* company, or to none for the tables without a company.  Bulk writes send  *)
(* one statement, or one list of statements, per batch, and the helpers of  *)
(* other companies write between the batches.                              *)
(*                                                                         *)
(* One table with a company stands for those that have many rows of one     *)
(* company, one for those that have a single row of each.  Keys are unique  *)
(* in a company, so an INSERT or an UPDATE may be refused.  Columns that do *)
(* not exist and values that are no database values throw before anything  *)
(* is sent and are left out.                                               *)
(***************************************************************************)
EXTENDS Integers, Sequences, FiniteSets, SequencesExt

CONSTANTS
    Companies,
    Keys, Values,
    Inputs,        \* the lists of rows that a bulk write is asked for: [key, value]
    BatchSizes,
    MaxWrites,     \* bound: how many writes are begun
    None

\* Assumed by the module that gives the constants their values.
WritesAssumption ==
    /\ Inputs \subseteq Seq([key : Keys, value : Values])
    /\ BatchSizes \subseteq Nat \ {0}

VARIABLES
    rows,      \* id -> [company, key, value, updated]
    settings,  \* company -> the value of its single row
    last_id,   \* the last id that was given
    writes,    \* company -> the write in progress or the last one, or None
    begun

vars == <<rows, settings, last_id, writes, begun>>

Write(kind, asked, size, where) ==
    [kind |-> kind, asked |-> asked, left |-> asked, size |-> size, where |-> where,
     ids |-> <<>>, affected |-> 0, state |-> "running"]

Init == /\ rows = [id \in {1} |-> [company |-> CHOOSE c \in Companies : TRUE, key |-> CHOOSE k \in Keys : TRUE,
                                  value |-> CHOOSE v \in Values : TRUE, updated |-> FALSE]]
        /\ settings = [c \in Companies |-> CHOOSE v \in Values : TRUE]
        /\ last_id = 1
        /\ writes = [c \in Companies |-> None]
        /\ begun = 0

Running(c) == writes[c] # None /\ writes[c].state = "running"
Begin(c, write) ==
    /\ ~Running(c) /\ begun < MaxWrites
    /\ begun' = begun + 1
    /\ writes' = [writes EXCEPT ![c] = write]
    /\ UNCHANGED <<rows, settings, last_id>>

\* An INSERT of no rows is refused by an assertion, an UPDATE or DELETE of none does nothing.
BulkInsert(c, asked, size) == asked # <<>> /\ Begin(c, Write("insert", asked, size, None))
BulkUpdate(c, asked, size) == Begin(c, Write("update", asked, size, None))
Delete(c, asked, size, where) == Begin(c, Write("delete", asked, size, where))

Batch(write) == SubSeq(write.left, 1, Min({write.size, Len(write.left)}))
Rest(write) == SubSeq(write.left, write.size + 1, Len(write.left))
\* (a mistake) the company filter is left out
MatchingAnywhere(table, c, key) == {id \in DOMAIN table : table[id].key = key}
\* The rows that a statement finds by key, those of its company alone.
Matching(table, c, key) == {id \in DOMAIN table : table[id].key = key /\ table[id].company = c}
Unique(table) == \A c \in Companies, k \in Keys :
                    Cardinality({id \in DOMAIN table : table[id].company = c /\ table[id].key = k}) <= 1

\* Rows of one INSERT get consecutive ids; its company is put in by the helper.
Inserted(c, batch) ==
    [id \in DOMAIN rows \cup ((last_id + 1)..(last_id + Len(batch))) |->
       IF id \in DOMAIN rows THEN rows[id]
       ELSE [company |-> c, key |-> batch[id - last_id].key, value |-> batch[id - last_id].value, updated |-> FALSE]]
InsertIds(batch) == [i \in DOMAIN batch |-> last_id + i]

\* The write after a batch that succeeded.
Advance(c, ids, affected) ==
    writes' = [writes EXCEPT ![c].left = Rest(writes[c]), ![c].ids = @ \o ids, ![c].affected = @ + affected]

InsertBatch(c) ==
    LET batch == Batch(writes[c])
        table == Inserted(c, batch)
    IN  /\ Running(c) /\ writes[c].kind = "insert" /\ writes[c].left # <<>>
        /\ Unique(table)
        /\ rows' = table
        /\ last_id' = last_id + Len(batch)
        /\ Advance(c, InsertIds(batch), Len(batch))
        /\ UNCHANGED <<settings, begun>>

\* The rows of a batch that a row of the table is updated by.
Updating(c, batch, id) == {i \in DOMAIN batch : id \in Matching(rows, c, batch[i].key)}
\* One UPDATE for each row of the batch, in the order of the rows: the last one stays.
UpdatedBy(c, batch) ==
    [id \in DOMAIN rows |->
       IF Updating(c, batch, id) = {} THEN rows[id]
       ELSE [rows[id] EXCEPT !.value = batch[Max(Updating(c, batch, id))].value, !.updated = TRUE]]
Affected(c, batch) ==
    Cardinality({found \in (DOMAIN batch) \X (DOMAIN rows) : found[2] \in Matching(rows, c, batch[found[1]].key)})
UpdateBatch(c) ==
    LET batch == Batch(writes[c])
    IN  /\ Running(c) /\ writes[c].kind = "update" /\ writes[c].left # <<>>
        /\ rows' = UpdatedBy(c, batch)
        /\ Advance(c, <<>>, Affected(c, batch))
        /\ UNCHANGED <<settings, last_id, begun>>

DeleteBatch(c) ==
    LET batch == Batch(writes[c])
        where == writes[c].where
        gone == {id \in UNION {Matching(rows, c, row.key) : row \in ToSet(batch)} :
                    where # None => rows[id].value = where}
    IN  /\ Running(c) /\ writes[c].kind = "delete" /\ writes[c].left # <<>>
        /\ rows' = [id \in DOMAIN rows \ gone |-> rows[id]]
        /\ Advance(c, <<>>, Cardinality(gone))
        /\ UNCHANGED <<settings, last_id, begun>>

\* A statement fails: by the unique key, or because the connection breaks before it.
Fail(c) ==
    /\ Running(c) /\ writes[c].left # <<>>
    /\ writes' = [writes EXCEPT ![c].state = "failed"]
    /\ UNCHANGED <<rows, settings, last_id, begun>>

\* A list of UPDATEs breaks off: those before the break have been done.
BreakOff(c) ==
    /\ Running(c) /\ writes[c].kind = "update"
    /\ \E n \in 1..(Len(Batch(writes[c])) - 1) : rows' = UpdatedBy(c, SubSeq(writes[c].left, 1, n))
    /\ writes' = [writes EXCEPT ![c].state = "failed"]
    /\ UNCHANGED <<settings, last_id, begun>>

Return(c) ==
    /\ Running(c) /\ writes[c].left = <<>>
    /\ writes' = [writes EXCEPT ![c].state = "done"]
    /\ UNCHANGED <<rows, settings, last_id, begun>>

\* The single row that the company has in a table.
UpdateCompanyRow(c, value) ==
    /\ ~Running(c) /\ begun < MaxWrites
    /\ begun' = begun + 1
    /\ settings' = [settings EXCEPT ![c] = value]
    /\ UNCHANGED <<rows, last_id, writes>>

Next == \E c \in Companies :
    \/ \E asked \in Inputs, size \in BatchSizes :
          \/ BulkInsert(c, asked, size)
          \/ BulkUpdate(c, asked, size)
          \/ \E where \in Values \cup {None} : Delete(c, asked, size, where)
    \/ InsertBatch(c) \/ UpdateBatch(c) \/ DeleteBatch(c)
    \/ Fail(c) \/ BreakOff(c) \/ Return(c)
    \/ \E value \in Values : UpdateCompanyRow(c, value)

Spec == Init /\ [][Next]_vars

-----------------------------------------------------------------------------
(* Properties.                                                             *)

(* A step that is not a company's own leaves its rows alone: no insert,     *)
(* update or delete of another company reaches them, whatever its keys.    *)
CompanyRows(table, c) == {<<id, table[id]>> : id \in {i \in DOMAIN table : table[i].company = c}}
OnlyOwnRows ==
    [][\A c \in Companies :
          writes'[c] = writes[c] /\ settings'[c] = settings[c] => CompanyRows(rows', c) = CompanyRows(rows, c)]_vars

(* The ids that a bulk insert returns are those of the rows it was given,   *)
(* in their order, although the ids of other companies' rows lie between   *)
(* those of its batches: callers zip the two lists.                        *)
IdsNameTheirRows ==
    \A c \in Companies : writes[c] # None /\ writes[c].kind = "insert" =>
       \A i \in DOMAIN writes[c].ids :
          LET id == writes[c].ids[i]
          IN  id \in DOMAIN rows /\ rows[id].company = c /\ rows[id].key = writes[c].asked[i].key

(* A write that returned has done what it was asked to, batch by batch: an  *)
(* update left the last value that was asked for each key, a delete left   *)
(* none of the rows it was to take, an insert gave an id for every row.    *)
LastAsked(asked, key) == asked[Max({i \in DOMAIN asked : asked[i].key = key})].value
WritesAreComplete ==
    \A c \in Companies : writes[c] # None /\ writes[c].state = "done" =>
       LET write == writes[c]
           own == {id \in DOMAIN rows : rows[id].company = c}
           asked == {row.key : row \in ToSet(write.asked)}
       IN  /\ write.kind = "insert" => Len(write.ids) = Len(write.asked)
           /\ write.kind = "update" => \A id \in own : rows[id].key \in asked =>
                                          rows[id].updated /\ rows[id].value = LastAsked(write.asked, rows[id].key)
           /\ write.kind = "delete" => \A id \in own : rows[id].key \in asked =>
                                          write.where # None /\ rows[id].value # write.where
=============================================================================
