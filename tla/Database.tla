------------------------------ MODULE Database ------------------------------
(***************************************************************************)
(* The database as the worker's transactions use it: MySQL with InnoDB's   *)
(* default isolation, REPEATABLE READ, and no foreign keys.                *)
(*                                                                         *)
(* The first plain SELECT of a transaction takes a snapshot, and every     *)
(* plain SELECT after it reads that snapshot with the transaction's own    *)
(* writes on top.  A write and a SELECT ... FOR UPDATE read what is        *)
(* committed now, and lock what they touch until the transaction ends.  A  *)
(* transaction that waits for a lock may be rolled back at any time, as    *)
(* the victim of a deadlock or because it waited too long.                 *)
(*                                                                         *)
(* Abstraction: a row that does not exist can be locked like one that      *)
(* does, which stands for the locks on the gaps of an index.  Two          *)
(* transactions can hold one gap, but when both insert into it one of them *)
(* is rolled back.                                                         *)
(***************************************************************************)
CONSTANTS
  Transactions,
  Keys,    \* the rows there can be
  NoRow    \* the value of a row that does not exist

VARIABLES
  stored,    \* stored[k]: the committed row k
  snapshot,  \* snapshot[t]: what was stored at the first read of t
  written,   \* written[t]: the rows t has written, as it wrote them
  locks      \* locks[t]: the rows t has locked

NoRows == [k \in {} |-> NoRow]
One(key, row) == [k \in {key} |-> row]

\* The rows, where there are any, instead of others.
Over(rows, others) == [k \in DOMAIN rows \cup DOMAIN others |-> IF k \in DOMAIN rows THEN rows[k] ELSE others[k]]

\* What a plain SELECT of t reads, and what its writes and locking reads do.
View(t)    == Over(written[t], snapshot[t])
Current(t) == Over(written[t], stored)

Free(t, keys) == \A u \in Transactions \ {t} : locks[u] \cap keys = {}

\* START TRANSACTION and the first SELECT.
Begin(t) ==
  /\ snapshot' = [snapshot EXCEPT ![t] = stored]
  /\ UNCHANGED <<stored, written, locks>>

\* A statement that locks the rows keys and writes some of them.
Execute(t, keys, rows) ==
  /\ Free(t, keys)
  /\ locks' = [locks EXCEPT ![t] = @ \cup keys]
  /\ written' = [written EXCEPT ![t] = Over(rows, @)]
  /\ UNCHANGED <<stored, snapshot>>

\* The transaction ends, with or without its writes.
End(t) ==
  /\ snapshot' = [snapshot EXCEPT ![t] = NoRows]
  /\ written' = [written EXCEPT ![t] = NoRows]
  /\ locks' = [locks EXCEPT ![t] = {}]

Commit(t)   == End(t) /\ stored' = Current(t)
Rollback(t) == End(t) /\ UNCHANGED stored

=============================================================================
