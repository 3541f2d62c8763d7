------------------------ MODULE FoundationsProofs ------------------------
(***************************************************************************)
(* What the server functions stand on.  What they write is their company's  *)
(* and complete, whatever other companies write between its batches, and a  *)
(* transaction that was committed is whole, however its branches fail, for  *)
(* any companies, rows, batches and callbacks.                              *)
(***************************************************************************)
EXTENDS MCPages, SequenceTheorems, FiniteSetTheorems, WellFoundedInduction, TLAPS

-----------------------------------------------------------------------------
(* Writes.                                                                 *)

AskedRows == [key : RowKeys, value : Values]
WriteRecords ==
    [kind : {"insert", "update", "delete"}, asked : Seq(AskedRows), left : Seq(AskedRows), size : Nat \ {0},
     where : Values \cup {None}, ids : Seq(Nat), affected : Nat, state : {"running", "failed", "done"}]
IsRow(r) == r = [company |-> r.company, key |-> r.key, value |-> r.value, updated |-> r.updated]
\* How many of the rows that a write was asked for it is done with: the first ones.
Did(w) == Len(w.asked) - Len(w.left)
WriteIsRight(w) ==
    /\ w \in WriteRecords
    /\ Len(w.left) <= Len(w.asked)
    /\ \A i \in 1 .. Len(w.left) : w.left[i] = w.asked[Did(w) + i]
    /\ w.state = "done" => Len(w.left) = 0
\* What a write that is done so far has left in a table.
InsertIsDone(in_table, c, w) ==
    /\ Len(w.ids) = Did(w)
    /\ \A i \in 1 .. Len(w.ids) : /\ w.ids[i] \in DOMAIN in_table
                                  /\ in_table[w.ids[i]].company = c /\ in_table[w.ids[i]].key = w.asked[i].key
IsLastOf(w, i, key) == w.asked[i].key = key /\ \A j \in 1 .. Did(w) : w.asked[j].key = key => j <= i
UpdateIsDone(in_table, c, w) ==
    \A id \in DOMAIN in_table : in_table[id].company = c =>
       \A i \in 1 .. Did(w) : IsLastOf(w, i, in_table[id].key) =>
          in_table[id].updated /\ in_table[id].value = w.asked[i].value
DeleteIsDone(in_table, c, w) ==
    \A id \in DOMAIN in_table : in_table[id].company = c =>
       \A i \in 1 .. Did(w) : w.asked[i].key = in_table[id].key => w.where # None /\ in_table[id].value # w.where
IsDone(in_table, c, w) ==
    /\ w.kind = "insert" => InsertIsDone(in_table, c, w)
    /\ w.kind = "update" /\ w.state # "failed" => UpdateIsDone(in_table, c, w)
    /\ w.kind = "delete" => DeleteIsDone(in_table, c, w)
TableIsRight(in_table, last) ==
    /\ last \in Nat
    /\ DOMAIN in_table \subseteq 1 .. last
    /\ \A id \in DOMAIN in_table : IsRow(in_table[id])
WritesInv ==
    /\ TableIsRight(table, last_row_id)
    /\ DOMAIN writes = Companies /\ writes = [c \in Companies |-> writes[c]]
    /\ \A c \in Companies : writes[c] # None => WriteIsRight(writes[c]) /\ IsDone(table, c, writes[c])

\* A table that is changed leaves the rows of a company alone.
SameRowsOf(before, after, c) ==
    /\ \A id : id \in DOMAIN before /\ before[id].company = c <=> id \in DOMAIN after /\ after[id].company = c
    /\ \A id \in DOMAIN before : before[id].company = c => after[id] = before[id]

LEMMA SameRowsAreDone ==
  ASSUME NEW before, NEW after, NEW c, NEW w, SameRowsOf(before, after, c), IsDone(before, c, w)
  PROVE  IsDone(after, c, w)
<1>1. w.kind = "insert" => InsertIsDone(after, c, w)
  BY DEF SameRowsOf, IsDone, InsertIsDone
<1>2. w.kind = "update" /\ w.state # "failed" => UpdateIsDone(after, c, w)
  BY DEF SameRowsOf, IsDone, UpdateIsDone
<1>3. w.kind = "delete" => DeleteIsDone(after, c, w)
  BY DEF SameRowsOf, IsDone, DeleteIsDone
<1> QED
  BY <1>1, <1>2, <1>3 DEF IsDone

LEMMA SameCompanyRows ==
  ASSUME NEW before, NEW after, NEW c, SameRowsOf(before, after, c)
  PROVE  R!CompanyRows(after, c) = R!CompanyRows(before, c)
BY DEF SameRowsOf, R!CompanyRows

\* The largest of some places.
LEMMA LargestPlace ==
  ASSUME NEW n \in Nat, NEW places \in SUBSET (1 .. n), places # {}
  PROVE  R!Max(places) \in places /\ \A i \in places : i <= R!Max(places)
<1> DEFINE less == OpToRel(<, Nat)
           above == {k \in Nat : \A i \in places : i <= k}
<1>1. IsWellFoundedOn(less, Nat)
  BY NatLessThanWellFounded, Zenon
<1>2. above \subseteq Nat /\ n \in above
  OBVIOUS
<1>3. PICK m \in above : \A k \in above : ~ (<<k, m>> \in less)
  <2> HIDE DEF less, above
  <2> QED
    BY <1>1, <1>2, WFMin
<1>4. \A k \in above : m <= k
  <2>1. ASSUME NEW k \in above, k < m
        PROVE  <<k, m>> \in less
    <3>1. <<k, m>> \in Nat \X Nat /\ <<k, m>>[1] < <<k, m>>[2]
      BY <1>2, <2>1
    <3> HIDE DEF above
    <3> QED
      BY <3>1, Zenon DEF OpToRel
  <2>2. \A k \in above : k \in Nat /\ m \in Nat /\ ~ (k < m)
    BY <1>2, <1>3, <2>1, Zenon
  <2> HIDE DEF less, above
  <2> QED
    BY <2>2
<1> HIDE DEF less
<1>5. m \in Nat /\ \A i \in places : i \in Nat /\ i <= m /\ i # 0
  BY <1>3
<1>6. m \in places
  <2> SUFFICES ASSUME m \notin places
               PROVE  FALSE
    OBVIOUS
  <2>1. \A i \in places : i <= m - 1
    BY <1>5
  <2>2. m # 0
    <3>1. PICK i \in places : i \in Nat /\ i <= m /\ i # 0
      BY <1>5
    <3> QED
      BY <1>5, <3>1
  <2>3. m - 1 \in above
    BY <1>5, <2>1, <2>2
  <2> HIDE DEF above
  <2> QED
    BY <1>4, <1>5, <2>3
<1> QED
  BY <1>5, <1>6 DEF R!Max

LEMMA LeastOfTwo ==
  ASSUME NEW a \in Nat, NEW b \in Nat
  PROVE  R!Min({a, b}) = IF a <= b THEN a ELSE b
<1> DEFINE least == IF a <= b THEN a ELSE b
<1>1. least \in {a, b} /\ \A k \in {a, b} : least <= k
  OBVIOUS
<1>2. \A i \in {a, b} : (\A k \in {a, b} : i <= k) => i = least
  OBVIOUS
<1> HIDE DEF least
<1>3. R!Min({a, b}) = least
  BY <1>1, <1>2 DEF R!Min
<1> QED
  BY <1>3 DEF least

\* The batch that is sent next is what is left first, and there is less to do after it.
LEMMA BatchFacts ==
  ASSUME NEW w, WriteIsRight(w), w.left # <<>>
  PROVE  /\ R!Batch(w) \in Seq(AskedRows) /\ R!Rest(w) \in Seq(AskedRows)
         /\ Len(R!Batch(w)) \in 1 .. Len(w.left)
         /\ Len(R!Rest(w)) = Len(w.left) - Len(R!Batch(w))
         /\ \A i \in 1 .. Len(R!Batch(w)) : R!Batch(w)[i] = w.asked[Did(w) + i]
         /\ \A i \in 1 .. Len(R!Rest(w)) : R!Rest(w)[i] = w.asked[Did(w) + Len(R!Batch(w)) + i]
<1> DEFINE n == R!Min({w.size, Len(w.left)})
<1>1. /\ w.left \in Seq(AskedRows) /\ w.size \in Nat \ {0} /\ w.asked \in Seq(AskedRows)
      /\ Len(w.left) \in Nat /\ Len(w.left) # 0 /\ Len(w.asked) \in Nat /\ Len(w.left) <= Len(w.asked)
      /\ \A i \in 1 .. Len(w.left) : w.left[i] \in AskedRows /\ w.left[i] = w.asked[Did(w) + i]
  BY DEF WriteIsRight, WriteRecords
<1>2. n = (IF w.size <= Len(w.left) THEN w.size ELSE Len(w.left))
  BY <1>1, LeastOfTwo
<1>3. n \in 1 .. Len(w.left) /\ n \in Nat
  BY <1>1, <1>2
<1> HIDE DEF n
<1>4. R!Batch(w) = SubSeq(w.left, 1, n)
  BY DEF R!Batch, n
<1>5. /\ R!Batch(w) \in Seq(AskedRows) /\ Len(R!Batch(w)) = n
      /\ \A i \in 1 .. n : R!Batch(w)[i] = w.left[i]
  BY <1>1, <1>3, <1>4, SubSeqProperties
<1>6. R!Rest(w) = SubSeq(w.left, w.size + 1, Len(w.left))
  BY DEF R!Rest
<1>7. /\ R!Rest(w) \in Seq(AskedRows)
      /\ Len(R!Rest(w)) = IF w.size + 1 <= Len(w.left) THEN Len(w.left) - w.size ELSE 0
      /\ \A i \in 1 .. Len(w.left) - w.size : R!Rest(w)[i] = w.left[w.size + i]
  <2>1. \A i \in w.size + 1 .. Len(w.left) : w.left[i] \in AskedRows
    BY <1>1
  <2>2. w.size + 1 \in Int /\ Len(w.left) \in Int
    BY <1>1
  <2>3. /\ R!Rest(w) \in Seq(AskedRows)
        /\ Len(R!Rest(w)) = IF w.size + 1 <= Len(w.left) THEN Len(w.left) - (w.size + 1) + 1 ELSE 0
        /\ \A i \in 1 .. Len(w.left) - (w.size + 1) + 1 : R!Rest(w)[i] = w.left[w.size + 1 + i - 1]
    BY <1>6, <2>1, <2>2, SubSeqProperties
  <2> QED
    BY <1>1, <2>3, SMTT(30)
<1>8. Len(R!Rest(w)) = Len(w.left) - n
  BY <1>1, <1>2, <1>7
<1>9. \A i \in 1 .. Len(R!Rest(w)) : R!Rest(w)[i] = w.asked[Did(w) + n + i]
  <2>1. ASSUME NEW i \in 1 .. Len(R!Rest(w))
        PROVE  R!Rest(w)[i] = w.asked[Did(w) + n + i]
    <3>1. w.size <= Len(w.left) /\ n = w.size /\ i \in 1 .. Len(w.left) - w.size
      BY <1>1, <1>2, <1>7, <2>1
    <3>2. w.size + i \in 1 .. Len(w.left) /\ Did(w) \in Int /\ i \in Int
      BY <1>1, <3>1 DEF Did
    <3>3. R!Rest(w)[i] = w.asked[Did(w) + (w.size + i)]
      BY <1>1, <1>7, <3>1, <3>2
    <3>4. Did(w) + (w.size + i) = Did(w) + n + i
      BY <1>1, <3>1, <3>2
    <3> QED
      BY <3>3, <3>4
  <2> QED
    BY <2>1
<1>10. R!Batch(w) \in Seq(AskedRows) /\ R!Rest(w) \in Seq(AskedRows) /\ Len(R!Batch(w)) = n
  BY <1>5, <1>7
<1>11. \A i \in 1 .. n : R!Batch(w)[i] = w.asked[Did(w) + i]
  BY <1>1, <1>3, <1>5
<1> QED
  BY <1>3, <1>8, <1>9, <1>10, <1>11, Zenon

\* A write after a batch that succeeded: it is done with what was sent, and has changed.
LEMMA Advanced ==
  ASSUME WritesInv, NEW c \in Companies, WriteIsRight(writes[c]), writes[c].left # <<>>,
         NEW ids \in Seq(Nat), NEW affected \in Nat, R!Advance(c, ids, affected)
  PROVE  \E new :
           /\ writes' = [writes EXCEPT ![c] = new] /\ new # writes[c]
           /\ WriteIsRight(new) /\ new.ids = writes[c].ids \o ids
           /\ new.kind = writes[c].kind /\ new.asked = writes[c].asked
           /\ new.where = writes[c].where /\ new.state = writes[c].state
           /\ Did(writes[c]) \in Nat /\ Did(new) = Did(writes[c]) + Len(R!Batch(writes[c]))
           /\ Did(new) <= Len(writes[c].asked)
<1> DEFINE w == writes[c]
           all_ids == w.ids \o ids
           count == w.affected + affected
           rest == R!Rest(w)
           new == [w EXCEPT !.left = rest, !.ids = all_ids, !.affected = count]
<1>1. writes' = [writes EXCEPT ![c] = new]
  BY DEF R!Advance, WritesInv
<1>2. w \in WriteRecords /\ Len(w.left) <= Len(w.asked) /\ w.left # <<>> /\ (w.state = "done" => Len(w.left) = 0)
  BY DEF WriteIsRight
<1>3. /\ rest \in Seq(AskedRows) /\ Len(R!Batch(w)) \in 1 .. Len(w.left)
      /\ Len(rest) = Len(w.left) - Len(R!Batch(w))
      /\ \A i \in 1 .. Len(rest) : rest[i] = w.asked[Did(w) + Len(R!Batch(w)) + i]
  BY BatchFacts
<1>4. all_ids \in Seq(Nat) /\ count \in Nat
  <2>1. w.ids \in Seq(Nat) /\ w.affected \in Nat
    BY <1>2 DEF WriteRecords
  <2> QED
    BY <2>1, ConcatProperties
<1> HIDE DEF w, all_ids, count, rest
<1>5. /\ new \in WriteRecords /\ new.left = rest /\ new.ids = all_ids
      /\ new.kind = w.kind /\ new.asked = w.asked /\ new.where = w.where /\ new.state = w.state
  BY <1>2, <1>3, <1>4 DEF WriteRecords
<1> HIDE DEF new
<1>6. Len(w.asked) \in Nat /\ Len(w.left) \in Nat /\ Len(w.left) # 0 /\ Len(R!Batch(w)) \in Nat
  BY <1>2, <1>3 DEF WriteRecords
<1>7. Did(w) \in Nat /\ Did(new) = Did(w) + Len(R!Batch(w)) /\ Did(new) <= Len(w.asked) /\ Len(new.left) <= Len(new.asked)
  <2>1. PICK asked \in Nat, left \in Nat, sent \in Nat :
          asked = Len(w.asked) /\ left = Len(w.left) /\ sent = Len(R!Batch(w))
    BY <1>6
  <2>2. left <= asked /\ sent \in 1 .. left /\ Len(new.left) = left - sent /\ Len(new.asked) = asked
    BY <1>2, <1>3, <1>5, <2>1
  <2>3. Did(w) = asked - left /\ Did(new) = asked - (left - sent)
    BY <2>1, <2>2 DEF Did
  <2> QED
    BY <2>1, <2>2, <2>3
<1>8. WriteIsRight(new)
  <2>1. \A i \in 1 .. Len(new.left) : new.left[i] = new.asked[Did(new) + i]
    BY <1>3, <1>5, <1>7
  <2>2. new.state # "done"
    BY <1>2, <1>5, <1>6
  <2> QED
    BY <1>5, <1>7, <2>1, <2>2 DEF WriteIsRight
<1>9. new # w
  BY <1>3, <1>5, <1>6
<1>10. new.ids = w.ids \o ids
  BY <1>5 DEF all_ids
<1>11. writes' = [writes EXCEPT ![c] = new]
  BY <1>1
<1> QED
  BY <1>5, <1>7, <1>8, <1>9, <1>10, <1>11, Zenon DEF w

\* The rows of a table are finitely many.
LEMMA RowsAreFinite ==
  ASSUME WritesInv, NEW ids \in SUBSET DOMAIN table
  PROVE  IsFiniteSet(ids)
<1>1. last_row_id \in Int /\ ids \subseteq 1 .. last_row_id /\ 1 \in Int
  BY DEF WritesInv, TableIsRight
<1>2. IsFiniteSet(1 .. last_row_id)
  BY <1>1, FS_Interval
<1> QED
  BY <1>1, <1>2, FS_Subset

\* What a step of a company does to the table and to the writes.
StepOf(c) ==
    /\ TableIsRight(table', last_row_id')
    /\ \E new : /\ writes' = [writes EXCEPT ![c] = new]
                /\ new # None => WriteIsRight(new) /\ IsDone(table', c, new)
                /\ new = writes[c] => SameRowsOf(table, table', c)
    /\ \A d \in Companies \ {c} : SameRowsOf(table, table', d)

\* A step of a company leaves the rows of the others alone, and its own unless its write goes on.
LEMMA StepKeeps ==
  ASSUME WritesInv, NEW c \in Companies, StepOf(c)
  PROVE  /\ WritesInv'
         /\ \A d \in Companies : writes'[d] = writes[d] => R!CompanyRows(table', d) = R!CompanyRows(table, d)
<1>1. PICK new : /\ writes' = [writes EXCEPT ![c] = new]
                 /\ new # None => WriteIsRight(new) /\ IsDone(table', c, new)
                 /\ new = writes[c] => SameRowsOf(table, table', c)
  BY DEF StepOf
<1>2. writes'[c] = new /\ \A d \in Companies \ {c} : writes'[d] = writes[d]
  BY <1>1 DEF WritesInv
<1>3. DOMAIN writes' = Companies /\ writes' = [d \in Companies |-> writes'[d]]
  BY <1>1 DEF WritesInv
<1>4. \A d \in Companies : writes'[d] # None => WriteIsRight(writes'[d]) /\ IsDone(table', d, writes'[d])
  BY <1>1, <1>2, SameRowsAreDone DEF WritesInv, StepOf
<1>5. \A d \in Companies : writes'[d] = writes[d] => SameRowsOf(table, table', d)
  BY <1>1, <1>2 DEF StepOf
<1> QED
  BY <1>3, <1>4, <1>5, SameCompanyRows DEF StepOf, WritesInv

\* A write that is begun has done nothing yet.
LEMMA BeginKeeps ==
  ASSUME WritesInv, NEW c \in Companies, NEW kind \in {"insert", "update", "delete"}, NEW asked \in RowLists,
         NEW size \in BatchSizes, NEW where \in Values \cup {None}, R!Begin(c, R!Write(kind, asked, size, where))
  PROVE  StepOf(c)
<1> DEFINE new == R!Write(kind, asked, size, where)
<1>1. asked \in Seq(AskedRows) /\ size \in Nat \ {0} /\ <<>> \in Seq(Nat)
  <2>1. asked \in Seq(AskedRows)
    BY PagesAssumption DEF R!WritesAssumption, AskedRows
  <2>2. size \in Nat \ {0}
    BY PagesAssumption DEF R!WritesAssumption
  <2>3. <<>> \in Seq(Nat)
    BY EmptySeq
  <2> QED
    BY <2>1, <2>2, <2>3
<1>2. /\ new \in WriteRecords /\ new.asked = asked /\ new.left = asked /\ new.ids = <<>>
      /\ new.state = "running" /\ new.kind = kind
  BY <1>1 DEF R!Write, WriteRecords
<1>3. writes' = [writes EXCEPT ![c] = new] /\ UNCHANGED <<table, last_row_id>>
  BY DEF R!Begin
<1> HIDE DEF new
<1>4. Did(new) = 0 /\ Len(new.left) <= Len(new.asked)
  BY <1>1, <1>2 DEF Did
<1>5. WriteIsRight(new)
  <2>1. \A i \in 1 .. Len(new.left) : new.left[i] = new.asked[Did(new) + i]
    BY <1>2, <1>4
  <2> QED
    BY <1>2, <1>4, <2>1 DEF WriteIsRight
<1>6. IsDone(table, c, new)
  <2>1. Len(new.ids) = 0
    BY <1>2
  <2> QED
    BY <1>4, <2>1 DEF IsDone, InsertIsDone, UpdateIsDone, DeleteIsDone
<1> QED
  BY <1>3, <1>5, <1>6 DEF StepOf, SameRowsOf, WritesInv

\* A write that returns or fails has left what it has left.
LEMMA EndingKeeps ==
  ASSUME WritesInv, NEW c \in Companies, R!Running(c), NEW state \in {"failed", "done"},
         writes' = [writes EXCEPT ![c].state = state], state = "done" => writes[c].left = <<>>,
         TableIsRight(table', last_row_id'),
         \A d \in Companies \ {c} : SameRowsOf(table, table', d),
         (writes[c].kind = "update" /\ state = "failed") \/ SameRowsOf(table, table', c)
  PROVE  StepOf(c)
<1> DEFINE w == writes[c]
           new == [w EXCEPT !.state = state]
<1>1. writes' = [writes EXCEPT ![c] = new]
  BY DEF WritesInv
<1>2. WriteIsRight(w) /\ IsDone(table, c, w) /\ w.state = "running"
  BY DEF WritesInv, R!Running
<1> HIDE DEF w
<1>3. /\ new \in WriteRecords /\ new.asked = w.asked /\ new.left = w.left /\ new.ids = w.ids
      /\ new.state = state /\ new.kind = w.kind /\ new.where = w.where
  BY <1>2 DEF WriteIsRight, WriteRecords
<1> HIDE DEF new
<1>4. Did(new) = Did(w)
  BY <1>3 DEF Did
<1>5. WriteIsRight(new)
  <2>1. state = "done" => Len(w.left) = 0
    BY DEF w
  <2> QED
    BY <1>2, <1>3, <1>4, <2>1 DEF WriteIsRight
<1>6. IsDone(table', c, new)
  <2>1. CASE SameRowsOf(table, table', c)
    <3>1. IsDone(table', c, w)
      BY <1>2, <2>1, SameRowsAreDone
    <3> QED
      BY <1>2, <1>3, <1>4, <3>1 DEF IsDone, InsertIsDone, UpdateIsDone, DeleteIsDone, IsLastOf
  <2>2. CASE w.kind = "update" /\ state = "failed"
    BY <1>3, <2>2 DEF IsDone
  <2> QED
    BY <2>1, <2>2 DEF w
<1>7. new # w
  BY <1>2, <1>3
<1> QED
  BY <1>1, <1>5, <1>6, <1>7 DEF StepOf, w

\* The rows of an INSERT come behind those that are there.
LEMMA InsertKeeps ==
  ASSUME WritesInv, NEW c \in Companies, R!InsertBatch(c)
  PROVE  StepOf(c)
<1> DEFINE batch == R!Batch(writes[c])
           n == Len(batch)
           ids == R!InsertIds(batch)
<1>1. /\ WriteIsRight(writes[c]) /\ IsDone(table, c, writes[c]) /\ writes[c].left # <<>>
      /\ writes[c].kind = "insert" /\ writes[c] # None
  BY DEF WritesInv, R!InsertBatch, R!Running
<1>2. /\ table' = R!Inserted(c, batch) /\ last_row_id' = last_row_id + n
      /\ R!Advance(c, ids, n)
  BY DEF R!InsertBatch
<1>3. /\ batch \in Seq(AskedRows) /\ n \in Nat /\ n # 0
      /\ \A i \in 1 .. n : batch[i] = writes[c].asked[Did(writes[c]) + i] /\ batch[i] \in AskedRows
  BY <1>1, BatchFacts
<1>4. last_row_id \in Nat /\ DOMAIN table \subseteq 1 .. last_row_id /\ \A id \in DOMAIN table : IsRow(table[id])
  BY DEF WritesInv, TableIsRight
<1> HIDE DEF batch, n
<1>5. ids \in Seq(Nat) /\ Len(ids) = n /\ \A i \in 1 .. n : ids[i] = last_row_id + i
  <2>1. ids = [i \in 1 .. n |-> last_row_id + i]
    BY <1>3 DEF R!InsertIds, n
  <2>2. \A i \in 1 .. n : last_row_id + i \in Nat
    BY <1>3, <1>4
  <2> HIDE DEF ids
  <2> QED
    BY <1>3, <2>1, <2>2
<1> DEFINE added == last_row_id + 1 .. last_row_id + n
<1>6. /\ DOMAIN table' = DOMAIN table \cup added
      /\ \A id \in DOMAIN table : table'[id] = table[id]
      /\ \A id \in added :
           table'[id] = [company |-> c, key |-> batch[id - last_row_id].key,
                         value |-> batch[id - last_row_id].value, updated |-> FALSE]
  BY <1>2, <1>4 DEF R!Inserted, n
<1>7. added \subseteq 1 .. last_row_id + n /\ DOMAIN table \cap added = {} /\ last_row_id + n \in Nat
  BY <1>3, <1>4
<1> HIDE DEF ids
<1>8. TableIsRight(table', last_row_id')
  <2>1. ASSUME NEW id \in DOMAIN table'
        PROVE  IsRow(table'[id])
    <3>1. CASE id \in DOMAIN table
      BY <1>4, <1>6, <3>1
    <3>2. CASE id \in added
      <4> DEFINE key == batch[id - last_row_id].key
                 its_value == batch[id - last_row_id].value
      <4>1. table'[id] = [company |-> c, key |-> key, value |-> its_value, updated |-> FALSE]
        BY <1>6, <3>2
      <4> HIDE DEF key, its_value
      <4> QED
        BY <4>1 DEF IsRow
    <3> HIDE DEF added
    <3> QED
      BY <1>6, <2>1, <3>1, <3>2
  <2>2. last_row_id' \in Nat /\ DOMAIN table' \subseteq 1 .. last_row_id'
    BY <1>2, <1>3, <1>4, <1>6, <1>7
  <2> QED
    BY <2>1, <2>2 DEF TableIsRight
<1>9. ASSUME NEW id \in added
      PROVE  table'[id].company = c /\ table'[id].key = batch[id - last_row_id].key
  <2> DEFINE key == batch[id - last_row_id].key
             its_value == batch[id - last_row_id].value
  <2>1. table'[id] = [company |-> c, key |-> key, value |-> its_value, updated |-> FALSE]
    BY <1>6, <1>9
  <2> HIDE DEF key, its_value
  <2>2. table'[id].company = c /\ table'[id].key = key
    BY <2>1
  <2> QED
    BY <2>2 DEF key
<1>10. ASSUME NEW d \in Companies \ {c}
       PROVE  SameRowsOf(table, table', d)
  <2>1. \A id \in DOMAIN table' : id \in DOMAIN table \/ table'[id].company = c
    BY <1>6, <1>9
  <2>2. \A id \in DOMAIN table : id \in DOMAIN table' /\ table'[id] = table[id]
    BY <1>6
  <2> HIDE DEF added
  <2> QED
    BY <2>1, <2>2 DEF SameRowsOf
<1>11. PICK new :
       /\ writes' = [writes EXCEPT ![c] = new] /\ new # writes[c]
       /\ WriteIsRight(new) /\ new.ids = writes[c].ids \o ids
       /\ new.kind = writes[c].kind /\ new.asked = writes[c].asked
       /\ new.where = writes[c].where /\ new.state = writes[c].state
       /\ Did(writes[c]) \in Nat /\ Did(new) = Did(writes[c]) + Len(R!Batch(writes[c]))
       /\ Did(new) <= Len(writes[c].asked)
  BY <1>1, <1>2, <1>3, <1>5, Advanced, Zenon
<1> DEFINE w == writes[c]
<1>12. Did(w) \in Nat /\ Did(new) = Did(w) + n
  BY <1>11 DEF n, batch
<1>13. new.ids = w.ids \o ids /\ new.asked = w.asked /\ new.kind = "insert"
  BY <1>1, <1>11
<1>14. IsDone(table', c, new)
  <2>1. /\ w.ids \in Seq(Nat) /\ Len(w.ids) = Did(w)
        /\ \A i \in 1 .. Did(w) : /\ w.ids[i] \in DOMAIN table /\ table[w.ids[i]].company = c
                                  /\ table[w.ids[i]].key = w.asked[i].key
    BY <1>1 DEF WriteIsRight, WriteRecords, IsDone, InsertIsDone
  <2> HIDE DEF w
  <2>2. /\ Len(new.ids) = Did(w) + n
        /\ \A i \in 1 .. Did(w) + n : new.ids[i] = IF i <= Did(w) THEN w.ids[i] ELSE ids[i - Did(w)]
    <3>1. w.ids \in Seq(Nat) /\ ids \in Seq(Nat) /\ Len(w.ids) = Did(w) /\ Len(ids) = n
      BY <1>5, <2>1
    <3>2. /\ Len(w.ids \o ids) = Len(w.ids) + Len(ids)
          /\ \A i \in 1 .. Len(w.ids) + Len(ids) :
               (w.ids \o ids)[i] = IF i <= Len(w.ids) THEN w.ids[i] ELSE ids[i - Len(w.ids)]
      BY <3>1, ConcatProperties
    <3> QED
      BY <1>13, <3>1, <3>2
  <2>3. ASSUME NEW i \in 1 .. Did(w) + n
        PROVE  /\ new.ids[i] \in DOMAIN table' /\ table'[new.ids[i]].company = c
               /\ table'[new.ids[i]].key = w.asked[i].key
    <3>1. CASE i <= Did(w)
      <4>1. i \in 1 .. Did(w) /\ new.ids[i] = w.ids[i]
        BY <1>12, <1>3, <2>2, <3>1
      <4>2. new.ids[i] \in DOMAIN table /\ table'[new.ids[i]] = table[new.ids[i]]
        BY <1>6, <2>1, <4>1
      <4> HIDE DEF added
      <4> QED
        BY <1>6, <2>1, <4>1, <4>2
    <3>2. CASE ~ (i <= Did(w))
      <4>1. PICK j \in 1 .. n : i = Did(w) + j /\ j = i - Did(w)
        BY <1>3, <1>12, <3>2
      <4>2. new.ids[i] = last_row_id + j
        BY <1>5, <2>2, <3>2, <4>1
      <4>3. new.ids[i] \in added /\ new.ids[i] - last_row_id = j
        BY <1>3, <1>4, <4>1, <4>2
      <4>4. batch[j] = w.asked[i]
        BY <1>3, <4>1 DEF w
      <4> HIDE DEF added
      <4> QED
        BY <1>6, <1>9, <4>3, <4>4
    <3> QED
      BY <3>1, <3>2
  <2>4. InsertIsDone(table', c, new)
    BY <1>12, <1>13, <2>2, <2>3 DEF InsertIsDone
  <2> QED
    BY <1>13, <2>4 DEF IsDone
<1> HIDE DEF added
<1> QED
  BY <1>8, <1>10, <1>11, <1>14 DEF StepOf

\* The rows of a batch that an UPDATE goes over: the last of those with the key of a row.
LEMMA RowsAreUpdated ==
  ASSUME WritesInv, NEW c \in Companies, NEW batch \in Seq(AskedRows)
  PROVE  LET updated == R!UpdatedBy(c, batch)
         IN  /\ TableIsRight(updated, last_row_id)
             /\ \A d \in Companies \ {c} : SameRowsOf(table, updated, d)
             /\ DOMAIN updated = DOMAIN table
             /\ \A id \in DOMAIN table : updated[id].company = table[id].company /\ updated[id].key = table[id].key
             /\ \A id \in DOMAIN table : table[id].company = c =>
                  IF \E i \in 1 .. Len(batch) : batch[i].key = table[id].key
                  THEN \E i \in 1 .. Len(batch) :
                         /\ batch[i].key = table[id].key
                         /\ \A j \in 1 .. Len(batch) : batch[j].key = table[id].key => j <= i
                         /\ updated[id].updated /\ updated[id].value = batch[i].value
                  ELSE updated[id] = table[id]
<1> DEFINE updated == R!UpdatedBy(c, batch)
           places(id) == {i \in 1 .. Len(batch) : batch[i].key = table[id].key}
<1>1. DOMAIN batch = 1 .. Len(batch) /\ Len(batch) \in Nat
  OBVIOUS
<1>2. ASSUME NEW id \in DOMAIN table
      PROVE  R!Updating(c, batch, id) = IF table[id].company = c THEN places(id) ELSE {}
  BY <1>1, <1>2 DEF R!Updating, R!Matching
<1>3. DOMAIN updated = DOMAIN table
  BY DEF R!UpdatedBy
<1>4. ASSUME NEW id \in DOMAIN table
      PROVE  /\ table[id].company # c \/ places(id) = {} => updated[id] = table[id]
             /\ table[id].company = c /\ places(id) # {} =>
                  updated[id] = [table[id] EXCEPT !.value = batch[R!Max(places(id))].value, !.updated = TRUE]
  BY <1>2, <1>4 DEF R!UpdatedBy
<1>5. ASSUME NEW id \in DOMAIN table, table[id].company = c, places(id) # {}
      PROVE  /\ updated[id] = [table[id] EXCEPT !.value = batch[R!Max(places(id))].value, !.updated = TRUE]
             /\ IsRow(updated[id]) /\ updated[id].company = table[id].company /\ updated[id].key = table[id].key
             /\ updated[id].updated /\ updated[id].value = batch[R!Max(places(id))].value
  <2> DEFINE row == table[id]
             its_value == batch[R!Max(places(id))].value
  <2>1. updated[id] = [row EXCEPT !.value = its_value, !.updated = TRUE]
    BY <1>4, <1>5, Zenon
  <2>2. row = [company |-> row.company, key |-> row.key, value |-> row.value, updated |-> row.updated]
    BY DEF WritesInv, TableIsRight, IsRow
  <2> HIDE DEF row, its_value
  <2>3. updated[id] = [company |-> row.company, key |-> row.key, value |-> its_value, updated |-> TRUE]
    BY <2>1, <2>2
  <2>4. /\ updated[id].company = row.company /\ updated[id].key = row.key
        /\ updated[id].updated /\ updated[id].value = its_value
    BY <2>3
  <2>5. IsRow(updated[id])
    BY <2>3, <2>4 DEF IsRow
  <2> QED
    BY <2>1, <2>4, <2>5 DEF row, its_value
<1> HIDE DEF updated
<1>6. \A id \in DOMAIN table :
        IsRow(updated[id]) /\ updated[id].company = table[id].company /\ updated[id].key = table[id].key
  BY <1>4, <1>5, Zenon DEF WritesInv, TableIsRight
<1>7. TableIsRight(updated, last_row_id)
  BY <1>3, <1>6 DEF TableIsRight, WritesInv
<1>8. \A d \in Companies \ {c} : SameRowsOf(table, updated, d)
  BY <1>3, <1>4, <1>6, Zenon DEF SameRowsOf
<1>9. ASSUME NEW id \in DOMAIN table, table[id].company = c
      PROVE  IF \E i \in 1 .. Len(batch) : batch[i].key = table[id].key
             THEN \E i \in 1 .. Len(batch) :
                    /\ batch[i].key = table[id].key
                    /\ \A j \in 1 .. Len(batch) : batch[j].key = table[id].key => j <= i
                    /\ updated[id].updated /\ updated[id].value = batch[i].value
             ELSE updated[id] = table[id]
  <2>1. CASE places(id) = {}
    BY <1>4, <1>9, <2>1, Zenon
  <2>2. CASE places(id) # {}
    <3>1. places(id) \in SUBSET (1 .. Len(batch))
      OBVIOUS
    <3>2. R!Max(places(id)) \in places(id) /\ \A i \in places(id) : i <= R!Max(places(id))
      <4> HIDE DEF places
      <4> QED
        BY <1>1, <2>2, <3>1, LargestPlace
    <3>3. updated[id].updated /\ updated[id].value = batch[R!Max(places(id))].value
      BY <1>5, <1>9, <2>2, Zenon
    <3>4. PICK i : i = R!Max(places(id))
      OBVIOUS
    <3> QED
      BY <3>2, <3>3, <3>4
  <2> QED
    BY <2>1, <2>2
<1> QED
  BY <1>3, <1>6, <1>7, <1>8, <1>9 DEF updated

\* An UPDATE of a batch leaves the last value that was asked for so far.
LEMMA UpdateKeeps ==
  ASSUME WritesInv, NEW c \in Companies, R!UpdateBatch(c)
  PROVE  StepOf(c)
<1> DEFINE batch == R!Batch(writes[c])
           affected == R!Affected(c, batch)
           updated == R!UpdatedBy(c, batch)
<1>1. /\ WriteIsRight(writes[c]) /\ IsDone(table, c, writes[c]) /\ writes[c].left # <<>>
      /\ writes[c].kind = "update" /\ writes[c].state = "running"
  BY DEF WritesInv, R!UpdateBatch, R!Running
<1>2. table' = updated /\ last_row_id' = last_row_id /\ R!Advance(c, <<>>, affected)
  BY DEF R!UpdateBatch
<1>3. /\ batch \in Seq(AskedRows) /\ Len(batch) \in Nat
      /\ \A i \in 1 .. Len(batch) : batch[i] = writes[c].asked[Did(writes[c]) + i]
  BY <1>1, BatchFacts
<1>4. affected \in Nat
  <2> DEFINE found == {at \in (DOMAIN batch) \X (DOMAIN table) : at[2] \in R!Matching(table, c, batch[at[1]].key)}
  <2>1. IsFiniteSet(DOMAIN batch)
    <3>1. DOMAIN batch = 1 .. Len(batch) /\ 1 \in Int /\ Len(batch) \in Int
      BY <1>3
    <3> QED
      BY <3>1, FS_Interval
  <2>2. IsFiniteSet(DOMAIN table)
    BY RowsAreFinite
  <2>3. IsFiniteSet((DOMAIN batch) \X (DOMAIN table))
    BY <2>1, <2>2, FS_Product
  <2>4. IsFiniteSet(found)
    <3>1. found \subseteq (DOMAIN batch) \X (DOMAIN table)
      OBVIOUS
    <3> HIDE DEF found
    <3> QED
      BY <2>3, <3>1, FS_Subset
  <2>5. affected = Cardinality(found)
    BY DEF R!Affected, R!Cardinality, Cardinality
  <2> QED
    BY <2>4, <2>5, FS_CardinalityType
<1> HIDE DEF affected, batch
<1>5. <<>> \in Seq(Nat)
  BY EmptySeq
<1>6. PICK new :
       /\ writes' = [writes EXCEPT ![c] = new] /\ new # writes[c]
       /\ WriteIsRight(new) /\ new.ids = writes[c].ids \o <<>>
       /\ new.kind = writes[c].kind /\ new.asked = writes[c].asked
       /\ new.where = writes[c].where /\ new.state = writes[c].state
       /\ Did(writes[c]) \in Nat /\ Did(new) = Did(writes[c]) + Len(R!Batch(writes[c]))
       /\ Did(new) <= Len(writes[c].asked)
  BY <1>1, <1>2, <1>4, <1>5, Advanced, Zenon
<1> DEFINE w == writes[c]
<1>7. /\ new.kind = "update" /\ new.asked = w.asked /\ Did(w) \in Nat /\ Did(new) = Did(w) + Len(batch)
      /\ UpdateIsDone(table, c, w)
  BY <1>1, <1>6 DEF batch, IsDone
<1>8. /\ TableIsRight(updated, last_row_id)
      /\ \A d \in Companies \ {c} : SameRowsOf(table, updated, d)
      /\ DOMAIN updated = DOMAIN table
      /\ \A id \in DOMAIN table : updated[id].company = table[id].company /\ updated[id].key = table[id].key
      /\ \A id \in DOMAIN table : table[id].company = c =>
           IF \E i \in 1 .. Len(batch) : batch[i].key = table[id].key
           THEN \E i \in 1 .. Len(batch) :
                  /\ batch[i].key = table[id].key
                  /\ \A j \in 1 .. Len(batch) : batch[j].key = table[id].key => j <= i
                  /\ updated[id].updated /\ updated[id].value = batch[i].value
           ELSE updated[id] = table[id]
  BY <1>3, RowsAreUpdated
<1>9. \A i \in 1 .. Len(batch) : batch[i] = w.asked[Did(w) + i]
  BY <1>3
<1> HIDE DEF updated, w
<1>10. UpdateIsDone(updated, c, new)
  <2> SUFFICES ASSUME NEW id \in DOMAIN table, table[id].company = c,
                      NEW i \in 1 .. Did(new), IsLastOf(new, i, table[id].key)
               PROVE  updated[id].updated /\ updated[id].value = new.asked[i].value
    BY <1>8 DEF UpdateIsDone
  <2>1. /\ w.asked[i].key = table[id].key
        /\ \A j \in 1 .. Did(w) + Len(batch) : w.asked[j].key = table[id].key => j <= i
    BY <1>7 DEF IsLastOf
  <2>2. i \in Nat /\ Did(w) \in Nat /\ Len(batch) \in Nat /\ i <= Did(w) + Len(batch)
    BY <1>3, <1>7
  <2>3. CASE \E j \in 1 .. Len(batch) : batch[j].key = table[id].key
    <3>1. PICK j \in 1 .. Len(batch) :
            /\ batch[j].key = table[id].key
            /\ \A k \in 1 .. Len(batch) : batch[k].key = table[id].key => k <= j
            /\ updated[id].updated /\ updated[id].value = batch[j].value
      BY <1>8, <2>3
    <3>2. w.asked[Did(w) + j].key = table[id].key /\ Did(w) + j \in 1 .. Did(w) + Len(batch)
      BY <1>9, <2>2, <3>1
    <3>3. Did(w) + j <= i
      BY <2>1, <3>2
    <3>4. i - Did(w) \in 1 .. Len(batch) /\ Did(w) + (i - Did(w)) = i
      BY <2>2, <3>3
    <3>5. batch[i - Did(w)] = w.asked[i]
      BY <1>9, <3>4
    <3>6. i - Did(w) <= j
      BY <2>1, <3>1, <3>4, <3>5
    <3>7. i = Did(w) + j
      BY <2>2, <3>3, <3>6
    <3> QED
      BY <1>7, <1>9, <3>1, <3>7
  <2>4. CASE ~ \E j \in 1 .. Len(batch) : batch[j].key = table[id].key
    <3>1. updated[id] = table[id]
      BY <1>8, <2>4
    <3>2. i <= Did(w)
      <4> SUFFICES ASSUME ~ (i <= Did(w))
                   PROVE  FALSE
        OBVIOUS
      <4>1. i - Did(w) \in 1 .. Len(batch) /\ Did(w) + (i - Did(w)) = i
        BY <2>2
      <4>2. batch[i - Did(w)] = w.asked[i]
        BY <1>9, <4>1
      <4> QED
        BY <2>1, <2>4, <4>1, <4>2
    <3>3. i \in 1 .. Did(w) /\ \A j \in 1 .. Did(w) : j \in 1 .. Did(w) + Len(batch)
      BY <2>2, <3>2
    <3>4. IsLastOf(w, i, table[id].key)
      BY <2>1, <3>3 DEF IsLastOf
    <3> QED
      BY <1>7, <3>1, <3>3, <3>4 DEF UpdateIsDone
  <2> QED
    BY <2>3, <2>4
<1>11. IsDone(updated, c, new)
  BY <1>7, <1>10 DEF IsDone
<1> QED
  BY <1>2, <1>6, <1>8, <1>11 DEF StepOf

\* A list of UPDATEs that breaks off has written to the company's rows alone.
LEMMA BreakOffKeeps ==
  ASSUME WritesInv, NEW c \in Companies, R!BreakOff(c)
  PROVE  StepOf(c)
<1>1. WriteIsRight(writes[c]) /\ writes[c].kind = "update" /\ R!Running(c)
  BY DEF WritesInv, R!BreakOff, R!Running
<1>2. PICK n \in 1 .. (Len(R!Batch(writes[c])) - 1) : table' = R!UpdatedBy(c, SubSeq(writes[c].left, 1, n))
  BY DEF R!BreakOff
<1>3. SubSeq(writes[c].left, 1, n) \in Seq(AskedRows)
  <2>1. CASE writes[c].left = <<>>
    <3>1. writes[c].size \in Nat /\ writes[c].size # 0 /\ Len(writes[c].left) = 0
      BY <1>1, <2>1 DEF WriteIsRight, WriteRecords
    <3>2. R!Min({writes[c].size, Len(writes[c].left)}) = 0
      BY <3>1, LeastOfTwo
    <3>3. R!Batch(writes[c]) = SubSeq(<<>>, 1, 0)
      BY <2>1, <3>2 DEF R!Batch
    <3>4. Len(SubSeq(<<>>, 1, 0)) = 0
      OBVIOUS
    <3> QED
      BY <1>2, <3>3, <3>4
  <2>2. CASE writes[c].left # <<>>
    <3>1. Len(R!Batch(writes[c])) \in 1 .. Len(writes[c].left) /\ writes[c].left \in Seq(AskedRows)
      BY <1>1, <2>2, BatchFacts DEF WriteIsRight, WriteRecords
    <3>2. n \in 0 .. Len(writes[c].left)
      BY <1>2, <3>1
    <3>3. \A i \in 1 .. n : writes[c].left[i] \in AskedRows
      BY <3>1, <3>2
    <3> QED
      BY <3>2, <3>3, SubSeqProperties
  <2> QED
    BY <2>1, <2>2
<1>4. /\ TableIsRight(table', last_row_id')
      /\ \A d \in Companies \ {c} : SameRowsOf(table, table', d)
  BY <1>2, <1>3, RowsAreUpdated DEF R!BreakOff
<1>5. writes' = [writes EXCEPT ![c].state = "failed"]
  BY DEF R!BreakOff
<1> QED
  BY <1>1, <1>4, <1>5, EndingKeeps

\* A DELETE of a batch leaves none of the rows it was to take.
LEMMA DeleteKeeps ==
  ASSUME WritesInv, NEW c \in Companies, R!DeleteBatch(c)
  PROVE  StepOf(c)
<1> DEFINE batch == R!Batch(writes[c])
           where == writes[c].where
           found == UNION {R!Matching(table, c, row.key) : row \in R!ToSet(batch)}
           gone == {id \in found : where # None => table[id].value = where}
<1>1. /\ WriteIsRight(writes[c]) /\ IsDone(table, c, writes[c]) /\ writes[c].left # <<>>
      /\ writes[c].kind = "delete"
  BY DEF WritesInv, R!DeleteBatch, R!Running
<1>2. /\ table' = [id \in DOMAIN table \ gone |-> table[id]] /\ last_row_id' = last_row_id
      /\ R!Advance(c, <<>>, Cardinality(gone))
  BY DEF R!DeleteBatch, R!Cardinality, Cardinality
<1>3. /\ batch \in Seq(AskedRows) /\ Len(batch) \in Nat
      /\ \A i \in 1 .. Len(batch) : batch[i] = writes[c].asked[Did(writes[c]) + i]
  BY <1>1, BatchFacts
<1>4. \A id : id \in found <=> /\ id \in DOMAIN table /\ table[id].company = c
                                /\ \E i \in 1 .. Len(batch) : table[id].key = batch[i].key
  <2>1. R!ToSet(batch) = {batch[i] : i \in 1 .. Len(batch)}
    BY <1>3 DEF R!ToSet
  <2> HIDE DEF batch
  <2> QED
    BY <2>1 DEF R!Matching
<1> HIDE DEF found
<1>5. gone \subseteq DOMAIN table /\ \A id \in gone : table[id].company = c
  BY <1>4
<1>6. Cardinality(gone) \in Nat
  <2> HIDE DEF gone
  <2> QED
    BY <1>5, RowsAreFinite, FS_CardinalityType
<1>7. <<>> \in Seq(Nat)
  BY EmptySeq
<1>8. PICK new :
       /\ writes' = [writes EXCEPT ![c] = new] /\ new # writes[c]
       /\ WriteIsRight(new) /\ new.ids = writes[c].ids \o <<>>
       /\ new.kind = writes[c].kind /\ new.asked = writes[c].asked
       /\ new.where = writes[c].where /\ new.state = writes[c].state
       /\ Did(writes[c]) \in Nat /\ Did(new) = Did(writes[c]) + Len(R!Batch(writes[c]))
       /\ Did(new) <= Len(writes[c].asked)
  <2> HIDE DEF gone
  <2> QED
    BY <1>1, <1>2, <1>6, <1>7, Advanced, Zenon
<1> DEFINE w == writes[c]
<1>9. /\ new.kind = "delete" /\ new.asked = w.asked /\ new.where = w.where
      /\ Did(w) \in Nat /\ Did(new) = Did(w) + Len(batch)
      /\ DeleteIsDone(table, c, w)
  BY <1>1, <1>8 DEF IsDone
<1>10. \A i \in 1 .. Len(batch) : batch[i] = w.asked[Did(w) + i]
  BY <1>3
<1>11. /\ DOMAIN table' = DOMAIN table \ gone /\ \A id \in DOMAIN table' : table'[id] = table[id]
  BY <1>2
<1>12. \A id \in gone : table[id].company = c
  BY <1>5
<1>13. \A id \in DOMAIN table : id \notin gone /\ id \in found => where # None /\ table[id].value # where
  OBVIOUS
<1> HIDE DEF gone, batch
<1>14. DeleteIsDone(table', c, new)
  <2> SUFFICES ASSUME NEW id \in DOMAIN table', table'[id].company = c,
                      NEW i \in 1 .. Did(new), new.asked[i].key = table'[id].key
               PROVE  new.where # None /\ table'[id].value # new.where
    BY DEF DeleteIsDone
  <2>1. /\ id \in DOMAIN table /\ id \notin gone /\ table'[id] = table[id] /\ w.asked[i].key = table[id].key
        /\ table[id].company = c
    BY <1>9, <1>11
  <2>2. CASE i <= Did(w)
    <3>1. i \in 1 .. Did(w)
      BY <1>3, <1>9, <2>2
    <3> QED
      BY <1>9, <2>1, <3>1 DEF DeleteIsDone
  <2>3. CASE ~ (i <= Did(w))
    <3>1. i - Did(w) \in 1 .. Len(batch) /\ Did(w) + (i - Did(w)) = i
      BY <1>3, <1>9, <2>3
    <3>2. batch[i - Did(w)] = w.asked[i]
      BY <1>10, <3>1
    <3>3. id \in found
      BY <1>4, <2>1, <3>1, <3>2
    <3> QED
      BY <1>9, <1>13, <2>1, <3>3
  <2> QED
    BY <2>2, <2>3
<1>15. IsDone(table', c, new)
  BY <1>9, <1>14 DEF IsDone
<1>16. \A d \in Companies \ {c} : SameRowsOf(table, table', d)
  BY <1>5, <1>11, <1>12 DEF SameRowsOf
<1>17. TableIsRight(table', last_row_id')
  BY <1>2, <1>11 DEF WritesInv, TableIsRight
<1> QED
  BY <1>8, <1>15, <1>16, <1>17 DEF StepOf

\* A row that the company has alone is no row of the table.
LEMMA RowsAreLeft ==
  ASSUME WritesInv, UNCHANGED <<table, last_row_id, writes>>, NEW c \in Companies
  PROVE  StepOf(c)
<1>1. writes' = [writes EXCEPT ![c] = writes[c]]
  BY DEF WritesInv
<1>2. \A d \in Companies : SameRowsOf(table, table', d)
  BY DEF SameRowsOf
<1> QED
  BY <1>1, <1>2 DEF StepOf, WritesInv

LEMMA WritesStep ==
  ASSUME WritesInv, NEW c \in Companies, R!Fail(c) \/ R!Return(c)
  PROVE  StepOf(c)
<1>1. /\ \A d \in Companies : SameRowsOf(table, table', d)
      /\ TableIsRight(table', last_row_id')
  BY DEF R!Fail, R!Return, SameRowsOf, WritesInv
<1>2. CASE R!Fail(c)
  <2>1. R!Running(c) /\ writes' = [writes EXCEPT ![c].state = "failed"]
    BY <1>2 DEF R!Fail
  <2> QED
    BY <1>1, <2>1, EndingKeeps
<1>3. CASE R!Return(c)
  <2>1. R!Running(c) /\ writes' = [writes EXCEPT ![c].state = "done"] /\ writes[c].left = <<>>
    BY <1>3 DEF R!Return
  <2> QED
    BY <1>1, <2>1, EndingKeeps
<1> QED
  BY <1>2, <1>3

\* Every step of the writes is a step of one company.
LEMMA WritesNext ==
  ASSUME WritesInv, R!Next
  PROVE  \E c \in Companies : StepOf(c)
<1>1. PICK c \in Companies :
        \/ \E asked \in RowLists, size \in BatchSizes :
              \/ R!BulkInsert(c, asked, size)
              \/ R!BulkUpdate(c, asked, size)
              \/ \E where \in Values \cup {None} : R!Delete(c, asked, size, where)
        \/ R!InsertBatch(c) \/ R!UpdateBatch(c) \/ R!DeleteBatch(c)
        \/ R!Fail(c) \/ R!BreakOff(c) \/ R!Return(c)
        \/ \E its_value \in Values : R!UpdateCompanyRow(c, its_value)
  BY DEF R!Next
<1>2. ASSUME NEW asked \in RowLists, NEW size \in BatchSizes, R!BulkInsert(c, asked, size)
      PROVE  StepOf(c)
  BY <1>2, BeginKeeps DEF R!BulkInsert
<1>3. ASSUME NEW asked \in RowLists, NEW size \in BatchSizes, R!BulkUpdate(c, asked, size)
      PROVE  StepOf(c)
  BY <1>3, BeginKeeps DEF R!BulkUpdate
<1>4. ASSUME NEW asked \in RowLists, NEW size \in BatchSizes, NEW where \in Values \cup {None},
             R!Delete(c, asked, size, where)
      PROVE  StepOf(c)
  BY <1>4, BeginKeeps DEF R!Delete
<1>5. ASSUME NEW its_value \in Values, R!UpdateCompanyRow(c, its_value)
      PROVE  StepOf(c)
  BY <1>5, RowsAreLeft DEF R!UpdateCompanyRow
<1> QED
  BY <1>1, <1>2, <1>3, <1>4, <1>5, InsertKeeps, UpdateKeeps, DeleteKeeps, BreakOffKeeps, WritesStep

LEMMA WritesInit == R!Init => WritesInv
<1> SUFFICES ASSUME R!Init
             PROVE  WritesInv
  OBVIOUS
<1> DEFINE company == CHOOSE c \in Companies : TRUE
           key == CHOOSE k \in RowKeys : TRUE
           first_value == CHOOSE v \in Values : TRUE
           first == [company |-> company, key |-> key, value |-> first_value, updated |-> FALSE]
<1>1. table = [id \in {1} |-> first] /\ last_row_id = 1 /\ writes = [c \in Companies |-> None]
  BY DEF R!Init
<1> HIDE DEF company, key, first_value
<1>2. IsRow(first)
  BY DEF IsRow
<1> HIDE DEF first
<1>3. TableIsRight(table, last_row_id)
  BY <1>1, <1>2 DEF TableIsRight
<1> QED
  BY <1>1, <1>3 DEF WritesInv

\* What the invariant of the writes says of those that returned.
LEMMA WritesAreWhole == WritesInv => R!IdsNameTheirRows /\ R!WritesAreComplete
<1> SUFFICES ASSUME WritesInv
             PROVE  R!IdsNameTheirRows /\ R!WritesAreComplete
  OBVIOUS
<1>1. \A c \in Companies : writes[c] # None => WriteIsRight(writes[c]) /\ IsDone(table, c, writes[c])
  BY DEF WritesInv
<1>2. R!IdsNameTheirRows
  <2> SUFFICES ASSUME NEW c \in Companies, writes[c] # None, writes[c].kind = "insert",
                      NEW i \in DOMAIN writes[c].ids
               PROVE  /\ writes[c].ids[i] \in DOMAIN table /\ table[writes[c].ids[i]].company = c
                      /\ table[writes[c].ids[i]].key = writes[c].asked[i].key
    BY DEF R!IdsNameTheirRows
  <2>1. i \in 1 .. Len(writes[c].ids)
    BY <1>1 DEF WriteIsRight, WriteRecords
  <2> QED
    BY <1>1, <2>1 DEF IsDone, InsertIsDone
<1>3. ASSUME NEW c \in Companies, writes[c] # None, writes[c].state = "done"
      PROVE  LET write == writes[c]
                 own == {id \in DOMAIN table : table[id].company = c}
                 asked == {row.key : row \in R!ToSet(write.asked)}
             IN  /\ write.kind = "insert" => Len(write.ids) = Len(write.asked)
                 /\ write.kind = "update" => \A id \in own : table[id].key \in asked =>
                       table[id].updated /\ table[id].value = R!LastAsked(write.asked, table[id].key)
                 /\ write.kind = "delete" => \A id \in own : table[id].key \in asked =>
                       write.where # None /\ table[id].value # write.where
  <2> DEFINE w == writes[c]
             keys == {row.key : row \in R!ToSet(w.asked)}
  <2>1. /\ WriteIsRight(w) /\ IsDone(table, c, w) /\ w.asked \in Seq(AskedRows) /\ Len(w.left) = 0 /\ w.state # "failed"
    BY <1>1, <1>3 DEF WriteIsRight, WriteRecords
  <2> HIDE DEF w
  <2>2. Len(w.asked) \in Nat /\ Did(w) = Len(w.asked) /\ DOMAIN w.asked = 1 .. Len(w.asked)
    BY <2>1 DEF Did
  <2>3. \A k \in keys : \E i \in 1 .. Len(w.asked) : w.asked[i].key = k
    <3>1. R!ToSet(w.asked) = {w.asked[i] : i \in 1 .. Len(w.asked)}
      BY <2>2 DEF R!ToSet
    <3> QED
      BY <3>1
  <2> HIDE DEF keys
  <2>4. w.kind = "insert" => Len(w.ids) = Len(w.asked)
    BY <2>1, <2>2 DEF IsDone, InsertIsDone
  <2>5. ASSUME w.kind = "update", NEW id \in DOMAIN table, table[id].company = c, table[id].key \in keys
        PROVE  table[id].updated /\ table[id].value = R!LastAsked(w.asked, table[id].key)
    <3> DEFINE places == {i \in DOMAIN w.asked : w.asked[i].key = table[id].key}
    <3>1. places \in SUBSET (1 .. Len(w.asked)) /\ places # {}
      BY <2>2, <2>3, <2>5
    <3>2. R!Max(places) \in places /\ \A i \in places : i <= R!Max(places)
      <4> HIDE DEF places
      <4> QED
        BY <2>2, <3>1, LargestPlace
    <3>3. PICK last : last = R!Max(places)
      OBVIOUS
    <3>4. last \in 1 .. Did(w) /\ IsLastOf(w, last, table[id].key)
      BY <2>2, <3>2, <3>3 DEF IsLastOf
    <3>5. table[id].updated /\ table[id].value = w.asked[last].value
      BY <2>1, <2>5, <3>4 DEF IsDone, UpdateIsDone
    <3> QED
      BY <3>3, <3>5 DEF R!LastAsked
  <2>6. ASSUME w.kind = "delete", NEW id \in DOMAIN table, table[id].company = c, table[id].key \in keys
        PROVE  w.where # None /\ table[id].value # w.where
    BY <2>1, <2>2, <2>3, <2>6 DEF IsDone, DeleteIsDone
  <2> QED
    BY <2>4, <2>5, <2>6 DEF w, keys
<1> QED
  BY <1>2, <1>3 DEF R!WritesAreComplete

LEMMA WritesGoOn ==
  ASSUME WritesInv, [R!Next]_of_writes
  PROVE  /\ WritesInv'
         /\ \A c \in Companies : writes'[c] = writes[c] /\ settings'[c] = settings[c]
                                   => R!CompanyRows(table', c) = R!CompanyRows(table, c)
<1>1. CASE R!Next
  BY <1>1, WritesNext, StepKeeps
<1>2. CASE UNCHANGED of_writes
  BY <1>2 DEF of_writes, WritesInv
<1> QED
  BY <1>1, <1>2

LEMMA WritesHold ==
  MCSpec => R!OnlyOwnRows /\ [](side = "writes" => R!IdsNameTheirRows /\ R!WritesAreComplete)
<1>1. MCInit => WritesInv
  BY WritesInit DEF MCInit
<1>2. [MCNext]_<<of_pages, of_others, side>> => [R!Next]_of_writes
  BY DEF MCNext, OtherNext, of_others
<1>3. WritesInv /\ [MCNext]_<<of_pages, of_others, side>> => WritesInv'
  BY <1>2, WritesGoOn
<1>4. WritesInv => (side = "writes" => R!IdsNameTheirRows /\ R!WritesAreComplete)
  BY WritesAreWhole
<1>5. WritesInv /\ [MCNext]_<<of_pages, of_others, side>>
      => [\A c \in Companies : writes'[c] = writes[c] /\ settings'[c] = settings[c]
                                 => R!CompanyRows(table', c) = R!CompanyRows(table, c)]_R!vars
  BY <1>2, WritesGoOn
<1> QED
  BY <1>1, <1>3, <1>4, <1>5, PTL DEF MCSpec, R!OnlyOwnRows

-----------------------------------------------------------------------------
(* Transactions.                                                           *)

Calls == DOMAIN callbacks
LastCall == Len(callbacks)
States(c) == {branches[c][b].state : b \in DOMAIN branches[c]}

TxRows == [call : Nat, stage : Nat, branch : Nat, number : Nat]
TxStatements == [is : {"START", "COMMIT", "ROLLBACK"}, row : {None}] \cup [is : {"write"}, row : TxRows]
TxBranches == [sent : Nat, state : {"ready", "waiting", "failed", "done"}]
TxPhases == {"rest", "starting", "running", "committing", "rolling back"}

TxOutcomes == {None, "resolved", "rolled back", "lost", "refused"}
TxTypes ==
  /\ callbacks \in Seq(Callbacks) /\ phase \in TxPhases
  /\ outcome \in Seq(TxOutcomes) /\ Len(outcome) = LastCall
  /\ stages \in Seq(Nat) /\ Len(stages) = LastCall
  /\ branches \in Seq(Seq(TxBranches)) /\ Len(branches) = LastCall
  /\ queue \in Seq(TxStatements)
  /\ connected \in BOOLEAN /\ open \in BOOLEAN
  /\ written \subseteq TxRows /\ committed \subseteq TxRows

\* A call is over when it has an outcome.
PhasesAreRight ==
  /\ active = IF phase \in {"rest", "starting"} THEN 0 ELSE LastCall
  /\ phase # "rest" => LastCall # 0
  /\ \A c \in Calls : outcome[c] = None <=> c = LastCall /\ phase # "rest"
  /\ ~connected => phase = "rest" /\ queue = <<>> /\ \A c \in Calls : branches[c] = <<>>

\* The branches of a call are those of its stage, as far as they may be.
Entered(c) ==
  /\ stages[c] \in DOMAIN callbacks[c]
  /\ DOMAIN branches[c] = DOMAIN callbacks[c][stages[c]]
  /\ \A b \in DOMAIN branches[c] :
        LET branch == branches[c][b] IN
        /\ branch.sent <= callbacks[c][stages[c]][b]
        /\ branch.state = "waiting" => branch.sent # 0
        /\ branch.state = "done" => branch.sent = callbacks[c][stages[c]][b]
BranchesAreRight ==
  /\ \A c \in Calls : branches[c] = <<>> \/ Entered(c)
  /\ \A c \in Calls : c = LastCall =>
        /\ phase = "starting" => branches[c] = <<>>
        /\ phase \in {"running", "committing"} => Entered(c)
        /\ phase = "committing" => stages[c] = Len(callbacks[c]) /\ States(c) \subseteq {"done"}
  /\ \A c \in Calls : /\ outcome[c] \in {"refused", "lost"} => branches[c] = <<>>
                      /\ outcome[c] = "resolved" => States(c) \subseteq {"done"}
\* What goes on behind a call that is not running goes on behind a failure.
BehindAFailure ==
  \A c \in Calls : (c = LastCall /\ phase = "running") \/ "failed" \in States(c) \/ States(c) \subseteq {"done"}

Writes(i) == queue[i].is = "write"
IsLast(i) == \A j \in DOMAIN queue : ~ (i < j)
\* A statement that was asked for is the last one that its branch has sent.
IsSent(row) ==
  /\ row.call \in Calls /\ row.branch \in DOMAIN branches[row.call]
  /\ row.stage = stages[row.call]
  /\ row.number = branches[row.call][row.branch].sent
  /\ branches[row.call][row.branch].state = "waiting"
QueueIsRight ==
  /\ \A i \in DOMAIN queue : Writes(i) => IsSent(queue[i].row)
  /\ \A i, j \in DOMAIN queue : i # j /\ queue[i].is = queue[j].is => Writes(i) /\ queue[i].row # queue[j].row
  /\ \A i \in DOMAIN queue : ~Writes(i) =>
        \/ phase = "starting" /\ queue[i].is = "START" /\ IsLast(i)
        \/ phase = "committing" /\ queue[i].is = "COMMIT" /\ IsLast(i)
        \/ phase = "rolling back" /\ queue[i].is = "ROLLBACK"
  /\ phase \in {"running", "committing", "rolling back"} =>
        \A i \in DOMAIN queue : Writes(i) => queue[i].row.call = LastCall
  /\ phase = "rolling back" => \E i \in DOMAIN queue : queue[i].is = "ROLLBACK"

\* The statements of a call that were answered, as long as none of them has failed.
Reached(c) ==
  {row \in T!Asked(c) :
     \/ row.stage < stages[c]
     \/ /\ row.stage = stages[c]
        /\ \/ row.number < branches[c][row.branch].sent
           \/ row.number = branches[c][row.branch].sent /\ branches[c][row.branch].state # "waiting"}
WrittenIsRight ==
  /\ \A row \in written : row.call = LastCall
  /\ open => phase \in {"running", "committing", "rolling back"}
  /\ ~open => written = {}
  /\ \A c \in Calls : c = LastCall =>
        /\ phase = "running" /\ "failed" \notin States(c) => open /\ written = Reached(c)
        /\ phase = "committing" => open /\ written = T!Asked(c)

\* The rows of a branch that got through.
Through(c, b) == {row \in committed : row.call = c /\ row.branch = b}
IsBefore(b) == \E i, j \in DOMAIN queue : i < j /\ Writes(i) /\ queue[i].row.branch = b /\ queue[j].is = "ROLLBACK"
LastRow(c, b) == T!Row(c, stages[c], b, branches[c][b].sent)
RowBefore(c, b) == T!Row(c, stages[c], b, branches[c][b].sent - 1)
StoredIsRight ==
  /\ \A row \in committed : row.call \in Calls
  /\ \A c \in Calls :
        /\ c = LastCall /\ phase \in {"starting", "running", "committing"} => T!StoredOf(c) = {}
        /\ outcome[c] = "resolved" => T!StoredOf(c) = T!Asked(c)
        /\ outcome[c] = "refused" => T!StoredOf(c) = {}
        /\ T!Serial(c) => T!StoredOf(c) = {} \/ (outcome[c] \in {"resolved", "lost"} /\ T!StoredOf(c) = T!Asked(c))
        /\ outcome[c] = "rolled back" =>
              \A stray \in T!StoredOf(c) :
                 /\ branches[c] # <<>> => stray.branch \in DOMAIN branches[c]
                 /\ \E n \in Nat : Through(c, stray.branch) \subseteq
                       {T!Row(c, stages[c], stray.branch, n), T!Row(c, stages[c], stray.branch, n + 1)}
        /\ outcome[c] = "rolled back" =>
              \A b \in DOMAIN branches[c] :
                 Through(c, b) \subseteq IF branches[c][b].state = "waiting" THEN {RowBefore(c, b)}
                                         ELSE {RowBefore(c, b), LastRow(c, b)}
StraysAreRight ==
  \A c \in Calls : c = LastCall /\ phase = "rolling back" =>
     /\ \A row \in T!StoredOf(c) : row.branch \in DOMAIN branches[c]
     /\ \A b \in DOMAIN branches[c] :
           Through(c, b) \subseteq IF IsBefore(b) THEN {}
                                   ELSE IF branches[c][b].state = "waiting" THEN {RowBefore(c, b)}
                                   ELSE {LastRow(c, b)}

TxInv == /\ TxTypes /\ PhasesAreRight /\ BranchesAreRight /\ BehindAFailure /\ QueueIsRight
         /\ WrittenIsRight /\ StoredIsRight /\ StraysAreRight

-----------------------------------------------------------------------------
LEMMA TxFacts ==
  ASSUME TxTypes
  PROVE  /\ LastCall \in Nat /\ Calls = 1 .. LastCall
         /\ DOMAIN outcome = Calls /\ DOMAIN stages = Calls /\ DOMAIN branches = Calls
         /\ \A c \in Calls : /\ callbacks[c] \in Callbacks /\ outcome[c] \in TxOutcomes /\ stages[c] \in Nat
                             /\ branches[c] \in Seq(TxBranches)
         /\ \A c \in Calls : \A b \in DOMAIN branches[c] : branches[c][b] \in TxBranches
         /\ Len(queue) \in Nat /\ DOMAIN queue = 1 .. Len(queue)
         /\ \A i \in DOMAIN queue : queue[i] \in TxStatements
<1>1. /\ callbacks \in Seq(Callbacks) /\ outcome \in Seq(TxOutcomes) /\ Len(outcome) = Len(callbacks)
      /\ stages \in Seq(Nat) /\ Len(stages) = Len(callbacks)
      /\ branches \in Seq(Seq(TxBranches)) /\ Len(branches) = Len(callbacks)
      /\ queue \in Seq(TxStatements)
  BY DEF TxTypes, LastCall
<1>2. /\ LastCall \in Nat /\ Calls = 1 .. LastCall
      /\ DOMAIN outcome = Calls /\ DOMAIN stages = Calls /\ DOMAIN branches = Calls
  BY <1>1 DEF LastCall, Calls
<1>3. \A c \in Calls : callbacks[c] \in Callbacks /\ outcome[c] \in TxOutcomes /\ stages[c] \in Nat
  BY <1>1, <1>2 DEF LastCall
<1>4. \A c \in Calls : branches[c] \in Seq(TxBranches)
  BY <1>1, <1>2 DEF LastCall
<1>5. \A c \in Calls : \A b \in DOMAIN branches[c] : branches[c][b] \in TxBranches
  BY <1>4
<1>6. Len(queue) \in Nat /\ DOMAIN queue = 1 .. Len(queue) /\ \A i \in DOMAIN queue : queue[i] \in TxStatements
  BY <1>1
<1> QED
  BY <1>2, <1>3, <1>4, <1>5, <1>6

\* What the callback of a call asks of a stage and a branch.
LEMMA CallbackFacts ==
  ASSUME TxTypes, NEW c \in Calls
  PROVE  /\ callbacks[c] \in Seq(Seq(Nat)) /\ Len(callbacks[c]) \in Nat \ {0}
         /\ DOMAIN callbacks[c] = 1 .. Len(callbacks[c])
         /\ \A s \in DOMAIN callbacks[c] : callbacks[c][s] \in Seq(Nat)
         /\ \A s \in DOMAIN callbacks[c] : \A b \in DOMAIN callbacks[c][s] : callbacks[c][s][b] \in Nat
         /\ \A s \in DOMAIN callbacks[c] : DOMAIN callbacks[c][s] \subseteq Nat \ {0}
<1>1. callbacks[c] \in Seq(Seq(Nat)) /\ callbacks[c] # <<>>
  BY TxFacts, PagesAssumption, Zenon DEF T!TransactionsAssumption
<1>2. /\ Len(callbacks[c]) \in Nat \ {0} /\ DOMAIN callbacks[c] = 1 .. Len(callbacks[c])
  BY <1>1
<1>3. \A s \in DOMAIN callbacks[c] : callbacks[c][s] \in Seq(Nat)
  BY <1>1
<1> QED
  BY <1>1, <1>2, <1>3

LEMMA InTheQueue ==
  ASSUME NEW statement \in TxStatements, queue \in Seq(TxStatements), queue' = Append(queue, statement)
  PROVE  /\ queue' \in Seq(TxStatements) /\ Len(queue') = Len(queue) + 1 /\ Len(queue) \in Nat
         /\ DOMAIN queue' = 1 .. Len(queue) + 1 /\ DOMAIN queue = 1 .. Len(queue)
         /\ \A i \in 1 .. Len(queue) : queue'[i] = queue[i]
         /\ queue'[Len(queue) + 1] = statement
<1> DEFINE elements == TxStatements
<1> HIDE DEF elements
<1>1. /\ queue' \in Seq(elements) /\ Len(queue') = Len(queue) + 1
      /\ \A i \in 1 .. Len(queue) : queue'[i] = queue[i]
      /\ queue'[Len(queue) + 1] = statement
  <2>1. queue \in Seq(elements) /\ statement \in elements
    BY DEF elements
  <2> QED
    BY <2>1, AppendProperties, ZenonT(60)
<1> QED
  BY <1>1 DEF elements

\* The place of a statement that was put into the queue.
LEMMA IntoTheQueue ==
  ASSUME TxTypes, NEW statement \in TxStatements, queue' = Append(queue, statement)
  PROVE  /\ queue' \in Seq(TxStatements)
         /\ \E last : /\ DOMAIN queue' = DOMAIN queue \cup {last} /\ last \notin DOMAIN queue
                      /\ queue'[last] = statement /\ \A i \in DOMAIN queue : queue'[i] = queue[i]
                      /\ \A i \in DOMAIN queue : i < last
                      /\ \A i \in DOMAIN queue \cup {last} : ~ (last < i)
<1>1. queue \in Seq(TxStatements)
  BY DEF TxTypes
<1>2. PICK n \in Nat :
        /\ DOMAIN queue = 1 .. n /\ DOMAIN queue' = 1 .. n + 1 /\ queue' \in Seq(TxStatements)
        /\ \A i \in 1 .. n : queue'[i] = queue[i]
        /\ queue'[n + 1] = statement
  BY <1>1, InTheQueue
<1>3. /\ 1 .. n + 1 = (1 .. n) \cup {n + 1} /\ n + 1 \notin 1 .. n
      /\ \A i \in 1 .. n : i < n + 1
      /\ \A i \in (1 .. n) \cup {n + 1} : ~ (n + 1 < i)
  OBVIOUS
<1>4. PICK last : last = n + 1
  OBVIOUS
<1>5. /\ DOMAIN queue' = DOMAIN queue \cup {last} /\ last \notin DOMAIN queue
      /\ queue'[last] = statement /\ \A i \in DOMAIN queue : queue'[i] = queue[i]
  BY <1>2, <1>3, <1>4, Zenon
<1>6. /\ \A i \in DOMAIN queue : i < last
      /\ \A i \in DOMAIN queue \cup {last} : ~ (last < i)
  BY <1>2, <1>3, <1>4, Zenon
<1> QED
  BY <1>2, <1>5, <1>6, Zenon

LEMMA PlacesBefore ==
  ASSUME NEW n \in Nat
  PROVE  \E places :
           /\ \A i \in 1 .. n - 1 : places[i] = i + 1 /\ places[i] \in 1 .. n /\ places[i] # 1 /\ 1 < places[i]
           /\ \A i, j \in 1 .. n - 1 : /\ i # j => places[i] # places[j]
                                       /\ i < j <=> places[i] < places[j]
           /\ \A k \in 1 .. n : k = 1 \/ \E i \in 1 .. n - 1 : places[i] = k
<1> DEFINE places == [i \in 1 .. n - 1 |-> i + 1]
<1>1. \A i \in 1 .. n - 1 : places[i] = i + 1
  OBVIOUS
<1>2. \A i \in 1 .. n - 1 : places[i] \in 1 .. n /\ places[i] # 1 /\ 1 < places[i]
  OBVIOUS
<1>3. \A i, j \in 1 .. n - 1 : /\ i # j => places[i] # places[j]
                               /\ i < j <=> places[i] < places[j]
  OBVIOUS
<1>4. ASSUME NEW k \in 1 .. n, k # 1
      PROVE  \E i \in 1 .. n - 1 : places[i] = k
  <2>1. k - 1 \in 1 .. n - 1 /\ (k - 1) + 1 = k
    BY <1>4
  <2>2. places[k - 1] = k
    BY <1>1, <2>1
  <2> QED
    BY <2>1, <2>2
<1> HIDE DEF places
<1> QED
  BY <1>1, <1>2, <1>3, <1>4

\* The places that the statements had before the first one was answered.
LEMMA OutOfTheQueue ==
  ASSUME TxTypes, queue # <<>>, queue' = Tail(queue)
  PROVE  /\ queue' \in Seq(TxStatements) /\ 1 \in DOMAIN queue /\ Head(queue) = queue[1]
         /\ \E place : /\ \A i \in DOMAIN queue' : place[i] \in DOMAIN queue /\ queue'[i] = queue[place[i]]
                       /\ \A i \in DOMAIN queue' : place[i] # 1 /\ 1 < place[i]
                       /\ \A i, j \in DOMAIN queue' : i # j => place[i] # place[j]
                       /\ \A i, j \in DOMAIN queue' : i < j <=> place[i] < place[j]
                       /\ \A k \in DOMAIN queue : k = 1 \/ \E i \in DOMAIN queue' : place[i] = k
<1>1. queue \in Seq(TxStatements)
  BY DEF TxTypes
<1>2. PICK n \in Nat :
        /\ DOMAIN queue = 1 .. n /\ DOMAIN queue' = 1 .. n - 1 /\ queue' \in Seq(TxStatements) /\ n # 0
        /\ \A i \in 1 .. n - 1 : queue'[i] = queue[i + 1]
        /\ Head(queue) = queue[1]
  <2> DEFINE elements == TxStatements
  <2>1. queue \in Seq(elements)
    BY <1>1
  <2> HIDE DEF elements
  <2> QED
    BY <2>1 DEF elements
<1>3. PICK places :
        /\ \A i \in 1 .. n - 1 : places[i] = i + 1 /\ places[i] \in 1 .. n /\ places[i] # 1 /\ 1 < places[i]
        /\ \A i, j \in 1 .. n - 1 : /\ i # j => places[i] # places[j]
                                    /\ i < j <=> places[i] < places[j]
        /\ \A k \in 1 .. n : k = 1 \/ \E i \in 1 .. n - 1 : places[i] = k
  BY <1>2, PlacesBefore
<1>4. \A i \in 1 .. n - 1 : queue'[i] = queue[places[i]]
  BY <1>2, <1>3
<1>5. 1 \in 1 .. n
  BY <1>2
<1>6. DOMAIN queue = 1 .. n /\ DOMAIN queue' = 1 .. n - 1
  BY <1>2
<1>7. /\ \A i \in DOMAIN queue' : places[i] \in DOMAIN queue /\ queue'[i] = queue[places[i]]
      /\ \A i \in DOMAIN queue' : places[i] # 1 /\ 1 < places[i]
      /\ \A i, j \in DOMAIN queue' : i # j => places[i] # places[j]
      /\ \A i, j \in DOMAIN queue' : i < j <=> places[i] < places[j]
      /\ \A k \in DOMAIN queue : k = 1 \/ \E i \in DOMAIN queue' : places[i] = k
  BY <1>3, <1>4, <1>6
<1>8. queue' \in Seq(TxStatements) /\ 1 \in DOMAIN queue /\ Head(queue) = queue[1]
  BY <1>2, <1>5, Zenon
<1> HIDE <1>2, <1>3, <1>4, <1>5, <1>6
<1> QED
  BY <1>7, <1>8, ZenonT(60)

\* One branch of a call moves on.
OneMoves(c, b, branch) == branches' = [branches EXCEPT ![c] = [branches[c] EXCEPT ![b] = branch]]
LEMMA OneBranch ==
  ASSUME TxTypes, NEW c \in Calls, NEW b \in DOMAIN branches[c], NEW branch \in TxBranches,
         OneMoves(c, b, branch)
  PROVE  /\ branches' \in Seq(Seq(TxBranches)) /\ Len(branches') = LastCall
         /\ DOMAIN branches'[c] = DOMAIN branches[c] /\ branches'[c][b] = branch
         /\ \A d \in Calls : d # c => branches'[d] = branches[d]
         /\ \A e \in DOMAIN branches[c] : e # b => branches'[c][e] = branches[c][e]
<1> DEFINE changed == [branches[c] EXCEPT ![b] = branch]
<1>1. branches[c] \in Seq(TxBranches) /\ branches \in Seq(Seq(TxBranches)) /\ Len(branches) = LastCall
      /\ c \in 1 .. Len(branches)
  BY TxFacts DEF TxTypes
<1>2. /\ changed \in Seq(TxBranches) /\ DOMAIN changed = DOMAIN branches[c] /\ changed[b] = branch
      /\ \A e \in DOMAIN branches[c] : e # b => changed[e] = branches[c][e]
  BY <1>1
<1>3. branches' = [branches EXCEPT ![c] = changed]
  BY DEF OneMoves
<1> HIDE DEF changed
<1>4. branches' \in Seq(Seq(TxBranches)) /\ Len(branches') = LastCall
  <2> DEFINE lists == Seq(TxBranches)
  <2>1. branches \in Seq(lists) /\ changed \in lists
    BY <1>1, <1>2
  <2> HIDE DEF lists
  <2>2. [branches EXCEPT ![c] = changed] \in Seq(lists) /\ Len([branches EXCEPT ![c] = changed]) = Len(branches)
    <3>1. c \in 1 .. Len(branches)
      BY <1>1
    <3> QED
      BY <2>1, <3>1
  <2> QED
    BY <1>1, <1>3, <2>2 DEF lists
<1>5. branches'[c] = changed /\ \A d \in Calls : d # c => branches'[d] = branches[d]
  BY <1>1, <1>3, TxFacts
<1> QED
  BY <1>2, <1>4, <1>5

LEMMA TxInit == T!Init => TxInv
<1> SUFFICES ASSUME T!Init
             PROVE  TxInv
  OBVIOUS
<1>1. /\ callbacks = <<>> /\ phase = "rest" /\ outcome = <<>> /\ stages = <<>> /\ branches = <<>> /\ active = 0
      /\ queue = <<>> /\ connected = TRUE /\ open = FALSE /\ written = {} /\ committed = {}
  BY DEF T!Init
<1>2. TxTypes
  <2>1. LastCall = 0 /\ Len(outcome) = 0 /\ Len(stages) = 0 /\ Len(branches) = 0
    BY <1>1 DEF LastCall
  <2>2. callbacks \in Seq(Callbacks) /\ outcome \in Seq(TxOutcomes) /\ stages \in Seq(Nat)
    BY <1>1
  <2>3. branches \in Seq(Seq(TxBranches)) /\ queue \in Seq(TxStatements)
    BY <1>1, EmptySeq
  <2> QED
    BY <1>1, <2>1, <2>2, <2>3 DEF TxTypes, TxPhases
<1>3. LastCall = 0 /\ Calls = {}
  BY <1>1 DEF LastCall, Calls
<1>4. PhasesAreRight /\ BranchesAreRight /\ BehindAFailure
  BY <1>1, <1>3 DEF PhasesAreRight, BranchesAreRight, BehindAFailure
<1>5. QueueIsRight /\ WrittenIsRight /\ StraysAreRight
  BY <1>1, <1>3 DEF QueueIsRight, WrittenIsRight, StraysAreRight
<1>6. StoredIsRight
  BY <1>1, <1>3 DEF StoredIsRight
<1> QED
  BY <1>2, <1>4, <1>5, <1>6 DEF TxInv


-----------------------------------------------------------------------------
(* The steps.                                                              *)

\* The branches of a call, when one of them moves on that has not ended.
LEMMA BranchesGoOn ==
  ASSUME TxInv, NEW c \in Calls, NEW b \in DOMAIN branches[c], NEW branch \in TxBranches,
         OneMoves(c, b, branch),
         branches[c][b].state \in {"ready", "waiting"},
         branch.sent <= callbacks[c][stages[c]][b], branch.state = "waiting" => branch.sent # 0,
         branch.state = "done" => branch.sent = callbacks[c][stages[c]][b],
         UNCHANGED <<callbacks, phase, outcome, stages, active, connected>>
  PROVE  /\ PhasesAreRight' /\ BranchesAreRight' /\ BehindAFailure' /\ connected
         /\ c = LastCall => phase \in {"running", "rolling back", "rest"}
         /\ (c = LastCall /\ phase = "running") \/
               (\E e \in DOMAIN branches[c] : e # b /\ branches[c][e].state = "failed" /\ branches'[c][e] = branches[c][e])
<1>1. TxTypes /\ PhasesAreRight /\ BranchesAreRight /\ BehindAFailure
  BY DEF TxInv
<1>2. /\ DOMAIN branches'[c] = DOMAIN branches[c] /\ branches'[c][b] = branch
      /\ \A d \in Calls : d # c => branches'[d] = branches[d]
      /\ \A e \in DOMAIN branches[c] : e # b => branches'[c][e] = branches[c][e]
  BY <1>1, OneBranch
<1>3. LastCall' = LastCall /\ Calls' = Calls
  BY DEF LastCall, Calls
<1>4. branches[c] # <<>> /\ ~ (States(c) \subseteq {"done"})
  BY DEF States
<1>5. connected
  BY <1>1, <1>4 DEF PhasesAreRight, TxTypes
<1>6. PhasesAreRight'
  BY <1>1, <1>3, <1>5 DEF PhasesAreRight
<1>7. Entered(c)
  BY <1>1, <1>4 DEF BranchesAreRight
<1>8. Entered(c)'
  <2>1. \A e \in DOMAIN branches'[c] :
          /\ branches'[c][e].sent <= callbacks[c][stages[c]][e]
          /\ branches'[c][e].state = "waiting" => branches'[c][e].sent # 0
          /\ branches'[c][e].state = "done" => branches'[c][e].sent = callbacks[c][stages[c]][e]
    BY <1>2, <1>7 DEF Entered
  <2> QED
    BY <1>2, <1>7, <2>1 DEF Entered
<1>9. \A d \in Calls : d # c => (Entered(d)' <=> Entered(d)) /\ States(d)' = States(d)
  BY <1>2 DEF Entered, States
<1>10. /\ outcome[c] \notin {"refused", "lost", "resolved"}
       /\ c = LastCall => phase \notin {"starting", "committing"}
  BY <1>1, <1>4 DEF BranchesAreRight
<1>11. branches'[c] # <<>>
  BY <1>2
<1>12. BranchesAreRight'
  <2>3. \A d \in Calls : branches'[d] = <<>> \/ Entered(d)'
    BY <1>1, <1>2, <1>8, <1>9 DEF BranchesAreRight
  <2>4. ASSUME NEW d \in Calls, d = LastCall
        PROVE  /\ phase = "starting" => branches'[d] = <<>>
               /\ phase \in {"running", "committing"} => Entered(d)'
               /\ phase = "committing" => stages[d] = Len(callbacks[d]) /\ States(d)' \subseteq {"done"}
    BY <1>1, <1>2, <1>8, <1>9, <1>10, <2>4 DEF BranchesAreRight
  <2>7. \A d \in Calls : /\ outcome[d] \in {"refused", "lost"} => branches'[d] = <<>>
                         /\ outcome[d] = "resolved" => States(d)' \subseteq {"done"}
    BY <1>1, <1>2, <1>9, <1>10 DEF BranchesAreRight
  <2> QED
    BY <1>3, <2>3, <2>4, <2>7 DEF BranchesAreRight
<1>13. c = LastCall => phase \in {"running", "rolling back", "rest"}
  BY <1>1, <1>10, Zenon DEF TxTypes, TxPhases
<1>14. CASE c = LastCall /\ phase = "running"
  <2>1. BehindAFailure'
    BY <1>1, <1>3, <1>9, <1>14 DEF BehindAFailure
  <2> QED
    BY <1>5, <1>6, <1>12, <1>14, <2>1
<1>15. CASE ~ (c = LastCall /\ phase = "running")
  <2>1. PICK e \in DOMAIN branches[c] : branches[c][e].state = "failed"
    BY <1>1, <1>4, <1>15 DEF BehindAFailure, States
  <2>2. e # b /\ branches'[c][e] = branches[c][e] /\ "failed" \in States(c)'
    BY <1>2, <2>1 DEF States
  <2>3. BehindAFailure'
    BY <1>1, <1>3, <1>9, <2>2 DEF BehindAFailure
  <2> QED
    BY <1>5, <1>6, <1>12, <1>13, <2>1, <2>2, <2>3, Zenon
<1> QED
  BY <1>14, <1>15, Zenon

LEMMA OneLess == \A n \in Nat : (n + 1) - 1 = n
OBVIOUS

LEMMA LastIsACall ==
  ASSUME TxTypes, PhasesAreRight, phase # "rest"
  PROVE  LastCall \in Calls
<1>1. PICK n \in Nat : n = LastCall /\ Calls = 1 .. n /\ n # 0
  BY TxFacts DEF PhasesAreRight
<1>2. n \in 1 .. n
  BY <1>1
<1> QED
  BY <1>1, <1>2

LEMMA HasBranches ==
  ASSUME TxTypes, NEW c \in Calls, NEW b \in DOMAIN branches[c]
  PROVE  branches[c] # <<>> /\ b \in Nat /\ branches[c][b] \in TxBranches
<1>1. branches[c] \in Seq(TxBranches)
  BY TxFacts
<1>2. branches[c] # <<>>
  BY DEF States
<1> QED
  BY <1>1, <1>2

\* What a callback asks for is known from its stages.
LEMMA WhatIsAsked ==
  ASSUME TxTypes, NEW c \in Calls
  PROVE  \A row : row \in T!Asked(c) <=>
           /\ row \in TxRows /\ row.call = c
           /\ row.stage \in DOMAIN callbacks[c] /\ row.branch \in DOMAIN callbacks[c][row.stage]
           /\ 1 <= row.number /\ row.number <= callbacks[c][row.stage][row.branch]
<1>1. /\ DOMAIN callbacks[c] \subseteq Nat /\ c \in Nat
      /\ \A s \in DOMAIN callbacks[c] : DOMAIN callbacks[c][s] \subseteq Nat
      /\ \A s \in DOMAIN callbacks[c] : \A b \in DOMAIN callbacks[c][s] : callbacks[c][s][b] \in Nat
  BY TxFacts, CallbackFacts
<1>2. ASSUME NEW row \in T!Asked(c)
      PROVE  /\ row \in TxRows /\ row.call = c
             /\ row.stage \in DOMAIN callbacks[c] /\ row.branch \in DOMAIN callbacks[c][row.stage]
             /\ 1 <= row.number /\ row.number <= callbacks[c][row.stage][row.branch]
  <2>1. PICK s \in DOMAIN callbacks[c] : \E b \in DOMAIN callbacks[c][s] : \E n \in 1 .. callbacks[c][s][b] :
          row = [call |-> c, stage |-> s, branch |-> b, number |-> n]
    BY <1>2 DEF T!Asked, T!Row
  <2>3. PICK b \in DOMAIN callbacks[c][s] : \E n \in 1 .. callbacks[c][s][b] :
          row = [call |-> c, stage |-> s, branch |-> b, number |-> n]
    BY <2>1
  <2>4. PICK n \in 1 .. callbacks[c][s][b] : row = [call |-> c, stage |-> s, branch |-> b, number |-> n]
    BY <2>3
  <2>2. s \in Nat /\ b \in Nat /\ n \in Nat /\ 1 <= n /\ n <= callbacks[c][s][b]
    BY <1>1, <2>1, <2>3, <2>4
  <2> QED
    BY <1>1, <2>2, <2>4 DEF TxRows
<1>3. ASSUME NEW row \in TxRows, row.call = c,
             row.stage \in DOMAIN callbacks[c], row.branch \in DOMAIN callbacks[c][row.stage],
             1 <= row.number, row.number <= callbacks[c][row.stage][row.branch]
      PROVE  row \in T!Asked(c)
  <2>1. /\ row.number \in 1 .. callbacks[c][row.stage][row.branch]
        /\ row = [call |-> c, stage |-> row.stage, branch |-> row.branch, number |-> row.number]
    BY <1>1, <1>3 DEF TxRows
  <2>2. row \in {T!Row(c, row.stage, row.branch, n) : n \in 1 .. callbacks[c][row.stage][row.branch]}
    BY <2>1 DEF T!Row
  <2> QED
    BY <1>3, <2>2 DEF T!Asked
<1> QED
  BY <1>2, <1>3

\* What depends on the callbacks alone.
LEMMA SameCallbacks ==
  ASSUME UNCHANGED callbacks
  PROVE  /\ Calls' = Calls /\ LastCall' = LastCall
         /\ \A c : T!Asked(c)' = T!Asked(c) /\ T!Serial(c)' = T!Serial(c)
BY DEF Calls, LastCall, T!Asked, T!Serial

\* What is stored of a call that was rolled back, when one of its branches moves on.
LEMMA StoredStays ==
  ASSUME TxInv, NEW c \in Calls, NEW b \in DOMAIN branches[c], NEW branch \in TxBranches, OneMoves(c, b, branch),
         UNCHANGED <<callbacks, phase, outcome, stages, committed>>,
         outcome[c] = "rolled back" => branch.sent = branches[c][b].sent /\ branch.state # "waiting"
  PROVE  StoredIsRight'
<1>1. TxTypes /\ StoredIsRight
  BY Zenon DEF TxInv
<1>2. /\ DOMAIN branches'[c] = DOMAIN branches[c] /\ branches'[c][b] = branch
      /\ \A d \in Calls : d # c => branches'[d] = branches[d]
      /\ \A e \in DOMAIN branches[c] : e # b => branches'[c][e] = branches[c][e]
  BY <1>1, OneBranch, Zenon
<1>3. /\ Calls' = Calls /\ LastCall' = LastCall
      /\ \A d : T!Asked(d)' = T!Asked(d) /\ T!Serial(d)' = T!Serial(d)
  BY SameCallbacks, Zenon
<1>4. \A d : T!StoredOf(d)' = T!StoredOf(d) /\ \A e : Through(d, e)' = Through(d, e)
  BY Zenon DEF T!StoredOf, Through
<1>5. \A d \in Calls : DOMAIN branches'[d] = DOMAIN branches[d] /\ (branches'[d] # <<>> => branches[d] # <<>>)
  <2>1. branches[c] # <<>>
    BY <1>1, HasBranches, Zenon
  <2> QED
    BY <1>2, <2>1, Zenon
<1>6. ASSUME NEW d \in Calls, outcome[d] = "rolled back", NEW e \in DOMAIN branches[d]
      PROVE  Through(d, e) \subseteq IF branches'[d][e].state = "waiting" THEN {RowBefore(d, e)'}
                                     ELSE {RowBefore(d, e)', LastRow(d, e)'}
  <2>1. Through(d, e) \subseteq IF branches[d][e].state = "waiting" THEN {RowBefore(d, e)}
                                ELSE {RowBefore(d, e), LastRow(d, e)}
    BY <1>1, <1>6, Zenon DEF StoredIsRight
  <2>2. branches'[d][e].sent = branches[d][e].sent
    BY <1>2, <1>6, Zenon
  <2>3. RowBefore(d, e)' = RowBefore(d, e) /\ LastRow(d, e)' = LastRow(d, e)
    BY <2>2, Zenon DEF RowBefore, LastRow, T!Row
  <2>4. branches'[d][e].state = "waiting" => branches[d][e].state = "waiting"
    BY <1>2, <1>6, Zenon
  <2> QED
    BY <2>1, <2>3, <2>4, Zenon
<1>7. ASSUME NEW d \in Calls, outcome[d] = "rolled back", NEW stray \in T!StoredOf(d)
      PROVE  /\ branches'[d] # <<>> => stray.branch \in DOMAIN branches'[d]
             /\ \E n \in Nat : Through(d, stray.branch) \subseteq
                   {T!Row(d, stages[d], stray.branch, n), T!Row(d, stages[d], stray.branch, n + 1)}
  BY <1>1, <1>5, <1>7, Zenon DEF StoredIsRight
<1>8. \A d \in Calls :
        /\ outcome[d] = "resolved" => T!StoredOf(d) = T!Asked(d)
        /\ outcome[d] = "refused" => T!StoredOf(d) = {}
        /\ T!Serial(d) => T!StoredOf(d) = {} \/ (outcome[d] \in {"resolved", "lost"} /\ T!StoredOf(d) = T!Asked(d))
  BY <1>1, Zenon DEF StoredIsRight
<1>9. /\ \A row \in committed : row.call \in Calls
      /\ \A d \in Calls : d = LastCall /\ phase \in {"starting", "running", "committing"} => T!StoredOf(d) = {}
  BY <1>1, Zenon DEF StoredIsRight
<1> QED
  BY <1>3, <1>4, <1>5, <1>6, <1>7, <1>8, <1>9, Zenon DEF StoredIsRight, T!Row

\* Nothing gets before a ROLLBACK any more.
LEMMA BehindTheRollback ==
  ASSUME TxTypes,
         \/ queue # <<>> /\ queue' = Tail(queue)
         \/ \E statement \in TxStatements : statement.is = "write" /\ queue' = Append(queue, statement)
         \/ queue' = queue
  PROVE  \A b : IsBefore(b)' => IsBefore(b)
<1>2. CASE queue # <<>> /\ queue' = Tail(queue)
  <2>1. PICK place : /\ \A i \in DOMAIN queue' : place[i] \in DOMAIN queue /\ queue'[i] = queue[place[i]]
                     /\ \A i, j \in DOMAIN queue' : i < j <=> place[i] < place[j]
    BY <1>2, OutOfTheQueue
  <2> QED
    BY <2>1 DEF IsBefore, Writes
<1>3. ASSUME NEW statement \in TxStatements, statement.is = "write", queue' = Append(queue, statement)
      PROVE  \A b : IsBefore(b)' => IsBefore(b)
  <2>1. PICK last : /\ DOMAIN queue' = DOMAIN queue \cup {last}
                    /\ queue'[last] = statement /\ \A i \in DOMAIN queue : queue'[i] = queue[i]
                    /\ \A i \in DOMAIN queue \cup {last} : ~ (last < i)
    BY <1>3, IntoTheQueue
  <2> QED
    BY <1>3, <2>1 DEF IsBefore, Writes
<1>4. CASE queue' = queue
  BY <1>4 DEF IsBefore, Writes
<1> QED
  BY <1>2, <1>3, <1>4

\* A branch that does not wait sends another statement, or ends.
GoesOn(before, after) ==
  /\ before.state # "waiting"
  /\ IF after.state = "waiting" THEN after.sent = before.sent + 1 ELSE after.sent = before.sent

\* What got past a ROLLBACK that was not answered yet, when a branch moves on.
LEMMA StraysStay ==
  ASSUME TxInv, NEW c \in Calls, NEW b \in DOMAIN branches[c], NEW branch \in TxBranches, OneMoves(c, b, branch),
         UNCHANGED <<callbacks, phase, stages, committed>>, \A e : IsBefore(e)' => IsBefore(e),
         c = LastCall /\ phase = "rolling back" =>
            IsBefore(b) \/ GoesOn(branches[c][b], branch)
  PROVE  StraysAreRight'
<1> SUFFICES ASSUME NEW last \in Calls, last = LastCall, phase = "rolling back"
             PROVE  /\ \A row \in T!StoredOf(last)' : row.branch \in DOMAIN branches'[last]
                    /\ \A e \in DOMAIN branches'[last] :
                          Through(last, e)' \subseteq IF IsBefore(e)' THEN {}
                                                      ELSE IF branches'[last][e].state = "waiting" THEN {RowBefore(last, e)'}
                                                      ELSE {LastRow(last, e)'}
  BY SameCallbacks, Zenon DEF StraysAreRight
<1>1. TxTypes /\ StraysAreRight /\ PhasesAreRight
  BY Zenon DEF TxInv
<1>2. /\ DOMAIN branches'[c] = DOMAIN branches[c] /\ branches'[c][b] = branch
      /\ \A d \in Calls : d # c => branches'[d] = branches[d]
      /\ \A e \in DOMAIN branches[c] : e # b => branches'[c][e] = branches[c][e]
  BY <1>1, OneBranch, ZenonT(60)
<1>4. last \in Calls /\ last = LastCall
  BY Zenon
<1>5. DOMAIN branches'[last] = DOMAIN branches[last]
  BY <1>2, <1>4, Zenon
<1>6. T!StoredOf(last)' = T!StoredOf(last) /\ \A e : Through(last, e)' = Through(last, e)
  BY Zenon DEF T!StoredOf, Through
<1>7. /\ \A row \in T!StoredOf(last) : row.branch \in DOMAIN branches[last]
      /\ \A e \in DOMAIN branches[last] :
            Through(last, e) \subseteq IF IsBefore(e) THEN {}
                                       ELSE IF branches[last][e].state = "waiting" THEN {RowBefore(last, e)}
                                       ELSE {LastRow(last, e)}
  BY <1>1, <1>4, Zenon DEF StraysAreRight
<1>8. ASSUME NEW e \in DOMAIN branches[last]
      PROVE  Through(last, e) \subseteq IF IsBefore(e)' THEN {}
                                        ELSE IF branches'[last][e].state = "waiting" THEN {RowBefore(last, e)'}
                                        ELSE {LastRow(last, e)'}
  <2>1. CASE last # c \/ e # b
    <3>1. branches'[last][e] = branches[last][e]
      BY <1>2, <1>4, <2>1, Zenon
    <3>2. RowBefore(last, e)' = RowBefore(last, e) /\ LastRow(last, e)' = LastRow(last, e)
      BY <3>1, Zenon DEF RowBefore, LastRow, T!Row
    <3> QED
      BY <1>7, <3>1, <3>2, Zenon
  <2>2. CASE last = c /\ e = b /\ IsBefore(b)
    BY <1>7, <2>2, Zenon
  <2>3. CASE last = c /\ e = b /\ ~IsBefore(b)
    <3>1. Through(last, e) \subseteq {LastRow(last, e)} /\ ~IsBefore(b)'
      BY <1>4, <1>7, <2>3, Zenon DEF GoesOn
    <3>5. GoesOn(branches[c][b], branch)
      BY <1>4, <2>3, Zenon
    <3>2. branches'[last][e] = branch
      BY <1>2, <2>3, Zenon
    <3>3. CASE branch.state = "waiting"
      <4>1. branches[c][b].sent \in Nat
        BY <1>1, TxFacts, Zenon DEF TxBranches
      <4>4. PICK n \in Nat : n = branches[c][b].sent /\ branch.sent = n + 1
        BY <3>3, <3>5, <4>1, Zenon DEF GoesOn
      <4>5. (n + 1) - 1 = n
        BY OneLess, Zenon
      <4>2. branch.sent - 1 = branches[c][b].sent
        BY <4>4, <4>5, Zenon
      <4>3. RowBefore(last, e)' = LastRow(last, e)
        BY <2>3, <3>2, <4>2, Zenon DEF RowBefore, LastRow, T!Row
      <4> QED
        BY <2>3, <3>1, <3>2, <3>3, <4>3, Zenon
    <3>4. CASE branch.state # "waiting"
      <4>1. branch.sent = branches[c][b].sent
        BY <3>4, <3>5, Zenon DEF GoesOn
      <4>2. LastRow(last, e)' = LastRow(last, e)
        BY <2>3, <3>2, <4>1, Zenon DEF LastRow, T!Row
      <4> QED
        BY <2>3, <3>1, <3>2, <3>4, <4>2, Zenon
    <3> QED
      BY <3>3, <3>4, Zenon
  <2> QED
    BY <2>1, <2>2, <2>3, Zenon
<1> QED
  BY <1>5, <1>6, <1>7, <1>8, ZenonT(60)

IsPut(statement) == queue' = Append(queue, statement)

LEMMA QueueGrows ==
  ASSUME TxInv, NEW c \in Calls, NEW b \in DOMAIN branches[c], NEW branch \in TxBranches, OneMoves(c, b, branch),
         branches[c][b].state # "waiting", branch.state = "waiting", c = LastCall, phase \in {"running", "rolling back"},
         NEW row \in TxRows, row = T!Row(c, stages[c], b, branch.sent),
         IsPut([is |-> "write", row |-> row]),
         UNCHANGED <<callbacks, phase, stages>>
  PROVE  QueueIsRight'
<1> DEFINE statement == [is |-> "write", row |-> row]
<1>1. TxTypes /\ QueueIsRight
  BY Zenon DEF TxInv
<1>2. /\ DOMAIN branches'[c] = DOMAIN branches[c] /\ branches'[c][b] = branch
      /\ \A d \in Calls : d # c => branches'[d] = branches[d]
      /\ \A e \in DOMAIN branches[c] : e # b => branches'[c][e] = branches[c][e]
  BY <1>1, OneBranch, Zenon
<1>3. Calls' = Calls /\ LastCall' = LastCall
  BY SameCallbacks, Zenon
<1>4. statement \in TxStatements /\ statement.is = "write" /\ statement.row = row
  BY Zenon DEF TxStatements
<1> HIDE DEF statement
<1>5. PICK last : /\ DOMAIN queue' = DOMAIN queue \cup {last} /\ last \notin DOMAIN queue
                  /\ queue'[last] = statement /\ \A i \in DOMAIN queue : queue'[i] = queue[i]
  BY <1>1, <1>4, IntoTheQueue, Zenon DEF statement, IsPut
<1>6. \A i \in DOMAIN queue' : i = last \/ (i \in DOMAIN queue /\ queue'[i] = queue[i])
  BY <1>5, Zenon
<1>7. last \notin DOMAIN queue /\ DOMAIN queue \subseteq DOMAIN queue' /\ last \in DOMAIN queue'
  BY <1>5, Zenon
<1>8. row.call = c /\ row.branch = b /\ row.stage = stages[c] /\ row.number = branch.sent
  BY Zenon DEF T!Row
<1>17. /\ \A i \in DOMAIN queue : queue[i].is = "write" => IsSent(queue[i].row) /\ queue[i].row.call = LastCall
       /\ \A i, j \in DOMAIN queue : i # j /\ queue[i].is = queue[j].is
                                       => queue[i].is = "write" /\ queue[i].row # queue[j].row
       /\ \A i \in DOMAIN queue : queue[i].is # "write" => phase = "rolling back" /\ queue[i].is = "ROLLBACK"
  BY <1>1, Zenon DEF QueueIsRight, Writes
<1>9. \A i \in DOMAIN queue : Writes(i) => queue[i].row.call # c \/ queue[i].row.branch # b
  BY <1>1, Zenon DEF QueueIsRight, IsSent
<1>10. ASSUME NEW r, IsSent(r), r.call # c \/ r.branch # b
       PROVE  IsSent(r)'
  <2>1. /\ r.call \in Calls /\ r.branch \in DOMAIN branches[r.call] /\ r.stage = stages[r.call]
        /\ r.number = branches[r.call][r.branch].sent /\ branches[r.call][r.branch].state = "waiting"
    BY <1>10, Zenon DEF IsSent
  <2>2. branches'[r.call][r.branch] = branches[r.call][r.branch] /\ r.branch \in DOMAIN branches'[r.call]
    BY <1>2, <1>10, <2>1, Zenon
  <2> QED
    BY <1>3, <2>1, <2>2, Zenon DEF IsSent
<1>11. IsSent(row)'
  BY <1>2, <1>3, <1>8, Zenon DEF IsSent
<1>12. \A i \in DOMAIN queue' : queue'[i].is = "write" => \E r : r = queue'[i].row /\ IsSent(r)'
  <2>1. ASSUME NEW i \in DOMAIN queue', queue'[i].is = "write"
        PROVE  \E r : r = queue'[i].row /\ IsSent(r)'
    <3>1. CASE i = last
      BY <1>4, <1>5, <1>11, <3>1, Zenon
    <3>2. CASE i # last
      <4>1. i \in DOMAIN queue /\ queue'[i] = queue[i] /\ Writes(i)
        BY <1>6, <2>1, <3>2, Zenon DEF Writes
      <4>2. PICK r : r = queue[i].row
        BY Zenon
      <4>3. IsSent(r) /\ (r.call # c \/ r.branch # b)
        BY <1>9, <1>17, <4>1, <4>2, Zenon DEF Writes
      <4> QED
        BY <1>10, <4>1, <4>2, <4>3, Zenon
    <3> QED
      BY <3>1, <3>2, Zenon
  <2> QED
    BY <2>1, Zenon
<1>13. ASSUME NEW i \in DOMAIN queue', NEW j \in DOMAIN queue', i # j, queue'[i].is = queue'[j].is
       PROVE  queue'[i].is = "write" /\ queue'[i].row # queue'[j].row
  <2>1. CASE i = last
    BY <1>4, <1>5, <1>6, <1>8, <1>9, <1>13, <2>1, Zenon DEF Writes
  <2>2. CASE j = last
    <3>1. i \in DOMAIN queue /\ queue'[i] = queue[i] /\ queue'[j] = statement
      BY <1>5, <1>6, <1>13, <2>2, Zenon
    <3>2. queue[i].is = "write" /\ queue'[j].row = row
      BY <1>4, <1>13, <3>1, Zenon
    <3>3. queue[i].row # row
      BY <1>8, <1>9, <3>1, <3>2, Zenon DEF Writes
    <3> QED
      BY <3>1, <3>2, <3>3, Zenon
  <2>3. CASE i # last /\ j # last
    <3>1. i \in DOMAIN queue /\ queue'[i] = queue[i] /\ j \in DOMAIN queue /\ queue'[j] = queue[j]
      BY <1>6, <1>13, <2>3, Zenon
    <3>2. queue[i].is = "write" /\ queue[i].row # queue[j].row
      BY <1>13, <1>17, <3>1, Zenon
    <3> QED
      BY <3>1, <3>2, Zenon
  <2> QED
    BY <2>1, <2>2, <2>3, Zenon
<1>14. \A i \in DOMAIN queue' : queue'[i].is # "write" => phase = "rolling back" /\ queue'[i].is = "ROLLBACK"
  BY <1>4, <1>5, <1>6, <1>17, Zenon
<1>15. \A i \in DOMAIN queue' : queue'[i].is = "write" => queue'[i].row.call = LastCall
  BY <1>4, <1>5, <1>6, <1>8, <1>17, Zenon
<1>16. phase = "rolling back" => \E i \in DOMAIN queue' : queue'[i].is = "ROLLBACK"
  BY <1>1, <1>5, <1>7, Zenon DEF QueueIsRight
<1>18. (\A i \in DOMAIN queue : Writes(i) => IsSent(queue[i].row))'
  <2> SUFFICES ASSUME NEW i \in DOMAIN queue', queue'[i].is = "write"
               PROVE  IsSent(queue[i].row)'
    BY Zenon DEF Writes
  <2>1. PICK r : r = queue'[i].row /\ IsSent(r)'
    BY <1>12, Zenon
  <2> QED
    BY <2>1, Zenon DEF IsSent
<1>19. (\A i, j \in DOMAIN queue : i # j /\ queue[i].is = queue[j].is => Writes(i) /\ queue[i].row # queue[j].row)'
  BY <1>13, Zenon DEF Writes
<1>20. (\A i \in DOMAIN queue : ~Writes(i) => phase = "rolling back" /\ queue[i].is = "ROLLBACK")'
  BY <1>14, Zenon DEF Writes
<1>21. (\A i \in DOMAIN queue : Writes(i) => queue[i].row.call = LastCall)'
  BY <1>3, <1>15, Zenon DEF Writes
<1> QED
  BY <1>16, <1>18, <1>19, <1>20, <1>21, Zenon DEF QueueIsRight

\* What a call has reached is not changed by what it asks for.
LEMMA ReachedStays ==
  ASSUME TxTypes, BranchesAreRight, NEW c \in Calls, NEW b \in DOMAIN branches[c], NEW branch \in TxBranches, OneMoves(c, b, branch),
         UNCHANGED <<callbacks, stages>>, GoesOn(branches[c][b], branch)
  PROVE  Reached(c)' = Reached(c)
<1> DEFINE before == branches[c][b]
<1>1. /\ DOMAIN branches'[c] = DOMAIN branches[c] /\ branches'[c][b] = branch
      /\ \A e \in DOMAIN branches[c] : e # b => branches'[c][e] = branches[c][e]
  BY OneBranch
<1>2. before.sent \in Nat /\ branch.sent \in Nat
  BY TxFacts DEF TxBranches
<1>3. \A row : row \in T!Asked(c) => row.number \in Nat
  BY WhatIsAsked DEF TxRows
<1> HIDE DEF before
<1>4. before.state # "waiting" /\ (IF branch.state = "waiting" THEN branch.sent = before.sent + 1
                                   ELSE branch.sent = before.sent)
  BY DEF GoesOn, before
<1>5. \A n \in Nat : (n < before.sent \/ n = before.sent)
                       <=> (n < branch.sent \/ (n = branch.sent /\ branch.state # "waiting"))
  BY <1>2, <1>4
<1>6. T!Asked(c)' = T!Asked(c)
  BY SameCallbacks
<1>7. Entered(c)
  BY HasBranches DEF BranchesAreRight
<1>8. ASSUME NEW row \in T!Asked(c), row.stage = stages[c]
      PROVE  (\/ row.number < branches[c][row.branch].sent
              \/ row.number = branches[c][row.branch].sent /\ branches[c][row.branch].state # "waiting")
             <=>
             (\/ row.number < branches'[c][row.branch].sent
              \/ row.number = branches'[c][row.branch].sent /\ branches'[c][row.branch].state # "waiting")
  <2>1. row.branch \in DOMAIN branches[c]
    BY <1>7, <1>8, WhatIsAsked DEF Entered
  <2>2. CASE row.branch = b
    <3>1. branches[c][row.branch] = before /\ branches'[c][row.branch] = branch /\ before.state # "waiting"
      BY <1>1, <1>4, <2>2 DEF before
    <3>2. row.number \in Nat
      BY <1>3
    <3> QED
      BY <1>5, <3>1, <3>2, Zenon
  <2>3. CASE row.branch # b
    BY <1>1, <2>1, <2>3
  <2> QED
    BY <2>2, <2>3
<1> QED
  BY <1>6, <1>8 DEF Reached

\* What is written in the open transaction, when a branch that did not fail asks or ends.
LEMMA WrittenStays ==
  ASSUME TxInv, NEW c \in Calls, NEW b \in DOMAIN branches[c], NEW branch \in TxBranches, OneMoves(c, b, branch),
         GoesOn(branches[c][b], branch), branches[c][b].state # "failed",
         UNCHANGED <<callbacks, phase, stages, open, written>>
  PROVE  WrittenIsRight'
<1>1. TxTypes /\ BranchesAreRight /\ WrittenIsRight
  BY DEF TxInv
<1>2. /\ DOMAIN branches'[c] = DOMAIN branches[c] /\ branches'[c][b] = branch
      /\ \A d \in Calls : d # c => branches'[d] = branches[d]
      /\ \A e \in DOMAIN branches[c] : e # b => branches'[c][e] = branches[c][e]
  BY <1>1, OneBranch
<1>3. /\ Calls' = Calls /\ LastCall' = LastCall
      /\ \A d : T!Asked(d)' = T!Asked(d)
  BY SameCallbacks
<1>4. ASSUME NEW d \in Calls
      PROVE  Reached(d)' = Reached(d) /\ ("failed" \in States(d) => "failed" \in States(d)')
  <2>1. CASE d = c
    <3>1. Reached(d)' = Reached(d)
      BY <1>1, <2>1, ReachedStays
    <3>2. "failed" \in States(d) => "failed" \in States(d)'
      BY <1>2, <2>1 DEF States
    <3> QED
      BY <3>1, <3>2
  <2>2. CASE d # c
    BY <1>2, <1>3, <2>2 DEF Reached, States
  <2> QED
    BY <2>1, <2>2
<1>5. \A d \in Calls : d = LastCall =>
        /\ phase = "running" /\ "failed" \notin States(d)' => open /\ written = Reached(d)'
        /\ phase = "committing" => open /\ written = T!Asked(d)'
  BY <1>1, <1>3, <1>4, Zenon DEF WrittenIsRight
<1> QED
  BY <1>1, <1>3, <1>5, Zenon DEF WrittenIsRight

\* The queue, when a branch moves on that does not wait.
LEMMA QueueStays ==
  ASSUME TxInv, NEW c \in Calls, NEW b \in DOMAIN branches[c], NEW branch \in TxBranches, OneMoves(c, b, branch),
         branches[c][b].state # "waiting", UNCHANGED <<callbacks, phase, stages, queue>>
  PROVE  QueueIsRight'
<1>1. TxTypes /\ QueueIsRight
  BY DEF TxInv
<1>2. /\ DOMAIN branches'[c] = DOMAIN branches[c] /\ branches'[c][b] = branch
      /\ \A d \in Calls : d # c => branches'[d] = branches[d]
      /\ \A e \in DOMAIN branches[c] : e # b => branches'[c][e] = branches[c][e]
  BY <1>1, OneBranch
<1>3. /\ Calls' = Calls /\ LastCall' = LastCall
  BY SameCallbacks
<1>4. ASSUME NEW r, IsSent(r)
      PROVE  IsSent(r)'
  <2>1. /\ r.call \in Calls /\ r.branch \in DOMAIN branches[r.call] /\ r.stage = stages[r.call]
        /\ r.number = branches[r.call][r.branch].sent /\ branches[r.call][r.branch].state = "waiting"
    BY <1>4 DEF IsSent
  <2>2. branches'[r.call][r.branch] = branches[r.call][r.branch] /\ r.branch \in DOMAIN branches'[r.call]
    BY <1>2, <2>1
  <2> QED
    BY <1>3, <2>1, <2>2 DEF IsSent
<1>5. \A i \in DOMAIN queue : Writes(i) => \E r : r = queue[i].row /\ IsSent(r)'
  BY <1>1, <1>4, Zenon DEF QueueIsRight
<1>6. (\A i \in DOMAIN queue : Writes(i) => IsSent(queue[i].row))'
  BY <1>5 DEF Writes, IsSent
<1>7. \A i : Writes(i)' = Writes(i) /\ IsLast(i)' = IsLast(i)
  BY DEF Writes, IsLast
<1> QED
  BY <1>1, <1>3, <1>6, <1>7, ZenonT(60) DEF QueueIsRight

LEMMA SettleKeeps ==
  ASSUME TxInv, NEW c \in Calls, NEW b \in DOMAIN branches[c], NEW state \in {"failed", "done"}, T!Settle(c, b, state)
  PROVE  TxInv'
<1> DEFINE before == branches[c][b]
           branch == [before EXCEPT !.state = state]
<1>1. TxTypes /\ BranchesAreRight /\ before \in TxBranches
  BY TxFacts DEF TxInv
<1>2. /\ before.state = "ready" /\ (state = "done" => ~ (before.sent < callbacks[c][stages[c]][b]))
      /\ OneMoves(c, b, branch)
      /\ UNCHANGED <<callbacks, phase, outcome, stages, active, queue, connected, open, written, committed>>
  BY DEF T!Settle, T!MayGoOn, T!Asks, T!database, OneMoves
<1> HIDE DEF before
<1>3. branch \in TxBranches /\ branch.sent = before.sent /\ branch.state = state /\ before.sent \in Nat
  BY <1>1 DEF TxBranches
<1>4. branch.state # "waiting" /\ GoesOn(before, branch)
  BY <1>2, <1>3 DEF GoesOn
<1>5. branch.sent <= callbacks[c][stages[c]][b] /\ (branch.state = "done" => branch.sent = callbacks[c][stages[c]][b])
  <2>1. Entered(c)
    BY <1>1, HasBranches DEF BranchesAreRight
  <2>2. callbacks[c][stages[c]][b] \in Nat
    BY <1>1, <2>1, CallbackFacts DEF Entered
  <2>3. before.sent <= callbacks[c][stages[c]][b]
    BY <2>1 DEF Entered, before
  <2> QED
    BY <1>2, <1>3, <2>2, <2>3
<1> HIDE DEF branch
<1>6. PhasesAreRight' /\ BranchesAreRight' /\ BehindAFailure'
  BY <1>2, <1>3, <1>4, <1>5, BranchesGoOn, Zenon DEF before
<1>7. QueueIsRight'
  BY <1>2, <1>3, QueueStays DEF before
<1>8. StoredIsRight'
  BY <1>2, <1>3, <1>4, StoredStays, Zenon DEF before
<1>9. StraysAreRight'
  <2>1. \A e : IsBefore(e)' => IsBefore(e)
    BY <1>1, <1>2, BehindTheRollback
  <2> QED
    BY <1>2, <1>3, <1>4, <2>1, StraysStay, Zenon DEF before
<1>10. WrittenIsRight'
  BY <1>2, <1>3, <1>4, WrittenStays DEF before
<1>11. TxTypes'
  <2>1. branches' \in Seq(Seq(TxBranches)) /\ Len(branches') = LastCall
    BY <1>1, <1>2, <1>3, OneBranch
  <2>2. LastCall' = LastCall
    BY <1>2, SameCallbacks
  <2> QED
    BY <1>1, <1>2, <2>1, <2>2 DEF TxTypes
<1> QED
  BY <1>6, <1>7, <1>8, <1>9, <1>10, <1>11 DEF TxInv

LEMMA AskKeeps ==
  ASSUME TxInv, NEW c \in Calls, NEW b \in DOMAIN branches[c], T!Ask(c, b)
  PROVE  TxInv'
<1> DEFINE before == branches[c][b]
           branch == [sent |-> before.sent + 1, state |-> "waiting"]
           row == T!Row(c, stages[c], b, before.sent + 1)
<1>1. /\ TxTypes /\ PhasesAreRight /\ BranchesAreRight /\ BehindAFailure /\ QueueIsRight
      /\ WrittenIsRight /\ StoredIsRight /\ StraysAreRight
  BY DEF TxInv
<1>2. /\ before \in TxBranches /\ b \in Nat /\ c \in Nat /\ stages[c] \in Nat
  BY <1>1, TxFacts, HasBranches
<1>3. /\ before.state = "ready" /\ before.sent < callbacks[c][stages[c]][b] /\ active = c
      /\ OneMoves(c, b, branch)
      /\ queue' = Append(queue, [is |-> "write", row |-> row])
      /\ UNCHANGED <<callbacks, phase, outcome, stages, active, connected, open, written, committed>>
  BY DEF T!Ask, T!MayGoOn, T!Asks, T!IsActive, T!Send, T!Statement, T!database, OneMoves
<1>4. before.sent \in Nat /\ before.sent + 1 \in Nat /\ before.sent + 1 # 0
  BY <1>2 DEF TxBranches
<1> HIDE DEF before
<1>5. branch \in TxBranches /\ branch.sent = before.sent + 1 /\ branch.state = "waiting" /\ GoesOn(before, branch)
  BY <1>3, <1>4 DEF TxBranches, GoesOn
<1>6. row \in TxRows /\ row = T!Row(c, stages[c], b, branch.sent)
  BY <1>2, <1>4 DEF TxRows, T!Row
<1>7. branch.sent <= callbacks[c][stages[c]][b]
  <2>1. Entered(c)
    BY <1>1, HasBranches DEF BranchesAreRight
  <2>2. callbacks[c][stages[c]][b] \in Nat
    BY <1>1, <2>1, CallbackFacts DEF Entered
  <2> QED
    BY <1>3, <1>4, <1>5, <2>2
<1> HIDE DEF branch, row
<1>8. c = LastCall /\ phase \notin {"rest", "starting"} /\ outcome[c] # "rolled back"
  <2>1. c # 0
    BY <1>1, TxFacts
  <2>2. c = LastCall /\ phase \notin {"rest", "starting"}
    BY <1>1, <1>3, <2>1 DEF PhasesAreRight
  <2> QED
    BY <1>1, <2>2, PagesAssumption, Zenon DEF PhasesAreRight, T!TransactionsAssumption
<1>9. /\ PhasesAreRight' /\ BranchesAreRight' /\ BehindAFailure'
      /\ c = LastCall => phase \in {"running", "rolling back", "rest"}
  BY <1>3, <1>5, <1>4, <1>7, BranchesGoOn, Zenon DEF before
<1>10. phase \in {"running", "rolling back"}
  BY <1>8, <1>9, Zenon
<1>11. QueueIsRight'
  BY <1>3, <1>5, <1>6, <1>8, <1>10, QueueGrows, Zenon DEF before, IsPut
<1>12. StoredIsRight'
  BY <1>3, <1>5, <1>8, StoredStays, Zenon
<1>13. StraysAreRight'
  <2>1. \A e : IsBefore(e)' => IsBefore(e)
    <3>1. [is |-> "write", row |-> row] \in TxStatements /\ [is |-> "write", row |-> row].is = "write"
      BY <1>6 DEF TxStatements
    <3> QED
      BY <1>1, <1>3, <3>1, BehindTheRollback
  <2> QED
    BY <1>3, <1>5, <2>1, StraysStay, Zenon DEF before
<1>14. WrittenIsRight'
  BY <1>3, <1>5, WrittenStays DEF before
<1>15. TxTypes'
  <2>1. queue' \in Seq(TxStatements)
    <3>1. [is |-> "write", row |-> row] \in TxStatements
      BY <1>6 DEF TxStatements
    <3> QED
      BY <1>1, <1>3, <3>1, IntoTheQueue
  <2>2. branches' \in Seq(Seq(TxBranches)) /\ Len(branches') = LastCall
    BY <1>1, <1>3, <1>5, OneBranch
  <2>3. LastCall' = LastCall
    BY <1>3, SameCallbacks
  <2> QED
    BY <1>1, <1>3, <2>1, <2>2, <2>3 DEF TxTypes
<1> QED
  BY <1>9, <1>11, <1>12, <1>13, <1>14, <1>15, Zenon DEF TxInv

LEMMA SameFields ==
  ASSUME NEW r \in TxRows, NEW q \in TxRows, r.call = q.call, r.branch = q.branch, r.stage = q.stage, r.number = q.number
  PROVE  r = q
<1>1. /\ r = [call |-> r.call, stage |-> r.stage, branch |-> r.branch, number |-> r.number]
      /\ q = [call |-> q.call, stage |-> q.stage, branch |-> q.branch, number |-> q.number]
  BY DEF TxRows
<1> QED
  BY <1>1

\* What is left of the queue, when the first statement was answered and its branch moved on.
LEMMA QueueShrinks ==
  ASSUME TxInv, NEW c \in Calls, NEW b \in DOMAIN branches[c], NEW branch \in TxBranches, OneMoves(c, b, branch),
         queue # <<>>, queue' = Tail(queue), Head(queue).is = "write",
         Head(queue).row.call = c, Head(queue).row.branch = b,
         UNCHANGED <<callbacks, phase, stages>>
  PROVE  QueueIsRight'
<1>1. TxTypes /\ QueueIsRight
  BY DEF TxInv
<1>2. /\ DOMAIN branches'[c] = DOMAIN branches[c] /\ branches'[c][b] = branch
      /\ \A d \in Calls : d # c => branches'[d] = branches[d]
      /\ \A e \in DOMAIN branches[c] : e # b => branches'[c][e] = branches[c][e]
  BY <1>1, OneBranch
<1>3. /\ Calls' = Calls /\ LastCall' = LastCall
  BY SameCallbacks
<1>4. ASSUME NEW r, IsSent(r), r.call # c \/ r.branch # b
      PROVE  IsSent(r)'
  <2>1. /\ r.call \in Calls /\ r.branch \in DOMAIN branches[r.call] /\ r.stage = stages[r.call]
        /\ r.number = branches[r.call][r.branch].sent /\ branches[r.call][r.branch].state = "waiting"
    BY <1>4 DEF IsSent
  <2>2. branches'[r.call][r.branch] = branches[r.call][r.branch] /\ r.branch \in DOMAIN branches'[r.call]
    BY <1>2, <1>4, <2>1
  <2> QED
    BY <1>3, <2>1, <2>2 DEF IsSent
<1>5. PICK place : /\ \A i \in DOMAIN queue' : place[i] \in DOMAIN queue /\ queue'[i] = queue[place[i]]
                   /\ \A i \in DOMAIN queue' : place[i] # 1 /\ 1 < place[i]
                   /\ \A i, j \in DOMAIN queue' : i # j => place[i] # place[j]
                   /\ \A i, j \in DOMAIN queue' : i < j <=> place[i] < place[j]
                   /\ \A k \in DOMAIN queue : k = 1 \/ \E i \in DOMAIN queue' : place[i] = k
  BY <1>1, OutOfTheQueue
<1>6. 1 \in DOMAIN queue /\ Head(queue) = queue[1]
  BY <1>1, OutOfTheQueue
<1> DEFINE isPlaced(i) == Writes(i)' = Writes(place[i]) /\ (IsLast(place[i]) => IsLast(i)')
<1>7. ASSUME NEW i \in DOMAIN queue'
      PROVE  isPlaced(i)
  BY <1>5, <1>7 DEF Writes, IsLast
<1>8. \A i \in DOMAIN queue : i # 1 /\ Writes(i) => queue[i].row.call # c \/ queue[i].row.branch # b
  <2>1. ASSUME NEW i \in DOMAIN queue, i # 1, Writes(i), queue[i].row.call = c, queue[i].row.branch = b
        PROVE  FALSE
    <3>1. IsSent(queue[i].row) /\ IsSent(queue[1].row)
      BY <1>1, <1>6, <2>1, Zenon DEF QueueIsRight, Writes
    <3>2. queue[i] \in TxStatements /\ queue[1] \in TxStatements
      BY <1>1, <1>6, TxFacts
    <3>3. queue[i].row \in TxRows /\ queue[1].row \in TxRows
      BY <1>6, <2>1, <3>2 DEF TxStatements, Writes
    <3>4. /\ queue[i].row.call = queue[1].row.call /\ queue[i].row.branch = queue[1].row.branch
          /\ queue[i].row.stage = queue[1].row.stage /\ queue[i].row.number = queue[1].row.number
      BY <1>6, <2>1, <3>1 DEF IsSent
    <3>5. queue[i].row = queue[1].row
      BY <3>3, <3>4, SameFields
    <3>6. queue[i].is = queue[1].is
      BY <1>6, <2>1 DEF Writes
    <3> QED
      BY <1>1, <1>6, <2>1, <3>5, <3>6, Zenon DEF QueueIsRight
  <2> QED
    BY <2>1
<1>9. \A i \in DOMAIN queue' : queue'[i].is = "write" => \E r : r = queue'[i].row /\ IsSent(r)'
  <2>1. ASSUME NEW i \in DOMAIN queue', queue'[i].is = "write"
        PROVE  \E r : r = queue'[i].row /\ IsSent(r)'
    <3>1. PICK k \in DOMAIN queue : k = place[i] /\ k # 1 /\ queue'[i] = queue[k]
      BY <1>5, <2>1
    <3>2. Writes(k)
      BY <2>1, <3>1 DEF Writes
    <3>3. PICK r : r = queue[k].row
      OBVIOUS
    <3>4. IsSent(r) /\ (r.call # c \/ r.branch # b)
      BY <1>1, <1>8, <3>1, <3>2, <3>3, Zenon DEF QueueIsRight
    <3> QED
      BY <1>4, <3>1, <3>3, <3>4
  <2> QED
    BY <2>1
<1>10. (\A i \in DOMAIN queue : Writes(i) => IsSent(queue[i].row))'
  <2> SUFFICES ASSUME NEW i \in DOMAIN queue', queue'[i].is = "write"
               PROVE  IsSent(queue[i].row)'
    BY DEF Writes
  <2>1. PICK r : r = queue'[i].row /\ IsSent(r)'
    BY <1>9
  <2> QED
    BY <2>1 DEF IsSent
<1>11. ASSUME NEW i \in DOMAIN queue', NEW j \in DOMAIN queue', i # j, queue'[i].is = queue'[j].is
       PROVE  queue'[i].is = "write" /\ queue'[i].row # queue'[j].row
  <2>1. PICK k \in DOMAIN queue, m \in DOMAIN queue :
          k = place[i] /\ m = place[j] /\ k # m /\ queue'[i] = queue[k] /\ queue'[j] = queue[m]
    BY <1>5, <1>11
  <2>2. queue[k].is = "write" /\ queue[k].row # queue[m].row
    BY <1>1, <1>11, <2>1, ZenonT(60) DEF QueueIsRight, Writes
  <2> QED
    BY <2>1, <2>2
<1>12. (\A i, j \in DOMAIN queue : i # j /\ queue[i].is = queue[j].is => Writes(i) /\ queue[i].row # queue[j].row)'
  BY <1>11, Zenon DEF Writes
<1>13. (\A i \in DOMAIN queue : ~Writes(i) =>
          \/ phase = "starting" /\ queue[i].is = "START" /\ IsLast(i)
          \/ phase = "committing" /\ queue[i].is = "COMMIT" /\ IsLast(i)
          \/ phase = "rolling back" /\ queue[i].is = "ROLLBACK")'
  <2> SUFFICES ASSUME NEW i \in DOMAIN queue', ~Writes(i)'
               PROVE  \/ phase = "starting" /\ queue'[i].is = "START" /\ IsLast(i)'
                      \/ phase = "committing" /\ queue'[i].is = "COMMIT" /\ IsLast(i)'
                      \/ phase = "rolling back" /\ queue'[i].is = "ROLLBACK"
    BY Zenon
  <2>1. PICK k \in DOMAIN queue : k = place[i] /\ queue'[i] = queue[k]
    BY <1>5
  <2>2. ~Writes(k) /\ (IsLast(k) => IsLast(i)')
    BY <1>7, <2>1
  <2> QED
    BY <1>1, <2>1, <2>2, Zenon DEF QueueIsRight
<1>14. (\A i \in DOMAIN queue : Writes(i) => (phase \in {"running", "committing", "rolling back"} => queue[i].row.call = LastCall))'
  <2> SUFFICES ASSUME NEW i \in DOMAIN queue', Writes(i)', phase \in {"running", "committing", "rolling back"}
               PROVE  queue'[i].row.call = LastCall
    BY <1>3, Zenon
  <2>1. PICK k \in DOMAIN queue : k = place[i] /\ queue'[i] = queue[k]
    BY <1>5, Zenon
  <2>2. Writes(k)
    BY <1>7, <2>1, Zenon
  <2> QED
    BY <1>1, <2>1, <2>2, Zenon DEF QueueIsRight
<1>15. (phase = "rolling back" => \E i \in DOMAIN queue : queue[i].is = "ROLLBACK")'
  <2> SUFFICES ASSUME phase = "rolling back"
               PROVE  \E i \in DOMAIN queue' : queue'[i].is = "ROLLBACK"
    BY Zenon
  <2>1. PICK k \in DOMAIN queue : queue[k].is = "ROLLBACK"
    BY <1>1, Zenon DEF QueueIsRight
  <2>2. k # 1
    BY <1>6, <2>1, Zenon
  <2>3. PICK i \in DOMAIN queue' : place[i] = k
    BY <1>5, <2>1, <2>2, Zenon
  <2> QED
    BY <1>5, <2>1, <2>3, Zenon
<1> QED
  BY <1>10, <1>12, <1>13, <1>14, <1>15, Zenon DEF QueueIsRight

\* What is answered next is the last statement of a branch that waits for it; past a failure
\* it is not in the branch that failed.
LEMMA FirstOfTheQueue ==
  ASSUME TxInv, queue # <<>>, Head(queue).is = "write"
  PROVE  LET row == Head(queue).row IN
         /\ row \in TxRows /\ row.call \in Calls /\ row.branch \in DOMAIN branches[row.call]
         /\ branches[row.call][row.branch].state = "waiting" /\ branches[row.call][row.branch].sent # 0
         /\ row = LastRow(row.call, row.branch)
         /\ phase \in {"running", "committing", "rolling back"} => row.call = LastCall
         /\ phase = "rolling back" => IsBefore(row.branch)
<1> DEFINE row == Head(queue).row
           c == row.call
           b == row.branch
<1>1. TxTypes /\ QueueIsRight /\ BranchesAreRight
  BY DEF TxInv
<1>2. /\ 1 \in DOMAIN queue /\ Head(queue) = queue[1]
      /\ \A k \in DOMAIN queue : k # 1 => 1 < k
  <2>1. queue \in Seq(TxStatements)
    BY <1>1 DEF TxTypes
  <2>2. PICK n \in Nat : DOMAIN queue = 1 .. n /\ n # 0 /\ Head(queue) = queue[1]
    <3> DEFINE elements == TxStatements
    <3>1. queue \in Seq(elements)
      BY <2>1
    <3> HIDE DEF elements
    <3> QED
      BY <3>1
  <2>3. 1 \in 1 .. n /\ \A k \in 1 .. n : k # 1 => 1 < k
    BY <2>2
  <2> QED
    BY <2>2, <2>3
<1>3. Writes(1) /\ IsSent(row)
  BY <1>1, <1>2, Zenon DEF QueueIsRight, Writes
<1>4. row \in TxRows
  BY <1>1, <1>2, TxFacts DEF TxStatements
<1>5. /\ c \in Calls /\ b \in DOMAIN branches[c] /\ branches[c][b].state = "waiting"
      /\ row.stage = stages[c] /\ row.number = branches[c][b].sent
  BY <1>3 DEF IsSent
<1>6. branches[c][b].sent # 0
  <2>1. Entered(c)
    BY <1>1, <1>5, HasBranches DEF BranchesAreRight
  <2> QED
    BY <1>5, <2>1, Zenon DEF Entered
<1>7. row = LastRow(c, b)
  <2>1. row = [call |-> row.call, stage |-> row.stage, branch |-> row.branch, number |-> row.number]
    BY <1>4 DEF TxRows
  <2> QED
    BY <1>5, <2>1 DEF LastRow, T!Row
<1>8. phase \in {"running", "committing", "rolling back"} => c = LastCall
  BY <1>1, <1>2, <1>3, Zenon DEF QueueIsRight
<1>9. phase = "rolling back" => IsBefore(b)
  <2> SUFFICES ASSUME phase = "rolling back"
               PROVE  IsBefore(b)
    BY Zenon
  <2>1. PICK k \in DOMAIN queue : queue[k].is = "ROLLBACK"
    BY <1>1, Zenon DEF QueueIsRight
  <2>2. k # 1
    BY <1>2, <2>1, Zenon
  <2> QED
    BY <1>2, <1>3, <2>1, <2>2, Zenon DEF IsBefore
<1> QED
  BY <1>4, <1>5, <1>6, <1>7, <1>8, <1>9, Zenon

LEMMA FailWriteKeeps ==
  ASSUME TxInv, T!FailWrite
  PROVE  TxInv'
<1>1. /\ TxTypes /\ PhasesAreRight /\ BranchesAreRight /\ BehindAFailure /\ QueueIsRight
      /\ WrittenIsRight /\ StoredIsRight /\ StraysAreRight
  BY DEF TxInv
<1>2. queue # <<>> /\ Head(queue).is = "write" /\ queue' = Tail(queue)
  BY DEF T!FailWrite, T!Answers, T!Answer, T!Answered
<1>3. PICK row : row = Head(queue).row
  OBVIOUS
<1>4. PICK c \in Calls : c = row.call
  BY <1>2, <1>3, FirstOfTheQueue, Zenon
<1>5. PICK b \in DOMAIN branches[c] : b = row.branch
  BY <1>2, <1>3, <1>4, FirstOfTheQueue, Zenon
<1>6. /\ branches[c][b].state = "waiting"
      /\ phase \in {"running", "committing", "rolling back"} => c = LastCall
      /\ phase = "rolling back" => IsBefore(b)
  BY <1>2, <1>3, <1>4, <1>5, FirstOfTheQueue, Zenon
<1> DEFINE before == branches[c][b]
           branch == [before EXCEPT !.state = "failed"]
<1>7. OneMoves(c, b, branch) /\ UNCHANGED <<callbacks, phase, outcome, stages, active, connected, committed>>
  BY <1>3, <1>4, <1>5 DEF T!FailWrite, T!Answer, T!database, T!Discard, OneMoves
<1>8. (open' = open /\ written' = written) \/ (open /\ open' = FALSE /\ written' = {})
  BY DEF T!FailWrite, T!database, T!Discard
<1>9. before \in TxBranches
  BY <1>1, TxFacts
<1> HIDE DEF before
<1>10. branch \in TxBranches /\ branch.sent = before.sent /\ branch.state = "failed"
  BY <1>9 DEF TxBranches
<1>11. branch.sent <= callbacks[c][stages[c]][b]
  <2>1. Entered(c)
    BY <1>1, HasBranches DEF BranchesAreRight
  <2> QED
    BY <1>10, <2>1 DEF Entered, before
<1> HIDE DEF branch
<1>12. /\ PhasesAreRight' /\ BranchesAreRight' /\ BehindAFailure'
       /\ c = LastCall => phase \in {"running", "rolling back", "rest"}
  BY <1>6, <1>7, <1>10, <1>11, BranchesGoOn, Zenon
<1>13. QueueIsRight'
  BY <1>2, <1>3, <1>4, <1>5, <1>7, <1>10, QueueShrinks
<1>14. StoredIsRight'
  BY <1>7, <1>10, StoredStays, Zenon DEF before
<1>15. StraysAreRight'
  <2>1. \A e : IsBefore(e)' => IsBefore(e)
    BY <1>1, <1>2, BehindTheRollback
  <2> QED
    BY <1>6, <1>7, <1>10, <2>1, StraysStay, Zenon
<1>16. Calls' = Calls /\ LastCall' = LastCall /\ \A d : T!Asked(d)' = T!Asked(d)
  BY <1>7, SameCallbacks
<1>17. branches'[c][b] = branch /\ DOMAIN branches'[c] = DOMAIN branches[c]
       /\ \A d \in Calls : d # c => branches'[d] = branches[d]
  BY <1>1, <1>7, <1>10, OneBranch
<1>18. WrittenIsRight'
  <2>1. "failed" \in States(c)'
    BY <1>10, <1>17 DEF States
  <2>2. \A d \in Calls : d # c => Reached(d)' = Reached(d) /\ States(d)' = States(d)
    BY <1>7, <1>16, <1>17 DEF Reached, States
  <2>3. ASSUME NEW d \in Calls, d = LastCall
        PROVE  /\ phase = "running" /\ "failed" \notin States(d)' => open' /\ written' = Reached(d)'
               /\ phase = "committing" => open' /\ written' = T!Asked(d)'
    <3>1. CASE d = c
      BY <1>12, <2>1, <2>3, <3>1, Zenon
    <3>2. CASE d # c
      <4>1. phase \notin {"running", "committing", "rolling back"}
        BY <1>6, <2>3, <3>2, Zenon
      <4> QED
        BY <4>1, Zenon
    <3> QED
      BY <3>1, <3>2
  <2>4. /\ \A r \in written : r.call = LastCall
        /\ open => phase \in {"running", "committing", "rolling back"}
        /\ ~open => written = {}
    BY <1>1, Zenon DEF WrittenIsRight
  <2>5. /\ \A r \in written' : r.call = LastCall
        /\ open' => phase \in {"running", "committing", "rolling back"}
        /\ ~open' => written' = {}
    <3>1. CASE open' = open /\ written' = written
      BY <2>4, <3>1, Zenon
    <3>2. CASE open /\ open' = FALSE /\ written' = {}
      BY <3>2, Zenon
    <3> QED
      BY <1>8, <3>1, <3>2, Zenon
  <2> QED
    BY <1>7, <1>16, <2>3, <2>5, Zenon DEF WrittenIsRight
<1>19. TxTypes'
  <2>1. branches' \in Seq(Seq(TxBranches)) /\ Len(branches') = LastCall
    BY <1>1, <1>7, <1>10, OneBranch
  <2>2. queue' \in Seq(TxStatements)
    BY <1>1, <1>2, OutOfTheQueue
  <2>3. open' \in BOOLEAN /\ written' \subseteq TxRows
    BY <1>1, <1>8 DEF TxTypes
  <2> QED
    BY <1>1, <1>7, <1>16, <2>1, <2>2, <2>3 DEF TxTypes
<1> QED
  BY <1>12, <1>13, <1>14, <1>15, <1>18, <1>19, Zenon DEF TxInv

\* A call reaches the row that was answered.
LEMMA ReachedGrows ==
  ASSUME TxTypes, BranchesAreRight, NEW c \in Calls, NEW b \in DOMAIN branches[c], NEW branch \in TxBranches, OneMoves(c, b, branch),
         UNCHANGED <<callbacks, stages>>,
         branches[c][b].state = "waiting", branches[c][b].sent # 0,
         branch.state # "waiting", branch.sent = branches[c][b].sent
  PROVE  Reached(c)' = Reached(c) \cup {LastRow(c, b)}
<1> DEFINE before == branches[c][b]
           row == LastRow(c, b)
<1>1. /\ DOMAIN branches'[c] = DOMAIN branches[c] /\ branches'[c][b] = branch
      /\ \A e \in DOMAIN branches[c] : e # b => branches'[c][e] = branches[c][e]
  BY OneBranch
<1>2. before.sent \in Nat /\ before.sent # 0 /\ b \in Nat /\ c \in Nat /\ stages[c] \in Nat
  BY TxFacts, HasBranches DEF TxBranches
<1>3. Entered(c)
  BY HasBranches DEF BranchesAreRight
<1>4. row \in TxRows /\ row.call = c /\ row.stage = stages[c] /\ row.branch = b /\ row.number = before.sent
  BY <1>2 DEF LastRow, T!Row, TxRows
<1>5. row \in T!Asked(c)
  <2>1. 1 <= before.sent
    BY <1>2
  <2>2. before.sent <= callbacks[c][stages[c]][b] /\ stages[c] \in DOMAIN callbacks[c]
        /\ b \in DOMAIN callbacks[c][stages[c]]
    BY <1>3 DEF Entered
  <2> HIDE DEF row, before
  <2> QED
    BY <1>4, <2>1, <2>2, WhatIsAsked
<1> HIDE DEF row, before
<1>6. T!Asked(c)' = T!Asked(c)
  BY SameCallbacks
<1>7. ASSUME NEW r \in T!Asked(c), r.stage = stages[c]
      PROVE  (\/ r.number < branches'[c][r.branch].sent
              \/ r.number = branches'[c][r.branch].sent /\ branches'[c][r.branch].state # "waiting")
             <=>
             (\/ r.number < branches[c][r.branch].sent
              \/ r.number = branches[c][r.branch].sent /\ branches[c][r.branch].state # "waiting"
              \/ r = row)
  <2>1. r.branch \in DOMAIN branches[c] /\ r.call = c /\ r \in TxRows
    BY <1>3, <1>7, WhatIsAsked DEF Entered
  <2>2. CASE r.branch = b
    <3>1. branches[c][r.branch] = before /\ branches'[c][r.branch] = branch /\ before.state = "waiting"
          /\ branch.sent = before.sent /\ branch.state # "waiting"
      BY <1>1, <2>2 DEF before
    <3>2. r.number = before.sent => r = row
      BY <1>4, <1>7, <2>1, <2>2, SameFields
    <3>3. r = row => r.number = before.sent
      BY <1>4
    <3> QED
      BY <3>1, <3>2, <3>3
  <2>3. CASE r.branch # b
    BY <1>1, <1>4, <2>1, <2>3
  <2> QED
    BY <2>2, <2>3
<1>8. \A r \in T!Asked(c) : r = row => r.stage = stages[c]
  BY <1>4
<1>9. \A r : r \in Reached(c)' <=> r \in Reached(c) \cup {row}
  BY <1>5, <1>6, <1>7, <1>8 DEF Reached
<1> QED
  BY <1>9 DEF row

LEMMA OneBefore ==
  \A m \in Nat \ {0} : \E n \in Nat : n = m - 1 /\ n + 1 = m
<1> SUFFICES ASSUME NEW m \in Nat \ {0}
             PROVE  \E n \in Nat : n = m - 1 /\ n + 1 = m
  OBVIOUS
<1>1. m - 1 \in Nat /\ (m - 1) + 1 = m
  OBVIOUS
<1> QED
  BY <1>1

LEMMA TwoPlaces ==
  ASSUME NEW list \in Seq(Nat), NEW e \in DOMAIN list, NEW b \in DOMAIN list, e # b
  PROVE  Len(list) # 1
<1>1. DOMAIN list = 1 .. Len(list)
  OBVIOUS
<1>2. Len(list) = 1 => e = 1 /\ b = 1
  BY <1>1
<1> QED
  BY <1>2

\* A row that commits by itself is one that a branch has written past a failure.
LEMMA StrayIsStored ==
  ASSUME TxInv, NEW c \in Calls, NEW b \in DOMAIN branches[c], NEW branch \in TxBranches, OneMoves(c, b, branch),
         branches[c][b].state = "waiting", branches[c][b].sent # 0,
         branch.state = "ready", branch.sent = branches[c][b].sent,
         c = LastCall => phase \in {"rolling back", "rest"},
         \E e \in DOMAIN branches[c] : e # b /\ branches[c][e].state = "failed",
         NEW row \in TxRows, row = LastRow(c, b), committed' = committed \cup {row},
         UNCHANGED <<callbacks, phase, outcome, stages>>,
         phase = "rolling back" => IsBefore(b)
  PROVE  StoredIsRight'
<1>1. TxTypes /\ StoredIsRight /\ PhasesAreRight /\ BranchesAreRight /\ StraysAreRight
  BY Zenon DEF TxInv
<1>2. /\ DOMAIN branches'[c] = DOMAIN branches[c] /\ branches'[c][b] = branch
      /\ \A d \in Calls : d # c => branches'[d] = branches[d]
      /\ \A e \in DOMAIN branches[c] : e # b => branches'[c][e] = branches[c][e]
  BY <1>1, OneBranch, Zenon
<1>3. /\ Calls' = Calls /\ LastCall' = LastCall
      /\ \A d : T!Asked(d)' = T!Asked(d) /\ T!Serial(d)' = T!Serial(d)
  BY SameCallbacks, Zenon
<1>4. row.call = c /\ row.branch = b
  BY Zenon DEF LastRow, T!Row
<1>5. /\ \A d : d # c => T!StoredOf(d)' = T!StoredOf(d) /\ \A e : Through(d, e)' = Through(d, e)
      /\ T!StoredOf(c)' = T!StoredOf(c) \cup {row}
      /\ Through(c, b)' = Through(c, b) \cup {row}
      /\ \A e : e # b => Through(c, e)' = Through(c, e)
  BY <1>4, Zenon DEF T!StoredOf, Through
<1>6. Entered(c) /\ branches[c] # <<>> /\ ~ (States(c) \subseteq {"done"})
  BY <1>1, HasBranches, Zenon DEF BranchesAreRight, States
<1>7. outcome[c] \notin {"refused", "lost", "resolved"}
  BY <1>1, <1>6, Zenon DEF BranchesAreRight
<1>8. ~T!Serial(c)
  <2>1. PICK e \in DOMAIN branches[c] : e # b
    BY Zenon
  <2>2. PICK list \in Seq(Nat) : list = callbacks[c][stages[c]] /\ DOMAIN list = DOMAIN branches[c]
    BY <1>1, <1>6, CallbackFacts, Zenon DEF Entered
  <2>3. e \in DOMAIN list /\ b \in DOMAIN list /\ e # b
    BY <2>1, <2>2, Zenon
  <2>4. Len(list) # 1
    BY <2>3, TwoPlaces, Zenon
  <2> QED
    BY <1>6, <2>2, <2>4, Zenon DEF Entered, T!Serial
<1>9. branches'[c][b].sent = branches[c][b].sent /\ branches'[c][b].state = "ready"
  BY <1>2, Zenon
<1>10. RowBefore(c, b)' = RowBefore(c, b) /\ LastRow(c, b)' = LastRow(c, b)
  BY <1>9, Zenon DEF RowBefore, LastRow, T!Row
<1>11. \A d \in Calls : \A e \in DOMAIN branches[d] : d # c \/ e # b =>
          /\ branches'[d][e] = branches[d][e]
          /\ RowBefore(d, e)' = RowBefore(d, e) /\ LastRow(d, e)' = LastRow(d, e)
  BY <1>2, Zenon DEF RowBefore, LastRow, T!Row
<1>12. \A d \in Calls : DOMAIN branches'[d] = DOMAIN branches[d] /\ (branches'[d] # <<>> => branches[d] # <<>>)
  BY <1>2, <1>6, Zenon
<1>13. outcome[c] = "rolled back" => Through(c, b) \subseteq {RowBefore(c, b)}
  BY <1>1, Zenon DEF StoredIsRight
<1>14. ASSUME NEW d \in Calls, outcome[d] = "rolled back", NEW e \in DOMAIN branches[d]
       PROVE  Through(d, e)' \subseteq IF branches'[d][e].state = "waiting" THEN {RowBefore(d, e)'}
                                       ELSE {RowBefore(d, e)', LastRow(d, e)'}
  <2>1. CASE d = c /\ e = b
    <3>1. Through(c, b)' \subseteq {RowBefore(c, b), LastRow(c, b)}
      BY <1>5, <1>13, <1>14, <2>1, Zenon
    <3> QED
      BY <1>9, <1>10, <2>1, <3>1, Zenon
  <2>2. CASE d # c \/ e # b
    <3>1. Through(d, e)' = Through(d, e)
      BY <1>5, <2>2, Zenon
    <3>2. Through(d, e) \subseteq IF branches[d][e].state = "waiting" THEN {RowBefore(d, e)}
                                  ELSE {RowBefore(d, e), LastRow(d, e)}
      BY <1>1, <1>14, Zenon DEF StoredIsRight
    <3> QED
      BY <1>11, <2>2, <3>1, <3>2, Zenon
  <2> QED
    BY <2>1, <2>2, Zenon
<1>15. ASSUME NEW d \in Calls, outcome[d] = "rolled back", NEW stray \in T!StoredOf(d)'
       PROVE  /\ branches'[d] # <<>> => stray.branch \in DOMAIN branches'[d]
              /\ \E n \in Nat : Through(d, stray.branch)' \subseteq
                    {T!Row(d, stages[d], stray.branch, n), T!Row(d, stages[d], stray.branch, n + 1)}
  <2>1. CASE d = c /\ stray.branch = b
    <3>1. branches[c][b].sent \in Nat /\ branches[c][b].sent # 0
      BY <1>1, TxFacts, Zenon DEF TxBranches
    <3>2. PICK n \in Nat : n = branches[c][b].sent - 1 /\ n + 1 = branches[c][b].sent
      BY <3>1, OneBefore, Zenon
    <3>3. RowBefore(c, b) = T!Row(c, stages[c], b, n) /\ LastRow(c, b) = T!Row(c, stages[c], b, n + 1)
      BY <3>2, Zenon DEF RowBefore, LastRow
    <3>4. Through(c, b)' \subseteq {RowBefore(c, b), LastRow(c, b)}
      BY <1>5, <1>13, <1>15, <2>1, Zenon
    <3> QED
      BY <1>2, <2>1, <3>3, <3>4, Zenon
  <2>2. CASE d # c \/ stray.branch # b
    <3>1. stray \in T!StoredOf(d) /\ Through(d, stray.branch)' = Through(d, stray.branch)
      BY <1>4, <1>5, <1>15, <2>2, Zenon
    <3>2. /\ branches[d] # <<>> => stray.branch \in DOMAIN branches[d]
          /\ \E n \in Nat : Through(d, stray.branch) \subseteq
                {T!Row(d, stages[d], stray.branch, n), T!Row(d, stages[d], stray.branch, n + 1)}
      BY <1>1, <1>15, <3>1, Zenon DEF StoredIsRight
    <3> QED
      BY <1>12, <3>1, <3>2, Zenon
  <2> QED
    BY <2>1, <2>2, Zenon
<1>16. ASSUME NEW d \in Calls
       PROVE  /\ d = LastCall /\ phase \in {"starting", "running", "committing"} => T!StoredOf(d)' = {}
              /\ outcome[d] = "resolved" => T!StoredOf(d)' = T!Asked(d)
              /\ outcome[d] = "refused" => T!StoredOf(d)' = {}
              /\ T!Serial(d) => T!StoredOf(d)' = {} \/ (outcome[d] \in {"resolved", "lost"} /\ T!StoredOf(d)' = T!Asked(d))
  <2>1. CASE d = c
    BY <1>7, <1>8, <2>1, Zenon
  <2>2. CASE d # c
    <3>1. T!StoredOf(d)' = T!StoredOf(d)
      BY <1>5, <2>2, Zenon
    <3> QED
      BY <1>1, <3>1, Zenon DEF StoredIsRight
  <2> QED
    BY <2>1, <2>2, Zenon
<1>17. \A r \in committed' : r.call \in Calls
  BY <1>1, <1>4, Zenon DEF StoredIsRight
<1>18. (\A r \in committed : r.call \in Calls)'
  BY <1>3, <1>17, Zenon
<1>19. (\A d \in Calls : outcome[d] = "rolled back" =>
          \A stray \in T!StoredOf(d) :
             /\ branches[d] # <<>> => stray.branch \in DOMAIN branches[d]
             /\ \E n \in Nat : Through(d, stray.branch) \subseteq
                   {T!Row(d, stages[d], stray.branch, n), T!Row(d, stages[d], stray.branch, n + 1)})'
  BY <1>3, <1>15, Zenon DEF T!Row
<1>20. (\A d \in Calls : outcome[d] = "rolled back" =>
          \A e \in DOMAIN branches[d] :
             Through(d, e) \subseteq IF branches[d][e].state = "waiting" THEN {RowBefore(d, e)}
                                     ELSE {RowBefore(d, e), LastRow(d, e)})'
  BY <1>3, <1>12, <1>14, Zenon
<1> QED
  BY <1>3, <1>16, <1>18, <1>19, <1>20, Zenon DEF StoredIsRight

LEMMA StrayIsRight ==
  ASSUME TxInv, NEW c \in Calls, NEW b \in DOMAIN branches[c], NEW branch \in TxBranches, OneMoves(c, b, branch),
         branch.state = "ready", branch.sent = branches[c][b].sent,
         NEW row \in TxRows, row = LastRow(c, b), committed' = committed \cup {row},
         UNCHANGED <<callbacks, phase, stages>>,
         phase = "rolling back" => c = LastCall /\ IsBefore(b),
         \A e : IsBefore(e)' => IsBefore(e), QueueIsRight'
  PROVE  StraysAreRight'
<1> SUFFICES ASSUME c = LastCall, phase = "rolling back"
             PROVE  /\ \A r \in T!StoredOf(c)' : r.branch \in DOMAIN branches'[c]
                    /\ \A e \in DOMAIN branches'[c] :
                          Through(c, e)' \subseteq IF IsBefore(e)' THEN {}
                                                   ELSE IF branches'[c][e].state = "waiting" THEN {RowBefore(c, e)'}
                                                   ELSE {LastRow(c, e)'}
  <2>1. LastCall' = LastCall /\ Calls' = Calls
    BY SameCallbacks, Zenon
  <2> QED
    BY <2>1, Zenon DEF StraysAreRight
<1>1. TxTypes /\ StraysAreRight
  BY Zenon DEF TxInv
<1>2. /\ DOMAIN branches'[c] = DOMAIN branches[c] /\ branches'[c][b] = branch
      /\ \A e \in DOMAIN branches[c] : e # b => branches'[c][e] = branches[c][e]
  BY <1>1, OneBranch, Zenon
<1>3. row.call = c /\ row.branch = b
  BY Zenon DEF LastRow, T!Row
<1>4. /\ T!StoredOf(c)' = T!StoredOf(c) \cup {row}
      /\ Through(c, b)' = Through(c, b) \cup {row}
      /\ \A e : e # b => Through(c, e)' = Through(c, e)
  BY <1>3, Zenon DEF T!StoredOf, Through
<1>5. LastCall' = LastCall
  BY SameCallbacks, Zenon
<1>6. ~IsBefore(b)'
  <2> SUFFICES ASSUME NEW i \in DOMAIN queue', Writes(i)', queue'[i].row.branch = b
               PROVE  FALSE
    BY Zenon DEF IsBefore
  <2>1. queue'[i].row.call = c /\ IsSent(queue[i].row)'
    BY <1>5, Zenon DEF QueueIsRight
  <2>2. branches'[c][b].state = "waiting"
    BY <2>1, Zenon DEF IsSent
  <2> QED
    BY <1>2, <2>2, Zenon
<1>7. /\ \A r \in T!StoredOf(c) : r.branch \in DOMAIN branches[c]
      /\ \A e \in DOMAIN branches[c] :
            Through(c, e) \subseteq IF IsBefore(e) THEN {}
                                    ELSE IF branches[c][e].state = "waiting" THEN {RowBefore(c, e)}
                                    ELSE {LastRow(c, e)}
  BY <1>1, Zenon DEF StraysAreRight
<1>8. \A r \in T!StoredOf(c)' : r.branch \in DOMAIN branches'[c]
  BY <1>2, <1>3, <1>4, <1>7, Zenon
<1>9. ASSUME NEW e \in DOMAIN branches[c]
      PROVE  Through(c, e)' \subseteq IF IsBefore(e)' THEN {}
                                      ELSE IF branches'[c][e].state = "waiting" THEN {RowBefore(c, e)'}
                                      ELSE {LastRow(c, e)'}
  <2>1. CASE e = b
    <3>1. LastRow(c, b)' = row /\ branches'[c][b].state = "ready"
      BY <1>2, Zenon DEF LastRow, T!Row
    <3>2. Through(c, b)' = {row}
      BY <1>4, <1>7, Zenon
    <3> QED
      BY <1>6, <2>1, <3>1, <3>2, Zenon
  <2>2. CASE e # b
    <3>1. branches'[c][e] = branches[c][e] /\ Through(c, e)' = Through(c, e)
      BY <1>2, <1>4, <2>2, Zenon
    <3>2. RowBefore(c, e)' = RowBefore(c, e) /\ LastRow(c, e)' = LastRow(c, e)
      BY <3>1, Zenon DEF RowBefore, LastRow, T!Row
    <3> QED
      BY <1>7, <3>1, <3>2, Zenon
  <2> QED
    BY <2>1, <2>2, Zenon
<1> QED
  BY <1>2, <1>8, <1>9, Zenon

LEMMA AnswerWriteKeeps ==
  ASSUME TxInv, T!AnswerWrite
  PROVE  TxInv'
<1>1. /\ TxTypes /\ PhasesAreRight /\ BranchesAreRight /\ BehindAFailure /\ QueueIsRight
      /\ WrittenIsRight /\ StoredIsRight /\ StraysAreRight
  BY DEF TxInv
<1>2. queue # <<>> /\ Head(queue).is = "write" /\ queue' = Tail(queue)
  BY DEF T!AnswerWrite, T!Answers, T!Answer, T!Answered
<1>3. PICK row : row = Head(queue).row
  OBVIOUS
<1>4. PICK c \in Calls : c = row.call
  BY <1>2, <1>3, FirstOfTheQueue, Zenon
<1>5. PICK b \in DOMAIN branches[c] : b = row.branch
  BY <1>2, <1>3, <1>4, FirstOfTheQueue, Zenon
<1>6. /\ branches[c][b].state = "waiting" /\ branches[c][b].sent # 0
      /\ row \in TxRows /\ row = LastRow(c, b)
      /\ phase \in {"running", "committing", "rolling back"} => c = LastCall
      /\ phase = "rolling back" => IsBefore(b)
  BY <1>2, <1>3, <1>4, <1>5, FirstOfTheQueue, Zenon
<1> DEFINE before == branches[c][b]
           branch == [before EXCEPT !.state = "ready"]
<1>7. OneMoves(c, b, branch) /\ UNCHANGED <<callbacks, phase, outcome, stages, active, connected>>
  BY <1>3, <1>4, <1>5 DEF T!AnswerWrite, T!Answer, OneMoves
<1>8. /\ written' = IF open THEN written \cup {row} ELSE written
      /\ committed' = IF open THEN committed ELSE committed \cup {row}
      /\ open' = open
  BY <1>3 DEF T!AnswerWrite, T!Write
<1>9. before \in TxBranches
  BY <1>1, TxFacts
<1> HIDE DEF before
<1>10. branch \in TxBranches /\ branch.sent = before.sent /\ branch.state = "ready"
  BY <1>9 DEF TxBranches
<1>11. branch.sent <= callbacks[c][stages[c]][b]
  <2>1. Entered(c)
    BY <1>1, HasBranches DEF BranchesAreRight
  <2> QED
    BY <1>10, <2>1 DEF Entered, before
<1> HIDE DEF branch
<1>12. /\ PhasesAreRight' /\ BranchesAreRight' /\ BehindAFailure'
       /\ c = LastCall => phase \in {"running", "rolling back", "rest"}
       /\ (c = LastCall /\ phase = "running") \/
             (\E e \in DOMAIN branches[c] : e # b /\ branches[c][e].state = "failed" /\ branches'[c][e] = branches[c][e])
  BY <1>6, <1>7, <1>10, <1>11, BranchesGoOn, Zenon
<1>13. QueueIsRight'
  BY <1>2, <1>3, <1>4, <1>5, <1>7, <1>10, QueueShrinks
<1>14. \A e : IsBefore(e)' => IsBefore(e)
  BY <1>1, <1>2, BehindTheRollback
<1>15. Calls' = Calls /\ LastCall' = LastCall /\ \A d : T!Asked(d)' = T!Asked(d)
  BY <1>7, SameCallbacks
<1>16. /\ DOMAIN branches'[c] = DOMAIN branches[c] /\ branches'[c][b] = branch
       /\ \A d \in Calls : d # c => branches'[d] = branches[d]
       /\ \A e \in DOMAIN branches[c] : e # b => branches'[c][e] = branches[c][e]
  BY <1>1, <1>7, <1>10, OneBranch
<1>17. row.call = c
  BY <1>4
<1>18. ASSUME open
       PROVE  StoredIsRight' /\ StraysAreRight' /\ WrittenIsRight'
  <2>1. c = LastCall /\ phase \in {"running", "rolling back"}
    BY <1>1, <1>6, <1>12, <1>18, Zenon DEF WrittenIsRight
  <2>2. outcome[c] # "rolled back"
    BY <1>1, <2>1, PagesAssumption, Zenon DEF PhasesAreRight, T!TransactionsAssumption
  <2>3. committed' = committed /\ written' = written \cup {row}
    BY <1>8, <1>18
  <2>4. StoredIsRight'
    BY <1>7, <1>10, <2>2, <2>3, StoredStays, Zenon
  <2>5. StraysAreRight'
    BY <1>6, <1>7, <1>10, <1>14, <2>3, StraysStay, Zenon
  <2>6. ASSUME phase = "running", "failed" \notin States(c)'
        PROVE  written' = Reached(c)'
    <3>1. "failed" \notin States(c)
      <4> SUFFICES ASSUME NEW e \in DOMAIN branches[c], branches[c][e].state = "failed"
                   PROVE  FALSE
        BY DEF States
      <4>1. e # b
        BY <1>6, Zenon
      <4>2. branches'[c][e].state = "failed" /\ e \in DOMAIN branches'[c]
        BY <1>16, <4>1
      <4> QED
        BY <2>6, <4>2 DEF States
    <3>2. written = Reached(c)
      BY <1>1, <2>1, <2>6, <3>1 DEF WrittenIsRight
    <3>3. Reached(c)' = Reached(c) \cup {row}
      BY <1>1, <1>6, <1>7, <1>10, ReachedGrows, Zenon DEF before
    <3> QED
      BY <2>3, <3>2, <3>3
  <2>7. /\ \A r \in written' : r.call = LastCall
        /\ open' => phase \in {"running", "committing", "rolling back"}
        /\ ~open' => written' = {}
    <3>1. \A r \in written' : r.call = LastCall
      BY <1>1, <1>17, <2>1, <2>3, Zenon DEF WrittenIsRight
    <3>2. open'
      BY <1>8, <1>18
    <3>3. phase \in {"running", "committing", "rolling back"}
      BY <2>1, Zenon
    <3> QED
      BY <3>1, <3>2, <3>3, Zenon
  <2>8. ASSUME NEW d \in Calls, d = LastCall
        PROVE  /\ phase = "running" /\ "failed" \notin States(d)' => open' /\ written' = Reached(d)'
               /\ phase = "committing" => open' /\ written' = T!Asked(d)'
    <3>1. open' /\ d = c /\ phase # "committing"
      BY <1>8, <1>18, <2>1, <2>8, Zenon
    <3> QED
      BY <2>6, <3>1
  <2>9. WrittenIsRight'
    BY <1>7, <1>15, <2>7, <2>8, Zenon DEF WrittenIsRight
  <2> QED
    BY <2>4, <2>5, <2>9
<1>19. ASSUME ~open
       PROVE  StoredIsRight' /\ StraysAreRight' /\ WrittenIsRight'
  <2>1. phase \notin {"running", "committing"}
    <3>1. ASSUME phase \in {"running", "committing"}
          PROVE  FALSE
      <4>1. LastCall \in Calls
        BY <1>1, <3>1, LastIsACall
      <4>2. phase = "running" => "failed" \notin States(LastCall)
        BY DEF T!AnswerWrite, T!Answers, T!Settled, T!Failed, T!Call, LastCall, States
      <4> QED
        BY <1>1, <1>19, <3>1, <4>1, <4>2, Zenon DEF WrittenIsRight
    <3> QED
      BY <3>1
  <2>2. committed' = committed \cup {row} /\ written' = {} /\ open' = FALSE
    <3>1. written = {}
      BY <1>1, <1>19, Zenon DEF WrittenIsRight
    <3>2. open = FALSE
      BY <1>1, <1>19 DEF TxTypes
    <3> QED
      BY <1>8, <3>1, <3>2
  <2>3. \E e \in DOMAIN branches[c] : e # b /\ branches[c][e].state = "failed"
    BY <1>12, <2>1, Zenon
  <2>4. c = LastCall => phase \in {"rolling back", "rest"}
    BY <1>12, <2>1, Zenon
  <2>5. StoredIsRight'
    BY <1>6, <1>7, <1>10, <2>2, <2>3, <2>4, StrayIsStored, Zenon DEF before
  <2>6. StraysAreRight'
    BY <1>6, <1>7, <1>10, <1>13, <1>14, <2>2, StrayIsRight, Zenon DEF before
  <2>7. WrittenIsRight'
    BY <1>7, <2>1, <2>2, Zenon DEF WrittenIsRight
  <2> QED
    BY <2>5, <2>6, <2>7
<1>20. TxTypes'
  <2>1. branches' \in Seq(Seq(TxBranches)) /\ Len(branches') = LastCall
    BY <1>1, <1>7, <1>10, OneBranch
  <2>2. queue' \in Seq(TxStatements)
    BY <1>1, <1>2, OutOfTheQueue
  <2>3. written' \subseteq TxRows /\ committed' \subseteq TxRows
    BY <1>1, <1>6, <1>8, Zenon DEF TxTypes
  <2>4. open' \in BOOLEAN
    BY <1>1, <1>8 DEF TxTypes
  <2> QED
    BY <1>1, <1>7, <1>15, <2>1, <2>2, <2>3, <2>4 DEF TxTypes
<1> QED
  BY <1>12, <1>13, <1>18, <1>19, <1>20, Zenon DEF TxInv

\* What is known of a call is not changed by what happens to others.
LEMMA SameCall ==
  ASSUME NEW c, callbacks'[c] = callbacks[c], stages'[c] = stages[c], branches'[c] = branches[c]
  PROVE  /\ T!Asked(c)' = T!Asked(c) /\ T!Serial(c)' = T!Serial(c)
         /\ Entered(c)' = Entered(c) /\ States(c)' = States(c) /\ Reached(c)' = Reached(c)
         /\ \A b : RowBefore(c, b)' = RowBefore(c, b) /\ LastRow(c, b)' = LastRow(c, b)
<1>1. T!Asked(c)' = T!Asked(c)
  BY DEF T!Asked, T!Row
<1>2. T!Serial(c)' = T!Serial(c)
  BY DEF T!Serial
<1>3. Entered(c)' = Entered(c)
  BY DEF Entered
<1>4. States(c)' = States(c)
  BY DEF States
<1>5. Reached(c)' = Reached(c)
  BY <1>1 DEF Reached
<1>6. \A b : RowBefore(c, b)' = RowBefore(c, b) /\ LastRow(c, b)' = LastRow(c, b)
  BY DEF RowBefore, LastRow, T!Row
<1> QED
  BY <1>1, <1>2, <1>3, <1>4, <1>5, <1>6

LEMMA LongerSequence ==
  ASSUME NEW Elements, NEW list \in Seq(Elements), NEW e \in Elements, NEW longer, longer = Append(list, e)
  PROVE  /\ longer \in Seq(Elements) /\ Len(longer) = Len(list) + 1 /\ longer[Len(list) + 1] = e
         /\ \A i \in 1 .. Len(list) : longer[i] = list[i]
BY AppendProperties

\* What is stored of the calls that end, begin or go on with other rows than these.
LEMMA StoredOfOthers ==
  ASSUME NEW c, \A row \in committed' : row \in committed \/ row.call # c, committed \subseteq committed'
  PROVE  T!StoredOf(c)' = T!StoredOf(c) /\ \A b : Through(c, b)' = Through(c, b)
BY DEF T!StoredOf, Through

\* What StoredIsRight says of a call that has ended.
EndedRight(c) ==
  /\ outcome[c] = "resolved" => T!StoredOf(c) = T!Asked(c)
  /\ outcome[c] = "refused" => T!StoredOf(c) = {}
  /\ T!Serial(c) => T!StoredOf(c) = {} \/ (outcome[c] \in {"resolved", "lost"} /\ T!StoredOf(c) = T!Asked(c))
  /\ outcome[c] = "rolled back" =>
        \A stray \in T!StoredOf(c) :
           /\ branches[c] # <<>> => stray.branch \in DOMAIN branches[c]
           /\ \E n \in Nat : Through(c, stray.branch) \subseteq
                 {T!Row(c, stages[c], stray.branch, n), T!Row(c, stages[c], stray.branch, n + 1)}
  /\ outcome[c] = "rolled back" =>
        \A b \in DOMAIN branches[c] :
           Through(c, b) \subseteq IF branches[c][b].state = "waiting" THEN {RowBefore(c, b)}
                                   ELSE {RowBefore(c, b), LastRow(c, b)}

LEMMA StoredInParts ==
  StoredIsRight <=>
    /\ \A row \in committed : row.call \in Calls
    /\ \A c \in Calls : /\ c = LastCall /\ phase \in {"starting", "running", "committing"} => T!StoredOf(c) = {}
                        /\ EndedRight(c)
BY DEF StoredIsRight, EndedRight

LEMMA SameEnded ==
  ASSUME NEW c, callbacks'[c] = callbacks[c], stages'[c] = stages[c], branches'[c] = branches[c], outcome'[c] = outcome[c],
         T!StoredOf(c)' = T!StoredOf(c), \A b : Through(c, b)' = Through(c, b)
  PROVE  EndedRight(c)' <=> EndedRight(c)
<1>1. /\ T!Asked(c)' = T!Asked(c) /\ T!Serial(c)' = T!Serial(c)
      /\ \A b : RowBefore(c, b)' = RowBefore(c, b) /\ LastRow(c, b)' = LastRow(c, b)
  BY SameCall
<1>2. (/\ outcome[c] = "resolved" => T!StoredOf(c) = T!Asked(c)
       /\ outcome[c] = "refused" => T!StoredOf(c) = {}
       /\ T!Serial(c) => T!StoredOf(c) = {} \/ (outcome[c] \in {"resolved", "lost"} /\ T!StoredOf(c) = T!Asked(c)))'
      <=>
      (/\ outcome[c] = "resolved" => T!StoredOf(c) = T!Asked(c)
       /\ outcome[c] = "refused" => T!StoredOf(c) = {}
       /\ T!Serial(c) => T!StoredOf(c) = {} \/ (outcome[c] \in {"resolved", "lost"} /\ T!StoredOf(c) = T!Asked(c)))
  BY <1>1
<1>3. (outcome[c] = "rolled back" =>
        \A stray \in T!StoredOf(c) :
           /\ branches[c] # <<>> => stray.branch \in DOMAIN branches[c]
           /\ \E n \in Nat : Through(c, stray.branch) \subseteq
                 {T!Row(c, stages[c], stray.branch, n), T!Row(c, stages[c], stray.branch, n + 1)})'
      <=>
      (outcome[c] = "rolled back" =>
        \A stray \in T!StoredOf(c) :
           /\ branches[c] # <<>> => stray.branch \in DOMAIN branches[c]
           /\ \E n \in Nat : Through(c, stray.branch) \subseteq
                 {T!Row(c, stages[c], stray.branch, n), T!Row(c, stages[c], stray.branch, n + 1)})
  BY Zenon DEF T!Row
<1>4. (outcome[c] = "rolled back" =>
        \A b \in DOMAIN branches[c] :
           Through(c, b) \subseteq IF branches[c][b].state = "waiting" THEN {RowBefore(c, b)}
                                   ELSE {RowBefore(c, b), LastRow(c, b)})'
      <=>
      (outcome[c] = "rolled back" =>
        \A b \in DOMAIN branches[c] :
           Through(c, b) \subseteq IF branches[c][b].state = "waiting" THEN {RowBefore(c, b)}
                                   ELSE {RowBefore(c, b), LastRow(c, b)})
  BY <1>1, Zenon
<1> QED
  BY <1>2, <1>3, <1>4, Zenon DEF EndedRight

\* A statement other than a write goes to the end of the queue.
LEMMA QueuePut ==
  ASSUME TxTypes, QueueIsRight, NEW kind \in {"START", "COMMIT", "ROLLBACK"},
         IsPut([is |-> kind, row |-> None]),
         \A i \in DOMAIN queue : Writes(i),
         \A row : IsSent(row) => IsSent(row)',
         \/ kind = "START" /\ phase' = "starting"
         \/ kind = "COMMIT" /\ phase' = "committing"
         \/ kind = "ROLLBACK" /\ phase' = "rolling back",
         phase' \in {"committing", "rolling back"} => \A i \in DOMAIN queue : queue[i].row.call = LastCall'
  PROVE  QueueIsRight' /\ queue' \in Seq(TxStatements)
<1> DEFINE statement == [is |-> kind, row |-> None]
<1>1. statement \in TxStatements /\ statement.is = kind /\ kind # "write"
  BY Zenon DEF TxStatements
<1> HIDE DEF statement
<1>2. queue' \in Seq(TxStatements)
  BY <1>1, IntoTheQueue, Zenon DEF IsPut, statement
<1>3. PICK last : /\ DOMAIN queue' = DOMAIN queue \cup {last} /\ last \notin DOMAIN queue
                  /\ queue'[last] = statement /\ \A i \in DOMAIN queue : queue'[i] = queue[i]
                  /\ \A i \in DOMAIN queue \cup {last} : ~ (last < i)
  BY <1>1, IntoTheQueue, Zenon DEF IsPut, statement
<1>4. \A i \in DOMAIN queue' : i = last \/ (i \in DOMAIN queue /\ queue'[i] = queue[i] /\ queue'[i].is = "write")
  BY <1>3, Zenon DEF Writes
<1>5. (\A i \in DOMAIN queue : Writes(i) => IsSent(queue[i].row))'
  <2> SUFFICES ASSUME NEW i \in DOMAIN queue', queue'[i].is = "write"
               PROVE  IsSent(queue[i].row)'
    BY Zenon DEF Writes
  <2>1. i # last
    BY <1>1, <1>3, Zenon
  <2>2. i \in DOMAIN queue /\ queue'[i] = queue[i] /\ Writes(i)
    BY <1>4, <2>1, Zenon
  <2>3. PICK r : r = queue[i].row
    BY Zenon
  <2>4. IsSent(r)'
    BY <2>2, <2>3, Zenon DEF QueueIsRight
  <2> QED
    BY <2>2, <2>3, <2>4, Zenon DEF IsSent
<1>6. ASSUME NEW i \in DOMAIN queue', NEW j \in DOMAIN queue', i # j, queue'[i].is = queue'[j].is
      PROVE  queue'[i].is = "write" /\ queue'[i].row # queue'[j].row
  <2>1. i # last /\ j # last
    BY <1>1, <1>3, <1>4, <1>6, Zenon
  <2>2. i \in DOMAIN queue /\ queue'[i] = queue[i] /\ j \in DOMAIN queue /\ queue'[j] = queue[j]
    BY <1>4, <2>1, Zenon
  <2>3. Writes(i) /\ queue[i].row # queue[j].row
    BY <1>6, <2>2, Zenon DEF QueueIsRight
  <2> QED
    BY <2>2, <2>3, Zenon DEF Writes
<1>7. (\A i, j \in DOMAIN queue : i # j /\ queue[i].is = queue[j].is => Writes(i) /\ queue[i].row # queue[j].row)'
  BY <1>6, Zenon DEF Writes
<1>8. (\A i \in DOMAIN queue : ~Writes(i) =>
          \/ phase = "starting" /\ queue[i].is = "START" /\ IsLast(i)
          \/ phase = "committing" /\ queue[i].is = "COMMIT" /\ IsLast(i)
          \/ phase = "rolling back" /\ queue[i].is = "ROLLBACK")'
  <2> SUFFICES ASSUME NEW i \in DOMAIN queue', ~Writes(i)'
               PROVE  \/ phase' = "starting" /\ queue'[i].is = "START" /\ IsLast(i)'
                      \/ phase' = "committing" /\ queue'[i].is = "COMMIT" /\ IsLast(i)'
                      \/ phase' = "rolling back" /\ queue'[i].is = "ROLLBACK"
    BY Zenon
  <2>1. i = last
    BY <1>4, Zenon DEF Writes
  <2>2. IsLast(i)'
    BY <1>3, <2>1, Zenon DEF IsLast
  <2>3. queue'[i].is = kind
    BY <1>1, <1>3, <2>1, Zenon
  <2> QED
    BY <2>2, <2>3, Zenon
<1>9. (\A i \in DOMAIN queue : Writes(i) => (phase \in {"running", "committing", "rolling back"} => queue[i].row.call = LastCall))'
  <2> SUFFICES ASSUME NEW i \in DOMAIN queue', queue'[i].is = "write", phase' \in {"running", "committing", "rolling back"}
               PROVE  queue'[i].row.call = LastCall'
    BY Zenon DEF Writes
  <2>1. i \in DOMAIN queue /\ queue'[i] = queue[i]
    BY <1>1, <1>3, <1>4, Zenon
  <2> QED
    BY <2>1, Zenon
<1>10. (phase = "rolling back" => \E i \in DOMAIN queue : queue[i].is = "ROLLBACK")'
  <2>1. phase' = "rolling back" => queue'[last].is = "ROLLBACK"
    BY <1>1, <1>3, Zenon
  <2> QED
    BY <1>3, <2>1, Zenon
<1> QED
  BY <1>2, <1>5, <1>7, <1>8, <1>9, <1>10, Zenon DEF QueueIsRight

LEMMA BeginCallbackKeeps ==
  ASSUME TxInv, NEW callback \in Callbacks, T!Begin(callback)
  PROVE  TxInv'
<1>1. /\ TxTypes /\ PhasesAreRight /\ BranchesAreRight /\ BehindAFailure /\ QueueIsRight
      /\ WrittenIsRight /\ StoredIsRight /\ StraysAreRight
  BY DEF TxInv
<1>2. /\ connected /\ phase = "rest" /\ active = 0 /\ phase' = "starting"
      /\ callbacks' = Append(callbacks, callback) /\ outcome' = Append(outcome, None)
      /\ stages' = Append(stages, 0) /\ branches' = Append(branches, <<>>)
      /\ UNCHANGED <<active, connected, open, written, committed>>
  BY DEF T!Begin, T!database
<1>3. IsPut([is |-> "START", row |-> None])
  BY DEF T!Begin, T!Send, T!Statement, IsPut
<1>4. PICK n \in Nat : n = LastCall /\ Calls = 1 .. n
  BY <1>1, TxFacts
<1>5. callbacks' \in Seq(Callbacks) /\ LastCall' = n + 1 /\ callbacks'[n + 1] = callback
      /\ \A c \in 1 .. n : callbacks'[c] = callbacks[c]
  BY <1>1, <1>2, <1>4, LongerSequence DEF TxTypes, LastCall
<1>6. outcome' \in Seq(TxOutcomes) /\ Len(outcome') = n + 1 /\ outcome'[n + 1] = None
      /\ \A c \in 1 .. n : outcome'[c] = outcome[c]
  <2>1. None \in TxOutcomes
    BY DEF TxOutcomes
  <2> QED
    BY <1>1, <1>2, <1>4, <2>1, LongerSequence DEF TxTypes
<1>7. stages' \in Seq(Nat) /\ Len(stages') = n + 1 /\ stages'[n + 1] = 0
      /\ \A c \in 1 .. n : stages'[c] = stages[c]
  <2>1. 0 \in Nat /\ stages \in Seq(Nat) /\ Len(stages) = n /\ stages' = Append(stages, 0)
    BY <1>1, <1>2, <1>4 DEF TxTypes
  <2> QED
    BY <2>1, LongerSequence
<1>8. branches' \in Seq(Seq(TxBranches)) /\ Len(branches') = n + 1 /\ branches'[n + 1] = <<>>
      /\ \A c \in 1 .. n : branches'[c] = branches[c]
  <2>1. <<>> \in Seq(TxBranches)
    BY EmptySeq
  <2> QED
    BY <1>1, <1>2, <1>4, <2>1, LongerSequence DEF TxTypes
<1>9. n + 1 # 0 /\ n + 1 \notin 1 .. n /\ 1 .. n + 1 = (1 .. n) \cup {n + 1}
  OBVIOUS
<1>10. Calls' = 1 .. n + 1
  BY <1>5 DEF Calls, LastCall
<1>11. PICK last : last = n + 1
  OBVIOUS
<1>12. /\ last # 0 /\ last \notin Calls /\ Calls' = Calls \cup {last} /\ LastCall' = last
       /\ outcome'[last] = None /\ branches'[last] = <<>>
       /\ \A c \in Calls : /\ callbacks'[c] = callbacks[c] /\ outcome'[c] = outcome[c]
                           /\ stages'[c] = stages[c] /\ branches'[c] = branches[c]
  BY <1>4, <1>5, <1>6, <1>7, <1>8, <1>9, <1>10, <1>11, Zenon
<1>13. TxTypes'
  BY <1>1, <1>2, <1>3, <1>5, <1>6, <1>7, <1>8, <1>9, QueuePut, IntoTheQueue DEF TxTypes, TxPhases, TxStatements, IsPut
<1>14. PhasesAreRight'
  BY <1>1, <1>2, <1>12 DEF PhasesAreRight
<1>15. \A c \in Calls : Entered(c)' = Entered(c) /\ States(c)' = States(c)
  BY <1>12, SameCall
<1>16. States(last)' = {}
  BY <1>12 DEF States
<1>17. None \notin {"resolved", "rolled back", "lost", "refused"}
  BY PagesAssumption, Zenon DEF T!TransactionsAssumption
<1>18. BranchesAreRight'
  BY <1>1, <1>2, <1>12, <1>15, <1>16, <1>17, Zenon DEF BranchesAreRight
<1>19. BehindAFailure'
  BY <1>1, <1>2, <1>12, <1>15, <1>16 DEF BehindAFailure
<1>20. QueueIsRight'
  <2>1. \A i \in DOMAIN queue : Writes(i)
    BY <1>1, <1>2 DEF QueueIsRight
  <2>2. \A row : IsSent(row) => IsSent(row)'
    BY <1>12 DEF IsSent
  <2> QED
    BY <1>1, <1>2, <1>3, <2>1, <2>2, QueuePut
<1>21. WrittenIsRight'
  BY <1>1, <1>2 DEF WrittenIsRight
<1>22. \A row \in committed : row.call \in Calls
  BY <1>1, Zenon DEF StoredIsRight
<1>23. StoredIsRight'
  <2>1. T!StoredOf(last)' = {}
    BY <1>2, <1>12, <1>22 DEF T!StoredOf
  <2>2. EndedRight(last)'
    BY <1>12, <1>17, <2>1, Zenon DEF EndedRight
  <2>3. \A c \in Calls : T!StoredOf(c)' = T!StoredOf(c) /\ \A b : Through(c, b)' = Through(c, b)
    BY <1>2, StoredOfOthers
  <2>4. \A c \in Calls : EndedRight(c)' <=> EndedRight(c)
    BY <1>12, <2>3, SameEnded
  <2>5. \A c \in Calls : EndedRight(c)
    BY <1>1, StoredInParts
  <2>6. (\A row \in committed : row.call \in Calls)'
    BY <1>2, <1>12, <1>22
  <2>7. (\A c \in Calls : /\ c = LastCall /\ phase \in {"starting", "running", "committing"} => T!StoredOf(c) = {}
                          /\ EndedRight(c))'
    BY <1>12, <2>1, <2>2, <2>4, <2>5
  <2>8. (StoredIsRight <=>
    /\ \A row \in committed : row.call \in Calls
    /\ \A c \in Calls : /\ c = LastCall /\ phase \in {"starting", "running", "committing"} => T!StoredOf(c) = {}
                        /\ EndedRight(c))'
    BY StoredInParts, PTL
  <2> QED
    BY <2>6, <2>7, <2>8
<1>24. StraysAreRight'
  BY <1>2, Zenon DEF StraysAreRight
<1> QED
  BY <1>13, <1>14, <1>18, <1>19, <1>20, <1>21, <1>23, <1>24 DEF TxInv

LEMMA StoredNext ==
  ASSUME \A row \in committed' : row.call \in Calls',
         \A c \in Calls' : (c = LastCall' /\ phase' \in {"starting", "running", "committing"} => T!StoredOf(c)' = {})
                           /\ EndedRight(c)'
  PROVE  StoredIsRight'
<1>1. (StoredIsRight <=>
    /\ \A row \in committed : row.call \in Calls
    /\ \A c \in Calls : /\ c = LastCall /\ phase \in {"starting", "running", "committing"} => T!StoredOf(c) = {}
                        /\ EndedRight(c))'
  BY StoredInParts, PTL
<1> QED
  BY <1>1

\* While a call runs with all its branches done, nothing is in the queue.
LEMMA NothingIsAsked ==
  ASSUME TxInv, phase = "running", States(LastCall) \subseteq {"done"}
  PROVE  DOMAIN queue = {} /\ queue = <<>>
<1>1. TxTypes /\ QueueIsRight
  BY DEF TxInv
<1>2. ASSUME NEW i \in DOMAIN queue
      PROVE  FALSE
  <2>1. Writes(i)
    BY <1>1 DEF QueueIsRight
  <2>2. IsSent(queue[i].row) /\ queue[i].row.call = LastCall
    BY <1>1, <2>1 DEF QueueIsRight
  <2>3. branches[LastCall][queue[i].row.branch].state = "waiting" /\ queue[i].row.branch \in DOMAIN branches[LastCall]
    BY <2>2 DEF IsSent
  <2>4. "waiting" \in States(LastCall)
    BY <2>3 DEF States
  <2> QED
    BY <2>4
<1>3. queue \in Seq(TxStatements) /\ DOMAIN queue = {}
  BY <1>1, <1>2 DEF TxTypes
<1>4. queue = <<>>
  <2> DEFINE elements == TxStatements
  <2>1. queue \in Seq(elements) /\ DOMAIN queue = {}
    BY <1>3
  <2> HIDE DEF elements
  <2>2. DOMAIN queue = 1 .. Len(queue) /\ Len(queue) \in Nat
    BY <2>1
  <2>3. Len(queue) = 0
    BY <2>1, <2>2
  <2> QED
    BY <2>1, <2>3
<1> QED
  BY <1>3, <1>4

\* When a statement other than a write is answered that is the last one, nothing is left.
LEMMA NothingIsLeft ==
  ASSUME TxTypes, queue # <<>>, IsLast(1)
  PROVE  Tail(queue) = <<>> /\ DOMAIN queue = {1} /\ Head(queue) = queue[1]
<1>1. queue \in Seq(TxStatements)
  BY DEF TxTypes
<1> DEFINE elements == TxStatements
<1>2. queue \in Seq(elements)
  BY <1>1
<1> HIDE DEF elements
<1>3. PICK n \in Nat : n = Len(queue) /\ DOMAIN queue = 1 .. n /\ n # 0 /\ Head(queue) = queue[1]
  BY <1>2
<1>4. n = 1
  <2>1. n \in 1 .. n
    BY <1>3
  <2>2. ~ (1 < n)
    BY <1>3, <2>1 DEF IsLast
  <2> QED
    BY <1>3, <2>2
<1>5. DOMAIN queue = {1}
  BY <1>3, <1>4
<1>6. Tail(queue) = <<>>
  <2>1. PICK rest : rest = Tail(queue)
    OBVIOUS
  <2>2. rest \in Seq(elements)
    BY <1>2, <1>3, <2>1
  <2>3. Len(rest) = 0
    BY <1>2, <1>3, <1>4, <2>1
  <2>4. rest = <<>>
    BY <2>2, <2>3
  <2> QED
    BY <2>1, <2>4
<1> QED
  BY <1>3, <1>5, <1>6

\* The only statement other than a write is the one that the phase waits for.
LEMMA WhatIsAnswered ==
  ASSUME TxInv, queue # <<>>, Head(queue).is # "write"
  PROVE  /\ 1 \in DOMAIN queue /\ Head(queue) = queue[1]
         /\ \/ phase = "starting" /\ Head(queue).is = "START" /\ Tail(queue) = <<>>
            \/ phase = "committing" /\ Head(queue).is = "COMMIT" /\ Tail(queue) = <<>>
            \/ phase = "rolling back" /\ Head(queue).is = "ROLLBACK"
<1>1. TxTypes /\ QueueIsRight
  BY DEF TxInv
<1>2. 1 \in DOMAIN queue /\ Head(queue) = queue[1]
  <2>1. queue \in Seq(TxStatements)
    BY <1>1 DEF TxTypes
  <2> DEFINE elements == TxStatements
  <2>2. queue \in Seq(elements)
    BY <2>1
  <2> HIDE DEF elements
  <2> QED
    BY <2>2
<1>3. \/ phase = "starting" /\ queue[1].is = "START" /\ IsLast(1)
      \/ phase = "committing" /\ queue[1].is = "COMMIT" /\ IsLast(1)
      \/ phase = "rolling back" /\ queue[1].is = "ROLLBACK"
  BY <1>1, <1>2, Zenon DEF QueueIsRight, Writes
<1> QED
  BY <1>1, <1>2, <1>3, NothingIsLeft, Zenon

\* A call enters a stage.
LEMMA EnteredStage ==
  ASSUME TxTypes, NEW c \in Calls, c = LastCall, NEW s \in DOMAIN callbacks[c], T!EnterStage(s), UNCHANGED callbacks
  PROVE  /\ stages' \in Seq(Nat) /\ Len(stages') = LastCall
         /\ branches' \in Seq(Seq(TxBranches)) /\ Len(branches') = LastCall
         /\ Entered(c)' /\ Reached(c)' = {row \in T!Asked(c) : row.stage < s}
         /\ \A d \in Calls : d # c => stages'[d] = stages[d] /\ branches'[d] = branches[d]
<1>1. /\ stages \in Seq(Nat) /\ Len(stages) = LastCall /\ branches \in Seq(Seq(TxBranches)) /\ Len(branches) = LastCall
      /\ c \in 1 .. LastCall /\ Calls = 1 .. LastCall /\ LastCall \in Nat
  BY TxFacts DEF TxTypes
<1>2. PICK list \in Seq(Nat) : list = callbacks[c][s]
  BY CallbackFacts
<1>3. s \in Nat
  BY CallbackFacts
<1> DEFINE fresh == [b \in DOMAIN list |-> [sent |-> 0, state |-> "ready"]]
<1>4. stages' = [stages EXCEPT ![c] = s] /\ branches' = [branches EXCEPT ![c] = fresh]
  BY <1>2 DEF T!EnterStage, T!Call, LastCall
<1>5. fresh \in Seq(TxBranches) /\ DOMAIN fresh = DOMAIN list
      /\ \A b \in DOMAIN list : fresh[b].sent = 0 /\ fresh[b].state = "ready"
  <2>1. [sent |-> 0, state |-> "ready"] \in TxBranches
    BY DEF TxBranches
  <2> DEFINE elements == TxBranches
             first == [sent |-> 0, state |-> "ready"]
  <2>2. first \in elements /\ first.sent = 0 /\ first.state = "ready"
    BY <2>1
  <2> HIDE DEF elements, first
  <2>3. [b \in 1 .. Len(list) |-> first] \in Seq(elements)
    BY <2>2
  <2>4. DOMAIN list = 1 .. Len(list)
    OBVIOUS
  <2> QED
    BY <2>2, <2>3, <2>4 DEF elements, first
<1> HIDE DEF fresh
<1>6. /\ stages' \in Seq(Nat) /\ Len(stages') = LastCall /\ stages'[c] = s
      /\ \A d \in Calls : d # c => stages'[d] = stages[d]
  BY <1>1, <1>3, <1>4
<1>7. /\ branches' \in Seq(Seq(TxBranches)) /\ Len(branches') = LastCall
  <2> DEFINE lists == Seq(TxBranches)
  <2>1. branches \in Seq(lists) /\ fresh \in lists
    BY <1>1, <1>5
  <2> HIDE DEF lists
  <2>2. [branches EXCEPT ![c] = fresh] \in Seq(lists) /\ Len([branches EXCEPT ![c] = fresh]) = Len(branches)
    BY <1>1, <2>1
  <2> QED
    BY <1>1, <1>4, <2>2 DEF lists
<1>8. branches'[c] = fresh /\ \A d \in Calls : d # c => branches'[d] = branches[d]
  BY <1>1, <1>4
<1>9. Entered(c)'
  <2>1. \A b \in DOMAIN list : list[b] \in Nat
    OBVIOUS
  <2>2. \A b \in DOMAIN list : 0 <= list[b]
    BY <2>1
  <2> QED
    BY <1>2, <1>5, <1>6, <1>8, <2>2 DEF Entered
<1>10. Reached(c)' = {row \in T!Asked(c) : row.stage < s}
  <2>1. T!Asked(c)' = T!Asked(c)
    BY SameCallbacks
  <2>2. \A row \in T!Asked(c) : /\ row.number \in Nat /\ 1 <= row.number
                                /\ row.stage = s => row.branch \in DOMAIN list
    BY <1>2, WhatIsAsked DEF TxRows
  <2>3. \A row \in T!Asked(c) : ~ (row.number < 0) /\ row.number # 0
    BY <2>2
  <2>4. \A row \in T!Asked(c) : row.stage = s => branches'[c][row.branch].sent = 0
    BY <1>5, <1>8, <2>2
  <2> QED
    BY <1>6, <2>1, <2>3, <2>4 DEF Reached
<1> QED
  BY <1>6, <1>7, <1>8, <1>9, <1>10

\* What holds when the last call enters a stage.
LEMMA Entering ==
  ASSUME TxInv, NEW c \in Calls, c = LastCall, NEW s \in DOMAIN callbacks[c], T!EnterStage(s),
         UNCHANGED <<callbacks, outcome, connected, committed>>,
         connected, outcome[c] = None, T!StoredOf(c) = {},
         phase \in {"starting", "running"}, phase' = "running", active' = c, queue' = <<>>, open' = TRUE,
         written' = {row \in T!Asked(c) : row.stage < s}
  PROVE  TxInv'
<1>1. /\ TxTypes /\ PhasesAreRight /\ BranchesAreRight /\ BehindAFailure
      /\ WrittenIsRight /\ StoredIsRight
  BY DEF TxInv
<1>2. /\ stages' \in Seq(Nat) /\ Len(stages') = LastCall
      /\ branches' \in Seq(Seq(TxBranches)) /\ Len(branches') = LastCall
      /\ Entered(c)' /\ Reached(c)' = {row \in T!Asked(c) : row.stage < s}
      /\ \A d \in Calls : d # c => stages'[d] = stages[d] /\ branches'[d] = branches[d]
  BY <1>1, EnteredStage
<1>3. Calls' = Calls /\ LastCall' = LastCall /\ \A d : T!Asked(d)' = T!Asked(d) /\ T!Serial(d)' = T!Serial(d)
  BY SameCallbacks
<1>4. \A d \in Calls : d # c => Entered(d)' = Entered(d) /\ States(d)' = States(d)
  BY <1>2, SameCall
<1>5. queue' \in Seq(TxStatements) /\ DOMAIN queue' = {}
  BY EmptySeq
<1>6. TxTypes'
  <2>1. \A row \in T!Asked(c) : row \in TxRows
    BY <1>1, WhatIsAsked
  <2> QED
    BY <1>1, <1>2, <1>3, <1>5, <2>1, Zenon DEF TxTypes, TxPhases
<1>7. PhasesAreRight'
  BY <1>1, <1>3 DEF PhasesAreRight
<1>8. BranchesAreRight'
  <2>1. None \notin {"resolved", "rolled back", "lost", "refused"}
    BY PagesAssumption, Zenon DEF T!TransactionsAssumption
  <2>2. (\A d \in Calls : branches[d] = <<>> \/ Entered(d))'
    BY <1>1, <1>2, <1>3, <1>4 DEF BranchesAreRight
  <2>3. (\A d \in Calls : d = LastCall =>
           /\ phase = "starting" => branches[d] = <<>>
           /\ phase \in {"running", "committing"} => Entered(d)
           /\ phase = "committing" => stages[d] = Len(callbacks[d]) /\ States(d) \subseteq {"done"})'
    BY <1>2, <1>3
  <2>4. (\A d \in Calls : /\ outcome[d] \in {"refused", "lost"} => branches[d] = <<>>
                          /\ outcome[d] = "resolved" => States(d) \subseteq {"done"})'
    BY <1>1, <1>2, <1>3, <1>4, <2>1, ZenonT(60) DEF BranchesAreRight
  <2> QED
    BY <2>2, <2>3, <2>4 DEF BranchesAreRight
<1>9. BehindAFailure'
  BY <1>1, <1>3, <1>4 DEF BehindAFailure
<1>10. QueueIsRight'
  BY <1>5 DEF QueueIsRight
<1>11. WrittenIsRight'
  <2>1. \A row \in T!Asked(c) : row.call = c
    BY <1>1, WhatIsAsked
  <2> QED
    BY <1>2, <1>3, <2>1 DEF WrittenIsRight
<1>12. StoredIsRight'
  <2>1. \A d \in Calls : T!StoredOf(d)' = T!StoredOf(d) /\ \A b : Through(d, b)' = Through(d, b)
    BY StoredOfOthers
  <2>2. \A d \in Calls : EndedRight(d)
    BY <1>1, StoredInParts
  <2>3. \A d \in Calls : d # c => EndedRight(d)'
    BY <1>2, <2>1, <2>2, SameEnded
  <2>4. EndedRight(c)'
    <3>1. None \notin {"resolved", "rolled back", "lost", "refused"}
      BY PagesAssumption, Zenon DEF T!TransactionsAssumption
    <3> QED
      BY <2>1, <3>1, Zenon DEF EndedRight
  <2>5. \A row \in committed' : row.call \in Calls'
    BY <1>1, <1>3, Zenon DEF StoredIsRight
  <2>6. \A d \in Calls' : (d = LastCall' /\ phase' \in {"starting", "running", "committing"} => T!StoredOf(d)' = {})
                           /\ EndedRight(d)'
    BY <1>3, <2>1, <2>3, <2>4
  <2> QED
    BY <2>5, <2>6, StoredNext
<1>13. StraysAreRight'
  BY Zenon DEF StraysAreRight
<1> QED
  BY <1>6, <1>7, <1>8, <1>9, <1>10, <1>11, <1>12, <1>13 DEF TxInv

\* A call whose branches are done has written all of its stages so far.
LEMMA StageIsWritten ==
  ASSUME TxInv, NEW c \in Calls, c = LastCall, phase = "running", States(c) \subseteq {"done"}
  PROVE  /\ open /\ written = {row \in T!Asked(c) : row.stage < stages[c] + 1}
         /\ stages[c] \in DOMAIN callbacks[c]
<1>1. TxTypes /\ BranchesAreRight /\ WrittenIsRight
  BY DEF TxInv
<1>2. "failed" \notin States(c)
  OBVIOUS
<1>3. open /\ written = Reached(c)
  BY <1>1, <1>2 DEF WrittenIsRight
<1>4. Entered(c)
  BY <1>1 DEF BranchesAreRight
<1>5. stages[c] \in Nat /\ stages[c] \in DOMAIN callbacks[c]
  BY <1>1, <1>4, TxFacts DEF Entered
<1>6. ASSUME NEW row \in T!Asked(c)
      PROVE  row \in Reached(c) <=> row.stage < stages[c] + 1
  <2>1. row.stage \in Nat /\ row.number \in Nat
    BY <1>1, WhatIsAsked DEF TxRows
  <2>2. CASE row.stage = stages[c]
    <3>1. row.branch \in DOMAIN branches[c] /\ row.number <= callbacks[c][stages[c]][row.branch]
      BY <1>1, <1>4, <2>2, WhatIsAsked DEF Entered
    <3>2. branches[c][row.branch].state = "done"
      BY <3>1 DEF States
    <3>3. row.number <= branches[c][row.branch].sent /\ branches[c][row.branch].sent \in Nat
      BY <1>1, <1>4, <3>1, <3>2, TxFacts DEF Entered, TxBranches
    <3>4. row.number < branches[c][row.branch].sent \/ row.number = branches[c][row.branch].sent
      BY <2>1, <3>3
    <3> QED
      BY <1>5, <2>2, <3>2, <3>4 DEF Reached
  <2>3. CASE row.stage # stages[c]
    BY <1>5, <2>1, <2>3 DEF Reached
  <2> QED
    BY <2>2, <2>3
<1>7. \A row \in Reached(c) : row \in T!Asked(c)
  BY DEF Reached
<1> QED
  BY <1>3, <1>5, <1>6, <1>7

LEMMA NoneIsNoEnd == None \notin {"resolved", "rolled back", "lost", "refused"}
BY PagesAssumption, Zenon DEF T!TransactionsAssumption

\* What is known of the last call while it is not over.
LEMMA NotOver ==
  ASSUME TxInv, phase # "rest"
  PROVE  LastCall \in Calls /\ outcome[LastCall] = None /\ connected
<1>1. TxTypes /\ PhasesAreRight
  BY DEF TxInv
<1>2. LastCall \in Calls
  BY <1>1, LastIsACall
<1>3. connected
  BY <1>1 DEF PhasesAreRight, TxTypes
<1> QED
  BY <1>1, <1>2, <1>3 DEF PhasesAreRight

LEMMA NextStageKeeps ==
  ASSUME TxInv, T!NextStage
  PROVE  TxInv'
<1>1. TxTypes /\ PhasesAreRight /\ StoredIsRight
  BY DEF TxInv
<1>2. /\ phase = "running" /\ States(LastCall) \subseteq {"done"} /\ stages[LastCall] < Len(callbacks[LastCall])
      /\ T!EnterStage(stages[LastCall] + 1)
      /\ UNCHANGED <<callbacks, phase, outcome, active, queue, connected, open, written, committed>>
  BY DEF T!NextStage, T!AllDone, T!Call, LastCall, States, T!database
<1>3. PICK c \in Calls : c = LastCall
  BY <1>2, NotOver
<1>4. open /\ written = {row \in T!Asked(c) : row.stage < stages[c] + 1} /\ stages[c] \in DOMAIN callbacks[c]
  BY <1>2, <1>3, StageIsWritten
<1>5. stages[c] + 1 \in DOMAIN callbacks[c]
  <2>1. Len(callbacks[c]) \in Nat /\ DOMAIN callbacks[c] = 1 .. Len(callbacks[c])
    BY <1>1, CallbackFacts
  <2> QED
    BY <1>2, <1>3, <1>4, <2>1
<1>6. connected /\ outcome[c] = None /\ active = c
  BY <1>1, <1>2, <1>3, NotOver DEF PhasesAreRight
<1>7. T!StoredOf(c) = {}
  BY <1>1, <1>2, <1>3, Zenon DEF StoredIsRight
<1>8. queue' = <<>>
  BY <1>2, NothingIsAsked
<1>9. open = TRUE
  BY <1>1, <1>4 DEF TxTypes
<1>10. PICK s \in DOMAIN callbacks[c] : s = stages[c] + 1
  BY <1>5
<1> QED
  BY <1>2, <1>3, <1>4, <1>6, <1>7, <1>8, <1>9, <1>10, Entering

LEMMA AnswerStartKeeps ==
  ASSUME TxInv, T!AnswerStart
  PROVE  TxInv'
<1>1. TxTypes /\ PhasesAreRight /\ StoredIsRight /\ WrittenIsRight
  BY DEF TxInv
<1>2. /\ queue # <<>> /\ Head(queue).is = "START" /\ queue' = Tail(queue)
      /\ committed' = committed \cup written /\ open' = TRUE /\ written' = {}
      /\ phase' = "running" /\ active' = LastCall /\ T!EnterStage(1)
      /\ UNCHANGED <<callbacks, outcome, connected>>
  BY DEF T!AnswerStart, T!Answers, T!Answered, T!Call, LastCall
<1>3. phase = "starting" /\ queue' = <<>>
  BY <1>2, WhatIsAnswered, Zenon
<1>4. PICK c \in Calls : c = LastCall
  BY <1>3, NotOver
<1>5. written = {}
  BY <1>1, <1>3 DEF WrittenIsRight
<1>6. connected /\ outcome[c] = None
  BY <1>3, <1>4, NotOver
<1>7. T!StoredOf(c) = {}
  BY <1>1, <1>3, <1>4, Zenon DEF StoredIsRight
<1>8. PICK s \in DOMAIN callbacks[c] : s = 1
  <2>1. Len(callbacks[c]) \in Nat \ {0} /\ DOMAIN callbacks[c] = 1 .. Len(callbacks[c])
    BY <1>1, CallbackFacts
  <2> QED
    BY <2>1
<1>9. {row \in T!Asked(c) : row.stage < 1} = {}
  <2>1. DOMAIN callbacks[c] = 1 .. Len(callbacks[c])
    BY <1>1, CallbackFacts
  <2>2. \A row \in T!Asked(c) : row.stage \in DOMAIN callbacks[c]
    BY <1>1, WhatIsAsked
  <2> QED
    BY <2>1, <2>2
<1>10. committed' = committed
  BY <1>2, <1>5
<1> QED
  BY <1>2, <1>3, <1>4, <1>6, <1>7, <1>8, <1>9, <1>10, Entering

LEMMA OneElement ==
  ASSUME NEW Elements, NEW nothing \in Seq(Elements), Len(nothing) = 0, NEW e \in Elements,
         NEW list, list = Append(nothing, e)
  PROVE  list \in Seq(Elements) /\ DOMAIN list = {1} /\ list[1] = e
<1>1. list \in Seq(Elements) /\ Len(list) = 1 /\ list[1] = e
  BY LongerSequence
<1>2. DOMAIN list = 1 .. 1
  BY <1>1
<1>3. 1 .. 1 = {1}
  OBVIOUS
<1> QED
  BY <1>1, <1>2, <1>3

IsAlone(statement) == queue' = Append(<<>>, statement)
PhaseGoesTo(kind) == phase' = IF kind = "COMMIT" THEN "committing" ELSE "rolling back"

\* One statement other than a write is in the queue.
LEMMA OneStatement ==
  ASSUME NEW kind \in {"COMMIT", "ROLLBACK"}, IsAlone([is |-> kind, row |-> None]),
         PhaseGoesTo(kind)
  PROVE  QueueIsRight' /\ queue' \in Seq(TxStatements)
<1>1. PICK statement \in TxStatements : statement = [is |-> kind, row |-> None]
  BY DEF TxStatements
<1>2. statement.is = kind
  BY <1>1
<1>3. IsAlone(statement)
  BY <1>1
<1>4. queue' \in Seq(TxStatements) /\ DOMAIN queue' = {1} /\ queue'[1] = statement
  <2>1. PICK nothing : nothing = <<>> /\ nothing \in Seq(TxStatements) /\ Len(nothing) = 0
    BY EmptySeq
  <2>2. queue' = Append(nothing, statement)
    BY <1>3, <2>1 DEF IsAlone
  <2> QED
    BY <2>1, <2>2, OneElement
<1>5. \A i \in DOMAIN queue' : i = 1 /\ queue'[i].is = kind
  BY <1>2, <1>4
<1>6. \A i \in DOMAIN queue' : \A j \in DOMAIN queue' : ~ (i < j)
  <2>1. ~ (1 < 1)
    OBVIOUS
  <2> QED
    BY <1>4, <2>1
<1>7. \A i \in DOMAIN queue' : IsLast(i)' /\ ~Writes(i)'
  BY <1>5, <1>6 DEF IsLast, Writes
<1>8. (\A i \in DOMAIN queue : Writes(i) => IsSent(queue[i].row))'
  BY <1>7
<1>9. (\A i, j \in DOMAIN queue : i # j /\ queue[i].is = queue[j].is => Writes(i) /\ queue[i].row # queue[j].row)'
  BY <1>5
<1>10. (\A i \in DOMAIN queue : ~Writes(i) =>
          \/ phase = "starting" /\ queue[i].is = "START" /\ IsLast(i)
          \/ phase = "committing" /\ queue[i].is = "COMMIT" /\ IsLast(i)
          \/ phase = "rolling back" /\ queue[i].is = "ROLLBACK")'
  BY <1>5, <1>7, Zenon DEF PhaseGoesTo
<1>11. (\A i \in DOMAIN queue : Writes(i) => (phase \in {"running", "committing", "rolling back"} => queue[i].row.call = LastCall))'
  BY <1>7, Zenon
<1>12. (phase = "rolling back" => \E i \in DOMAIN queue : queue[i].is = "ROLLBACK")'
  BY <1>2, <1>4, Zenon DEF PhaseGoesTo
<1> QED
  BY <1>4, <1>8, <1>9, <1>10, <1>11, <1>12, Zenon DEF QueueIsRight

\* The end of a transaction is asked for.
LEMMA EndIsAsked ==
  ASSUME TxInv, NEW c \in Calls, c = LastCall, phase \in {"running", "committing"}, phase' \in {"committing", "rolling back"},
         UNCHANGED <<callbacks, outcome, stages, branches, active, connected, open, written, committed>>,
         QueueIsRight', queue' \in Seq(TxStatements),
         phase' = "committing" => /\ stages[c] = Len(callbacks[c]) /\ States(c) \subseteq {"done"}
                                  /\ open /\ written = T!Asked(c),
         phase' = "rolling back" => "failed" \in States(c) \/ States(c) \subseteq {"done"}
  PROVE  TxInv'
<1>1. /\ TxTypes /\ PhasesAreRight /\ BranchesAreRight /\ BehindAFailure
      /\ WrittenIsRight /\ StoredIsRight
  BY Zenon DEF TxInv
<1>3. Calls' = Calls /\ LastCall' = LastCall /\ \A d : T!Asked(d)' = T!Asked(d) /\ T!Serial(d)' = T!Serial(d)
  BY SameCallbacks, Zenon
<1>4. \A d \in Calls : Entered(d)' = Entered(d) /\ States(d)' = States(d)
  BY SameCall, Zenon
<1>6. TxTypes'
  BY <1>1, <1>3, Zenon DEF TxTypes, TxPhases
<1>7. PhasesAreRight'
  BY <1>1, <1>3, NotOver, Zenon DEF PhasesAreRight
<1>8. BranchesAreRight'
  <2>2. (\A d \in Calls : branches[d] = <<>> \/ Entered(d))'
    BY <1>1, <1>3, <1>4, Zenon DEF BranchesAreRight
  <2>3. (\A d \in Calls : d = LastCall =>
           /\ phase = "starting" => branches[d] = <<>>
           /\ phase \in {"running", "committing"} => Entered(d)
           /\ phase = "committing" => stages[d] = Len(callbacks[d]) /\ States(d) \subseteq {"done"})'
    BY <1>1, <1>3, <1>4, Zenon DEF BranchesAreRight
  <2>4. (\A d \in Calls : /\ outcome[d] \in {"refused", "lost"} => branches[d] = <<>>
                          /\ outcome[d] = "resolved" => States(d) \subseteq {"done"})'
    BY <1>1, <1>3, <1>4, Zenon DEF BranchesAreRight
  <2> QED
    BY <2>2, <2>3, <2>4, Zenon DEF BranchesAreRight
<1>9. BehindAFailure'
  BY <1>1, <1>3, <1>4, Zenon DEF BehindAFailure
<1>11. WrittenIsRight'
  BY <1>1, <1>3, Zenon DEF WrittenIsRight
<1>10. T!StoredOf(c) = {}
  BY <1>1, Zenon DEF StoredIsRight
<1>12. StoredIsRight'
  <2>1. \A d \in Calls : T!StoredOf(d)' = T!StoredOf(d) /\ \A b : Through(d, b)' = Through(d, b)
    BY StoredOfOthers, Zenon
  <2>2. \A d \in Calls : EndedRight(d)
    BY <1>1, StoredInParts, Zenon
  <2>3. \A d \in Calls : EndedRight(d)'
    BY <2>1, <2>2, SameEnded, Zenon
  <2>5. \A row \in committed' : row.call \in Calls'
    BY <1>1, <1>3, Zenon DEF StoredIsRight
  <2> QED
    BY <1>3, <1>10, <2>1, <2>3, <2>5, StoredNext, Zenon
<1>13. StraysAreRight'
  <2>1. T!StoredOf(c)' = {} /\ \A b : Through(c, b)' = {}
    BY <1>10, Zenon DEF T!StoredOf, Through
  <2> QED
    BY <1>3, <2>1, Zenon DEF StraysAreRight
<1> QED
  BY <1>6, <1>7, <1>8, <1>9, <1>11, <1>12, <1>13, Zenon DEF TxInv

LEMMA CommitKeeps ==
  ASSUME TxInv, T!Commit
  PROVE  TxInv'
<1>1. /\ phase = "running" /\ States(LastCall) \subseteq {"done"} /\ stages[LastCall] = Len(callbacks[LastCall])
      /\ phase' = "committing" /\ queue' = Append(queue, [is |-> "COMMIT", row |-> None])
      /\ UNCHANGED <<callbacks, outcome, stages, branches, active, connected, open, written, committed>>
  BY DEF T!Commit, T!AllDone, T!Call, LastCall, States, T!database, T!callback, T!Send, T!Statement
<1>2. PICK c \in Calls : c = LastCall
  BY <1>1, NotOver
<1>3. open /\ written = {row \in T!Asked(c) : row.stage < stages[c] + 1} /\ TxTypes
  BY <1>1, <1>2, StageIsWritten DEF TxInv
<1>4. written = T!Asked(c)
  <2>1. PICK n \in Nat : n = Len(callbacks[c]) /\ DOMAIN callbacks[c] = 1 .. n /\ stages[c] = n
    BY <1>1, <1>2, <1>3, CallbackFacts
  <2>2. \A row \in T!Asked(c) : row.stage \in 1 .. n
    BY <1>3, <2>1, WhatIsAsked
  <2>3. \A i \in 1 .. n : i < n + 1
    OBVIOUS
  <2> QED
    BY <1>3, <2>1, <2>2, <2>3
<1>5. queue = <<>>
  BY <1>1, NothingIsAsked
<1>6. QueueIsRight' /\ queue' \in Seq(TxStatements)
  BY <1>1, <1>5, OneStatement DEF IsAlone, PhaseGoesTo
<1> QED
  BY <1>1, <1>2, <1>3, <1>4, <1>6, EndIsAsked

LEMMA RollBackKeeps ==
  ASSUME TxInv, T!RollBack
  PROVE  TxInv'
<1>1. /\ phase = "running" /\ "failed" \in States(LastCall) /\ phase' = "rolling back"
      /\ UNCHANGED <<callbacks, outcome, stages, branches, active, connected, open, written, committed>>
  BY Zenon DEF T!RollBack, T!Failed, T!Call, LastCall, States, T!database, T!callback
<1>2. IsPut([is |-> "ROLLBACK", row |-> None])
  BY Zenon DEF T!RollBack, T!Send, T!Statement, IsPut
<1>3. PICK c \in Calls : c = LastCall
  BY <1>1, NotOver, Zenon
<1>4. TxTypes /\ QueueIsRight
  BY DEF TxInv
<1>5. /\ \A i \in DOMAIN queue : Writes(i) /\ queue[i].row.call = LastCall
      /\ LastCall' = LastCall /\ Calls' = Calls
  BY <1>1, <1>4, SameCallbacks, Zenon DEF QueueIsRight
<1>6. \A row : IsSent(row) => IsSent(row)'
  BY <1>1, <1>5, Zenon DEF IsSent
<1>7. QueueIsRight' /\ queue' \in Seq(TxStatements)
  BY <1>1, <1>2, <1>4, <1>5, <1>6, QueuePut, Zenon
<1> QED
  BY <1>1, <1>3, <1>7, EndIsAsked, Zenon

LEMMA FailCommitKeeps ==
  ASSUME TxInv, T!FailCommit
  PROVE  TxInv'
<1>1. /\ queue # <<>> /\ Head(queue).is = "COMMIT" /\ phase' = "rolling back"
      /\ queue' = Append(Tail(queue), [is |-> "ROLLBACK", row |-> None])
      /\ UNCHANGED <<callbacks, outcome, stages, branches, active, connected, open, written, committed>>
  BY Zenon DEF T!FailCommit, T!Answers, T!database, T!callback, T!Statement
<1>2. phase = "committing" /\ Tail(queue) = <<>>
  BY <1>1, WhatIsAnswered, Zenon
<1>3. PICK c \in Calls : c = LastCall
  BY <1>2, NotOver
<1>4. QueueIsRight' /\ queue' \in Seq(TxStatements)
  BY <1>1, <1>2, OneStatement, Zenon DEF IsAlone, PhaseGoesTo
<1>5. States(c) \subseteq {"done"}
  BY <1>2, <1>3 DEF TxInv, BranchesAreRight
<1> QED
  BY <1>1, <1>2, <1>3, <1>4, <1>5, EndIsAsked, Zenon

LEMMA Ending ==
  ASSUME TxTypes, NEW c \in Calls, NEW how \in TxOutcomes, outcome' = [outcome EXCEPT ![c] = how]
  PROVE  /\ outcome' \in Seq(TxOutcomes) /\ Len(outcome') = LastCall /\ outcome'[c] = how
         /\ \A d \in Calls : d # c => outcome'[d] = outcome[d]
<1>1. outcome \in Seq(TxOutcomes) /\ Len(outcome) = LastCall /\ Calls = 1 .. LastCall
  BY TxFacts DEF TxTypes
<1> DEFINE elements == TxOutcomes
<1>2. outcome \in Seq(elements) /\ how \in elements
  BY <1>1
<1> HIDE DEF elements
<1>3. /\ outcome' \in Seq(elements) /\ Len(outcome') = LastCall /\ outcome'[c] = how
      /\ \A d \in Calls : d # c => outcome'[d] = outcome[d]
  BY <1>1, <1>2
<1> QED
  BY <1>3 DEF elements

\* The last call ends, with its connection.
LEMMA EndKeeps ==
  ASSUME TxInv, NEW c \in Calls, c = LastCall, phase # "rest",
         NEW how \in {"resolved", "rolled back", "refused"}, outcome' = [outcome EXCEPT ![c] = how],
         UNCHANGED <<callbacks, stages, branches, connected>>,
         phase' = "rest", active' = 0, open' = FALSE, written' = {},
         queue' \in Seq(TxStatements), QueueIsRight',
         committed' \subseteq TxRows, committed \subseteq committed',
         \A row \in committed' : row \in committed \/ row.call = c,
         EndedRight(c)',
         how = "refused" => branches[c] = <<>>,
         how = "resolved" => States(c) \subseteq {"done"},
         "failed" \in States(c) \/ States(c) \subseteq {"done"}
  PROVE  TxInv'
<1>1. /\ TxTypes /\ PhasesAreRight /\ BranchesAreRight /\ BehindAFailure /\ StoredIsRight
  BY Zenon DEF TxInv
<1>2. Calls' = Calls /\ LastCall' = LastCall
  BY SameCallbacks, Zenon
<1>3. /\ outcome' \in Seq(TxOutcomes) /\ Len(outcome') = LastCall /\ outcome'[c] = how
      /\ \A d \in Calls : d # c => outcome'[d] = outcome[d]
  <2>1. how \in TxOutcomes
    BY Zenon DEF TxOutcomes
  <2> QED
    BY <1>1, <2>1, Ending, Zenon
<1>4. \A d \in Calls : Entered(d)' = Entered(d) /\ States(d)' = States(d)
  BY SameCall, Zenon
<1>5. TxTypes'
  BY <1>1, <1>2, <1>3, Zenon DEF TxTypes, TxPhases
<1>6. PhasesAreRight'
  <2>1. \A d \in Calls : outcome'[d] # None
    BY <1>1, <1>3, NoneIsNoEnd, Zenon DEF PhasesAreRight
  <2> QED
    BY <1>1, <1>2, <2>1, NotOver, Zenon DEF PhasesAreRight
<1>7. BranchesAreRight'
  <2>2. (\A d \in Calls : branches[d] = <<>> \/ Entered(d))'
    BY <1>1, <1>2, <1>4, Zenon DEF BranchesAreRight
  <2>3. (\A d \in Calls : d = LastCall =>
           /\ phase = "starting" => branches[d] = <<>>
           /\ phase \in {"running", "committing"} => Entered(d)
           /\ phase = "committing" => stages[d] = Len(callbacks[d]) /\ States(d) \subseteq {"done"})'
    BY Zenon
  <2>4. (\A d \in Calls : /\ outcome[d] \in {"refused", "lost"} => branches[d] = <<>>
                          /\ outcome[d] = "resolved" => States(d) \subseteq {"done"})'
    BY <1>1, <1>2, <1>3, <1>4, ZenonT(60) DEF BranchesAreRight
  <2> QED
    BY <2>2, <2>3, <2>4, Zenon DEF BranchesAreRight
<1>8. BehindAFailure'
  BY <1>1, <1>2, <1>4, Zenon DEF BehindAFailure
<1>9. WrittenIsRight'
  BY Zenon DEF WrittenIsRight
<1>10. StoredIsRight'
  <2>1. \A d \in Calls : d # c => T!StoredOf(d)' = T!StoredOf(d) /\ \A b : Through(d, b)' = Through(d, b)
    BY StoredOfOthers, Zenon
  <2>2. \A d \in Calls : EndedRight(d)
    BY <1>1, StoredInParts, Zenon
  <2>3. \A d \in Calls : EndedRight(d)'
    <3>1. ASSUME NEW d \in Calls, d # c
          PROVE  EndedRight(d)'
      BY <1>3, <2>1, <2>2, <3>1, SameEnded, Zenon
    <3> QED
      BY <3>1, Zenon
  <2>4. \A row \in committed' : row.call \in Calls'
    BY <1>1, <1>2, Zenon DEF StoredIsRight
  <2> QED
    BY <1>2, <2>3, <2>4, StoredNext, Zenon
<1>11. StraysAreRight'
  BY Zenon DEF StraysAreRight
<1> QED
  BY <1>5, <1>6, <1>7, <1>8, <1>9, <1>10, <1>11, Zenon DEF TxInv

LEMMA NothingIsThere == <<>> \in Seq(TxStatements) /\ DOMAIN <<>> = {}
BY EmptySeq

LEMMA EmptyIsRight ==
  ASSUME queue' = <<>>, phase' = "rest"
  PROVE  QueueIsRight' /\ queue' \in Seq(TxStatements)
<1>1. DOMAIN queue' = {} /\ queue' \in Seq(TxStatements)
  BY NothingIsThere, Zenon
<1> QED
  BY <1>1 DEF QueueIsRight

LEMMA FailStartKeeps ==
  ASSUME TxInv, T!FailStart
  PROVE  TxInv'
<1>1. TxTypes /\ PhasesAreRight /\ BranchesAreRight /\ WrittenIsRight /\ StoredIsRight
  BY DEF TxInv
<1>2. /\ queue # <<>> /\ Head(queue).is = "START" /\ queue' = Tail(queue)
      /\ phase' = "rest" /\ outcome' = [outcome EXCEPT ![LastCall] = "refused"]
      /\ UNCHANGED <<callbacks, stages, branches, active, connected, open, written, committed>>
  BY DEF T!FailStart, T!Answers, T!Answered, T!Call, LastCall, T!database, T!callback
<1>3. phase = "starting" /\ queue' = <<>>
  BY <1>2, WhatIsAnswered, Zenon
<1>4. PICK c \in Calls : c = LastCall
  BY <1>3, NotOver
<1>5. open' = FALSE /\ written' = {} /\ active' = 0
  BY <1>1, <1>2, <1>3 DEF WrittenIsRight, TxTypes, PhasesAreRight
<1>6. branches[c] = <<>>
  BY <1>1, <1>3, <1>4 DEF BranchesAreRight
<1>7. States(c) = {}
  BY <1>6 DEF States
<1>8. T!StoredOf(c)' = {}
  BY <1>1, <1>2, <1>3, <1>4, Zenon DEF StoredIsRight, T!StoredOf
<1>9. outcome'[c] = "refused"
  <2>1. "refused" \in TxOutcomes
    BY DEF TxOutcomes
  <2> QED
    BY <1>1, <1>2, <1>4, <2>1, Ending
<1>10. EndedRight(c)'
  BY <1>8, <1>9 DEF EndedRight
<1>11. QueueIsRight' /\ queue' \in Seq(TxStatements)
  BY <1>2, <1>3, EmptyIsRight
<1>12. committed' \subseteq TxRows
  BY <1>1, <1>2 DEF TxTypes
<1> QED
  BY <1>2, <1>3, <1>4, <1>5, <1>6, <1>7, <1>10, <1>11, <1>12, EndKeeps, Zenon

LEMMA AnswerCommitKeeps ==
  ASSUME TxInv, T!AnswerCommit
  PROVE  TxInv'
<1>1. TxTypes /\ PhasesAreRight /\ BranchesAreRight /\ WrittenIsRight /\ StoredIsRight
  BY DEF TxInv
<1>2. /\ queue # <<>> /\ Head(queue).is = "COMMIT" /\ queue' = Tail(queue)
      /\ committed' = committed \cup written /\ open' = FALSE /\ written' = {}
      /\ phase' = "rest" /\ active' = 0 /\ outcome' = [outcome EXCEPT ![LastCall] = "resolved"]
      /\ UNCHANGED <<callbacks, stages, branches, connected>>
  BY DEF T!AnswerCommit, T!Answers, T!Answered, T!End, T!Call, LastCall, T!callback
<1>3. phase = "committing" /\ queue' = <<>>
  BY <1>2, WhatIsAnswered, Zenon
<1>4. PICK c \in Calls : c = LastCall
  BY <1>3, NotOver
<1>5. written = T!Asked(c) /\ \A row \in written : row.call = c
  BY <1>1, <1>3, <1>4 DEF WrittenIsRight
<1>6. States(c) \subseteq {"done"}
  BY <1>1, <1>3, <1>4 DEF BranchesAreRight
<1>7. T!StoredOf(c) = {}
  BY <1>1, <1>3, <1>4, Zenon DEF StoredIsRight
<1>8. T!StoredOf(c)' = T!Asked(c)'
  <2>1. T!Asked(c)' = T!Asked(c)
    BY <1>2, SameCallbacks
  <2>2. T!StoredOf(c)' = T!Asked(c)
    BY <1>2, <1>5, <1>7 DEF T!StoredOf
  <2> QED
    BY <2>1, <2>2
<1>9. outcome'[c] = "resolved"
  <2>1. "resolved" \in TxOutcomes
    BY DEF TxOutcomes
  <2> QED
    BY <1>1, <1>2, <1>4, <2>1, Ending
<1>10. EndedRight(c)'
  BY <1>8, <1>9 DEF EndedRight
<1>11. QueueIsRight' /\ queue' \in Seq(TxStatements)
  BY <1>2, <1>3, EmptyIsRight
<1>12. /\ committed' \subseteq TxRows /\ committed \subseteq committed'
       /\ \A row \in committed' : row \in committed \/ row.call = c
  BY <1>1, <1>2, <1>5 DEF TxTypes
<1> QED
  BY <1>2, <1>3, <1>4, <1>6, <1>10, <1>11, <1>12, EndKeeps, Zenon

\* Past the ROLLBACK there are only writes.
LEMMA WritesAreLeft ==
  ASSUME TxInv, queue # <<>>, Head(queue).is = "ROLLBACK", queue' = Tail(queue), phase' = "rest",
         UNCHANGED <<callbacks, stages, branches>>
  PROVE  QueueIsRight' /\ queue' \in Seq(TxStatements)
<1>1. TxTypes /\ QueueIsRight
  BY DEF TxInv
<1>2. queue' \in Seq(TxStatements) /\ 1 \in DOMAIN queue /\ Head(queue) = queue[1]
  BY <1>1, OutOfTheQueue
<1>3. PICK place : /\ \A i \in DOMAIN queue' : place[i] \in DOMAIN queue /\ queue'[i] = queue[place[i]]
                   /\ \A i \in DOMAIN queue' : place[i] # 1
                   /\ \A i, j \in DOMAIN queue' : i # j => place[i] # place[j]
  BY <1>1, OutOfTheQueue, ZenonT(60)
<1>4. phase = "rolling back"
  BY WhatIsAnswered, Zenon
<1>5. \A k \in DOMAIN queue : k # 1 => Writes(k)
  <2>1. ASSUME NEW k \in DOMAIN queue, k # 1, ~Writes(k)
        PROVE  FALSE
    <3>1. queue[k].is = "ROLLBACK"
      BY <1>1, <1>4, <2>1, Zenon DEF QueueIsRight
    <3> QED
      BY <1>1, <1>2, <2>1, <3>1, Zenon DEF QueueIsRight
  <2> QED
    BY <2>1
<1>6. Calls' = Calls
  BY SameCallbacks
<1>7. \A i \in DOMAIN queue' : Writes(i)'
  BY <1>3, <1>5 DEF Writes
<1>8. (\A i \in DOMAIN queue : Writes(i) => IsSent(queue[i].row))'
  <2> SUFFICES ASSUME NEW i \in DOMAIN queue'
               PROVE  IsSent(queue[i].row)'
    OBVIOUS
  <2>1. PICK k \in DOMAIN queue : k # 1 /\ queue'[i] = queue[k]
    BY <1>3
  <2>2. PICK r : r = queue[k].row
    OBVIOUS
  <2>3. IsSent(r)
    BY <1>1, <1>5, <2>1, <2>2, Zenon DEF QueueIsRight
  <2>4. IsSent(r)'
    BY <1>6, <2>3 DEF IsSent
  <2> QED
    BY <2>1, <2>2, <2>4 DEF IsSent
<1>9. ASSUME NEW i \in DOMAIN queue', NEW j \in DOMAIN queue', i # j, queue'[i].is = queue'[j].is
      PROVE  queue'[i].is = "write" /\ queue'[i].row # queue'[j].row
  <2>1. PICK k \in DOMAIN queue, m \in DOMAIN queue :
          k = place[i] /\ m = place[j] /\ k # m /\ queue'[i] = queue[k] /\ queue'[j] = queue[m]
    BY <1>3, <1>9
  <2>2. queue[k].is = "write" /\ queue[k].row # queue[m].row
    BY <1>1, <1>9, <2>1, ZenonT(60) DEF QueueIsRight, Writes
  <2> QED
    BY <2>1, <2>2
<1>10. (\A i, j \in DOMAIN queue : i # j /\ queue[i].is = queue[j].is => Writes(i) /\ queue[i].row # queue[j].row)'
  BY <1>9, Zenon DEF Writes
<1> QED
  BY <1>2, <1>7, <1>8, <1>10 DEF QueueIsRight

LEMMA AnswerRollbackKeeps ==
  ASSUME TxInv, T!AnswerRollback
  PROVE  TxInv'
<1>1. /\ TxTypes /\ PhasesAreRight /\ BranchesAreRight /\ BehindAFailure /\ WrittenIsRight
      /\ StoredIsRight /\ StraysAreRight
  BY DEF TxInv
<1>2. /\ queue # <<>> /\ Head(queue).is = "ROLLBACK" /\ queue' = Tail(queue)
      /\ committed' = committed /\ open' = FALSE /\ written' = {}
      /\ phase' = "rest" /\ active' = 0 /\ outcome' = [outcome EXCEPT ![LastCall] = "rolled back"]
      /\ UNCHANGED <<callbacks, stages, branches, connected>>
  BY Zenon DEF T!AnswerRollback, T!Answers, T!Answered, T!Discard, T!End, T!Call, LastCall, T!callback
<1>3. phase = "rolling back"
  BY <1>2, WhatIsAnswered, Zenon
<1>4. PICK c \in Calls : c = LastCall
  BY <1>3, NotOver, Zenon
<1>5. QueueIsRight' /\ queue' \in Seq(TxStatements)
  BY <1>2, WritesAreLeft, Zenon
<1>6. "failed" \in States(c) \/ States(c) \subseteq {"done"}
  BY <1>1, <1>3, Zenon DEF BehindAFailure
<1>7. outcome[c] = None /\ outcome'[c] = "rolled back"
  <2>1. "rolled back" \in TxOutcomes
    BY DEF TxOutcomes
  <2> QED
    BY <1>1, <1>2, <1>3, <1>4, <2>1, Ending, NotOver, Zenon
<1>8. /\ T!StoredOf(c)' = T!StoredOf(c) /\ \A b : Through(c, b)' = Through(c, b)
      /\ T!Serial(c)' = T!Serial(c)
      /\ \A b : RowBefore(c, b)' = RowBefore(c, b) /\ LastRow(c, b)' = LastRow(c, b)
  <2>1. T!StoredOf(c)' = T!StoredOf(c) /\ \A b : Through(c, b)' = Through(c, b)
    BY <1>2, StoredOfOthers, Zenon
  <2> QED
    BY <1>2, <2>1, SameCall, Zenon
<1>9. EndedRight(c)'
  <2>1. T!Serial(c) => T!StoredOf(c) = {}
    BY <1>1, <1>7, NoneIsNoEnd, Zenon DEF StoredIsRight
  <2>2. /\ \A row \in T!StoredOf(c) : row.branch \in DOMAIN branches[c]
        /\ \A b \in DOMAIN branches[c] :
              Through(c, b) \subseteq IF IsBefore(b) THEN {}
                                      ELSE IF branches[c][b].state = "waiting" THEN {RowBefore(c, b)}
                                      ELSE {LastRow(c, b)}
    BY <1>1, <1>3, <1>4, Zenon DEF StraysAreRight
  <2>3. ASSUME NEW b \in DOMAIN branches[c]
        PROVE  \E n \in Nat : Through(c, b) \subseteq {T!Row(c, stages[c], b, n), T!Row(c, stages[c], b, n + 1)}
    <3>1. branches[c][b].sent \in Nat
      BY <1>1, TxFacts DEF TxBranches
    <3>2. CASE branches[c][b].state = "waiting"
      <4>1. Entered(c)
        BY <1>1, HasBranches DEF BranchesAreRight
      <4>2. branches[c][b].sent # 0
        BY <3>2, <4>1 DEF Entered
      <4>3. PICK n \in Nat : n = branches[c][b].sent - 1
        BY <3>1, <4>2, OneBefore
      <4>4. Through(c, b) \subseteq {T!Row(c, stages[c], b, n)}
        BY <2>2, <3>2, <4>3 DEF RowBefore
      <4> QED
        BY <4>4
    <3>3. CASE branches[c][b].state # "waiting"
      <4>1. PICK n \in Nat : n = branches[c][b].sent
        BY <3>1
      <4>2. Through(c, b) \subseteq {T!Row(c, stages[c], b, n)}
        BY <2>2, <3>3, <4>1 DEF LastRow
      <4> QED
        BY <4>2
    <3> QED
      BY <3>2, <3>3
  <2>4. (outcome[c] = "rolled back" =>
        \A stray \in T!StoredOf(c) :
           /\ branches[c] # <<>> => stray.branch \in DOMAIN branches[c]
           /\ \E n \in Nat : Through(c, stray.branch) \subseteq
                 {T!Row(c, stages[c], stray.branch, n), T!Row(c, stages[c], stray.branch, n + 1)})'
    <3> SUFFICES ASSUME NEW stray \in T!StoredOf(c)
                 PROVE  /\ stray.branch \in DOMAIN branches'[c]
                        /\ \E n \in Nat : Through(c, stray.branch)' \subseteq
                              {T!Row(c, stages'[c], stray.branch, n), T!Row(c, stages'[c], stray.branch, n + 1)}
      BY <1>8, Zenon DEF T!Row
    <3>1. stray.branch \in DOMAIN branches[c]
      BY <2>2
    <3> QED
      BY <1>2, <1>8, <2>3, <3>1, ZenonT(60)
  <2>5. (outcome[c] = "rolled back" =>
        \A b \in DOMAIN branches[c] :
           Through(c, b) \subseteq IF branches[c][b].state = "waiting" THEN {RowBefore(c, b)}
                                   ELSE {RowBefore(c, b), LastRow(c, b)})'
    BY <1>2, <1>8, <2>2, Zenon
  <2>6. (/\ outcome[c] = "resolved" => T!StoredOf(c) = T!Asked(c)
         /\ outcome[c] = "refused" => T!StoredOf(c) = {}
         /\ T!Serial(c) => T!StoredOf(c) = {} \/ (outcome[c] \in {"resolved", "lost"} /\ T!StoredOf(c) = T!Asked(c)))'
    BY <1>7, <1>8, <2>1, Zenon
  <2> QED
    BY <2>4, <2>5, <2>6, Zenon DEF EndedRight
<1>10. committed' \subseteq TxRows
  BY <1>1, <1>2, Zenon DEF TxTypes
<1> QED
  BY <1>2, <1>3, <1>4, <1>5, <1>6, <1>9, <1>10, EndKeeps, Zenon

\* What is known of a call, when the connection breaks.
LEMMA LostRight ==
  ASSUME TxInv, NEW c \in Calls, branches'[c] = <<>>, UNCHANGED <<callbacks, stages>>,
         outcome'[c] = outcome[c] \/ (c = LastCall /\ phase # "rest" /\ outcome'[c] = "lost"),
         T!StoredOf(c)' = T!StoredOf(c), \A b : Through(c, b)' = Through(c, b)
  PROVE  EndedRight(c)'
<1>1. TxTypes /\ PhasesAreRight /\ StoredIsRight
  BY DEF TxInv
<1>2. T!Asked(c)' = T!Asked(c) /\ T!Serial(c)' = T!Serial(c)
  BY SameCallbacks
<1>3. EndedRight(c)
  BY <1>1, StoredInParts
<1>4. outcome'[c] # outcome[c] => outcome[c] = None /\ outcome'[c] = "lost"
  BY <1>1, NotOver
<1>5. (/\ outcome[c] = "resolved" => T!StoredOf(c) = T!Asked(c)
       /\ outcome[c] = "refused" => T!StoredOf(c) = {}
       /\ T!Serial(c) => T!StoredOf(c) = {} \/ (outcome[c] \in {"resolved", "lost"} /\ T!StoredOf(c) = T!Asked(c)))'
  BY <1>2, <1>3, <1>4, NoneIsNoEnd, Zenon DEF EndedRight
<1>6. (outcome[c] = "rolled back" =>
        \A stray \in T!StoredOf(c) :
           /\ branches[c] # <<>> => stray.branch \in DOMAIN branches[c]
           /\ \E n \in Nat : Through(c, stray.branch) \subseteq
                 {T!Row(c, stages[c], stray.branch, n), T!Row(c, stages[c], stray.branch, n + 1)})'
  <2> SUFFICES ASSUME outcome'[c] = "rolled back", NEW stray \in T!StoredOf(c)
               PROVE  \E n \in Nat : Through(c, stray.branch)' \subseteq
                        {T!Row(c, stages'[c], stray.branch, n), T!Row(c, stages'[c], stray.branch, n + 1)}
    BY Zenon DEF T!Row
  <2>1. outcome[c] = "rolled back"
    BY <1>4, Zenon
  <2>2. \E n \in Nat : Through(c, stray.branch) \subseteq
           {T!Row(c, stages[c], stray.branch, n), T!Row(c, stages[c], stray.branch, n + 1)}
    BY <1>3, <2>1, Zenon DEF EndedRight
  <2> QED
    BY <2>2, Zenon
<1>7. DOMAIN branches'[c] = {}
  BY NothingIsThere
<1>8. (outcome[c] = "rolled back" =>
        \A b \in DOMAIN branches[c] :
           Through(c, b) \subseteq IF branches[c][b].state = "waiting" THEN {RowBefore(c, b)}
                                   ELSE {RowBefore(c, b), LastRow(c, b)})'
  BY <1>7, Zenon
<1> QED
  BY <1>5, <1>6, <1>8, Zenon DEF EndedRight

\* What is known of a call whose last row got through as the connection broke.
LEMMA LostRowRight ==
  ASSUME TxInv, NEW c \in Calls, NEW b \in DOMAIN branches[c], branches'[c] = <<>>, UNCHANGED <<callbacks, stages>>,
         branches[c][b].state = "waiting", branches[c][b].sent # 0,
         \E e \in DOMAIN branches[c] : e # b /\ branches[c][e].state = "failed",
         outcome'[c] = outcome[c] \/ (c = LastCall /\ phase # "rest" /\ outcome'[c] = "lost"),
         T!StoredOf(c)' = T!StoredOf(c) \cup {LastRow(c, b)},
         Through(c, b)' = Through(c, b) \cup {LastRow(c, b)}, \A e : e # b => Through(c, e)' = Through(c, e)
  PROVE  EndedRight(c)'
<1>1. TxTypes /\ PhasesAreRight /\ StoredIsRight /\ BranchesAreRight
  BY DEF TxInv
<1>2. T!Asked(c)' = T!Asked(c) /\ T!Serial(c)' = T!Serial(c)
  BY SameCallbacks
<1>3. EndedRight(c)
  BY <1>1, StoredInParts
<1>4. outcome'[c] # outcome[c] => outcome[c] = None /\ outcome'[c] = "lost"
  BY <1>1, NotOver
<1>5. Entered(c) /\ ~ (States(c) \subseteq {"done"}) /\ branches[c] # <<>>
  BY <1>1, HasBranches DEF BranchesAreRight, States
<1>6. outcome[c] \notin {"refused", "lost", "resolved"}
  BY <1>1, <1>5 DEF BranchesAreRight
<1>7. ~T!Serial(c)
  <2>1. PICK e \in DOMAIN branches[c] : e # b
    OBVIOUS
  <2>2. PICK list \in Seq(Nat) : list = callbacks[c][stages[c]] /\ DOMAIN list = DOMAIN branches[c]
    BY <1>1, <1>5, CallbackFacts DEF Entered
  <2>3. e \in DOMAIN list /\ b \in DOMAIN list /\ e # b
    BY <2>1, <2>2
  <2>4. Len(list) # 1
    BY <2>3, TwoPlaces
  <2> QED
    BY <1>5, <2>2, <2>4 DEF Entered, T!Serial
<1>8. (/\ outcome[c] = "resolved" => T!StoredOf(c) = T!Asked(c)
       /\ outcome[c] = "refused" => T!StoredOf(c) = {}
       /\ T!Serial(c) => T!StoredOf(c) = {} \/ (outcome[c] \in {"resolved", "lost"} /\ T!StoredOf(c) = T!Asked(c)))'
  BY <1>2, <1>4, <1>6, <1>7
<1>9. (outcome[c] = "rolled back" =>
        \A stray \in T!StoredOf(c) :
           /\ branches[c] # <<>> => stray.branch \in DOMAIN branches[c]
           /\ \E n \in Nat : Through(c, stray.branch) \subseteq
                 {T!Row(c, stages[c], stray.branch, n), T!Row(c, stages[c], stray.branch, n + 1)})'
  <2> SUFFICES ASSUME outcome'[c] = "rolled back", NEW stray \in T!StoredOf(c) \cup {LastRow(c, b)}
               PROVE  \E n \in Nat : Through(c, stray.branch)' \subseteq
                        {T!Row(c, stages'[c], stray.branch, n), T!Row(c, stages'[c], stray.branch, n + 1)}
    BY Zenon DEF T!Row
  <2>1. outcome[c] = "rolled back"
    BY <1>4, Zenon
  <2>2. CASE stray.branch = b
    <3>1. branches[c][b].sent \in Nat /\ branches[c][b].sent # 0
      BY <1>1, TxFacts, Zenon DEF TxBranches
    <3>2. PICK n \in Nat : n = branches[c][b].sent - 1 /\ n + 1 = branches[c][b].sent
      BY <3>1, OneBefore, Zenon
    <3>3. RowBefore(c, b) = T!Row(c, stages[c], b, n) /\ LastRow(c, b) = T!Row(c, stages[c], b, n + 1)
      BY <3>2, Zenon DEF RowBefore, LastRow
    <3>4. Through(c, b) \subseteq {RowBefore(c, b)}
      BY <1>3, <2>1, Zenon DEF EndedRight
    <3> QED
      BY <2>2, <3>3, <3>4, Zenon
  <2>3. CASE stray.branch # b
    <3>1. stray \in T!StoredOf(c)
      <4>1. LastRow(c, b).branch = b
        BY Zenon DEF LastRow, T!Row
      <4>2. stray # LastRow(c, b)
        BY <2>3, <4>1, Zenon
      <4> QED
        BY <4>2, Zenon
    <3>2. \E n \in Nat : Through(c, stray.branch) \subseteq
             {T!Row(c, stages[c], stray.branch, n), T!Row(c, stages[c], stray.branch, n + 1)}
      BY <1>3, <2>1, <3>1, Zenon DEF EndedRight
    <3> QED
      BY <2>3, <3>2, Zenon
  <2> QED
    BY <2>2, <2>3, Zenon
<1>10. DOMAIN branches'[c] = {}
  BY NothingIsThere
<1>11. (outcome[c] = "rolled back" =>
        \A e \in DOMAIN branches[c] :
           Through(c, e) \subseteq IF branches[c][e].state = "waiting" THEN {RowBefore(c, e)}
                                   ELSE {RowBefore(c, e), LastRow(c, e)})'
  BY <1>10, Zenon
<1> QED
  BY <1>8, <1>9, <1>11, Zenon DEF EndedRight

LEMMA LoseKeeps ==
  ASSUME TxInv, T!Lose
  PROVE  TxInv'
<1>1. /\ TxTypes /\ PhasesAreRight /\ BranchesAreRight /\ BehindAFailure /\ QueueIsRight
      /\ WrittenIsRight /\ StoredIsRight
  BY DEF TxInv
<1>2. /\ queue # <<>> /\ connected' = FALSE /\ queue' = <<>> /\ open' = FALSE /\ written' = {}
      /\ branches' = [c \in Calls |-> <<>>]
      /\ UNCHANGED <<callbacks, stages>>
  BY DEF T!Lose, Calls
<1>3. \/ committed' = committed
      \/ Head(queue).is = "COMMIT" /\ committed' = committed \cup written
      \/ Head(queue).is = "write" /\ ~open /\ committed' = committed \cup {Head(queue).row}
  BY DEF T!Lose
<1>4. phase' = "rest" /\ active' = 0
  BY <1>1 DEF T!Lose, T!End, PhasesAreRight
<1>5. Calls' = Calls /\ LastCall' = LastCall /\ \A d : T!Asked(d)' = T!Asked(d) /\ T!Serial(d)' = T!Serial(d)
  BY <1>2, SameCallbacks
<1>6. /\ outcome' \in Seq(TxOutcomes) /\ Len(outcome') = LastCall
      /\ \A d \in Calls : IF d = LastCall /\ phase # "rest" THEN outcome'[d] = "lost" ELSE outcome'[d] = outcome[d]
  <2>1. CASE phase = "rest"
    <3>1. outcome' = outcome
      BY <2>1 DEF T!Lose
    <3> QED
      BY <1>1, <2>1, <3>1 DEF TxTypes
  <2>2. CASE phase # "rest"
    <3>1. outcome' = [outcome EXCEPT ![LastCall] = "lost"]
      BY <2>2 DEF T!Lose, T!End, T!Call, LastCall
    <3>2. LastCall \in Calls /\ "lost" \in TxOutcomes
      BY <2>2, NotOver DEF TxOutcomes
    <3> QED
      BY <1>1, <2>2, <3>1, <3>2, Ending
  <2> QED
    BY <2>1, <2>2
<1>7. /\ branches' \in Seq(Seq(TxBranches)) /\ Len(branches') = LastCall
      /\ \A d \in Calls : branches'[d] = <<>>
  <2>1. PICK n \in Nat : n = LastCall /\ Calls = 1 .. n
    BY <1>1, TxFacts
  <2>2. PICK nothing \in Seq(TxBranches) : nothing = <<>>
    BY EmptySeq
  <2> DEFINE lists == Seq(TxBranches)
  <2>3. nothing \in lists /\ branches' = [c \in 1 .. n |-> nothing]
    BY <1>2, <2>1, <2>2
  <2> HIDE DEF lists
  <2>4. branches' \in Seq(lists) /\ Len(branches') = n
    BY <2>3
  <2> QED
    BY <2>1, <2>2, <2>3, <2>4 DEF lists
<1>8. \A d \in Calls : DOMAIN branches'[d] = {} /\ States(d)' = {}
  BY <1>7, NothingIsThere DEF States
<1>9. QueueIsRight' /\ queue' \in Seq(TxStatements)
  BY <1>2, <1>4, EmptyIsRight
<1>10. PhasesAreRight'
  <2>1. \A d \in Calls : outcome'[d] # None
    BY <1>1, <1>6, NoneIsNoEnd, Zenon DEF PhasesAreRight
  <2> QED
    BY <1>2, <1>4, <1>5, <1>7, <2>1 DEF PhasesAreRight
<1>11. BranchesAreRight'
  <2>1. (\A d \in Calls : branches[d] = <<>> /\ States(d) = {})'
    BY <1>5, <1>7, <1>8
  <2> QED
    BY <1>4, <2>1 DEF BranchesAreRight
<1>12. BehindAFailure'
  <2>1. (\A d \in Calls : States(d) = {})'
    BY <1>5, <1>8
  <2> QED
    BY <2>1 DEF BehindAFailure
<1>13. WrittenIsRight'
  BY <1>2, <1>4 DEF WrittenIsRight
<1>14. StraysAreRight'
  BY <1>4, Zenon DEF StraysAreRight
<1>15. \A d \in Calls : outcome'[d] = outcome[d] \/ (d = LastCall /\ phase # "rest" /\ outcome'[d] = "lost")
  BY <1>6
<1>16. ASSUME committed' = committed
       PROVE  committed' \subseteq TxRows /\ StoredIsRight'
  <2>1. \A d \in Calls : T!StoredOf(d)' = T!StoredOf(d) /\ \A b : Through(d, b)' = Through(d, b)
    BY <1>16, StoredOfOthers
  <2>2. \A d \in Calls : EndedRight(d)'
    BY <1>2, <1>7, <1>15, <2>1, LostRight
  <2>3. \A row \in committed' : row.call \in Calls'
    BY <1>1, <1>5, <1>16, Zenon DEF StoredIsRight
  <2>4. StoredIsRight'
    BY <1>4, <1>5, <2>2, <2>3, StoredNext
  <2> QED
    BY <1>1, <1>16, <2>4 DEF TxTypes
<1>17. ASSUME Head(queue).is = "COMMIT", committed' = committed \cup written
       PROVE  committed' \subseteq TxRows /\ StoredIsRight'
  <2>1. phase = "committing"
    BY <1>2, <1>17, WhatIsAnswered, Zenon
  <2>2. PICK c \in Calls : c = LastCall
    BY <2>1, NotOver
  <2>3. written = T!Asked(c) /\ (\A row \in written : row.call = c) /\ T!StoredOf(c) = {}
    BY <1>1, <2>1, <2>2, Zenon DEF WrittenIsRight, StoredIsRight
  <2>4. \A d \in Calls : d # c => T!StoredOf(d)' = T!StoredOf(d) /\ \A b : Through(d, b)' = Through(d, b)
    BY <1>17, <2>3, StoredOfOthers
  <2>5. T!StoredOf(c)' = T!Asked(c)
    BY <1>17, <2>3 DEF T!StoredOf
  <2>6. outcome'[c] = "lost"
    BY <1>6, <2>1, <2>2
  <2>7. EndedRight(c)'
    BY <1>5, <2>5, <2>6 DEF EndedRight
  <2>8. \A d \in Calls : EndedRight(d)'
    <3>1. ASSUME NEW d \in Calls, d # c
          PROVE  EndedRight(d)'
      BY <1>2, <1>7, <1>15, <2>4, <3>1, LostRight
    <3> QED
      BY <2>7, <3>1
  <2>9. \A row \in committed' : row.call \in Calls'
    BY <1>1, <1>5, <1>17, <2>2, <2>3, Zenon DEF StoredIsRight
  <2>10. StoredIsRight'
    BY <1>4, <1>5, <2>8, <2>9, StoredNext
  <2> QED
    BY <1>1, <1>17, <2>10 DEF TxTypes
<1>18. ASSUME Head(queue).is = "write", ~open, committed' = committed \cup {Head(queue).row}
       PROVE  committed' \subseteq TxRows /\ StoredIsRight'
  <2>1. PICK row : row = Head(queue).row
    OBVIOUS
  <2>2. PICK c \in Calls : c = row.call
    BY <1>2, <1>18, <2>1, FirstOfTheQueue, Zenon
  <2>3. PICK b \in DOMAIN branches[c] : b = row.branch
    BY <1>2, <1>18, <2>1, <2>2, FirstOfTheQueue, Zenon
  <2>4. /\ branches[c][b].state = "waiting" /\ branches[c][b].sent # 0
        /\ row \in TxRows /\ row = LastRow(c, b)
    BY <1>2, <1>18, <2>1, <2>2, <2>3, FirstOfTheQueue, Zenon
  <2>5. ~ (c = LastCall /\ phase = "running")
    <3> SUFFICES ASSUME c = LastCall, phase = "running"
                 PROVE  FALSE
      OBVIOUS
    <3>1. "failed" \notin States(c)
      BY DEF T!Lose, T!Settled, T!Failed, T!Call, LastCall, States
    <3> QED
      BY <1>1, <1>18, <3>1 DEF WrittenIsRight
  <2>6. "waiting" \in States(c)
    BY <2>4 DEF States
  <2>7. \E e \in DOMAIN branches[c] : e # b /\ branches[c][e].state = "failed"
    <3>1. PICK e \in DOMAIN branches[c] : branches[c][e].state = "failed"
      BY <1>1, <2>5, <2>6 DEF BehindAFailure, States
    <3> QED
      BY <2>4, <3>1
  <2>8. committed' = committed \cup {row} /\ row.call = c /\ row.branch = b
    BY <1>18, <2>1, <2>2, <2>3
  <2>9. \A d \in Calls : d # c => T!StoredOf(d)' = T!StoredOf(d) /\ \A e : Through(d, e)' = Through(d, e)
    BY <2>8, StoredOfOthers
  <2>10. /\ T!StoredOf(c)' = T!StoredOf(c) \cup {row} /\ Through(c, b)' = Through(c, b) \cup {row}
         /\ \A e : e # b => Through(c, e)' = Through(c, e)
    BY <2>8 DEF T!StoredOf, Through
  <2>11. EndedRight(c)'
    BY <1>2, <1>7, <1>15, <2>4, <2>7, <2>10, LostRowRight
  <2>12. \A d \in Calls : EndedRight(d)'
    <3>1. ASSUME NEW d \in Calls, d # c
          PROVE  EndedRight(d)'
      BY <1>2, <1>7, <1>15, <2>9, <3>1, LostRight
    <3> QED
      BY <2>11, <3>1
  <2>13. \A r \in committed' : r.call \in Calls'
    BY <1>1, <1>5, <2>8, Zenon DEF StoredIsRight
  <2>14. StoredIsRight'
    BY <1>4, <1>5, <2>12, <2>13, StoredNext
  <2> QED
    BY <1>1, <2>4, <2>8, <2>14 DEF TxTypes
<1>19. committed' \subseteq TxRows /\ StoredIsRight'
  BY <1>3, <1>16, <1>17, <1>18
<1>20. TxTypes'
  BY <1>1, <1>2, <1>4, <1>5, <1>6, <1>7, <1>9, <1>19, Zenon DEF TxTypes, TxPhases
<1> QED
  BY <1>9, <1>10, <1>11, <1>12, <1>13, <1>14, <1>19, <1>20 DEF TxInv

LEMMA TxNext ==
  ASSUME TxInv, T!Next
  PROVE  TxInv'
<1>1. DOMAIN branches = Calls
  BY TxFacts DEF TxInv
<1>2. ASSUME NEW callback \in Callbacks, T!Begin(callback)
      PROVE  TxInv'
  BY <1>2, BeginCallbackKeeps
<1>3. ASSUME NEW c \in DOMAIN branches, NEW b \in DOMAIN branches[c], T!Ask(c, b)
      PROVE  TxInv'
  BY <1>1, <1>3, AskKeeps
<1>4. ASSUME NEW c \in DOMAIN branches, NEW b \in DOMAIN branches[c], NEW state \in {"failed", "done"}, T!Settle(c, b, state)
      PROVE  TxInv'
  BY <1>1, <1>4, SettleKeeps
<1>5. ASSUME T!NextStage \/ T!Commit \/ T!RollBack
      PROVE  TxInv'
  BY <1>5, NextStageKeeps, CommitKeeps, RollBackKeeps
<1>6. ASSUME T!AnswerStart \/ T!FailStart \/ T!AnswerWrite \/ T!FailWrite
      PROVE  TxInv'
  BY <1>6, AnswerStartKeeps, FailStartKeeps, AnswerWriteKeeps, FailWriteKeeps
<1>7. ASSUME T!AnswerCommit \/ T!FailCommit \/ T!AnswerRollback \/ T!Lose
      PROVE  TxInv'
  BY <1>7, AnswerCommitKeeps, FailCommitKeeps, AnswerRollbackKeeps, LoseKeeps
<1> QED
  BY <1>2, <1>3, <1>4, <1>5, <1>6, <1>7 DEF T!Next

LEMMA TxStutters ==
  ASSUME TxInv, UNCHANGED of_transactions
  PROVE  TxInv'
<1>1. UNCHANGED <<callbacks, phase, outcome, stages, branches, active, queue, connected, open, written, committed>>
  BY DEF of_transactions
<1>2. /\ TxTypes /\ PhasesAreRight /\ BranchesAreRight /\ BehindAFailure /\ QueueIsRight
      /\ WrittenIsRight /\ StoredIsRight /\ StraysAreRight
  BY DEF TxInv
<1>3. Calls' = Calls /\ LastCall' = LastCall /\ \A c : T!Asked(c)' = T!Asked(c) /\ T!Serial(c)' = T!Serial(c)
  BY <1>1, SameCallbacks
<1>4. \A c : /\ Entered(c)' = Entered(c) /\ States(c)' = States(c) /\ Reached(c)' = Reached(c)
             /\ \A b : RowBefore(c, b)' = RowBefore(c, b) /\ LastRow(c, b)' = LastRow(c, b)
  BY <1>1, SameCall
<1>5. \A c : T!StoredOf(c)' = T!StoredOf(c) /\ \A b : Through(c, b)' = Through(c, b)
  BY <1>1 DEF T!StoredOf, Through
<1>6. \A i : Writes(i)' = Writes(i) /\ IsLast(i)' = IsLast(i)
  BY <1>1 DEF Writes, IsLast
<1>7. \A b : IsBefore(b)' = IsBefore(b)
  BY <1>1, <1>6 DEF IsBefore
<1>8. TxTypes'
  BY <1>1, <1>2, <1>3 DEF TxTypes
<1>9. PhasesAreRight'
  BY <1>1, <1>2, <1>3 DEF PhasesAreRight
<1>10. BranchesAreRight'
  BY <1>1, <1>2, <1>3, <1>4 DEF BranchesAreRight
<1>11. BehindAFailure'
  BY <1>1, <1>2, <1>3, <1>4 DEF BehindAFailure
<1>12. QueueIsRight'
  <2>1. (\A i \in DOMAIN queue : Writes(i) => IsSent(queue[i].row))'
    BY <1>1, <1>2, <1>3, <1>6, Zenon DEF QueueIsRight, IsSent
  <2> QED
    BY <1>1, <1>2, <1>3, <1>6, <2>1, ZenonT(60) DEF QueueIsRight
<1>13. WrittenIsRight'
  BY <1>1, <1>2, <1>3, <1>4, Zenon DEF WrittenIsRight
<1>14. StoredIsRight'
  <2>1. \A c \in Calls : EndedRight(c)
    BY <1>2, StoredInParts
  <2>2. \A c \in Calls : EndedRight(c)'
    BY <1>1, <1>5, <2>1, SameEnded
  <2>3. \A row \in committed' : row.call \in Calls'
    BY <1>1, <1>2, <1>3, Zenon DEF StoredIsRight
  <2>4. \A c \in Calls' : c = LastCall' /\ phase' \in {"starting", "running", "committing"} => T!StoredOf(c)' = {}
    BY <1>1, <1>2, <1>3, <1>5, Zenon DEF StoredIsRight
  <2> QED
    BY <1>3, <2>2, <2>3, <2>4, StoredNext
<1>15. StraysAreRight'
  BY <1>1, <1>2, <1>3, <1>4, <1>5, <1>7, Zenon DEF StraysAreRight
<1> QED
  BY <1>8, <1>9, <1>10, <1>11, <1>12, <1>13, <1>14, <1>15 DEF TxInv

LEMMA AtMostTwo ==
  ASSUME NEW a, NEW b, NEW Of, Of \subseteq {a, b}
  PROVE  Cardinality(Of) <= 2
<1>1. IsFiniteSet({}) /\ Cardinality({}) = 0
  BY FS_EmptySet
<1>2. IsFiniteSet({} \cup {a}) /\ Cardinality({} \cup {a}) = 1
  BY <1>1, FS_AddElement
<1>3. {} \cup {a} = {a}
  OBVIOUS
<1>4. IsFiniteSet({a}) /\ Cardinality({a}) = 1
  BY <1>2, <1>3
<1>5. IsFiniteSet({a} \cup {b}) /\ Cardinality({a} \cup {b}) \in {1, 2}
  BY <1>4, FS_AddElement
<1>6. {a} \cup {b} = {a, b}
  OBVIOUS
<1>7. IsFiniteSet({a, b}) /\ Cardinality({a, b}) \in {1, 2}
  BY <1>5, <1>6
<1>8. Cardinality(Of) <= Cardinality({a, b}) /\ Cardinality(Of) \in Nat
  BY <1>7, FS_Subset, FS_CardinalityType
<1> QED
  BY <1>7, <1>8

LEMMA TransactionsAreWhole ==
  ASSUME TxInv
  PROVE  T!CommittedIsWhole /\ T!StrayWritesEnd
<1>1. WrittenIsRight /\ StoredIsRight
  BY DEF TxInv
<1>2. ASSUME NEW c \in DOMAIN callbacks
      PROVE  /\ outcome[c] = "resolved" => T!StoredOf(c) = T!Asked(c)
             /\ T!Serial(c) => T!StoredOf(c) \in {{}, T!Asked(c)}
             /\ T!Serial(c) /\ outcome[c] \in {"rolled back", "refused"} => T!StoredOf(c) = {}
  <2>1. c \in Calls
    BY DEF Calls
  <2>2. /\ outcome[c] = "resolved" => T!StoredOf(c) = T!Asked(c)
        /\ T!Serial(c) => T!StoredOf(c) = {} \/ (outcome[c] \in {"resolved", "lost"} /\ T!StoredOf(c) = T!Asked(c))
    BY <1>1, <2>1, Zenon DEF StoredIsRight
  <2> QED
    BY <2>2, Zenon
<1>3. T!CommittedIsWhole
  BY <1>2, Zenon DEF T!CommittedIsWhole
<1>4. \A row \in written : row.call = T!Call
  BY <1>1, Zenon DEF WrittenIsRight, LastCall, T!Call
<1>5. ASSUME NEW c \in DOMAIN callbacks, outcome[c] = "rolled back", NEW stray \in T!StoredOf(c)
      PROVE  Cardinality({row \in T!StoredOf(c) : row.branch = stray.branch}) <= 2
  <2>1. PICK n \in Nat : Through(c, stray.branch) \subseteq
           {T!Row(c, stages[c], stray.branch, n), T!Row(c, stages[c], stray.branch, n + 1)}
    BY <1>1, <1>5, Zenon DEF StoredIsRight, Calls
  <2>2. {row \in T!StoredOf(c) : row.branch = stray.branch} = Through(c, stray.branch)
    BY DEF T!StoredOf, Through
  <2> QED
    BY <2>1, <2>2, AtMostTwo
<1>6. T!StrayWritesEnd
  BY <1>4, <1>5, Zenon DEF T!StrayWritesEnd, T!Cardinality, Cardinality
<1> QED
  BY <1>3, <1>6

LEMMA TransactionsHold ==
  MCSpec => [](side = "transactions" => T!CommittedIsWhole /\ T!StrayWritesEnd)
<1>1. MCInit => TxInv
  BY TxInit DEF MCInit
<1>2. TxInv /\ [MCNext]_<<of_pages, of_others, side>> => TxInv'
  <2> SUFFICES ASSUME TxInv, [MCNext]_<<of_pages, of_others, side>>
               PROVE  TxInv'
    OBVIOUS
  <2>1. T!Next \/ UNCHANGED of_transactions
    BY DEF MCNext, OtherNext, of_others
  <2> QED
    BY <2>1, TxNext, TxStutters
<1>3. TxInv => (side = "transactions" => T!CommittedIsWhole /\ T!StrayWritesEnd)
  BY TransactionsAreWhole
<1> QED
  BY <1>1, <1>2, <1>3, PTL DEF MCSpec

\* A write of a server function changes only the rows of its company and has done all of it when
\* it returns; a transaction that was committed is whole, and nothing is written into the next one.
THEOREM WritesAndTransactionsHold == MCSpec => WritesAreOwnAndComplete
BY WritesHold, TransactionsHold, PTL DEF WritesAreOwnAndComplete
=============================================================================
