-------------------------- MODULE MigrationsProofs --------------------------
(***************************************************************************)
(* No migration is skipped, for any number of files, of statements in a     *)
(* file, and of runs that overlap and break off anywhere.                  *)
(***************************************************************************)
EXTENDS Migrations, WellFoundedInduction, TLAPS

(* The strengthening: the files are numbers in a row, a run has executed    *)
(* its file up to its next statement, and what is before a pending file is  *)
(* noted or pending too.                                                   *)
FilesAreNumbered == files \in Nat /\ noted \subseteq 1 .. files /\ done \subseteq (1 .. files) \X Nat
RunsAreInOrder ==
  /\ run \in [Runs -> [pending : SUBSET (1 .. files), next : Nat \ {0}]]
  /\ \A r \in Runs : \A n \in run[r].pending : 1 .. n - 1 \subseteq noted \cup run[r].pending
RunsHaveExecuted ==
  \A r \in Runs : IsRunning(r) => \A s \in 1 .. run[r].next - 1 : <<File(r), s>> \in done

IInv == FilesAreNumbered /\ RunsAreInOrder /\ RunsHaveExecuted /\ NoMigrationIsSkipped

-----------------------------------------------------------------------------
LEMMA SmallestNumber ==
  ASSUME NEW S, S \subseteq Nat, S # {}
  PROVE  Min(S) \in S /\ \A n \in S : Min(S) <= n
<1> DEFINE less == OpToRel(<, Nat)
<1>1. IsWellFoundedOn(less, Nat)
  BY NatLessThanWellFounded
<1>2. PICK m \in S : \A n \in S : ~ (<<n, m>> \in less)
  <2> HIDE DEF less
  <2> QED
    BY <1>1, WFMin
<1>3. \A n \in S : m <= n
  <2>1. ASSUME NEW n \in S, n < m
        PROVE  <<n, m>> \in less
    <3>1. <<n, m>> \in Nat \X Nat /\ <<n, m>>[1] < <<n, m>>[2]
      BY <2>1
    <3> QED
      BY <3>1, Zenon DEF OpToRel
  <2>2. \A n \in S : n \in Nat /\ m \in Nat /\ ~ (n < m)
    BY <1>2, <2>1
  <2> HIDE DEF less
  <2> QED
    BY <2>2
<1> QED
  BY <1>3 DEF Min

\* The file of a run is the first that it has left, and all before it are noted.
LEMMA FileIsTheFirst ==
  ASSUME FilesAreNumbered, RunsAreInOrder, NEW r \in Runs, IsRunning(r)
  PROVE  /\ File(r) \in run[r].pending /\ File(r) \in 1 .. files
         /\ \A n \in run[r].pending : File(r) <= n
         /\ 1 .. File(r) - 1 \subseteq noted
<1>1. run[r].pending \subseteq 1 .. files /\ run[r].pending \subseteq Nat /\ run[r].pending # {}
  BY DEF FilesAreNumbered, RunsAreInOrder, IsRunning
<1>2. File(r) \in run[r].pending /\ \A n \in run[r].pending : File(r) <= n
  BY <1>1, SmallestNumber DEF File
<1>3. 1 .. File(r) - 1 \subseteq noted \cup run[r].pending
  BY <1>2 DEF RunsAreInOrder
<1>4. ASSUME NEW n \in 1 .. File(r) - 1
      PROVE  n \notin run[r].pending
  <2>1. n < File(r) /\ n \in Nat /\ File(r) \in Nat
    BY <1>1, <1>2
  <2> QED
    BY <1>2, <2>1
<1> QED
  BY <1>1, <1>2, <1>3, <1>4

\* A run that ends, or one that begins a file, has executed nothing of it yet.
LEMMA NothingExecutedYet ==
  ASSUME NEW r \in Runs, RunsHaveExecuted, done \subseteq done', NEW left,
         run' = [run EXCEPT ![r] = [pending |-> left, next |-> 1]], r \in DOMAIN run
  PROVE  RunsHaveExecuted'
<1> SUFFICES ASSUME NEW q \in Runs, IsRunning(q)', NEW s \in 1 .. run'[q].next - 1
             PROVE  <<File(q)', s>> \in done'
  BY DEF RunsHaveExecuted
<1>1. q # r
  OBVIOUS
<1>2. run'[q] = run[q]
  BY <1>1
<1> QED
  BY <1>2 DEF RunsHaveExecuted, IsRunning, File

LEMMA InitInv == Init => IInv
BY DEF Init, IInv, FilesAreNumbered, RunsAreInOrder, RunsHaveExecuted, NoMigrationIsSkipped, Idle, IsRunning

-----------------------------------------------------------------------------
LEMMA StartKeepsTheInvariant ==
  ASSUME IInv, NEW r \in Runs, Start(r)
  PROVE  IInv'
<1> DEFINE left == {n \in 1 .. files : \A m \in noted : n > m}
<1>1. FilesAreNumbered /\ RunsAreInOrder /\ RunsHaveExecuted /\ NoMigrationIsSkipped
  BY DEF IInv
<1>2. run' = [run EXCEPT ![r] = [pending |-> left, next |-> 1]] /\ UNCHANGED <<files, noted, done>>
  BY DEF Start
<1>3. FilesAreNumbered' /\ NoMigrationIsSkipped'
  BY <1>1, <1>2 DEF FilesAreNumbered, NoMigrationIsSkipped
<1>4. \A n \in left : 1 .. n - 1 \subseteq noted \cup left
  <2> SUFFICES ASSUME NEW n \in left, NEW k \in 1 .. n - 1, k \notin noted
               PROVE  k \in left
    OBVIOUS
  <2>1. n \in Nat /\ n <= files /\ files \in Nat /\ k \in 1 .. files
    BY <1>1 DEF FilesAreNumbered
  <2>2. ASSUME NEW m \in noted
        PROVE  k > m
    <3>1. m \in Nat /\ k # m
      BY <1>1 DEF FilesAreNumbered
    <3>2. 1 .. m \subseteq noted
      BY <1>1 DEF NoMigrationIsSkipped
    <3> QED
      BY <2>1, <3>1, <3>2
  <2> QED
    BY <2>1, <2>2
<1>5. left \subseteq 1 .. files
  OBVIOUS
<1> HIDE DEF left
<1>6. run' \in [Runs -> [pending : SUBSET (1 .. files), next : Nat \ {0}]]
  BY <1>1, <1>2, <1>5 DEF RunsAreInOrder
<1>7. RunsAreInOrder'
  <2> SUFFICES ASSUME NEW q \in Runs, NEW n \in run'[q].pending
               PROVE  1 .. n - 1 \subseteq noted \cup run'[q].pending
    BY <1>2, <1>6 DEF RunsAreInOrder
  <2>1. CASE q = r
    BY <1>1, <1>2, <1>4, <2>1 DEF RunsAreInOrder
  <2>2. CASE q # r
    BY <1>1, <1>2, <2>2 DEF RunsAreInOrder
  <2> QED
    BY <2>1, <2>2
<1>8. RunsHaveExecuted'
  BY <1>1, <1>2, NothingExecutedYet DEF RunsAreInOrder
<1> QED
  BY <1>3, <1>7, <1>8 DEF IInv

LEMMA ExecuteKeepsTheInvariant ==
  ASSUME IInv, NEW r \in Runs, Execute(r)
  PROVE  IInv'
<1>1. FilesAreNumbered /\ RunsAreInOrder /\ RunsHaveExecuted /\ NoMigrationIsSkipped
  BY DEF IInv
<1>2. /\ IsRunning(r) /\ done' = done \cup {<<File(r), run[r].next>>}
      /\ run' = [run EXCEPT ![r].next = @ + 1] /\ UNCHANGED <<files, noted>>
  BY DEF Execute
<1>3. File(r) \in 1 .. files /\ 1 .. File(r) - 1 \subseteq noted /\ run[r].next \in Nat \ {0}
  BY <1>1, <1>2, FileIsTheFirst DEF RunsAreInOrder
<1>4. FilesAreNumbered'
  BY <1>1, <1>2, <1>3 DEF FilesAreNumbered
<1>5. NoMigrationIsSkipped'
  BY <1>1, <1>2, <1>3 DEF NoMigrationIsSkipped
<1>6. \A q \in Runs : run'[q].pending = run[q].pending /\ (q # r => run'[q].next = run[q].next)
  BY <1>1, <1>2 DEF RunsAreInOrder
<1>7. run'[r].next = run[r].next + 1
  BY <1>1, <1>2 DEF RunsAreInOrder
<1>8. RunsAreInOrder'
  <2>1. run' \in [Runs -> [pending : SUBSET (1 .. files), next : Nat \ {0}]]
    BY <1>1, <1>2, <1>3 DEF RunsAreInOrder
  <2> QED
    BY <1>1, <1>2, <1>6, <2>1 DEF RunsAreInOrder
<1>9. RunsHaveExecuted'
  <2> SUFFICES ASSUME NEW q \in Runs, IsRunning(q)', NEW s \in 1 .. run'[q].next - 1
               PROVE  <<File(q)', s>> \in done'
    BY DEF RunsHaveExecuted
  <2>1. IsRunning(q) /\ File(q)' = File(q)
    BY <1>6 DEF IsRunning, File
  <2>2. CASE q = r /\ s = run[r].next
    BY <1>2, <2>1, <2>2
  <2>3. CASE q = r /\ s # run[r].next
    <3>1. s \in 1 .. run[r].next - 1
      BY <1>3, <1>7, <2>3
    <3> QED
      BY <1>1, <1>2, <2>1, <2>3, <3>1 DEF RunsHaveExecuted
  <2>4. CASE q # r
    BY <1>1, <1>2, <1>6, <2>1, <2>4 DEF RunsHaveExecuted
  <2> QED
    BY <2>2, <2>3, <2>4
<1> QED
  BY <1>4, <1>5, <1>8, <1>9 DEF IInv

\* A file that is noted is executed to its end, and all before it are noted.
LEMMA NotedFilesAreDone ==
  ASSUME MigrationsAssumption, IInv, NEW r \in Runs, Note(r)
  PROVE  FilesAreNumbered' /\ NoMigrationIsSkipped'
<1>1. FilesAreNumbered /\ RunsAreInOrder /\ RunsHaveExecuted /\ NoMigrationIsSkipped
  BY DEF IInv
<1>2. /\ IsRunning(r) /\ run[r].next > Statements
      /\ noted' = noted \cup {File(r)} /\ UNCHANGED <<files, done>>
  BY DEF Note, IsExecuted
<1>3. File(r) \in 1 .. files /\ 1 .. File(r) - 1 \subseteq noted /\ run[r].next \in Nat \ {0}
  BY <1>1, <1>2, FileIsTheFirst DEF RunsAreInOrder
<1>4. \A s \in 1 .. Statements : <<File(r), s>> \in done
  <2> SUFFICES ASSUME NEW s \in 1 .. Statements
               PROVE  <<File(r), s>> \in done
    OBVIOUS
  <2>1. s \in 1 .. run[r].next - 1
    BY <1>2, <1>3 DEF MigrationsAssumption
  <2> QED
    BY <1>1, <1>2, <2>1 DEF RunsHaveExecuted
<1>5. 1 .. File(r) \subseteq noted'
  BY <1>2, <1>3
<1>6. FilesAreNumbered'
  BY <1>1, <1>2, <1>3 DEF FilesAreNumbered
<1>7. NoMigrationIsSkipped'
  BY <1>1, <1>2, <1>4, <1>5 DEF NoMigrationIsSkipped
<1> QED
  BY <1>6, <1>7

LEMMA NoteKeepsTheInvariant ==
  ASSUME MigrationsAssumption, IInv, NEW r \in Runs, Note(r)
  PROVE  IInv'
<1> DEFINE left == IF File(r) \in noted THEN {} ELSE run[r].pending \ {File(r)}
<1>1. FilesAreNumbered /\ RunsAreInOrder /\ RunsHaveExecuted /\ NoMigrationIsSkipped
  BY DEF IInv
<1>2. /\ IsRunning(r) /\ noted' = noted \cup {File(r)} /\ UNCHANGED <<files, done>>
      /\ run' = [run EXCEPT ![r] = [pending |-> left, next |-> 1]]
  BY DEF Note, Idle
<1>3. left \subseteq run[r].pending /\ run[r].pending \subseteq 1 .. files
  BY <1>1 DEF RunsAreInOrder
<1>4. \A n \in left : 1 .. n - 1 \subseteq noted' \cup left
  BY <1>1, <1>2 DEF RunsAreInOrder
<1> HIDE DEF left
<1>5. run' \in [Runs -> [pending : SUBSET (1 .. files), next : Nat \ {0}]]
  BY <1>1, <1>2, <1>3 DEF RunsAreInOrder
<1>6. RunsAreInOrder'
  <2> SUFFICES ASSUME NEW q \in Runs, NEW n \in run'[q].pending
               PROVE  1 .. n - 1 \subseteq noted' \cup run'[q].pending
    BY <1>2, <1>5 DEF RunsAreInOrder
  <2>1. CASE q = r
    BY <1>1, <1>2, <1>4, <2>1 DEF RunsAreInOrder
  <2>2. CASE q # r
    BY <1>1, <1>2, <2>2 DEF RunsAreInOrder
  <2> QED
    BY <2>1, <2>2
<1>7. RunsHaveExecuted'
  BY <1>1, <1>2, NothingExecutedYet DEF RunsAreInOrder
<1> QED
  BY <1>6, <1>7, NotedFilesAreDone DEF IInv

LEMMA BreakKeepsTheInvariant ==
  ASSUME IInv, NEW r \in Runs, Break(r)
  PROVE  IInv'
<1>1. FilesAreNumbered /\ RunsAreInOrder /\ RunsHaveExecuted /\ NoMigrationIsSkipped
  BY DEF IInv
<1>2. run' = [run EXCEPT ![r] = [pending |-> {}, next |-> 1]] /\ UNCHANGED <<files, noted, done>>
  BY DEF Break, Idle
<1>3. FilesAreNumbered' /\ NoMigrationIsSkipped'
  BY <1>1, <1>2 DEF FilesAreNumbered, NoMigrationIsSkipped
<1>4. RunsAreInOrder'
  BY <1>1, <1>2 DEF RunsAreInOrder
<1>5. RunsHaveExecuted'
  BY <1>1, <1>2, NothingExecutedYet DEF RunsAreInOrder
<1> QED
  BY <1>3, <1>4, <1>5 DEF IInv

LEMMA NextInv ==
  ASSUME MigrationsAssumption, IInv, [Next]_vars
  PROVE  IInv'
<1>1. CASE AddFile
  <2>1. files' = files + 1 /\ UNCHANGED <<noted, done, run>> /\ files \in Nat
    BY <1>1 DEF AddFile, IInv, FilesAreNumbered
  <2>2. 1 .. files \subseteq 1 .. files'
    BY <2>1
  <2>3. FilesAreNumbered'
    BY <2>1, <2>2 DEF IInv, FilesAreNumbered
  <2>4. RunsAreInOrder'
    BY <2>1, <2>2 DEF IInv, RunsAreInOrder
  <2>5. RunsHaveExecuted' /\ NoMigrationIsSkipped'
    BY <2>1 DEF IInv, RunsHaveExecuted, NoMigrationIsSkipped, IsRunning, File
  <2> QED
    BY <2>3, <2>4, <2>5 DEF IInv
<1>2. CASE UNCHANGED vars
  BY <1>2 DEF vars, IInv, FilesAreNumbered, RunsAreInOrder, RunsHaveExecuted, NoMigrationIsSkipped, IsRunning, File
<1> QED
  BY <1>1, <1>2, StartKeepsTheInvariant, ExecuteKeepsTheInvariant, NoteKeepsTheInvariant, BreakKeepsTheInvariant
     DEF Next

\* Nothing of a migration is executed before all with smaller numbers are noted, and a noted one was
\* executed to its end, however many runs overlap, break off anywhere and start again (migrate.ts).
THEOREM NothingIsSkipped ==
  ASSUME MigrationsAssumption
  PROVE  Spec => []NoMigrationIsSkipped
<1>1. IInv => NoMigrationIsSkipped
  BY DEF IInv
<1>2. IInv /\ [Next]_vars => IInv'
  BY NextInv
<1> QED
  BY <1>1, <1>2, InitInv, PTL DEF Spec
=============================================================================
