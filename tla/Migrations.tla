----------------------------- MODULE Migrations -----------------------------
(***************************************************************************)
(* scripts/migrate.ts: the files of src/migration are run in the order of   *)
(* their numbers, and each is noted in the table migration when it is done. *)
(* Statements that change the schema commit by themselves: a run that ends  *)
(* in the middle leaves a part of a file behind.  Two runs may overlap, and *)
(* files are added with numbers that go on.                                *)
(***************************************************************************)
EXTENDS Integers, FiniteSets, FiniteSetsExt

CONSTANTS
    Runs,        \* who runs the script, each again and again
    Statements,  \* how many statements a file has
    MaxFiles,    \* bounds on the files and on the starts of the script
    MaxStarts

MigrationsAssumption == Statements \in Nat

VARIABLES
    files,   \* how many files there are: 1 to files
    noted,   \* the numbers in the table migration
    done,    \* the statements that were executed: <<file, statement>>
    run,     \* per run: [pending: the files that are left, next: the statement], or none pending
    starts
vars == <<files, noted, done, run, starts>>

Idle == [pending |-> {}, next |-> 1]
IsRunning(r) == run[r].pending # {}
File(r) == Min(run[r].pending)

\* The largest number is read, and the files after it are pending.
Start(r) ==
    /\ ~IsRunning(r) /\ starts < MaxStarts
    /\ starts' = starts + 1
    /\ run' = [run EXCEPT ![r] = [pending |-> {n \in 1 .. files : \A m \in noted : n > m}, next |-> 1]]
    /\ UNCHANGED <<files, noted, done>>

\* A statement, or the end of the run when it fails; so it may, executed a second time.
Execute(r) ==
    /\ IsRunning(r) /\ run[r].next <= Statements
    /\ done' = done \cup {<<File(r), run[r].next>>}
    /\ run' = [run EXCEPT ![r].next = @ + 1]
    /\ UNCHANGED <<files, noted, starts>>

\* (a mistake) A file is noted before it is run.
IsBegun(r) == run[r].next = 1
\* A file is noted when its query is over.
IsExecuted(r) == run[r].next > Statements

\* The unique key refuses the number of a file that was noted meanwhile, and the run ends.
Note(r) ==
    /\ IsRunning(r) /\ IsExecuted(r)
    /\ noted' = noted \cup {File(r)}
    /\ run' = [run EXCEPT ![r] = IF File(r) \in noted THEN Idle
                                 ELSE [pending |-> @.pending \ {File(r)}, next |-> 1]]
    /\ UNCHANGED <<files, done, starts>>

\* A statement fails, or the connection or the script ends.
Break(r) ==
    /\ IsRunning(r)
    /\ run' = [run EXCEPT ![r] = Idle]
    /\ UNCHANGED <<files, noted, done, starts>>

AddFile ==
    /\ files < MaxFiles
    /\ files' = files + 1
    /\ UNCHANGED <<noted, done, run, starts>>

Init == files \in 1 .. 2 /\ noted = {} /\ done = {} /\ run = [r \in Runs |-> Idle] /\ starts = 0
Next == AddFile \/ \E r \in Runs : Start(r) \/ Execute(r) \/ Note(r) \/ Break(r)
Spec == Init /\ [][Next]_vars

\* A file of which anything was executed comes after files that are all noted, and a noted file was
\* executed to its end, however often runs ended in the middle, were repeated or overlapped
\* (migrate.ts).
NoMigrationIsSkipped ==
    /\ \A d \in done : 1 .. d[1] - 1 \subseteq noted
    /\ \A n \in noted : 1 .. n \subseteq noted /\ \A s \in 1 .. Statements : <<n, s>> \in done
=============================================================================
