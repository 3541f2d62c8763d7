---------------------------- MODULE Transactions ----------------------------
(***************************************************************************)
(* transaction() of shared/mysql/helpers.ts: what a callback does on one    *)
(* connection between START TRANSACTION and COMMIT or ROLLBACK.  Callbacks  *)
(* follow each other on the connection, those of one request or, from a     *)
(* pool, those of many.                                                     *)
(*                                                                         *)
(* A callback goes through stages, and in a stage one or several branches   *)
(* (Promise.all) write side by side, each one statement after the other.   *)
(* The connection sends one statement at a time, in the order in which they *)
(* were asked for; the program goes on with all that an answer makes        *)
(* possible before the next answer comes.                                   *)
(***************************************************************************)
EXTENDS Naturals, Sequences, FiniteSets, SequencesExt

CONSTANTS
    Callbacks,  \* a callback: for each stage, how many statements each branch writes
    MaxCalls,   \* bound on the callbacks
    None

\* Assumed by the module that gives the constants their values: a callback has a stage to begin with.
TransactionsAssumption ==
    /\ Callbacks \subseteq Seq(Seq(Nat)) \ {<<>>}
    /\ None \notin {"resolved", "rolled back", "lost", "refused"}

VARIABLES
    calls,      \* the callbacks so far, the last of which may be running
    phase,      \* of the last call
    outcome,    \* for each call, "resolved", "rolled back", "lost", or None
    stage, branches,  \* for each call, where it is, and for each branch what was sent and how it is
    active,     \* the call whose wrapper is registered, or 0
    queue,      \* what was asked of the connection and not answered yet
    connected,
    open, written,  \* whether the database has a transaction open, and its rows
    stored      \* the rows that are committed

vars == <<calls, phase, outcome, stage, branches, active, queue, connected, open, written, stored>>
callback == <<stage, branches>>
database == <<open, written, stored>>

Call == Len(calls)
Row(c, s, b, n) == [call |-> c, stage |-> s, branch |-> b, number |-> n]
Statement(kind, row) == [is |-> kind, row |-> row]
Send(kind, row) == queue' = Append(queue, Statement(kind, row))

-----------------------------------------------------------------------------
(* The program.                                                            *)

\* create_company inserts the company and then its roles side by side, each before its
\* permissions; other callbacks write one statement after the other.
CompanyCallbacks == {<<<<1>>, <<2, 2>>>>, <<<<2>>>>}

\* Branches that the last answer or the beginning of a stage has let go on.
MayGoOn(c, b) == branches[c][b].state = "ready"
Quiet == \A c \in DOMAIN branches : ~\E b \in DOMAIN branches[c] : MayGoOn(c, b)

\* A transaction is refused while one is active on the connection; no caller asks for a second
\* one before the first has ended.
Begin(stages) ==
    /\ connected /\ phase = "rest" /\ active = 0 /\ Call < MaxCalls
    /\ calls' = Append(calls, stages)
    /\ outcome' = Append(outcome, None)
    /\ stage' = Append(stage, 0) /\ branches' = Append(branches, <<>>)
    /\ phase' = "starting"
    /\ Send("START", None)
    /\ UNCHANGED <<active, connected, database>>

EnterStage(s) ==
    /\ stage' = [stage EXCEPT ![Call] = s]
    /\ branches' = [branches EXCEPT ![Call] =
                        [b \in DOMAIN calls[Call][s] |-> [sent |-> 0, state |-> "ready"]]]

\* assert_active_transaction_connection: only the registered wrapper works.
IsActive(call) == active = call

Asks(c, b) == branches[c][b].sent < calls[c][stage[c]][b]
Ask(c, b) ==
    /\ MayGoOn(c, b) /\ Asks(c, b) /\ IsActive(c)
    /\ branches' = [branches EXCEPT ![c][b] = [sent |-> @.sent + 1, state |-> "waiting"]]
    /\ Send("write", Row(c, stage[c], b, branches[c][b].sent + 1))
    /\ UNCHANGED <<calls, phase, outcome, stage, active, connected, database>>

\* An assertion of the callback, of the write helper or of the wrapper throws, or all is written.
Settle(c, b, state) ==
    /\ MayGoOn(c, b) /\ (state = "done" => ~Asks(c, b))
    /\ branches' = [branches EXCEPT ![c][b].state = state]
    /\ UNCHANGED <<calls, phase, outcome, stage, active, queue, connected, database>>

Failed == \E b \in DOMAIN branches[Call] : branches[Call][b].state = "failed"
AllDone == \A b \in DOMAIN branches[Call] : branches[Call][b].state = "done"

NextStage ==
    /\ phase = "running" /\ AllDone /\ stage[Call] < Len(calls[Call])
    /\ EnterStage(stage[Call] + 1)
    /\ UNCHANGED <<calls, phase, outcome, active, queue, connected, database>>

Commit ==
    /\ phase = "running" /\ AllDone /\ stage[Call] = Len(calls[Call])
    /\ phase' = "committing"
    /\ Send("COMMIT", None)
    /\ UNCHANGED <<calls, outcome, callback, active, connected, database>>

\* Promise.all rejects with the first branch that fails, whatever the others do.
RollBack ==
    /\ phase = "running" /\ Failed /\ Quiet
    /\ phase' = "rolling back"
    /\ Send("ROLLBACK", None)
    /\ UNCHANGED <<calls, outcome, callback, active, connected, database>>

-----------------------------------------------------------------------------
(* The connection and the database (external).                             *)

\* The statement that is answered next, once the program has nothing to go on with.
Settled == Quiet /\ (phase = "running" => ~Failed /\ ~AllDone)
Answers(kind) == Settled /\ queue # <<>> /\ Head(queue).is = kind
Answered == queue' = Tail(queue)
End(how) == /\ phase' = "rest" /\ active' = 0
            /\ outcome' = [outcome EXCEPT ![Call] = how]

\* START TRANSACTION commits what is open.
AnswerStart ==
    /\ Answers("START") /\ Answered
    /\ stored' = stored \cup written /\ open' = TRUE /\ written' = {}
    /\ phase' = "running" /\ active' = Call
    /\ EnterStage(1)
    /\ UNCHANGED <<calls, outcome, connected>>

FailStart ==
    /\ Answers("START") /\ Answered
    /\ phase' = "rest" /\ outcome' = [outcome EXCEPT ![Call] = "refused"]
    /\ UNCHANGED <<calls, callback, active, connected, database>>

\* The branch that waits for a statement goes on when its answer comes.
Answer(row, how) ==
    /\ Answered
    /\ branches' = [branches EXCEPT ![row.call][row.branch].state = how]
    /\ UNCHANGED <<calls, phase, outcome, stage, active, connected>>

\* A statement outside of a transaction commits by itself.
Write(row) ==
    /\ written' = IF open THEN written \cup {row} ELSE written
    /\ stored' = IF open THEN stored ELSE stored \cup {row}
    /\ UNCHANGED open
AnswerWrite == Answers("write") /\ Write(Head(queue).row) /\ Answer(Head(queue).row, "ready")

\* The database ends the transaction without its rows.
Discard == open' = FALSE /\ written' = {} /\ UNCHANGED stored
\* A statement fails: by itself (a unique key, a lock that it waited for too long), or as the
\* victim of a deadlock, which ends the transaction in the database.
FailWrite ==
    /\ Answers("write") /\ Answer(Head(queue).row, "failed")
    /\ UNCHANGED database \/ (open /\ Discard)

AnswerCommit ==
    /\ Answers("COMMIT") /\ Answered
    /\ stored' = stored \cup written /\ open' = FALSE /\ written' = {}
    /\ End("resolved")
    /\ UNCHANGED <<calls, callback, connected>>

\* A COMMIT that fails is followed by a ROLLBACK.
FailCommit ==
    /\ Answers("COMMIT")
    /\ queue' = Append(Tail(queue), Statement("ROLLBACK", None))
    /\ phase' = "rolling back"
    /\ UNCHANGED <<calls, outcome, callback, active, connected, database>>

\* The wrapper stops working when the ROLLBACK was answered.
AnswerRollback ==
    /\ Answers("ROLLBACK") /\ Answered
    /\ Discard
    /\ End("rolled back")
    /\ UNCHANGED <<calls, callback, connected>>

\* The connection breaks, before or after the database has done what it was asked: the
\* database rolls back what is open, and everything that was asked for is rejected.
Lose ==
    /\ connected /\ Settled /\ queue # <<>>
    /\ connected' = FALSE /\ queue' = <<>> /\ open' = FALSE /\ written' = {}
    /\ \/ UNCHANGED stored
       \/ Head(queue).is = "COMMIT" /\ stored' = stored \cup written
       \/ Head(queue).is = "write" /\ ~open /\ stored' = stored \cup {Head(queue).row}
    /\ branches' = [c \in DOMAIN calls |-> <<>>]
    /\ IF phase = "rest" THEN UNCHANGED <<phase, active, outcome>> ELSE End("lost")
    /\ UNCHANGED <<calls, stage>>

-----------------------------------------------------------------------------

Init ==
    /\ calls = <<>> /\ phase = "rest" /\ outcome = <<>> /\ stage = <<>> /\ branches = <<>>
    /\ active = 0 /\ queue = <<>> /\ connected = TRUE
    /\ open = FALSE /\ written = {} /\ stored = {}

Next ==
    \/ \E stages \in Callbacks : Begin(stages)
    \/ \E c \in DOMAIN branches : \E b \in DOMAIN branches[c] :
          Ask(c, b) \/ \E state \in {"failed", "done"} : Settle(c, b, state)
    \/ NextStage \/ Commit \/ RollBack
    \/ AnswerStart \/ FailStart \/ AnswerWrite \/ FailWrite
    \/ AnswerCommit \/ FailCommit \/ AnswerRollback \/ Lose
Spec == Init /\ [][Next]_vars

-----------------------------------------------------------------------------
(* Properties.                                                             *)

Asked(c) == UNION {UNION {{Row(c, s, b, n) : n \in 1 .. calls[c][s][b]} : b \in DOMAIN calls[c][s]} :
                      s \in DOMAIN calls[c]}
StoredOf(c) == {row \in stored : row.call = c}
Serial(c) == \A s \in DOMAIN calls[c] : Len(calls[c][s]) = 1

\* A callback that was committed has stored all that it wrote, and one that writes one statement
\* after the other stores all or nothing, also when its connection breaks (transaction()).
CommittedIsWhole ==
    \A c \in DOMAIN calls :
       /\ outcome[c] = "resolved" => StoredOf(c) = Asked(c)
       /\ Serial(c) => StoredOf(c) \in {{}, Asked(c)}
       /\ Serial(c) /\ outcome[c] \in {"rolled back", "refused"} => StoredOf(c) = {}

\* Branches that go on after another one failed write past the ROLLBACK, but no more than the
\* statement that was on its way and the one after it, and nothing gets into the transaction of
\* the next callback (the wrapper and its registration in helpers.ts).
StrayWritesEnd ==
    /\ \A row \in written : row.call = Call
    /\ \A c \in DOMAIN calls : outcome[c] = "rolled back" =>
          \A stray \in StoredOf(c) : Cardinality({row \in StoredOf(c) : row.branch = stray.branch}) <= 2

\* The name of a test: "transaction rolls back callback failures" (shared/mysql/helpers.test.ts).
CallbackFailuresAreRolledBack == \A c \in DOMAIN calls : outcome[c] = "rolled back" => StoredOf(c) = {}
=============================================================================
