------------------------------ MODULE ClientCache ------------------------------
(***************************************************************************)
(* The page's copy of the company's clients, contacts and addresses        *)
(* (client/lib/client_cache.svelte.ts).  It is filled when the app is      *)
(* entered and asked for again after a form was saved.  Every two minutes a *)
(* poll asks how many rows there are and when the latest of them changed,   *)
(* and asks for all of them when that is not what the copy says.           *)
(*                                                                         *)
(* Requests overlap, fail, and are answered in any order.  A poll is three *)
(* requests, one for each table.  A row's updated_at is the second in which *)
(* its statement ran, and others see it when its transaction commits, maybe *)
(* in a later second.  Of a row, the model keeps that and a content.       *)
(***************************************************************************)
EXTENDS Integers, FiniteSets, FiniteSetsExt

CONSTANTS
    Tables, Rows,      \* the tables that are copied, and what rows they may have
    TableOf,           \* row -> its table
    FirstRows,         \* the rows there are at first
    MaxSeconds, MaxWrites, MaxFailures,  \* bounds on the clock, on writes and on failed requests
    Polls, Refreshes,  \* what may be underway at once
    None, Idle, Asked  \* what no rows are

\* Assumed by the module that gives the constants their values.
CacheAssumption ==
    /\ TableOf \in [Rows -> Tables]
    /\ FirstRows \subseteq Rows

VARIABLES
    stored,           \* row -> [at, content], as committed
    open,             \* statements whose transactions have not ended: row -> what it will be
    clock, writes, failures,
    started,          \* interval_id # null
    cache,            \* rows, or None before the first refresh returned
    cached_snapshot,  \* what the copy says of itself, or None
    polls,            \* poll -> table -> what the request for it found
    refreshes         \* refresh -> Idle, Asked, or the rows that were read

vars == <<stored, open, clock, writes, failures, started, cache, cached_snapshot, polls, refreshes>>

Summary(rows, table) ==
    LET here == {row \in DOMAIN rows : TableOf[row] = table}
    IN  [count |-> Cardinality(here), latest |-> Max({rows[row].at : row \in here} \cup {0})]
\* The three counts, and the latest change of all.
MakeUpdateSnapshot(summaries) ==
    [counts |-> [table \in Tables |-> summaries[table].count],
     latest_update |-> Max({summaries[table].latest : table \in Tables})]
Snapshot(rows) == MakeUpdateSnapshot([table \in Tables |-> Summary(rows, table)])

\* (a mistake) only a later change counts as one
IsSupersededByALater(snapshot, other) ==
    other.counts # snapshot.counts \/ other.latest_update > snapshot.latest_update
IsSupersededBy(snapshot, other) ==
    other.counts # snapshot.counts \/ other.latest_update # snapshot.latest_update

Init ==
    /\ clock = 1 /\ writes = 0 /\ failures = 0
    /\ stored \in [FirstRows -> [at : 0 .. 1, content : {0}]]
    /\ \E underway \in SUBSET (Rows \ FirstRows) : open = [row \in underway |-> [at |-> 0, content |-> 0]]
    /\ started = FALSE
    /\ cache = None /\ cached_snapshot = None
    /\ polls = [poll \in Polls |-> Idle]
    /\ refreshes = [refresh \in Refreshes |-> Idle]

-----------------------------------------------------------------------------
(* The database.  None stands for a row that is deleted.                   *)

Tick ==
    /\ clock < MaxSeconds
    /\ clock' = clock + 1
    /\ UNCHANGED <<stored, open, writes, failures, started, cache, cached_snapshot, polls, refreshes>>

Write(row, deletes) ==
    /\ writes < MaxWrites
    /\ row \notin DOMAIN open
    /\ deletes => row \in DOMAIN stored
    /\ writes' = writes + 1
    /\ open' = [r \in DOMAIN open \cup {row} |->
                  IF r # row THEN open[r]
                  ELSE IF deletes THEN None ELSE [at |-> clock, content |-> writes + 1]]
    /\ UNCHANGED <<stored, clock, failures, started, cache, cached_snapshot, polls, refreshes>>

Commit(row) ==
    /\ row \in DOMAIN open
    /\ stored' = LET rest == {r \in DOMAIN stored \cup {row} : r # row \/ open[row] # None}
                 IN  [r \in rest |-> IF r = row THEN open[row] ELSE stored[r]]
    /\ open' = [r \in DOMAIN open \ {row} |-> open[r]]
    /\ UNCHANGED <<clock, writes, failures, started, cache, cached_snapshot, polls, refreshes>>

-----------------------------------------------------------------------------
(* The page.                                                               *)

AskForAll(refresh) == refreshes[refresh] = Idle /\ refreshes' = [refreshes EXCEPT ![refresh] = Asked]

Start(refresh) ==
    /\ ~started
    /\ started' = TRUE
    /\ AskForAll(refresh)
    /\ UNCHANGED <<stored, open, clock, writes, failures, cache, cached_snapshot, polls>>

\* A form that was saved asks, whatever else is underway.
Refresh(refresh) ==
    /\ started
    /\ AskForAll(refresh)
    /\ UNCHANGED <<stored, open, clock, writes, failures, started, cache, cached_snapshot, polls>>

\* One statement reads all the rows.
Select(refresh) ==
    /\ refreshes[refresh] = Asked
    /\ refreshes' = [refreshes EXCEPT ![refresh] = stored]
    /\ UNCHANGED <<stored, open, clock, writes, failures, started, cache, cached_snapshot, polls>>

Refreshed(refresh) ==
    /\ refreshes[refresh] \notin {Idle, Asked}
    /\ cache' = refreshes[refresh]
    /\ cached_snapshot' = Snapshot(refreshes[refresh])
    /\ refreshes' = [refreshes EXCEPT ![refresh] = Idle]
    /\ UNCHANGED <<stored, open, clock, writes, failures, started, polls>>

\* The interval has passed.
Poll(poll) ==
    /\ started
    /\ polls[poll] = Idle
    /\ polls' = [polls EXCEPT ![poll] = [table \in {} |-> 0]]
    /\ UNCHANGED <<stored, open, clock, writes, failures, started, cache, cached_snapshot, refreshes>>

PollTable(poll, table) ==
    /\ polls[poll] # Idle
    /\ table \notin DOMAIN polls[poll]
    /\ polls' = [polls EXCEPT ![poll] =
                   [t \in DOMAIN @ \cup {table} |-> IF t = table THEN Summary(stored, table) ELSE @[t]]]
    /\ UNCHANGED <<stored, open, clock, writes, failures, started, cache, cached_snapshot, refreshes>>

Polled(poll, refresh) ==
    /\ polls[poll] # Idle /\ DOMAIN polls[poll] = Tables
    /\ polls' = [polls EXCEPT ![poll] = Idle]
    /\ LET database_snapshot == MakeUpdateSnapshot(polls[poll])
       IN  IF cached_snapshot = None \/ IsSupersededBy(cached_snapshot, database_snapshot)
           THEN AskForAll(refresh) ELSE UNCHANGED refreshes
    /\ UNCHANGED <<stored, open, clock, writes, failures, started, cache, cached_snapshot>>

\* Nothing asks again for a request that failed but the next poll.
Fail ==
    /\ failures < MaxFailures
    /\ failures' = failures + 1
    /\ \/ \E poll \in Polls : /\ polls[poll] # Idle
                              /\ polls' = [polls EXCEPT ![poll] = Idle]
                              /\ UNCHANGED refreshes
       \/ \E refresh \in Refreshes : /\ refreshes[refresh] # Idle
                                     /\ refreshes' = [refreshes EXCEPT ![refresh] = Idle]
                                     /\ UNCHANGED polls
    /\ UNCHANGED <<stored, open, clock, writes, started, cache, cached_snapshot>>

Answered(poll) == \E refresh \in Refreshes : Polled(poll, refresh)
Next ==
    \/ Tick
    \/ Fail
    \/ \E row \in Rows : Commit(row) \/ \E deletes \in BOOLEAN : Write(row, deletes)
    \/ \E refresh \in Refreshes : \/ Start(refresh) \/ Refresh(refresh)
                                  \/ Select(refresh) \/ Refreshed(refresh)
    \/ \E poll \in Polls : \/ Poll(poll) \/ Answered(poll)
                           \/ \E table \in Tables : PollTable(poll, table)

\* The browser keeps its interval and requests are answered; users and the
\* database owe nothing, and a transaction may stay open.
Fairness ==
    /\ \A poll \in Polls : WF_vars(Poll(poll)) /\ WF_vars(Answered(poll))
    /\ \A poll \in Polls, table \in Tables : WF_vars(PollTable(poll, table))
    /\ \A refresh \in Refreshes : WF_vars(Select(refresh)) /\ WF_vars(Refreshed(refresh))

Spec == Init /\ [][Next]_vars /\ Fairness

-----------------------------------------------------------------------------
(* What a poll cannot tell: as many rows, and the latest change in the same *)
(* second.                                                                 *)
LooksCurrent == cache # None /\ Snapshot(cache) = Snapshot(stored)

\* The copy catches up with the database for good once that no longer changes,
\* however requests overlapped, failed or were answered late: what put old rows
\* back is found out by the next poll (client_cache.svelte.ts:119-142).
CacheCatchesUp == <>[](~started \/ cache = stored \/ LooksCurrent)
=============================================================================
