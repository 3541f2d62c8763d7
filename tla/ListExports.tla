---------------------------- MODULE ListExports ----------------------------
(***************************************************************************)
(* The export scripts that read a list of ArboStar page by page             *)
(* (scripts/arbostar/fetch_datatable.ts, export_payments.ts,                *)
(* export_users.ts, export_invoices.ts and scripts/arbostar_api/api.ts),    *)
(* while the people who work in ArboStar change that list.  One behaviour   *)
(* is one run of one script; a row is its id, a status is a tab of the list.*)
(***************************************************************************)
EXTENDS Naturals, Sequences, FiniteSets, SequencesExt, FiniteSetsExt

CONSTANTS
    Statuses,    \* the status tabs
    Active,      \* the statuses that the "All" sentinel (-1) returns
    Overdue,     \* the tab that returned nothing by its own id before October 2026
    None,        \* no tab
    FirstCounts, \* how many rows the list may have at first
    PageSize,
    MaxChanges   \* bound on what others do to the list during a run
\* Assumed by the module that gives the constants their values.
ListAssumption == /\ Overdue \in Active /\ Active \subseteq Statuses /\ None \notin Statuses
                         /\ PageSize \in Nat \ {0}

VARIABLES
    listing,     \* the rows of the list, in its order
    status,      \* the status of each row that ever was in it
    overdue_tab_works,
    script,      \* what reads it
    at,          \* "preflight", "pages", "written", "warned" or "failed"
    passes,      \* the filters that are still to be read, the current one first
    start, read, \* of the current pass: the offset, and all.length
    total,       \* recordsTotal of the last page
    got,         \* the rows that are known so far, with the tab that returned each
    overdue,     \* invoices_count of the Overdue tab at the preflight
    \* what others did since the preflight
    first,       \* the rows that were there
    was,         \* the statuses that each row has had
    deleted, shuffled, changes

of_others == <<first, was, deleted, shuffled, changes>>
vars == <<listing, status, overdue_tab_works, script, at, passes, start, read, total, got, overdue, of_others>>
Scripts == {"clients", "leads", "users", "invoices", "payments", "rest"}

-----------------------------------------------------------------------------
(* What the server answers.                                                *)

All == [statuses |-> Active, tag |-> None]
Everything == [statuses |-> Statuses, tag |-> None]
Tab(s) == [statuses |-> {s}, tag |-> s]
\* A filter by ids returns the rows of those tabs, but those of the tab that does not work.
Returned(filter) ==
    IF filter \in {All, Everything} \/ overdue_tab_works THEN filter.statuses
    ELSE filter.statuses \ {Overdue}
View(filter) == SelectSeq(listing, LAMBDA r : status[r] \in Returned(filter))
Limit == IF script = "users" THEN Len(listing) ELSE PageSize
Page == LET view == View(passes[1]) IN SubSeq(view, start + 1, Min({start + Limit, Len(view)}))

-----------------------------------------------------------------------------
(* How the scripts read it.                                                *)

\* fetch_all_rows_every_status reads "All" and then all named tabs at once; the rows of
\* invoices do not carry their status, so fetch_all_rows_with_status reads tab by tab and
\* "All" at the end; the other lists have no tabs.
PassesOf(s) ==
    CASE s \in {"leads", "users"} -> <<All, [statuses |-> Statuses, tag |-> None]>>
      [] s = "invoices" -> Append(SetToSeq({Tab(t) : t \in Statuses}), All)
      [] OTHER -> <<Everything>>

Preflight ==
    /\ at = "preflight"
    /\ at' = "pages"
    /\ passes' = PassesOf(script)
    /\ overdue' = Cardinality({i \in DOMAIN listing : status[listing[i]] = Overdue})
    /\ first' = Range(listing) /\ was' = [r \in first' |-> {status[r]}]
    /\ UNCHANGED <<listing, status, overdue_tab_works, script, start, read, total, got, deleted, shuffled, changes>>

\* (a mistake) The total of the first page is good for all of them.
IsLastByFirstTotal(page, new_total) ==
    \/ page = <<>>
    \/ LET n == IF start = 0 THEN new_total ELSE total IN
       IF script \in {"payments", "rest"} THEN start + PageSize >= n ELSE read + Len(page) >= n
\* fetch_all_rows counts the rows it has read, with repetitions; the others go by the offset.
IsLast(page, new_total) ==
    \/ page = <<>>
    \/ IF script \in {"payments", "rest"} THEN start + PageSize >= new_total
       ELSE read + Len(page) >= new_total

\* A row keeps the tab that returned it first; a row of two tabs ends the script.
Tagged(page, tag) == got @@ [r \in Range(page) |-> tag]
InTwoTabs(page, tag) == tag # None /\ \E r \in Range(page) \cap DOMAIN got : got[r] # None

NextTotal == Len(View(passes[1]))
ReadPage ==
    /\ at = "pages"
    /\ ~IsLast(Page, NextTotal) \/ Len(passes) > 1
    /\ ~InTwoTabs(Page, passes[1].tag)
    /\ got' = Tagged(Page, passes[1].tag)
    /\ total' = NextTotal
    /\ IF IsLast(Page, NextTotal)
       THEN passes' = Tail(passes) /\ start' = 0 /\ read' = 0
       ELSE passes' = passes /\ start' = start + PageSize /\ read' = read + Len(Page)
    /\ UNCHANGED <<listing, status, overdue_tab_works, script, at, overdue, of_others>>

\* (a mistake) The number is not compared.
AnyOverdueCount(rows) == TRUE
\* The invoices that no tab returned are the Overdue ones, if their number is right.
OverdueCountIsRight(rows) == Cardinality({r \in DOMAIN rows : rows[r] \in {None, Overdue}}) = overdue
WithOverdue(rows) == [r \in DOMAIN rows |-> IF rows[r] = None THEN Overdue ELSE rows[r]]

\* Exactly as many rows as the server counts.
IsComplete(rows, n) == Cardinality(rows) = n

LastPage ==
    LET rows == Tagged(Page, passes[1].tag) IN
    /\ at = "pages"
    /\ Len(passes) = 1 /\ IsLast(Page, NextTotal)
    /\ total' = NextTotal
    /\ CASE script = "invoices" -> /\ at' = IF OverdueCountIsRight(rows) THEN "written" ELSE "failed"
                                   /\ got' = WithOverdue(rows)
         [] script = "payments" -> /\ at' = IF IsComplete(DOMAIN rows, NextTotal) THEN "written" ELSE "warned"
                                   /\ got' = rows
         [] script = "rest" -> /\ at' = IF IsComplete(DOMAIN rows, NextTotal) THEN "written" ELSE "failed"
                               /\ got' = rows
         [] OTHER -> at' = "written" /\ got' = rows
    /\ UNCHANGED <<listing, status, overdue_tab_works, script, passes, start, read, overdue, of_others>>

\* A request fails, the session is stale, or a row is in two tabs.
Fail ==
    /\ at \in {"preflight", "pages"}
    /\ at' = "failed"
    /\ UNCHANGED <<listing, status, overdue_tab_works, script, passes, start, read, total, got, overdue,
                   of_others>>

-----------------------------------------------------------------------------
(* What others do to the list while it is read.                            *)

OthersWork == at = "pages" /\ changes < MaxChanges
reading == <<overdue_tab_works, script, at, passes, start, read, total, got, overdue>>

\* A new row takes its place in the order, wherever that is.
Add(s) ==
    /\ OthersWork
    /\ LET row == Cardinality(DOMAIN status) + 1 IN
       /\ \E i \in 1 .. Len(listing) + 1 : listing' = InsertAt(listing, i, row)
       /\ status' = [r \in DOMAIN status \cup {row} |-> IF r = row THEN s ELSE status[r]]
       /\ was' = [r \in DOMAIN was \cup {row} |-> IF r = row THEN {s} ELSE was[r]]
    /\ changes' = changes + 1
    /\ UNCHANGED <<reading, first, deleted, shuffled>>

Delete ==
    /\ OthersWork
    /\ \E i \in DOMAIN listing : listing' = RemoveAt(listing, i)
    /\ deleted' = TRUE /\ changes' = changes + 1
    /\ UNCHANGED <<reading, first, status, was, shuffled>>

Move(s) ==
    /\ OthersWork
    /\ \E i \in DOMAIN listing :
        /\ status[listing[i]] # s
        /\ status' = [status EXCEPT ![listing[i]] = s]
        /\ was' = [was EXCEPT ![listing[i]] = @ \cup {s}]
    /\ changes' = changes + 1
    /\ UNCHANGED <<reading, first, listing, deleted, shuffled>>

\* Two rows of one date change places between two requests.
Shuffle ==
    /\ OthersWork
    /\ \E i \in 1 .. Len(listing) - 1 :
        listing' = [listing EXCEPT ![i] = listing[i + 1], ![i + 1] = listing[i]]
    /\ shuffled' = TRUE /\ changes' = changes + 1
    /\ UNCHANGED <<reading, first, status, was, deleted>>

-----------------------------------------------------------------------------

Init ==
    /\ \E n \in FirstCounts : listing = [i \in 1 .. n |-> i] /\ status \in [1 .. n -> Statuses]
    /\ overdue_tab_works \in BOOLEAN
    /\ script \in Scripts
    /\ at = "preflight" /\ passes = <<>> /\ start = 0 /\ read = 0 /\ total = 0 /\ got = <<>> /\ overdue = 0
    /\ first = {} /\ was = <<>> /\ deleted = FALSE /\ shuffled = FALSE /\ changes = 0

Next ==
    \/ Preflight \/ ReadPage \/ LastPage \/ Fail
    \/ Delete \/ Shuffle
    \/ \E s \in Statuses : Add(s) \/ Move(s)
Spec == Init /\ [][Next]_vars

-----------------------------------------------------------------------------

\* While rows are only added, wherever they come in the order, a file that is written holds
\* every row of the beginning: no page boundary and no early end skips one, and the rows that
\* one filter hides are returned by another (fetch_datatable.ts, export_users.ts).
StayingRowsAreExported ==
    at = "written" /\ ~deleted /\ ~shuffled /\ (\A r \in DOMAIN was : was[r] = {status[r]})
        => first \subseteq DOMAIN got

\* When the number of distinct rows is the one that the server reports with the last page and
\* nothing was deleted, the file holds exactly the rows of the list, though pages overlapped
\* and rows changed places (fetch_offset_pages of api.ts; export_payments.ts without its warning).
CountedExportsAreExact ==
    at = "written" /\ script \in {"payments", "rest"} /\ ~deleted => DOMAIN got = Range(listing)

\* An invoice that is moved from one tab to another while the tabs are read is not taken for an
\* Overdue one: each invoice of the file has a status that it had during the run
\* (fetch_all_rows_with_status and the assertion of export_invoices.ts).
InvoiceStatusesAreTrue ==
    at = "written" /\ script = "invoices" /\ changes <= 1 => \A r \in DOMAIN got : got[r] \in was[r]
=============================================================================
