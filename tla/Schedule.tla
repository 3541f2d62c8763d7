------------------------------ MODULE Schedule ------------------------------
(***************************************************************************)
(* The import of the crew schedule of ArboStar                             *)
(* (shared/arbostar/import_schedule_events.ts), which is run by hand after  *)
(* the import of everything else.  It reads the company's rows on several   *)
(* connections, and then changes the schedule in one transaction, while     *)
(* line items may be removed in the app.                                   *)
(*                                                                         *)
(* A crew is named after its leader, and so is the leader's employee.       *)
(***************************************************************************)
EXTENDS Integers, Sequences, FiniteSets, SequencesExt, FiniteSetsExt

CONSTANTS
    Schedules,   \* the exports: sequences of [id, project, leader, date, services]
    Projects, Staff, Items, \* rows that there are: numbers, names, and item -> project
    AppVisits,   \* visits that were not imported: row id -> visit
    Unassigned,  \* the crew of an event without a leader
    NoLeader, NoEvent,
    MaxImports, MaxRemovals

VARIABLES
    crews,       \* the names of the crews
    visits,      \* project_crew: row id -> [project, crew, date, event]
    leaders,     \* project_crew_employee: pairs of a visit's row and an employee
    works,       \* project_crew_project_line_item: pairs of a visit's row and a line item
    items,       \* the line items that were not removed
    importing,   \* the run: its export, what it has read, and how it ended
    last_visit, imports, removals

vars == <<crews, visits, leaders, works, items, importing, last_visit, imports, removals>>

CrewName(event) == IF event.leader = NoLeader THEN Unassigned ELSE event.leader
Importable(schedule) == SelectSeq(schedule, LAMBDA event : event.project \in Projects)
Place(visit) == <<visit.project, visit.crew, visit.date>>
Visit(event) == [project |-> event.project, crew |-> CrewName(event), date |-> event.date, event |-> event.id]

Idle == [schedule |-> <<>>, at |-> "nothing", items |-> {}]
Init ==
    /\ crews = {AppVisits[r].crew : r \in DOMAIN AppVisits}
    /\ visits = AppVisits
    /\ leaders = {} /\ works = {}
    /\ items = DOMAIN Items
    /\ importing = Idle
    /\ last_visit = Max({0} \cup DOMAIN AppVisits) /\ imports = 0 /\ removals = 0

Start(schedule) ==
    /\ importing.at \in {"nothing", "done", "refused"} /\ imports < MaxImports
    /\ imports' = imports + 1
    /\ importing' = [schedule |-> Importable(schedule), at |-> "reading", items |-> {}]
    /\ UNCHANGED <<crews, visits, leaders, works, items, last_visit, removals>>

\* Nobody else changes the other rows that are read.
ReadLineItems ==
    /\ importing.at = "reading"
    /\ importing' = [importing EXCEPT !.at = "read", !.items = items]
    /\ UNCHANGED <<crews, visits, leaders, works, items, last_visit, imports, removals>>

\* delete_project_line_items of estimate_helper/line_item.ts, as far as the schedule goes.
RemoveLineItem(i) ==
    /\ removals < MaxRemovals /\ i \in items
    /\ removals' = removals + 1
    /\ items' = items \ {i}
    /\ works' = {link \in works : link[2] # i}
    /\ UNCHANGED <<crews, visits, leaders, importing, last_visit, imports>>

Correlated(event) == {r \in DOMAIN visits : visits[r].event = event.id}
Uncorrelated(event) == {r \in DOMAIN visits : visits[r].event = NoEvent /\ Place(visits[r]) = Place(Visit(event))}
\* (a mistake) A visit that was planned in the app is not taken over.
CorrelatedRow(event) == Correlated(event)
\* The row of an earlier import, or one at the place of the event that was never imported.
RowOf(event) == IF Correlated(event) # {} THEN Correlated(event) ELSE Uncorrelated(event)

Existing(events) == SelectSeq(events, LAMBDA event : RowOf(event) # {})
New(events) == SelectSeq(events, LAMBDA event : RowOf(event) = {})
Stale(events) ==
    {r \in DOMAIN visits : visits[r].event # NoEvent /\ \A k \in DOMAIN events : events[k].id # visits[r].event}

\* One UPDATE for each row, and the unique key of the place is checked by each of them.
IsTaken(table, row, event) == \E r \in DOMAIN table \ {row} : Place(table[r]) = Place(Visit(event))
Updated(table, events) ==
    FoldLeft(LAMBDA so_far, event :
                 LET row == CHOOSE r \in RowOf(event) : TRUE IN
                 IF so_far.refused \/ IsTaken(so_far.table, row, event) THEN [so_far EXCEPT !.refused = TRUE]
                 ELSE [so_far EXCEPT !.table = [@ EXCEPT ![row] = Visit(event)]],
             [table |-> table, refused |-> FALSE], events)
Inserted(table, events) ==
    [r \in DOMAIN table \cup {last_visit + k : k \in DOMAIN events} |->
        IF r \in DOMAIN table THEN table[r] ELSE Visit(events[r - last_visit])]

OneForEachPlace(events) == \A j, k \in DOMAIN events : Place(Visit(events[j])) = Place(Visit(events[k])) => j = k
KnownServices(event) == event.services \cap importing.items
ServicesAreOfTheProject(events) ==
    \A k \in DOMAIN events : \A i \in KnownServices(events[k]) : Items[i] = events[k].project

\* The transaction.  An assertion or a key that refuses it leaves everything as it was.
Commit ==
    LET events == importing.schedule
        stale == Stale(events)
        updated == Updated([r \in DOMAIN visits \ stale |-> visits[r]], Existing(events))
        table == Inserted(updated.table, New(events))
        row == [k \in DOMAIN events |-> CHOOSE r \in DOMAIN table : table[r].event = events[k].id]
        touched == stale \cup {row[k] : k \in DOMAIN events}
        untouched(links) == {link \in links : link[1] \notin touched}
    IN  /\ importing.at = "read"
        /\ IF \/ ~OneForEachPlace(events) \/ updated.refused
              \/ \E k \in DOMAIN New(events) : \E r \in DOMAIN updated.table :
                    Place(updated.table[r]) = Place(Visit(New(events)[k]))
              \/ ~ServicesAreOfTheProject(events)
           THEN /\ importing' = [importing EXCEPT !.at = "refused"]
                /\ UNCHANGED <<crews, visits, leaders, works, last_visit>>
           ELSE /\ crews' = crews \cup {CrewName(events[k]) : k \in DOMAIN events}
                /\ visits' = table
                /\ leaders' = untouched(leaders)
                     \cup {<<row[k], events[k].leader>> : k \in {k \in DOMAIN events : events[k].leader \in Staff}}
                /\ works' = untouched(works)
                     \cup UNION {{<<row[k], i>> : i \in KnownServices(events[k])} : k \in DOMAIN events}
                /\ last_visit' = last_visit + Len(New(events))
                /\ importing' = [importing EXCEPT !.at = "done"]
        /\ UNCHANGED <<items, imports, removals>>

Next ==
    \/ \E schedule \in Schedules : Start(schedule)
    \/ ReadLineItems \/ Commit
    \/ \E i \in DOMAIN Items : RemoveLineItem(i)
Spec == Init /\ [][Next]_vars

-----------------------------------------------------------------------------

\* After an import every event of a known project has the one visit that has its place, its leader
\* and its line items, whatever earlier imports have left of it, and no visit is of an event that
\* ArboStar does not have any more (import_schedule_events.ts:106-182).
EventsHaveTheirVisits ==
    importing.at = "done" =>
        /\ {visits[r].event : r \in DOMAIN visits} \ {NoEvent} = {event.id : event \in ToSet(importing.schedule)}
        /\ \A event \in ToSet(importing.schedule) :
            \E r \in DOMAIN visits :
                /\ \A s \in DOMAIN visits : visits[s].event = event.id <=> s = r
                /\ visits[r] = Visit(event)
                /\ {link[2] : link \in {l \in leaders : l[1] = r}} = {event.leader} \cap Staff
                /\ {link[2] : link \in {l \in works : l[1] = r}} \cap items = event.services \cap items

\* A visit that was planned in the app stays as it is while no export has an event for its place.
AppVisitsStay ==
    \A r \in DOMAIN AppVisits :
        (\A schedule \in Schedules : \A k \in DOMAIN schedule : Place(Visit(schedule[k])) # Place(AppVisits[r])) =>
            r \in DOMAIN visits /\ visits[r] = AppVisits[r]

\* An import is refused only if an event comes to a place that another visit or event has, or
\* names a line item of another project; one that took over a visit of the app is not
\* (import_schedule_events.ts:106-109, 119-121, 166-178).
IsOdd(event) ==
    \/ \E r \in DOMAIN visits : Place(visits[r]) = Place(Visit(event)) /\ visits[r].event \notin {event.id, NoEvent}
    \/ \E r \in DOMAIN visits : visits[r].event = event.id /\ Place(visits[r]) # Place(Visit(event))
    \/ \E other \in ToSet(importing.schedule) : other # event /\ Place(Visit(other)) = Place(Visit(event))
    \/ \E i \in event.services \cap DOMAIN Items : Items[i] # event.project
RefusedOnlyForAnOddEvent ==
    importing.at = "refused" => \E event \in ToSet(importing.schedule) : IsOdd(event)

\* The visits of the company are those of the schedule and those of the app.
VisitsMirrorTheSchedule == EventsHaveTheirVisits /\ AppVisitsStay /\ RefusedOnlyForAnOddEvent
=============================================================================
