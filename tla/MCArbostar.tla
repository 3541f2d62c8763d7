----------------------------- MODULE MCArbostar -----------------------------
(***************************************************************************)
(* The way of the data out of ArboStar and into this app: a behaviour is    *)
(* one of ListExports, a list that is read while it changes, one of         *)
(* LineItemExport or TreeExport, records that are asked for one by one,     *)
(* one of ExportRun, the whole export, one of ArbostarImport, or one of     *)
(* Schedule, the import that follows it.                                   *)
(***************************************************************************)
EXTENDS MCArbostarImport

CONSTANTS Statuses, Active, Overdue, Draft, Sent, FirstCounts, PageSize, MaxChanges,  \* of ListExports
          Independent, Photos, Runners,                                              \* of ExportRun
          Unassigned, NoLeader, NoEvent, MaxImports, MaxRemovals,                    \* of Schedule
          MaxEdits,                                                                  \* of LineItemExport
          Trees, MaxSet, EmptyRunLimit, CatalogRows                                  \* and of TreeExport
VARIABLES
    side,
    listing, status, overdue_tab_works, script, at, passes, start, read, total, got, overdue,
    first, was, deleted, shuffled, changes,
    export_run, scripts, files, read_from, images, next, runner, part, disk, listed,
    crews, visits, leaders, works, items, importing, last_visit, imports, removals,
    estimate, seen, edits, claimed, asking, result, first_profile, state,
    line_items, lead_notes, lead_profiles, codebooks,
    set_of, catalog, empty_at_times, stayed, standing, dropped, phase, tis_id, empty_run, trees, ids, sets,
    page, found, count, tree_inventory, tree_inventory_sets, tree_species

L == INSTANCE ListExports
R == INSTANCE ExportRun WITH run <- export_run, script <- scripts

(* Estimates with groups, whose ids are those of items, and without, one    *)
(* that lists no services, and a lead that has none.                       *)
Service(id) == [id |-> id, type |-> "item", children |-> <<>>]
Group(id, children) == [id |-> id, type |-> "group", children |-> children]
Content(groups, listed_items) == [groups |-> groups, items |-> listed_items]
MCContents ==
    <<{Content(<<Service(1), Group(3, <<Service(2)>>)>>, <<Service(1)>>),
       Content(None, <<Group(1, <<>>), Service(2)>>), Content(<<Group(3, <<Service(2)>>)>>, <<>>)},
      {Content(<<Service(3)>>, <<Service(3)>>), Content(None, None)},
      {Content(<<Service(4)>>, <<Service(4)>>)}>>
I == INSTANCE LineItemExport WITH Leads <- [estimates |-> <<1, 2>>, others |-> <<3>>], Estimates <- MCContents,
        Runners <- [estimates |-> {1, 2}, others |-> {1}], Verified <- TRUE,
        next <- claimed, runner <- asking, first <- first_profile
T == INSTANCE TreeExport WITH Rows <- CatalogRows, items <- found, total <- count

(* Events of project 1 move, come and go; one comes to the place of a visit *)
(* that was planned in the app, two trade their places, two come to one     *)
(* place, and a line item is of another project.                           *)
Event(id, project, leader, date, services) ==
    [id |-> id, project |-> project, leader |-> leader, date |-> date, services |-> services]
MCSchedules ==
    {<<Event("e1", 1, "ann", 1, {"i1", "gone"}), Event("e2", 1, "bob", 1, {})>>,
     <<Event("e1", 1, "bob", 1, {}), Event("e2", 1, "ann", 1, {"i1"})>>,
     <<Event("e2", 1, NoLeader, 2, {"i1"}), Event("e3", 2, "bob", 1, {"i2"}), Event("e4", 3, "ann", 1, {})>>,
     <<Event("e1", 1, "ann", 1, {"i2"})>>,
     <<Event("e1", 1, "ann", 1, {}), Event("e3", 1, "ann", 1, {})>>,
     <<Event("e3", 2, "ann", 2, {}), Event("e1", 1, "ann", 2, {"i1"})>>}
AppVisit(project, crew, date) == [project |-> project, crew |-> crew, date |-> date, event |-> NoEvent]
C == INSTANCE Schedule WITH Schedules <- MCSchedules, Projects <- {1, 2}, Staff <- {"ann"},
        Items <- [i1 |-> 1, i2 |-> 2], AppVisits <- <<AppVisit(1, "ann", 3), AppVisit(2, "bob", 1)>>
ASSUME ListsAssumption == L!ListAssumption

of_list == <<listing, status, overdue_tab_works, script, at, passes, start, read, total, got, overdue,
             first, was, deleted, shuffled, changes>>
of_run == <<export_run, scripts, files, read_from, images, next, runner, part, disk, listed>>
of_schedule == <<crews, visits, leaders, works, items, importing, last_visit, imports, removals>>
of_profiles == <<estimate, seen, claimed, asking, result, first_profile, state,
                 line_items, lead_notes, lead_profiles, codebooks>>
of_trees == <<set_of, catalog, empty_at_times, stayed, standing, dropped, phase, tis_id, empty_run, trees,
              ids, sets, page, found, count, tree_inventory, tree_inventory_sets, tree_species>>
of_files == <<of_profiles, of_trees, edits>>

\* The parts that have many initial states have none in the behaviours of the others.
NoProfiles ==
    /\ estimate = None /\ seen = None /\ claimed = None /\ asking = None /\ result = None
    /\ first_profile = None /\ state = None
    /\ line_items = None /\ lead_notes = None /\ lead_profiles = None /\ codebooks = None
NoTrees ==
    /\ set_of = None /\ catalog = None /\ empty_at_times = None /\ stayed = None /\ standing = None
    /\ dropped = None /\ phase = None /\ tis_id = None /\ empty_run = None /\ trees = None /\ ids = None
    /\ sets = None /\ page = None /\ found = None /\ count = None
    /\ tree_inventory = None /\ tree_inventory_sets = None /\ tree_species = None

MCInit == /\ side \in {"list", "run", "import", "schedule", "line_items", "trees"}
          /\ Init /\ L!Init /\ R!Init /\ C!Init
          /\ side # "list" => listing = <<>> /\ script = "rest" /\ overdue_tab_works
          \* The status of a row tells nothing apart in a list that has no tabs.
          /\ script \in {"clients", "payments", "rest"} =>
                overdue_tab_works /\ \A r \in DOMAIN status : status[r] = Draft
          /\ edits = 0
          /\ IF side = "line_items" THEN I!Init ELSE NoProfiles
          /\ IF side = "trees" THEN T!Init ELSE NoTrees
MCNext == \/ side = "list" /\ L!Next /\ UNCHANGED <<vars, of_run, of_schedule, of_files, side>>
          \/ side = "run" /\ R!Next /\ UNCHANGED <<vars, of_list, of_schedule, of_files, side>>
          \/ side = "import" /\ Next /\ UNCHANGED <<of_list, of_run, of_schedule, of_files, side>>
          \/ side = "schedule" /\ C!Next /\ UNCHANGED <<vars, of_list, of_run, of_files, side>>
          \/ side = "line_items" /\ I!Next /\ UNCHANGED <<vars, of_list, of_run, of_schedule, of_trees, side>>
          \/ side = "trees" /\ T!Next /\ UNCHANGED <<vars, of_list, of_run, of_schedule, of_profiles, side>>
MCSpec == MCInit /\ [][MCNext]_<<vars, of_list, of_run, of_schedule, of_files, side>>

\* Stated in ArbostarImport and in Schedule: what a run leaves is what the export says, and the
\* visits are those of the schedule and those of the app.
ImportsMirrorTheExport ==
    /\ side = "import" => RunMirrorsTheExport
    /\ side = "schedule" => C!VisitsMirrorTheSchedule
\* Stated in ListExports and in ExportRun: a list that is written has the rows that stayed in it,
\* one that was counted has exactly the rows of the list, images.js lists whole photos only, and
\* an export that finished is of one run.  Stated in LineItemExport and TreeExport: items are of
\* their leads, whatever runner was faster, and trees that stood are in the inventory.
ExportIsWhole ==
    /\ side = "list" => L!StayingRowsAreExported /\ L!CountedExportsAreExact
    /\ side = "run" => R!ListedPhotosAreWhole /\ R!FinishedExportIsOfOneRun
    /\ side = "line_items" =>
          I!ItemsAreOfTheirLead /\ I!ExportedIdsAreUnique /\ I!ProfilesAreOfObtainedLeads
    /\ side = "trees" => T!StandingTreesAreExported /\ T!SetsAreOfTheTrees /\ T!CatalogIsWhole
\* Stated in ListExports: an exported invoice has a status that it had during the run.
InvoiceStatusesAreTrue == L!InvoiceStatusesAreTrue
=============================================================================
