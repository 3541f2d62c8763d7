----------------------------- MODULE TreeExport -----------------------------
(***************************************************************************)
(* The export of the tree inventory (scripts/arbostar/                     *)
(* export_tree_inventory.ts).  Nothing lists the sets of trees, so the      *)
(* script asks for one set number after the other until several in a row   *)
(* are empty.  It writes the trees, asks for what each set is, and pages    *)
(* through a catalog, while users plant and fell and change the catalog.   *)
(*                                                                         *)
(* One catalog stands for the two of the script, that it walks alike.      *)
(***************************************************************************)
EXTENDS Naturals, Sequences, FiniteSets, SequencesExt

CONSTANTS
    Trees,
    MaxSet,         \* bound on the numbers of the sets that have trees
    EmptyRunLimit,
    Rows, PageSize, \* of the catalog
    MaxEdits,       \* bound on what the users do
    None

VARIABLES
    set_of,         \* the set of each tree, or None
    catalog,        \* the rows of the catalog, in order
    edits,
    empty_at_times, \* the sets that were without trees at some time
    stayed,         \* the rows that were in the catalog all the time
    standing,       \* the trees that stood all the time
    dropped,        \* whether a row of the catalog was deleted
    phase,          \* "trees", "sets", "catalog", "finished", "failed"
    tis_id, empty_run, trees,  \* of the walk; trees are [tree, set]
    ids, sets,      \* the sets still to be asked for, and those that were
    page, items, total,
    tree_inventory, tree_inventory_sets, tree_species  \* the files, or None

vars == <<set_of, catalog, edits, empty_at_times, stayed, standing, dropped, phase, tis_id, empty_run, trees,
          ids, sets, page, items, total, tree_inventory, tree_inventory_sets, tree_species>>
arbostar == <<set_of, catalog, edits, empty_at_times, stayed, standing, dropped>>
walk == <<tis_id, empty_run, trees>>
paging == <<page, items, total>>
files == <<tree_inventory, tree_inventory_sets, tree_species>>

SetIds == 0..MaxSet
TreesOf(set) == {t \in Trees : set_of[t] = set}

-----------------------------------------------------------------------------
(* The walk.                                                               *)

\* A set that has trees ends a run of empty ones.
AfterTrees(run) == 0

\* fetch_markers answers with all the trees of one set.
AskForTrees ==
    LET found == TreesOf(tis_id) IN
    /\ phase = "trees" /\ empty_run < EmptyRunLimit
    /\ IF found = {} THEN empty_run' = empty_run + 1 /\ UNCHANGED <<ids, trees>>
       ELSE /\ empty_run' = AfterTrees(empty_run)
            /\ ids' = Append(ids, tis_id)
            /\ trees' = trees \cup {[tree |-> t, set |-> tis_id] : t \in found}
    /\ tis_id' = tis_id + 1
    /\ UNCHANGED <<arbostar, phase, sets, paging, files>>

\* The trees are on disk before anything is asked for that needs a session.
WriteTrees ==
    /\ phase = "trees" /\ empty_run = EmptyRunLimit
    /\ tree_inventory' = trees
    /\ phase' = "sets"
    /\ UNCHANGED <<arbostar, walk, ids, sets, paging, tree_inventory_sets, tree_species>>

\* One set after the other.
AskForSet ==
    /\ phase = "sets" /\ ids # <<>>
    /\ sets' = Append(sets, Head(ids)) /\ ids' = Tail(ids)
    /\ UNCHANGED <<arbostar, phase, walk, paging, files>>

WriteSets ==
    /\ phase = "sets" /\ ids = <<>>
    /\ tree_inventory_sets' = sets
    /\ phase' = "catalog"
    /\ UNCHANGED <<arbostar, walk, ids, sets, paging, tree_inventory, tree_species>>

-----------------------------------------------------------------------------
(* fetch_catalog: pages are asked for until there are as many rows as the   *)
(* last answer has counted, or a page is empty.                            *)

Page == SubSeq(catalog, (page - 1) * PageSize + 1, Min({page * PageSize, Len(catalog)}))
MorePages == IF total = None THEN TRUE ELSE Len(items) < total

AskForPage ==
    /\ phase = "catalog" /\ MorePages
    /\ total' = Len(catalog)
    /\ IF Page = <<>> THEN tree_species' = items /\ phase' = "finished" /\ UNCHANGED <<items, page>>
       ELSE items' = items \o Page /\ page' = page + 1 /\ UNCHANGED <<phase, tree_species>>
    /\ UNCHANGED <<arbostar, walk, ids, sets, tree_inventory, tree_inventory_sets>>

WriteCatalog ==
    /\ phase = "catalog" /\ ~MorePages
    /\ tree_species' = items
    /\ phase' = "finished"
    /\ UNCHANGED <<arbostar, walk, ids, sets, paging, tree_inventory, tree_inventory_sets>>

\* A request fails, the session has ended, or a set has no client.
Fail ==
    /\ phase \in {"trees", "sets", "catalog"}
    /\ phase' = "failed"
    /\ UNCHANGED <<arbostar, walk, ids, sets, paging, files>>

-----------------------------------------------------------------------------
(* What the users of ArboStar do (external).                               *)

Running == phase \in {"trees", "sets", "catalog"}
Edit ==
    /\ Running /\ edits < MaxEdits
    /\ edits' = edits + 1
    /\ UNCHANGED <<phase, walk, ids, sets, paging, files>>

Plant(t, set) ==
    /\ Edit /\ set_of[t] = None
    /\ set_of' = [set_of EXCEPT ![t] = set]
    /\ UNCHANGED <<catalog, empty_at_times, stayed, standing, dropped>>

Fell(t) ==
    /\ Edit /\ set_of[t] # None
    /\ set_of' = [set_of EXCEPT ![t] = None]
    /\ empty_at_times' = empty_at_times \cup (IF TreesOf(set_of[t]) = {t} THEN {set_of[t]} ELSE {})
    /\ standing' = standing \ {t}
    /\ UNCHANGED <<catalog, stayed, dropped>>

Enter(row, place) ==
    /\ Edit /\ row \notin ToSet(catalog)
    /\ catalog' = SubSeq(catalog, 1, place) \o <<row>> \o SubSeq(catalog, place + 1, Len(catalog))
    /\ UNCHANGED <<set_of, empty_at_times, stayed, standing, dropped>>

Drop(place) ==
    /\ Edit
    /\ catalog' = SubSeq(catalog, 1, place - 1) \o SubSeq(catalog, place + 1, Len(catalog))
    /\ stayed' = stayed \ {catalog[place]}
    /\ dropped' = TRUE
    /\ UNCHANGED <<set_of, empty_at_times, standing>>

-----------------------------------------------------------------------------

Init ==
    /\ set_of \in [Trees -> SetIds \cup {None}]
    /\ catalog \in {SubSeq(SetToSeq(Rows), 1, n) : n \in 1..Cardinality(Rows)}
    /\ edits = 0 /\ dropped = FALSE /\ standing = {t \in Trees : set_of[t] # None}
    /\ empty_at_times = {set \in 0..(MaxSet + EmptyRunLimit) : TreesOf(set) = {}}
    /\ stayed = ToSet(catalog)
    /\ phase = "trees" /\ tis_id = 0 /\ empty_run = 0 /\ trees = {}
    /\ ids = <<>> /\ sets = <<>> /\ page = 1 /\ items = <<>> /\ total = None
    /\ tree_inventory = None /\ tree_inventory_sets = None /\ tree_species = None

Next ==
    \/ AskForTrees \/ WriteTrees \/ AskForSet \/ WriteSets \/ AskForPage \/ WriteCatalog \/ Fail
    \/ \E t \in Trees : Fell(t) \/ \E set \in SetIds : Plant(t, set)
    \/ \E place \in 0..Len(catalog) : (place > 0 /\ Drop(place)) \/ \E row \in Rows : Enter(row, place)
Spec == Init /\ [][Next]_vars

-----------------------------------------------------------------------------

\* A tree that stood all the time is exported, with its set, unless the walk has met as many
\* empty sets in a row before it as end it: "the limit must clear the largest such gap".
GapBefore(set) == \E first \in 0..(set - 1) :
    first + EmptyRunLimit <= set /\ first..(first + EmptyRunLimit - 1) \subseteq empty_at_times
StandingTreesAreExported ==
    tree_inventory # None =>
        \A t \in standing : ~GapBefore(set_of[t]) => [tree |-> t, set |-> set_of[t]] \in tree_inventory

\* A session that ended costs the sets and the catalog but never the trees, and a file of sets
\* names the set of every tree.
SetsAreOfTheTrees ==
    /\ sets # <<>> => tree_inventory # None
    /\ tree_inventory_sets # None =>
          {row.set : row \in tree_inventory} = ToSet(tree_inventory_sets)
          /\ Cardinality(ToSet(tree_inventory_sets)) = Len(tree_inventory_sets)

\* Rows that stayed in a catalog are exported, whatever was entered, if none was deleted.
CatalogIsWhole == tree_species # None /\ ~dropped => stayed \subseteq ToSet(tree_species)
=============================================================================
