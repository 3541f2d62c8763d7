----------------------------- MODULE ExportRun -----------------------------
(***************************************************************************)
(* One command exports everything (scripts/arbostar/export_all.ts): the     *)
(* scripts run in parallel as far as they do not read each other's files,   *)
(* and export_images.ts downloads photos with several runners.  A script    *)
(* may fail, and the whole run may be broken off and started again.         *)
(***************************************************************************)
EXTENDS Naturals, Sequences, FiniteSets, SequencesExt

CONSTANTS
    Independent,  \* the scripts that read no file of another
    Photos,       \* the photos of ArboStar
    Runners,      \* the runners of one download
    None,
    MaxRuns       \* bound on the runs

VARIABLES
    run,          \* the number of the last run
    script,       \* what became of each script of it
    files,        \* for each script, the run that wrote its file
    read_from,    \* for each dependent script, the files as it read them
    images,       \* what export_images.ts downloads, in order
    next,         \* the next of them that no runner has claimed
    runner,       \* what each runner does
    part, disk,   \* the .part files and the photos on disk
    listed        \* the photos of images.js

vars == <<run, script, files, read_from, images, next, runner, part, disk, listed>>
downloading == <<images, next, runner, part, disk, listed>>

Dependencies == {"estimates", "leads", "workorders"}
Dependents == {"line_items", "images"}
Scripts == Independent \cup Dependencies \cup Dependents
Idle == [photo |-> None, at |-> "idle"]

-----------------------------------------------------------------------------
(* The scripts.                                                            *)

\* The dependent scripts wait for all that they read, and are skipped when one has failed.
Running == \E s \in Scripts : script[s] = "running"
DependenciesAreDone == \A s \in Dependencies : script[s] \in {"finished", "failed"}

Start ==
    /\ run < MaxRuns /\ ~Running
    /\ run = 0 \/ \A s \in Dependents : script[s] # "idle"
    /\ run' = run + 1
    /\ script' = [s \in Scripts |-> IF s \in Dependents THEN "idle" ELSE "running"]
    /\ UNCHANGED <<files, read_from, downloading>>

Finish(s) ==
    /\ s # "images" /\ script[s] = "running"
    /\ script' = [script EXCEPT ![s] = "finished"]
    /\ files' = [files EXCEPT ![s] = run]
    /\ UNCHANGED <<run, read_from, downloading>>

\* The process ends with its runners; what they have written stays.
Fail(s) ==
    /\ script[s] = "running"
    /\ script' = [script EXCEPT ![s] = "failed"]
    /\ runner' = IF s = "images" THEN [r \in Runners |-> Idle] ELSE runner
    /\ UNCHANGED <<run, files, read_from, images, next, part, disk, listed>>

\* Both read their files when they start; the photos are those that ArboStar shows then.
StartDependents ==
    /\ run > 0 /\ DependenciesAreDone
    /\ \A s \in Dependents : script[s] = "idle"
    /\ IF \E s \in Dependencies : script[s] = "failed"
       THEN /\ script' = [s \in Scripts |-> IF s \in Dependents THEN "failed" ELSE script[s]]
            /\ UNCHANGED <<read_from, images, next>>
       ELSE /\ script' = [s \in Scripts |-> IF s \in Dependents THEN "running" ELSE script[s]]
            /\ read_from' = [d \in Dependents |-> [s \in Dependencies |-> files[s]]]
            /\ \E shown \in SUBSET Photos : images' = SetToSeq(shown)
            /\ next' = 1
    /\ UNCHANGED <<run, files, runner, part, disk, listed>>

\* The command is broken off: no process survives, and a write may be half done.
BreakOff ==
    /\ Running
    /\ script' = [s \in Scripts |-> IF script[s] = "finished" THEN "finished" ELSE "failed"]
    /\ runner' = [r \in Runners |-> Idle]
    /\ UNCHANGED <<run, files, read_from, images, next, part, disk, listed>>

-----------------------------------------------------------------------------
(* map_with_concurrency over the photos.  A runner writes without being     *)
(* interrupted by another one.                                             *)

Writing == \E r \in Runners : runner[r].at = "writing"
Downloads == script["images"] = "running" /\ ~Writing

\* A photo that is on disk is not downloaded again.
Claim(r) ==
    /\ Downloads /\ runner[r] = Idle /\ next <= Len(images)
    /\ next' = next + 1
    /\ runner' = IF disk[images[next]] # None THEN runner
                 ELSE [runner EXCEPT ![r] = [photo |-> images[next], at |-> "fetching"]]
    /\ UNCHANGED <<run, script, files, read_from, images, part, disk, listed>>

Begin(r) ==
    /\ Downloads /\ runner[r].at = "fetching"
    /\ runner' = [runner EXCEPT ![r].at = "writing"]
    /\ part' = [part EXCEPT ![runner[r].photo] = "begun"]
    /\ UNCHANGED <<run, script, files, read_from, images, next, disk, listed>>

WriteRest(r) ==
    /\ runner[r].at = "writing" /\ part[runner[r].photo] = "begun"
    /\ part' = [part EXCEPT ![runner[r].photo] = "whole"]
    /\ UNCHANGED <<run, script, files, read_from, images, next, runner, disk, listed>>

\* Only a whole file is renamed.
MayRename(photo) == part[photo] = "whole"

Rename(r) ==
    LET photo == runner[r].photo IN
    /\ runner[r].at = "writing" /\ MayRename(photo)
    /\ disk' = [disk EXCEPT ![photo] = part[photo]]
    /\ part' = [part EXCEPT ![photo] = None]
    /\ runner' = [runner EXCEPT ![r] = Idle]
    /\ UNCHANGED <<run, script, files, read_from, images, next, listed>>

FinishImages ==
    /\ script["images"] = "running" /\ next > Len(images) /\ \A r \in Runners : runner[r] = Idle
    /\ listed' = ToSet(images)
    /\ script' = [script EXCEPT !["images"] = "finished"]
    /\ files' = [files EXCEPT !["images"] = run]
    /\ UNCHANGED <<run, read_from, images, next, runner, part, disk>>

-----------------------------------------------------------------------------

Init ==
    /\ run = 0 /\ script = [s \in Scripts |-> "idle"] /\ files = [s \in Scripts |-> 0]
    /\ read_from = [d \in Dependents |-> [s \in Dependencies |-> 0]]
    /\ images = <<>> /\ next = 1 /\ runner = [r \in Runners |-> Idle]
    /\ part = [p \in Photos |-> None] /\ disk = [p \in Photos |-> None] /\ listed = {}

Next ==
    \/ Start \/ StartDependents \/ BreakOff \/ FinishImages
    \/ \E s \in Scripts : Finish(s) \/ Fail(s)
    \/ \E r \in Runners : Claim(r) \/ Begin(r) \/ WriteRest(r) \/ Rename(r)
Spec == Init /\ [][Next]_vars

-----------------------------------------------------------------------------

\* Whenever and however often the export was broken off, images.js only lists photos that are
\* whole on disk, and what is on disk is not downloaded again only because it is whole
\* (the .part files of export_images.ts).
ListedPhotosAreWhole ==
    /\ \A p \in Photos : disk[p] # "begun"
    /\ \A p \in listed : disk[p] = "whole"

\* When all exports finished, every file is of this run, and so is all that the line items and
\* the images were made from (the order in export_all.ts).
FinishedExportIsOfOneRun ==
    run > 0 /\ (\A s \in Scripts : script[s] = "finished") =>
        /\ \A s \in Scripts : files[s] = run
        /\ \A d \in Dependents, s \in Dependencies : read_from[d][s] = run
=============================================================================
