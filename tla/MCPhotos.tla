------------------------------ MODULE MCPhotos ------------------------------
(***************************************************************************)
(* The photos of a page on their way: a behaviour is either one of          *)
(* PhotoUploadQueue, many photos in the queue of a page, or one of          *)
(* ProjectImages, one photo and its files, or one of PhotoViews, that       *)
(* photo while a browser shows it.                                         *)
(***************************************************************************)
EXTENDS PhotoViews

CONSTANTS
    MaxQueued, ProgressSteps,  \* of PhotoUploadQueue
    Drawn                      \* what is drawn while a browser shows the photo
VARIABLES side, running, waiting, current, enqueued, state, finished, queued_count, progress_percent

Q == INSTANCE PhotoUploadQueue WITH MaxUploads <- MaxQueued
ASSUME OnePageAssumption ==
    ImagesAssumption /\ ViewsAssumption /\ Pages = {Camera} /\ Drawn \in Drawings /\ Q!QueueAssumption
of_queue == <<running, waiting, current, enqueued, state, finished, queued_count, progress_percent>>

MCInit ==
    /\ side \in {"queue", "image", "views"}
    /\ Q!Init /\ ViewsInit
    /\ row.strokes \in {Drawn, NoDrawing}
\* Nothing that is cut off may be shown in any way.
Viewed == cuts' = cuts /\ \A p \in Pages : pages'[p].strokes \in {Drawn, NoDrawing}
MCNext ==
    \/ side = "queue" /\ Q!Next /\ UNCHANGED <<vars, viewing, side>>
    \/ side = "image" /\ Next /\ UNCHANGED <<of_queue, viewing, side>>
    \/ side = "views" /\ ViewsNext /\ Viewed /\ UNCHANGED <<of_queue, side>>
MCSpec == MCInit /\ [][MCNext]_<<of_queue, vars, viewing, side>> /\ Q!Fairness

\* Stated in PhotoUploadQueue: one upload is on the wire at a time, the first one first, and every
\* one of them settles.
OneAtATime == Q!OneAtATime
SentInOrder == Q!SentInOrder
EveryUploadSettles == Q!EveryUploadSettles
\* Stated in ProjectImages: the photo of one page has its three files, whatever fails on the server.
\* Stated in PhotoViews: a browser finds them, and shows what the row says.
PhotosAreThere == []FilesStayWhileConnected /\ RowsFilesAreFound /\ ShownIsWhatTheRowSays
=============================================================================
