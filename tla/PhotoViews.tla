----------------------------- MODULE PhotoViews -----------------------------
(***************************************************************************)
(* A browser shows the display of a photo (worker/bare_endpoints/           *)
(* project_image/project_image_file.ts) while ProjectImages goes on: the    *)
(* request reads the row, and then the object that the row named.  The     *)
(* browser keeps the body with the ETag that it came under, and asks again *)
(* every time whether the ETag is still the one of the row (no-cache).     *)
(***************************************************************************)
EXTENDS ProjectImages

CONSTANT MaxViews  \* bound: how often the photo is shown

\* Assumed by the module that gives the constants their values.
ViewsAssumption == MaxViews \in Nat /\ "not found" \notin Drawings \cup {NoDrawing, Nothing}

VARIABLES
  view,    \* the request: what it has read of the row, and whether an upload went on beside it
  cache,   \* what the browser keeps: the body and its ETag
  shown,   \* what the last request showed: a drawing, Nothing, or "not found"
  views

viewing == <<view, cache, shown, views>>

NoView == [key |-> Nothing, etag |-> Nothing, beside |-> FALSE]
Asking == view # NoView
UploadsRun == \E r \in Uploads : requests[r].phase \in {"putting", "deleting"} \/ requests[r].to_put # {}

\* (a mistake) the browser need not ask again
CachedIsKept == cache # Nothing
\* if_none_match_includes: an empty ETag matches nothing.
NotModified == cache # Nothing /\ cache.etag = row.display_etag

\* A row without a file is answered with 404, and one that the browser has with 304.
ReadRow ==
  /\ ~Asking /\ views < MaxViews
  /\ views' = views + 1
  /\ IF row.display = Nothing THEN shown' = "not found" /\ UNCHANGED view
     ELSE IF NotModified THEN shown' = cache.body /\ UNCHANGED view
     ELSE /\ view' = [key |-> row.display, etag |-> row.display_etag, beside |-> UploadsRun]
          /\ UNCHANGED shown
  /\ UNCHANGED <<cache, vars>>

\* The body is what the object is by now, under the ETag that was read before.
GetObject ==
  /\ Asking
  /\ IF objects[view.key] = Nothing
     THEN shown' = "not found" /\ UNCHANGED cache
     ELSE /\ cache' = [body |-> objects[view.key], etag |-> view.etag, beside |-> view.beside \/ UploadsRun]
          /\ shown' = objects[view.key]
  /\ view' = NoView
  /\ UNCHANGED <<views, vars>>

ViewsInit == Init /\ view = NoView /\ cache = Nothing /\ shown = Nothing /\ views = 0
\* What happens to the photo may touch the request that is under way.
ViewsNext ==
  \/ Next /\ view' = (IF Asking THEN [view EXCEPT !.beside = @ \/ UploadsRun] ELSE view)
          /\ UNCHANGED <<cache, shown, views>>
  \/ ReadRow \/ GetObject
ViewsSpec == ViewsInit /\ [][ViewsNext]_<<vars, viewing>>

-----------------------------------------------------------------------------

Shows == (ReadRow \/ GetObject) /\ view' = NoView

\* What a request shows when no upload goes on is what the row says, whether the browser had it
\* or not, also after an undo brought an ETag back: the body under it is of the same drawing.
\* Nothing has failed, and no upload came beside the request that brought the body.
ShownIsWhatTheRowSays ==
  [][Shows /\ shown' # "not found" /\ failures = 0 /\ cuts = 0 /\ ~UploadsRun /\ ~cache'.beside
        => shown' = row.display_etag]_<<vars, viewing>>

\* A photo that was uploaded is not "not found", whatever fails on the server, unless its display
\* was deleted between the request's reads of the row and of the object.
RowsFilesAreFound ==
  [][Shows /\ shown' = "not found" /\ cuts = 0 /\ row.uploaded => view.beside]_<<vars, viewing>>
=============================================================================
