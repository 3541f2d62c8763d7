---------------------------- MODULE ProjectImages ----------------------------
(***************************************************************************)
(* The files of one photo: its project_image row, its three objects in the *)
(* store, the pages that draw on it, and the server's handling of each     *)
(* upload.  The keys of the objects are fixed per photo, so an upload      *)
(* overwrites the objects of the last one, before the row says so.         *)
(*                                                                         *)
(* A request puts its files side by side, then updates the row in one      *)
(* transaction, then deletes a display object the row no longer names,     *)
(* then reads the row again to answer.  A page sends one request at a time *)
(* (PhotoUploadQueue), but the server goes on with a request whose page    *)
(* was cut off, and a put goes on after the one beside it has failed.      *)
(*                                                                         *)
(* Abstractions.  A drawing stands for the strokes, for the composed file  *)
(* and for its ETag, which is a hash of the content; NoDrawing is a photo  *)
(* with no strokes, whose display is the original.  The photo's first      *)
(* upload was queued by the page that took it.  A deletion the store       *)
(* refuses is not carried out later.                                       *)
(***************************************************************************)
EXTENDS Integers, Sequences, FiniteSets

CONSTANTS
  Pages,        \* browser pages of the company
  Camera,       \* the page that took the photo
  Drawings,     \* what can be drawn on it
  NoDrawing,
  Nothing,      \* no object, or an empty ETag
  MaxUploads,   \* bound: uploads of this photo
  MaxFailures,  \* bound: puts, transactions, workers or saves of strokes that fail
  MaxCuts       \* bound: uploads whose connection breaks

\* Assumed by the modules that give the constants their values.
ImagesAssumption ==
  /\ Camera \in Pages
  /\ NoDrawing \notin Drawings
  /\ Nothing \notin Drawings \cup {NoDrawing, "original", "display"}
  /\ MaxUploads \in Nat \ {0}
  /\ MaxFailures \in Nat
  /\ MaxCuts \in Nat

VARIABLES
  row,       \* the project_image row
  objects,   \* the objects in the store, by variant
  requests,  \* requests[r]: the r-th upload
  made,      \* how many uploads were made
  queue,     \* queue[p]: the uploads of page p that are not settled, the first on the wire
  pages,     \* pages[p]: what page p does with the photo
  etags,     \* etags[p]: uploaded_etags of page p, Nothing while it has none
  failures,
  cuts

vars == <<row, objects, requests, made, queue, pages, etags, failures, cuts>>
faults == <<failures, cuts>>

Strokes  == Drawings \cup {NoDrawing}
Uploads  == 1 .. MaxUploads
Variants == {"original", "display", "thumbnail"}
Phases   == {"new", "queued", "delivered", "putting", "deleting", "reading", "answering", "done", "failed"}

Closed == [step |-> "closed", loaded |-> NoDrawing, strokes |-> NoDrawing]

Request(first, strokes) ==
  [phase |-> "queued", first |-> first, strokes |-> strokes, to_put |-> {}, answer |-> Nothing]

\* The files an upload carries: markup leaves out the original, a photo with no strokes
\* the display.
Files(r) ==
  {"thumbnail"} \cup (IF requests[r].first THEN {"original"} ELSE {})
                \cup (IF requests[r].strokes # NoDrawing THEN {"display"} ELSE {})

OnTheWire(p, r) == queue[p] # <<>> /\ Head(queue[p]) = r

-----------------------------------------------------------------------------
(* The page.                                                               *)

\* The photo page loads: it needs the original, and shows the row's strokes.
Open(p) ==
  /\ pages[p].step = "closed"
  /\ row.uploaded
  /\ pages' = [pages EXCEPT ![p] = [step |-> "open", loaded |-> row.strokes, strokes |-> row.strokes]]
  /\ UNCHANGED <<row, objects, requests, made, queue, etags, faults>>

Discard(p) ==
  /\ pages[p].step = "open"
  /\ pages' = [pages EXCEPT ![p] = Closed]
  /\ UNCHANGED <<row, objects, requests, made, queue, etags, faults>>

\* Save photo: update_project_image stores the strokes, if they changed.
SaveStrokes(p, strokes) ==
  /\ pages[p].step = "open"
  /\ strokes # pages[p].loaded
  /\ row' = [row EXCEPT !.strokes = strokes]
  /\ pages' = [pages EXCEPT ![p].step = "saving", ![p].strokes = strokes]
  /\ UNCHANGED <<objects, requests, made, queue, etags, faults>>

\* The strokes are stored: the upload is queued and the page goes back.
Enqueue(p) ==
  /\ pages[p].step = "saving"
  /\ made < MaxUploads
  /\ made' = made + 1
  /\ requests' = [requests EXCEPT ![made + 1] = Request(FALSE, pages[p].strokes)]
  /\ queue' = [queue EXCEPT ![p] = Append(@, made + 1)]
  /\ pages' = [pages EXCEPT ![p] = Closed]
  /\ UNCHANGED <<row, objects, etags, faults>>

\* The answer to update_project_image never comes: nothing is queued.
LoseStrokesAnswer(p) ==
  /\ pages[p].step = "saving"
  /\ failures < MaxFailures
  /\ failures' = failures + 1
  /\ pages' = [pages EXCEPT ![p].step = "open"]
  /\ UNCHANGED <<row, objects, requests, made, queue, etags, cuts>>

-----------------------------------------------------------------------------
(* The server.                                                             *)

Fails(r) == requests' = [requests EXCEPT ![r].phase = "failed"]

\* The request is handled: the row is read, and the files must be of the kind it asks for.
Arrive(r) ==
  /\ \/ requests[r].phase = "queued" /\ \E p \in Pages : OnTheWire(p, r)
     \/ requests[r].phase = "delivered"
  /\ IF row.uploaded = requests[r].first
     THEN Fails(r)
     ELSE requests' = [requests EXCEPT ![r].phase = "putting", ![r].to_put = Files(r)]
  /\ UNCHANGED <<row, objects, made, queue, pages, etags, faults>>

\* One of the puts that run side by side lands, perhaps after another has failed.
Put(r, variant) ==
  /\ requests[r].phase \in {"putting", "failed"}
  /\ variant \in requests[r].to_put
  /\ objects' = [objects EXCEPT ![variant] =
                   IF variant = "original" THEN NoDrawing ELSE requests[r].strokes]
  /\ requests' = [requests EXCEPT ![r].to_put = @ \ {variant}]
  /\ UNCHANGED <<row, made, queue, pages, etags, faults>>

\* (a mistake) a photo without strokes keeps the display key it has
CommitKeepingTheDisplayKey(r) ==
  /\ requests[r].phase = "putting"
  /\ requests[r].to_put = {}
  /\ IF row.uploaded = requests[r].first
     THEN Fails(r) /\ UNCHANGED row
     ELSE /\ row' = [row EXCEPT !.uploaded = TRUE,
                                !.display = IF requests[r].strokes # NoDrawing THEN "display"
                                            ELSE IF @ = Nothing THEN "original" ELSE @,
                                !.display_etag = requests[r].strokes,
                                !.thumbnail_etag = requests[r].strokes]
          /\ requests' = [requests EXCEPT ![r].phase =
                            IF requests[r].strokes = NoDrawing /\ row.display = "display"
                            THEN "deleting" ELSE "reading"]
  /\ UNCHANGED <<objects, made, queue, pages, etags, faults>>

\* The transaction: the row is locked, checked once more and updated.  With no display
\* file the row's display becomes the original, and a display object is left to delete.
Commit(r) ==
  /\ requests[r].phase = "putting"
  /\ requests[r].to_put = {}
  /\ IF row.uploaded = requests[r].first
     THEN Fails(r) /\ UNCHANGED row
     ELSE /\ row' = [row EXCEPT !.uploaded = TRUE,
                                !.display = IF requests[r].strokes = NoDrawing THEN "original" ELSE "display",
                                !.display_etag = requests[r].strokes,
                                !.thumbnail_etag = requests[r].strokes]
          /\ requests' = [requests EXCEPT ![r].phase =
                            IF requests[r].strokes = NoDrawing /\ row.display = "display"
                            THEN "deleting" ELSE "reading"]
  /\ UNCHANGED <<objects, made, queue, pages, etags, faults>>

DeleteStaleDisplay(r) ==
  /\ requests[r].phase = "deleting"
  /\ objects' = [objects EXCEPT !["display"] = Nothing]
  /\ requests' = [requests EXCEPT ![r].phase = "reading"]
  /\ UNCHANGED <<row, made, queue, pages, etags, faults>>

\* The row is read once more, whatever has happened to it since the commit.
ReadAgain(r) ==
  /\ requests[r].phase = "reading"
  /\ requests' = [requests EXCEPT ![r].phase = "answering",
                                  ![r].answer = [display |-> row.display_etag, thumbnail |-> row.thumbnail_etag]]
  /\ UNCHANGED <<row, objects, made, queue, pages, etags, faults>>

\* A put, the transaction or the deletion fails, or the worker is stopped.
Break(r) ==
  /\ requests[r].phase \in {"putting", "deleting", "reading"}
  /\ failures < MaxFailures
  /\ failures' = failures + 1
  /\ Fails(r)
  /\ UNCHANGED <<row, objects, made, queue, pages, etags, cuts>>

-----------------------------------------------------------------------------
(* The answer.                                                             *)

Answered(p, r) ==
  /\ OnTheWire(p, r)
  /\ requests[r].phase = "answering"
  /\ requests' = [requests EXCEPT ![r].phase = "done"]
  /\ queue' = [queue EXCEPT ![p] = Tail(@)]
  /\ etags' = [etags EXCEPT ![p] = requests[r].answer]
  /\ UNCHANGED <<row, objects, made, pages, faults>>

\* The page's queue rejects the upload that failed and all that wait behind it.
Refused(p, r) ==
  /\ OnTheWire(p, r)
  /\ requests[r].phase = "failed"
  /\ queue' = [queue EXCEPT ![p] = <<>>]
  /\ UNCHANGED <<row, objects, requests, made, pages, etags, faults>>

\* The connection breaks: the queue gives up, but the request may have been delivered and
\* the server goes on with it.
Disconnect(p) ==
  /\ queue[p] # <<>>
  /\ cuts < MaxCuts
  /\ cuts' = cuts + 1
  /\ queue' = [queue EXCEPT ![p] = <<>>]
  /\ \/ UNCHANGED requests
     \/ /\ requests[Head(queue[p])].phase = "queued"
        /\ requests' = [requests EXCEPT ![Head(queue[p])].phase = "delivered"]
  /\ UNCHANGED <<row, objects, made, pages, etags, failures>>

\* The page leaves the estimate: uploaded_etags is cleared.
LeaveEstimate(p) ==
  /\ etags[p] # Nothing
  /\ etags' = [etags EXCEPT ![p] = Nothing]
  /\ UNCHANGED <<row, objects, requests, made, queue, pages, faults>>

-----------------------------------------------------------------------------
Init ==
  \E strokes \in Strokes :
    /\ row = [uploaded |-> FALSE, strokes |-> strokes, display |-> Nothing,
              display_etag |-> Nothing, thumbnail_etag |-> Nothing]
    /\ objects = [variant \in Variants |-> Nothing]
    /\ requests = [r \in Uploads |-> IF r = 1 THEN Request(TRUE, strokes)
                                     ELSE [Request(FALSE, NoDrawing) EXCEPT !.phase = "new"]]
    /\ made = 1
    /\ queue = [p \in Pages |-> IF p = Camera THEN <<1>> ELSE <<>>]
    /\ pages = [p \in Pages |-> Closed]
    /\ etags = [p \in Pages |-> Nothing]
    /\ failures = 0
    /\ cuts = 0

Next ==
  \/ \E p \in Pages :
       \/ Open(p)
       \/ Discard(p)
       \/ \E strokes \in Strokes : SaveStrokes(p, strokes)
       \/ Enqueue(p)
       \/ LoseStrokesAnswer(p)
       \/ \E r \in Uploads : Answered(p, r) \/ Refused(p, r)
       \/ Disconnect(p)
       \/ LeaveEstimate(p)
  \/ \E r \in Uploads :
       \/ Arrive(r)
       \/ \E variant \in Variants : Put(r, variant)
       \/ Commit(r)
       \/ DeleteStaleDisplay(r)
       \/ ReadAgain(r)
       \/ Break(r)

Spec == Init /\ [][Next]_vars

-----------------------------------------------------------------------------
Contents == Strokes \cup {Nothing}

\* The types, and the shape the schema's check constraint gives the row.
TypeOK ==
  /\ row \in [uploaded : BOOLEAN, strokes : Strokes, display : {Nothing, "original", "display"},
              display_etag : Contents, thumbnail_etag : Contents]
  /\ row.uploaded <=> row.display # Nothing            \* chk_project_image_uploaded_files
  /\ objects \in [Variants -> Contents]
  /\ requests \in [Uploads -> [phase : Phases, first : BOOLEAN, strokes : Strokes, to_put : SUBSET Variants,
                               answer : {Nothing} \cup [display : Contents, thumbnail : Contents]]]
  /\ made \in 1 .. MaxUploads
  /\ queue \in [Pages -> Seq(Uploads)]
  /\ pages \in [Pages -> [step : {"closed", "open", "saving"}, loaded : Strokes, strokes : Strokes]]
  /\ etags \in [Pages -> {Nothing} \cup [display : Contents, thumbnail : Contents]]
  /\ failures \in 0 .. MaxFailures
  /\ cuts \in 0 .. MaxCuts

\* "Every uploaded photo has an original, a display, and a thumbnail file."
EveryFileExists ==
  row.uploaded =>
    /\ objects["original"] # Nothing
    /\ objects["thumbnail"] # Nothing
    /\ objects[row.display] # Nothing

\* Whatever fails on the server, at whatever step, the photo of one page has its three
\* files, as long as no request was left to run beside the page's next one.
FilesStayWhileConnected == cuts = 0 => EveryFileExists

\* Nothing of the photo is on its way any more.
Quiet ==
  /\ \A p \in Pages : queue[p] = <<>> /\ pages[p].step # "saving"
  /\ \A r \in Uploads : requests[r].phase \in {"new", "queued", "done", "failed"} /\ requests[r].to_put = {}

\* What the row says is displayed.
Display == objects[row.display]

\* While nothing fails, a quiet photo has its strokes drawn on the display and on the
\* thumbnail, ETags that fit the objects, on the row and on every page that has some, and
\* no display object that the row does not name.
QuietPhotoIsWhole ==
  Quiet /\ failures = 0 /\ cuts = 0 =>
    /\ row.uploaded
    /\ Display = row.strokes /\ objects["thumbnail"] = row.strokes
    /\ row.display_etag = Display /\ row.thumbnail_etag = objects["thumbnail"]
    /\ row.display = "original" => objects["display"] = Nothing
    /\ \A p \in Pages : etags[p] \in {Nothing, [display |-> Display, thumbnail |-> objects["thumbnail"]]}

=============================================================================
