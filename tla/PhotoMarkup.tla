----------------------------- MODULE PhotoMarkup -----------------------------
(***************************************************************************)
(* Taking photos of a line item, drawing on them and saving them           *)
(* (PhotoMarkup.svelte, LineItemCamera.State.svelte,                       *)
(* LineItemPhoto.State.svelte).  What is drawn is kept twice: as strokes,   *)
(* in the undo history, and as pixels of a canvas over the photo.  A save   *)
(* takes the picture from the canvas at once, encodes it, takes the strokes *)
(* from the history after that, and only then asks the server; the upload   *)
(* of the files is left to the queue (PhotoUploadQueue, ProjectImages).     *)
(*                                                                         *)
(* The buttons of the page are off during a save, the canvas is not, nor    *)
(* are the links to other pages: a save goes on when its page is left.  A   *)
(* stroke is a number; pixels are the set of strokes they show.  Another    *)
(* page is not opened while a save runs.                                   *)
(***************************************************************************)
EXTENDS Integers, FiniteSets, Sequences, SequencesExt

CONSTANTS
    MaxStrokes, MaxPhotos, MaxFailures, \* bounds on strokes, on photos, and on requests that fail
    None

VARIABLES
    page,       \* "left", "live", "capturing", "marking" of the camera page, or "photo"
    item,       \* the line item of the page, None for one to be made
    image,      \* the photo of the photo page, or None
    going,      \* the line item whose page is being loaded, or None
    history,    \* [done, undone] strokes
    drawing,    \* the stroke under the pointer, or None
    overlay,    \* the strokes that the canvas shows
    save,       \* the save that is running, or None
    items,      \* the line items made
    images,     \* their photos: [item, strokes, files], files None until queued
    last_stroke, failures

canvas == <<history, drawing, overlay>>
vars == <<page, item, image, going, canvas, save, items, images, last_stroke, failures>>

\* Assumed by the module that gives the constants their values.
Photos == [item : Nat \cup {None}, strokes : Seq(Nat),
           files : [picture : SUBSET Nat, touched : BOOLEAN] \cup {None}]
Saves == [step : {"composing", "create item", "create image", "update", "enqueue"}, page : {"marking", "photo"},
          item : Nat \cup {None}, image : Nat \cup {None}, picture : SUBSET Nat, strokes : Seq(Nat),
          touched : BOOLEAN]
MarkupAssumption == None \notin Nat \cup Saves

Empty == [done |-> <<>>, undone |-> <<>>]
FromDone(strokes) == [done |-> strokes, undone |-> <<>>]
Push(stack, stroke) == FromDone(Append(stack.done, stroke))
Undone(stack) == [done |-> Front(stack.done), undone |-> Append(stack.undone, Last(stack.done))]
Redone(stack) == [done |-> Append(stack.done, Last(stack.undone)), undone |-> Front(stack.undone)]

Pixels(stroke) == {stroke} \ {None}
\* (a mistake) the canvas is not cleared first
RedrawnOver(stack, stroke) == overlay \cup ToSet(stack.done) \cup Pixels(stroke)
Redrawn(stack, stroke) == ToSet(stack.done) \cup Pixels(stroke)

\* Another canvas is shown, or none.
Fresh(stack) == history' = stack /\ drawing' = None /\ overlay' = ToSet(stack.done)
Marking == page \in {"marking", "photo"}
Busy == save # None \/ page = "capturing"

Init ==
    /\ page = "left" /\ item = None /\ image = None /\ going = None
    /\ history = Empty /\ drawing = None /\ overlay = {}
    /\ save = None
    /\ items \in 0 .. 1 /\ images = <<>>
    /\ last_stroke = 0 /\ failures = 0

-----------------------------------------------------------------------------
(* Drawing.                                                                *)

Touched == save' = IF save = None THEN None ELSE [save EXCEPT !.touched = TRUE]

PointerDown ==
    /\ Marking /\ drawing = None
    /\ last_stroke < MaxStrokes
    /\ last_stroke' = last_stroke + 1
    /\ drawing' = last_stroke + 1
    /\ overlay' = overlay \cup {last_stroke + 1}
    /\ Touched
    /\ UNCHANGED <<page, item, image, going, history, items, images, failures>>

\* The history changes, and the canvas is drawn anew.
Turn(stack, stroke) ==
    /\ history' = stack /\ drawing' = stroke
    /\ overlay' = Redrawn(stack, stroke)
    /\ Touched
    /\ UNCHANGED <<page, item, image, going, items, images, last_stroke, failures>>
PointerEnd == Marking /\ drawing # None /\ Turn(Push(history, drawing), None)
Undo == Marking /\ history.done # <<>> /\ Turn(Undone(history), drawing)
Redo == Marking /\ history.undone # <<>> /\ Turn(Redone(history), drawing)

-----------------------------------------------------------------------------
(* The pages.                                                              *)

OpenCamera(i) ==
    /\ page = "left" /\ save = None /\ going = None
    /\ page' = "live" /\ item' = i
    /\ UNCHANGED <<image, going, canvas, save, items, images, last_stroke, failures>>

\* The photo page needs the original: a photo whose upload was queued.
OpenPhoto(i) ==
    /\ page = "left" /\ save = None /\ going = None
    /\ images[i].files # None
    /\ page' = "photo" /\ item' = images[i].item /\ image' = i
    /\ Fresh(FromDone(images[i].strokes))
    /\ UNCHANGED <<going, save, items, images, last_stroke, failures>>

Leave ==
    /\ page # "left"
    /\ page' = "left" /\ image' = None /\ going' = None
    /\ IF save = None THEN Fresh(Empty) ELSE UNCHANGED canvas
    /\ UNCHANGED <<item, save, items, images, last_stroke, failures>>

\* The page of a line item that was made with its first photo is loaded.
Arrive ==
    /\ going # None
    /\ page' = "live" /\ item' = going /\ going' = None
    /\ IF save = None THEN Fresh(Empty) ELSE UNCHANGED canvas
    /\ UNCHANGED <<image, save, items, images, last_stroke, failures>>

TakePhoto ==
    /\ page = "live" /\ ~Busy
    /\ Len(images) < MaxPhotos
    /\ page' = "capturing"
    /\ UNCHANGED <<item, image, going, canvas, save, items, images, last_stroke, failures>>
Captured ==
    /\ page = "capturing"
    /\ \/ page' = "marking" /\ Fresh(Empty)
       \/ page' = "live" /\ UNCHANGED canvas
    /\ UNCHANGED <<item, image, going, save, items, images, last_stroke, failures>>

Discard ==
    /\ Marking /\ ~Busy
    /\ page' = IF page = "photo" THEN "left" ELSE "live"
    /\ image' = None
    /\ Fresh(Empty)
    /\ UNCHANGED <<item, going, save, items, images, last_stroke, failures>>

-----------------------------------------------------------------------------
(* Save photo.                                                             *)

\* The canvases are drawn at once, with what the canvas over the photo shows if
\* the history says there are strokes.
Compose ==
    /\ Marking /\ ~Busy
    /\ IF page = "photo" THEN history.done # images[image].strokes ELSE Len(images) < MaxPhotos
    /\ save' = [step |-> "composing", page |-> page, item |-> item, image |-> image,
                picture |-> IF history.done = <<>> THEN {} ELSE overlay,
                strokes |-> <<>>, touched |-> drawing # None]
    /\ UNCHANGED <<page, item, image, going, canvas, items, images, last_stroke, failures>>

\* Nothing was changed.
GoBack ==
    /\ page = "photo" /\ ~Busy
    /\ history.done = images[image].strokes
    /\ page' = "left" /\ image' = None
    /\ Fresh(Empty)
    /\ UNCHANGED <<item, going, save, items, images, last_stroke, failures>>

\* The files are encoded.  What follows them is touched by nobody.
Composed ==
    /\ save # None /\ save.step = "composing"
    /\ save' = [save EXCEPT !.strokes = history.done,
                            !.step = IF save.page = "photo" THEN "update"
                                     ELSE IF save.item = None THEN "create item" ELSE "create image"]
    /\ UNCHANGED <<page, item, image, going, canvas, items, images, last_stroke, failures>>

CreateLineItem ==
    /\ save # None /\ save.step = "create item"
    /\ items' = items + 1
    /\ save' = [save EXCEPT !.step = "create image", !.item = items + 1]
    /\ UNCHANGED <<page, item, image, going, canvas, images, last_stroke, failures>>

CreateLineItemImage ==
    /\ save # None /\ save.step = "create image"
    /\ images' = Append(images, [item |-> save.item, strokes |-> save.strokes, files |-> None])
    /\ save' = [save EXCEPT !.step = "enqueue", !.image = Len(images) + 1]
    /\ UNCHANGED <<page, item, image, going, canvas, items, last_stroke, failures>>

UpdateProjectImage ==
    /\ save # None /\ save.step = "update"
    /\ images' = [images EXCEPT ![save.image].strokes = save.strokes]
    /\ save' = [save EXCEPT !.step = "enqueue"]
    /\ UNCHANGED <<page, item, image, going, canvas, items, last_stroke, failures>>

\* The answer: the files are queued, and the camera goes on or another page comes.
\* The buttons are on again before it does.
Enqueue ==
    /\ save # None /\ save.step = "enqueue"
    /\ images' = [images EXCEPT ![save.image].files = [picture |-> save.picture, touched |-> save.touched]]
    /\ save' = None
    /\ IF save.page = "photo" THEN page' = "left" /\ image' = None /\ UNCHANGED going
       ELSE /\ going' = IF item = None THEN save.item ELSE going
            /\ page' = IF item # None /\ page = "marking" THEN "live" ELSE page
            /\ UNCHANGED image
    /\ IF page' = "marking" THEN UNCHANGED canvas ELSE Fresh(Empty)
    /\ UNCHANGED <<item, items, last_stroke, failures>>

\* Encoding fails, or a request is refused, or its answer is lost.
SaveFails ==
    /\ save # None
    /\ failures < MaxFailures
    /\ failures' = failures + 1
    /\ save' = None
    /\ UNCHANGED <<page, item, image, going, canvas, items, images, last_stroke>>

Next ==
    \/ PointerDown \/ PointerEnd \/ Undo \/ Redo
    \/ \E i \in 1 .. items \cup {None} : OpenCamera(i)
    \/ \E i \in DOMAIN images : OpenPhoto(i)
    \/ Leave \/ Arrive
    \/ TakePhoto \/ Captured \/ Discard
    \/ Compose \/ GoBack \/ Composed
    \/ CreateLineItem \/ CreateLineItemImage \/ UpdateProjectImage
    \/ Enqueue \/ SaveFails

Spec == Init /\ [][Next]_vars

-----------------------------------------------------------------------------
\* Once no save runs, and none has failed, the files that were queued for a photo show
\* the very strokes that are stored for it, through undoing, redoing and coming back to
\* it; unless the user drew while it was being saved
\* (PhotoMarkup.svelte:29-52 and 118-137).
PicturesShowTheirStrokes ==
    save = None /\ failures = 0 =>
        \A i \in DOMAIN images :
            LET files == images[i].files
            IN  files # None /\ ~files.touched => files.picture = ToSet(images[i].strokes)
=============================================================================
