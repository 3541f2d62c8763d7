-------------------------- MODULE PhotoUploadQueue --------------------------
(***************************************************************************)
(* The client's queue of photo uploads: the generic promise queue, which   *)
(* runs one request at a time and rejects everything that waits when one   *)
(* fails, and the upload queue around it, which counts the uploads that    *)
(* are not over yet and shows the progress of the one on the wire.         *)
(*                                                                         *)
(* A request and the code behind its await are different turns of the      *)
(* event loop, so each is a step of its own: the request settles, the      *)
(* queue goes on (or gives up what waits), and the finally of the item     *)
(* runs.  Anything may be enqueued between them.                           *)
(*                                                                         *)
(* Uploads are numbered in the order they are enqueued.                    *)
(***************************************************************************)
EXTENDS Integers, Sequences, FiniteSets

CONSTANTS
  MaxUploads,     \* bound: uploads enqueued
  ProgressSteps   \* the percentages the browser reports

\* Assumed by the module that gives the constants their values.
QueueAssumption ==
  /\ MaxUploads \in Nat
  /\ ProgressSteps \subseteq Nat

VARIABLES
  running,        \* promise_queue: its running flag
  waiting,        \* promise_queue: its waiting list
  current,        \* the upload whose start() has not returned, 0 for none
  enqueued,       \* how many uploads were enqueued
  state,          \* state[i] of the i-th upload's promise and request
  finished,       \* the uploads whose finally has run
  queued_count,
  progress_percent

vars == <<running, waiting, current, enqueued, state, finished, queued_count, progress_percent>>

Uploads == 1 .. MaxUploads

\* new: not enqueued; sent: the request is on the wire; failed: it was rejected but the
\* queue has not heard of it; resolved and rejected: what the caller's promise says.
States == {"new", "waiting", "sent", "failed", "resolved", "rejected"}

-----------------------------------------------------------------------------
(* start(item), up to its await: the flag goes up and the request is sent. *)
Start(i) ==
  /\ running' = TRUE
  /\ current' = i
  /\ state' = [state EXCEPT ![i] = "sent"]
  /\ progress_percent' = 0

\* (a mistake) a request that finds the queue running is started at once
EnqueueAndStart ==
  /\ enqueued < MaxUploads
  /\ enqueued' = enqueued + 1
  /\ queued_count' = queued_count + 1
  /\ Start(enqueued + 1)
  /\ UNCHANGED <<waiting, finished>>

Enqueue ==
  /\ enqueued < MaxUploads
  /\ enqueued' = enqueued + 1
  /\ queued_count' = queued_count + 1
  /\ \/ /\ running
        /\ waiting' = Append(waiting, enqueued + 1)
        /\ state' = [state EXCEPT ![enqueued + 1] = "waiting"]
        /\ UNCHANGED <<running, current, progress_percent>>
     \/ /\ ~running
        /\ Start(enqueued + 1)
        /\ UNCHANGED waiting
  /\ UNCHANGED finished

OnProgress(percent) ==
  /\ current # 0
  /\ state[current] = "sent"
  /\ progress_percent' = percent
  /\ UNCHANGED <<running, waiting, current, enqueued, state, finished, queued_count>>

\* The upload succeeds: run() resolves the item's promise.
Succeed ==
  /\ current # 0
  /\ state[current] = "sent"
  /\ state' = [state EXCEPT ![current] = "resolved"]
  /\ UNCHANGED <<running, waiting, current, enqueued, finished, queued_count, progress_percent>>

\* The upload fails; start() is still to hear of it.
Fail ==
  /\ current # 0
  /\ state[current] = "sent"
  /\ state' = [state EXCEPT ![current] = "failed"]
  /\ UNCHANGED <<running, waiting, current, enqueued, finished, queued_count, progress_percent>>

\* (a mistake) the queue stops behind a finished upload
GoOnWithoutTheNext ==
  /\ current # 0
  /\ state[current] = "resolved"
  /\ running' = FALSE
  /\ current' = 0
  /\ UNCHANGED <<waiting, enqueued, state, finished, queued_count, progress_percent>>

\* (a mistake) the one that came last goes first
GoOnWithTheLast ==
  /\ current # 0
  /\ state[current] = "resolved"
  /\ IF waiting = <<>>
     THEN running' = FALSE /\ current' = 0 /\ UNCHANGED <<waiting, state, progress_percent>>
     ELSE Start(waiting[Len(waiting)]) /\ waiting' = SubSeq(waiting, 1, Len(waiting) - 1)
  /\ UNCHANGED <<enqueued, finished, queued_count>>

\* start() goes on after a success: the next in line is started.
GoOn ==
  /\ current # 0
  /\ state[current] = "resolved"
  /\ IF waiting = <<>>
     THEN running' = FALSE /\ current' = 0 /\ UNCHANGED <<waiting, state, progress_percent>>
     ELSE Start(Head(waiting)) /\ waiting' = Tail(waiting)
  /\ UNCHANGED <<enqueued, finished, queued_count>>

\* start() goes on after a failure: the upload and everything behind it are rejected.
GiveUp ==
  /\ current # 0
  /\ state[current] = "failed"
  /\ state' = [i \in Uploads |->
                 IF i = current \/ \E k \in 1 .. Len(waiting) : waiting[k] = i THEN "rejected" ELSE state[i]]
  /\ waiting' = <<>>
  /\ running' = FALSE
  /\ current' = 0
  /\ UNCHANGED <<enqueued, finished, queued_count, progress_percent>>

\* finish_one, the finally of every upload.
FinishOne(i) ==
  /\ state[i] \in {"resolved", "rejected"}
  /\ i \notin finished
  /\ finished' = finished \cup {i}
  /\ queued_count' = queued_count - 1
  /\ progress_percent' = IF queued_count' = 0 THEN 0 ELSE progress_percent
  /\ UNCHANGED <<running, waiting, current, enqueued, state>>

-----------------------------------------------------------------------------
Init ==
  /\ running = FALSE
  /\ waiting = <<>>
  /\ current = 0
  /\ enqueued = 0
  /\ state = [i \in Uploads |-> "new"]
  /\ finished = {}
  /\ queued_count = 0
  /\ progress_percent = 0

Next ==
  \/ Enqueue
  \/ \E percent \in ProgressSteps : OnProgress(percent)
  \/ Succeed
  \/ Fail
  \/ GoOn
  \/ GiveUp
  \/ \E i \in Uploads : FinishOne(i)

\* Every request that is sent settles (the browser reports its end or its failure), and
\* the event loop runs what is ready.  Nobody has to enqueue anything.
Fairness ==
  /\ WF_vars(Succeed \/ Fail)
  /\ WF_vars(GoOn)
  /\ WF_vars(GiveUp)
  /\ \A i \in Uploads : WF_vars(FinishOne(i))

Spec == Init /\ [][Next]_vars /\ Fairness

-----------------------------------------------------------------------------
TypeOK ==
  /\ running \in BOOLEAN
  /\ waiting \in Seq(Uploads)
  /\ current \in 0 .. MaxUploads
  /\ enqueued \in 0 .. MaxUploads
  /\ state \in [Uploads -> States]
  /\ finished \in SUBSET Uploads
  /\ queued_count \in Nat
  /\ progress_percent \in Nat

\* At most one upload is on the wire, and whatever waits, waits for one: no order of
\* enqueuing, settling and going on leaves the queue idle with an upload in it.
OneAtATime ==
  /\ \A i, j \in Uploads : state[i] = "sent" /\ state[j] = "sent" => i = j
  /\ (\E i \in Uploads : state[i] = "waiting") => running /\ current # 0

\* Uploads are sent in the order they were enqueued: what was sent has nothing waiting
\* that came before it.
SentInOrder ==
  \A i, j \in Uploads : i < j /\ state[j] \in {"sent", "failed", "resolved"} => state[i] # "waiting"

\* While an upload is neither done nor given up, the count the page shows is not zero; once
\* it is zero the progress bar is empty, whichever way the last upload ended.
CountShowsTheUploads ==
  /\ queued_count = Cardinality({i \in 1 .. enqueued : i \notin finished})
  /\ finished \subseteq {i \in Uploads : state[i] \in {"resolved", "rejected"}}
  /\ queued_count = 0 => progress_percent = 0

\* Every upload that is enqueued is settled in the end, and the count goes back to zero.
EveryUploadSettles ==
  /\ \A i \in Uploads : (i <= enqueued) ~> (state[i] \in {"resolved", "rejected"})
  /\ (queued_count # 0) ~> (queued_count = 0)

=============================================================================
