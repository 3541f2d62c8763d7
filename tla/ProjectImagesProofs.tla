------------------------ MODULE ProjectImagesProofs ------------------------
(***************************************************************************)
(* The queue of a page sends one upload at a time, in order, loses none     *)
(* and counts them right, for any number of uploads.  The photo of one page *)
(* has its files whatever fails on the server, and shows its strokes once   *)
(* it is quiet and nothing has failed, and so does a browser that asks for  *)
(* it, for any number of uploads, drawings, failures and views.             *)
(***************************************************************************)
EXTENDS MCPhotos, FiniteSetTheorems, SequenceTheorems, TLAPS

-----------------------------------------------------------------------------
(* The queue.  Fairness plays no part: these are safety properties.        *)

\* Every upload up to this one has left the waiting list.
Started == enqueued - Len(waiting)

(* The strengthening: uploads leave the list at its head or all at once, so *)
(* the list is always the last Len(waiting) uploads, in order, and the one  *)
(* that start() runs is the one right before them.                          *)
ListIsTheTail ==
  /\ Started \in 0 .. enqueued
  /\ \A k \in 1 .. Len(waiting) : waiting[k] = Started + k
  /\ \A i \in Q!Uploads : state[i] = "waiting" <=> Started < i /\ i <= enqueued
  /\ \A i \in Q!Uploads : state[i] = "new" <=> enqueued < i

RunningIsTheLastStarted ==
  /\ running => /\ current \in Q!Uploads
                /\ current = Started
                /\ state[current] \in {"sent", "failed", "resolved"}
  /\ ~running => current = 0 /\ waiting = <<>>
  /\ \A i \in Q!Uploads : state[i] \in {"sent", "failed"} => i = current

QueueInv == Q!TypeOK /\ ListIsTheTail /\ RunningIsTheLastStarted

-----------------------------------------------------------------------------
LEMMA WaitingInTheList ==
  ASSUME QueueInv, NEW i \in Q!Uploads
  PROVE  (\E k \in 1 .. Len(waiting) : waiting[k] = i) <=> state[i] = "waiting"
<1>1. /\ Len(waiting) \in Nat /\ enqueued \in Nat /\ i \in Nat
      /\ \A k \in 1 .. Len(waiting) : waiting[k] = enqueued - Len(waiting) + k
      /\ state[i] = "waiting" <=> enqueued - Len(waiting) < i /\ i <= enqueued
  BY DEF QueueInv, Q!TypeOK, ListIsTheTail, Started, Q!Uploads
<1>2. ASSUME state[i] = "waiting"
      PROVE  \E k \in 1 .. Len(waiting) : waiting[k] = i
  <2> DEFINE k == i - (enqueued - Len(waiting))
  <2>1. k \in 1 .. Len(waiting)
    BY <1>1, <1>2
  <2>2. waiting[k] = enqueued - Len(waiting) + k
    BY <1>1, <2>1
  <2>3. waiting[k] = i
    BY <1>1, <2>2
  <2> HIDE DEF k
  <2> QED
    BY <2>1, <2>3
<1> QED
  BY <1>1, <1>2

LEMMA QueueBegins == Q!QueueAssumption /\ Q!Init => QueueInv
<1> SUFFICES ASSUME Q!QueueAssumption, Q!Init
             PROVE  QueueInv
  OBVIOUS
<1>1. waiting = <<>> /\ Len(waiting) = 0 /\ Started = 0
  <2>1. waiting = <<>>
    BY DEF Q!Init
  <2>2. enqueued = 0
    BY DEF Q!Init
  <2>3. Len(waiting) = 0
    BY <2>1
  <2>4. Started = 0
    BY <2>2, <2>3 DEF Started
  <2> QED
    BY <2>1, <2>3, <2>4
<1>2. running = FALSE /\ running \in BOOLEAN
  BY Zenon DEF Q!Init
<1>3. Q!TypeOK
  BY <1>1, <1>2 DEF Q!Init, Q!TypeOK, Q!States, Q!QueueAssumption
<1>4. ListIsTheTail
  BY <1>1 DEF Q!Init, ListIsTheTail, Q!Uploads, Q!QueueAssumption
<1>5. RunningIsTheLastStarted
  BY <1>1, <1>2 DEF Q!Init, RunningIsTheLastStarted
<1> QED
  BY <1>3, <1>4, <1>5 DEF QueueInv

(* A new upload goes to the end of the list, or starts on an empty one.     *)
LEMMA EnqueueKeeps == Q!QueueAssumption /\ QueueInv /\ Q!Enqueue => QueueInv'
<1> SUFFICES ASSUME Q!QueueAssumption, QueueInv, Q!Enqueue
             PROVE  QueueInv'
  OBVIOUS
<1> DEFINE n == enqueued + 1
<1>1. /\ enqueued \in Nat /\ n \in Q!Uploads /\ enqueued' = n
      /\ waiting \in Seq(Q!Uploads) /\ Len(waiting) \in Nat
      /\ queued_count' \in Nat /\ finished' = finished
  BY DEF Q!Enqueue, QueueInv, Q!TypeOK, Q!Uploads, Q!QueueAssumption
<1>2. CASE running
  <2>1. /\ waiting' = Append(waiting, n)
        /\ state' = [state EXCEPT ![n] = "waiting"]
        /\ UNCHANGED <<running, current, progress_percent>>
    BY <1>2 DEF Q!Enqueue
  <2>2. waiting' \in Seq(Q!Uploads) /\ Len(waiting') = Len(waiting) + 1 /\ Started' = Started
    BY <1>1, <2>1 DEF Started
  <2>3. \A k \in 1 .. Len(waiting') : waiting'[k] = Started' + k
    BY <1>1, <2>1, <2>2 DEF Q!Uploads, QueueInv, ListIsTheTail, Started
  <2>4. \A i \in Q!Uploads : state'[i] = IF i = n THEN "waiting" ELSE state[i]
    BY <1>1, <2>1 DEF QueueInv, Q!TypeOK
  <2>5. \A i \in Q!Uploads : /\ state'[i] = "waiting" <=> Started' < i /\ i <= n
                             /\ state'[i] = "new" <=> n < i
    BY <1>1, <2>2, <2>4 DEF QueueInv, ListIsTheTail, Q!Uploads, Started
  <2>6. ListIsTheTail'
    BY <1>1, <2>2, <2>3, <2>5 DEF QueueInv, ListIsTheTail, Started
  <2>7. Q!TypeOK'
    BY <1>1, <2>1, <2>2 DEF QueueInv, Q!TypeOK, Q!Uploads, Q!States, Q!QueueAssumption
  <2>8. state[n] = "new"
    BY <1>1 DEF QueueInv, ListIsTheTail
  <2>9. RunningIsTheLastStarted'
    BY <1>1, <1>2, <2>1, <2>2, <2>4, <2>8 DEF QueueInv, RunningIsTheLastStarted
  <2> QED
    BY <2>6, <2>7, <2>9 DEF QueueInv
<1>3. CASE ~running
  <2>1. Q!Start(n) /\ waiting' = waiting /\ waiting = <<>> /\ current = 0
    BY <1>3 DEF Q!Enqueue, QueueInv, RunningIsTheLastStarted
  <2>2. Len(waiting) = 0 /\ Started = enqueued /\ Started' = n
    BY <1>1, <2>1 DEF Started
  <2>3. \A i \in Q!Uploads : state'[i] = IF i = n THEN "sent" ELSE state[i]
    BY <1>1, <2>1 DEF Q!Start, QueueInv, Q!TypeOK
  <2>4. running' = TRUE /\ running' \in BOOLEAN
    BY <2>1, Zenon DEF Q!Start
  <2>5. Q!TypeOK'
    BY <1>1, <2>1, <2>4 DEF Q!Start, QueueInv, Q!TypeOK, Q!Uploads, Q!States, Q!QueueAssumption
  <2>6. \A i \in Q!Uploads : /\ state'[i] = "waiting" <=> n < i /\ i <= n
                             /\ state'[i] = "new" <=> n < i
    BY <1>1, <2>2, <2>3 DEF QueueInv, ListIsTheTail, Q!Uploads
  <2>7. ListIsTheTail'
    BY <1>1, <2>1, <2>2, <2>6 DEF ListIsTheTail
  <2>8. \A i \in Q!Uploads : state[i] \notin {"sent", "failed"}
    BY <2>1 DEF QueueInv, RunningIsTheLastStarted, Q!Uploads
  <2>9. RunningIsTheLastStarted'
    BY <1>1, <2>1, <2>2, <2>3, <2>4, <2>8 DEF Q!Start, RunningIsTheLastStarted
  <2> QED
    BY <2>5, <2>7, <2>9 DEF QueueInv
<1> QED
  BY <1>2, <1>3

(* A request settles; the list is not touched.                              *)
LEMMA SettleKeeps == Q!QueueAssumption /\ QueueInv /\ (Q!Succeed \/ Q!Fail) => QueueInv'
<1> SUFFICES ASSUME Q!QueueAssumption, QueueInv,
                    NEW s \in {"resolved", "failed"},
                    current # 0, state' = [state EXCEPT ![current] = s],
                    state[current] = "sent",
                    UNCHANGED <<running, waiting, current, enqueued, finished, queued_count, progress_percent>>
             PROVE  QueueInv'
  BY DEF Q!Succeed, Q!Fail
<1>1. current \in Q!Uploads /\ running
  BY DEF QueueInv, RunningIsTheLastStarted
<1>2. \A i \in Q!Uploads : state'[i] = IF i = current THEN s ELSE state[i]
  BY <1>1 DEF QueueInv, Q!TypeOK
<1>3. Q!TypeOK'
  BY <1>1 DEF QueueInv, Q!TypeOK, Q!States
<1>4. ListIsTheTail'
  BY <1>1, <1>2 DEF QueueInv, ListIsTheTail, Started
<1>5. RunningIsTheLastStarted'
  BY <1>1, <1>2 DEF QueueInv, RunningIsTheLastStarted, Started
<1> QED
  BY <1>3, <1>4, <1>5 DEF QueueInv

(* The next in line is the first of the list.                               *)
LEMMA GoOnKeeps == Q!QueueAssumption /\ QueueInv /\ Q!GoOn => QueueInv'
<1> SUFFICES ASSUME Q!QueueAssumption, QueueInv, Q!GoOn
             PROVE  QueueInv'
  OBVIOUS
<1>1. /\ enqueued \in Nat /\ waiting \in Seq(Q!Uploads) /\ Len(waiting) \in Nat
      /\ state[current] = "resolved" /\ current \in Q!Uploads /\ running
      /\ enqueued' = enqueued /\ queued_count' = queued_count /\ finished' = finished
  BY DEF Q!GoOn, QueueInv, Q!TypeOK, RunningIsTheLastStarted
<1>2. CASE waiting = <<>>
  <2>1. running' = FALSE /\ current' = 0 /\ UNCHANGED <<waiting, state, progress_percent>>
    BY <1>2 DEF Q!GoOn
  <2>2. running' \in BOOLEAN
    BY <2>1, Zenon
  <2>3. Q!TypeOK'
    BY <1>1, <2>1, <2>2 DEF QueueInv, Q!TypeOK, Q!QueueAssumption
  <2>4. ListIsTheTail'
    BY <1>1, <2>1 DEF QueueInv, ListIsTheTail, Started
  <2>5. RunningIsTheLastStarted'
    BY <1>1, <1>2, <2>1 DEF QueueInv, RunningIsTheLastStarted
  <2> QED
    BY <2>3, <2>4, <2>5 DEF QueueInv
<1>3. CASE waiting # <<>>
  <2> DEFINE h == Head(waiting)
  <2>1. Q!Start(h) /\ waiting' = Tail(waiting)
    BY <1>3 DEF Q!GoOn
  <2>2. /\ Len(waiting) >= 1 /\ h = waiting[1] /\ h = Started + 1
        /\ waiting' \in Seq(Q!Uploads) /\ Len(waiting') = Len(waiting) - 1
        /\ \A k \in 1 .. Len(waiting') : waiting'[k] = waiting[k + 1]
    BY <1>1, <1>3, <2>1 DEF QueueInv, ListIsTheTail
  <2>3. h \in Q!Uploads /\ Started' = h /\ Started \in Nat
    BY <1>1, <2>2 DEF Started, QueueInv, ListIsTheTail
  <2>4. \A k \in 1 .. Len(waiting') : waiting'[k] = Started' + k
    BY <1>1, <2>2, <2>3 DEF QueueInv, ListIsTheTail
  <2>5. \A i \in Q!Uploads : state'[i] = IF i = h THEN "sent" ELSE state[i]
    BY <2>1, <2>3 DEF Q!Start, QueueInv, Q!TypeOK
  <2>6. running' = TRUE /\ running' \in BOOLEAN
    BY <2>1, Zenon DEF Q!Start
  <2>7. Q!TypeOK'
    BY <1>1, <2>1, <2>2, <2>3, <2>6 DEF Q!Start, QueueInv, Q!TypeOK, Q!Uploads, Q!States
  <2>8. h <= enqueued
    BY <1>1, <2>2 DEF Started
  <2>9. \A i \in Q!Uploads : /\ state'[i] = "waiting" <=> h < i /\ i <= enqueued
                             /\ state'[i] = "new" <=> enqueued < i
    <3> TAKE i \in Q!Uploads
    <3> HIDE DEF h
    <3>1. /\ state[i] = "waiting" <=> Started < i /\ i <= enqueued
          /\ state[i] = "new" <=> enqueued < i
      BY DEF QueueInv, ListIsTheTail
    <3>2. i \in Nat /\ Started \in Nat /\ h = Started + 1
      BY <2>2, <2>3 DEF Q!Uploads, Q!QueueAssumption
    <3>3. CASE i = h
      BY <1>1, <2>5, <2>8, <3>2, <3>3
    <3>4. CASE i # h
      BY <1>1, <2>5, <3>1, <3>2, <3>4
    <3> QED
      BY <3>3, <3>4
  <2>10. ListIsTheTail'
    BY <1>1, <2>3, <2>4, <2>8, <2>9 DEF ListIsTheTail, Q!Uploads, Q!QueueAssumption
  <2>11. \A i \in Q!Uploads : state[i] \notin {"sent", "failed"}
    BY <1>1 DEF QueueInv, RunningIsTheLastStarted
  <2>12. RunningIsTheLastStarted'
    BY <2>1, <2>3, <2>5, <2>6, <2>11 DEF Q!Start, RunningIsTheLastStarted
  <2> QED
    BY <2>7, <2>10, <2>12 DEF QueueInv
<1> QED
  BY <1>2, <1>3

(* A failure empties the list and rejects what was on it.                   *)
LEMMA GiveUpKeeps == Q!QueueAssumption /\ QueueInv /\ Q!GiveUp => QueueInv'
<1> SUFFICES ASSUME Q!QueueAssumption, QueueInv, Q!GiveUp
             PROVE  QueueInv'
  OBVIOUS
<1>1. /\ state[current] = "failed" /\ current \in Q!Uploads /\ running /\ enqueued \in Nat
      /\ current = Started
  BY DEF Q!GiveUp, QueueInv, Q!TypeOK, RunningIsTheLastStarted
<1>2. /\ waiting' = <<>> /\ Len(waiting') = 0 /\ running' = FALSE /\ current' = 0
      /\ enqueued' = enqueued
  BY DEF Q!GiveUp
<1>3. Started' = enqueued
  BY <1>1, <1>2 DEF Started
<1>4. \A i \in Q!Uploads :
        state'[i] = IF i = current \/ state[i] = "waiting" THEN "rejected" ELSE state[i]
  BY WaitingInTheList DEF Q!GiveUp
<1>5. state' \in [Q!Uploads -> Q!States]
  BY DEF Q!GiveUp, QueueInv, Q!TypeOK, Q!States
<1>6. running' \in BOOLEAN
  BY <1>2, Zenon
<1>7. Q!TypeOK'
  BY <1>1, <1>2, <1>5, <1>6 DEF Q!GiveUp, QueueInv, Q!TypeOK, Q!QueueAssumption
<1>8. ListIsTheTail'
  BY <1>1, <1>2, <1>3, <1>4 DEF QueueInv, ListIsTheTail, Q!Uploads
<1>9. RunningIsTheLastStarted'
  BY <1>1, <1>2, <1>4 DEF QueueInv, RunningIsTheLastStarted
<1> QED
  BY <1>7, <1>8, <1>9 DEF QueueInv

LEMMA FinishKeeps == Q!QueueAssumption /\ QueueInv /\ Q!CountShowsTheUploads /\ (\E i \in Q!Uploads : Q!FinishOne(i))
                     => QueueInv' /\ Q!CountShowsTheUploads'
<1> SUFFICES ASSUME Q!QueueAssumption, QueueInv, Q!CountShowsTheUploads, NEW i \in Q!Uploads, Q!FinishOne(i)
             PROVE  QueueInv' /\ Q!CountShowsTheUploads'
  OBVIOUS
<1> DEFINE unfinished == {j \in 1 .. enqueued : j \notin finished}
<1>1. enqueued \in Nat /\ i \in unfinished /\ unfinished' = unfinished \ {i}
  BY DEF Q!FinishOne, QueueInv, Q!TypeOK, ListIsTheTail, Q!Uploads, Q!QueueAssumption
<1>2. IsFiniteSet(unfinished)
  <2>1. unfinished \in SUBSET (1 .. enqueued) /\ IsFiniteSet(1 .. enqueued)
    BY <1>1, FS_Interval
  <2> QED
    BY <2>1, FS_Subset
<1>3. /\ Cardinality(unfinished) \in Nat
      /\ Cardinality(unfinished') = Cardinality(unfinished) - 1
      /\ Cardinality(unfinished') \in Nat
  <2>1. i \in unfinished /\ unfinished' = unfinished \ {i}
    BY <1>1
  <2> HIDE DEF unfinished
  <2>2. /\ IsFiniteSet(unfinished \ {i})
        /\ Cardinality(unfinished \ {i}) = Cardinality(unfinished) - 1
    BY <1>2, <2>1, FS_RemoveElement
  <2>3. Cardinality(unfinished) \in Nat /\ Cardinality(unfinished \ {i}) \in Nat
    BY <1>2, <2>2, FS_CardinalityType
  <2> QED
    BY <2>1, <2>2, <2>3
<1>4. queued_count' = Cardinality(unfinished')
  BY <1>3 DEF Q!Cardinality, Cardinality, Q!FinishOne, Q!CountShowsTheUploads
<1>5. QueueInv'
  <2>1. Q!TypeOK'
    BY <1>3, <1>4 DEF Q!FinishOne, QueueInv, Q!TypeOK
  <2>2. ListIsTheTail' /\ RunningIsTheLastStarted'
    BY DEF Q!FinishOne, QueueInv, ListIsTheTail, RunningIsTheLastStarted, Started
  <2> QED
    BY <2>1, <2>2 DEF QueueInv
<1>6. Q!CountShowsTheUploads'
  BY <1>4 DEF Q!Cardinality, Cardinality, Q!FinishOne, Q!CountShowsTheUploads
<1> QED
  BY <1>5, <1>6

(* The count changes only when an upload is enqueued or finishes.          *)
LEMMA CountIsKept == Q!QueueAssumption /\ QueueInv /\ QueueInv' /\ Q!CountShowsTheUploads
                    /\ (Q!Enqueue \/ (\E p \in ProgressSteps : Q!OnProgress(p)) \/ Q!Succeed \/ Q!Fail \/ Q!GoOn \/ Q!GiveUp)
                    => Q!CountShowsTheUploads'
<1> SUFFICES ASSUME Q!QueueAssumption, QueueInv, QueueInv', Q!CountShowsTheUploads,
                    Q!Enqueue \/ (\E p \in ProgressSteps : Q!OnProgress(p)) \/ Q!Succeed \/ Q!Fail \/ Q!GoOn \/ Q!GiveUp
             PROVE  Q!CountShowsTheUploads'
  OBVIOUS
<1> DEFINE unfinished == {j \in 1 .. enqueued : j \notin finished}
<1>1. enqueued \in Nat /\ IsFiniteSet(unfinished) /\ Cardinality(unfinished) \in Nat
  <2>1. enqueued \in Nat
    BY DEF QueueInv, Q!TypeOK
  <2>2. unfinished \in SUBSET (1 .. enqueued) /\ IsFiniteSet(1 .. enqueued)
    BY <2>1, FS_Interval
  <2> QED
    BY <2>1, <2>2, FS_Subset, FS_CardinalityType
<1>2. queued_count = Cardinality(unfinished)
  BY DEF Q!Cardinality, Cardinality, Q!CountShowsTheUploads
<1>3. finished' = finished
  BY DEF Q!Enqueue, Q!OnProgress, Q!Succeed, Q!Fail, Q!GoOn, Q!GiveUp
<1>4. finished' \subseteq {i \in Q!Uploads : state'[i] \in {"resolved", "rejected"}}
  <2> SUFFICES ASSUME NEW i \in finished
               PROVE  i \in Q!Uploads /\ state'[i] \in {"resolved", "rejected"}
    BY <1>3
  <2>1. i \in Q!Uploads /\ state[i] \in {"resolved", "rejected"}
    BY DEF Q!CountShowsTheUploads
  <2>2. ASSUME Q!Enqueue
        PROVE  state'[i] = state[i]
    <3>1. i # enqueued + 1
      BY <1>1, <2>1 DEF QueueInv, ListIsTheTail
    <3> QED
      BY <2>1, <2>2, <3>1 DEF Q!Enqueue, Q!Start, QueueInv, Q!TypeOK
  <2>3. ASSUME Q!GoOn
        PROVE  state'[i] = state[i]
    <3>1. CASE waiting = <<>>
      BY <2>3, <3>1 DEF Q!GoOn
    <3>2. CASE waiting # <<>>
      <4>1. Head(waiting) = waiting[1] /\ 1 \in 1 .. Len(waiting)
        BY <3>2 DEF QueueInv, Q!TypeOK
      <4>2. Head(waiting) \in Q!Uploads /\ (\E k \in 1 .. Len(waiting) : waiting[k] = Head(waiting))
        BY <3>2, <4>1 DEF QueueInv, Q!TypeOK
      <4>3. state[Head(waiting)] = "waiting"
        BY <4>2, WaitingInTheList
      <4> QED
        BY <2>1, <2>3, <3>2, <4>3 DEF Q!GoOn, Q!Start, QueueInv, Q!TypeOK
    <3> QED
      BY <3>1, <3>2
  <2>4. ASSUME Q!GiveUp
        PROVE  state'[i] = state[i] \/ state'[i] = "rejected"
    BY <2>1, <2>4 DEF Q!GiveUp
  <2>5. ASSUME Q!Succeed \/ Q!Fail
        PROVE  state'[i] = state[i]
    BY <2>1, <2>5 DEF Q!Succeed, Q!Fail, QueueInv, Q!TypeOK
  <2>6. ASSUME NEW p \in ProgressSteps, Q!OnProgress(p)
        PROVE  state'[i] = state[i]
    BY <2>6 DEF Q!OnProgress
  <2> QED
    BY <2>1, <2>2, <2>3, <2>4, <2>5, <2>6
<1>5. CASE Q!Enqueue
  <2>1. /\ enqueued' = enqueued + 1 /\ queued_count' = queued_count + 1
        /\ enqueued + 1 \notin finished /\ enqueued + 1 \notin unfinished
    <3>1. enqueued + 1 \in Q!Uploads
      BY <1>1, <1>5 DEF Q!Enqueue, Q!Uploads, Q!QueueAssumption
    <3>2. state[enqueued + 1] = "new"
      BY <1>1, <3>1 DEF QueueInv, ListIsTheTail
    <3> QED
      BY <1>1, <1>5, <3>2 DEF Q!Enqueue, Q!CountShowsTheUploads
  <2>2. unfinished' = unfinished \cup {enqueued + 1}
    BY <1>1, <1>3, <2>1
  <2>3. Cardinality(unfinished') = Cardinality(unfinished) + 1
    BY <1>1, <2>1, <2>2, FS_AddElement
  <2> QED
    BY <1>1, <1>2, <1>4, <2>1, <2>3 DEF Q!Cardinality, Cardinality, Q!CountShowsTheUploads
<1>6. CASE \E p \in ProgressSteps : Q!OnProgress(p)
  <2>1. /\ UNCHANGED <<queued_count, enqueued>>
        /\ current \in Q!Uploads /\ state[current] = "sent" /\ running
    BY <1>6 DEF Q!OnProgress, QueueInv, RunningIsTheLastStarted
  <2>2. current \in unfinished
    BY <1>1, <2>1 DEF Q!CountShowsTheUploads, QueueInv, ListIsTheTail, Q!Uploads, Q!QueueAssumption
  <2>3. Cardinality(unfinished) # 0
    BY <1>1, <2>2, FS_EmptySet
  <2> QED
    BY <1>2, <1>3, <1>4, <2>1, <2>3 DEF Q!CountShowsTheUploads
<1>7. CASE Q!Succeed \/ Q!Fail \/ Q!GoOn \/ Q!GiveUp
  <2>1. UNCHANGED <<queued_count, enqueued>>
    BY <1>7 DEF Q!Succeed, Q!Fail, Q!GoOn, Q!GiveUp
  <2>2. progress_percent' \in {0, progress_percent}
    BY <1>7 DEF Q!Succeed, Q!Fail, Q!GoOn, Q!Start, Q!GiveUp
  <2> QED
    BY <1>3, <1>4, <2>1, <2>2 DEF Q!CountShowsTheUploads
<1> QED
  BY <1>5, <1>6, <1>7

-----------------------------------------------------------------------------
LEMMA QueueInductive == MCSpec => [](QueueInv /\ Q!CountShowsTheUploads)
<1> USE OnePageAssumption
<1>1. MCInit => QueueInv /\ Q!CountShowsTheUploads
  <2> SUFFICES ASSUME Q!Init
               PROVE  QueueInv /\ Q!CountShowsTheUploads
    BY DEF MCInit
  <2>1. {i \in 1 .. enqueued : i \notin finished} = {}
    BY DEF Q!Init
  <2>2. QueueInv
    BY QueueBegins
  <2> QED
    BY <2>1, <2>2, FS_EmptySet DEF Q!Cardinality, Cardinality, Q!Init, Q!CountShowsTheUploads
<1>2. QueueInv /\ Q!CountShowsTheUploads /\ [MCNext]_<<of_queue, vars, viewing, side>>
        => QueueInv' /\ Q!CountShowsTheUploads'
  <2> SUFFICES ASSUME QueueInv, Q!CountShowsTheUploads, [Q!Next]_(Q!vars)
               PROVE  QueueInv' /\ Q!CountShowsTheUploads'
    BY DEF MCNext, of_queue, Q!vars
  <2>1. CASE UNCHANGED Q!vars
    BY <2>1 DEF Q!vars, QueueInv, Q!TypeOK, ListIsTheTail, Started, RunningIsTheLastStarted, Q!CountShowsTheUploads
  <2>2. CASE \E p \in ProgressSteps : Q!OnProgress(p)
    <3>1. QueueInv'
      BY <2>2 DEF Q!OnProgress, QueueInv, Q!TypeOK, ListIsTheTail, Started, RunningIsTheLastStarted, Q!QueueAssumption
    <3> QED
      BY <2>2, <3>1, CountIsKept
  <2>3. CASE Q!Enqueue \/ Q!Succeed \/ Q!Fail \/ Q!GoOn \/ Q!GiveUp
    <3>1. QueueInv'
      BY <2>3, EnqueueKeeps, SettleKeeps, GoOnKeeps, GiveUpKeeps
    <3> QED
      BY <2>3, <3>1, CountIsKept
  <2>4. CASE \E i \in Q!Uploads : Q!FinishOne(i)
    BY <2>4, FinishKeeps
  <2> QED
    BY <2>1, <2>2, <2>3, <2>4 DEF Q!Next
<1> QED
  BY <1>1, <1>2, PTL DEF MCSpec

\* One upload is on the wire at a time, and whatever waits, waits for a request that runs: the
\* queue never sleeps with an upload in it.
THEOREM SendsOneAtATime == MCSpec => []OneAtATime
<1>1. QueueInv => OneAtATime
  <2> SUFFICES ASSUME QueueInv
               PROVE  Q!OneAtATime
    BY DEF OneAtATime
  <2>1. \A i, j \in Q!Uploads : state[i] = "sent" /\ state[j] = "sent" => i = j
    BY DEF QueueInv, RunningIsTheLastStarted
  <2>2. ASSUME NEW i \in Q!Uploads, state[i] = "waiting"
        PROVE  running /\ current # 0
    <3>1. \E k \in 1 .. Len(waiting) : waiting[k] = i
      BY <2>2, WaitingInTheList
    <3>2. waiting # <<>>
      BY <3>1
    <3> QED
      BY <3>2 DEF QueueInv, RunningIsTheLastStarted, Q!Uploads
  <2> QED
    BY <2>1, <2>2 DEF Q!OneAtATime
<1> QED
  BY <1>1, QueueInductive, PTL

\* Uploads leave the client in the order in which they were enqueued.
THEOREM SendsInOrder == MCSpec => []SentInOrder
<1>1. QueueInv => SentInOrder
  BY DEF QueueInv, Q!TypeOK, ListIsTheTail, SentInOrder, Q!SentInOrder, Started, Q!Uploads
<1> QED
  BY <1>1, QueueInductive, PTL

\* The count on the page is the number of uploads that are not over, and the progress bar is
\* empty when there are none.
THEOREM CountsTheUploads == MCSpec => []Q!CountShowsTheUploads
  BY QueueInductive, PTL

-----------------------------------------------------------------------------
(* The types.                                                              *)

Answers == {Nothing} \cup [display : Contents, thumbnail : Contents]
Requests == [phase : Phases, first : BOOLEAN, strokes : Strokes, to_put : SUBSET Variants, answer : Answers]
PageStates == [step : {"closed", "open", "saving"}, loaded : Strokes, strokes : Strokes]
Rows == [uploaded : BOOLEAN, strokes : Strokes, display : {Nothing, "original", "display"},
         display_etag : Contents, thumbnail_etag : Contents]

\* A request that changes is a request, and the others stay.
LEMMA ChangedRequests ==
  ASSUME TypeOK, NEW r \in Uploads, NEW request \in Requests, requests' = [requests EXCEPT ![r] = request]
  PROVE  /\ requests' \in [Uploads -> Requests] /\ requests'[r] = request
         /\ \A s \in Uploads \ {r} : requests'[s] = requests[s]
BY DEF TypeOK, Requests, Answers

LEMMA PhasesChange ==
  ASSUME TypeOK, NEW r \in Uploads, NEW phase \in Phases, requests' = [requests EXCEPT ![r].phase = phase]
  PROVE  /\ requests' \in [Uploads -> Requests]
         /\ requests'[r].phase = phase /\ requests'[r].first = requests[r].first
         /\ requests'[r].strokes = requests[r].strokes /\ requests'[r].to_put = requests[r].to_put
         /\ requests'[r].answer = requests[r].answer
         /\ \A s \in Uploads \ {r} : requests'[s] = requests[s]
<1>1. requests[r] \in Requests
  BY DEF TypeOK, Requests, Answers
<1> DEFINE request == [requests[r] EXCEPT !.phase = phase]
<1>2. /\ request \in Requests /\ request.phase = phase /\ request.first = requests[r].first
      /\ request.strokes = requests[r].strokes /\ request.to_put = requests[r].to_put
      /\ request.answer = requests[r].answer
  BY <1>1 DEF Requests
<1>3. requests' = [requests EXCEPT ![r] = request]
  OBVIOUS
<1> HIDE DEF request
<1> QED
  BY <1>2, <1>3, ChangedRequests

\* What each handler of a request does to the request it handles.
LEMMA PutsAreTaken ==
  ASSUME TypeOK, NEW r \in Uploads, NEW variant \in Variants,
         requests' = [requests EXCEPT ![r].to_put = @ \ {variant}]
  PROVE  /\ requests' \in [Uploads -> Requests]
         /\ requests'[r].phase = requests[r].phase /\ requests'[r].first = requests[r].first
         /\ requests'[r].strokes = requests[r].strokes /\ requests'[r].to_put = requests[r].to_put \ {variant}
         /\ requests'[r].answer = requests[r].answer
         /\ \A s \in Uploads \ {r} : requests'[s] = requests[s]
<1>1. requests[r] \in Requests
  BY DEF TypeOK, Requests, Answers
<1> DEFINE request == [requests[r] EXCEPT !.to_put = requests[r].to_put \ {variant}]
<1>2. /\ request \in Requests /\ request.phase = requests[r].phase /\ request.first = requests[r].first
      /\ request.strokes = requests[r].strokes /\ request.to_put = requests[r].to_put \ {variant}
      /\ request.answer = requests[r].answer
  BY <1>1 DEF Requests
<1>3. requests' = [requests EXCEPT ![r] = request]
  OBVIOUS
<1> HIDE DEF request
<1> QED
  BY <1>2, <1>3, ChangedRequests

LEMMA ArrivalsPut ==
  ASSUME TypeOK, NEW r \in Uploads,
         requests' = [requests EXCEPT ![r].phase = "putting", ![r].to_put = Files(r)]
  PROVE  /\ requests' \in [Uploads -> Requests]
         /\ requests'[r].phase = "putting" /\ requests'[r].first = requests[r].first
         /\ requests'[r].strokes = requests[r].strokes /\ requests'[r].to_put = Files(r)
         /\ requests'[r].answer = requests[r].answer
         /\ \A s \in Uploads \ {r} : requests'[s] = requests[s]
<1>1. requests[r] \in Requests
  BY DEF TypeOK, Requests, Answers
<1>2. Files(r) \subseteq Variants /\ "putting" \in Phases
  BY DEF Files, Variants, Phases
<1> HIDE DEF Files
<1> DEFINE request == [requests[r] EXCEPT !.phase = "putting", !.to_put = Files(r)]
<1>3. /\ request \in Requests /\ request.phase = "putting" /\ request.first = requests[r].first
      /\ request.strokes = requests[r].strokes /\ request.to_put = Files(r)
      /\ request.answer = requests[r].answer
  BY <1>1, <1>2 DEF Requests
<1>4. requests' = [requests EXCEPT ![r] = request]
  OBVIOUS
<1> HIDE DEF request
<1> QED
  BY <1>3, <1>4, ChangedRequests

LEMMA AnswersAreRead ==
  ASSUME TypeOK, NEW r \in Uploads, ReadAgain(r)
  PROVE  /\ requests' \in [Uploads -> Requests]
         /\ requests'[r].phase = "answering" /\ requests'[r].first = requests[r].first
         /\ requests'[r].strokes = requests[r].strokes /\ requests'[r].to_put = requests[r].to_put
         /\ requests'[r].answer = [display |-> row.display_etag, thumbnail |-> row.thumbnail_etag]
         /\ \A s \in Uploads \ {r} : requests'[s] = requests[s]
<1> DEFINE answer == [display |-> row.display_etag, thumbnail |-> row.thumbnail_etag]
<1>1. requests[r] \in Requests
  BY DEF TypeOK, Requests, Answers
<1>2. answer \in Answers /\ "answering" \in Phases
  BY DEF TypeOK, Answers, Phases
<1>3. requests' = [requests EXCEPT ![r].phase = "answering", ![r].answer = answer]
  BY DEF ReadAgain
<1> HIDE DEF answer
<1> DEFINE request == [requests[r] EXCEPT !.phase = "answering", !.answer = answer]
<1>4. /\ request \in Requests /\ request.phase = "answering" /\ request.first = requests[r].first
      /\ request.strokes = requests[r].strokes /\ request.to_put = requests[r].to_put
      /\ request.answer = answer
  BY <1>1, <1>2 DEF Requests
<1>5. requests' = [requests EXCEPT ![r] = request]
  BY <1>3
<1> HIDE DEF request
<1>6. requests' \in [Uploads -> Requests] /\ requests'[r] = request /\ \A s \in Uploads \ {r} : requests'[s] = requests[s]
  BY <1>4, <1>5, ChangedRequests
<1> QED
  BY <1>4, <1>6 DEF answer

\* The transaction of an upload.
Updated(r) ==
  /\ row'.uploaded /\ row'.strokes = row.strokes
  /\ row'.display = IF requests[r].strokes = NoDrawing THEN "original" ELSE "display"
  /\ row'.display_etag = requests[r].strokes /\ row'.thumbnail_etag = requests[r].strokes

LEMMA CommitsUpdateTheRow ==
  ASSUME ImagesAssumption, TypeOK, NEW r \in Uploads, Commit(r)
  PROVE  /\ row' \in Rows /\ (row'.uploaded <=> row'.display # Nothing)
         /\ requests' \in [Uploads -> Requests]
         /\ requests'[r].first = requests[r].first /\ requests'[r].strokes = requests[r].strokes
         /\ requests'[r].to_put = requests[r].to_put /\ requests'[r].answer = requests[r].answer
         /\ \A s \in Uploads \ {r} : requests'[s] = requests[s]
         /\ IF row.uploaded = requests[r].first
            THEN requests'[r].phase = "failed" /\ row' = row
            ELSE /\ Updated(r)
                 /\ requests'[r].phase = IF requests[r].strokes = NoDrawing /\ row.display = "display"
                                         THEN "deleting" ELSE "reading"
<1>1. row \in Rows /\ requests[r].strokes \in Strokes /\ Strokes \subseteq Contents
      /\ (row.uploaded <=> row.display # Nothing)
  BY DEF TypeOK, Rows, Contents
<1>2. CASE row.uploaded = requests[r].first
  <2>1. row' = row /\ requests' = [requests EXCEPT ![r].phase = "failed"] /\ "failed" \in Phases
    BY <1>2 DEF Commit, Fails, Phases
  <2>2. /\ requests' \in [Uploads -> Requests]
        /\ requests'[r].phase = "failed" /\ requests'[r].first = requests[r].first
        /\ requests'[r].strokes = requests[r].strokes /\ requests'[r].to_put = requests[r].to_put
        /\ requests'[r].answer = requests[r].answer
        /\ \A s \in Uploads \ {r} : requests'[s] = requests[s]
    BY <2>1, PhasesChange
  <2> QED
    BY <1>1, <1>2, <2>1, <2>2
<1>3. CASE row.uploaded # requests[r].first
  <2> DEFINE phase == IF requests[r].strokes = NoDrawing /\ row.display = "display" THEN "deleting" ELSE "reading"
             display == IF requests[r].strokes = NoDrawing THEN "original" ELSE "display"
             strokes == requests[r].strokes
  <2>1. requests' = [requests EXCEPT ![r].phase = phase] /\ phase \in Phases
    BY <1>3 DEF Commit, Phases
  <2>2. row' = [row EXCEPT !.uploaded = TRUE, !.display = display, !.display_etag = strokes, !.thumbnail_etag = strokes]
    BY <1>3 DEF Commit
  <2>3. display \in {"original", "display"} /\ strokes \in Contents /\ display # Nothing
    BY <1>1 DEF ImagesAssumption, Variants
  <2> HIDE DEF display, strokes
  <2>4. /\ row' \in Rows /\ row'.uploaded /\ row'.strokes = row.strokes /\ row'.display = display
        /\ row'.display_etag = strokes /\ row'.thumbnail_etag = strokes
    BY <1>1, <2>2, <2>3 DEF Rows
  <2>5. Updated(r) /\ (row'.uploaded <=> row'.display # Nothing)
    BY <2>3, <2>4 DEF Updated, display, strokes
  <2> HIDE DEF phase
  <2>6. /\ requests' \in [Uploads -> Requests]
        /\ requests'[r].phase = phase /\ requests'[r].first = requests[r].first
        /\ requests'[r].strokes = requests[r].strokes /\ requests'[r].to_put = requests[r].to_put
        /\ requests'[r].answer = requests[r].answer
        /\ \A s \in Uploads \ {r} : requests'[s] = requests[s]
    BY <2>1, PhasesChange
  <2> QED
    BY <1>3, <2>4, <2>5, <2>6 DEF phase
<1> QED
  BY <1>2, <1>3

\* An upload that is queued.
LEMMA EnqueuedRequests ==
  ASSUME ImagesAssumption, TypeOK, NEW p \in Pages, Enqueue(p)
  PROVE  /\ made + 1 \in Uploads /\ made' = made + 1
         /\ requests' \in [Uploads -> Requests]
         /\ requests'[made + 1].phase = "queued" /\ requests'[made + 1].first = FALSE
         /\ requests'[made + 1].strokes = pages[p].strokes /\ requests'[made + 1].to_put = {}
         /\ \A s \in Uploads \ {made + 1} : requests'[s] = requests[s]
         /\ queue[p] \in Seq(Uploads) /\ queue' \in [Pages -> Seq(Uploads)] /\ queue'[p] = Append(queue[p], made + 1)
         /\ \A q \in Pages \ {p} : queue'[q] = queue[q]
<1> DEFINE request == Request(FALSE, pages[p].strokes)
           r == made + 1
<1>1. r \in Uploads /\ made' = r /\ requests' = [requests EXCEPT ![r] = request]
      /\ queue' = [queue EXCEPT ![p] = Append(queue[p], r)]
  <2>1. made' = r /\ requests' = [requests EXCEPT ![r] = request] /\ queue' = [queue EXCEPT ![p] = Append(queue[p], r)]
    BY DEF Enqueue
  <2>2. made \in 1 .. MaxUploads /\ made < MaxUploads
    BY DEF Enqueue, TypeOK
  <2>3. r \in Uploads
    BY <2>2 DEF ImagesAssumption, Uploads
  <2> QED
    BY <2>1, <2>3
<1>2. pages[p].strokes \in Strokes
  BY DEF TypeOK
<1>3. /\ request \in Requests /\ request.phase = "queued" /\ request.first = FALSE
      /\ request.strokes = pages[p].strokes /\ request.to_put = {}
  BY <1>2 DEF Request, Requests, Answers, Phases
<1> HIDE DEF request, r
<1>4. requests' \in [Uploads -> Requests] /\ requests'[r] = request /\ \A s \in Uploads \ {r} : requests'[s] = requests[s]
  BY <1>1, <1>3, ChangedRequests
<1>5. /\ queue[p] \in Seq(Uploads) /\ queue' \in [Pages -> Seq(Uploads)] /\ queue'[p] = Append(queue[p], r)
      /\ \A q \in Pages \ {p} : queue'[q] = queue[q]
  <2>1. queue \in [Pages -> Seq(Uploads)] /\ queue[p] \in Seq(Uploads)
    BY DEF TypeOK
  <2>2. Append(queue[p], r) \in Seq(Uploads)
    BY <1>1, <2>1, AppendProperties
  <2> QED
    BY <1>1, <2>1, <2>2
<1>6. requests'[r].phase = "queued" /\ requests'[r].first = FALSE
      /\ requests'[r].strokes = pages[p].strokes /\ requests'[r].to_put = {}
  BY <1>3, <1>4
<1> USE DEF r
<1> QED
  BY <1>1, <1>4, <1>5, <1>6, Zenon

LEMMA TypeOKInductive ==
  ASSUME ImagesAssumption, TypeOK, [Next]_vars
  PROVE  TypeOK'
<1>1. CASE UNCHANGED vars
  BY <1>1 DEF vars, faults, TypeOK
<1>2. \A p \in Pages : pages[p] \in PageStates /\ queue[p] \in Seq(Uploads)
  BY DEF TypeOK, PageStates
<1>3. row \in Rows /\ pages \in [Pages -> PageStates] /\ requests \in [Uploads -> Requests]
  BY DEF TypeOK, PageStates, Rows, Requests, Answers
<1>4. ASSUME NEW p \in Pages, Open(p)
      PROVE  TypeOK'
  BY <1>4 DEF Open, faults, TypeOK
<1>5. ASSUME NEW p \in Pages, Discard(p)
      PROVE  TypeOK'
  BY <1>5 DEF Discard, Closed, Strokes, faults, TypeOK
<1>6. ASSUME NEW p \in Pages, NEW strokes \in Strokes, SaveStrokes(p, strokes)
      PROVE  TypeOK'
  <2>1. row' \in Rows /\ row'.uploaded = row.uploaded /\ row'.display = row.display
    BY <1>3, <1>6 DEF SaveStrokes, Rows
  <2> DEFINE page == [pages[p] EXCEPT !.step = "saving", !.strokes = strokes]
  <2>2. page \in PageStates
    BY <1>2 DEF PageStates
  <2>3. pages' = [pages EXCEPT ![p] = page]
    BY <1>6 DEF SaveStrokes
  <2> HIDE DEF page
  <2>4. pages' \in [Pages -> PageStates]
    BY <1>3, <2>2, <2>3
  <2> QED
    BY <1>6, <2>1, <2>4 DEF SaveStrokes, faults, TypeOK, Rows, PageStates
<1>7. ASSUME NEW p \in Pages, Enqueue(p)
      PROVE  TypeOK'
  <2>1. made' \in 1 .. MaxUploads /\ requests' \in [Uploads -> Requests] /\ queue' \in [Pages -> Seq(Uploads)]
    BY <1>7, EnqueuedRequests DEF Uploads
  <2>2. pages' \in [Pages -> PageStates]
    BY <1>3, <1>7 DEF Enqueue, Closed, Strokes, PageStates
  <2> QED
    BY <1>7, <2>1, <2>2 DEF Enqueue, faults, TypeOK, Requests, Answers, PageStates
<1>8. ASSUME NEW p \in Pages, LoseStrokesAnswer(p)
      PROVE  TypeOK'
  <2> DEFINE page == [pages[p] EXCEPT !.step = "open"]
  <2>1. page \in PageStates
    BY <1>2 DEF PageStates
  <2>2. pages' = [pages EXCEPT ![p] = page]
    BY <1>8 DEF LoseStrokesAnswer
  <2> HIDE DEF page
  <2>3. pages' \in [Pages -> PageStates]
    BY <1>3, <2>1, <2>2
  <2>4. failures' \in 0 .. MaxFailures
    BY <1>8 DEF LoseStrokesAnswer, TypeOK, ImagesAssumption
  <2> QED
    BY <1>8, <2>3, <2>4 DEF LoseStrokesAnswer, TypeOK, PageStates
<1>9. ASSUME NEW p \in Pages, NEW r \in Uploads, Answered(p, r)
      PROVE  TypeOK'
  <2>1. requests' = [requests EXCEPT ![r].phase = "done"] /\ "done" \in Phases
    BY <1>9 DEF Answered, Phases
  <2>2. requests' \in [Uploads -> Requests]
    BY <2>1, PhasesChange
  <2>3. Tail(queue[p]) \in Seq(Uploads)
    BY <1>2, <1>9, HeadTailProperties DEF Answered, OnTheWire
  <2>4. queue' \in [Pages -> Seq(Uploads)]
    BY <1>9, <2>3 DEF Answered, TypeOK
  <2>5. etags' \in [Pages -> Answers]
    BY <1>3, <1>9 DEF Answered, TypeOK, Answers, Requests
  <2> QED
    BY <1>9, <2>2, <2>4, <2>5 DEF Answered, faults, TypeOK, Requests, Answers
<1>10. ASSUME NEW p \in Pages, NEW r \in Uploads, Refused(p, r)
      PROVE  TypeOK'
  BY <1>10 DEF Refused, faults, TypeOK
<1>11. ASSUME NEW p \in Pages, Disconnect(p)
      PROVE  TypeOK'
  <2>1. Head(queue[p]) \in Uploads
    BY <1>2, <1>11, HeadTailProperties DEF Disconnect
  <2>2. requests' \in [Uploads -> Requests]
    <3>1. CASE requests' = requests
      BY <1>3, <3>1
    <3>2. CASE requests' = [requests EXCEPT ![Head(queue[p])].phase = "delivered"]
      BY <2>1, <3>2, PhasesChange DEF Phases
    <3> QED
      BY <1>11, <3>1, <3>2 DEF Disconnect
  <2>3. cuts' \in 0 .. MaxCuts
    BY <1>11 DEF Disconnect, TypeOK, ImagesAssumption
  <2>4. queue' \in [Pages -> Seq(Uploads)]
    BY <1>11 DEF Disconnect, TypeOK
  <2> QED
    BY <1>11, <2>2, <2>3, <2>4 DEF Disconnect, TypeOK, Requests, Answers
<1>12. ASSUME NEW p \in Pages, LeaveEstimate(p)
      PROVE  TypeOK'
  BY <1>12 DEF LeaveEstimate, faults, TypeOK
<1>13. ASSUME NEW r \in Uploads, Arrive(r)
      PROVE  TypeOK'
  <2>1. requests' \in [Uploads -> Requests]
    <3>1. CASE Fails(r)
      BY <3>1, PhasesChange DEF Fails, Phases
    <3>2. CASE requests' = [requests EXCEPT ![r].phase = "putting", ![r].to_put = Files(r)]
      BY <3>2, ArrivalsPut
    <3> QED
      BY <1>13, <3>1, <3>2 DEF Arrive
  <2> QED
    BY <1>13, <2>1 DEF Arrive, faults, TypeOK, Requests, Answers
<1>14. ASSUME NEW r \in Uploads, NEW variant \in Variants, Put(r, variant)
      PROVE  TypeOK'
  <2>1. requests' \in [Uploads -> Requests]
    BY <1>14, PutsAreTaken DEF Put
  <2>2. requests[r].strokes \in Contents /\ NoDrawing \in Contents
    BY <1>3 DEF Requests, Contents, Strokes
  <2>3. objects' \in [Variants -> Contents]
    BY <1>14, <2>2 DEF Put, TypeOK
  <2> QED
    BY <1>14, <2>1, <2>3 DEF Put, faults, TypeOK, Requests, Answers
<1>15. ASSUME NEW r \in Uploads, Commit(r)
      PROVE  TypeOK'
  <2>1. row' \in Rows /\ (row'.uploaded <=> row'.display # Nothing) /\ requests' \in [Uploads -> Requests]
    BY <1>15, CommitsUpdateTheRow
  <2> QED
    BY <1>15, <2>1 DEF Commit, faults, TypeOK, Requests, Answers, Rows
<1>16. ASSUME NEW r \in Uploads, DeleteStaleDisplay(r)
      PROVE  TypeOK'
  <2>1. requests' \in [Uploads -> Requests]
    BY <1>16, PhasesChange DEF DeleteStaleDisplay, Phases
  <2>2. objects' \in [Variants -> Contents]
    BY <1>16 DEF DeleteStaleDisplay, TypeOK, Contents
  <2> QED
    BY <1>16, <2>1, <2>2 DEF DeleteStaleDisplay, faults, TypeOK, Requests, Answers
<1>17. ASSUME NEW r \in Uploads, ReadAgain(r)
      PROVE  TypeOK'
  <2>1. requests' \in [Uploads -> Requests]
    BY <1>17, AnswersAreRead
  <2> QED
    BY <1>17, <2>1 DEF ReadAgain, faults, TypeOK, Requests, Answers
<1>18. ASSUME NEW r \in Uploads, Break(r)
      PROVE  TypeOK'
  <2>1. requests' \in [Uploads -> Requests]
    BY <1>18, PhasesChange DEF Break, Fails, Phases
  <2>2. failures' \in 0 .. MaxFailures
    BY <1>18 DEF Break, TypeOK, ImagesAssumption
  <2> QED
    BY <1>18, <2>1, <2>2 DEF Break, TypeOK, Requests, Answers
<1> QED
  BY <1>1, <1>4, <1>5, <1>6, <1>7, <1>8, <1>9, <1>10, <1>11, <1>12, <1>13, <1>14, <1>15, <1>16, <1>17, <1>18 DEF Next

LEMMA InitTypeOK ==
  ASSUME ImagesAssumption, Init
  PROVE  TypeOK
<1>1. PICK strokes \in Strokes :
        /\ row = [uploaded |-> FALSE, strokes |-> strokes, display |-> Nothing,
                  display_etag |-> Nothing, thumbnail_etag |-> Nothing]
        /\ requests = [r \in Uploads |-> IF r = 1 THEN Request(TRUE, strokes)
                                         ELSE [Request(FALSE, NoDrawing) EXCEPT !.phase = "new"]]
  BY DEF Init
<1>2. row \in Rows /\ (row.uploaded <=> row.display # Nothing)
  BY <1>1 DEF Rows, Contents
<1>3. Request(TRUE, strokes) \in Requests
  BY DEF Request, Requests, Answers, Phases
<1>4. [Request(FALSE, NoDrawing) EXCEPT !.phase = "new"] \in Requests
  <2> DEFINE first == Request(FALSE, NoDrawing)
  <2>1. first \in Requests /\ "new" \in Phases
    BY DEF Request, Requests, Answers, Phases, Strokes
  <2> HIDE DEF first
  <2>2. [first EXCEPT !.phase = "new"] \in Requests
    BY <2>1 DEF Requests
  <2> QED
    BY <2>2 DEF first
<1>5. requests \in [Uploads -> Requests]
  BY <1>1, <1>3, <1>4
<1>6. queue \in [Pages -> Seq(Uploads)] /\ made \in 1 .. MaxUploads
  <2>1. queue = [p \in Pages |-> IF p = Camera THEN <<1>> ELSE <<>>] /\ made = 1 /\ 1 \in Uploads
    BY DEF Init, ImagesAssumption, Uploads
  <2>2. <<1>> \in Seq(Uploads) /\ <<>> \in Seq(Uploads)
    BY <2>1
  <2> QED
    BY <2>1, <2>2 DEF Uploads
<1>7. /\ objects \in [Variants -> Contents]
      /\ pages \in [Pages -> [step : {"closed", "open", "saving"}, loaded : Strokes, strokes : Strokes]]
      /\ etags \in [Pages -> {Nothing} \cup [display : Contents, thumbnail : Contents]]
      /\ failures \in 0 .. MaxFailures /\ cuts \in 0 .. MaxCuts
  BY DEF Init, Contents, Closed, Strokes, ImagesAssumption
<1> QED
  BY <1>2, <1>5, <1>6, <1>7 DEF TypeOK, Rows, Requests, Answers

\* The row, the objects, the uploads and the queues have the shapes they should: the row is uploaded
\* just when it names a display (the check constraint of project_image), on any number of pages.
THEOREM TypeCorrect == ASSUME ImagesAssumption PROVE Spec => []TypeOK
<1>1. Init => TypeOK
  BY InitTypeOK
<1>2. TypeOK /\ [Next]_vars => TypeOK'
  BY TypeOKInductive
<1> QED
  BY <1>1, <1>2, PTL DEF Spec

-----------------------------------------------------------------------------
(* The files, while no connection has broken.  The server works on the     *)
(* upload at the head of the queue only, so nothing is deleted but by the  *)
(* upload that last updated the row.  A put that is late only adds.        *)

Working == {"putting", "deleting", "reading", "answering"}

OneIsWorked ==
  \A r \in Uploads : requests[r].phase # "delivered" /\ (requests[r].phase \in Working => OnTheWire(Camera, r))
PutsAreThere ==
  \A r \in Uploads : requests[r].phase = "putting" => \A v \in Files(r) \ requests[r].to_put : objects[v] # Nothing
DeletedIsStale == \A r \in Uploads : requests[r].phase = "deleting" => row.display = "original"

FilesInv == OneIsWorked /\ PutsAreThere /\ DeletedIsStale /\ EveryFileExists

LEMMA OnlyOneWorks ==
  ASSUME OneIsWorked, NEW r \in Uploads, NEW s \in Uploads,
         OnTheWire(Camera, r) \/ requests[r].phase \in Working, requests[s].phase \in Working
  PROVE  s = r
BY DEF OneIsWorked, OnTheWire

LEMMA SameFiles ==
  ASSUME NEW r, requests'[r].first = requests[r].first, requests'[r].strokes = requests[r].strokes
  PROVE  Files(r)' = Files(r)
BY DEF Files

\* Steps that leave the uploads and the files as they are.
LEMMA FilesStayAsTheyAre ==
  ASSUME FilesInv, requests' = requests, objects' = objects, queue' = queue,
         row'.uploaded = row.uploaded, row'.display = row.display
  PROVE  FilesInv'
BY DEF FilesInv, OneIsWorked, OnTheWire, PutsAreThere, Files, DeletedIsStale, EveryFileExists

\* Steps of an upload that is not putting or deleting, nor begins to.
LEMMA OthersKeepFiles ==
  ASSUME FilesInv, NEW r \in Uploads, \A s \in Uploads \ {r} : requests'[s] = requests[s],
         requests'[r].phase \notin {"putting", "deleting", "delivered"},
         \A s \in Uploads : requests'[s].phase \in Working => OnTheWire(Camera, s)',
         objects' = objects, row' = row
  PROVE  FilesInv'
<1>1. OneIsWorked'
  BY DEF FilesInv, OneIsWorked
<1>2. PutsAreThere'
  <2> SUFFICES ASSUME NEW s \in Uploads, requests'[s].phase = "putting", NEW v \in Files(s)' \ requests'[s].to_put
               PROVE  objects[v] # Nothing
    BY DEF PutsAreThere
  <2>1. s # r /\ requests'[s] = requests[s] /\ Files(s)' = Files(s)
    BY SameFiles
  <2> QED
    BY <2>1 DEF FilesInv, PutsAreThere
<1>3. DeletedIsStale'
  BY DEF FilesInv, DeletedIsStale
<1>4. EveryFileExists'
  BY DEF FilesInv, EveryFileExists
<1> QED
  BY <1>1, <1>2, <1>3, <1>4 DEF FilesInv

LEMMA PutsKeepFiles ==
  ASSUME ImagesAssumption, TypeOK, FilesInv, NEW r \in Uploads, NEW variant \in Variants, Put(r, variant)
  PROVE  FilesInv'
<1>1. /\ requests'[r].phase = requests[r].phase /\ requests'[r].first = requests[r].first
      /\ requests'[r].strokes = requests[r].strokes /\ requests'[r].to_put = requests[r].to_put \ {variant}
      /\ \A s \in Uploads \ {r} : requests'[s] = requests[s]
  BY PutsAreTaken DEF Put
<1>2. /\ objects'[variant] # Nothing /\ \A v \in Variants \ {variant} : objects'[v] = objects[v]
      /\ row' = row /\ queue' = queue
  <2>1. requests[r].strokes # Nothing /\ NoDrawing # Nothing
    BY DEF TypeOK, Strokes, ImagesAssumption
  <2> QED
    BY <2>1 DEF Put, TypeOK
<1>3. \A v \in Variants : objects[v] # Nothing => objects'[v] # Nothing
  BY <1>2
<1>4. OneIsWorked'
  BY <1>1, <1>2 DEF FilesInv, OneIsWorked, OnTheWire
<1>5. PutsAreThere'
  <2> SUFFICES ASSUME NEW s \in Uploads, requests'[s].phase = "putting", NEW v \in Files(s)' \ requests'[s].to_put
               PROVE  objects'[v] # Nothing
    BY DEF PutsAreThere
  <2>1. Files(s)' = Files(s) /\ requests[s].phase = "putting"
    BY <1>1, SameFiles
  <2>2. v \in Variants /\ v \in Files(s)
    BY <2>1 DEF Files, Variants
  <2>3. v \notin requests[s].to_put \/ v = variant
    BY <1>1
  <2> QED
    BY <1>2, <1>3, <2>1, <2>2, <2>3 DEF FilesInv, PutsAreThere
<1>6. DeletedIsStale'
  BY <1>1, <1>2 DEF FilesInv, DeletedIsStale
<1>7. EveryFileExists'
  <2>1. row.uploaded => row.display \in Variants
    BY DEF TypeOK, Variants
  <2> QED
    BY <1>2, <1>3, <2>1 DEF FilesInv, EveryFileExists, Variants
<1> QED
  BY <1>4, <1>5, <1>6, <1>7 DEF FilesInv

LEMMA CommitsKeepFiles ==
  ASSUME ImagesAssumption, TypeOK, FilesInv, NEW r \in Uploads, Commit(r)
  PROVE  FilesInv'
<1>1. requests[r].phase = "putting" /\ requests[r].to_put = {} /\ objects' = objects /\ queue' = queue
  BY DEF Commit
<1>2. /\ \A s \in Uploads \ {r} : requests'[s] = requests[s]
      /\ IF row.uploaded = requests[r].first
         THEN requests'[r].phase = "failed" /\ row' = row
         ELSE /\ Updated(r)
              /\ requests'[r].phase = IF requests[r].strokes = NoDrawing /\ row.display = "display"
                                      THEN "deleting" ELSE "reading"
  BY CommitsUpdateTheRow
<1>3. OnTheWire(Camera, r) /\ \A s \in Uploads \ {r} : requests[s].phase \notin Working
  BY <1>1, OnlyOneWorks DEF FilesInv, OneIsWorked, Working
<1>4. OnTheWire(Camera, r)'
  BY <1>1, <1>3 DEF OnTheWire
<1>5. \A s \in Uploads \ {r} : requests'[s].phase \notin Working
  BY <1>2, <1>3
<1>6. CASE row.uploaded = requests[r].first
  BY <1>1, <1>2, <1>5, <1>6, OthersKeepFiles DEF Working
<1>7. CASE row.uploaded # requests[r].first
  <2>1. Updated(r) /\ requests'[r].phase \in {"deleting", "reading"}
        /\ (requests'[r].phase = "deleting" => requests[r].strokes = NoDrawing)
    BY <1>2, <1>7
  <2>2. OneIsWorked'
    BY <1>2, <1>4, <1>5, <2>1 DEF FilesInv, OneIsWorked
  <2>3. PutsAreThere' /\ DeletedIsStale'
    BY <1>5, <2>1 DEF PutsAreThere, DeletedIsStale, Working, Updated
  <2>4. \A v \in Files(r) : objects[v] # Nothing
    BY <1>1 DEF FilesInv, PutsAreThere
  <2>5. objects["original"] # Nothing
    <3>1. CASE requests[r].first
      BY <2>4, <3>1 DEF Files
    <3>2. CASE ~requests[r].first
      <4>1. row.uploaded
        BY <1>7, <3>2 DEF TypeOK
      <4> QED
        BY <4>1 DEF FilesInv, EveryFileExists
    <3> QED
      BY <3>1, <3>2
  <2>6. objects["thumbnail"] # Nothing
    BY <2>4 DEF Files
  <2>7. objects[row'.display] # Nothing
    BY <2>1, <2>4, <2>5 DEF Updated, Files
  <2>8. EveryFileExists'
    BY <1>1, <2>5, <2>6, <2>7 DEF EveryFileExists
  <2> QED
    BY <2>2, <2>3, <2>8 DEF FilesInv
<1> QED
  BY <1>6, <1>7

LEMMA DeletionsKeepFiles ==
  ASSUME TypeOK, FilesInv, NEW r \in Uploads, DeleteStaleDisplay(r)
  PROVE  FilesInv'
<1>1. requests[r].phase = "deleting" /\ objects' = [objects EXCEPT !["display"] = Nothing] /\ row' = row /\ queue' = queue
  BY DEF DeleteStaleDisplay
<1>2. requests'[r].phase = "reading" /\ \A s \in Uploads \ {r} : requests'[s] = requests[s]
  BY PhasesChange DEF DeleteStaleDisplay, Phases
<1>3. OnTheWire(Camera, r) /\ \A s \in Uploads \ {r} : requests[s].phase \notin Working
  BY <1>1, OnlyOneWorks DEF FilesInv, OneIsWorked, Working
<1>4. OneIsWorked' /\ PutsAreThere' /\ DeletedIsStale'
  BY <1>1, <1>2, <1>3 DEF FilesInv, OneIsWorked, OnTheWire, PutsAreThere, DeletedIsStale, Working
<1>5. EveryFileExists'
  <2>1. row.display = "original"
    BY <1>1 DEF FilesInv, DeletedIsStale
  <2>2. objects'["original"] = objects["original"] /\ objects'["thumbnail"] = objects["thumbnail"]
    BY <1>1 DEF TypeOK, Variants
  <2> QED
    BY <1>1, <2>1, <2>2 DEF FilesInv, EveryFileExists
<1> QED
  BY <1>4, <1>5 DEF FilesInv

LEMMA ArrivalsKeepFiles ==
  ASSUME Pages = {Camera}, TypeOK, FilesInv, NEW r \in Uploads, Arrive(r)
  PROVE  FilesInv'
<1>1. /\ OnTheWire(Camera, r) /\ requests[r].phase = "queued"
      /\ row' = row /\ objects' = objects /\ queue' = queue
  BY DEF Arrive, FilesInv, OneIsWorked
<1>2. \A s \in Uploads \ {r} : requests[s].phase \notin Working
  BY <1>1, OnlyOneWorks DEF FilesInv
<1>3. CASE Fails(r)
  <2>1. requests'[r].phase = "failed" /\ \A s \in Uploads \ {r} : requests'[s] = requests[s]
    BY <1>3, PhasesChange DEF Fails, Phases
  <2> QED
    BY <1>1, <1>2, <2>1, OthersKeepFiles DEF Working
<1>4. CASE requests' = [requests EXCEPT ![r].phase = "putting", ![r].to_put = Files(r)]
  <2>1. /\ requests'[r].phase = "putting" /\ requests'[r].first = requests[r].first
        /\ requests'[r].strokes = requests[r].strokes /\ requests'[r].to_put = Files(r)
        /\ \A s \in Uploads \ {r} : requests'[s] = requests[s]
    BY <1>4, ArrivalsPut
  <2>2. Files(r)' = Files(r) /\ OnTheWire(Camera, r)'
    BY <1>1, <2>1, SameFiles DEF OnTheWire
  <2>3. \A s \in Uploads \ {r} : requests'[s].phase \notin Working /\ requests'[s].phase # "delivered"
    BY <1>2, <2>1 DEF FilesInv, OneIsWorked
  <2>4. OneIsWorked'
    BY <2>1, <2>2, <2>3 DEF OneIsWorked
  <2>5. PutsAreThere' /\ DeletedIsStale'
    BY <2>1, <2>2, <2>3 DEF PutsAreThere, DeletedIsStale, Working
  <2>6. EveryFileExists'
    BY <1>1 DEF FilesInv, EveryFileExists
  <2> QED
    BY <2>4, <2>5, <2>6 DEF FilesInv
<1> QED
  BY <1>3, <1>4 DEF Arrive

LEMMA PagesKeepFiles ==
  ASSUME ImagesAssumption, Pages = {Camera}, TypeOK, FilesInv, cuts = 0, cuts' = 0,
         \/ Open(Camera) \/ Discard(Camera) \/ \E strokes \in Strokes : SaveStrokes(Camera, strokes)
         \/ Enqueue(Camera) \/ LoseStrokesAnswer(Camera) \/ Disconnect(Camera) \/ LeaveEstimate(Camera)
         \/ \E r \in Uploads : Answered(Camera, r) \/ Refused(Camera, r)
  PROVE  FilesInv'
<1>1. queue[Camera] \in Seq(Uploads)
  BY DEF TypeOK, ImagesAssumption
<1>2. CASE Open(Camera) \/ Discard(Camera) \/ LoseStrokesAnswer(Camera) \/ LeaveEstimate(Camera)
  BY <1>2, FilesStayAsTheyAre DEF Open, Discard, LoseStrokesAnswer, LeaveEstimate
<1>3. ASSUME NEW strokes \in Strokes, SaveStrokes(Camera, strokes)
      PROVE  FilesInv'
  <2>1. row'.uploaded = row.uploaded /\ row'.display = row.display
    BY <1>3 DEF SaveStrokes, TypeOK
  <2> QED
    BY <1>3, <2>1, FilesStayAsTheyAre DEF SaveStrokes
<1>4. CASE Enqueue(Camera)
  <2> DEFINE r == made + 1
  <2>1. /\ r \in Uploads /\ requests'[r].phase = "queued" /\ queue'[Camera] = Append(queue[Camera], r)
        /\ \A s \in Uploads \ {r} : requests'[s] = requests[s]
    BY <1>4, EnqueuedRequests
  <2> HIDE DEF r
  <2>2. queue[Camera] # <<>> => queue'[Camera] # <<>> /\ Head(queue'[Camera]) = Head(queue[Camera])
    BY <1>1, <2>1
  <2>3. \A s \in Uploads : requests'[s].phase \in Working => OnTheWire(Camera, s)'
    BY <2>1, <2>2 DEF FilesInv, OneIsWorked, OnTheWire, Working
  <2>4. objects' = objects /\ row' = row
    BY <1>4 DEF Enqueue
  <2> QED
    BY <2>1, <2>3, <2>4, OthersKeepFiles
<1>5. CASE Disconnect(Camera)
  BY <1>5 DEF Disconnect
<1>6. ASSUME NEW r \in Uploads, Answered(Camera, r)
      PROVE  FilesInv'
  <2>1. OnTheWire(Camera, r) /\ objects' = objects /\ row' = row
    BY <1>6 DEF Answered
  <2>2. requests'[r].phase = "done" /\ \A s \in Uploads \ {r} : requests'[s] = requests[s]
    BY <1>6, PhasesChange DEF Answered, Phases
  <2>3. \A s \in Uploads : requests'[s].phase \notin Working
    BY <2>1, <2>2, OnlyOneWorks DEF FilesInv, Working
  <2> QED
    BY <2>1, <2>2, <2>3, OthersKeepFiles
<1>7. ASSUME NEW r \in Uploads, Refused(Camera, r)
      PROVE  FilesInv'
  <2>1. OnTheWire(Camera, r) /\ requests[r].phase = "failed" /\ objects' = objects /\ row' = row /\ requests' = requests
    BY <1>7 DEF Refused
  <2>2. \A s \in Uploads : requests'[s].phase \notin Working
    BY <2>1, OnlyOneWorks DEF FilesInv, Working
  <2> QED
    BY <2>1, <2>2, OthersKeepFiles
<1> QED
  BY <1>2, <1>3, <1>4, <1>5, <1>6, <1>7

LEMMA FilesInductive ==
  ASSUME ImagesAssumption, Pages = {Camera}, TypeOK, FilesInv, cuts = 0, cuts' = 0, [Next]_vars
  PROVE  FilesInv'
<1>1. CASE UNCHANGED vars
  BY <1>1, FilesStayAsTheyAre DEF vars
<1>2. ASSUME NEW r \in Uploads, ReadAgain(r)
      PROVE  FilesInv'
  <2>1. requests[r].phase = "reading" /\ objects' = objects /\ row' = row /\ queue' = queue
    BY <1>2 DEF ReadAgain
  <2>2. requests'[r].phase = "answering" /\ \A s \in Uploads \ {r} : requests'[s] = requests[s]
    BY <1>2, AnswersAreRead
  <2>3. \A s \in Uploads : requests'[s].phase \in Working => OnTheWire(Camera, s)'
    BY <2>1, <2>2 DEF FilesInv, OneIsWorked, OnTheWire, Working
  <2> QED
    BY <2>1, <2>2, <2>3, OthersKeepFiles
<1>3. ASSUME NEW r \in Uploads, Break(r)
      PROVE  FilesInv'
  <2>1. objects' = objects /\ row' = row /\ queue' = queue
    BY <1>3 DEF Break
  <2>2. requests'[r].phase = "failed" /\ \A s \in Uploads \ {r} : requests'[s] = requests[s]
    BY <1>3, PhasesChange DEF Break, Fails, Phases
  <2>3. \A s \in Uploads : requests'[s].phase \in Working => OnTheWire(Camera, s)'
    BY <2>1, <2>2 DEF FilesInv, OneIsWorked, OnTheWire, Working
  <2> QED
    BY <2>1, <2>2, <2>3, OthersKeepFiles
<1> QED
  BY <1>1, <1>2, <1>3, PagesKeepFiles, ArrivalsKeepFiles, PutsKeepFiles, CommitsKeepFiles, DeletionsKeepFiles DEF Next

LEMMA InitFiles == ASSUME ImagesAssumption, Init PROVE FilesInv
<1>1. row.uploaded = FALSE
  BY DEF Init
<1>2. PICK strokes \in Strokes :
        requests = [r \in Uploads |-> IF r = 1 THEN Request(TRUE, strokes)
                                      ELSE [Request(FALSE, NoDrawing) EXCEPT !.phase = "new"]]
  BY DEF Init
<1>3. Request(TRUE, strokes).phase = "queued" /\ [Request(FALSE, NoDrawing) EXCEPT !.phase = "new"].phase = "new"
  BY DEF Request
<1>4. \A r \in Uploads : requests[r].phase \in {"queued", "new"}
  BY <1>2, <1>3
<1>5. OneIsWorked
  BY <1>4 DEF OneIsWorked, Working
<1>6. PutsAreThere /\ DeletedIsStale
  BY <1>4 DEF PutsAreThere, DeletedIsStale
<1>7. EveryFileExists
  BY <1>1 DEF EveryFileExists
<1> QED
  BY <1>5, <1>6, <1>7 DEF FilesInv

\* What has failed is counted for good.
LEMMA FaultsAreCounted ==
  ASSUME TypeOK, ImagesAssumption, [Next]_vars
  PROVE  (cuts' = 0 => cuts = 0) /\ (failures' = 0 => failures = 0)
<1>1. (cuts' = cuts \/ cuts' = cuts + 1) /\ (failures' = failures \/ failures' = failures + 1)
  <2>1. CASE UNCHANGED vars
    BY <2>1 DEF vars, faults
  <2>2. ASSUME NEW p \in Pages,
               \/ Open(p) \/ Discard(p) \/ \E strokes \in Strokes : SaveStrokes(p, strokes)
               \/ Enqueue(p) \/ LoseStrokesAnswer(p) \/ Disconnect(p) \/ LeaveEstimate(p)
               \/ \E r \in Uploads : Answered(p, r) \/ Refused(p, r)
        PROVE  (cuts' = cuts \/ cuts' = cuts + 1) /\ (failures' = failures \/ failures' = failures + 1)
    BY <2>2, Zenon DEF faults, Open, Discard, SaveStrokes, Enqueue, LoseStrokesAnswer, Disconnect, LeaveEstimate,
       Answered, Refused
  <2>3. ASSUME NEW r \in Uploads,
               \/ Arrive(r) \/ \E variant \in Variants : Put(r, variant)
               \/ Commit(r) \/ DeleteStaleDisplay(r) \/ ReadAgain(r) \/ Break(r)
        PROVE  (cuts' = cuts \/ cuts' = cuts + 1) /\ (failures' = failures \/ failures' = failures + 1)
    BY <2>3, Zenon DEF faults, Arrive, Put, Commit, DeleteStaleDisplay, ReadAgain, Break
  <2> QED
    BY <2>1, <2>2, <2>3 DEF Next
<1>2. cuts \in Nat /\ failures \in Nat
  BY DEF TypeOK, ImagesAssumption
<1> QED
  BY <1>1, <1>2

\* Whatever fails on the server, at whatever step and however often, and whatever strokes the page saves:
\* as long as no connection broke, an uploaded photo of one page has its original, its thumbnail and
\* the display that its row names (upload_project_image, delete_object).
THEOREM FilesStay == ASSUME ImagesAssumption, Pages = {Camera} PROVE Spec => []FilesStayWhileConnected
<1>1. Init => TypeOK /\ (cuts = 0 => FilesInv)
  BY InitTypeOK, InitFiles
<1>2. TypeOK /\ (cuts = 0 => FilesInv) /\ [Next]_vars => (TypeOK /\ (cuts = 0 => FilesInv))'
  BY TypeOKInductive, FilesInductive, FaultsAreCounted
<1>3. (cuts = 0 => FilesInv) => FilesStayWhileConnected
  BY DEF FilesStayWhileConnected, FilesInv
<1> QED
  BY <1>1, <1>2, <1>3, PTL DEF Spec

-----------------------------------------------------------------------------
(* While nothing fails, the uploads of one page follow each other.         *)

Settled == made - Len(queue[Camera])
Committed(r) == requests[r].phase \in {"deleting", "reading", "answering", "done"}
IsLast(r) == Committed(r) /\ \A s \in Uploads : Committed(s) => s <= r
Content(r, variant) == IF variant = "original" THEN NoDrawing ELSE requests[r].strokes
DisplayOf(r) == IF requests[r].strokes = NoDrawing THEN "original" ELSE "display"

\* The queue holds the last uploads, and each has come as far as its place says.
InOrder ==
  /\ Len(queue[Camera]) <= made
  /\ \A k \in 1 .. Len(queue[Camera]) : queue[Camera][k] = Settled + k
  /\ \A r \in Uploads :
       /\ r <= Settled => requests[r].phase = "done"
       /\ r = Settled + 1 /\ r <= made => requests[r].phase \in Working \cup {"queued"}
       /\ r > Settled + 1 /\ r <= made => requests[r].phase = "queued"
       /\ r > made => requests[r].phase = "new"
       /\ requests[r].first <=> r = 1

\* An upload has put the files it no longer has to put.
PutsAreDone ==
  \A r \in Uploads :
    IF requests[r].phase = "putting"
    THEN /\ requests[r].to_put \subseteq Files(r)
         /\ \A v \in Files(r) \ requests[r].to_put : objects[v] = Content(r, v)
    ELSE requests[r].to_put = {}

\* The row says what the last upload that reached it brought.
RowIsTheLast ==
  /\ row.uploaded <=> Committed(1)
  /\ \A r \in Uploads : IsLast(r) =>
       row.display = DisplayOf(r) /\ row.display_etag = requests[r].strokes /\ row.thumbnail_etag = requests[r].strokes

\* The objects are those of that upload, while none puts its own.
ObjectsAreTheLast ==
  /\ row.uploaded => objects["original"] = NoDrawing
  /\ \A r \in Uploads : IsLast(r) /\ (\A s \in Uploads : requests[s].phase # "putting") =>
       objects["thumbnail"] = requests[r].strokes /\ objects[row.display] = requests[r].strokes
  /\ /\ row.display # "display"
     /\ \A s \in Uploads : /\ requests[s].phase # "deleting"
                           /\ requests[s].phase = "putting" => "display" \notin Files(s) \ requests[s].to_put
     => objects["display"] = Nothing

\* The answer and the page's ETags are those of the upload they answer.
EtagsOf(r) == [display |-> requests[r].strokes, thumbnail |-> requests[r].strokes]
AnswersAreTheirs ==
  /\ \A r \in Uploads : requests[r].phase = "answering" => requests[r].answer = EtagsOf(r)
  /\ etags[Camera] # Nothing => Settled \in Uploads /\ etags[Camera] = EtagsOf(Settled)

\* The strokes of the row are uploaded, or about to be.
StrokesAreUploaded ==
  IF pages[Camera].step = "saving" THEN pages[Camera].strokes = row.strokes ELSE requests[made].strokes = row.strokes

QuietInv == InOrder /\ PutsAreDone /\ RowIsTheLast /\ ObjectsAreTheLast /\ AnswersAreTheirs /\ StrokesAreUploaded

LEMMA Lengths ==
  ASSUME ImagesAssumption, TypeOK, InOrder
  PROVE  /\ Len(queue[Camera]) \in Nat /\ made \in Uploads /\ Settled \in 0 .. made /\ Uploads \subseteq Nat \ {0}
         /\ 1 \in Uploads /\ queue[Camera] \in Seq(Uploads)
BY DEF ImagesAssumption, TypeOK, InOrder, Settled, Uploads

\* The upload that is on the wire, and those before and behind it.
LEMMA TheHead ==
  ASSUME ImagesAssumption, TypeOK, InOrder, NEW r \in Uploads, OnTheWire(Camera, r) \/ requests[r].phase \in Working
  PROVE  /\ r = Settled + 1 /\ r <= made /\ requests[r].phase \in Working \cup {"queued"}
         /\ OnTheWire(Camera, r)
         /\ \A s \in Uploads : s < r => requests[s].phase = "done"
         /\ \A s \in Uploads : s > r => requests[s].phase \in {"queued", "new"}
<1>1. /\ Len(queue[Camera]) \in Nat /\ made \in Uploads /\ Settled \in 0 .. made /\ Uploads \subseteq Nat \ {0}
      /\ queue[Camera] \in Seq(Uploads)
  BY Lengths
<1>2. r = Settled + 1 /\ r <= made
  <2>1. CASE OnTheWire(Camera, r)
    <3>1. Len(queue[Camera]) >= 1 /\ r = queue[Camera][1]
      BY <1>1, <2>1 DEF OnTheWire
    <3>2. r = Settled + 1
      BY <1>1, <3>1 DEF InOrder
    <3> QED
      BY <1>1, <3>1, <3>2 DEF Settled
  <2>2. CASE requests[r].phase \in Working
    <3>1. requests[r].phase \notin {"done", "queued", "new"}
      BY <2>2 DEF Working
    <3>2. ~(r <= Settled) /\ ~(r > Settled + 1 /\ r <= made) /\ ~(r > made)
      BY <3>1 DEF InOrder
    <3> QED
      BY <1>1, <3>2
  <2> QED
    BY <2>1, <2>2
<1>3. Len(queue[Camera]) >= 1
  BY <1>1, <1>2 DEF Settled
<1>4. queue[Camera][1] = r
  BY <1>1, <1>2, <1>3 DEF InOrder
<1>5. OnTheWire(Camera, r)
  BY <1>1, <1>3, <1>4 DEF OnTheWire
<1>6. \A s \in Uploads : s < r => s <= Settled
  BY <1>1, <1>2
<1>7. \A s \in Uploads : s > r => (s > made \/ (s > Settled + 1 /\ s <= made))
  BY <1>1, <1>2
<1> QED
  BY <1>2, <1>5, <1>6, <1>7 DEF InOrder

\* The server goes on with the upload on the wire.
LEMMA WorkKeepsTheOrder ==
  ASSUME ImagesAssumption, TypeOK, InOrder, NEW r \in Uploads, OnTheWire(Camera, r),
         \A s \in Uploads \ {r} : requests'[s] = requests[s],
         requests'[r].first = requests[r].first, requests'[r].phase \in Working,
         queue' = queue, made' = made
  PROVE  InOrder'
<1>1. r = Settled + 1 /\ r <= made /\ Settled' = Settled
  BY TheHead DEF Settled
<1>2. /\ made \in Uploads /\ Settled \in 0 .. made /\ Uploads \subseteq Nat \ {0}
  BY Lengths
<1>3. \A s \in Uploads : requests'[s].first = requests[s].first
  OBVIOUS
<1>4. ASSUME NEW s \in Uploads
      PROVE  /\ s <= Settled => requests'[s].phase = "done"
             /\ s = Settled + 1 /\ s <= made => requests'[s].phase \in Working \cup {"queued"}
             /\ s > Settled + 1 /\ s <= made => requests'[s].phase = "queued"
             /\ s > made => requests'[s].phase = "new"
  <2>1. CASE s = r
    BY <1>1, <1>2, <2>1
  <2>2. CASE s # r
    BY <2>2 DEF InOrder
  <2> QED
    BY <2>1, <2>2
<1> QED
  BY <1>1, <1>3, <1>4 DEF InOrder

\* The strokes and the kinds of the uploads stay what they are.
LEMMA SameContents ==
  ASSUME NEW r, requests'[r].first = requests[r].first, requests'[r].strokes = requests[r].strokes
  PROVE  /\ Files(r)' = Files(r) /\ DisplayOf(r)' = DisplayOf(r) /\ EtagsOf(r)' = EtagsOf(r)
         /\ \A v : Content(r, v)' = Content(r, v)
BY DEF Files, DisplayOf, EtagsOf, Content

\* The last upload that reached the row is the one before that on the wire, or that one.
LEMMA LastIsBefore ==
  ASSUME ImagesAssumption, TypeOK, InOrder, NEW r \in Uploads, OnTheWire(Camera, r)
  PROVE  /\ \A s \in Uploads : Committed(s) => s <= r
         /\ Committed(r) => \A s \in Uploads : IsLast(s) <=> s = r
         /\ ~Committed(r) => (\A s \in Uploads : Committed(s) <=> s < r) /\ (\A s \in Uploads : IsLast(s) => s = r - 1)
<1>1. Uploads \subseteq Nat \ {0} /\ made \in Uploads
  BY Lengths
<1>2. \A s \in Uploads : (s < r => Committed(s)) /\ (s > r => ~Committed(s))
  BY TheHead DEF Committed
<1>3. \A s \in Uploads : Committed(s) => s <= r
  BY <1>1, <1>2
<1>4. ASSUME Committed(r), NEW s \in Uploads
      PROVE  IsLast(s) <=> s = r
  BY <1>1, <1>3, <1>4 DEF IsLast
<1>5. ASSUME ~Committed(r)
      PROVE  (\A s \in Uploads : Committed(s) <=> s < r) /\ (\A s \in Uploads : IsLast(s) => s = r - 1)
  <2>1. \A s \in Uploads : Committed(s) <=> s < r
    BY <1>1, <1>2, <1>5
  <2>2. ASSUME NEW s \in Uploads, IsLast(s)
        PROVE  s = r - 1
    <3>1. s < r /\ s \in Nat /\ r \in Nat /\ r # 0
      BY <1>1, <2>1, <2>2 DEF IsLast
    <3>2. r - 1 \in Uploads
      BY <3>1 DEF Uploads, ImagesAssumption
    <3>3. r - 1 <= s
      BY <2>1, <2>2, <3>1, <3>2 DEF IsLast
    <3> QED
      BY <3>1, <3>3
  <2> QED
    BY <2>1, <2>2
<1> QED
  BY <1>3, <1>4, <1>5

\* A page that opens, draws, saves its strokes, or leaves.
LEMMA PagesStayQuiet ==
  ASSUME QuietInv, requests' = requests, queue' = queue, made' = made, objects' = objects,
         etags'[Camera] = etags[Camera] \/ etags'[Camera] = Nothing,
         row'.uploaded = row.uploaded, row'.display = row.display,
         row'.display_etag = row.display_etag, row'.thumbnail_etag = row.thumbnail_etag,
         StrokesAreUploaded'
  PROVE  QuietInv'
<1>1. InOrder' /\ Settled' = Settled
  BY DEF QuietInv, InOrder, Settled
<1>2. PutsAreDone' /\ RowIsTheLast' /\ ObjectsAreTheLast'
  BY DEF QuietInv, PutsAreDone, Files, Content, RowIsTheLast, IsLast, Committed, DisplayOf, ObjectsAreTheLast
<1>3. AnswersAreTheirs'
  BY <1>1 DEF QuietInv, AnswersAreTheirs, EtagsOf
<1> QED
  BY <1>1, <1>2, <1>3 DEF QuietInv

\* Uploads that keep what they carry, beside one whose phase changes.
Keep(r) ==
  /\ \A s \in Uploads \ {r} : requests'[s] = requests[s]
  /\ requests'[r].first = requests[r].first /\ requests'[r].strokes = requests[r].strokes

LEMMA KeptStrokes ==
  ASSUME ImagesAssumption, TypeOK, InOrder, StrokesAreUploaded, NEW r \in Uploads, Keep(r),
         made' = made, pages' = pages, row'.strokes = row.strokes
  PROVE  StrokesAreUploaded'
<1>1. requests'[made].strokes = requests[made].strokes
  BY Lengths DEF Keep
<1> QED
  BY <1>1 DEF StrokesAreUploaded

LEMMA KeptContents ==
  ASSUME NEW r \in Uploads, Keep(r), NEW s \in Uploads
  PROVE  /\ Files(s)' = Files(s) /\ DisplayOf(s)' = DisplayOf(s) /\ EtagsOf(s)' = EtagsOf(s)
         /\ \A v : Content(s, v)' = Content(s, v)
         /\ requests'[s].strokes = requests[s].strokes /\ requests'[s].first = requests[s].first
<1>1. requests'[s].strokes = requests[s].strokes /\ requests'[s].first = requests[s].first
  BY DEF Keep
<1> QED
  BY <1>1, SameContents

LEMMA ArrivalsStayQuiet ==
  ASSUME ImagesAssumption, Pages = {Camera}, TypeOK, QuietInv, NEW r \in Uploads, Arrive(r)
  PROVE  QuietInv'
<1>1. OnTheWire(Camera, r) /\ requests[r].phase = "queued"
  <2>1. requests[r].phase # "delivered"
    <3>1. requests[r].phase \in Working \cup {"queued", "done", "new"}
      BY Lengths DEF QuietInv, InOrder
    <3> QED
      BY <3>1 DEF Working
  <2> QED
    BY <2>1 DEF Arrive
<1>2. row' = row /\ objects' = objects /\ queue' = queue /\ made' = made /\ etags' = etags /\ pages' = pages
  BY DEF Arrive
<1>3. ~Committed(r) /\ \A s \in Uploads : Committed(s) <=> s < r
  BY <1>1, LastIsBefore DEF QuietInv, Committed
<1>4. row.uploaded # requests[r].first
  <2>1. 1 \in Uploads /\ r \in Nat \ {0} /\ (requests[r].first <=> r = 1) /\ (row.uploaded <=> Committed(1))
    BY Lengths DEF QuietInv, InOrder, RowIsTheLast
  <2>2. row.uploaded <=> r # 1
    BY <1>3, <2>1
  <2> QED
    BY <2>1, <2>2
<1>5. /\ requests'[r].phase = "putting" /\ requests'[r].first = requests[r].first
      /\ requests'[r].strokes = requests[r].strokes /\ requests'[r].to_put = Files(r)
      /\ requests'[r].answer = requests[r].answer
      /\ \A s \in Uploads \ {r} : requests'[s] = requests[s]
  BY <1>4, ArrivalsPut DEF Arrive
<1>6. Keep(r)
  BY <1>5 DEF Keep
<1>7. InOrder' /\ Settled' = Settled
  BY <1>1, <1>2, <1>5, WorkKeepsTheOrder DEF QuietInv, Settled, Working
<1>8. PutsAreDone'
  <2> SUFFICES ASSUME NEW s \in Uploads
               PROVE  IF requests'[s].phase = "putting"
                      THEN /\ requests'[s].to_put \subseteq Files(s)'
                           /\ \A v \in Files(s)' \ requests'[s].to_put : objects'[v] = Content(s, v)'
                      ELSE requests'[s].to_put = {}
    BY DEF PutsAreDone
  <2>1. CASE s = r
    BY <1>5, <1>6, <2>1, KeptContents
  <2>2. CASE s # r
    BY <1>2, <1>5, <1>6, <2>2, KeptContents DEF QuietInv, PutsAreDone
  <2> QED
    BY <2>1, <2>2
<1>9. \A s \in Uploads : (Committed(s)' <=> Committed(s))
  BY <1>1, <1>5 DEF Committed
<1>10. \A s \in Uploads : (IsLast(s)' <=> IsLast(s))
  BY <1>9 DEF IsLast
<1>11. RowIsTheLast'
  BY <1>2, <1>6, <1>9, <1>10, Lengths, KeptContents DEF QuietInv, RowIsTheLast
<1>12. ObjectsAreTheLast'
  <2>1. \E s \in Uploads : requests'[s].phase = "putting"
    BY <1>5
  <2>2. /\ "display" \notin Files(r)' \ requests'[r].to_put
        /\ \A s \in Uploads \ {r} : requests'[s] = requests[s] /\ Files(s)' = Files(s)
    BY <1>5, <1>6, KeptContents
  <2> QED
    BY <1>1, <1>2, <2>1, <2>2 DEF QuietInv, ObjectsAreTheLast
<1>13. AnswersAreTheirs'
  BY <1>2, <1>5, <1>6, <1>7, KeptContents DEF QuietInv, AnswersAreTheirs
<1>14. StrokesAreUploaded'
  BY <1>2, <1>6, KeptStrokes DEF QuietInv
<1> QED
  BY <1>7, <1>8, <1>11, <1>12, <1>13, <1>14 DEF QuietInv

LEMMA PutsStayQuiet ==
  ASSUME ImagesAssumption, TypeOK, QuietInv, NEW r \in Uploads, NEW variant \in Variants, Put(r, variant)
  PROVE  QuietInv'
<1>1. row' = row /\ queue' = queue /\ made' = made /\ etags' = etags /\ pages' = pages /\ variant \in requests[r].to_put
  BY DEF Put
<1>2. requests[r].phase = "putting" /\ OnTheWire(Camera, r)
  <2>1. requests[r].phase \in Working \cup {"queued", "done", "new"}
    BY Lengths DEF QuietInv, InOrder
  <2>2. requests[r].phase = "putting"
    BY <2>1 DEF Put, Working
  <2> QED
    BY <2>2, TheHead DEF QuietInv, Working
<1>3. variant \in Files(r)
  BY <1>1, <1>2 DEF QuietInv, PutsAreDone
<1>4. /\ requests'[r].phase = requests[r].phase /\ requests'[r].first = requests[r].first
      /\ requests'[r].strokes = requests[r].strokes /\ requests'[r].to_put = requests[r].to_put \ {variant}
      /\ requests'[r].answer = requests[r].answer
      /\ \A s \in Uploads \ {r} : requests'[s] = requests[s]
  BY PutsAreTaken DEF Put
<1>5. objects'[variant] = Content(r, variant) /\ \A v \in Variants \ {variant} : objects'[v] = objects[v]
  BY DEF Put, Content, TypeOK
<1>6. Keep(r)
  BY <1>4 DEF Keep
<1>7. InOrder' /\ Settled' = Settled
  BY <1>1, <1>2, <1>4, WorkKeepsTheOrder DEF QuietInv, Settled, Working
<1>8. PutsAreDone'
  <2> SUFFICES ASSUME NEW s \in Uploads
               PROVE  IF requests'[s].phase = "putting"
                      THEN /\ requests'[s].to_put \subseteq Files(s)'
                           /\ \A v \in Files(s)' \ requests'[s].to_put : objects'[v] = Content(s, v)'
                      ELSE requests'[s].to_put = {}
    BY DEF PutsAreDone
  <2>1. CASE s = r
    <3>1. requests'[r].to_put \subseteq Files(r)
      BY <1>2, <1>4 DEF QuietInv, PutsAreDone
    <3>2. ASSUME NEW v \in Files(r) \ requests'[r].to_put
          PROVE  objects'[v] = Content(r, v)
      <4>1. v \in Variants
        BY DEF Files, Variants
      <4> QED
        BY <1>2, <1>4, <1>5, <4>1, <3>2 DEF QuietInv, PutsAreDone
    <3> QED
      BY <1>2, <1>4, <1>6, <2>1, <3>1, <3>2, KeptContents
  <2>2. CASE s # r
    <3>1. requests'[s] = requests[s] /\ requests[s].phase # "putting"
      BY <1>2, <1>4, <2>2, TheHead DEF QuietInv, Working
    <3> QED
      BY <3>1 DEF QuietInv, PutsAreDone
  <2> QED
    BY <2>1, <2>2
<1>9. \A s \in Uploads : (Committed(s)' <=> Committed(s)) /\ requests'[s].phase = requests[s].phase
  BY <1>4 DEF Committed
<1>10. \A s \in Uploads : (IsLast(s)' <=> IsLast(s))
  BY <1>9 DEF IsLast
<1>11. RowIsTheLast'
  BY <1>1, <1>6, <1>9, <1>10, Lengths, KeptContents DEF QuietInv, RowIsTheLast
<1>12. ObjectsAreTheLast'
  <2>1. row.uploaded => objects'["original"] = NoDrawing
    BY <1>5 DEF QuietInv, ObjectsAreTheLast, Content, Variants
  <2>2. ASSUME row.display # "display",
               \A s \in Uploads : /\ requests'[s].phase # "deleting"
                                  /\ requests'[s].phase = "putting" => "display" \notin Files(s)' \ requests'[s].to_put
        PROVE  objects'["display"] = Nothing
    <3>1. variant # "display"
      BY <1>2, <1>3, <1>4, <1>6, <2>2, KeptContents
    <3>2. objects'["display"] = objects["display"]
      BY <1>5, <3>1 DEF Variants
    <3>3. \A s \in Uploads : /\ requests[s].phase # "deleting"
                             /\ requests[s].phase = "putting" => "display" \notin Files(s) \ requests[s].to_put
      <4> SUFFICES ASSUME NEW s \in Uploads
                   PROVE  /\ requests[s].phase # "deleting"
                          /\ requests[s].phase = "putting" => "display" \notin Files(s) \ requests[s].to_put
        OBVIOUS
      <4>1. Files(s)' = Files(s) /\ requests'[s].phase = requests[s].phase
        BY <1>6, <1>9, KeptContents
      <4> QED
        BY <1>4, <2>2, <3>1, <4>1
    <3> QED
      BY <2>2, <3>2, <3>3 DEF QuietInv, ObjectsAreTheLast
  <2>3. \E s \in Uploads : requests'[s].phase = "putting"
    BY <1>2, <1>4
  <2> QED
    BY <1>1, <2>1, <2>2, <2>3 DEF ObjectsAreTheLast
<1>13. AnswersAreTheirs'
  BY <1>1, <1>2, <1>4, <1>6, <1>7, KeptContents DEF QuietInv, AnswersAreTheirs
<1>14. StrokesAreUploaded'
  BY <1>1, <1>6, KeptStrokes DEF QuietInv
<1> QED
  BY <1>7, <1>8, <1>11, <1>12, <1>13, <1>14 DEF QuietInv

LEMMA CommitsStayQuiet ==
  ASSUME ImagesAssumption, TypeOK, QuietInv, NEW r \in Uploads, Commit(r)
  PROVE  QuietInv'
<1>1. /\ requests[r].phase = "putting" /\ requests[r].to_put = {}
      /\ objects' = objects /\ queue' = queue /\ made' = made /\ etags' = etags /\ pages' = pages
  BY DEF Commit
<1>2. OnTheWire(Camera, r) /\ \A s \in Uploads \ {r} : requests[s].phase \in {"done", "queued", "new"}
  <2>1. \A s \in Uploads \ {r} : s < r \/ s > r
    BY Lengths DEF QuietInv
  <2> QED
    BY <1>1, <2>1, TheHead DEF QuietInv, Working
<1>3. ~Committed(r) /\ (\A s \in Uploads : Committed(s) <=> s < r)
  BY <1>1, <1>2, LastIsBefore DEF QuietInv, Committed
<1>4. row.uploaded # requests[r].first
  <2>1. 1 \in Uploads /\ r \in Nat \ {0} /\ (requests[r].first <=> r = 1) /\ (row.uploaded <=> Committed(1))
    BY Lengths DEF QuietInv, InOrder, RowIsTheLast
  <2>2. row.uploaded <=> r # 1
    BY <1>3, <2>1
  <2> QED
    BY <2>1, <2>2
<1>5. /\ requests'[r].first = requests[r].first /\ requests'[r].strokes = requests[r].strokes
      /\ requests'[r].to_put = requests[r].to_put /\ requests'[r].answer = requests[r].answer
      /\ \A s \in Uploads \ {r} : requests'[s] = requests[s]
      /\ Updated(r)
      /\ requests'[r].phase = IF requests[r].strokes = NoDrawing /\ row.display = "display"
                              THEN "deleting" ELSE "reading"
  BY <1>4, CommitsUpdateTheRow
<1>6. Keep(r) /\ Committed(r)' /\ requests'[r].phase \in {"deleting", "reading"}
  BY <1>5 DEF Keep, Committed
<1>7. InOrder' /\ Settled' = Settled
  BY <1>1, <1>2, <1>5, <1>6, WorkKeepsTheOrder DEF QuietInv, Settled, Working
<1>8. PutsAreDone'
  <2> SUFFICES ASSUME NEW s \in Uploads
               PROVE  requests'[s].phase # "putting" /\ requests'[s].to_put = {}
    BY DEF PutsAreDone
  <2>1. CASE s = r
    BY <1>1, <1>5, <1>6, <2>1
  <2>2. CASE s # r
    BY <1>2, <1>5, <2>2 DEF QuietInv, PutsAreDone
  <2> QED
    BY <2>1, <2>2
<1>9. \A s \in Uploads : (Committed(s)' <=> s <= r)
  <2>1. \A s \in Uploads : s # r => (Committed(s)' <=> s < r)
    BY <1>3, <1>5 DEF Committed
  <2> QED
    BY <1>6, <2>1, Lengths DEF QuietInv
<1>10. \A s \in Uploads : (IsLast(s)' <=> s = r)
  BY <1>9, Lengths DEF QuietInv, IsLast
<1>11. RowIsTheLast'
  <2>1. Committed(1)' /\ row'.uploaded
    BY <1>5, <1>9, Lengths DEF QuietInv, Updated
  <2>2. row'.display = DisplayOf(r)' /\ row'.display_etag = requests'[r].strokes /\ row'.thumbnail_etag = requests'[r].strokes
    BY <1>5 DEF Updated, DisplayOf
  <2> QED
    BY <1>10, <2>1, <2>2 DEF RowIsTheLast
<1>12. ObjectsAreTheLast'
  <2>1. \A v \in Files(r) : objects[v] = Content(r, v)
    BY <1>1 DEF QuietInv, PutsAreDone
  <2>2. objects["thumbnail"] = requests[r].strokes
    BY <2>1 DEF Files, Content
  <2>3. objects["original"] = NoDrawing
    <3>1. CASE requests[r].first
      BY <2>1, <3>1 DEF Files, Content
    <3>2. CASE ~requests[r].first
      <4>1. row.uploaded
        BY <1>4, <3>2 DEF TypeOK
      <4> QED
        BY <4>1 DEF QuietInv, ObjectsAreTheLast
    <3> QED
      BY <3>1, <3>2
  <2>4. objects[row'.display] = requests[r].strokes
    <3>1. CASE requests[r].strokes = NoDrawing
      BY <1>5, <2>3, <3>1 DEF Updated
    <3>2. CASE requests[r].strokes # NoDrawing
      BY <1>5, <2>1, <3>2 DEF Updated, Files, Content
    <3> QED
      BY <3>1, <3>2
  <2>5. ASSUME row'.display # "display", \A s \in Uploads : requests'[s].phase # "deleting"
        PROVE  objects["display"] = Nothing
    <3>1. requests[r].strokes = NoDrawing /\ row.display # "display"
      BY <1>5, <2>5 DEF Updated
    <3>2. "display" \notin Files(r)
      BY <3>1 DEF Files
    <3>3. \A s \in Uploads : /\ requests[s].phase # "deleting"
                             /\ requests[s].phase = "putting" => "display" \notin Files(s) \ requests[s].to_put
      BY <1>1, <1>2, <3>2
    <3> QED
      BY <3>1, <3>3 DEF QuietInv, ObjectsAreTheLast
  <2> QED
    BY <1>1, <1>5, <1>10, <2>2, <2>3, <2>4, <2>5 DEF ObjectsAreTheLast
<1>13. AnswersAreTheirs'
  <2>1. \A s \in Uploads : requests'[s].phase # "answering"
    BY <1>2, <1>5, <1>6
  <2>2. etags[Camera] # Nothing => Settled \in Uploads /\ etags[Camera] = EtagsOf(Settled)
    BY DEF QuietInv, AnswersAreTheirs
  <2>3. Settled \in Uploads => EtagsOf(Settled)' = EtagsOf(Settled)
    BY <1>5, <1>7 DEF EtagsOf
  <2> QED
    BY <1>1, <1>7, <2>1, <2>2, <2>3 DEF AnswersAreTheirs
<1>14. StrokesAreUploaded'
  BY <1>1, <1>5, <1>6, KeptStrokes DEF QuietInv, Updated
<1> QED
  BY <1>7, <1>8, <1>11, <1>12, <1>13, <1>14 DEF QuietInv

LEMMA DeletionsStayQuiet ==
  ASSUME ImagesAssumption, TypeOK, FilesInv, QuietInv, NEW r \in Uploads, DeleteStaleDisplay(r)
  PROVE  QuietInv'
<1>1. /\ requests[r].phase = "deleting" /\ objects' = [objects EXCEPT !["display"] = Nothing]
      /\ row' = row /\ queue' = queue /\ made' = made /\ etags' = etags /\ pages' = pages
  BY DEF DeleteStaleDisplay
<1>2. OnTheWire(Camera, r) /\ Committed(r)
  BY <1>1, TheHead DEF QuietInv, Working, Committed
<1>3. \A s \in Uploads : IsLast(s) <=> s = r
  BY <1>2, LastIsBefore DEF QuietInv
<1>4. /\ requests'[r].phase = "reading" /\ requests'[r].first = requests[r].first
      /\ requests'[r].strokes = requests[r].strokes /\ requests'[r].to_put = requests[r].to_put
      /\ requests'[r].answer = requests[r].answer
      /\ \A s \in Uploads \ {r} : requests'[s] = requests[s]
  BY PhasesChange DEF DeleteStaleDisplay, Phases
<1>5. Keep(r)
  BY <1>4 DEF Keep
<1>6. InOrder' /\ Settled' = Settled
  BY <1>1, <1>2, <1>4, WorkKeepsTheOrder DEF QuietInv, Settled, Working
<1>7. \A s \in Uploads : requests[s].phase # "putting"
  BY <1>1, <1>2, Lengths, TheHead DEF QuietInv, Working
<1>8. PutsAreDone'
  <2> SUFFICES ASSUME NEW s \in Uploads
               PROVE  requests'[s].phase # "putting" /\ requests'[s].to_put = {}
    BY DEF PutsAreDone
  <2> QED
    BY <1>4, <1>7 DEF QuietInv, PutsAreDone
<1>9. \A s \in Uploads : (Committed(s)' <=> Committed(s))
  BY <1>2, <1>4 DEF Committed
<1>10. \A s \in Uploads : (IsLast(s)' <=> IsLast(s))
  BY <1>9 DEF IsLast
<1>11. RowIsTheLast'
  BY <1>1, <1>5, <1>9, <1>10, Lengths, KeptContents DEF QuietInv, RowIsTheLast
<1>12. ObjectsAreTheLast'
  <2>1. /\ objects'["display"] = Nothing
        /\ objects'["original"] = objects["original"] /\ objects'["thumbnail"] = objects["thumbnail"]
    BY <1>1 DEF TypeOK, Variants
  <2>2. row.display = "original" \/ row.display = "display"
    BY <1>3 DEF QuietInv, RowIsTheLast, DisplayOf
  <2>3. row.uploaded => objects'["original"] = NoDrawing
    BY <2>1 DEF QuietInv, ObjectsAreTheLast
  <2>4. objects'["thumbnail"] = requests'[r].strokes
    BY <1>3, <1>4, <1>7, <2>1 DEF QuietInv, ObjectsAreTheLast
  <2>5. row.display = "original" => objects'[row.display] = requests'[r].strokes
    BY <1>3, <1>4, <1>7, <2>1 DEF QuietInv, ObjectsAreTheLast
  <2>6. row.display # "display"
    BY <1>1 DEF FilesInv, DeletedIsStale
  <2> QED
    BY <1>1, <1>3, <1>10, <2>1, <2>2, <2>3, <2>4, <2>5, <2>6 DEF ObjectsAreTheLast
<1>13. AnswersAreTheirs'
  BY <1>1, <1>4, <1>5, <1>6, KeptContents DEF QuietInv, AnswersAreTheirs
<1>14. StrokesAreUploaded'
  BY <1>1, <1>5, KeptStrokes DEF QuietInv
<1> QED
  BY <1>6, <1>8, <1>11, <1>12, <1>13, <1>14 DEF QuietInv

LEMMA ReadingsStayQuiet ==
  ASSUME ImagesAssumption, TypeOK, QuietInv, NEW r \in Uploads, ReadAgain(r)
  PROVE  QuietInv'
<1>1. /\ requests[r].phase = "reading"
      /\ row' = row /\ objects' = objects /\ queue' = queue /\ made' = made /\ etags' = etags /\ pages' = pages
  BY DEF ReadAgain
<1>2. OnTheWire(Camera, r) /\ Committed(r)
  BY <1>1, TheHead DEF QuietInv, Working, Committed
<1>3. IsLast(r)
  BY <1>2, LastIsBefore DEF QuietInv
<1>4. /\ requests'[r].phase = "answering" /\ requests'[r].first = requests[r].first
      /\ requests'[r].strokes = requests[r].strokes /\ requests'[r].to_put = requests[r].to_put
      /\ requests'[r].answer = [display |-> row.display_etag, thumbnail |-> row.thumbnail_etag]
      /\ \A s \in Uploads \ {r} : requests'[s] = requests[s]
  BY AnswersAreRead
<1>5. Keep(r)
  BY <1>4 DEF Keep
<1>6. InOrder' /\ Settled' = Settled
  BY <1>1, <1>2, <1>4, WorkKeepsTheOrder DEF QuietInv, Settled, Working
<1>7. PutsAreDone'
  <2> SUFFICES ASSUME NEW s \in Uploads
               PROVE  IF requests'[s].phase = "putting"
                      THEN /\ requests'[s].to_put \subseteq Files(s)'
                           /\ \A v \in Files(s)' \ requests'[s].to_put : objects'[v] = Content(s, v)'
                      ELSE requests'[s].to_put = {}
    BY DEF PutsAreDone
  <2>1. CASE s = r
    BY <1>1, <1>4, <2>1 DEF QuietInv, PutsAreDone
  <2>2. CASE s # r
    BY <1>1, <1>4, <1>5, <2>2, KeptContents DEF QuietInv, PutsAreDone
  <2> QED
    BY <2>1, <2>2
<1>8. \A s \in Uploads : (Committed(s)' <=> Committed(s))
  BY <1>2, <1>4 DEF Committed
<1>9. \A s \in Uploads : (IsLast(s)' <=> IsLast(s))
  BY <1>8 DEF IsLast
<1>10. RowIsTheLast'
  BY <1>1, <1>5, <1>8, <1>9, Lengths, KeptContents DEF QuietInv, RowIsTheLast
<1>11. ObjectsAreTheLast'
  BY <1>1, <1>4, <1>5, <1>9, KeptContents DEF QuietInv, ObjectsAreTheLast
<1>12. AnswersAreTheirs'
  <2>1. requests'[r].answer = EtagsOf(r)'
    BY <1>3, <1>4 DEF QuietInv, RowIsTheLast, EtagsOf
  <2> QED
    BY <1>1, <1>4, <1>5, <1>6, <2>1, KeptContents DEF QuietInv, AnswersAreTheirs
<1>13. StrokesAreUploaded'
  BY <1>1, <1>5, KeptStrokes DEF QuietInv
<1> QED
  BY <1>6, <1>7, <1>10, <1>11, <1>12, <1>13 DEF QuietInv

LEMMA EnqueuingStaysQuiet ==
  ASSUME ImagesAssumption, TypeOK, QuietInv, Enqueue(Camera)
  PROVE  QuietInv'
<1> DEFINE r == made + 1
<1>1. Camera \in Pages /\ row' = row /\ objects' = objects /\ etags' = etags
  BY DEF Enqueue, ImagesAssumption
<1>2. /\ r \in Uploads /\ made' = r
      /\ requests'[r].phase = "queued" /\ requests'[r].first = FALSE
      /\ requests'[r].strokes = pages[Camera].strokes /\ requests'[r].to_put = {}
      /\ \A s \in Uploads \ {r} : requests'[s] = requests[s]
      /\ queue[Camera] \in Seq(Uploads) /\ queue'[Camera] = Append(queue[Camera], r)
  BY <1>1, EnqueuedRequests
<1>3. pages'[Camera].step = "closed" /\ pages[Camera].step = "saving"
  BY <1>1 DEF Enqueue, Closed, TypeOK
<1>4. Len(queue[Camera]) \in Nat /\ made \in Uploads /\ Settled \in 0 .. made /\ Uploads \subseteq Nat \ {0}
  BY Lengths DEF QuietInv
<1>5. r > made /\ r = Settled + Len(queue[Camera]) + 1 /\ r # Settled
  BY <1>4 DEF Settled
<1>6. requests[r].phase = "new"
  BY <1>2, <1>5 DEF QuietInv, InOrder
<1>7. Len(queue'[Camera]) = Len(queue[Camera]) + 1 /\ queue'[Camera][Len(queue[Camera]) + 1] = r
      /\ \A k \in 1 .. Len(queue[Camera]) : queue'[Camera][k] = queue[Camera][k]
  BY <1>2
<1>8. Settled' = Settled
  <2> DEFINE before == Len(queue[Camera])
             waits == Len(queue'[Camera])
  <2>1. Settled = made - before /\ Settled' = made' - waits
    BY DEF Settled
  <2>2. made' = made + 1 /\ waits = before + 1 /\ before \in Nat /\ made \in Nat
    BY <1>2, <1>4, <1>7
  <2> HIDE DEF before, waits
  <2> QED
    BY <2>1, <2>2
<1>9. InOrder'
  <2>1. Len(queue'[Camera]) <= made'
    BY <1>2, <1>4, <1>7 DEF Settled
  <2>2. \A k \in 1 .. Len(queue'[Camera]) : queue'[Camera][k] = Settled + k
    <3> SUFFICES ASSUME NEW k \in 1 .. Len(queue'[Camera])
                 PROVE  queue'[Camera][k] = Settled + k
      OBVIOUS
    <3>1. CASE k = Len(queue[Camera]) + 1
      BY <1>4, <1>5, <1>7, <3>1
    <3>2. CASE k # Len(queue[Camera]) + 1
      BY <1>4, <1>7, <3>2, SMTT(30) DEF QuietInv, InOrder
    <3> QED
      BY <3>1, <3>2
  <2>3. ASSUME NEW s \in Uploads
        PROVE  /\ s <= Settled => requests'[s].phase = "done"
               /\ s = Settled + 1 /\ s <= r => requests'[s].phase \in Working \cup {"queued"}
               /\ s > Settled + 1 /\ s <= r => requests'[s].phase = "queued"
               /\ s > r => requests'[s].phase = "new"
               /\ requests'[s].first <=> s = 1
    <3>1. CASE s = r
      BY <1>2, <1>4, <1>5, <3>1
    <3>2. CASE s # r
      <4>1. s \in Nat /\ made \in Nat /\ (s <= r => s <= made) /\ (s > r => s > made)
        BY <1>4, <3>2
      <4> QED
        BY <1>2, <3>2, <4>1 DEF QuietInv, InOrder
    <3> QED
      BY <3>1, <3>2
  <2> QED
    BY <1>2, <1>8, <2>1, <2>2, <2>3 DEF InOrder
<1>10. \A s \in Uploads : (Committed(s)' <=> Committed(s)) /\ (Committed(s) => s # r)
  BY <1>2, <1>6 DEF Committed
<1>11. \A s \in Uploads : (IsLast(s)' <=> IsLast(s)) /\ (IsLast(s) => s # r)
  BY <1>10 DEF IsLast
<1>12. \A s \in Uploads \ {r} : /\ Files(s)' = Files(s) /\ DisplayOf(s)' = DisplayOf(s) /\ EtagsOf(s)' = EtagsOf(s)
                                /\ \A v : Content(s, v)' = Content(s, v)
  BY <1>2, SameContents
<1> HIDE DEF r
<1>13. PutsAreDone'
  <2> SUFFICES ASSUME NEW s \in Uploads
               PROVE  IF requests'[s].phase = "putting"
                      THEN /\ requests'[s].to_put \subseteq Files(s)'
                           /\ \A v \in Files(s)' \ requests'[s].to_put : objects'[v] = Content(s, v)'
                      ELSE requests'[s].to_put = {}
    BY DEF PutsAreDone
  <2>1. CASE s = r
    BY <1>2, <2>1
  <2>2. CASE s # r
    BY <1>1, <1>2, <1>12, <2>2 DEF QuietInv, PutsAreDone
  <2> QED
    BY <2>1, <2>2
<1>14. RowIsTheLast'
  <2>1. 1 \in Uploads
    BY Lengths DEF QuietInv
  <2> QED
    BY <1>1, <1>2, <1>10, <1>11, <1>12, <2>1 DEF QuietInv, RowIsTheLast
<1>15. ObjectsAreTheLast'
  <2>1. \A s \in Uploads : s # r => requests'[s] = requests[s] /\ Files(s)' = Files(s)
    BY <1>2, <1>12
  <2>2. requests[r].phase \notin {"putting", "deleting"} /\ requests'[r].phase \notin {"putting", "deleting"}
    BY <1>2, <1>6
  <2>3. (\A s \in Uploads : requests'[s].phase # "putting") => (\A s \in Uploads : requests[s].phase # "putting")
    BY <2>1, <2>2
  <2>4. (\A s \in Uploads : /\ requests'[s].phase # "deleting"
                            /\ requests'[s].phase = "putting" => "display" \notin Files(s)' \ requests'[s].to_put)
        => \A s \in Uploads : /\ requests[s].phase # "deleting"
                              /\ requests[s].phase = "putting" => "display" \notin Files(s) \ requests[s].to_put
    BY <2>1, <2>2
  <2>5. \A s \in Uploads : IsLast(s)' => IsLast(s) /\ requests'[s].strokes = requests[s].strokes
    BY <1>11, <2>1
  <2>6. row.uploaded => objects["original"] = NoDrawing
    BY DEF QuietInv, ObjectsAreTheLast
  <2>7. \A s \in Uploads : IsLast(s)' /\ (\A t \in Uploads : requests'[t].phase # "putting") =>
          objects["thumbnail"] = requests'[s].strokes /\ objects[row.display] = requests'[s].strokes
    BY <2>3, <2>5 DEF QuietInv, ObjectsAreTheLast
  <2>8. /\ row.display # "display"
        /\ \A s \in Uploads : /\ requests'[s].phase # "deleting"
                              /\ requests'[s].phase = "putting" => "display" \notin Files(s)' \ requests'[s].to_put
        => objects["display"] = Nothing
    BY <2>4 DEF QuietInv, ObjectsAreTheLast
  <2> QED
    BY <1>1, <2>6, <2>7, <2>8 DEF ObjectsAreTheLast
<1>16. AnswersAreTheirs'
  <2>1. Settled # r
    BY <1>5 DEF r
  <2>2. \A s \in Uploads : requests'[s].phase = "answering" => s # r
    BY <1>2
  <2> QED
    BY <1>1, <1>2, <1>8, <1>12, <2>1, <2>2 DEF QuietInv, AnswersAreTheirs
<1>17. StrokesAreUploaded'
  BY <1>1, <1>2, <1>3 DEF QuietInv, StrokesAreUploaded
<1> QED
  BY <1>9, <1>13, <1>14, <1>15, <1>16, <1>17 DEF QuietInv

LEMMA AnswersStayQuiet ==
  ASSUME ImagesAssumption, TypeOK, QuietInv, NEW r \in Uploads, Answered(Camera, r)
  PROVE  QuietInv'
<1>1. /\ OnTheWire(Camera, r) /\ requests[r].phase = "answering" /\ Camera \in Pages
      /\ row' = row /\ objects' = objects /\ made' = made /\ pages' = pages
      /\ queue'[Camera] = Tail(queue[Camera]) /\ etags'[Camera] = requests[r].answer
  BY DEF Answered, ImagesAssumption, TypeOK
<1>2. r = Settled + 1 /\ r <= made /\ Committed(r)
  BY <1>1, TheHead DEF QuietInv, Committed
<1>3. /\ requests'[r].phase = "done" /\ requests'[r].first = requests[r].first
      /\ requests'[r].strokes = requests[r].strokes /\ requests'[r].to_put = requests[r].to_put
      /\ requests'[r].answer = requests[r].answer
      /\ \A s \in Uploads \ {r} : requests'[s] = requests[s]
  BY PhasesChange DEF Answered, Phases
<1>4. Keep(r)
  BY <1>3 DEF Keep
<1>5. /\ Len(queue[Camera]) \in Nat /\ made \in Uploads /\ Settled \in 0 .. made /\ Uploads \subseteq Nat \ {0}
      /\ queue[Camera] \in Seq(Uploads)
  BY Lengths DEF QuietInv
<1>6. /\ Len(queue'[Camera]) = Len(queue[Camera]) - 1 /\ Len(queue[Camera]) >= 1
      /\ \A k \in 1 .. Len(queue'[Camera]) : queue'[Camera][k] = queue[Camera][k + 1]
  BY <1>1, <1>5, HeadTailProperties DEF OnTheWire
<1>7. Settled' = r
  <2> DEFINE before == Len(queue[Camera])
             waits == Len(queue'[Camera])
  <2>1. Settled = made - before /\ Settled' = made' - waits
    BY DEF Settled
  <2>2. made' = made /\ waits = before - 1 /\ before \in Nat /\ made \in Nat
    BY <1>1, <1>5, <1>6
  <2> HIDE DEF before, waits
  <2> QED
    BY <1>2, <2>1, <2>2
<1>8. InOrder'
  <2>1. Len(queue'[Camera]) <= made'
    <3> DEFINE before == Len(queue[Camera])
               waits == Len(queue'[Camera])
    <3>1. before <= made /\ made' = made /\ waits = before - 1 /\ before \in Nat /\ made \in Nat
      BY <1>1, <1>5, <1>6 DEF QuietInv, InOrder
    <3> HIDE DEF before, waits
    <3>2. waits <= made'
      BY <3>1
    <3> QED
      BY <3>2 DEF waits
  <2>2. \A k \in 1 .. Len(queue'[Camera]) : queue'[Camera][k] = r + k
    <3> SUFFICES ASSUME NEW k \in 1 .. Len(queue'[Camera])
                 PROVE  queue'[Camera][k] = r + k
      OBVIOUS
    <3>1. k \in Nat /\ k + 1 \in 1 .. Len(queue[Camera])
      BY <1>5, <1>6
    <3>2. queue[Camera][k + 1] = Settled + (k + 1) /\ queue'[Camera][k] = queue[Camera][k + 1]
      BY <1>6, <3>1 DEF QuietInv, InOrder
    <3>3. Settled \in Nat /\ r = Settled + 1
      BY <1>2, <1>5
    <3>4. Settled + (k + 1) = r + k
      BY <3>1, <3>3
    <3> QED
      BY <3>2, <3>4
  <2>3. ASSUME NEW s \in Uploads
        PROVE  /\ s <= r => requests'[s].phase = "done"
               /\ s = r + 1 /\ s <= made => requests'[s].phase \in Working \cup {"queued"}
               /\ s > r + 1 /\ s <= made => requests'[s].phase = "queued"
               /\ s > made => requests'[s].phase = "new"
               /\ requests'[s].first <=> s = 1
    <3>1. CASE s = r
      BY <1>2, <1>3, <1>5, <3>1 DEF QuietInv, InOrder
    <3>2. CASE s # r
      BY <1>2, <1>3, <1>5, <3>2 DEF QuietInv, InOrder
    <3> QED
      BY <3>1, <3>2
  <2> QED
    BY <1>1, <1>7, <2>1, <2>2, <2>3 DEF InOrder
<1>9. PutsAreDone'
  <2> SUFFICES ASSUME NEW s \in Uploads
               PROVE  IF requests'[s].phase = "putting"
                      THEN /\ requests'[s].to_put \subseteq Files(s)'
                           /\ \A v \in Files(s)' \ requests'[s].to_put : objects'[v] = Content(s, v)'
                      ELSE requests'[s].to_put = {}
    BY DEF PutsAreDone
  <2>1. CASE s = r
    BY <1>1, <1>3, <2>1 DEF QuietInv, PutsAreDone
  <2>2. CASE s # r
    BY <1>1, <1>3, <1>4, <2>2, KeptContents DEF QuietInv, PutsAreDone
  <2> QED
    BY <2>1, <2>2
<1>10. \A s \in Uploads : (Committed(s)' <=> Committed(s))
  BY <1>2, <1>3 DEF Committed
<1>11. \A s \in Uploads : (IsLast(s)' <=> IsLast(s))
  BY <1>10 DEF IsLast
<1>12. RowIsTheLast'
  BY <1>1, <1>4, <1>10, <1>11, Lengths, KeptContents DEF QuietInv, RowIsTheLast
<1>13. ObjectsAreTheLast'
  BY <1>1, <1>3, <1>4, <1>11, KeptContents DEF QuietInv, ObjectsAreTheLast
<1>14. AnswersAreTheirs'
  <2>1. requests[r].answer = EtagsOf(r)
    BY <1>1 DEF QuietInv, AnswersAreTheirs
  <2>2. etags'[Camera] = EtagsOf(r)'
    BY <1>1, <1>4, <2>1, KeptContents
  <2> QED
    BY <1>3, <1>4, <1>7, <2>2, KeptContents DEF QuietInv, AnswersAreTheirs
<1>15. StrokesAreUploaded'
  BY <1>1, <1>4, KeptStrokes DEF QuietInv
<1> QED
  BY <1>8, <1>9, <1>12, <1>13, <1>14, <1>15 DEF QuietInv

LEMMA QuietInductive ==
  ASSUME ImagesAssumption, Pages = {Camera}, TypeOK, FilesInv, QuietInv, [Next]_vars,
         cuts = 0, cuts' = 0, failures = 0, failures' = 0
  PROVE  QuietInv'
<1>1. CASE UNCHANGED vars
  <2>1. StrokesAreUploaded'
    BY <1>1 DEF vars, QuietInv, StrokesAreUploaded
  <2> QED
    BY <1>1, <2>1, PagesStayQuiet DEF vars
<1>2. CASE Open(Camera)
  <2>1. StrokesAreUploaded'
    BY <1>2 DEF Open, QuietInv, StrokesAreUploaded, TypeOK
  <2> QED
    BY <1>2, <2>1, PagesStayQuiet DEF Open
<1>3. CASE Discard(Camera)
  <2>1. StrokesAreUploaded'
    BY <1>3 DEF Discard, Closed, QuietInv, StrokesAreUploaded, TypeOK
  <2> QED
    BY <1>3, <2>1, PagesStayQuiet DEF Discard
<1>4. ASSUME NEW strokes \in Strokes, SaveStrokes(Camera, strokes)
      PROVE  QuietInv'
  <2>1. /\ row'.strokes = strokes /\ row'.uploaded = row.uploaded /\ row'.display = row.display
        /\ row'.display_etag = row.display_etag /\ row'.thumbnail_etag = row.thumbnail_etag
    BY <1>4 DEF SaveStrokes, TypeOK
  <2>2. pages'[Camera].step = "saving" /\ pages'[Camera].strokes = strokes
    BY <1>4 DEF SaveStrokes, TypeOK
  <2>3. StrokesAreUploaded'
    BY <2>1, <2>2 DEF StrokesAreUploaded
  <2> QED
    BY <1>4, <2>1, <2>3, PagesStayQuiet DEF SaveStrokes
<1>5. CASE LeaveEstimate(Camera)
  <2>1. StrokesAreUploaded' /\ etags'[Camera] = Nothing
    BY <1>5 DEF LeaveEstimate, QuietInv, StrokesAreUploaded, TypeOK
  <2> QED
    BY <1>5, <2>1, PagesStayQuiet DEF LeaveEstimate
<1>6. CASE LoseStrokesAnswer(Camera) \/ Disconnect(Camera) \/ \E r \in Uploads : Break(r)
  BY <1>6 DEF LoseStrokesAnswer, Disconnect, Break
<1>7. ASSUME NEW r \in Uploads, Refused(Camera, r)
      PROVE  FALSE
  <2>1. requests[r].phase \in Working \cup {"queued"} /\ requests[r].phase = "failed"
    BY <1>7, TheHead DEF Refused, QuietInv
  <2> QED
    BY <2>1 DEF Working
<1> QED
  BY <1>1, <1>2, <1>3, <1>4, <1>5, <1>6, <1>7, ArrivalsStayQuiet, PutsStayQuiet, CommitsStayQuiet,
     DeletionsStayQuiet, ReadingsStayQuiet, EnqueuingStaysQuiet, AnswersStayQuiet DEF Next

LEMMA InitQuiet ==
  ASSUME ImagesAssumption, Init
  PROVE  QuietInv
<1>1. PICK strokes \in Strokes :
        /\ row = [uploaded |-> FALSE, strokes |-> strokes, display |-> Nothing,
                  display_etag |-> Nothing, thumbnail_etag |-> Nothing]
        /\ requests = [r \in Uploads |-> IF r = 1 THEN Request(TRUE, strokes)
                                         ELSE [Request(FALSE, NoDrawing) EXCEPT !.phase = "new"]]
  BY DEF Init
<1>2. /\ made = 1 /\ 1 \in Uploads /\ Uploads \subseteq Nat \ {0}
      /\ queue[Camera] = <<1>> /\ etags[Camera] = Nothing /\ pages[Camera] = Closed
      /\ objects = [variant \in Variants |-> Nothing]
  BY DEF Init, ImagesAssumption, Uploads
<1>3. /\ requests[1].phase = "queued" /\ requests[1].first = TRUE /\ requests[1].strokes = strokes
      /\ requests[1].to_put = {}
  BY <1>1, <1>2 DEF Request
<1>4. \A r \in Uploads : r # 1 => /\ requests[r].phase = "new" /\ requests[r].first = FALSE
                                  /\ requests[r].to_put = {}
  BY <1>1 DEF Request
<1>5. Settled = 0
  BY <1>2 DEF Settled
<1>6. InOrder
  BY <1>2, <1>3, <1>4, <1>5 DEF InOrder
<1>7. \A r \in Uploads : ~Committed(r)
  BY <1>3, <1>4 DEF Committed
<1>8. PutsAreDone
  BY <1>3, <1>4 DEF PutsAreDone
<1>9. RowIsTheLast /\ ObjectsAreTheLast
  BY <1>1, <1>2, <1>7 DEF RowIsTheLast, ObjectsAreTheLast, IsLast, Variants
<1>10. AnswersAreTheirs
  BY <1>2, <1>3, <1>4 DEF AnswersAreTheirs
<1>11. StrokesAreUploaded
  <2>1. pages[Camera].step = "closed"
    BY <1>2 DEF Closed
  <2>2. requests[made].strokes = row.strokes
    BY <1>1, <1>2, <1>3
  <2> QED
    BY <2>1, <2>2 DEF StrokesAreUploaded
<1> QED
  BY <1>6, <1>8, <1>9, <1>10, <1>11 DEF QuietInv

LEMMA QuietMeansWhole ==
  ASSUME ImagesAssumption, Pages = {Camera}, TypeOK, QuietInv, Quiet
  PROVE  /\ row.uploaded
         /\ Display = row.strokes /\ objects["thumbnail"] = row.strokes
         /\ row.display_etag = Display /\ row.thumbnail_etag = objects["thumbnail"]
         /\ row.display = "original" => objects["display"] = Nothing
         /\ \A p \in Pages : etags[p] \in {Nothing, [display |-> Display, thumbnail |-> objects["thumbnail"]]}
<1>1. queue[Camera] = <<>> /\ pages[Camera].step # "saving"
      /\ \A s \in Uploads : requests[s].phase \notin {"putting", "deleting"}
  BY DEF Quiet
<1>2. Settled = made /\ made \in Uploads /\ 1 \in Uploads /\ Uploads \subseteq Nat \ {0}
  BY <1>1, Lengths DEF QuietInv, Settled
<1>3. \A s \in Uploads : Committed(s) <=> s <= made
  <2> SUFFICES ASSUME NEW s \in Uploads
               PROVE  Committed(s) <=> s <= made
    OBVIOUS
  <2>1. s <= made => requests[s].phase = "done"
    BY <1>2 DEF QuietInv, InOrder
  <2>2. s > made => requests[s].phase = "new"
    BY <1>2 DEF QuietInv, InOrder
  <2>3. s \in Nat /\ made \in Nat
    BY <1>2
  <2> QED
    BY <2>1, <2>2, <2>3 DEF Committed
<1>4. IsLast(made) /\ Committed(1)
  BY <1>2, <1>3 DEF IsLast
<1>5. /\ row.uploaded /\ row.display = DisplayOf(made)
      /\ row.display_etag = requests[made].strokes /\ row.thumbnail_etag = requests[made].strokes
  BY <1>2, <1>4 DEF QuietInv, RowIsTheLast
<1>6. requests[made].strokes = row.strokes
  BY <1>1 DEF QuietInv, StrokesAreUploaded
<1>7. objects["thumbnail"] = row.strokes /\ Display = row.strokes
  BY <1>1, <1>2, <1>4, <1>6 DEF QuietInv, ObjectsAreTheLast, Display
<1>8. row.display = "original" => objects["display"] = Nothing
  BY <1>1 DEF QuietInv, ObjectsAreTheLast
<1>9. etags[Camera] # Nothing => etags[Camera] = [display |-> Display, thumbnail |-> objects["thumbnail"]]
  BY <1>2, <1>6, <1>7 DEF QuietInv, AnswersAreTheirs, EtagsOf
<1> QED
  BY <1>5, <1>6, <1>7, <1>8, <1>9

\* For any number of uploads and drawings: a photo of one page that is quiet, while nothing failed and
\* no connection broke, shows the strokes of its row on its display and thumbnail, its ETags are those
\* of its objects, on the row and on the page, and no display object is left that the row does not name
\* (upload_project_image, delete_object, PhotoUploadQueue).
THEOREM QuietIsWhole == ASSUME ImagesAssumption, Pages = {Camera} PROVE Spec => []QuietPhotoIsWhole
<1> DEFINE Inv == TypeOK /\ (cuts = 0 => FilesInv) /\ (cuts = 0 /\ failures = 0 => QuietInv)
<1>1. Init => Inv
  BY InitTypeOK, InitFiles, InitQuiet
<1>2. Inv /\ [Next]_vars => Inv'
  BY TypeOKInductive, FilesInductive, FaultsAreCounted, QuietInductive
<1>3. Inv => QuietPhotoIsWhole
  BY QuietMeansWhole DEF QuietPhotoIsWhole
<1> QED
  BY <1>1, <1>2, <1>3, PTL DEF Spec

-----------------------------------------------------------------------------
(* A browser that shows the photo.                                         *)

ViewTypeOK ==
  /\ view = NoView \/ view \in [key : {"original", "display"}, etag : Contents, beside : BOOLEAN]
  /\ cache # Nothing => cache \in [body : Strokes, etag : Contents, beside : BOOLEAN]

\* A request that no upload came beside finds the object that it read of, and the one it read of.
FileIsThere == Asking /\ ~view.beside => objects[view.key] # Nothing
ReadIsTrue ==
  Asking /\ ~view.beside =>
    view.key = row.display /\ view.etag = row.display_etag /\ objects[view.key] = view.etag

\* What the browser keeps is of the drawing that its ETag names.
CacheIsTrue == cache # Nothing /\ ~cache.beside => cache.body = cache.etag

\* What a browser reads changes only while an upload runs.
LEMMA OnlyUploadsChangeTheFiles ==
  ASSUME TypeOK, Next, ~UploadsRun
  PROVE  objects' = objects /\ row'.display = row.display /\ row'.display_etag = row.display_etag
<1>1. ASSUME NEW p \in Pages, NEW strokes \in Strokes, SaveStrokes(p, strokes)
      PROVE  objects' = objects /\ row'.display = row.display /\ row'.display_etag = row.display_etag
  BY <1>1 DEF SaveStrokes, TypeOK
<1>2. ASSUME NEW p \in Pages,
             \/ Open(p) \/ Discard(p) \/ Enqueue(p) \/ LoseStrokesAnswer(p) \/ Disconnect(p) \/ LeaveEstimate(p)
             \/ \E r \in Uploads : Answered(p, r) \/ Refused(p, r)
      PROVE  objects' = objects /\ row' = row
  BY <1>2, Zenon DEF Open, Discard, Enqueue, LoseStrokesAnswer, Disconnect, LeaveEstimate, Answered, Refused
<1>3. ASSUME NEW r \in Uploads, Arrive(r) \/ ReadAgain(r) \/ Break(r)
      PROVE  objects' = objects /\ row' = row
  BY <1>3, Zenon DEF Arrive, ReadAgain, Break
<1>4. ASSUME NEW r \in Uploads, (\E variant \in Variants : Put(r, variant)) \/ Commit(r) \/ DeleteStaleDisplay(r)
      PROVE  FALSE
  BY <1>4 DEF Put, Commit, DeleteStaleDisplay, UploadsRun
<1> QED
  BY <1>1, <1>2, <1>3, <1>4 DEF Next

\* What is on its way to the object and to the browser, step by step.
LEMMA ReadsOfTheRow ==
  ASSUME ImagesAssumption, TypeOK, ViewTypeOK, ReadRow
  PROVE  /\ vars' = vars /\ cache' = cache /\ view = NoView
         /\ \/ row.display = Nothing /\ shown' = "not found" /\ view' = view
            \/ row.display # Nothing /\ NotModified /\ shown' = cache.body /\ view' = view
            \/ /\ row.display # Nothing /\ shown' = shown
               /\ view'.key = row.display /\ view'.etag = row.display_etag /\ view'.beside = UploadsRun
               /\ view' \in [key : {"original", "display"}, etag : Contents, beside : BOOLEAN] /\ view' # NoView
<1>1. vars' = vars /\ cache' = cache /\ view = NoView
  BY DEF ReadRow, Asking
<1>2. CASE row.display # Nothing /\ ~NotModified
  <2>1. view' = [key |-> row.display, etag |-> row.display_etag, beside |-> UploadsRun] /\ shown' = shown
    BY <1>2 DEF ReadRow
  <2>2. row.display \in {"original", "display"} /\ row.display_etag \in Contents /\ UploadsRun \in BOOLEAN
    BY <1>2 DEF TypeOK, UploadsRun
  <2>3. /\ view'.key = row.display /\ view'.etag = row.display_etag /\ view'.beside = UploadsRun
        /\ view' \in [key : {"original", "display"}, etag : Contents, beside : BOOLEAN]
    BY <2>1, <2>2
  <2>4. view' # NoView
    BY <1>2, <2>3 DEF NoView
  <2> QED
    BY <1>1, <1>2, <2>1, <2>3, <2>4
<1>3. CASE row.display = Nothing \/ NotModified
  BY <1>1, <1>3 DEF ReadRow
<1> QED
  BY <1>1, <1>2, <1>3

LEMMA GetsOfTheObject ==
  ASSUME TypeOK, ViewTypeOK, GetObject
  PROVE  /\ vars' = vars /\ Asking /\ view' = NoView /\ view.key \in {"original", "display"} /\ view.etag \in Contents
         /\ IF objects[view.key] = Nothing THEN shown' = "not found" /\ cache' = cache
            ELSE /\ shown' = objects[view.key] /\ shown' \in Strokes
                 /\ cache'.body = objects[view.key] /\ cache'.etag = view.etag
                 /\ cache'.beside <=> view.beside \/ UploadsRun
                 /\ cache' \in [body : Strokes, etag : Contents, beside : BOOLEAN]
<1>1. vars' = vars /\ Asking /\ view' = NoView
  BY DEF GetObject
<1>2. view \in [key : {"original", "display"}, etag : Contents, beside : BOOLEAN]
  BY <1>1 DEF ViewTypeOK, Asking
<1>3. CASE objects[view.key] # Nothing
  <2>1. cache' = [body |-> objects[view.key], etag |-> view.etag, beside |-> view.beside \/ UploadsRun]
        /\ shown' = objects[view.key]
    BY <1>3 DEF GetObject
  <2>2. objects[view.key] \in Strokes /\ view.etag \in Contents /\ (view.beside \/ UploadsRun) \in BOOLEAN
    BY <1>2, <1>3 DEF TypeOK, Contents, Variants
  <2>3. /\ cache'.body = objects[view.key] /\ cache'.etag = view.etag
        /\ cache'.beside <=> view.beside \/ UploadsRun
        /\ cache' \in [body : Strokes, etag : Contents, beside : BOOLEAN]
    BY <2>1, <2>2
  <2> QED
    BY <1>1, <1>2, <1>3, <2>1, <2>2, <2>3
<1>4. CASE objects[view.key] = Nothing
  BY <1>1, <1>2, <1>4 DEF GetObject
<1> QED
  BY <1>3, <1>4

\* While no upload runs, the object that an uploaded row names has the row's ETag.
LEMMA RowNamesItsObject ==
  ASSUME ImagesAssumption, TypeOK, QuietInv, row.uploaded, ~UploadsRun
  PROVE  objects[row.display] = row.display_etag
<1>1. \A s \in Uploads : requests[s].phase # "putting"
  BY DEF UploadsRun
<1>2. /\ Len(queue[Camera]) \in Nat /\ made \in Uploads /\ Uploads \subseteq Nat \ {0} /\ 1 \in Uploads
      /\ queue[Camera] \in Seq(Uploads)
  BY Lengths DEF QuietInv
<1>3. Committed(1)
  BY DEF QuietInv, RowIsTheLast
<1>4. PICK last \in Uploads : IsLast(last)
  <2>1. CASE queue[Camera] = <<>>
    <3>1. Settled = made
      BY <1>2, <2>1 DEF Settled
    <3>2. requests[made].phase = "done" /\ \A s \in Uploads : s > made => requests[s].phase = "new"
      BY <1>2, <3>1 DEF QuietInv, InOrder
    <3>3. IsLast(made)
      BY <1>2, <3>2 DEF IsLast, Committed
    <3> QED
      BY <1>2, <3>3
  <2>2. CASE queue[Camera] # <<>>
    <3> DEFINE head == Head(queue[Camera])
    <3>1. head \in Uploads /\ OnTheWire(Camera, head)
      BY <1>2, <2>2, HeadTailProperties DEF OnTheWire
    <3> HIDE DEF head
    <3>2. CASE Committed(head)
      BY <3>1, <3>2, LastIsBefore DEF QuietInv
    <3>3. CASE ~Committed(head)
      <4>1. \A s \in Uploads : Committed(s) <=> s < head
        BY <3>1, <3>3, LastIsBefore DEF QuietInv
      <4>2. head \in Nat /\ 1 < head /\ MaxUploads \in Nat /\ head <= MaxUploads
        BY <1>2, <1>3, <3>1, <4>1 DEF Uploads, ImagesAssumption
      <4>3. head - 1 \in Uploads /\ head - 1 < head
        BY <4>2 DEF Uploads
      <4>4. IsLast(head - 1)
        BY <1>2, <4>1, <4>2, <4>3 DEF IsLast
      <4> QED
        BY <4>3, <4>4
    <3> QED
      BY <3>2, <3>3
  <2> QED
    BY <2>1, <2>2
<1> QED
  BY <1>1, <1>4 DEF QuietInv, RowIsTheLast, ObjectsAreTheLast

ViewInv ==
  /\ ViewTypeOK
  /\ cuts = 0 => FileIsThere
  /\ cuts = 0 /\ failures = 0 => ReadIsTrue /\ CacheIsTrue

PhotoInv == TypeOK /\ (cuts = 0 => FilesInv) /\ (cuts = 0 /\ failures = 0 => QuietInv)

\* Whatever happens to the photo while a request is under way.
LEMMA UploadsBesideTheView ==
  ASSUME ImagesAssumption, TypeOK, ViewInv, Next,
         view' = (IF Asking THEN [view EXCEPT !.beside = @ \/ UploadsRun] ELSE view), cache' = cache
  PROVE  ViewInv'
<1>1. (cuts' = 0 => cuts = 0) /\ (failures' = 0 => failures = 0)
  BY FaultsAreCounted
<1>2. CASE ~Asking
  BY <1>1, <1>2 DEF Asking, ViewInv, ViewTypeOK, FileIsThere, ReadIsTrue, CacheIsTrue, NoView
<1>3. CASE Asking
  <2> DEFINE beside == view.beside \/ UploadsRun
  <2>1. view \in [key : {"original", "display"}, etag : Contents, beside : BOOLEAN]
    BY <1>3 DEF Asking, ViewInv, ViewTypeOK
  <2>2. view' = [view EXCEPT !.beside = beside] /\ beside \in BOOLEAN /\ (~beside => ~view.beside /\ ~UploadsRun)
    BY <1>3, <2>1 DEF UploadsRun
  <2> HIDE DEF beside
  <2>3. /\ view' \in [key : {"original", "display"}, etag : Contents, beside : BOOLEAN]
        /\ view'.key = view.key /\ view'.etag = view.etag /\ view'.beside = beside
    BY <2>1, <2>2
  <2>4. ViewTypeOK'
    BY <2>3 DEF ViewInv, ViewTypeOK
  <2>5. ~beside => objects' = objects /\ row'.display = row.display /\ row'.display_etag = row.display_etag
    BY <2>2, OnlyUploadsChangeTheFiles
  <2>6. cuts' = 0 => FileIsThere'
    BY <1>1, <1>3, <2>2, <2>3, <2>5 DEF ViewInv, FileIsThere
  <2>7. cuts' = 0 /\ failures' = 0 => ReadIsTrue' /\ CacheIsTrue'
    BY <1>1, <1>3, <2>2, <2>3, <2>5 DEF ViewInv, ReadIsTrue, CacheIsTrue
  <2> QED
    BY <2>4, <2>6, <2>7 DEF ViewInv
<1> QED
  BY <1>2, <1>3

LEMMA ViewInductive ==
  ASSUME ImagesAssumption, Pages = {Camera}, PhotoInv, ViewInv, [ViewsNext]_<<vars, viewing>>
  PROVE  ViewInv'
<1>1. CASE UNCHANGED <<vars, viewing>>
  BY <1>1 DEF vars, faults, viewing, ViewInv, ViewTypeOK, FileIsThere, ReadIsTrue, CacheIsTrue, Asking
<1>2. CASE Next /\ view' = (IF Asking THEN [view EXCEPT !.beside = @ \/ UploadsRun] ELSE view) /\ cache' = cache
  BY <1>2, UploadsBesideTheView DEF PhotoInv
<1>3. CASE ReadRow
  <2>1. /\ row' = row /\ objects' = objects /\ cache' = cache /\ view = NoView /\ cuts' = cuts /\ failures' = failures
    BY <1>3, ReadsOfTheRow DEF PhotoInv, ViewInv, vars, faults
  <2>2. CASE view' = view
    BY <2>1, <2>2 DEF ViewInv, ViewTypeOK, FileIsThere, ReadIsTrue, CacheIsTrue, Asking, NoView
  <2>3. CASE view' # view
    <3>1. /\ row.display # Nothing /\ view'.key = row.display /\ view'.etag = row.display_etag /\ view'.beside = UploadsRun
          /\ view' \in [key : {"original", "display"}, etag : Contents, beside : BOOLEAN]
      BY <1>3, <2>3, ReadsOfTheRow DEF PhotoInv, ViewInv
    <3>2. row.uploaded
      BY <3>1 DEF PhotoInv, TypeOK
    <3>3. ViewTypeOK'
      BY <2>1, <3>1 DEF ViewInv, ViewTypeOK
    <3>4. cuts' = 0 => FileIsThere'
      BY <2>1, <3>1, <3>2 DEF PhotoInv, FilesInv, EveryFileExists, FileIsThere
    <3>5. cuts' = 0 /\ failures' = 0 => ReadIsTrue' /\ CacheIsTrue'
      <4>1. cuts = 0 /\ failures = 0 /\ ~UploadsRun => objects[row.display] = row.display_etag
        BY <3>2, RowNamesItsObject DEF PhotoInv
      <4> QED
        BY <2>1, <3>1, <4>1 DEF ViewInv, ReadIsTrue, CacheIsTrue
    <3> QED
      BY <3>3, <3>4, <3>5 DEF ViewInv
  <2> QED
    BY <2>2, <2>3
<1>4. CASE GetObject
  <2>1. /\ view' = NoView /\ Asking /\ cuts' = cuts /\ failures' = failures
        /\ \/ cache' = cache
           \/ /\ cache' \in [body : Strokes, etag : Contents, beside : BOOLEAN]
              /\ cache'.body = objects[view.key] /\ cache'.etag = view.etag
              /\ cache'.beside <=> view.beside \/ UploadsRun
    BY <1>4, GetsOfTheObject DEF PhotoInv, ViewInv, vars, faults
  <2>2. ViewTypeOK'
    BY <2>1 DEF ViewInv, ViewTypeOK, NoView
  <2>3. FileIsThere' /\ ReadIsTrue'
    BY <2>1 DEF FileIsThere, ReadIsTrue, Asking, NoView
  <2>4. cuts' = 0 /\ failures' = 0 => CacheIsTrue'
    BY <2>1 DEF ViewInv, ReadIsTrue, CacheIsTrue
  <2> QED
    BY <2>2, <2>3, <2>4 DEF ViewInv
<1> QED
  BY <1>1, <1>2, <1>3, <1>4 DEF ViewsNext

LEMMA PhotoInductive ==
  ASSUME ImagesAssumption, Pages = {Camera}, PhotoInv, [ViewsNext]_<<vars, viewing>>
  PROVE  PhotoInv'
<1>1. [Next]_vars
  BY DEF ViewsNext, ReadRow, GetObject, viewing
<1> QED
  BY <1>1, TypeOKInductive, FilesInductive, FaultsAreCounted, QuietInductive DEF PhotoInv

LEMMA InitViews ==
  ASSUME ImagesAssumption, ViewsInit
  PROVE  PhotoInv /\ ViewInv
<1>1. PhotoInv
  BY InitTypeOK, InitFiles, InitQuiet DEF ViewsInit, PhotoInv
<1>2. ViewInv
  BY DEF ViewsInit, ViewInv, ViewTypeOK, FileIsThere, ReadIsTrue, CacheIsTrue, Asking
<1> QED
  BY <1>1, <1>2

\* A browser that asks for the display of an uploaded photo of one page gets a picture, whatever fails on
\* the server, unless an upload came beside its request (project_image_file reads the row, then the
\* object; an upload may delete the display between the two).
THEOREM FilesAreFound ==
  ASSUME ImagesAssumption, ViewsAssumption, Pages = {Camera} PROVE ViewsSpec => RowsFilesAreFound
<1> DEFINE Found == Shows /\ shown' = "not found" /\ cuts = 0 /\ row.uploaded => view.beside
<1>1. ViewsInit => PhotoInv /\ ViewInv
  BY InitViews
<1>2. PhotoInv /\ ViewInv /\ [ViewsNext]_<<vars, viewing>> => (PhotoInv /\ ViewInv)'
  BY PhotoInductive, ViewInductive
<1>3. ASSUME PhotoInv, ViewInv, [ViewsNext]_<<vars, viewing>>
      PROVE  [Found]_<<vars, viewing>>
  <2> SUFFICES ASSUME Shows, shown' = "not found", cuts = 0, row.uploaded
               PROVE  view.beside
    OBVIOUS
  <2>1. row.display # Nothing
    BY <1>3 DEF PhotoInv, TypeOK
  <2>2. "not found" \notin Strokes
    BY DEF ViewsAssumption, Strokes
  <2>3. CASE ReadRow
    <3>1. NotModified /\ shown' = cache.body
      BY <1>3, <2>1, <2>3, ReadsOfTheRow DEF PhotoInv, ViewInv, Shows
    <3>2. cache.body \in Strokes
      BY <1>3, <3>1 DEF NotModified, ViewInv, ViewTypeOK
    <3> QED
      BY <2>2, <3>1, <3>2
  <2>4. CASE GetObject
    <3>1. Asking /\ objects[view.key] = Nothing /\ view.key \in {"original", "display"}
      BY <1>3, <2>2, <2>4, GetsOfTheObject DEF PhotoInv, ViewInv
    <3> QED
      BY <1>3, <3>1 DEF ViewInv, FileIsThere
  <2> QED
    BY <2>3, <2>4 DEF Shows
<1> QED
  BY <1>1, <1>2, <1>3, PTL DEF ViewsSpec, RowsFilesAreFound

\* What a browser shows of a photo of one page, while nothing failed, is the picture that the row names,
\* whether the browser had it or the server sent it, also after an undo brought an ETag back; unless an
\* upload goes on, or came beside the request that brought the picture.
THEOREM ShownIsTrue ==
  ASSUME ImagesAssumption, ViewsAssumption, Pages = {Camera} PROVE ViewsSpec => ShownIsWhatTheRowSays
<1> DEFINE IsTrue == Shows /\ shown' # "not found" /\ failures = 0 /\ cuts = 0 /\ ~UploadsRun /\ ~cache'.beside
                       => shown' = row.display_etag
<1>1. ViewsInit => PhotoInv /\ ViewInv
  BY InitViews
<1>2. PhotoInv /\ ViewInv /\ [ViewsNext]_<<vars, viewing>> => (PhotoInv /\ ViewInv)'
  BY PhotoInductive, ViewInductive
<1>3. ASSUME PhotoInv, ViewInv, [ViewsNext]_<<vars, viewing>>
      PROVE  [IsTrue]_<<vars, viewing>>
  <2> SUFFICES ASSUME Shows, shown' # "not found", failures = 0, cuts = 0, ~UploadsRun, ~cache'.beside
               PROVE  shown' = row.display_etag
    OBVIOUS
  <2>1. CASE ReadRow
    <3>1. NotModified /\ shown' = cache.body /\ cache' = cache
      BY <1>3, <2>1, ReadsOfTheRow DEF PhotoInv, ViewInv, Shows
    <3> QED
      BY <1>3, <3>1 DEF NotModified, ViewInv, CacheIsTrue
  <2>2. CASE GetObject
    <3>1. Asking /\ shown' = objects[view.key] /\ ~view.beside
      BY <1>3, <2>2, GetsOfTheObject DEF PhotoInv, ViewInv
    <3> QED
      BY <1>3, <3>1 DEF ViewInv, ReadIsTrue
  <2> QED
    BY <2>1, <2>2 DEF Shows
<1> QED
  BY <1>1, <1>2, <1>3, PTL DEF ViewsSpec, ShownIsWhatTheRowSays

\* Whatever a browser does with the photo, the photo goes on as in ProjectImages.
LEMMA ViewsLookOn ==
  ViewsSpec => Spec
<1>1. ViewsInit => Init
  BY DEF ViewsInit
<1>2. [ViewsNext]_<<vars, viewing>> => [Next]_vars
  BY DEF ViewsNext, ReadRow, GetObject, viewing
<1> QED
  BY <1>1, <1>2, PTL DEF ViewsSpec, Spec

\* A behaviour that is checked is one of PhotoViews: where nobody asks for the photo there is
\* no request, and what happens to the photo then touches none.
LEMMA CheckedBehaviours ==
  MCSpec => ViewsSpec
<1> DEFINE NobodyAsks == side # "views" => ~Asking
<1>1. MCInit => ViewsInit /\ NobodyAsks
  BY DEF MCInit, ViewsInit, Asking
<1>2. ASSUME NobodyAsks, [MCNext]_<<of_queue, vars, viewing, side>>
      PROVE  NobodyAsks' /\ [ViewsNext]_<<vars, viewing>>
  <2>1. CASE side = "queue" /\ UNCHANGED <<vars, viewing, side>>
    BY <1>2, <2>1 DEF Asking, viewing, NoView
  <2>2. CASE side = "image" /\ Next /\ UNCHANGED <<viewing, side>>
    <3>1. ~Asking /\ view' = view /\ UNCHANGED <<cache, shown, views>>
      BY <1>2, <2>2 DEF viewing
    <3>2. ~Asking'
      BY <3>1 DEF Asking, NoView
    <3> QED
      BY <2>2, <3>1, <3>2 DEF ViewsNext
  <2>3. CASE side = "views" /\ ViewsNext /\ side' = side
    BY <2>3
  <2>4. CASE UNCHANGED <<of_queue, vars, viewing, side>>
    BY <1>2, <2>4 DEF Asking, viewing, NoView
  <2> QED
    BY <1>2, <2>1, <2>2, <2>3, <2>4 DEF MCNext
<1> QED
  BY <1>1, <1>2, PTL DEF MCSpec, ViewsSpec

\* While nothing fails, a photo of one page that is quiet shows its strokes on all its files, whether
\* a browser looks on or not.
THEOREM QuietPhotosAreWhole == MCSpec => []QuietPhotoIsWhole
  BY CheckedBehaviours, ViewsLookOn, QuietIsWhole, OnePageAssumption, PTL

\* A photo of one page has its files, is found by a browser that asks for it, and is shown as its row
\* says; each within what may fail.
THEOREM PhotosAreFound == MCSpec => PhotosAreThere
<1>1. ViewsSpec => []FilesStayWhileConnected
  BY ViewsLookOn, FilesStay, OnePageAssumption, PTL
<1>2. ViewsSpec => RowsFilesAreFound /\ ShownIsWhatTheRowSays
  BY FilesAreFound, ShownIsTrue, OnePageAssumption, PTL
<1> QED
  BY <1>1, <1>2, CheckedBehaviours, PTL DEF PhotosAreThere
=============================================================================
