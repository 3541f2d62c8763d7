------------------------- MODULE CameraServiceProofs -------------------------
(***************************************************************************)
(* The camera service keeps its promises for any number of cameras, opens, *)
(* and times the page is hidden.  Fairness plays no part: these are the    *)
(* safety properties of Spec.                                              *)
(***************************************************************************)
EXTENDS CameraService, FiniteSetTheorems, TLAPS

(* The strengthening: opens are numbered in the order in which they began, *)
(* a service that is active has begun one, and only a camera on screen     *)
(* waits for an answer.                                                    *)
OpensAreNumbered ==
  /\ \A i \in Opens : opens[i].phase # "new" => i <= latest_open
  /\ \A i \in Opens : opens[i].phase = "following" => opens[i].follows \in Opens
  /\ active => latest_open # 0

OnlyMountedWait == \A c \in Cameras : c \notin mounted => waits[c] = {}

(* The stream that is shown is that of the newest open, which has it.      *)
ShownIsFresh ==
  /\ stream \in {0, fresh}
  /\ stream # 0 => opens[stream].phase # "asking"

(* Only hiding the page or closing the service outdates the newest open.   *)
OnlyStopsOutdate == stops = 0 => fresh = latest_open

IInv == TypeOK /\ OpensAreNumbered /\ OnlyMountedWait

OpenRecords == [phase : Phases, follows : 0 .. MaxOpens, answer : Answers]

-----------------------------------------------------------------------------
LEMMA FollowIsTyped ==
  ASSUME CameraAssumption, IInv, NEW i \in Opens, opens[i].phase # "new"
  PROVE  /\ Follow(i) \in OpenRecords
         /\ Follow(i).phase \in {"following", "answered"}
         /\ Follow(i).phase = "following" => Follow(i).follows \in Opens
<1>1. opens[i] \in OpenRecords
  BY DEF IInv, TypeOK, OpenRecords
<1>2. latest_open \in Opens /\ latest_open \in 0 .. MaxOpens
  BY DEF IInv, TypeOK, OpensAreNumbered, CameraAssumption, Opens
<1>3. CASE latest_open = i
  BY <1>1, <1>3 DEF Follow, Answered, OpenRecords, Phases, Answers
<1>4. CASE latest_open # i
  <2>1. Follow(i) = [opens[i] EXCEPT !.phase = "following", !.follows = latest_open]
    BY <1>4 DEF Follow
  <2>2. Follow(i) \in OpenRecords
    BY <1>1, <1>2, <2>1 DEF OpenRecords, Phases
  <2>3. Follow(i).phase = "following" /\ Follow(i).follows = latest_open
    BY <1>1, <2>1 DEF OpenRecords
  <2> QED
    BY <1>2, <2>2, <2>3
<1> QED
  BY <1>3, <1>4

(* The part of the state that an open changes.                             *)
OpenTypes ==
  /\ stream \in 0 .. MaxOpens
  /\ live \subseteq Opens
  /\ opens \in [Opens -> OpenRecords]
  /\ latest_open \in 0 .. MaxOpens
  /\ fresh \in {0, latest_open}

(* The rest of it.                                                         *)
OtherTypes ==
  /\ active \in BOOLEAN
  /\ consumers = Cardinality(mounted)
  /\ idle_timer \in BOOLEAN
  /\ devices \in BOOLEAN
  /\ hidden \in BOOLEAN
  /\ mounted \subseteq Cameras
  /\ waits \in [Cameras -> SUBSET Opens]
  /\ retry \subseteq mounted
  /\ stray \in 0 .. MaxOpens
  /\ stops \in Nat

LEMMA TypesAreTwoParts == (TypeOK <=> OpenTypes /\ OtherTypes) /\ (TypeOK' <=> OpenTypes' /\ OtherTypes')
BY DEF TypeOK, OpenTypes, OtherTypes, OpenRecords

(* A new open.                                                             *)
LEMMA OpenIsTyped ==
  ASSUME CameraAssumption, IInv, Open
  PROVE  /\ opens' \in [Opens -> OpenRecords]
         /\ latest_open' \in Opens /\ latest_open' = latest_open + 1
         /\ OpenTypes'
         /\ \A i \in Opens : opens'[i].phase # "new" => i <= latest_open'
         /\ \A i \in Opens : opens'[i].phase = "following" => opens'[i].follows \in Opens
<1>1. latest_open + 1 \in Opens /\ latest_open \in Nat
  BY DEF IInv, TypeOK, Open, Opens, CameraAssumption
<1>2. opens \in [Opens -> OpenRecords]
  BY DEF IInv, TypeOK, OpenRecords
<1>3. opens' = [opens EXCEPT ![latest_open + 1].phase = "asking"]
  BY DEF Open
<1>4. opens' \in [Opens -> OpenRecords]
  BY <1>1, <1>2, <1>3 DEF OpenRecords, Phases
<1>5. /\ latest_open' = latest_open + 1 /\ fresh' = latest_open'
      /\ stream' = 0 /\ live' \subseteq Opens
  BY DEF Open, StopStream, IInv, TypeOK
<1>6. ASSUME NEW i \in Opens
      PROVE  /\ opens'[i].phase # "new" => i <= latest_open'
             /\ opens'[i].phase = "following" => opens'[i].follows \in Opens
  <2>1. CASE i = latest_open + 1
    BY <1>1, <1>2, <1>3, <1>5, <2>1 DEF OpenRecords
  <2>2. CASE i # latest_open + 1
    <3>1. opens'[i] = opens[i]
      BY <1>1, <1>2, <1>3, <2>2
    <3>2. i \in Nat
      BY DEF Opens
    <3> QED
      BY <1>1, <1>5, <3>1, <3>2 DEF IInv, OpensAreNumbered
  <2> QED
    BY <2>1, <2>2
<1>7. OpenTypes'
  BY <1>1, <1>4, <1>5 DEF OpenTypes, Opens, CameraAssumption
<1> QED
  BY <1>1, <1>4, <1>5, <1>6, <1>7

LEMMA InitInv == CameraAssumption /\ Init => IInv
<1> SUFFICES ASSUME CameraAssumption, Init
             PROVE  IInv
  OBVIOUS
<1>1. Cardinality({}) = 0
  BY FS_EmptySet
<1>2. opens \in [Opens -> [phase : Phases, follows : 0 .. MaxOpens, answer : Answers]]
  <2>1. NewOpen \in [phase : Phases, follows : 0 .. MaxOpens, answer : Answers]
    BY DEF NewOpen, Phases, Answers, CameraAssumption
  <2> QED
    BY <2>1 DEF Init
<1>3. TypeOK
  <2>1. consumers = Cardinality(mounted)
    BY <1>1, Zenon DEF Init
  <2>2. waits \in [Cameras -> SUBSET Opens]
    BY DEF Init
  <2>3. active \in BOOLEAN /\ idle_timer \in BOOLEAN /\ devices \in BOOLEAN /\ hidden \in BOOLEAN
    BY Zenon DEF Init
  <2>4. /\ stream = 0 /\ live = {} /\ latest_open = 0 /\ fresh = 0 /\ mounted = {} /\ retry = {} /\ stray = 0 /\ stops = 0
    BY DEF Init
  <2> QED
    BY <1>2, <2>1, <2>2, <2>3, <2>4 DEF TypeOK, CameraAssumption
<1>4. OpensAreNumbered
  BY DEF Init, OpensAreNumbered, NewOpen
<1>5. OnlyMountedWait
  BY DEF Init, OnlyMountedWait
<1> QED
  BY <1>4, <1>3, <1>5 DEF IInv

(* An open goes on: only its own entry changes, and only forward.          *)
LEMMA OpenGoesOnInv ==
  ASSUME CameraAssumption, IInv, NEW i \in Opens,
         Granted(i) \/ Fails(i) \/ Listed(i) \/ Followed(i)
  PROVE  IInv'
<1>1. /\ opens[i].phase # "new"
      /\ opens \in [Opens -> OpenRecords]
      /\ i <= latest_open
  BY DEF Granted, Fails, Listed, Followed, IInv, TypeOK, OpenRecords, OpensAreNumbered
<1>2. \E o \in OpenRecords :
        /\ opens' = [opens EXCEPT ![i] = o]
        /\ o.phase = "following" => o.follows \in Opens
  <2>1. CASE Granted(i)
    <3>1. CASE fresh = i
      <4> DEFINE o == [opens[i] EXCEPT !.phase = "listing"]
      <4>1. o \in OpenRecords /\ o.phase = "listing"
        BY <1>1 DEF OpenRecords, Phases
      <4>2. opens' = [opens EXCEPT ![i] = o]
        BY <1>1, <2>1, <3>1 DEF Granted, OpenRecords
      <4> QED
        BY <4>1, <4>2
    <3>2. CASE fresh # i
      BY <1>1, <2>1, <3>2, FollowIsTyped DEF Granted
    <3> QED
      BY <3>1, <3>2
  <2>2. CASE Fails(i)
    <3>1. CASE fresh = i
      <4>1. Answered(opens[i], "no") \in OpenRecords /\ Answered(opens[i], "no").phase = "answered"
        BY <1>1 DEF Answered, OpenRecords, Phases, Answers
      <4> QED
        BY <2>2, <3>1, <4>1 DEF Fails
    <3>2. CASE fresh # i
      BY <1>1, <2>2, <3>2, FollowIsTyped DEF Fails
    <3> QED
      BY <3>1, <3>2
  <2>3. CASE Listed(i)
    <3>1. Answered(opens[i], "yes") \in OpenRecords /\ Answered(opens[i], "yes").phase = "answered"
      BY <1>1 DEF Answered, OpenRecords, Phases, Answers
    <3> QED
      BY <2>3, <3>1 DEF Listed
  <2>4. CASE Followed(i)
    <3> DEFINE answer == opens[opens[i].follows].answer
    <3>1. opens[i].follows \in Opens
      BY <2>4 DEF Followed, IInv, OpensAreNumbered
    <3>2. answer \in Answers
      BY <1>1, <3>1 DEF OpenRecords
    <3>3. Answered(opens[i], answer) \in OpenRecords /\ Answered(opens[i], answer).phase = "answered"
      <4> HIDE DEF answer
      <4> QED
        BY <1>1, <3>2 DEF Answered, OpenRecords, Phases
    <3>4. opens' = [opens EXCEPT ![i] = Answered(opens[i], answer)]
      BY <2>4 DEF Followed
    <3> QED
      BY <3>3, <3>4
  <2> QED
    BY <2>1, <2>2, <2>3, <2>4
<1>3. /\ opens' \in [Opens -> OpenRecords]
      /\ OpensAreNumbered'
  <2> PICK o \in OpenRecords :
        /\ opens' = [opens EXCEPT ![i] = o]
        /\ o.phase = "following" => o.follows \in Opens
    BY <1>2
  <2>1. UNCHANGED <<latest_open, active>>
    BY DEF Granted, Fails, Listed, Followed
  <2>2. \A j \in Opens : opens'[j] = IF j = i THEN o ELSE opens[j]
    BY <1>1
  <2> QED
    BY <1>1, <2>1, <2>2 DEF IInv, OpensAreNumbered
<1>4. /\ UNCHANGED <<active, consumers, latest_open, fresh, idle_timer, stray, hidden, mounted, waits, retry, stops>>
      /\ stream' \in {stream, i} /\ live' \subseteq live \cup {i}
  BY DEF Granted, Fails, Listed, Followed
<1>5. stream' \in 0 .. MaxOpens /\ live' \subseteq Opens
  BY <1>4 DEF IInv, TypeOK, Opens
<1>6. devices' \in BOOLEAN
  BY Zenon DEF Granted, Fails, Listed, Followed, IInv, TypeOK
<1> QED
  BY <1>3, <1>4, <1>5, <1>6 DEF IInv, TypeOK, OpenRecords, OnlyMountedWait

(* The service is closed, or the page hidden or shown.                     *)
LEMMA VisibilityInv ==
  ASSUME CameraAssumption, IInv, CloseIfActive \/ IdleClose \/ Hide \/ Show
  PROVE  IInv'
<1>1. CASE CloseIfActive \/ IdleClose
  <2>1. /\ ~active' /\ fresh' = 0 /\ stream' = 0 /\ live' \subseteq Opens
        /\ stops' = stops + 1
        /\ UNCHANGED <<consumers, opens, latest_open, devices, stray, hidden, mounted, waits, retry>>
    BY <1>1 DEF CloseIfActive, IdleClose, Close, StopStream, IInv, TypeOK
  <2>2. idle_timer' \in BOOLEAN /\ active' \in BOOLEAN
    BY <1>1, Zenon DEF CloseIfActive, IdleClose, Close
  <2>3. TypeOK'
    BY <2>1, <2>2 DEF IInv, TypeOK, CameraAssumption
  <2>4. OpensAreNumbered' /\ OnlyMountedWait'
    BY <2>1 DEF IInv, OpensAreNumbered, OnlyMountedWait
  <2> QED
    BY <2>3, <2>4 DEF IInv
<1>2. CASE Hide
  <2>1. /\ fresh' \in {0, fresh} /\ stream' \in {0, stream} /\ live' \subseteq Opens /\ stops' \in Nat /\ hidden' \in BOOLEAN
        /\ UNCHANGED <<active, consumers, opens, latest_open, idle_timer, devices, stray, mounted, waits, retry>>
    BY <1>2 DEF Hide, StopStream, IInv, TypeOK
  <2> QED
    BY <2>1 DEF IInv, TypeOK, OpensAreNumbered, OnlyMountedWait, CameraAssumption
<1>3. CASE Show
  <2>1. /\ hidden' \in BOOLEAN
        /\ UNCHANGED <<active, consumers, idle_timer, devices, stray, mounted, waits, retry, stops>>
    BY <1>3 DEF Show
  <2>2. CASE active
    <3>1. Open
      BY <1>3, <2>2 DEF Show
    <3>2. TypeOK'
      <4>1. OtherTypes
        BY TypesAreTwoParts DEF IInv
      <4>2. OtherTypes'
        BY <2>1, <4>1 DEF OtherTypes
      <4> QED
        BY <3>1, <4>2, OpenIsTyped, TypesAreTwoParts
    <3>3. OpensAreNumbered' /\ OnlyMountedWait'
      BY <2>1, <3>1, OpenIsTyped DEF IInv, OnlyMountedWait, OpensAreNumbered, Opens
    <3> QED
      BY <3>2, <3>3 DEF IInv
  <2>3. CASE ~active
    BY <1>3, <2>1, <2>3 DEF Show, IInv, TypeOK, OpensAreNumbered, OnlyMountedWait
  <2> QED
    BY <2>2, <2>3
<1> QED
  BY <1>1, <1>2, <1>3

(* The cameras on screen are finitely many, so that they can be counted.   *)
LEMMA MountedIsFinite ==
  ASSUME CameraAssumption, IInv
  PROVE  IsFiniteSet(mounted) /\ consumers \in Nat /\ (consumers = 0 <=> mounted = {})
<1>1. IsFiniteSet(mounted)
  BY FS_Subset DEF CameraAssumption, IInv, TypeOK
<1> QED
  BY <1>1, FS_CardinalityType, FS_EmptySet DEF IInv, TypeOK

LEMMA AwaitIsTyped ==
  ASSUME IInv, NEW c \in Cameras, NEW i \in Opens, Await(c, i)
  PROVE  /\ waits' \in [Cameras -> SUBSET Opens]
         /\ c \in mounted' /\ mounted \subseteq mounted' => OnlyMountedWait'
<1>1. waits \in [Cameras -> SUBSET Opens] /\ waits' = [waits EXCEPT ![c] = waits[c] \cup {i}]
  BY DEF IInv, TypeOK, Await
<1>2. \A d \in Cameras : waits'[d] = IF d = c THEN waits[c] \cup {i} ELSE waits[d]
  BY <1>1
<1> QED
  BY <1>1, <1>2 DEF IInv, OnlyMountedWait

(* A camera comes, leaves, tries again, chooses a device or gets an answer. *)
LEMMA CameraInv ==
  ASSUME CameraAssumption, IInv, NEW c \in Cameras,
         \/ Mount(c) \/ Unmount(c) \/ TryAgain(c) \/ SetDevice(c)
         \/ \E i \in Opens : NoteResult(c, i)
  PROVE  IInv'
<1>1. CASE Mount(c)
  <2>1. /\ mounted' \subseteq Cameras /\ consumers' = Cardinality(mounted') /\ retry' \subseteq mounted'
        /\ mounted' = mounted \cup {c}
        /\ UNCHANGED <<devices, stray, hidden, stops>>
    BY <1>1, MountedIsFinite, FS_AddElement DEF Mount, IInv, TypeOK
  <2>2. CASE active
    <3>1. latest_open \in Opens
      BY <2>2 DEF IInv, TypeOK, OpensAreNumbered, OnlyMountedWait, Opens, CameraAssumption
    <3>2. /\ Await(c, latest_open)
          /\ idle_timer' = (consumers # 0 /\ idle_timer)
          /\ UNCHANGED <<active, stream, live, opens, latest_open, fresh>>
      BY <1>1, <2>2, Zenon DEF Mount, Activate
    <3>3. waits' \in [Cameras -> SUBSET Opens] /\ OnlyMountedWait'
      BY <2>1, <3>1, <3>2, AwaitIsTyped
    <3>4. idle_timer' \in BOOLEAN
      BY <3>2, Zenon
    <3> QED
      BY <2>1, <3>2, <3>3, <3>4 DEF IInv, TypeOK, OpensAreNumbered, OnlyMountedWait
  <2>3. CASE ~active
    <3>1. Open /\ active' = TRUE /\ Await(c, latest_open + 1) /\ UNCHANGED idle_timer
      BY <1>1, <2>3 DEF Mount, Activate
    <3>2. waits' \in [Cameras -> SUBSET Opens] /\ OnlyMountedWait'
      BY <2>1, <3>1, OpenIsTyped, AwaitIsTyped
    <3>3. active' \in BOOLEAN /\ idle_timer' \in BOOLEAN
      BY <3>1, Zenon DEF IInv, TypeOK
    <3>4. TypeOK'
      <4>1. OtherTypes
        BY TypesAreTwoParts DEF IInv
      <4>2. OtherTypes'
        BY <2>1, <3>2, <3>3, <4>1 DEF OtherTypes
      <4> QED
        BY <3>1, <4>2, OpenIsTyped, TypesAreTwoParts
    <3>5. OpensAreNumbered'
      BY <3>1, OpenIsTyped DEF OpensAreNumbered, Opens
    <3> QED
      BY <3>2, <3>4, <3>5 DEF IInv
  <2> QED
    BY <2>2, <2>3
<1>2. CASE Unmount(c)
  <2>1. /\ mounted' \subseteq Cameras /\ consumers' = Cardinality(mounted') /\ retry' \subseteq mounted'
    BY <1>2, MountedIsFinite, FS_RemoveElement DEF Unmount, IInv, TypeOK
  <2>2. /\ waits' = [waits EXCEPT ![c] = {}] /\ mounted' = mounted \ {c}
        /\ UNCHANGED <<active, stream, live, opens, latest_open, fresh, devices, stray, hidden, stops>>
    BY <1>2 DEF Unmount
  <2>3. waits' \in [Cameras -> SUBSET Opens] /\ OnlyMountedWait'
    <3>1. waits \in [Cameras -> SUBSET Opens]
      BY DEF IInv, TypeOK
    <3>2. \A d \in Cameras : waits'[d] = IF d = c THEN {} ELSE waits[d]
      BY <2>2, <3>1
    <3> QED
      BY <2>2, <3>1, <3>2 DEF IInv, OnlyMountedWait
  <2>4. idle_timer' \in BOOLEAN
    BY <1>2, Zenon DEF Unmount
  <2> QED
    BY <2>1, <2>2, <2>3, <2>4 DEF IInv, TypeOK, OpensAreNumbered, OnlyMountedWait
<1>3. CASE TryAgain(c)
  <2>1. /\ Open /\ Await(c, latest_open + 1) /\ active' \in BOOLEAN /\ c \in mounted'
        /\ UNCHANGED <<consumers, idle_timer, devices, stray, hidden, mounted, retry, stops>>
    BY <1>3, Zenon DEF TryAgain, Activate, IInv, TypeOK
  <2>2. waits' \in [Cameras -> SUBSET Opens] /\ OnlyMountedWait'
    BY <2>1, OpenIsTyped, AwaitIsTyped
  <2>3. TypeOK'
    <3>1. OtherTypes
      BY TypesAreTwoParts DEF IInv
    <3>2. OtherTypes'
      BY <2>1, <2>2, <3>1 DEF OtherTypes
    <3> QED
      BY <2>1, <3>2, OpenIsTyped, TypesAreTwoParts
  <2>4. OpensAreNumbered'
    BY <2>1, OpenIsTyped DEF OpensAreNumbered, Opens
  <2> QED
    BY <2>2, <2>3, <2>4 DEF IInv
<1>4. CASE SetDevice(c)
  <2>1. /\ Open /\ Await(c, latest_open + 1) /\ stray' \in {stray, latest_open + 1} /\ c \in mounted'
        /\ UNCHANGED <<active, consumers, idle_timer, devices, hidden, mounted, retry, stops>>
    BY <1>4 DEF SetDevice
  <2>2. waits' \in [Cameras -> SUBSET Opens] /\ OnlyMountedWait'
    BY <2>1, OpenIsTyped, AwaitIsTyped
  <2>3. stray' \in 0 .. MaxOpens
    <3>1. latest_open + 1 \in Opens
      BY <2>1, OpenIsTyped
    <3> QED
      BY <2>1, <3>1 DEF IInv, TypeOK, Opens
  <2>4. TypeOK'
    <3>1. OtherTypes
      BY TypesAreTwoParts DEF IInv
    <3>2. OtherTypes'
      BY <2>1, <2>2, <2>3, <3>1 DEF OtherTypes
    <3> QED
      BY <2>1, <3>2, OpenIsTyped, TypesAreTwoParts
  <2>5. OpensAreNumbered'
    BY <2>1, OpenIsTyped DEF OpensAreNumbered, Opens
  <2> QED
    BY <2>2, <2>4, <2>5 DEF IInv
<1>5. CASE \E i \in Opens : NoteResult(c, i)
  <2>1. PICK i \in Opens : NoteResult(c, i)
    BY <1>5
  <2>2. c \in mounted
    BY <2>1 DEF NoteResult, IInv, OnlyMountedWait
  <2>3. /\ waits' = [waits EXCEPT ![c] = waits[c] \ {i}] /\ retry' \subseteq retry \cup {c}
        /\ UNCHANGED <<service, hidden, mounted, stops>>
    BY <2>1 DEF NoteResult
  <2>4. waits' \in [Cameras -> SUBSET Opens] /\ OnlyMountedWait'
    <3>1. waits \in [Cameras -> SUBSET Opens]
      BY DEF IInv, TypeOK
    <3>2. \A d \in Cameras : waits'[d] = IF d = c THEN waits[c] \ {i} ELSE waits[d]
      BY <2>3, <3>1
    <3> QED
      BY <2>2, <2>3, <3>1, <3>2 DEF IInv, OnlyMountedWait
  <2> QED
    BY <2>2, <2>3, <2>4 DEF service, IInv, TypeOK, OpensAreNumbered, OnlyMountedWait
<1> QED
  BY <1>1, <1>2, <1>3, <1>4, <1>5

LEMMA InductiveStep == CameraAssumption /\ IInv /\ [Next]_vars => IInv'
<1> SUFFICES ASSUME CameraAssumption, IInv, [Next]_vars
             PROVE  IInv'
  OBVIOUS
<1>1. CASE UNCHANGED vars
  BY <1>1 DEF vars, service, IInv, TypeOK, OpensAreNumbered, OnlyMountedWait
<1>2. CASE \E i \in Opens : Granted(i) \/ Fails(i) \/ Listed(i) \/ Followed(i)
  BY <1>2, OpenGoesOnInv
<1>3. CASE CloseIfActive \/ IdleClose \/ Hide \/ Show
  BY <1>3, VisibilityInv
<1>4. CASE \E c \in Cameras : \/ Mount(c) \/ Unmount(c) \/ TryAgain(c) \/ SetDevice(c)
                             \/ \E i \in Opens : NoteResult(c, i)
  BY <1>4, CameraInv
<1> QED
  BY <1>1, <1>2, <1>3, <1>4 DEF Next

LEMMA Inductive == Spec => []IInv
<1> USE CameraAssumption
<1>1. Init => IInv
  BY InitInv
<1>2. IInv /\ [Next]_vars => IInv'
  BY InductiveStep
<1> QED
  BY <1>1, <1>2, PTL DEF Spec

-----------------------------------------------------------------------------
(* The state keeps its types, and consumers counts the cameras on screen.  *)
THEOREM TypeCorrect == Spec => []TypeOK
<1>1. IInv => TypeOK
  BY DEF IInv
<1> QED
  BY <1>1, Inductive, PTL

(* The idle timer runs exactly while the service is active and nobody uses *)
(* it, so that none of the assertions about it ever fails.                 *)
THEOREM TimerIsRight == Spec => []TimerRunsWhileUnused
<1> USE CameraAssumption
<1>1. Init => TimerRunsWhileUnused
  BY DEF Init, TimerRunsWhileUnused
<1>2. IInv /\ TimerRunsWhileUnused /\ [Next]_vars => TimerRunsWhileUnused'
  <2> SUFFICES ASSUME IInv, TimerRunsWhileUnused, [Next]_vars
               PROVE  TimerRunsWhileUnused'
    OBVIOUS
  <2> USE DEF TimerRunsWhileUnused
  <2>1. CASE UNCHANGED vars
    BY <2>1 DEF vars, service
  <2>2. CASE \E i \in Opens : Granted(i) \/ Fails(i) \/ Listed(i) \/ Followed(i)
    BY <2>2 DEF Granted, Fails, Listed, Followed
  <2>3. CASE CloseIfActive \/ IdleClose
    <3>1. ~active' /\ (idle_timer' <=> consumers # 0 /\ idle_timer)
      BY <2>3, Zenon DEF CloseIfActive, IdleClose, Close
    <3> QED
      BY <3>1
  <2>4. CASE Hide \/ Show
    BY <2>4 DEF Hide, Show
  <2>5. ASSUME NEW c \in Cameras, Mount(c)
        PROVE  TimerRunsWhileUnused'
    <3>1. consumers' = consumers + 1 /\ consumers' # 0
      BY <2>5, MountedIsFinite DEF Mount
    <3>2. CASE active
      <4>1. idle_timer' <=> consumers # 0 /\ idle_timer
        BY <2>5, <3>2, Zenon DEF Mount, Activate
      <4> QED
        BY <3>1, <4>1
    <3>3. CASE ~active
      <4>1. UNCHANGED idle_timer
        BY <2>5, <3>3, Zenon DEF Mount
      <4> QED
        BY <3>1, <3>3, <4>1
    <3> QED
      BY <3>2, <3>3
  <2>6. ASSUME NEW c \in Cameras, Unmount(c)
        PROVE  TimerRunsWhileUnused'
    <3>1. /\ consumers' = consumers - 1
          /\ UNCHANGED active
          /\ idle_timer' <=> idle_timer \/ (active /\ consumers = 1)
      BY <2>6, Zenon DEF Unmount
    <3>2. consumers \in Nat /\ consumers # 0
      BY <2>6, MountedIsFinite DEF Unmount
    <3> QED
      BY <3>1, <3>2
  <2>7. ASSUME NEW c \in Cameras, TryAgain(c)
        PROVE  TimerRunsWhileUnused'
    <3>1. consumers # 0
      BY <2>7, MountedIsFinite DEF TryAgain, IInv, TypeOK
    <3>2. UNCHANGED <<consumers, idle_timer>>
      BY <2>7 DEF TryAgain
    <3> QED
      BY <3>1, <3>2
  <2>8. ASSUME NEW c \in Cameras, SetDevice(c) \/ \E i \in Opens : NoteResult(c, i)
        PROVE  TimerRunsWhileUnused'
    BY <2>8 DEF SetDevice, NoteResult, service
  <2> QED
    BY <2>1, <2>2, <2>3, <2>4, <2>5, <2>6, <2>7, <2>8 DEF Next
<1> QED
  BY <1>1, <1>2, Inductive, PTL DEF Spec


(* Only the stream that is shown is on.  When getUserMedia answers the     *)
(* newest open there is no stream on, because the shown one could only be  *)
(* that of the same open, which was still asking.                          *)
THEOREM OneStream == Spec => []OnlyTheShownStreamIsOn
<1> DEFINE J == OnlyTheShownStreamIsOn /\ ShownIsFresh
<1> USE CameraAssumption
<1>1. Init => J
  BY DEF Init, OnlyTheShownStreamIsOn, ShownIsFresh
<1>2. IInv /\ J /\ [Next]_vars => J'
  <2> SUFFICES ASSUME IInv, J, [Next]_vars
               PROVE  J'
    OBVIOUS
  <2> USE DEF OnlyTheShownStreamIsOn, ShownIsFresh
  <2>1. ASSUME StopStream PROVE J'
    BY <2>1 DEF StopStream
  <2>2. ASSUME UNCHANGED <<stream, live, opens, fresh>> PROVE J'
    BY <2>2
  <2>3. ASSUME NEW i \in Opens, Granted(i) \/ Fails(i) \/ Listed(i) \/ Followed(i)
        PROVE  J'
    <3>1. /\ opens \in [Opens -> OpenRecords] /\ opens[i].phase # "new"
          /\ UNCHANGED fresh /\ i # 0
          /\ stream \in 0 .. MaxOpens
      BY <2>3 DEF IInv, TypeOK, OpenRecords, Granted, Fails, Listed, Followed, Opens
    <3>2. \E o : opens' = [opens EXCEPT ![i] = o] /\ o.phase # "asking"
      <4>1. CASE Granted(i)
        <5>1. [opens[i] EXCEPT !.phase = "listing"].phase # "asking"
          BY <3>1 DEF OpenRecords
        <5> QED
          BY <3>1, <4>1, <5>1, FollowIsTyped DEF Granted
      <4>2. \A a : Answered(opens[i], a).phase # "asking"
        BY <3>1 DEF Answered, OpenRecords
      <4>3. CASE Fails(i)
        BY <3>1, <4>2, <4>3, FollowIsTyped DEF Fails
      <4>4. CASE Listed(i) \/ Followed(i)
        BY <4>2, <4>4 DEF Listed, Followed
      <4> QED
        BY <2>3, <4>1, <4>3, <4>4
    <3>3. opens'[i].phase # "asking" /\ \A k \in Opens : k # i => opens'[k] = opens[k]
      BY <3>1, <3>2
    <3>4. CASE UNCHANGED <<stream, live>>
      BY <3>1, <3>3, <3>4 DEF Opens
    <3>5. CASE ~UNCHANGED <<stream, live>>
      <4>1. /\ opens[i].phase = "asking" /\ fresh = i
            /\ stream' = i /\ live' = live \cup {i}
        BY <2>3, <3>5 DEF Granted, Fails, Listed, Followed
      <4>2. live = {}
        BY <4>1
      <4> QED
        BY <3>1, <3>3, <4>1, <4>2
    <3> QED
      BY <3>4, <3>5
  <2>4. ASSUME NEW c \in Cameras,
               Mount(c) \/ Unmount(c) \/ TryAgain(c) \/ SetDevice(c) \/ \E i \in Opens : NoteResult(c, i)
        PROVE  J'
    BY <2>1, <2>2, <2>4, Zenon DEF Mount, Unmount, TryAgain, SetDevice, NoteResult, service, Activate, Open
  <2>5. CASE CloseIfActive \/ IdleClose
    BY <2>1, <2>5, Zenon DEF CloseIfActive, IdleClose, Close
  <2>6. CASE Hide \/ Show
    BY <2>1, <2>2, <2>6 DEF Hide, Show, Open
  <2>7. CASE UNCHANGED vars
    BY <2>2, <2>7 DEF vars, service
  <2> QED
    BY <2>3, <2>4, <2>5, <2>6, <2>7 DEF Next
<1> QED
  BY <1>1, <1>2, Inductive, PTL DEF Spec

(* A closed service shows no stream and expects none, but for the one that *)
(* a device chosen after it was closed has brought.                        *)
THEOREM ClosedIsOff == Spec => []ClosedMeansOff
<1> USE DEF ClosedMeansOff
<1>1. Init => ClosedMeansOff
  BY DEF Init
<1>2. IInv /\ ClosedMeansOff /\ [Next]_vars => ClosedMeansOff'
  <2> SUFFICES ASSUME IInv, ClosedMeansOff, [Next]_vars
               PROVE  ClosedMeansOff'
    OBVIOUS
  <2>1. ASSUME UNCHANGED <<active, stream, fresh, stray>> PROVE ClosedMeansOff'
    BY <2>1
  <2>2. CASE \E i \in Opens : Granted(i) \/ Fails(i) \/ Listed(i) \/ Followed(i)
    BY <2>2 DEF Granted, Fails, Listed, Followed
  <2>3. CASE CloseIfActive \/ IdleClose
    BY <2>3 DEF CloseIfActive, IdleClose, Close, StopStream
  <2>4. CASE Hide \/ Show
    BY <2>4 DEF Hide, Show, StopStream
  <2>5. ASSUME NEW c \in Cameras, Mount(c) \/ Unmount(c) \/ TryAgain(c)
        PROVE  ClosedMeansOff'
    <3>1. CASE active'
      BY <3>1
    <3>2. CASE ~active'
      <4>1. Unmount(c)
        BY <2>5, <3>2, Zenon DEF Mount, TryAgain, Activate
      <4> QED
        BY <2>1, <4>1 DEF Unmount
    <3> QED
      BY <3>1, <3>2
  <2>6. ASSUME NEW c \in Cameras, SetDevice(c)
        PROVE  ClosedMeansOff'
    BY <2>6 DEF SetDevice, Open, StopStream
  <2>7. ASSUME NEW c \in Cameras, NEW i \in Opens, NoteResult(c, i)
        PROVE  ClosedMeansOff'
    BY <2>1, <2>7 DEF NoteResult, service
  <2>8. CASE UNCHANGED vars
    BY <2>1, <2>8 DEF vars, service
  <2> QED
    BY <2>2, <2>3, <2>4, <2>5, <2>6, <2>7, <2>8 DEF Next
<1> QED
  BY <1>1, <1>2, Inductive, PTL DEF Spec

(* While nothing has stopped the camera, the newest open is fresh, so that *)
(* an overtaken one always finds another to answer for it.                 *)
THEOREM NobodyIsRejected == Spec => []RejectedOnlyWhenStopped
<1> DEFINE J == RejectedOnlyWhenStopped /\ OnlyStopsOutdate
<1> USE CameraAssumption
<1>1. Init => J
  BY DEF Init, RejectedOnlyWhenStopped, OnlyStopsOutdate, NewOpen
<1>2. IInv /\ J /\ [Next]_vars => J'
  <2> SUFFICES ASSUME IInv, J, [Next]_vars, stops' = 0
               PROVE  fresh' = latest_open' /\ \A k \in Opens : opens'[k].answer # "rejected"
    BY DEF RejectedOnlyWhenStopped, OnlyStopsOutdate
  <2>1. /\ stops \in Nat
        /\ opens \in [Opens -> OpenRecords]
    BY DEF IInv, TypeOK, OpenRecords
  <2>2. CASE stops' = stops + 1
    BY <2>1, <2>2
  <2>3. CASE UNCHANGED stops
    <3>1. fresh = latest_open /\ \A k \in Opens : opens[k].answer # "rejected"
      BY <2>3 DEF RejectedOnlyWhenStopped, OnlyStopsOutdate
    <3>2. CASE UNCHANGED <<opens, fresh, latest_open>>
      BY <3>1, <3>2
    <3>3. CASE Open
      <4>1. latest_open + 1 \in Opens
        BY <3>3, OpenIsTyped DEF Open
      <4>2. [opens[latest_open + 1] EXCEPT !.phase = "asking"].answer = opens[latest_open + 1].answer
        BY <2>1, <4>1 DEF OpenRecords
      <4> QED
        BY <2>1, <3>1, <3>3, <4>1, <4>2 DEF Open
    <3>4. ASSUME NEW i \in Opens, Granted(i) \/ Fails(i) \/ Listed(i) \/ Followed(i)
          PROVE  fresh' = latest_open' /\ \A k \in Opens : opens'[k].answer # "rejected"
      <4>1. UNCHANGED <<fresh, latest_open>> /\ opens[i] \in OpenRecords /\ opens[i].phase # "new"
        BY <2>1, <3>4 DEF Granted, Fails, Listed, Followed
      <4>2. fresh # i => Follow(i).answer # "rejected"
        BY <3>1, <4>1 DEF Follow, OpenRecords
      <4>3. \A a : a # "rejected" => Answered(opens[i], a).answer # "rejected"
        BY <4>1 DEF Answered, OpenRecords
      <4>4. [opens[i] EXCEPT !.phase = "listing"].answer # "rejected"
        BY <3>1, <4>1 DEF OpenRecords
      <4>5. \E o : opens' = [opens EXCEPT ![i] = o] /\ o.answer # "rejected"
        <5>1. CASE Granted(i)
          BY <4>2, <4>4, <5>1 DEF Granted
        <5>2. CASE Fails(i)
          BY <4>2, <4>3, <5>2 DEF Fails
        <5>3. CASE Listed(i)
          BY <4>3, <5>3 DEF Listed
        <5>4. CASE Followed(i)
          <6>1. opens[i].follows \in Opens
            BY <5>4 DEF Followed, IInv, OpensAreNumbered
          <6> QED
            BY <3>1, <4>3, <5>4, <6>1 DEF Followed
        <5> QED
          BY <3>4, <5>1, <5>2, <5>3, <5>4
      <4> QED
        BY <2>1, <3>1, <4>1, <4>5
    <3>5. CASE Hide \/ Show
      BY <2>1, <2>3, <3>2, <3>3, <3>5 DEF Hide, Show
    <3>6. CASE CloseIfActive \/ IdleClose
      BY <2>1, <2>3, <3>6 DEF CloseIfActive, IdleClose, Close
    <3>7. ASSUME NEW c \in Cameras,
                 Mount(c) \/ Unmount(c) \/ TryAgain(c) \/ SetDevice(c) \/ \E i \in Opens : NoteResult(c, i)
          PROVE  fresh' = latest_open' /\ \A k \in Opens : opens'[k].answer # "rejected"
      BY <3>2, <3>3, <3>7, Zenon DEF Mount, Unmount, TryAgain, SetDevice, NoteResult, service, Activate
    <3>8. CASE UNCHANGED vars
      BY <3>2, <3>8 DEF vars, service
    <3> QED
      BY <3>4, <3>5, <3>6, <3>7, <3>8 DEF Next
  <2>4. stops' = stops + 1 \/ UNCHANGED stops
    BY Zenon DEF Next, vars, service, Granted, Fails, Listed, Followed, CloseIfActive, IdleClose, Close, Hide, Show,
       Mount, Unmount, TryAgain, SetDevice, NoteResult
  <2> QED
    BY <2>2, <2>3, <2>4
<1> QED
  BY <1>1, <1>2, Inductive, PTL DEF Spec

=============================================================================
