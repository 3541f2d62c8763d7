---------------------------- MODULE CameraService ----------------------------
(***************************************************************************)
(* The one camera of a page: the service that opens it for the photo       *)
(* cameras on screen, keeps it open between them, and closes it when it    *)
(* has not been used for five minutes, when the user is done, and while    *)
(* the page is hidden.                                                     *)
(*                                                                         *)
(* Opening takes two awaits, getUserMedia and then enumerateDevices, and   *)
(* anything may happen before each of them ends.  open_count tells an open *)
(* that the camera was stopped or opened again since; here fresh is the    *)
(* open for which this_open = open_count, 0 when there is none.  An open   *)
(* that is no longer fresh answers with latest_open, the promise of the    *)
(* newest open.  When that is its own promise, the promise is rejected.    *)
(*                                                                         *)
(* Abstractions.  Which device is opened, and the list of devices, are     *)
(* left out, but for whether there is one to choose from.                  *)
(***************************************************************************)
EXTENDS Integers, FiniteSets

CONSTANTS
  Cameras,    \* PhotoCamera components
  MaxOpens,   \* bound: calls of open()
  MaxStops    \* bound: times the page is hidden or the service closed

ASSUME CameraAssumption ==
  /\ IsFiniteSet(Cameras)
  /\ MaxOpens \in Nat
  /\ MaxStops \in Nat

VARIABLES
  active,
  consumers,
  stream,      \* the open whose stream the service holds, 0 for none
  live,        \* the opens whose streams are on
  opens,       \* opens[i]: how far the i-th open is
  latest_open, \* how many opens there were: the newest one
  fresh,
  idle_timer,  \* is it running?
  devices,     \* are there devices to choose from?
  hidden,      \* is the page hidden?
  mounted,     \* the cameras on screen
  waits,       \* waits[c]: the opens whose answers camera c awaits
  retry,       \* the cameras that show "Try again"
  stray,       \* the last open that a choice of device made while the service was closed
  stops

service == <<active, consumers, stream, live, opens, latest_open, fresh, idle_timer, devices, stray>>
vars == <<service, hidden, mounted, waits, retry, stops>>

Opens == 1 .. MaxOpens

\* asking: getUserMedia runs; listing: enumerateDevices runs; following: the answer is that
\* of the open follows.
Phases  == {"new", "asking", "listing", "following", "answered"}
Answers == {"none", "yes", "no", "rejected"}

NewOpen == [phase |-> "new", follows |-> 0, answer |-> "none"]

Answered(open, answer) == [open EXCEPT !.phase = "answered", !.answer = answer]

\* return latest_open
Follow(i) ==
  IF latest_open = i THEN Answered(opens[i], "rejected")
  ELSE [opens[i] EXCEPT !.phase = "following", !.follows = latest_open]

-----------------------------------------------------------------------------
(* stop_stream(), and open() up to its first await.                        *)

\* (a mistake) the tracks are not stopped
StopStreamLeavingItOn ==
  /\ stream' = 0
  /\ UNCHANGED live

StopStream ==
  /\ stream' = 0
  /\ live' = live \ {stream}

Open ==
  /\ latest_open < MaxOpens
  /\ latest_open' = latest_open + 1
  /\ opens' = [opens EXCEPT ![latest_open + 1].phase = "asking"]
  /\ fresh' = latest_open + 1
  /\ StopStream

\* getUserMedia answers with a stream.  If it is too late, its tracks are stopped at once.
Granted(i) ==
  /\ opens[i].phase = "asking"
  /\ IF fresh = i
     THEN /\ stream' = i
          /\ live' = live \cup {i}
          /\ opens' = [opens EXCEPT ![i].phase = "listing"]
     ELSE /\ opens' = [opens EXCEPT ![i] = Follow(i)]
          /\ UNCHANGED <<stream, live>>
  /\ UNCHANGED <<active, consumers, latest_open, fresh, idle_timer, devices, stray, hidden, mounted, waits, retry, stops>>

\* getUserMedia is refused, or enumerateDevices fails.
Fails(i) ==
  /\ opens[i].phase \in {"asking", "listing"}
  /\ opens' = [opens EXCEPT ![i] = IF fresh = i THEN Answered(opens[i], "no") ELSE Follow(i)]
  /\ UNCHANGED <<active, consumers, stream, live, latest_open, fresh, idle_timer, devices, stray, hidden, mounted, waits, retry, stops>>

Listed(i) ==
  /\ opens[i].phase = "listing"
  /\ opens' = [opens EXCEPT ![i] = Answered(opens[i], "yes")]
  /\ devices' = (devices \/ fresh = i)
  /\ UNCHANGED <<active, consumers, stream, live, latest_open, fresh, idle_timer, stray, hidden, mounted, waits, retry, stops>>

\* The open that i follows has answered.
Followed(i) ==
  /\ opens[i].phase = "following"
  /\ opens[opens[i].follows].phase = "answered"
  /\ opens' = [opens EXCEPT ![i] = Answered(opens[i], opens[opens[i].follows].answer)]
  /\ UNCHANGED <<active, consumers, stream, live, latest_open, fresh, idle_timer, devices, stray, hidden, mounted, waits, retry, stops>>

-----------------------------------------------------------------------------
(* activate(), close() and the page's visibility.                          *)

Activate == active' = TRUE /\ Open

Close ==
  /\ active
  /\ idle_timer' = (consumers # 0 /\ idle_timer)
  /\ active' = FALSE
  /\ StopStream
  /\ fresh' = 0
  /\ stops' = stops + 1
  /\ UNCHANGED <<consumers, opens, latest_open, devices, stray, hidden, mounted, waits, retry>>

\* close_if_active: the user is done with the estimate's photos, or leaves the page.
CloseIfActive == stops < MaxStops /\ Close

\* Five minutes have passed.  This close is not bounded.
IdleClose == idle_timer /\ Close

Hide ==
  /\ ~hidden
  /\ hidden' = TRUE
  /\ stops < MaxStops
  /\ stops' = stops + 1
  /\ IF active THEN StopStream /\ fresh' = 0 ELSE UNCHANGED <<stream, live, fresh>>
  /\ UNCHANGED <<active, consumers, opens, latest_open, idle_timer, devices, stray, mounted, waits, retry>>

Show ==
  /\ hidden
  /\ hidden' = FALSE
  /\ IF active THEN Open ELSE UNCHANGED <<stream, live, opens, latest_open, fresh>>
  /\ UNCHANGED <<active, consumers, idle_timer, devices, stray, mounted, waits, retry, stops>>

-----------------------------------------------------------------------------
(* A PhotoCamera on the page.                                              *)

Await(c, i) == waits' = [waits EXCEPT ![c] = @ \cup {i}]

\* onMount: start_using.
Mount(c) ==
  /\ c \notin mounted
  /\ mounted' = mounted \cup {c}
  /\ consumers' = consumers + 1
  /\ \/ /\ active
        /\ idle_timer' = (consumers # 0 /\ idle_timer)
        /\ Await(c, latest_open)
        /\ UNCHANGED <<active, stream, live, opens, latest_open, fresh>>
     \/ /\ ~active
        /\ Activate
        /\ Await(c, latest_open + 1)
        /\ UNCHANGED idle_timer
  /\ UNCHANGED <<devices, stray, hidden, retry, stops>>

\* (a mistake) nobody closes the camera
UnmountWithoutTimer(c) ==
  /\ c \in mounted
  /\ mounted' = mounted \ {c}
  /\ consumers' = consumers - 1
  /\ waits' = [waits EXCEPT ![c] = {}]
  /\ retry' = retry \ {c}
  /\ UNCHANGED <<active, stream, live, opens, latest_open, fresh, idle_timer, devices, stray, hidden, stops>>

\* The component is destroyed: stop_using.
Unmount(c) ==
  /\ c \in mounted
  /\ mounted' = mounted \ {c}
  /\ consumers' = consumers - 1
  /\ idle_timer' = (idle_timer \/ (active /\ consumers = 1))
  /\ waits' = [waits EXCEPT ![c] = {}]
  /\ retry' = retry \ {c}
  /\ UNCHANGED <<active, stream, live, opens, latest_open, fresh, devices, stray, hidden, stops>>

\* "Try again"
TryAgain(c) ==
  /\ c \in retry
  /\ IF active THEN Open /\ UNCHANGED active ELSE Activate
  /\ Await(c, latest_open + 1)
  /\ UNCHANGED <<consumers, idle_timer, devices, stray, hidden, mounted, retry, stops>>

\* Another device is chosen, perhaps after the service was closed.
SetDevice(c) ==
  /\ c \in mounted
  /\ devices
  /\ Open
  /\ Await(c, latest_open + 1)
  /\ stray' = IF active THEN stray ELSE latest_open + 1
  /\ UNCHANGED <<active, consumers, idle_timer, devices, hidden, mounted, retry, stops>>

\* note_result; a promise that is rejected notes nothing.
NoteResult(c, i) ==
  /\ i \in waits[c]
  /\ opens[i].phase = "answered"
  /\ waits' = [waits EXCEPT ![c] = @ \ {i}]
  /\ retry' = CASE opens[i].answer = "yes" -> retry \ {c}
                [] opens[i].answer = "no" -> retry \cup {c}
                [] OTHER -> retry
  /\ UNCHANGED <<service, hidden, mounted, stops>>

-----------------------------------------------------------------------------
Init ==
  /\ active = FALSE
  /\ consumers = 0
  /\ stream = 0
  /\ live = {}
  /\ opens = [i \in Opens |-> NewOpen]
  /\ latest_open = 0
  /\ fresh = 0
  /\ idle_timer = FALSE
  /\ devices = FALSE
  /\ hidden = FALSE
  /\ mounted = {}
  /\ waits = [c \in Cameras |-> {}]
  /\ retry = {}
  /\ stray = 0
  /\ stops = 0

Next ==
  \/ \E i \in Opens : Granted(i) \/ Fails(i) \/ Listed(i) \/ Followed(i)
  \/ CloseIfActive
  \/ IdleClose
  \/ Hide
  \/ Show
  \/ \E c \in Cameras :
       \/ Mount(c)
       \/ Unmount(c)
       \/ TryAgain(c)
       \/ SetDevice(c)
       \/ \E i \in Opens : NoteResult(c, i)

\* The timer fires, and a settled promise is heard of.  getUserMedia may wait for the
\* user's permission for ever.
Fairness ==
  /\ WF_vars(IdleClose)
  /\ \A i \in Opens : WF_vars(Followed(i))

Spec == Init /\ [][Next]_vars /\ Fairness

-----------------------------------------------------------------------------
TypeOK ==
  /\ active \in BOOLEAN
  /\ consumers = Cardinality(mounted)
  /\ stream \in 0 .. MaxOpens
  /\ live \subseteq Opens
  /\ opens \in [Opens -> [phase : Phases, follows : 0 .. MaxOpens, answer : Answers]]
  /\ latest_open \in 0 .. MaxOpens
  /\ fresh \in {0, latest_open}
  /\ idle_timer \in BOOLEAN
  /\ devices \in BOOLEAN
  /\ hidden \in BOOLEAN
  /\ mounted \subseteq Cameras
  /\ waits \in [Cameras -> SUBSET Opens]
  /\ retry \subseteq mounted
  /\ stray \in 0 .. MaxOpens
  /\ stops \in Nat

\* What clear_idle_timer and stop_using assert: the idle timer runs exactly while the
\* service is active with no consumers.
TimerRunsWhileUnused == idle_timer <=> active /\ consumers = 0

\* However opens overtake each other, the only stream that is on is the one the service
\* shows, so that stopping it turns the camera off.
OnlyTheShownStreamIsOn == live = {stream} \ {0}

\* A closed service shows no stream and no open will bring one, unless a camera still on
\* the screen chose another device after the service was closed.
ClosedMeansOff == ~active => {stream, fresh} \subseteq {0, stray}

\* Whoever waits for the camera gets an answer that is no rejection as long as the page was
\* not hidden and the service not closed meanwhile.
RejectedOnlyWhenStopped == stops = 0 => \A i \in Opens : opens[i].answer # "rejected"

\* The camera is turned off some time after the last photo camera has left the screen, but
\* for a stream that a device chosen after the service was closed has left on.
UnusedCameraGoesOff ==
  (consumers = 0 /\ stream # 0 /\ stream # stray) ~> (stream = 0 \/ consumers # 0)

=============================================================================
