------------------------------ MODULE SavedView ------------------------------
(***************************************************************************)
(* What a form that is saved promises its user, whatever it is made of:    *)
(* there is what the form shows, what the database stores, and at most one *)
(* save.  A save stores exactly what the form showed when it began, all of *)
(* it or nothing, and the edits made since are neither stored nor undone.  *)
(***************************************************************************)
CONSTANT Views  \* everything a form can show

VARIABLES
  shown,   \* what the form shows
  stored,  \* {} while nothing is stored, {v} once v is
  phase,   \* of the save: idle, running or answered
  sent     \* {v} while a running save will store v, {} otherwise

Init ==
  /\ shown \in Views
  /\ stored \in SUBSET Views
  /\ \A v, w \in stored : v = w
  /\ phase = "idle"
  /\ sent = {}

Edit == shown' \in Views /\ UNCHANGED <<stored, phase, sent>>

Begin ==
  /\ phase = "idle"
  /\ phase' = "running"
  /\ sent' = {shown}
  /\ UNCHANGED <<shown, stored>>

Store ==
  /\ phase = "running"
  /\ phase' = "answered"
  /\ stored' = sent
  /\ sent' = {}
  /\ UNCHANGED shown

Fail ==
  /\ phase = "running"
  /\ phase' = "idle"
  /\ sent' = {}
  /\ UNCHANGED <<shown, stored>>

\* The form goes on as it is, or it shows what is stored.
Finish ==
  /\ phase = "answered"
  /\ phase' = "idle"
  /\ UNCHANGED <<stored, sent>>
  /\ shown' = shown \/ {shown'} = stored

\* The form turns to something else, of which nothing is stored yet.
Turn ==
  /\ phase = "answered"
  /\ phase' = "idle"
  /\ stored' = {}
  /\ shown' \in Views
  /\ UNCHANGED sent

Next == Edit \/ Begin \/ Store \/ Fail \/ Finish \/ Turn

Spec == Init /\ [][Next]_<<shown, stored, phase, sent>>

=============================================================================
