---------------------------- MODULE NumberField ----------------------------
(***************************************************************************)
(* The fields for numbers, IntegerInput.svelte and NumberInput.svelte: the  *)
(* text of the browser's input and the value that the form holds.  A number *)
(* is counted in half steps, so that an odd one lies between two steps.     *)
(* What is no number at all is the empty text to the browser.               *)
(***************************************************************************)
EXTENDS Integers

CONSTANTS
    Fields,    \* [kind, nullable, min]: kind is "integer" or "number"; there is no field with a max
    Numbers,   \* what may be typed
    Empty,     \* the empty text, and the value null
    MaxInputs  \* bound on what happens in a behaviour
\* Assumed by the module that gives the constants their values: the code asserts that the limit of a
\* field for integers is one, and a field for other numbers takes zero.
FieldAssumption ==
    /\ Numbers \subseteq Int /\ Empty \notin Int
    /\ \A f \in Fields :
        /\ f.kind = "integer" => f.min \in Numbers /\ f.min % 2 = 0
        /\ f.kind # "integer" => 0 \in Numbers /\ 0 >= f.min

VARIABLES
    field,     \* the attributes of the field
    value,     \* the value that the form holds
    text,      \* what the input holds
    focused,   \* whether the user is in the input
    inputs     \* how often something happened (a bound)
vars == <<field, value, text, focused, inputs>>

Step == 2

\* candidate_is_acceptable: in the limits, and a whole number of steps.
Acceptable(f, candidate) == candidate >= f.min /\ candidate % Step = 0

\* What the input shows of a value.
Shown(v) == v

Focus ==
    /\ ~focused
    /\ focused' = TRUE
    /\ UNCHANGED <<field, value, text, inputs>>

\* on_input: what is not acceptable leaves the value alone; so does the empty text of a field
\* that is not nullable.
Type(t) ==
    /\ focused /\ inputs < MaxInputs
    /\ text' = t
    /\ value' = IF t = Empty THEN IF field.nullable THEN Empty ELSE value
                ELSE IF Acceptable(field, t) THEN t ELSE value
    /\ inputs' = inputs + 1
    /\ UNCHANGED <<field, focused>>

\* What becomes of a field that is left empty.
WhenLeftEmpty(f) == IF f.nullable THEN Empty ELSE IF f.kind = "integer" THEN f.min ELSE 0

\* on_blur: the text becomes that of the value.
BlurredText(v) == Shown(v)

Blur ==
    /\ focused
    /\ value' = IF text = Empty THEN WhenLeftEmpty(field) ELSE value
    /\ text' = BlurredText(value')
    /\ focused' = FALSE
    /\ UNCHANGED <<field, inputs>>

\* The form gets another value, from its owner: show_value leaves the user's text alone.
OwnerSets(v) ==
    /\ inputs < MaxInputs
    /\ value' = v
    /\ text' = IF focused THEN text ELSE Shown(v)
    /\ inputs' = inputs + 1
    /\ UNCHANGED <<field, focused>>

Held(f) == {n \in Numbers : Acceptable(f, n)} \cup (IF f.nullable THEN {Empty} ELSE {})

Init ==
    /\ field \in Fields
    /\ value \in Held(field)
    /\ text = Shown(value) /\ focused = FALSE /\ inputs = 0

Next ==
    \/ Focus \/ Blur
    \/ \E t \in Numbers \cup {Empty} : Type(t)
    \/ \E v \in Held(field) : OwnerSets(v)

\* A field that the user is not in shows the value that the form holds, and that is one which the
\* field accepts, whatever was typed, refused, emptied or set meanwhile (on_blur, show_value).
FieldShowsItsValue == ~focused => text = Shown(value) /\ value \in Held(field)
=============================================================================
