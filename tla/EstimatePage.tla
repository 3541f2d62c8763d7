----------------------------- MODULE EstimatePage -----------------------------
(***************************************************************************)
(* The page with all line items of an estimate (LineItems.State.svelte,     *)
(* estimate_form.svelte.ts), and update_estimate, which stores what was     *)
(* changed in one transaction and moves the project to another document.   *)
(*                                                                         *)
(* A field is the crew size or the document of the project, which counts as *)
(* item 0, or the crew size or the price of a line item.  A crew size of    *)
(* the project is followed by the items that had the old one, and a price   *)
(* by the crew size, whenever that changes.  Others change fields on their  *)
(* own pages; answers get lost; the user goes on while a save travels.      *)
(* Work skills of an item are in LineItemForm.                              *)
(***************************************************************************)
EXTENDS Integers, Sequences, FiniteSets

CONSTANTS
    Items,            \* the line items, positive numbers
    Prices,           \* the price that goes with each crew size
    Documents,        \* 1 .. Documents, each followed by the next
    MaxEdits, MaxSaves, MaxLost, MaxElsewhere, \* bounds on what is typed, saved, lost, and done elsewhere
    None

Unset == 0            \* a crew size that is left empty
CrewSizes == DOMAIN Prices \cup {Unset}

ASSUME EstimateAssumption == Items \subseteq Nat \ {0} /\ Prices \in Seq(Nat \ {0}) /\ Documents \in Nat \ {0}

VARIABLES
    page,        \* "open", "closed" after a save, or "left"
    form, in_db, \* field -> what the page shows, and what it takes to be stored
    follow,      \* crew_size_line_items_follow
    pending,     \* the save that is in flight, or None
    next,        \* the document after the one that was loaded
    stored,      \* field -> what is stored
    history,     \* project_document_history
    elsewhere,   \* the fields that others have changed
    edits, saves, lost, changes

bounds == <<edits, saves, lost, changes>>
vars == <<page, form, in_db, follow, pending, next, stored, history, elsewhere, bounds>>

Document == <<"document", 0>>
Crew(i) == <<"crew", i>>
Price(i) == <<"price", i>>
Fields == {Document, Crew(0)} \cup {Crew(i) : i \in Items} \cup {Price(i) : i \in Items}
Changed == {f \in Fields : form[f] # in_db[f]}
NeedsToBeSaved == Changed # {}

Init ==
    /\ \E first \in CrewSizes, crews \in [Items -> CrewSizes] :
         stored = [f \in Fields |-> CASE f = Document -> 1
                                      [] f = Crew(0) -> first
                                      [] f[1] = "crew" /\ f[2] # 0 -> crews[f[2]]
                                      [] OTHER -> 0]
    /\ page = "open"
    /\ form = stored /\ in_db = stored
    /\ follow = stored[Crew(0)]
    /\ pending = None
    /\ next = IF Documents = 1 THEN None ELSE 2
    /\ history = <<1>>
    /\ elsewhere = {}
    /\ edits = 0 /\ saves = 0 /\ lost = 0 /\ changes = 0

-----------------------------------------------------------------------------
(* What is typed.                                                          *)

Edit ==
    /\ page = "open"
    /\ edits < MaxEdits /\ edits' = edits + 1
    /\ pending' = IF pending = None THEN None ELSE [pending EXCEPT !.touched = TRUE]
    /\ UNCHANGED <<page, in_db, next, stored, history, elsewhere, saves, lost, changes>>

\* The items take a crew size; so do their prices, or go back to the stored ones.
WithCrewSize(shown, items, size) ==
    [f \in Fields |->
        IF f[2] \notin items THEN shown[f]
        ELSE IF f[1] = "crew" THEN size
        ELSE IF size = Unset THEN in_db[f] ELSE Prices[size]]

\* The effect that runs after it is part of it.
EditProjectCrewSize(size) ==
    /\ size # form[Crew(0)]
    /\ Edit
    /\ form' = [WithCrewSize(form, {i \in Items : form[Crew(i)] = follow}, size) EXCEPT ![Crew(0)] = size]
    /\ follow' = size

EditCrewSize(i, size) ==
    /\ size # form[Crew(i)]
    /\ Edit
    /\ form' = WithCrewSize(form, {i}, size)
    /\ UNCHANGED follow

EditPrice(i, price) ==
    /\ price # form[Price(i)]
    /\ Edit
    /\ form' = [form EXCEPT ![Price(i)] = price]
    /\ UNCHANGED follow

-----------------------------------------------------------------------------
(* Saving.                                                                 *)

\* (a mistake) prices are not looked at
SentWithoutPrices(shown) == [f \in {f \in Fields : f[1] # "price" /\ shown[f] # in_db[f]} |-> shown[f]]
Sent(shown) == [f \in {f \in Fields : shown[f] # in_db[f]} |-> shown[f]]

Start(shown, closes) ==
    /\ saves < MaxSaves /\ saves' = saves + 1
    /\ pending' = [values |-> Sent(shown), closes |-> closes, touched |-> FALSE]
    /\ form' = shown
    /\ UNCHANGED <<page, in_db, follow, next, stored, history, elsewhere, edits, lost, changes>>

\* With Enter, which saves and stays.
Submit == page = "open" /\ pending = None /\ Start(form, FALSE)

Close ==
    /\ page' = "closed"
    /\ UNCHANGED <<form, in_db, follow, pending, next, stored, history, elsewhere, bounds>>

\* save_if_needed, and then away: to the leads, or to a photo.  The button is disabled while a save
\* travels; the photos are not, but a record has one save at a time, so that they only leave then when
\* nothing is to be saved.
SaveAndClose ==
    /\ page = "open"
    /\ \/ pending = None /\ NeedsToBeSaved /\ Start(form, TRUE)
       \/ ~NeedsToBeSaved /\ Close

SaveAsNextProjectDocument ==
    /\ page = "open" /\ pending = None /\ next # None
    /\ LET shown == [form EXCEPT ![Document] = next]
       IN  IF shown # in_db THEN Start(shown, TRUE) ELSE Close

\* The link to the item before saves nothing.
FollowLink ==
    /\ page = "open"
    /\ page' = "left"
    /\ UNCHANGED <<form, in_db, follow, pending, next, stored, history, elsewhere, bounds>>

\* (a mistake) the document that a project has already is noted again
HistoryOfEveryMove(document) == Append(history, document)
\* update_project_document
HistoryWith(document) == IF stored[Document] = document THEN history ELSE Append(history, document)

\* Some fields take new values.
With(values, fields) == [f \in Fields |-> IF f \in DOMAIN values THEN values[f] ELSE fields[f]]

UpdateEstimate(answered) ==
    /\ pending # None
    /\ answered \/ lost < MaxLost
    /\ lost' = IF answered THEN lost ELSE lost + 1
    /\ stored' = With(pending.values, stored)
    /\ history' = IF Document \in DOMAIN pending.values THEN HistoryWith(pending.values[Document]) ELSE history
    /\ elsewhere' = elsewhere \ DOMAIN pending.values
    /\ pending' = None
    /\ IF answered
       THEN /\ in_db' = With(pending.values, in_db)
            /\ page' = IF pending.closes /\ page = "open" THEN "closed" ELSE page
       ELSE UNCHANGED <<in_db, page>>
    /\ UNCHANGED <<form, follow, next, edits, saves, changes>>

SaveFails ==
    /\ pending # None
    /\ pending' = None
    /\ UNCHANGED <<page, form, in_db, follow, next, stored, history, elsewhere, bounds>>

\* Another page stores a field.
Elsewhere(f, value) ==
    /\ changes < MaxElsewhere /\ changes' = changes + 1
    /\ value # stored[f]
    /\ stored' = [stored EXCEPT ![f] = value]
    /\ history' = IF f = Document THEN HistoryWith(value) ELSE history
    /\ elsewhere' = elsewhere \cup {f}
    /\ UNCHANGED <<page, form, in_db, follow, pending, next, edits, saves, lost>>

Next ==
    \/ \E size \in CrewSizes : EditProjectCrewSize(size) \/ \E i \in Items : EditCrewSize(i, size)
    \/ \E i \in Items, size \in DOMAIN Prices : EditPrice(i, Prices[size])
    \/ Submit \/ SaveAndClose \/ SaveAsNextProjectDocument \/ FollowLink
    \/ \E answered \in BOOLEAN : UpdateEstimate(answered)
    \/ SaveFails
    \/ \E document \in 1 .. Documents : Elsewhere(Document, document)
    \/ \E i \in Items \cup {0}, size \in CrewSizes : Elsewhere(Crew(i), size)

Spec == Init /\ [][Next]_vars

-----------------------------------------------------------------------------
\* A page that closes after its save, or because nothing was left to save, leaves behind
\* what it showed, item by item, whatever failed before; but for fields that others
\* changed, for what is typed while the last save travels, and when the answer to a save
\* that was done got lost, which a user who then types the old values takes for undone
\* (LineItems.State.svelte:115-141, estimate_form.svelte.ts:40-55).
ClosingStoresTheForm ==
    [][page = "open" /\ page' = "closed" /\ lost' = 0 /\ (pending # None => ~pending.touched)
         => \A f \in Fields \ elsewhere' : stored'[f] = form'[f]]_vars

\* The history of the project ends at the document it has, and no document follows itself:
\* however often a move is repeated after a lost answer, and whoever else has made it
\* (project_document_history.ts:14-73).
DocumentHistoryIsTheProjects ==
    /\ history[Len(history)] = stored[Document]
    /\ \A n \in 2 .. Len(history) : history[n] # history[n - 1]
=============================================================================
