---------------------------- MODULE PagesProofs ----------------------------
(***************************************************************************)
(* The pages are right for any texts, records, photos, prices and number   *)
(* of saves: the history of the documents of a project, the leads, the     *)
(* form of a client, the pictures of the photos and the lists of projects;  *)
(* a session that was logged out of runs no call any more and a log in that *)
(* succeeded opens the app, for any people, tabs, requests and sessions;    *)
(* the inputs of the forms show and pick what they hold, for any fields,    *)
(* calendar, options and words.                                             *)
(***************************************************************************)
EXTENDS MCPages, SequenceTheorems, FiniteSetTheorems, TLAPS

(* EstimatePage.                                                           *)

\* What a save sends: some of the fields.
Payloads == UNION {[some -> Nat] : some \in SUBSET Fields}

(* The strengthening: whatever is typed, sent or stored as a document is a  *)
(* document, so that the history only ever grows by documents.             *)
FormHasValues == form \in [Fields -> Nat] /\ in_db \in [Fields -> Nat] /\ (next = None \/ next \in Nat)
SendsFields == pending # None => pending \in [values : Payloads, closes : BOOLEAN, touched : BOOLEAN]
StoredHasValues == stored \in [Fields -> Nat] /\ history \in Seq(Nat) \ {<<>>}

IInv == FormHasValues /\ SendsFields /\ StoredHasValues /\ DocumentHistoryIsTheProjects

-----------------------------------------------------------------------------
LEMMA DocumentIsAField == Document \in Fields /\ \A i \in Items : Document # Crew(i) /\ Document # Price(i)
BY EstimateAssumption DEF Document, Fields, Crew, Price

LEMMA CrewSizesAreNumbers ==
  /\ CrewSizes \subseteq Nat
  /\ \A size \in DOMAIN Prices : Prices[size] \in Nat
<1>1. Prices \in Seq(Nat \ {0})
  BY EstimateAssumption
<1>2. DOMAIN Prices = 1 .. Len(Prices) /\ Len(Prices) \in Nat
  BY <1>1
<1>3. \A size \in DOMAIN Prices : Prices[size] \in Nat \ {0}
  BY <1>1
<1> QED
  BY <1>2, <1>3 DEF CrewSizes, Unset

\* update_project_document: a move is noted at the end, unless the project is there already.
LEMMA MovesAreNoted ==
  ASSUME StoredHasValues, DocumentHistoryIsTheProjects, NEW document \in Nat
  PROVE  /\ HistoryWith(document) \in Seq(Nat) \ {<<>>}
         /\ HistoryWith(document)[Len(HistoryWith(document))] = document
         /\ \A n \in 2 .. Len(HistoryWith(document)) :
               HistoryWith(document)[n] # HistoryWith(document)[n - 1]
<1>1. /\ history \in Seq(Nat) /\ Len(history) \in Nat /\ Len(history) # 0
      /\ history[Len(history)] = stored[Document]
      /\ \A n \in 2 .. Len(history) : history[n] # history[n - 1]
  BY DEF StoredHasValues, DocumentHistoryIsTheProjects
<1>2. CASE stored[Document] = document
  BY <1>1, <1>2 DEF HistoryWith, StoredHasValues
<1>3. CASE stored[Document] # document
  <2>1. HistoryWith(document) = Append(history, document)
    BY <1>3 DEF HistoryWith
  <2> DEFINE longer == Append(history, document)
  <2>2. /\ longer \in Seq(Nat) /\ Len(longer) = Len(history) + 1
        /\ longer[Len(history) + 1] = document
        /\ \A n \in 1 .. Len(history) : longer[n] = history[n]
    BY <1>1
  <2>3. ASSUME NEW n \in 2 .. Len(longer)
        PROVE  longer[n] # longer[n - 1]
    <3>1. CASE n = Len(history) + 1
      BY <1>1, <1>3, <2>2, <3>1
    <3>2. CASE n # Len(history) + 1
      BY <1>1, <2>2, <2>3, <3>2
    <3> QED
      BY <3>1, <3>2
  <2> HIDE DEF longer
  <2>4. longer # <<>>
    BY <1>1, <2>2
  <2> QED
    BY <2>1, <2>2, <2>3, <2>4 DEF longer
<1> QED
  BY <1>2, <1>3

\* A save sends numbers, the ones that are shown.
LEMMA SavesSendFields ==
  ASSUME FormHasValues, NEW showing \in [Fields -> Nat], NEW closes \in BOOLEAN, Start(showing, closes)
  PROVE  FormHasValues' /\ SendsFields'
<1>1. Sent(showing) \in Payloads
  <2> DEFINE some == {f \in Fields : showing[f] # in_db[f]}
  <2>1. some \in SUBSET Fields
    OBVIOUS
  <2>2. Sent(showing) = [f \in some |-> showing[f]]
    BY DEF Sent
  <2>3. Sent(showing) \in [some -> Nat]
    BY <2>1, <2>2
  <2> QED
    BY <2>1, <2>3 DEF Payloads
<1>2. SendsFields'
  BY <1>1 DEF Start, SendsFields
<1>3. FormHasValues'
  BY DEF Start, FormHasValues
<1> QED
  BY <1>2, <1>3

LEMMA InitInv == Init => IInv
<1> SUFFICES ASSUME Init
             PROVE  IInv
  OBVIOUS
<1>1. PICK first \in CrewSizes, crews \in [Items -> CrewSizes] :
         stored = [f \in Fields |-> CASE f = Document -> 1
                                      [] f = Crew(0) -> first
                                      [] f[1] = "crew" /\ f[2] # 0 -> crews[f[2]]
                                      [] OTHER -> 0]
  BY DEF Init
<1>2. stored[Document] = 1
  <2>1. Document \in Fields /\ Document # Crew(0) /\ Document[1] # "crew"
    BY DocumentIsAField DEF Document, Crew
  <2> QED
    BY <1>1, <2>1
<1>3. ASSUME NEW f \in Fields
      PROVE  stored[f] \in Nat
  <2>1. CASE f = Document
    BY <1>2, <2>1
  <2>2. CASE f = Crew(0)
    <3>1. stored[f] = first
      BY <1>1, <2>2 DEF Crew, Document
    <3> QED
      BY <3>1, CrewSizesAreNumbers
  <2>3. ASSUME NEW i \in Items, f = Crew(i)
        PROVE  stored[f] \in Nat
    <3>1. i # 0 /\ f[1] = "crew" /\ f[2] = i
      BY <2>3, EstimateAssumption DEF Crew
    <3>2. f # Document /\ f # Crew(0)
      BY <2>3, <3>1 DEF Crew, Document
    <3>3. stored[f] = crews[i]
      BY <1>1, <3>1, <3>2
    <3> QED
      BY <3>3, CrewSizesAreNumbers
  <2>4. ASSUME NEW i \in Items, f = Price(i)
        PROVE  stored[f] \in Nat
    <3>1. f[1] = "price" /\ f # Document /\ f # Crew(0)
      BY <2>4 DEF Crew, Document, Price
    <3>2. stored[f] = 0
      BY <1>1, <3>1
    <3> QED
      BY <3>2
  <2> QED
    BY <2>1, <2>2, <2>3, <2>4 DEF Fields
<1>4. stored \in [Fields -> Nat]
  BY <1>1, <1>3
<1>5. history = <<1>>
  BY DEF Init
<1>6. StoredHasValues /\ DocumentHistoryIsTheProjects
  BY <1>2, <1>4, <1>5 DEF StoredHasValues, DocumentHistoryIsTheProjects
<1>7. FormHasValues /\ SendsFields
  BY <1>4 DEF Init, FormHasValues, SendsFields
<1> QED
  BY <1>6, <1>7 DEF IInv

-----------------------------------------------------------------------------
\* What is typed changes the form only, and only to numbers.
LEMMA EditsKeepTheInvariant ==
  ASSUME IInv, Edit, form' \in [Fields -> Nat]
  PROVE  IInv'
<1>1. FormHasValues'
  BY DEF IInv, Edit, FormHasValues
<1>2. SendsFields'
  BY DEF IInv, Edit, SendsFields
<1>3. StoredHasValues' /\ DocumentHistoryIsTheProjects'
  BY DEF IInv, Edit, StoredHasValues, DocumentHistoryIsTheProjects
<1> QED
  BY <1>1, <1>2, <1>3 DEF IInv

LEMMA CrewSizesKeepNumbers ==
  ASSUME FormHasValues, NEW chosen, NEW size \in CrewSizes
  PROVE  WithCrewSize(form, chosen, size) \in [Fields -> Nat]
<1>1. ASSUME NEW f \in Fields
      PROVE  (IF f[2] \notin chosen THEN form[f]
              ELSE IF f[1] = "crew" THEN size
              ELSE IF size = Unset THEN in_db[f] ELSE Prices[size]) \in Nat
  <2>1. form[f] \in Nat /\ in_db[f] \in Nat /\ size \in Nat
    BY CrewSizesAreNumbers DEF FormHasValues
  <2>2. size # Unset => Prices[size] \in Nat
    BY CrewSizesAreNumbers DEF CrewSizes
  <2> QED
    BY <2>1, <2>2
<1> QED
  BY <1>1 DEF WithCrewSize

\* A save that begins, and one that fails, leave what is stored alone.
LEMMA StartKeepsTheInvariant ==
  ASSUME IInv, NEW showing \in [Fields -> Nat], NEW closes \in BOOLEAN, Start(showing, closes)
  PROVE  IInv'
<1>1. FormHasValues' /\ SendsFields'
  BY SavesSendFields DEF IInv
<1>2. StoredHasValues' /\ DocumentHistoryIsTheProjects'
  BY DEF IInv, Start, StoredHasValues, DocumentHistoryIsTheProjects
<1> QED
  BY <1>1, <1>2 DEF IInv

LEMMA UpdateKeepsTheInvariant ==
  ASSUME IInv, NEW answered \in BOOLEAN, UpdateEstimate(answered)
  PROVE  IInv'
<1> DEFINE values == pending.values
<1>1. PICK some \in SUBSET Fields : values \in [some -> Nat]
  BY DEF IInv, UpdateEstimate, SendsFields, Payloads
<1>2. \A before \in [Fields -> Nat] : With(values, before) \in [Fields -> Nat]
  BY <1>1 DEF With
<1>3. SendsFields'
  BY DEF UpdateEstimate, SendsFields
<1>4. FormHasValues'
  BY <1>2 DEF IInv, UpdateEstimate, FormHasValues
<1>5. stored' \in [Fields -> Nat] /\ stored' = With(values, stored)
  BY <1>2 DEF IInv, UpdateEstimate, StoredHasValues
<1>6. CASE Document \in some
  <2>1. values[Document] \in Nat /\ stored'[Document] = values[Document]
    BY <1>1, <1>5, <1>6, DocumentIsAField DEF With
  <2>2. history' = HistoryWith(values[Document])
    BY <1>1, <1>6 DEF UpdateEstimate
  <2>3. StoredHasValues' /\ DocumentHistoryIsTheProjects'
    BY <1>5, <2>1, <2>2, MovesAreNoted DEF IInv, StoredHasValues, DocumentHistoryIsTheProjects
  <2> QED
    BY <1>3, <1>4, <2>3 DEF IInv
<1>7. CASE Document \notin some
  <2>1. stored'[Document] = stored[Document]
    BY <1>1, <1>5, <1>7, DocumentIsAField DEF With, IInv, StoredHasValues
  <2>2. history' = history
    BY <1>1, <1>7 DEF UpdateEstimate
  <2>3. StoredHasValues' /\ DocumentHistoryIsTheProjects'
    BY <1>5, <2>1, <2>2 DEF IInv, StoredHasValues, DocumentHistoryIsTheProjects
  <2> QED
    BY <1>3, <1>4, <2>3 DEF IInv
<1> QED
  BY <1>6, <1>7

LEMMA ElsewhereKeepsTheInvariant ==
  ASSUME IInv, NEW f \in Fields, NEW amount \in Nat, Elsewhere(f, amount)
  PROVE  IInv'
<1>1. FormHasValues' /\ SendsFields'
  BY DEF IInv, Elsewhere, FormHasValues, SendsFields
<1>2. stored' = [stored EXCEPT ![f] = amount] /\ stored' \in [Fields -> Nat]
  BY DEF IInv, Elsewhere, StoredHasValues
<1>3. CASE f = Document
  <2>1. history' = HistoryWith(amount) /\ stored'[Document] = amount
    BY <1>2, <1>3 DEF Elsewhere, IInv, StoredHasValues
  <2>2. StoredHasValues' /\ DocumentHistoryIsTheProjects'
    BY <1>2, <2>1, MovesAreNoted DEF IInv, StoredHasValues, DocumentHistoryIsTheProjects
  <2> QED
    BY <1>1, <2>2 DEF IInv
<1>4. CASE f # Document
  <2>1. history' = history /\ stored'[Document] = stored[Document]
    BY <1>2, <1>4, DocumentIsAField DEF Elsewhere, IInv, StoredHasValues
  <2>2. StoredHasValues' /\ DocumentHistoryIsTheProjects'
    BY <1>2, <2>1 DEF IInv, StoredHasValues, DocumentHistoryIsTheProjects
  <2> QED
    BY <1>1, <2>2 DEF IInv
<1> QED
  BY <1>3, <1>4

LEMMA NextInv == IInv /\ [Next]_vars => IInv'
<1> SUFFICES ASSUME IInv, [Next]_vars
             PROVE  IInv'
  OBVIOUS
<1>1. FormHasValues
  BY DEF IInv
<1>2. ASSUME NEW size \in CrewSizes, EditProjectCrewSize(size)
      PROVE  IInv'
  <2> DEFINE followed == WithCrewSize(form, {i \in Items : form[Crew(i)] = follow}, size)
  <2>1. followed \in [Fields -> Nat] /\ size \in Nat
    BY <1>1, CrewSizesKeepNumbers, CrewSizesAreNumbers
  <2>2. form' = [followed EXCEPT ![Crew(0)] = size] /\ Edit
    BY <1>2 DEF EditProjectCrewSize
  <2> HIDE DEF followed
  <2>3. form' \in [Fields -> Nat]
    BY <2>1, <2>2
  <2> QED
    BY <2>2, <2>3, EditsKeepTheInvariant
<1>3. ASSUME NEW i \in Items, NEW size \in CrewSizes, EditCrewSize(i, size)
      PROVE  IInv'
  <2>1. Edit /\ form' = WithCrewSize(form, {i}, size)
    BY <1>3 DEF EditCrewSize
  <2>2. form' \in [Fields -> Nat]
    BY <1>1, <2>1, CrewSizesKeepNumbers
  <2> QED
    BY <2>1, <2>2, EditsKeepTheInvariant
<1>4. ASSUME NEW i \in Items, NEW size \in DOMAIN Prices, EditPrice(i, Prices[size])
      PROVE  IInv'
  <2>1. Edit /\ form' = [form EXCEPT ![Price(i)] = Prices[size]]
    BY <1>4 DEF EditPrice
  <2>2. form' \in [Fields -> Nat]
    BY <1>1, <2>1, CrewSizesAreNumbers DEF FormHasValues
  <2> QED
    BY <2>1, <2>2, EditsKeepTheInvariant
<1>5. ASSUME NEW closes \in BOOLEAN, Start(form, closes)
      PROVE  IInv'
  BY <1>1, <1>5, StartKeepsTheInvariant DEF FormHasValues
<1>6. CASE Close
  BY <1>6 DEF Close, IInv, FormHasValues, SendsFields, StoredHasValues, DocumentHistoryIsTheProjects
<1>7. CASE Submit
  BY <1>5, <1>7 DEF Submit
<1>8. CASE SaveAndClose
  BY <1>5, <1>6, <1>8 DEF SaveAndClose
<1>9. CASE SaveAsNextProjectDocument
  <2> DEFINE showing == [form EXCEPT ![Document] = next]
  <2>1. showing \in [Fields -> Nat]
    BY <1>1, <1>9 DEF FormHasValues, SaveAsNextProjectDocument
  <2>2. Start(showing, TRUE) \/ Close
    BY <1>9 DEF SaveAsNextProjectDocument
  <2> HIDE DEF showing
  <2> QED
    BY <1>6, <2>1, <2>2, StartKeepsTheInvariant
<1>10. CASE FollowLink
  BY <1>10 DEF FollowLink, IInv, FormHasValues, SendsFields, StoredHasValues, DocumentHistoryIsTheProjects
<1>11. ASSUME NEW answered \in BOOLEAN, UpdateEstimate(answered)
       PROVE  IInv'
  BY <1>11, UpdateKeepsTheInvariant
<1>12. CASE SaveFails
  BY <1>12 DEF SaveFails, IInv, FormHasValues, SendsFields, StoredHasValues, DocumentHistoryIsTheProjects
<1>13. ASSUME NEW document \in 1 .. Documents, Elsewhere(Document, document)
       PROVE  IInv'
  <2>1. document \in Nat
    BY EstimateAssumption
  <2> QED
    BY <1>13, <2>1, DocumentIsAField, ElsewhereKeepsTheInvariant
<1>14. ASSUME NEW i \in Items \cup {0}, NEW size \in CrewSizes, Elsewhere(Crew(i), size)
       PROVE  IInv'
  <2>1. Crew(i) \in Fields /\ size \in Nat
    BY CrewSizesAreNumbers DEF Fields
  <2> QED
    BY <1>14, <2>1, ElsewhereKeepsTheInvariant
<1>15. CASE UNCHANGED vars
  BY <1>15 DEF vars, bounds, IInv, FormHasValues, SendsFields, StoredHasValues, DocumentHistoryIsTheProjects
<1> QED
  BY <1>2, <1>3, <1>4, <1>7, <1>8, <1>9, <1>10, <1>11, <1>12, <1>13, <1>14, <1>15 DEF Next

\* The history of a project ends at its document and no document follows itself, however many pages
\* move it, however often a move is repeated, and whichever answers are lost (update_project_document).
THEOREM HistoryIsRight == Spec => []DocumentHistoryIsTheProjects
<1>1. IInv => DocumentHistoryIsTheProjects
  BY DEF IInv
<1> QED
  BY <1>1, InitInv, NextInv, PTL DEF Spec


-----------------------------------------------------------------------------
(* What a page leaves behind.                                              *)

LEMMA InvariantAlways == Spec => []IInv
BY InitInv, NextInv, PTL DEF Spec

\* Unless an answer was lost, the page knows what is stored of the fields that nobody else changed.
SavedIsStored == lost \in Nat /\ (lost = 0 => \A f \in Fields \ elsewhere : stored[f] = in_db[f])
\* A save on its way sends what is shown, as long as nothing is typed.
SaveIsShown == pending # None /\ ~pending.touched => pending.values = Sent(form)
\* A project that was moved on from this page is shown there.
MovesAreShown ==
    /\ in_db[Document] = next => form[Document] = next
    /\ pending # None /\ Document \in DOMAIN pending.values =>
         (pending.values[Document] = next => form[Document] = next)
CInv == SavedIsStored /\ SaveIsShown /\ MovesAreShown

\* The page closes only onto what is stored.
ClosesOnStored ==
    page = "open" /\ page' = "closed" /\ lost' = 0 /\ (pending # None => ~pending.touched)
      => \A f \in Fields \ elsewhere' : stored'[f] = form'[f]

LEMMA InitKnows == Init => CInv
<1> SUFFICES ASSUME Init PROVE CInv
  OBVIOUS
<1>1. form = stored /\ in_db = stored /\ pending = None /\ lost = 0
  BY DEF Init
<1> QED
  BY <1>1 DEF CInv, SavedIsStored, SaveIsShown, MovesAreShown

LEMMA EditsKnow ==
  ASSUME IInv, CInv, Edit, form'[Document] = form[Document]
  PROVE  CInv' /\ ClosesOnStored
<1>1. /\ pending' = IF pending = None THEN None ELSE [pending EXCEPT !.touched = TRUE]
      /\ page = "open" /\ UNCHANGED <<page, in_db, next, stored, elsewhere, lost>>
  BY DEF Edit
<1>2. SavedIsStored'
  BY <1>1 DEF CInv, SavedIsStored
<1>3. pending' # None => pending # None /\ pending'.touched = TRUE /\ pending'.values = pending.values
  BY <1>1 DEF IInv, SendsFields
<1>4. SaveIsShown' /\ MovesAreShown'
  BY <1>1, <1>3 DEF CInv, SaveIsShown, MovesAreShown
<1> QED
  BY <1>1, <1>2, <1>4 DEF CInv, ClosesOnStored

LEMMA SavesKnow ==
  ASSUME IInv, CInv, NEW showing \in [Fields -> Nat], showing[Document] \in {form[Document], next},
         NEW closes \in BOOLEAN, Start(showing, closes)
  PROVE  CInv' /\ ClosesOnStored
<1>1. /\ pending' = [values |-> Sent(showing), closes |-> closes, touched |-> FALSE] /\ form' = showing
      /\ UNCHANGED <<page, in_db, next, stored, elsewhere, lost>>
  BY DEF Start
<1>2. SavedIsStored'
  BY <1>1 DEF CInv, SavedIsStored
<1>3. pending'.values = Sent(showing) /\ Sent(showing)' = Sent(showing)
  BY <1>1 DEF Sent
<1>4. SaveIsShown'
  BY <1>1 DEF SaveIsShown, Sent
<1>5. Document \in DOMAIN Sent(showing) => Sent(showing)[Document] = showing[Document]
  BY DEF Sent
<1>6. MovesAreShown'
  BY <1>1, <1>3, <1>5 DEF CInv, MovesAreShown
<1>7. ClosesOnStored
  BY <1>1 DEF ClosesOnStored
<1> QED
  BY <1>2, <1>4, <1>6, <1>7 DEF CInv

LEMMA ClosingKnows ==
  ASSUME IInv, CInv, Close, \A f \in Fields : form[f] = in_db[f]
  PROVE  CInv' /\ ClosesOnStored
<1>1. UNCHANGED <<form, in_db, pending, next, stored, elsewhere, lost>>
  BY DEF Close, bounds
<1>2. CInv'
  BY <1>1 DEF CInv, SavedIsStored, SaveIsShown, MovesAreShown, Sent
<1>3. ClosesOnStored
  BY <1>1 DEF ClosesOnStored, CInv, SavedIsStored
<1> QED
  BY <1>2, <1>3

LEMMA UpdatesKnow ==
  ASSUME IInv, CInv, NEW answered \in BOOLEAN, UpdateEstimate(answered)
  PROVE  CInv' /\ ClosesOnStored
<1> DEFINE values == pending.values
<1>1. /\ pending # None /\ pending' = None
      /\ stored' = With(values, stored) /\ elsewhere' = elsewhere \ DOMAIN values
      /\ UNCHANGED <<form, next>>
  BY DEF UpdateEstimate
<1>2. lost \in Nat
  BY DEF CInv, SavedIsStored
<1>3. SaveIsShown'
  BY <1>1 DEF SaveIsShown
<1>4. CASE answered
  <2>1. lost' = lost /\ in_db' = With(values, in_db)
    BY <1>4 DEF UpdateEstimate
  <2>2. ASSUME NEW f \in Fields
        PROVE  /\ stored'[f] = IF f \in DOMAIN values THEN values[f] ELSE stored[f]
               /\ in_db'[f] = IF f \in DOMAIN values THEN values[f] ELSE in_db[f]
    BY <1>1, <2>1 DEF With
  <2>3. SavedIsStored'
    BY <1>1, <1>2, <2>1, <2>2 DEF CInv, SavedIsStored
  <2>4. MovesAreShown'
    BY <1>1, <2>2, DocumentIsAField DEF CInv, MovesAreShown
  <2>5. ASSUME lost' = 0, ~pending.touched, NEW f \in Fields \ elsewhere'
        PROVE  stored'[f] = form'[f]
    <3>1. values = Sent(form)
      BY <1>1, <2>5 DEF CInv, SaveIsShown
    <3>2. CASE f \in DOMAIN values
      BY <1>1, <2>2, <3>1, <3>2 DEF Sent
    <3>3. CASE f \notin DOMAIN values
      <4>1. form[f] = in_db[f]
        BY <3>1, <3>3 DEF Sent
      <4>2. f \in Fields \ elsewhere
        BY <1>1, <2>5, <3>3
      <4> QED
        BY <1>1, <2>1, <2>2, <2>5, <3>3, <4>1, <4>2 DEF CInv, SavedIsStored
    <3> QED
      BY <3>2, <3>3
  <2>6. ClosesOnStored
    BY <1>1, <2>5 DEF ClosesOnStored
  <2> QED
    BY <1>3, <2>3, <2>4, <2>6 DEF CInv
<1>5. CASE ~answered
  <2>1. lost' = lost + 1 /\ UNCHANGED <<in_db, page>>
    BY <1>5 DEF UpdateEstimate
  <2>2. lost' \in Nat /\ lost' # 0
    BY <1>2, <2>1
  <2>3. SavedIsStored' /\ ClosesOnStored
    BY <2>2 DEF SavedIsStored, ClosesOnStored
  <2>4. MovesAreShown'
    BY <1>1, <2>1 DEF CInv, MovesAreShown
  <2> QED
    BY <1>3, <2>3, <2>4 DEF CInv
<1> QED
  BY <1>4, <1>5

LEMMA ElsewhereKnows ==
  ASSUME IInv, CInv, NEW f \in Fields, NEW amount, Elsewhere(f, amount)
  PROVE  CInv' /\ ClosesOnStored
<1>1. /\ stored' = [stored EXCEPT ![f] = amount] /\ elsewhere' = elsewhere \cup {f}
      /\ UNCHANGED <<page, form, in_db, pending, next, lost>>
  BY DEF Elsewhere
<1>2. \A g \in Fields \ elsewhere' : stored'[g] = stored[g]
  BY <1>1 DEF IInv, StoredHasValues
<1>3. SavedIsStored'
  BY <1>1, <1>2 DEF CInv, SavedIsStored
<1>4. SaveIsShown' /\ MovesAreShown'
  BY <1>1 DEF CInv, SaveIsShown, MovesAreShown, Sent
<1>5. ClosesOnStored
  BY <1>1 DEF ClosesOnStored
<1> QED
  BY <1>3, <1>4, <1>5 DEF CInv

LEMMA StepsKnow ==
  ASSUME IInv, CInv, [Next]_vars
  PROVE  CInv' /\ ClosesOnStored
<1>1. form \in [Fields -> Nat] /\ Document \in Fields /\ Document # Crew(0) /\ Document[2] = 0
  BY DocumentIsAField DEF IInv, FormHasValues, Document, Crew
<1>2. ASSUME NEW chosen \in SUBSET Items, NEW size
      PROVE  WithCrewSize(form, chosen, size)[Document] = form[Document]
  <2>1. Document[2] \notin chosen
    BY <1>1, EstimateAssumption
  <2> QED
    BY <1>1, <2>1 DEF WithCrewSize
<1>3. ASSUME NEW size \in CrewSizes, EditProjectCrewSize(size)
      PROVE  CInv' /\ ClosesOnStored
  <2> DEFINE chosen == {i \in Items : form[Crew(i)] = follow}
             followed == WithCrewSize(form, chosen, size)
  <2>1. Edit /\ form' = [followed EXCEPT ![Crew(0)] = size]
    BY <1>3 DEF EditProjectCrewSize
  <2>2. followed[Document] = form[Document] /\ DOMAIN followed = Fields
    BY <1>2 DEF WithCrewSize
  <2> HIDE DEF followed
  <2>3. form'[Document] = form[Document]
    BY <1>1, <2>1, <2>2
  <2> QED
    BY <2>1, <2>3, EditsKnow
<1>4. ASSUME NEW i \in Items, NEW size \in CrewSizes, EditCrewSize(i, size)
      PROVE  CInv' /\ ClosesOnStored
  <2>1. Edit /\ form' = WithCrewSize(form, {i}, size)
    BY <1>4 DEF EditCrewSize
  <2>2. {i} \in SUBSET Items
    OBVIOUS
  <2>3. form'[Document] = form[Document]
    BY <1>2, <2>1, <2>2
  <2> QED
    BY <2>1, <2>3, EditsKnow
<1>5. ASSUME NEW i \in Items, NEW price, EditPrice(i, price)
      PROVE  CInv' /\ ClosesOnStored
  <2>1. Edit /\ form' = [form EXCEPT ![Price(i)] = price]
    BY <1>5 DEF EditPrice
  <2>2. form'[Document] = form[Document]
    BY <1>1, <2>1, DocumentIsAField
  <2> QED
    BY <2>1, <2>2, EditsKnow
<1>6. ASSUME NEW closes \in BOOLEAN, Start(form, closes)
      PROVE  CInv' /\ ClosesOnStored
  BY <1>1, <1>6, SavesKnow
<1>7. CASE Submit
  BY <1>6, <1>7 DEF Submit
<1>8. CASE SaveAndClose
  <2>1. CASE NeedsToBeSaved
    BY <1>6, <1>8, <2>1 DEF SaveAndClose
  <2>2. CASE ~NeedsToBeSaved
    <3>1. \A f \in Fields : form[f] = in_db[f]
      BY <2>2 DEF NeedsToBeSaved, Changed
    <3> QED
      BY <1>8, <2>2, <3>1, ClosingKnows DEF SaveAndClose
  <2> QED
    BY <2>1, <2>2
<1>9. CASE SaveAsNextProjectDocument
  <2> DEFINE showing == [form EXCEPT ![Document] = next]
  <2>1. /\ next # None
        /\ (showing # in_db /\ Start(showing, TRUE)) \/ (showing = in_db /\ Close)
    BY <1>9 DEF SaveAsNextProjectDocument
  <2>2. /\ showing \in [Fields -> Nat] /\ showing[Document] = next
        /\ \A f \in Fields \ {Document} : showing[f] = form[f]
    BY <1>1, <2>1 DEF IInv, FormHasValues
  <2> HIDE DEF showing
  <2>3. CASE Start(showing, TRUE)
    BY <2>2, <2>3, SavesKnow
  <2>4. CASE showing = in_db /\ Close
    <3>1. form[Document] = next /\ in_db[Document] = next
      BY <2>2, <2>4 DEF CInv, MovesAreShown
    <3>2. \A f \in Fields : form[f] = in_db[f]
      BY <2>2, <2>4, <3>1
    <3> QED
      BY <2>4, <3>2, ClosingKnows
  <2> QED
    BY <2>1, <2>3, <2>4
<1>10. CASE FollowLink \/ SaveFails \/ UNCHANGED vars
  <2>1. /\ pending' \in {pending, None} /\ UNCHANGED <<form, in_db, next, stored, elsewhere, lost>>
        /\ page' \in {page, "left"}
    BY <1>10 DEF FollowLink, SaveFails, vars, bounds
  <2>2. CInv'
    BY <2>1 DEF CInv, SavedIsStored, SaveIsShown, MovesAreShown, Sent
  <2>3. ClosesOnStored
    BY <2>1 DEF ClosesOnStored
  <2> QED
    BY <2>2, <2>3
<1>11. ASSUME NEW answered \in BOOLEAN, UpdateEstimate(answered)
       PROVE  CInv' /\ ClosesOnStored
  BY <1>11, UpdatesKnow
<1>12. ASSUME NEW f \in Fields, NEW amount, Elsewhere(f, amount)
       PROVE  CInv' /\ ClosesOnStored
  BY <1>12, ElsewhereKnows
<1>13. \A i \in Items \cup {0} : Crew(i) \in Fields
  BY DEF Fields
<1> QED
  BY <1>1, <1>3, <1>4, <1>5, <1>7, <1>8, <1>9, <1>10, <1>11, <1>12, <1>13 DEF Next

\* A page that closes leaves behind what it showed, but for fields that others changed, for what was
\* typed while the last save was on its way, and for lost answers (estimate_form.svelte.ts:40-55).
THEOREM ClosingIsStoring == Spec => ClosingStoresTheForm
<1>1. IInv /\ CInv /\ [Next]_vars => CInv'
  BY StepsKnow
<1>2. IInv /\ CInv /\ [Next]_vars => [ClosesOnStored]_vars
  BY StepsKnow
<1>3. Spec => [][ClosesOnStored]_vars
  <2> HIDE DEF ClosesOnStored
  <2> QED
    BY <1>1, <1>2, InitKnows, InvariantAlways, PTL DEF Spec
<1> QED
  BY <1>3 DEF ClosingStoresTheForm, ClosesOnStored

-----------------------------------------------------------------------------
(* LeadForm.                                                               *)

(* The values of the lead form, of a save on its way and of the tables.     *)
LeadTexts == Texts \cup {Blank, None}
Ids == Nat \cup {None}
TrackedRecords == [id : Ids, in_db : LeadTexts, form : LeadTexts, saving : BOOLEAN]
ClientRows == [text : LeadTexts, billing : LeadTexts]
OwnedRows == [client : Nat, text : LeadTexts]
SentRecords == [id : Ids, text : LeadTexts]
LeadTypes ==
    /\ client \in TrackedRecords /\ address \in TrackedRecords /\ contact \in TrackedRecords
    /\ clients \in Seq(ClientRows)
    /\ addresses \in Seq(OwnedRows) /\ contacts \in Seq(OwnedRows)
    /\ projects \in Seq([client : Nat, address : Nat, contact : Nat, place : LeadTexts])
    /\ different \in BOOLEAN /\ billing_address \in LeadTexts /\ billing_draft \in LeadTexts /\ contact_draft \in LeadTexts
    /\ lead_save # None =>
         lead_save \in [client : SentRecords, address : SentRecords, contact : SentRecords, billing : LeadTexts]
\* The address and the contact of a stored lead are there, and are its client's.
LeadsAreWhole ==
    \A i \in DOMAIN projects :
        /\ projects[i].address \in DOMAIN addresses /\ addresses[projects[i].address].client = projects[i].client
        /\ projects[i].contact \in DOMAIN contacts /\ contacts[projects[i].contact].client = projects[i].client
\* What was picked on the form is stored, and the address and the contact are of the picked client.
PickedRowsAreTheClients ==
    /\ client.id # None => client.id \in DOMAIN clients
    /\ selected_client \in {None, client.id}
    /\ address.id # None =>
         client.id # None /\ address.id \in DOMAIN addresses /\ addresses[address.id].client = client.id
    /\ contact.id # None =>
         client.id # None /\ contact.id \in DOMAIN contacts /\ contacts[contact.id].client = client.id
\* While a save is on its way the form keeps what it sent: all of its records are being saved.
SaveIsOfThePicked ==
    lead_save # None =>
        /\ client.saving /\ address.saving /\ contact.saving
        /\ lead_save.client.id = client.id
        /\ lead_save.address.id = address.id
        /\ lead_save.contact.id = contact.id
\* The contact of a new client is the client, unless it was said to be another.
ContactFollows == client.id = None /\ ~different => contact.form = client.form
\* All of it as long as no record threw because something was put into it while it was being saved.
LeadInv ==
    /\ refused \in BOOLEAN
    /\ ~refused =>
         /\ LeadTypes /\ LeadsAreWhole
         /\ PickedRowsAreTheClients /\ SaveIsOfThePicked /\ ContactFollows

\* As long as the tables stay, the leads do.
LEMMA PageStepsKeepLeads ==
  ASSUME LeadTypes, LeadsAreWhole, UNCHANGED <<clients, addresses, contacts, projects>>,
         client' \in TrackedRecords, address' \in TrackedRecords, contact' \in TrackedRecords,
         different' \in BOOLEAN,
         billing_address' \in LeadTexts, billing_draft' \in LeadTexts, contact_draft' \in LeadTexts,
         lead_save' # None =>
           lead_save' \in [client : SentRecords, address : SentRecords, contact : SentRecords, billing : LeadTexts],
         PickedRowsAreTheClients', SaveIsOfThePicked', ContactFollows', refused' \in BOOLEAN
  PROVE  LeadInv'
<1>1. LeadTypes'
  BY DEF LeadTypes
<1>2. LeadsAreWhole'
  BY DEF LeadsAreWhole
<1> QED
  BY <1>1, <1>2 DEF LeadInv

\* A record that is new, and one that was loaded, are of their type.
LEMMA FreshRecords ==
  /\ L!NewRecord \in TrackedRecords /\ L!NewRecord.id = None /\ L!NewRecord.form = Blank /\ ~L!NewRecord.saving
  /\ L!Cleared = L!NewRecord
  /\ None \notin Nat /\ None \in Ids /\ {None, Blank} \subseteq LeadTexts
  /\ \A kept, id :
       /\ kept \in Seq(OwnedRows) \/ kept \in Seq(ClientRows)
       /\ id \in DOMAIN kept
       => /\ L!Holding(kept, id) \in TrackedRecords /\ id \in Nat
          /\ L!Holding(kept, id).id = id /\ ~L!Holding(kept, id).saving
<1>1. L!NewRecord \in TrackedRecords /\ L!NewRecord.id = None /\ L!NewRecord.form = Blank /\ ~L!NewRecord.saving
  BY DEF L!NewRecord, TrackedRecords, LeadTexts, Ids
<1>2. None \notin Nat /\ None \in Ids /\ {None, Blank} \subseteq LeadTexts
  BY PagesAssumption DEF L!LeadAssumption, Ids, LeadTexts
<1>3. ASSUME NEW kept, NEW id, kept \in Seq(OwnedRows) \/ kept \in Seq(ClientRows), id \in DOMAIN kept
      PROVE  /\ L!Holding(kept, id) \in TrackedRecords /\ id \in Nat
             /\ L!Holding(kept, id).id = id /\ ~L!Holding(kept, id).saving
  <2>1. id \in Nat /\ (kept[id] \in OwnedRows \/ kept[id] \in ClientRows)
    BY <1>3
  <2>2. kept[id].text \in LeadTexts
    BY <2>1 DEF OwnedRows, ClientRows
  <2> QED
    BY <2>1, <2>2 DEF L!Holding, TrackedRecords, Ids
<1> QED
  BY <1>1, <1>2, <1>3 DEF L!Cleared

LEMMA LeadInit == L!Init => LeadInv
<1> SUFFICES ASSUME L!Init
             PROVE  LeadInv
  OBVIOUS
<1> DEFINE Rows(owners) == [id \in DOMAIN owners |-> [client |-> owners[id], text |-> Blank]]
<1>1. /\ addresses = Rows(AddressOwners) /\ contacts = Rows(ContactOwners)
      /\ clients = [id \in 1 .. FirstClients |-> [text |-> Blank, billing |-> Blank]] /\ projects = <<>>
      /\ client = L!NewRecord /\ address = L!NewRecord /\ contact = L!NewRecord
      /\ selected_client = None /\ different = FALSE /\ contact_draft = None
      /\ billing_address = None /\ billing_draft = None /\ lead_save = None /\ refused = FALSE
  BY DEF L!Init
<1>2. \A owners \in Seq(1 .. FirstClients) : Rows(owners) \in Seq(OwnedRows)
  <2>1. ASSUME NEW owners \in Seq(1 .. FirstClients)
        PROVE  Rows(owners) \in Seq(OwnedRows)
    <3>1. DOMAIN owners = 1 .. Len(owners) /\ Len(owners) \in Nat
      BY <2>1
    <3>2. \A id \in 1 .. Len(owners) : owners[id] \in Nat
      BY <2>1, PagesAssumption DEF L!LeadAssumption
    <3>3. \A id \in 1 .. Len(owners) : Rows(owners)[id] \in OwnedRows
      BY <3>1, <3>2 DEF OwnedRows, LeadTexts
    <3> QED
      BY <3>1, <3>3
  <2> QED
    BY <2>1
<1>3. addresses \in Seq(OwnedRows) /\ contacts \in Seq(OwnedRows)
  BY <1>1, <1>2, PagesAssumption DEF L!LeadAssumption
<1>4. clients \in Seq(ClientRows) /\ projects \in Seq([client : Nat, address : Nat, contact : Nat, place : LeadTexts])
  <2>1. FirstClients \in Nat
    BY PagesAssumption DEF L!LeadAssumption
  <2>2. [text |-> Blank, billing |-> Blank] \in ClientRows
    BY DEF ClientRows, LeadTexts
  <2> QED
    BY <1>1, <2>1, <2>2
<1>5. LeadTypes
  BY <1>1, <1>3, <1>4, FreshRecords DEF LeadTypes
<1>6. LeadsAreWhole
  BY <1>1 DEF LeadsAreWhole
<1>7. PickedRowsAreTheClients /\ SaveIsOfThePicked /\ ContactFollows
  BY <1>1, FreshRecords DEF PickedRowsAreTheClients, SaveIsOfThePicked, ContactFollows
<1> QED
  BY <1>1, <1>5, <1>6, <1>7 DEF LeadInv

-----------------------------------------------------------------------------
\* What is picked belongs to the client: its rows are offered, and a new client has none.
LEMMA PickingKeepsLeads ==
  ASSUME LeadInv, ~refused, ~refused',
         \/ \E id \in DOMAIN clients : L!SetClient(id)
         \/ L!ClearClient
         \/ \E id \in DOMAIN addresses \cup {None} : L!SetSavedAddress(id)
         \/ \E id \in DOMAIN contacts \cup {None} : L!SetSavedContact(id)
  PROVE  LeadInv'
<1>1. /\ LeadTypes /\ LeadsAreWhole /\ PickedRowsAreTheClients /\ SaveIsOfThePicked /\ ContactFollows
      /\ client \in TrackedRecords /\ address \in TrackedRecords /\ contact \in TrackedRecords
      /\ clients \in Seq(ClientRows) /\ addresses \in Seq(OwnedRows) /\ contacts \in Seq(OwnedRows)
      /\ billing_address \in LeadTexts /\ different \in BOOLEAN
  BY DEF LeadInv, LeadTypes
<1>2. /\ UNCHANGED <<clients, addresses, contacts, projects, lead_save, different, contact_draft, billing_draft>>
      /\ refused' \in BOOLEAN
  <2>1. UNCHANGED <<clients, addresses, contacts, projects, lead_save, different, contact_draft, billing_draft>>
    BY DEF L!SetClient, L!ClearClient, L!SetSavedAddress, L!SetSavedContact, L!drafts, L!tables
  <2>2. refused \in BOOLEAN
    BY DEF LeadInv
  <2>3. \/ refused' \in {TRUE, refused}
        \/ refused' = (refused \/ address.saving) \/ refused' = (refused \/ contact.saving)
    BY Zenon DEF L!SetClient, L!ClearClient, L!SetSavedAddress, L!SetSavedContact
  <2> QED
    BY <2>1, <2>2, <2>3
<1>3. ASSUME client' \in TrackedRecords, address' \in TrackedRecords, contact' \in TrackedRecords,
             billing_address' \in LeadTexts,
             PickedRowsAreTheClients', SaveIsOfThePicked', ContactFollows'
      PROVE  LeadInv'
  BY <1>1, <1>2, <1>3, PageStepsKeepLeads DEF LeadTypes
<1>4. ASSUME NEW id \in DOMAIN clients, L!SetClient(id)
      PROVE  LeadInv'
  <2>1. ~client.saving
    BY <1>4 DEF L!SetClient
  <2>2. lead_save = None
    BY <1>1, <2>1 DEF SaveIsOfThePicked
  <2>3. client' = L!Holding(clients, id) /\ selected_client' = id /\ billing_address' = None
    BY <1>4, <2>1 DEF L!SetClient
  <2>4. \/ address' = L!Cleared
        \/ \E a \in L!RowsOf(addresses, id) : address' = L!Holding(addresses, a)
    BY <1>4, <2>1 DEF L!SetClient
  <2>5. \/ contact' = L!Cleared
        \/ \E k \in L!RowsOf(contacts, id) : contact' = L!Holding(contacts, k)
    BY <1>4, <2>1 DEF L!SetClient
  <2>6. client' \in TrackedRecords /\ client'.id = id /\ id \in Nat /\ client'.id # None
    BY <1>1, <2>3, FreshRecords
  <2>7. /\ address' \in TrackedRecords
        /\ address'.id # None => address'.id \in DOMAIN addresses /\ addresses[address'.id].client = id
    BY <1>1, <2>4, FreshRecords DEF L!RowsOf
  <2>8. /\ contact' \in TrackedRecords
        /\ contact'.id # None => contact'.id \in DOMAIN contacts /\ contacts[contact'.id].client = id
    BY <1>1, <2>5, FreshRecords DEF L!RowsOf
  <2>9. PickedRowsAreTheClients'
    BY <1>2, <2>3, <2>6, <2>7, <2>8 DEF PickedRowsAreTheClients
  <2>10. SaveIsOfThePicked' /\ ContactFollows'
    BY <1>2, <2>2, <2>6 DEF SaveIsOfThePicked, ContactFollows
  <2>11. billing_address' \in LeadTexts
    BY <2>3 DEF LeadTexts
  <2> QED
    BY <1>3, <2>6, <2>7, <2>8, <2>9, <2>10, <2>11
<1>5. CASE L!ClearClient
  <2>1. ~client.saving /\ lead_save = None
    BY <1>1, <1>5 DEF L!ClearClient, SaveIsOfThePicked
  <2>2. /\ client' = L!NewRecord /\ address' = L!NewRecord /\ selected_client' = None
        /\ contact' = L!ClearedContact /\ billing_address' = billing_address
    BY <1>5, <2>1, FreshRecords DEF L!ClearClient
  <2>3. contact' \in TrackedRecords /\ contact'.id = None /\ contact'.form = Blank
    BY <2>2, FreshRecords DEF L!ClearedContact, L!Follow, TrackedRecords
  <2>4. PickedRowsAreTheClients'
    BY <2>2, <2>3, FreshRecords DEF PickedRowsAreTheClients
  <2>5. SaveIsOfThePicked' /\ ContactFollows'
    BY <1>2, <2>1, <2>2, <2>3, FreshRecords DEF SaveIsOfThePicked, ContactFollows
  <2> QED
    BY <1>1, <1>3, <2>2, <2>3, <2>4, <2>5, FreshRecords
<1>6. ASSUME NEW id \in DOMAIN addresses \cup {None}, L!SetSavedAddress(id)
      PROVE  LeadInv'
  <2>1. ~address.saving /\ lead_save = None
    BY <1>1, <1>6 DEF L!SetSavedAddress, SaveIsOfThePicked
  <2>2. /\ client.id # None
        /\ id # None => selected_client # None /\ id \in L!RowsOf(addresses, selected_client)
        /\ address' = IF id = None THEN L!Cleared ELSE L!Holding(addresses, id)
        /\ UNCHANGED <<client, contact, selected_client, billing_address>>
    BY <1>6, <2>1 DEF L!SetSavedAddress
  <2>3. /\ address' \in TrackedRecords
        /\ address'.id # None => address'.id \in DOMAIN addresses /\ addresses[address'.id].client = client.id
    <3>1. CASE id = None
      BY <2>2, <3>1, FreshRecords
    <3>2. CASE id # None
      <4>1. id \in DOMAIN addresses /\ addresses[id].client = client.id
        BY <1>1, <2>2, <3>2 DEF L!RowsOf, PickedRowsAreTheClients
      <4> QED
        BY <1>1, <2>2, <3>2, <4>1, FreshRecords
    <3> QED
      BY <3>1, <3>2
  <2>4. PickedRowsAreTheClients'
    BY <1>1, <1>2, <2>2, <2>3 DEF PickedRowsAreTheClients
  <2>5. SaveIsOfThePicked' /\ ContactFollows'
    BY <1>1, <1>2, <2>1, <2>2 DEF SaveIsOfThePicked, ContactFollows
  <2> QED
    BY <1>1, <1>3, <2>2, <2>3, <2>4, <2>5
<1>7. ASSUME NEW id \in DOMAIN contacts \cup {None}, L!SetSavedContact(id)
      PROVE  LeadInv'
  <2>1. ~contact.saving /\ lead_save = None
    BY <1>1, <1>7 DEF L!SetSavedContact, SaveIsOfThePicked
  <2>2. /\ client.id # None
        /\ id # None => selected_client # None /\ id \in L!RowsOf(contacts, selected_client)
        /\ contact' = IF id = None THEN L!Cleared ELSE L!Holding(contacts, id)
        /\ UNCHANGED <<client, address, selected_client, billing_address>>
    BY <1>7, <2>1 DEF L!SetSavedContact
  <2>3. /\ contact' \in TrackedRecords
        /\ contact'.id # None => contact'.id \in DOMAIN contacts /\ contacts[contact'.id].client = client.id
    <3>1. CASE id = None
      BY <2>2, <3>1, FreshRecords
    <3>2. CASE id # None
      <4>1. id \in DOMAIN contacts /\ contacts[id].client = client.id
        BY <1>1, <2>2, <3>2 DEF L!RowsOf, PickedRowsAreTheClients
      <4> QED
        BY <1>1, <2>2, <3>2, <4>1, FreshRecords
    <3> QED
      BY <3>1, <3>2
  <2>4. PickedRowsAreTheClients'
    BY <1>1, <1>2, <2>2, <2>3 DEF PickedRowsAreTheClients
  <2>5. SaveIsOfThePicked' /\ ContactFollows'
    BY <1>1, <1>2, <2>1, <2>2 DEF SaveIsOfThePicked, ContactFollows
  <2> QED
    BY <1>1, <1>3, <2>2, <2>3, <2>4, <2>5
<1> QED
  BY <1>4, <1>5, <1>6, <1>7

-----------------------------------------------------------------------------
\* Typing, ticking, saving and failing change no id.
LEMMA SameIdsKeepLeads ==
  ASSUME LeadInv, ~refused, UNCHANGED <<selected_client, refused, clients, addresses, contacts, projects>>,
         client' \in TrackedRecords, address' \in TrackedRecords, contact' \in TrackedRecords,
         client'.id = client.id, address'.id = address.id, contact'.id = contact.id,
         different' \in BOOLEAN,
         billing_address' \in LeadTexts, billing_draft' \in LeadTexts, contact_draft' \in LeadTexts,
         ContactFollows',
         \/ lead_save' = None
         \/ /\ lead_save' = lead_save /\ client'.saving = client.saving
            /\ address'.saving = address.saving /\ contact'.saving = contact.saving
         \/ /\ client'.saving /\ address'.saving /\ contact'.saving
            /\ lead_save' \in [client : SentRecords, address : SentRecords, contact : SentRecords, billing : LeadTexts]
            /\ lead_save'.client.id = client.id /\ lead_save'.address.id = address.id
            /\ lead_save'.contact.id = contact.id
  PROVE  LeadInv'
<1>1. LeadTypes /\ LeadsAreWhole /\ PickedRowsAreTheClients /\ SaveIsOfThePicked
  BY DEF LeadInv
<1>2. PickedRowsAreTheClients'
  BY <1>1 DEF PickedRowsAreTheClients
<1>3. SaveIsOfThePicked'
  BY <1>1 DEF SaveIsOfThePicked
<1>4. lead_save' # None =>
        lead_save' \in [client : SentRecords, address : SentRecords, contact : SentRecords, billing : LeadTexts]
  BY <1>1 DEF LeadTypes
<1>5. refused' \in BOOLEAN
  BY DEF LeadInv
<1> QED
  BY <1>1, <1>2, <1>3, <1>4, <1>5, PageStepsKeepLeads

\* What an input makes of a record.
LEMMA TypedRecords ==
  ASSUME NEW r \in TrackedRecords, NEW said \in LeadTexts
  PROVE  LET edited == [r EXCEPT !.form = said]
         IN  edited \in TrackedRecords /\ edited.id = r.id /\ edited.saving = r.saving /\ edited.form = said
BY DEF TrackedRecords

LEMMA InputsKeepLeads ==
  ASSUME LeadInv, ~refused,
         \/ \E said \in Texts \cup {Blank} :
              L!TypeClient(said) \/ L!TypeAddress(said) \/ L!TypeContact(said) \/ L!TypeBilling(said)
         \/ L!SetDifferent
         \/ L!SetBillingIsDifferent
  PROVE  LeadInv'
<1>1. /\ LeadTypes /\ ContactFollows
      /\ client \in TrackedRecords /\ address \in TrackedRecords /\ contact \in TrackedRecords
      /\ billing_address \in LeadTexts /\ billing_draft \in LeadTexts /\ contact_draft \in LeadTexts
      /\ different \in BOOLEAN
      /\ PickedRowsAreTheClients
  BY DEF LeadInv, LeadTypes
<1>2. /\ client.form \in LeadTexts /\ address.form \in LeadTexts /\ contact.form \in LeadTexts
      /\ None \in LeadTexts
  BY <1>1 DEF TrackedRecords, LeadTexts
<1>3. ASSUME NEW said \in Texts \cup {Blank}, L!TypeClient(said)
      PROVE  LeadInv'
  <2>1. said \in LeadTexts
    BY DEF LeadTexts
  <2>2. client' = [client EXCEPT !.form = said]
    BY <1>3 DEF L!TypeClient
  <2>3. /\ contact' = IF client'.id = None /\ ~different THEN [contact EXCEPT !.form = client'.form] ELSE contact
        /\ UNCHANGED <<address, selected_client, billing_address, different, contact_draft, billing_draft,
                       lead_save, refused, clients, addresses, contacts, projects>>
    BY <1>3 DEF L!TypeClient, L!Follow, L!drafts, L!tables
  <2>4. client' \in TrackedRecords /\ client'.id = client.id /\ client'.saving = client.saving /\ client'.form = said
    BY <1>1, <2>1, <2>2, TypedRecords
  <2>5. /\ contact' \in TrackedRecords /\ contact'.id = contact.id /\ contact'.saving = contact.saving
        /\ client.id = None /\ ~different => contact'.form = said
    BY <1>1, <2>1, <2>3, <2>4, TypedRecords
  <2>6. ContactFollows'
    BY <2>3, <2>4, <2>5 DEF ContactFollows
  <2> QED
    BY <1>1, <2>3, <2>4, <2>5, <2>6, SameIdsKeepLeads
<1>4. ASSUME NEW said \in Texts \cup {Blank}, L!TypeAddress(said)
      PROVE  LeadInv'
  <2>1. said \in LeadTexts
    BY DEF LeadTexts
  <2>2. /\ address' = [address EXCEPT !.form = said]
        /\ UNCHANGED <<client, contact, selected_client, billing_address, different, contact_draft, billing_draft,
                       lead_save, refused, clients, addresses, contacts, projects>>
    BY <1>4 DEF L!TypeAddress, L!drafts, L!tables
  <2>3. address' \in TrackedRecords /\ address'.id = address.id /\ address'.saving = address.saving
    BY <1>1, <2>1, <2>2, TypedRecords
  <2>4. ContactFollows'
    BY <1>1, <2>2 DEF ContactFollows
  <2> QED
    BY <1>1, <2>2, <2>3, <2>4, SameIdsKeepLeads
<1>5. ASSUME NEW said \in Texts \cup {Blank}, L!TypeContact(said)
      PROVE  LeadInv'
  <2>1. said \in LeadTexts
    BY DEF LeadTexts
  <2>2. /\ contact' = [contact EXCEPT !.form = said]
        /\ client.id # None \/ different
        /\ UNCHANGED <<client, address, selected_client, billing_address, different, contact_draft, billing_draft,
                       lead_save, refused, clients, addresses, contacts, projects>>
    BY <1>5 DEF L!TypeContact, L!drafts, L!tables
  <2>3. contact' \in TrackedRecords /\ contact'.id = contact.id /\ contact'.saving = contact.saving
    BY <1>1, <2>1, <2>2, TypedRecords
  <2>4. ContactFollows'
    BY <2>2 DEF ContactFollows
  <2> QED
    BY <1>1, <2>2, <2>3, <2>4, SameIdsKeepLeads
<1>6. ASSUME NEW said \in Texts \cup {Blank}, L!TypeBilling(said)
      PROVE  LeadInv'
  <2>1. said \in LeadTexts
    BY DEF LeadTexts
  <2>2. /\ billing_address' = said
        /\ UNCHANGED <<client, address, contact, selected_client, different, contact_draft, billing_draft,
                       lead_save, refused, clients, addresses, contacts, projects>>
    BY <1>6 DEF L!TypeBilling, L!drafts, L!tables
  <2>3. ContactFollows'
    BY <1>1, <2>2 DEF ContactFollows
  <2> QED
    BY <1>1, <2>1, <2>2, <2>3, SameIdsKeepLeads
<1>7. CASE L!SetDifferent
  <2>1. /\ client.id = None /\ different' = ~different
        /\ contact_draft' = IF different THEN contact.form ELSE contact_draft
        /\ UNCHANGED <<client, address, selected_client, billing_address, billing_draft,
                       lead_save, refused, clients, addresses, contacts, projects>>
    BY <1>7 DEF L!SetDifferent, L!tables
  <2>2. \/ different /\ contact' = [contact EXCEPT !.form = client.form]
        \/ ~different /\ contact' = [contact EXCEPT !.form = contact_draft]
        \/ ~different /\ contact' = contact
    BY <1>7, <2>1 DEF L!SetDifferent, L!Follow
  <2>3. /\ contact' \in TrackedRecords /\ contact'.id = contact.id /\ contact'.saving = contact.saving
        /\ different => contact'.form = client.form
    <3>1. CASE different /\ contact' = [contact EXCEPT !.form = client.form]
      BY <1>1, <1>2, <3>1, TypedRecords
    <3>2. CASE ~different /\ contact' = [contact EXCEPT !.form = contact_draft]
      BY <1>1, <1>2, <3>2, TypedRecords
    <3> QED
      BY <1>1, <2>2, <3>1, <3>2
  <2>4. ContactFollows' /\ different' \in BOOLEAN /\ contact_draft' \in LeadTexts
    BY <1>1, <1>2, <2>1, <2>3 DEF ContactFollows
  <2> QED
    BY <1>1, <2>1, <2>3, <2>4, SameIdsKeepLeads
<1>8. CASE L!SetBillingIsDifferent
  <2>1. UNCHANGED <<client, address, contact, selected_client, different, contact_draft,
                    lead_save, refused, clients, addresses, contacts, projects>>
    BY <1>8 DEF L!SetBillingIsDifferent, L!tables
  <2>2. {billing_address', billing_draft'} \subseteq {billing_address, billing_draft, address.form, None}
    BY <1>8 DEF L!SetBillingIsDifferent
  <2>3. ContactFollows' /\ billing_address' \in LeadTexts /\ billing_draft' \in LeadTexts
    BY <1>1, <1>2, <2>1, <2>2 DEF ContactFollows
  <2> QED
    BY <1>1, <2>1, <2>3, SameIdsKeepLeads
<1> QED
  BY <1>3, <1>4, <1>5, <1>6, <1>7, <1>8

\* A save begins with the ids that are shown, and one that fails leaves them.
LEMMA SavingKeepsLeads ==
  ASSUME LeadInv, ~refused, L!Submit \/ L!SaveFails
  PROVE  LeadInv'
<1>1. /\ LeadTypes /\ ContactFollows
      /\ client \in TrackedRecords /\ address \in TrackedRecords /\ contact \in TrackedRecords
      /\ billing_address \in LeadTexts /\ billing_draft \in LeadTexts /\ contact_draft \in LeadTexts
      /\ different \in BOOLEAN
  BY DEF LeadInv, LeadTypes
<1>2. ASSUME NEW r \in TrackedRecords, NEW flag \in BOOLEAN
      PROVE  LET saved == [r EXCEPT !.saving = flag]
             IN  saved \in TrackedRecords /\ saved.id = r.id /\ saved.form = r.form /\ saved.saving = flag
  BY DEF TrackedRecords
<1>3. ASSUME NEW r \in TrackedRecords
      PROVE  L!Sent(r) \in SentRecords /\ L!Sent(r).id = r.id
  BY DEF TrackedRecords, SentRecords, L!Sent, LeadTexts
<1>4. CASE L!Submit
  <2>1. /\ lead_save' = [client |-> L!Sent(client), address |-> L!Sent(address), contact |-> L!Sent(contact),
                         billing |-> billing_address]
        /\ client' = [client EXCEPT !.saving = TRUE]
        /\ address' = [address EXCEPT !.saving = TRUE]
        /\ contact' = [contact EXCEPT !.saving = TRUE]
        /\ UNCHANGED <<selected_client, billing_address, different, contact_draft, billing_draft,
                       refused, clients, addresses, contacts, projects>>
    BY <1>4 DEF L!Submit, L!drafts, L!tables
  <2>2. /\ client' \in TrackedRecords /\ client'.id = client.id /\ client'.form = client.form /\ client'.saving
        /\ address' \in TrackedRecords /\ address'.id = address.id /\ address'.saving
        /\ contact' \in TrackedRecords /\ contact'.id = contact.id /\ contact'.form = contact.form /\ contact'.saving
    BY <1>1, <1>2, <2>1
  <2>3. /\ lead_save' \in [client : SentRecords, address : SentRecords, contact : SentRecords, billing : LeadTexts]
        /\ lead_save'.client.id = client.id /\ lead_save'.address.id = address.id
        /\ lead_save'.contact.id = contact.id
    BY <1>1, <1>3, <2>1
  <2>4. ContactFollows'
    BY <1>1, <2>1, <2>2 DEF ContactFollows
  <2> QED
    BY <1>1, <2>1, <2>2, <2>3, <2>4, SameIdsKeepLeads
<1>5. CASE L!SaveFails
  <2>1. /\ lead_save' = None
        /\ client' = [client EXCEPT !.saving = FALSE]
        /\ address' = [address EXCEPT !.saving = FALSE]
        /\ contact' = [contact EXCEPT !.saving = FALSE]
        /\ UNCHANGED <<selected_client, billing_address, different, contact_draft, billing_draft,
                       refused, clients, addresses, contacts, projects>>
    BY <1>5 DEF L!SaveFails, L!Discarded, L!drafts, L!tables
  <2>2. /\ client' \in TrackedRecords /\ client'.id = client.id /\ client'.form = client.form
        /\ address' \in TrackedRecords /\ address'.id = address.id
        /\ contact' \in TrackedRecords /\ contact'.id = contact.id /\ contact'.form = contact.form
    BY <1>1, <1>2, <2>1
  <2>3. ContactFollows'
    BY <1>1, <2>1, <2>2 DEF ContactFollows
  <2> QED
    BY <1>1, <2>1, <2>2, <2>3, SameIdsKeepLeads
<1> QED
  BY <1>4, <1>5

LEMMA LeavingKeepsLeads ==
  ASSUME LeadInv, ~refused, L!Leave
  PROVE  LeadInv'
<1>1. LeadTypes /\ LeadsAreWhole /\ refused \in BOOLEAN
  BY DEF LeadInv
<1>2. /\ client' = L!NewRecord /\ address' = L!NewRecord /\ contact' = L!NewRecord
      /\ selected_client' = None /\ different' = FALSE /\ contact_draft' = None
      /\ billing_address' = None /\ billing_draft' = None /\ lead_save' = None
      /\ UNCHANGED <<refused, clients, addresses, contacts, projects>>
  BY DEF L!Leave, L!tables
<1>3. PickedRowsAreTheClients' /\ SaveIsOfThePicked' /\ ContactFollows'
  BY <1>2, FreshRecords DEF PickedRowsAreTheClients, SaveIsOfThePicked, ContactFollows
<1> QED
  BY <1>1, <1>2, <1>3, FreshRecords, PageStepsKeepLeads

-----------------------------------------------------------------------------
(* create_lead.                                                            *)

\* The table of a client's rows after one of them was made or changed: its id is there, no row changes its
\* owner, and a row that is made has the one it was made with.
LEMMA UpsertsKeepOwners ==
  ASSUME NEW kept \in Seq(OwnedRows), NEW sent \in SentRecords, NEW owner \in Nat,
         sent.id # None => sent.id \in DOMAIN kept
  PROVE  LET id == L!Id(sent, kept)  after == L!Upserted(kept, sent, owner)
         IN  /\ after \in Seq(OwnedRows)
             /\ id \in DOMAIN after /\ id \in Nat
             /\ after[id].client = (IF sent.id = None THEN owner ELSE kept[id].client)
             /\ \A i \in DOMAIN kept : i \in DOMAIN after /\ after[i].client = kept[i].client
<1> DEFINE id == L!Id(sent, kept)
           after == L!Upserted(kept, sent, owner)
<1>1. sent.text \in LeadTexts /\ Len(kept) \in Nat /\ DOMAIN kept = 1 .. Len(kept)
  BY DEF SentRecords
<1>2. CASE sent.id = None
  <2> DEFINE row == [client |-> owner, text |-> sent.text]
  <2>1. row \in OwnedRows /\ row.client = owner
    BY <1>1 DEF OwnedRows
  <2>2. id = Len(kept) + 1 /\ after = Append(kept, row)
    BY <1>2 DEF L!Id, L!Upserted
  <2> HIDE DEF row, id, after
  <2>3. /\ after \in Seq(OwnedRows) /\ Len(after) = Len(kept) + 1
        /\ \A i \in 1 .. Len(kept) : after[i] = kept[i]
        /\ after[Len(kept) + 1] = row
    BY <2>1, <2>2, AppendProperties, ZenonT(60)
  <2>4. DOMAIN after = 1 .. Len(kept) + 1
    BY <1>1, <2>3
  <2> QED
    BY <1>1, <1>2, <2>1, <2>2, <2>3, <2>4 DEF id, after
<1>3. CASE sent.id # None
  <2>1. id = sent.id /\ id \in DOMAIN kept
    BY <1>3 DEF L!Id
  <2>2. after = kept \/ after = [kept EXCEPT ![sent.id].text = sent.text]
    BY <1>3 DEF L!Upserted
  <2>3. kept[id] \in OwnedRows
    BY <2>1
  <2> DEFINE row == [kept[id] EXCEPT !.text = sent.text]
  <2>4. row \in OwnedRows /\ row.client = kept[id].client
    BY <1>1, <2>3 DEF OwnedRows
  <2>5. after = kept \/ after = [kept EXCEPT ![id] = row]
    BY <2>1, <2>2
  <2> HIDE DEF row, id, after
  <2>6. /\ after \in Seq(OwnedRows) /\ DOMAIN after = DOMAIN kept
        /\ after[id].client = kept[id].client
        /\ \A i \in DOMAIN kept : after[i].client = kept[i].client
    BY <2>1, <2>4, <2>5
  <2> QED
    BY <1>1, <1>3, <2>1, <2>6 DEF id, after
<1> QED
  BY <1>2, <1>3

LEMMA CommittedRecords ==
  ASSUME NEW r \in TrackedRecords, NEW sent \in SentRecords, NEW id \in Nat
  PROVE  /\ L!Committed(r, sent, id) \in TrackedRecords /\ L!Committed(r, sent, id).id = id
         /\ L!Discarded(r) \in TrackedRecords /\ L!Discarded(r).id = r.id /\ L!Discarded(r).form = r.form
<1>1. r.in_db \in LeadTexts /\ sent.text \in LeadTexts /\ id \in Ids
  BY DEF TrackedRecords, SentRecords, Ids
<1>2. L!Discarded(r) \in TrackedRecords /\ L!Discarded(r).id = r.id /\ L!Discarded(r).form = r.form
  BY DEF L!Discarded, TrackedRecords
<1> DEFINE said == IF sent.text = None THEN r.in_db ELSE sent.text
<1>3. L!Committed(r, sent, id) = [r EXCEPT !.id = id, !.in_db = said, !.saving = FALSE]
  BY DEF L!Committed
<1>4. said \in LeadTexts
  BY <1>1
<1> HIDE DEF said
<1> QED
  BY <1>1, <1>2, <1>3, <1>4 DEF TrackedRecords

\* create_lead: the lead, its client, address and contact belong together, whichever of them are new.
LEMMA CreatingKeepsLeads ==
  ASSUME LeadInv, ~refused, NEW answered \in BOOLEAN, L!CreateLead(answered)
  PROVE  LeadInv'
<1> DEFINE c == L!Id(lead_save.client, clients)
           a == L!Id(lead_save.address, addresses)
           k == L!Id(lead_save.contact, contacts)
           lead == [client |-> c, address |-> a, contact |-> k, place |-> addresses'[a].text]
<1>1. /\ LeadTypes /\ LeadsAreWhole /\ PickedRowsAreTheClients /\ SaveIsOfThePicked /\ ContactFollows
      /\ client \in TrackedRecords /\ address \in TrackedRecords /\ contact \in TrackedRecords
      /\ clients \in Seq(ClientRows) /\ addresses \in Seq(OwnedRows) /\ contacts \in Seq(OwnedRows)
      /\ projects \in Seq([client : Nat, address : Nat, contact : Nat, place : LeadTexts])
      /\ refused \in BOOLEAN
  BY DEF LeadInv, LeadTypes
<1>2. /\ addresses' = L!Upserted(addresses, lead_save.address, c)
      /\ contacts' = L!Upserted(contacts, lead_save.contact, c)
      /\ projects' = Append(projects, lead)
      /\ client' = IF answered THEN L!Committed(client, lead_save.client, c) ELSE L!Discarded(client)
      /\ address' = IF answered THEN L!Committed(address, lead_save.address, a) ELSE L!Discarded(address)
      /\ contact' = IF answered THEN L!Committed(contact, lead_save.contact, k) ELSE L!Discarded(contact)
      /\ lead_save # None /\ lead_save' = None
      /\ UNCHANGED <<selected_client, billing_address, different, contact_draft, billing_draft, refused>>
  BY DEF L!CreateLead, L!drafts
<1>3. /\ lead_save.client \in SentRecords /\ lead_save.address \in SentRecords /\ lead_save.contact \in SentRecords
      /\ lead_save.billing \in LeadTexts
      /\ lead_save.client.id = client.id /\ lead_save.address.id = address.id
      /\ lead_save.contact.id = contact.id
  BY <1>1, <1>2 DEF LeadTypes, SaveIsOfThePicked
<1>4. /\ c \in Nat /\ Len(clients) \in Nat
      /\ client.id # None => c = client.id /\ c \in DOMAIN clients
      /\ client.id = None => c = Len(clients) + 1
  BY <1>1, <1>3 DEF L!Id, PickedRowsAreTheClients
<1> HIDE DEF c
<1>5. /\ addresses' \in Seq(OwnedRows) /\ a \in DOMAIN addresses' /\ a \in Nat
      /\ addresses'[a].client = c
      /\ \A i \in DOMAIN addresses : i \in DOMAIN addresses' /\ addresses'[i].client = addresses[i].client
      /\ address.id # None => a = address.id
  <2>1. address.id # None => address.id \in DOMAIN addresses /\ addresses[address.id].client = c
    BY <1>1, <1>4 DEF PickedRowsAreTheClients
  <2>2. address.id # None => a = address.id
    BY <1>3 DEF L!Id
  <2>3. /\ addresses' \in Seq(OwnedRows) /\ a \in DOMAIN addresses' /\ a \in Nat
        /\ addresses'[a].client = (IF address.id = None THEN c ELSE addresses[a].client)
        /\ \A i \in DOMAIN addresses : i \in DOMAIN addresses' /\ addresses'[i].client = addresses[i].client
    BY <1>1, <1>2, <1>3, <1>4, <2>1, UpsertsKeepOwners, ZenonT(60)
  <2> HIDE DEF a
  <2> QED
    BY <2>1, <2>2, <2>3
<1>6. /\ contacts' \in Seq(OwnedRows) /\ k \in DOMAIN contacts' /\ k \in Nat
      /\ contacts'[k].client = c
      /\ \A i \in DOMAIN contacts : i \in DOMAIN contacts' /\ contacts'[i].client = contacts[i].client
      /\ contact.id # None => k = contact.id
  <2>1. contact.id # None => contact.id \in DOMAIN contacts /\ contacts[contact.id].client = c
    BY <1>1, <1>4 DEF PickedRowsAreTheClients
  <2>2. contact.id # None => k = contact.id
    BY <1>3 DEF L!Id
  <2>3. /\ contacts' \in Seq(OwnedRows) /\ k \in DOMAIN contacts' /\ k \in Nat
        /\ contacts'[k].client = (IF contact.id = None THEN c ELSE contacts[k].client)
        /\ \A i \in DOMAIN contacts : i \in DOMAIN contacts' /\ contacts'[i].client = contacts[i].client
    BY <1>1, <1>2, <1>3, <1>4, <2>1, UpsertsKeepOwners, ZenonT(60)
  <2> HIDE DEF k
  <2> QED
    BY <2>1, <2>2, <2>3
<1> HIDE DEF a, k
<1>7. clients' \in Seq(ClientRows) /\ c \in DOMAIN clients'
  <2> DEFINE billing == IF lead_save.billing = None THEN addresses'[a].text ELSE lead_save.billing
             row == [text |-> lead_save.client.text, billing |-> billing]
  <2>1. clients' = IF lead_save.client.id = None THEN Append(clients, row)
                   ELSE IF lead_save.client.text = None THEN clients
                   ELSE [clients EXCEPT ![c].text = lead_save.client.text]
    BY DEF L!CreateLead, c, a
  <2>2. lead_save.client.text \in LeadTexts /\ billing \in LeadTexts
    <3>1. addresses'[a] \in OwnedRows
      BY <1>5
    <3> QED
      BY <1>3, <3>1 DEF OwnedRows, SentRecords
  <2>3. row \in ClientRows
    BY <2>2 DEF ClientRows
  <2> HIDE DEF row
  <2>4. CASE client.id = None
    <3>1. clients' = Append(clients, row)
      BY <1>3, <2>1, <2>4
    <3>2. clients' \in Seq(ClientRows) /\ Len(clients') = Len(clients) + 1
      BY <1>1, <2>3, <3>1, AppendProperties, Zenon
    <3>3. DOMAIN clients' = 1 .. Len(clients) + 1
      BY <3>2
    <3>4. c \in 1 .. Len(clients) + 1
      BY <1>4, <2>4
    <3> QED
      BY <3>2, <3>3, <3>4
  <2>5. CASE client.id # None
    <3>1. c \in DOMAIN clients /\ clients[c] \in ClientRows
      BY <1>1, <1>4, <2>5
    <3> DEFINE changed == [clients[c] EXCEPT !.text = lead_save.client.text]
    <3>2. changed \in ClientRows
      BY <2>2, <3>1 DEF ClientRows
    <3>3. clients' = clients \/ clients' = [clients EXCEPT ![c] = changed]
      BY <1>3, <2>1, <2>5
    <3> HIDE DEF changed
    <3>4. CASE clients' = clients
      BY <1>1, <3>1, <3>4
    <3>5. CASE clients' = [clients EXCEPT ![c] = changed]
      BY <1>1, <3>1, <3>2, <3>5
    <3> QED
      BY <3>3, <3>4, <3>5
  <2> QED
    BY <2>4, <2>5
<1>8. /\ projects' \in Seq([client : Nat, address : Nat, contact : Nat, place : LeadTexts])
      /\ LeadsAreWhole'
  <2> DEFINE Leads == [client : Nat, address : Nat, contact : Nat, place : LeadTexts]
  <2>1. addresses'[a] \in OwnedRows
    BY <1>5
  <2>2. lead \in Leads /\ lead.client = c /\ lead.address = a /\ lead.contact = k
    BY <1>4, <1>5, <1>6, <2>1 DEF OwnedRows
  <2> HIDE DEF lead, Leads
  <2>3. projects \in Seq(Leads)
    BY <1>1 DEF Leads
  <2>4. /\ projects' \in Seq(Leads) /\ Len(projects') = Len(projects) + 1
        /\ \A i \in 1 .. Len(projects) : projects'[i] = projects[i]
        /\ projects'[Len(projects) + 1] = lead
    BY <1>2, <2>2, <2>3, AppendProperties, ZenonT(60)
  <2>5. DOMAIN projects' = 1 .. Len(projects) + 1 /\ DOMAIN projects = 1 .. Len(projects) /\ Len(projects) \in Nat
    BY <2>3, <2>4
  <2>6. ASSUME NEW i \in DOMAIN projects'
        PROVE  /\ projects'[i].address \in DOMAIN addresses'
               /\ addresses'[projects'[i].address].client = projects'[i].client
               /\ projects'[i].contact \in DOMAIN contacts'
               /\ contacts'[projects'[i].contact].client = projects'[i].client
    <3>1. CASE i \in DOMAIN projects
      <4>1. projects'[i] = projects[i]
        BY <2>4, <2>5, <3>1
      <4> QED
        BY <1>1, <1>5, <1>6, <3>1, <4>1, ZenonT(60) DEF LeadsAreWhole
    <3>2. CASE i \notin DOMAIN projects
      <4>1. projects'[i] = lead
        BY <2>4, <2>5, <2>6, <3>2
      <4> QED
        BY <1>5, <1>6, <2>2, <4>1
    <3> QED
      BY <3>1, <3>2
  <2> QED
    BY <2>4, <2>6 DEF LeadsAreWhole, Leads
<1>9. /\ client' \in TrackedRecords /\ address' \in TrackedRecords /\ contact' \in TrackedRecords
      /\ answered => client'.id = c /\ address'.id = a /\ contact'.id = k
      /\ ~answered => client'.id = client.id /\ address'.id = address.id /\ contact'.id = contact.id
                      /\ client'.form = client.form /\ contact'.form = contact.form
  BY <1>1, <1>2, <1>3, <1>4, <1>5, <1>6, CommittedRecords
<1>10. LeadTypes'
  BY <1>1, <1>2, <1>5, <1>6, <1>7, <1>8, <1>9 DEF LeadTypes
<1>11. PickedRowsAreTheClients'
  <2>1. None \notin Nat
    BY FreshRecords
  <2>2. CASE answered
    BY <1>1, <1>2, <1>4, <1>5, <1>6, <1>7, <1>9, <2>1, <2>2 DEF PickedRowsAreTheClients
  <2>3. CASE ~answered
    BY <1>1, <1>2, <1>4, <1>5, <1>6, <1>7, <1>9, <2>3 DEF PickedRowsAreTheClients
  <2> QED
    BY <2>2, <2>3
<1>12. SaveIsOfThePicked' /\ ContactFollows'
  BY <1>1, <1>2, <1>4, <1>9, FreshRecords DEF SaveIsOfThePicked, ContactFollows
<1> QED
  BY <1>1, <1>2, <1>8, <1>10, <1>11, <1>12 DEF LeadInv

LEMMA LeadNext == LeadInv /\ [L!Next]_of_lead => LeadInv'
<1> SUFFICES ASSUME LeadInv, [L!Next]_of_lead
             PROVE  LeadInv'
  OBVIOUS
<1>1. CASE UNCHANGED of_lead
  BY <1>1 DEF of_lead, LeadInv, LeadTypes, LeadsAreWhole, PickedRowsAreTheClients, SaveIsOfThePicked, ContactFollows
<1>2. CASE L!Next
  <2>1. refused' \in BOOLEAN /\ (refused => refused')
    <3>1. refused \in BOOLEAN
      BY DEF LeadInv
    <3>2. \/ refused' \in {TRUE, refused}
          \/ refused' = (refused \/ address.saving) \/ refused' = (refused \/ contact.saving)
      BY <1>2, ZenonT(60)
         DEF L!Next, L!SetClient, L!ClearClient, L!SetSavedAddress, L!SetSavedContact, L!TypeClient,
             L!TypeAddress, L!TypeContact, L!TypeBilling, L!SetDifferent, L!SetBillingIsDifferent,
             L!Submit, L!CreateLead, L!SaveFails, L!Leave
    <3> QED
      BY <3>1, <3>2
  <2>2. CASE refused'
    BY <2>1, <2>2 DEF LeadInv
  <2>3. CASE ~refused'
    <3>1. ~refused
      BY <2>1, <2>3
    <3> QED
      BY <1>2, <2>3, <3>1, PickingKeepsLeads, InputsKeepLeads, SavingKeepsLeads, LeavingKeepsLeads,
         CreatingKeepsLeads DEF L!Next
  <2> QED
    BY <2>2, <2>3
<1> QED
  BY <1>1, <1>2

\* Whatever was picked, cleared, ticked and typed before: a lead has an address and a contact of its own
\* client, and a new client whose contact was not said to be another is its own contact
\* (lead_form.svelte.ts:60-80, lead.fns.ts:91-110).  It takes that no record ever threw.
THEOREM LeadsBelongTogether == MCSpec => []LeadsAreOneClients
<1>1. MCInit => LeadInv
  BY LeadInit DEF MCInit
<1>2. LeadInv /\ [MCNext]_<<of_pages, of_others, side>> => LeadInv'
  <2>1. [MCNext]_<<of_pages, of_others, side>> => [L!Next]_of_lead
    BY DEF MCNext, PageNext, of_pages
  <2> QED
    BY <2>1, LeadNext
<1>3. LeadInv => LeadsAreOneClients
  <2> SUFFICES ASSUME LeadInv, ~refused
               PROVE  L!LeadsAreOneClients
    BY DEF LeadsAreOneClients, L!LeadsAreOneClients
  <2>1. client.id = None => contact.id = None
    BY DEF LeadInv, PickedRowsAreTheClients
  <2> QED
    BY <2>1 DEF LeadInv, LeadsAreWhole, ContactFollows, L!LeadsAreOneClients
<1> QED
  BY <1>1, <1>2, <1>3, PTL DEF MCSpec

-----------------------------------------------------------------------------
(* ClientForm.                                                             *)

(* The values of the form of a client, of a save on its way and of the table. *)
FormTexts == Texts \cup {Blank}
FormRecords == [text : FormTexts, text_in_db : FormTexts \cup {None}, id : Nat \cup {None}]
FormTypes ==
    /\ records \in Seq(FormRecords)
    /\ rows \subseteq DOMAIN records
    /\ last_id \in Nat /\ DOMAIN client_contacts \subseteq 1 .. last_id
    /\ client_save # None =>
         /\ client_save.removed \subseteq Nat
         /\ DOMAIN client_save.added \subseteq DOMAIN records /\ DOMAIN client_save.changed \subseteq DOMAIN records
         /\ \A r \in DOMAIN client_save.added : client_save.added[r] \in FormTexts
         /\ \A r \in DOMAIN client_save.changed : client_save.changed[r] \in [id : Nat, text : FormTexts]
\* No two records are stored as one row, and no id is of a row to come.
RecordsHaveTheirIds ==
    \A r \in DOMAIN records : records[r].id # None =>
        /\ records[r].id \in 1 .. last_id
        /\ \A other \in DOMAIN records : records[other].id = records[r].id => other = r
\* A record knows what is stored under its id.
RecordsKnowTheirRows ==
    \A r \in DOMAIN records :
        records[r].id \in DOMAIN client_contacts => client_contacts[records[r].id] = records[r].text_in_db
\* The page knows every stored row, and none that it shows is gone.
PageKnowsTheContacts ==
    /\ ids_in_db = DOMAIN client_contacts
    /\ \A r \in rows : records[r].id # None => records[r].id \in DOMAIN client_contacts
\* A save on its way is of the records as they are known: it removes none that the page shows.
SaveFitsTheRecords ==
    client_save # None =>
        /\ \A r \in DOMAIN client_save.added : records[r].id = None
        /\ \A r \in DOMAIN client_save.changed : records[r].id = client_save.changed[r].id
        /\ \A r \in rows : records[r].id \notin client_save.removed
\* All of it as long as no answer of a save that was done got lost.
FormInv ==
    /\ client_lost \in Nat
    /\ client_lost = 0 =>
         /\ FormTypes /\ RecordsHaveTheirIds /\ RecordsKnowTheirRows
         /\ PageKnowsTheContacts /\ SaveFitsTheRecords

\* The places of some numbers, in their order, are different numbers up to how many they are.
LEMMA PlacesInOrder ==
  ASSUME NEW Ranks \in SUBSET Nat, IsFiniteSet(Ranks)
  PROVE  LET Place(r) == Cardinality({other \in Ranks : other <= r})
         IN  /\ Cardinality(Ranks) \in Nat
             /\ \A r \in Ranks : Place(r) \in 1 .. Cardinality(Ranks)
             /\ \A r, s \in Ranks : Place(r) = Place(s) => r = s
<1> DEFINE Below(r) == {other \in Ranks : other <= r}
<1>1. Cardinality(Ranks) \in Nat
  BY FS_CardinalityType
<1>2. ASSUME NEW r \in Ranks
      PROVE  IsFiniteSet(Below(r)) /\ Cardinality(Below(r)) \in 1 .. Cardinality(Ranks)
  <2>1. Below(r) \subseteq Ranks /\ r \in Below(r)
    OBVIOUS
  <2> HIDE DEF Below
  <2>2. IsFiniteSet(Below(r)) /\ Cardinality(Below(r)) <= Cardinality(Ranks)
    BY <2>1, FS_Subset
  <2>3. Cardinality(Below(r)) \in Nat /\ Cardinality(Below(r)) # 0
    BY <2>1, <2>2, FS_CardinalityType, FS_EmptySet
  <2> QED
    BY <1>1, <2>2, <2>3
<1>3. ASSUME NEW r \in Ranks, NEW s \in Ranks, Cardinality(Below(r)) = Cardinality(Below(s))
      PROVE  r = s
  <2>1. Below(r) \subseteq Below(s) \/ Below(s) \subseteq Below(r)
    <3>1. r \in Nat /\ s \in Nat /\ \A other \in Ranks : other \in Nat
      OBVIOUS
    <3>2. CASE r <= s
      <4>1. \A other \in Ranks : other <= r => other <= s
        BY <3>1, <3>2
      <4> QED
        BY <4>1
    <3>3. CASE s <= r
      <4>1. \A other \in Ranks : other <= s => other <= r
        BY <3>1, <3>3
      <4> QED
        BY <4>1
    <3> QED
      BY <3>1, <3>2, <3>3
  <2>2. r \in Below(r) /\ s \in Below(s)
    OBVIOUS
  <2>3. Below(r) = Below(s)
    <3> HIDE DEF Below
    <3> QED
      BY <1>2, <1>3, <2>1, FS_Subset
  <2> QED
    BY <2>2, <2>3
<1> QED
  BY <1>1, <1>2, <1>3

\* The effect keeps the records and adds an empty one at most.
LEMMA SettlingKeepsRecords ==
  ASSUME NEW made \in Seq(FormRecords), NEW showing \in SUBSET DOMAIN made, C!Settle(made, showing)
  PROVE  /\ records' \in Seq(FormRecords) /\ rows' \subseteq DOMAIN records'
         /\ \A r \in DOMAIN made : r \in DOMAIN records' /\ records'[r] = made[r]
         /\ \A r \in DOMAIN records' : r \in DOMAIN made \/ records'[r] = C!NewRecord
         /\ \A r \in rows' : r \in showing \/ records'[r] = C!NewRecord
<1>1. \/ records' = made /\ rows' = showing
      \/ records' = Append(made, C!NewRecord) /\ rows' = showing \cup {Len(made) + 1}
  BY DEF C!Settle
<1>2. C!NewRecord \in FormRecords
  BY DEF C!NewRecord, FormRecords, FormTexts
<1>3. CASE records' = made /\ rows' = showing
  BY <1>3
<1>4. CASE records' = Append(made, C!NewRecord) /\ rows' = showing \cup {Len(made) + 1}
  <2>1. /\ records' \in Seq(FormRecords) /\ Len(records') = Len(made) + 1
        /\ \A i \in 1 .. Len(made) : records'[i] = made[i]
        /\ records'[Len(made) + 1] = C!NewRecord
    BY <1>2, <1>4, AppendProperties, ZenonT(60)
  <2>2. DOMAIN records' = 1 .. Len(made) + 1 /\ DOMAIN made = 1 .. Len(made) /\ Len(made) \in Nat
    BY <2>1
  <2> DEFINE n == Len(made)
  <2>3. n + 1 \in 1 .. n + 1 /\ 1 .. n \subseteq 1 .. n + 1 /\ \A r \in 1 .. n + 1 : r \in 1 .. n \/ r = n + 1
    BY <2>2
  <2> HIDE DEF n
  <2> QED
    BY <1>4, <2>1, <2>2, <2>3 DEF n
<1> QED
  BY <1>1, <1>3, <1>4

LEMMA NoId == None \notin Nat /\ C!NewRecord.id = None
BY PagesAssumption DEF C!FormAssumption, C!NewRecord

LEMMA FormInit == C!Init => FormInv
<1> SUFFICES ASSUME C!Init
             PROVE  FormInv
  OBVIOUS
<1> DEFINE n == Len(Contacts)
           first == [id \in DOMAIN Contacts |-> [text |-> Contacts[id], text_in_db |-> Contacts[id], id |-> id]]
<1>1. /\ client_contacts = Contacts /\ records = Append(first, C!NewRecord)
      /\ rows = 1 .. n + 1 /\ ids_in_db = DOMAIN Contacts /\ last_id = n
      /\ client_save = None /\ client_lost = 0
  BY DEF C!Init
<1>2. /\ Contacts \in Seq(Texts) /\ n \in Nat /\ DOMAIN Contacts = 1 .. n
      /\ \A id \in 1 .. n : Contacts[id] \in FormTexts
  BY PagesAssumption DEF C!FormAssumption, FormTexts
<1>3. C!NewRecord \in FormRecords
  BY DEF C!NewRecord, FormRecords, FormTexts
<1>4. first \in Seq(FormRecords) /\ Len(first) = n /\ \A id \in 1 .. n : first[id].id = id /\ first[id].text_in_db = Contacts[id]
  <2>1. \A id \in 1 .. n : first[id] \in FormRecords
    BY <1>2 DEF FormRecords
  <2> QED
    BY <1>2, <2>1
<1> HIDE DEF first, n
<1>5. /\ records \in Seq(FormRecords) /\ Len(records) = n + 1
      /\ \A id \in 1 .. n : records[id] = first[id]
      /\ records[n + 1] = C!NewRecord
  <2>1. /\ records \in Seq(FormRecords) /\ Len(records) = Len(first) + 1
        /\ \A id \in 1 .. Len(first) : records[id] = first[id]
        /\ records[Len(first) + 1] = C!NewRecord
    <3>1. records = Append(first, C!NewRecord) /\ first \in Seq(FormRecords)
      BY <1>1, <1>4
    <3> QED
      BY <1>3, <3>1, AppendProperties, ZenonT(60)
  <2> QED
    BY <1>4, <2>1
<1>6. DOMAIN records = 1 .. n + 1
  BY <1>5
<1>7. \A r \in DOMAIN records :
        \/ r \in 1 .. n /\ records[r].id = r /\ records[r].text_in_db = Contacts[r]
        \/ records[r].id = None
  BY <1>2, <1>4, <1>5, <1>6, NoId
<1>8. FormTypes
  BY <1>1, <1>2, <1>5, <1>6 DEF FormTypes
<1>9. RecordsHaveTheirIds
  BY <1>1, <1>7, NoId DEF RecordsHaveTheirIds
<1>10. RecordsKnowTheirRows /\ PageKnowsTheContacts /\ SaveFitsTheRecords
  BY <1>1, <1>2, <1>6, <1>7, NoId DEF RecordsKnowTheirRows, PageKnowsTheContacts, SaveFitsTheRecords
<1> QED
  BY <1>1, <1>8, <1>9, <1>10 DEF FormInv

-----------------------------------------------------------------------------
\* What is typed and which rows are shown changes nothing of what the page knows of the database.
LEMMA ShowingKeepsForm ==
  ASSUME FormInv, client_lost = 0, NEW made \in Seq(FormRecords), DOMAIN made = DOMAIN records,
         \A r \in DOMAIN records : made[r].id = records[r].id /\ made[r].text_in_db = records[r].text_in_db,
         NEW showing \in SUBSET rows, C!Settle(made, showing),
         UNCHANGED <<ids_in_db, client_save, client_contacts, last_id, client_lost>>
  PROVE  FormInv'
<1>1. FormTypes /\ RecordsHaveTheirIds /\ RecordsKnowTheirRows /\ PageKnowsTheContacts /\ SaveFitsTheRecords
  BY DEF FormInv
<1>2. rows \subseteq DOMAIN records /\ showing \in SUBSET DOMAIN made
  BY <1>1 DEF FormTypes
<1>3. /\ records' \in Seq(FormRecords) /\ rows' \subseteq DOMAIN records'
      /\ \A r \in DOMAIN records : r \in DOMAIN records' /\ records'[r] = made[r]
      /\ \A r \in DOMAIN records' : r \in DOMAIN records \/ records'[r] = C!NewRecord
      /\ \A r \in rows' : r \in showing \/ records'[r] = C!NewRecord
  BY <1>2, SettlingKeepsRecords
<1>4. \A r \in DOMAIN records' :
        \/ r \in DOMAIN records /\ records'[r].id = records[r].id /\ records'[r].text_in_db = records[r].text_in_db
        \/ records'[r].id = None
  BY <1>3, NoId
<1>5. \A r \in rows' :
        \/ r \in rows /\ records'[r].id = records[r].id
        \/ records'[r].id = None
  BY <1>2, <1>3, NoId
<1>6. FormTypes'
  BY <1>1, <1>3 DEF FormTypes
<1>7. RecordsHaveTheirIds'
  BY <1>1, <1>4 DEF RecordsHaveTheirIds
<1>8. RecordsKnowTheirRows'
  BY <1>1, <1>4, NoId DEF RecordsKnowTheirRows, FormTypes
<1>9. PageKnowsTheContacts'
  BY <1>1, <1>5 DEF PageKnowsTheContacts
<1>10. SaveFitsTheRecords'
  BY <1>1, <1>3, <1>4, <1>5, NoId DEF SaveFitsTheRecords, FormTypes
<1> QED
  BY <1>6, <1>7, <1>8, <1>9, <1>10 DEF FormInv

\* A save sends what is not stored yet of the rows, and removes none of them.
LEMMA SavingKeepsForm ==
  ASSUME FormInv, client_lost = 0, C!Save
  PROVE  FormInv'
<1>1. FormTypes /\ RecordsHaveTheirIds /\ RecordsKnowTheirRows /\ PageKnowsTheContacts /\ SaveFitsTheRecords
  BY DEF FormInv
<1>2. /\ UNCHANGED <<records, rows, ids_in_db, client_contacts, last_id, client_lost>>
      /\ client_save' = [added |-> [r \in C!AddedRows |-> records[r].text],
                         changed |-> [r \in C!ChangedRows |-> [id |-> records[r].id, text |-> records[r].text]],
                         removed |-> C!RemovedIds]
  BY DEF C!Save
<1>3. \A r \in rows : r \in DOMAIN records /\ records[r] \in FormRecords
  BY <1>1 DEF FormTypes
<1>4. /\ C!AddedRows \subseteq rows /\ C!ChangedRows \subseteq rows
      /\ \A r \in C!AddedRows : records[r].id = None
      /\ \A r \in C!ChangedRows : records[r].id # None
  BY DEF C!AddedRows, C!ChangedRows, C!NonEmptyRows
<1>5. \A r \in rows : records[r].id \notin C!RemovedIds
  <2>1. ASSUME NEW r \in rows
        PROVE  records[r].id \notin C!RemovedIds
    <3>1. CASE records[r].id = None
      <4>1. None \notin ids_in_db
        BY <1>1, NoId DEF PageKnowsTheContacts, FormTypes
      <4> QED
        BY <3>1, <4>1 DEF C!RemovedIds
    <3>2. CASE records[r].id # None
      <4>1. r \in C!NonEmptyRows
        BY <3>2 DEF C!NonEmptyRows, C!IsEmpty
      <4> QED
        BY <4>1 DEF C!RemovedIds
    <3> QED
      BY <3>1, <3>2
  <2> QED
    BY <2>1
<1>6. C!RemovedIds \subseteq Nat
  BY <1>1 DEF C!RemovedIds, PageKnowsTheContacts, FormTypes
<1>7. /\ DOMAIN client_save'.added = C!AddedRows /\ DOMAIN client_save'.changed = C!ChangedRows
      /\ client_save'.removed = C!RemovedIds
      /\ \A r \in C!AddedRows : client_save'.added[r] = records[r].text
      /\ \A r \in C!ChangedRows : client_save'.changed[r] = [id |-> records[r].id, text |-> records[r].text]
  BY <1>2
<1>8. FormTypes'
  <2>1. \A r \in C!AddedRows : records[r].text \in FormTexts
    BY <1>3, <1>4 DEF FormRecords
  <2>2. \A r \in C!ChangedRows : [id |-> records[r].id, text |-> records[r].text] \in [id : Nat, text : FormTexts]
    BY <1>3, <1>4 DEF FormRecords
  <2>3. /\ C!AddedRows \subseteq DOMAIN records /\ C!ChangedRows \subseteq DOMAIN records
    BY <1>3, <1>4
  <2>4. /\ client_save'.removed \subseteq Nat
        /\ DOMAIN client_save'.added \subseteq DOMAIN records /\ DOMAIN client_save'.changed \subseteq DOMAIN records
        /\ \A r \in DOMAIN client_save'.added : client_save'.added[r] \in FormTexts
        /\ \A r \in DOMAIN client_save'.changed : client_save'.changed[r] \in [id : Nat, text : FormTexts]
    BY <1>6, <1>7, <2>1, <2>2, <2>3
  <2> QED
    BY <1>1, <1>2, <2>4 DEF FormTypes
<1>9. SaveFitsTheRecords'
  <2>1. /\ \A r \in DOMAIN client_save'.added : records[r].id = None
        /\ \A r \in DOMAIN client_save'.changed : records[r].id = client_save'.changed[r].id
        /\ \A r \in rows : records[r].id \notin client_save'.removed
    <3>1. ASSUME NEW r \in C!ChangedRows
          PROVE  records[r].id = client_save'.changed[r].id
      <4> DEFINE own == records[r].id
                 sent == [id |-> own, text |-> records[r].text]
      <4>1. client_save'.changed[r] = sent
        BY <1>7
      <4>2. sent.id = own
        OBVIOUS
      <4> HIDE DEF sent
      <4> QED
        BY <4>1, <4>2
    <3> QED
      BY <1>4, <1>5, <1>7, <3>1
  <2> QED
    BY <1>2, <2>1 DEF SaveFitsTheRecords
<1>10. RecordsHaveTheirIds' /\ RecordsKnowTheirRows' /\ PageKnowsTheContacts'
  BY <1>1, <1>2 DEF RecordsHaveTheirIds, RecordsKnowTheirRows, PageKnowsTheContacts
<1> QED
  BY <1>2, <1>8, <1>9, <1>10 DEF FormInv

-----------------------------------------------------------------------------
(* What is stored, and the answer.                                         *)

\* What is written goes to different ids: the next ones for the rows that are added, the records' own for
\* those that changed.
LEMMA WritesHaveTheirIds ==
  ASSUME FormTypes, RecordsHaveTheirIds, SaveFitsTheRecords, client_save # None
  PROVE  /\ DOMAIN C!Written \subseteq DOMAIN records
         /\ \A r \in DOMAIN C!Written : C!Written[r] \in [id : Nat, text : FormTexts]
         /\ \A r, s \in DOMAIN C!Written : C!Written[r].id = C!Written[s].id => r = s
         /\ \A r \in DOMAIN C!Written :
              \/ C!Written[r].id \in C!AddedIds /\ records[r].id = None
              \/ C!Written[r].id = records[r].id
         /\ C!AddedIds \subseteq (last_id + 1) .. (last_id + Cardinality(DOMAIN client_save.added))
         /\ Cardinality(DOMAIN client_save.added) \in Nat
<1> DEFINE added == DOMAIN client_save.added
           changed == DOMAIN client_save.changed
           count == Cardinality(added)
<1>1. /\ added \subseteq DOMAIN records /\ changed \subseteq DOMAIN records /\ last_id \in Nat
      /\ \A r \in added : client_save.added[r] \in FormTexts /\ records[r].id = None
      /\ \A r \in changed : client_save.changed[r] \in [id : Nat, text : FormTexts]
                            /\ records[r].id = client_save.changed[r].id
  BY DEF FormTypes, SaveFitsTheRecords
<1>2. IsFiniteSet(added) /\ added \in SUBSET Nat
  <2>1. DOMAIN records = 1 .. Len(records) /\ Len(records) \in Nat
    BY DEF FormTypes
  <2>2. IsFiniteSet(1 .. Len(records))
    BY <2>1, FS_Interval
  <2> QED
    BY <1>1, <2>1, <2>2, FS_Subset
<1>3. /\ count \in Nat
      /\ \A r \in added : C!AddedId(r) \in last_id + 1 .. last_id + count
      /\ \A r, s \in added : C!AddedId(r) = C!AddedId(s) => r = s
  <2> DEFINE Place(r) == Cardinality({other \in added : other <= r})
  <2>1. /\ count \in Nat
        /\ \A r \in added : Place(r) \in 1 .. count
        /\ \A r, s \in added : Place(r) = Place(s) => r = s
    <3> HIDE DEF added
    <3> QED
      BY <1>2, PlacesInOrder
  <2>2. \A r \in added : C!AddedId(r) = last_id + Place(r)
    BY DEF C!AddedId, C!Cardinality, Cardinality
  <2> HIDE DEF Place, added, count
  <2> QED
    BY <1>1, <2>1, <2>2
<1>4. C!AddedIds = {C!AddedId(r) : r \in added}
  BY DEF C!AddedIds
<1>5. /\ DOMAIN C!Written = added \cup changed
      /\ \A r \in added : C!Written[r] = [id |-> C!AddedId(r), text |-> client_save.added[r]]
      /\ \A r \in changed : r \notin added => C!Written[r] = client_save.changed[r]
  BY DEF C!Written
<1> HIDE DEF added, changed, count
<1>6. ASSUME NEW r \in changed
      PROVE  /\ r \notin added /\ C!Written[r] = client_save.changed[r]
             /\ client_save.changed[r].id = records[r].id /\ records[r].id \in 1 .. last_id
  <2>1. client_save.changed[r].id \in Nat
    BY <1>1
  <2>2. records[r].id # None
    BY <1>1, <2>1, NoId
  <2> QED
    BY <1>1, <1>5, <2>2 DEF RecordsHaveTheirIds
<1>7. ASSUME NEW r \in added
      PROVE  /\ C!Written[r].id = C!AddedId(r) /\ C!Written[r].text = client_save.added[r]
             /\ C!AddedId(r) \in C!AddedIds /\ C!AddedId(r) \in last_id + 1 .. last_id + count
  BY <1>3, <1>4, <1>5
<1>8. ASSUME NEW r \in DOMAIN C!Written
      PROVE  /\ C!Written[r] \in [id : Nat, text : FormTexts]
             /\ \/ C!Written[r].id \in C!AddedIds /\ records[r].id = None
                \/ C!Written[r].id = records[r].id
  <2>1. CASE r \in added
    <3>1. C!AddedId(r) \in Nat
      BY <1>1, <1>3, <2>1
    <3> QED
      BY <1>1, <1>5, <1>7, <2>1, <3>1
  <2>2. CASE r \in changed
    BY <1>1, <1>6, <2>2
  <2> QED
    BY <1>5, <2>1, <2>2
<1>9. ASSUME NEW r \in DOMAIN C!Written, NEW s \in DOMAIN C!Written, C!Written[r].id = C!Written[s].id
      PROVE  r = s
  <2>1. CASE r \in added /\ s \in added
    BY <1>3, <1>7, <1>9, <2>1
  <2>2. CASE r \in changed /\ s \in changed
    <3>1. records[r].id = records[s].id /\ records[r].id # None /\ r \in DOMAIN records /\ s \in DOMAIN records
      BY <1>1, <1>6, <1>9, <2>2, NoId
    <3> QED
      BY <3>1 DEF RecordsHaveTheirIds
  <2>3. \A x \in added, y \in changed : C!Written[x].id # C!Written[y].id
    BY <1>1, <1>3, <1>6, <1>7
  <2> QED
    BY <1>5, <1>9, <2>1, <2>2, <2>3
<1>10. C!AddedIds \subseteq last_id + 1 .. last_id + count
  BY <1>3, <1>4
<1> QED
  BY <1>1, <1>3, <1>5, <1>8, <1>9, <1>10 DEF added, changed, count

\* The answer: every record that was saved knows its id and what is stored under it.
LEMMA AnswersKeepForm ==
  ASSUME FormInv, client_lost = 0, C!UpdateClient(TRUE)
  PROVE  FormInv'
<1> DEFINE put == C!Written
           added == C!AddedIds
           removed == client_save.removed
           made == [r \in DOMAIN records |->
                      IF r \in DOMAIN put
                      THEN [records[r] EXCEPT !.id = put[r].id, !.text_in_db = put[r].text]
                      ELSE records[r]]
           count == Cardinality(DOMAIN client_save.added)
<1>1. FormTypes /\ RecordsHaveTheirIds /\ RecordsKnowTheirRows /\ PageKnowsTheContacts /\ SaveFitsTheRecords
  BY DEF FormInv
<1>2. /\ client_save # None /\ client_save' = None /\ client_lost' = client_lost
      /\ removed \subseteq DOMAIN client_contacts
      /\ last_id' = last_id + count
      /\ C!Settle(made, rows)
      /\ ids_in_db' = (ids_in_db \ removed) \cup added
  BY DEF C!UpdateClient, C!Refuses, C!Commit, C!IdsInDb, C!Cardinality, Cardinality
<1>3. client_contacts' = [id \in (DOMAIN client_contacts \cup added) \ removed |->
                            IF \E r \in DOMAIN put : put[r].id = id
                            THEN put[CHOOSE r \in DOMAIN put : put[r].id = id].text
                            ELSE client_contacts[id]]
  BY DEF C!UpdateClient, C!Stored
<1> DEFINE ids == (DOMAIN client_contacts \cup added) \ removed
<1>4. DOMAIN client_contacts' = ids
  BY <1>3
<1>5. /\ DOMAIN put \subseteq DOMAIN records
      /\ \A r \in DOMAIN put : put[r] \in [id : Nat, text : FormTexts]
      /\ \A r, s \in DOMAIN put : put[r].id = put[s].id => r = s
      /\ \A r \in DOMAIN put :
           \/ put[r].id \in added /\ records[r].id = None
           \/ put[r].id = records[r].id
      /\ added \subseteq (last_id + 1) .. (last_id + count) /\ count \in Nat
  BY <1>1, <1>2, WritesHaveTheirIds
<1> HIDE DEF put, added, count
<1>6. /\ last_id \in Nat /\ last_id' \in Nat /\ DOMAIN client_contacts \subseteq 1 .. last_id
      /\ 1 .. last_id \subseteq 1 .. last_id' /\ added \subseteq 1 .. last_id'
      /\ \A id \in added : id \notin 1 .. last_id
      /\ ids_in_db = DOMAIN client_contacts
      /\ \A r \in rows : r \in DOMAIN records
      /\ \A r \in DOMAIN records : records[r] \in FormRecords
  <2>1. last_id \in Nat /\ DOMAIN client_contacts \subseteq 1 .. last_id /\ ids_in_db = DOMAIN client_contacts
        /\ rows \subseteq DOMAIN records /\ records \in Seq(FormRecords)
    BY <1>1 DEF FormTypes, PageKnowsTheContacts
  <2>2. last_id' \in Nat /\ 1 .. last_id \subseteq 1 .. last_id' /\ added \subseteq 1 .. last_id'
    <3>1. last_id' = last_id + count /\ last_id \in Nat /\ count \in Nat
      BY <1>2, <1>5, <2>1
    <3>2. last_id + count \in Nat /\ last_id <= last_id + count
      BY <3>1
    <3>3. 1 .. last_id \subseteq 1 .. (last_id + count)
      BY <3>1, <3>2
    <3>4. (last_id + 1) .. (last_id + count) \subseteq 1 .. (last_id + count)
      BY <3>1, <3>2
    <3> QED
      BY <1>5, <3>1, <3>2, <3>3, <3>4
  <2>3. \A id \in added : id \notin 1 .. last_id
    BY <1>5, <2>1
  <2> QED
    BY <2>1, <2>2, <2>3
<1>7. /\ made \in Seq(FormRecords) /\ DOMAIN made = DOMAIN records
      /\ \A r \in DOMAIN put : made[r].id = put[r].id /\ made[r].text_in_db = put[r].text
      /\ \A r \in DOMAIN records \ DOMAIN put : made[r] = records[r]
  <2>1. ASSUME NEW r \in DOMAIN put
        PROVE  /\ made[r].id = put[r].id /\ made[r].text_in_db = put[r].text
               /\ made[r] \in FormRecords
    BY <1>5, <1>6 DEF FormRecords
  <2>2. \A r \in DOMAIN records : made[r] \in FormRecords
    BY <1>6, <2>1
  <2>3. DOMAIN records = 1 .. Len(records) /\ Len(records) \in Nat
    BY <1>1 DEF FormTypes
  <2>4. made \in Seq(FormRecords)
    <3> DEFINE n == Len(records)
               Of(r) == IF r \in DOMAIN put
                        THEN [records[r] EXCEPT !.id = put[r].id, !.text_in_db = put[r].text]
                        ELSE records[r]
    <3>1. made = [r \in 1 .. n |-> Of(r)] /\ n \in Nat
      BY <2>3
    <3>2. \A r \in 1 .. n : Of(r) \in FormRecords
      BY <2>2, <2>3
    <3> HIDE DEF made, n, Of
    <3> QED
      BY <3>1, <3>2
  <2> QED
    BY <1>5, <2>1, <2>4
<1> HIDE DEF made
<1>8. /\ records' \in Seq(FormRecords) /\ rows' \subseteq DOMAIN records'
      /\ \A r \in DOMAIN records' :
           \/ r \in DOMAIN records /\ records'[r] = made[r]
           \/ records'[r].id = None
      /\ \A r \in rows' :
           \/ r \in rows /\ records'[r] = made[r]
           \/ records'[r].id = None
  <2>1. rows \in SUBSET DOMAIN made
    BY <1>6, <1>7
  <2>2. /\ records' \in Seq(FormRecords) /\ rows' \subseteq DOMAIN records'
        /\ \A r \in DOMAIN made : r \in DOMAIN records' /\ records'[r] = made[r]
        /\ \A r \in DOMAIN records' : r \in DOMAIN made \/ records'[r] = C!NewRecord
        /\ \A r \in rows' : r \in rows \/ records'[r] = C!NewRecord
    BY <1>2, <1>7, <2>1, SettlingKeepsRecords
  <2> QED
    BY <1>6, <1>7, <2>2, NoId
\* A record has the id it had, or one of the new ones.
<1>9. ASSUME NEW r \in DOMAIN records
      PROVE  \/ r \in DOMAIN put /\ made[r].id \in added
             \/ made[r].id = records[r].id
  BY <1>5, <1>7
<1>10. \A r \in DOMAIN records : records[r].id # None => records[r].id \in 1 .. last_id
  BY <1>1 DEF RecordsHaveTheirIds
<1>11. FormTypes'
  <2>1. DOMAIN client_contacts' \subseteq 1 .. last_id'
    BY <1>3, <1>6
  <2> QED
    BY <1>2, <1>6, <1>8, <2>1 DEF FormTypes
<1>12. ASSUME NEW r \in DOMAIN records, NEW s \in DOMAIN records, made[r].id = made[s].id, made[r].id # None
       PROVE  r = s
  <2>1. CASE r \in DOMAIN put /\ s \in DOMAIN put
    BY <1>5, <1>7, <1>12, <2>1
  <2>2. CASE made[r].id = records[r].id /\ made[s].id = records[s].id
    BY <1>1, <1>12, <2>2 DEF RecordsHaveTheirIds
  <2>3. CASE r \in DOMAIN put /\ made[r].id \in added /\ made[s].id = records[s].id
    BY <1>6, <1>10, <1>12, <2>3
  <2>4. CASE s \in DOMAIN put /\ made[s].id \in added /\ made[r].id = records[r].id
    BY <1>6, <1>10, <1>12, <2>4
  <2> QED
    BY <1>9, <2>1, <2>2, <2>3, <2>4
<1>13. RecordsHaveTheirIds'
  <2>1. \A r \in DOMAIN records : made[r].id # None => made[r].id \in 1 .. last_id'
    BY <1>6, <1>9, <1>10
  <2> QED
    BY <1>8, <1>12, <2>1 DEF RecordsHaveTheirIds
<1>14. DOMAIN client_contacts \cup added \subseteq Nat
  <2> DEFINE n == last_id'
  <2>1. 1 .. n \subseteq Nat /\ DOMAIN client_contacts \subseteq 1 .. n /\ added \subseteq 1 .. n
    BY <1>6
  <2> QED
    BY <2>1
<1>15. RecordsKnowTheirRows'
  <2>1. ASSUME NEW s \in DOMAIN records, made[s].id \in DOMAIN client_contacts'
        PROVE  client_contacts'[made[s].id] = made[s].text_in_db
    <3>1. made[s].id # None /\ made[s].id \in DOMAIN client_contacts \cup added
      <4>1. made[s].id \in DOMAIN client_contacts \cup added
        BY <1>4, <2>1
      <4>2. DOMAIN client_contacts \cup added \subseteq Nat
        BY <1>14
      <4> QED
        BY <4>1, <4>2, NoId
    <3>2. CASE s \in DOMAIN put
      <4> DEFINE it == CHOOSE r \in DOMAIN put : put[r].id = made[s].id
      <4>1. it \in DOMAIN put /\ put[it].id = made[s].id
        BY <1>7, <3>2
      <4>2. it = s
        BY <1>5, <1>7, <3>2, <4>1
      <4>3. client_contacts'[made[s].id] = put[it].text
        BY <1>3, <1>7, <2>1, <3>2
      <4> QED
        BY <1>7, <3>2, <4>2, <4>3
    <3>3. CASE s \notin DOMAIN put
      <4>1. made[s] = records[s] /\ records[s].id \in 1 .. last_id /\ records[s].id \in DOMAIN client_contacts
        BY <1>6, <1>7, <1>10, <3>1, <3>3
      <4>2. ASSUME NEW r \in DOMAIN put
            PROVE  put[r].id # records[s].id
        BY <1>5, <1>7, <1>12, <3>1, <3>3, <4>1, <4>2
      <4>3. client_contacts'[records[s].id] = client_contacts[records[s].id]
        BY <1>3, <2>1, <4>1, <4>2
      <4> QED
        BY <1>1, <4>1, <4>3 DEF RecordsKnowTheirRows
    <3> QED
      BY <3>2, <3>3
  <2>2. None \notin DOMAIN client_contacts'
    <3>1. DOMAIN client_contacts \cup added \subseteq Nat
      BY <1>14
    <3> QED
      BY <1>4, <3>1, NoId
  <2> QED
    BY <1>8, <2>1, <2>2 DEF RecordsKnowTheirRows
<1>16. PageKnowsTheContacts'
  <2>1. added \cap removed = {}
    BY <1>2, <1>6
  <2>2. ids_in_db' = DOMAIN client_contacts'
    BY <1>2, <1>3, <1>6, <2>1
  <2>3. ASSUME NEW r \in rows, made[r].id # None
        PROVE  made[r].id \in DOMAIN client_contacts'
    <3>1. CASE made[r].id \in added
      BY <1>3, <2>1, <3>1
    <3>2. CASE made[r].id = records[r].id
      <4>1. records[r].id \in DOMAIN client_contacts /\ records[r].id \notin removed
        BY <1>1, <1>2, <2>3, <3>2 DEF PageKnowsTheContacts, SaveFitsTheRecords
      <4> QED
        BY <1>3, <3>2, <4>1
    <3> QED
      BY <1>6, <1>9, <3>1, <3>2
  <2> QED
    BY <1>8, <2>2, <2>3 DEF PageKnowsTheContacts
<1>17. SaveFitsTheRecords'
  BY <1>2 DEF SaveFitsTheRecords
<1> QED
  BY <1>2, <1>11, <1>13, <1>15, <1>16, <1>17 DEF FormInv

LEMMA FormNext == FormInv /\ [C!Next]_of_client => FormInv'
<1> SUFFICES ASSUME FormInv, [C!Next]_of_client
             PROVE  FormInv'
  OBVIOUS
<1>1. client_lost \in Nat
  BY DEF FormInv
<1>2. CASE UNCHANGED of_client
  BY <1>2 DEF of_client, FormInv, FormTypes, RecordsHaveTheirIds, RecordsKnowTheirRows, PageKnowsTheContacts,
              SaveFitsTheRecords
<1>3. CASE client_lost # 0 /\ C!Next
  <2>1. client_lost' \in {client_lost, client_lost + 1}
    BY <1>3, ZenonT(60) DEF C!Next, C!Focus, C!Type, C!RemoveRow, C!RemoveEmptyRows, C!Save, C!Reference,
                            C!UpdateClient, C!SaveFails
  <2>2. client_lost' \in Nat /\ client_lost' # 0
    BY <1>1, <1>3, <2>1
  <2> QED
    BY <2>2 DEF FormInv
<1>4. CASE client_lost = 0 /\ C!Next
  <2>1. /\ FormTypes /\ RecordsHaveTheirIds /\ RecordsKnowTheirRows /\ PageKnowsTheContacts /\ SaveFitsTheRecords
        /\ records \in Seq(FormRecords) /\ rows \subseteq DOMAIN records
    BY <1>4 DEF FormInv, FormTypes
  <2>2. ASSUME NEW showing \in SUBSET rows, C!Settle(records, showing),
               UNCHANGED <<ids_in_db, client_save, client_contacts, last_id, client_lost>>
        PROVE  FormInv'
    BY <1>4, <2>1, <2>2, ShowingKeepsForm
  <2>3. ASSUME NEW said \in Texts \cup {Blank}, C!Type(said)
        PROVE  FormInv'
    <3> DEFINE made == [records EXCEPT ![focused_row_key].text = said]
    <3>1. /\ focused_row_key \in rows /\ C!Settle(made, rows)
          /\ UNCHANGED <<ids_in_db, client_save, client_contacts, last_id, client_lost>>
      BY <2>3 DEF C!Type
    <3>2. records[focused_row_key] \in FormRecords /\ said \in FormTexts
      BY <2>1, <3>1 DEF FormTexts
    <3> DEFINE edited == [records[focused_row_key] EXCEPT !.text = said]
    <3>3. /\ edited \in FormRecords /\ edited.id = records[focused_row_key].id
          /\ edited.text_in_db = records[focused_row_key].text_in_db
      BY <3>2 DEF FormRecords
    <3>4. made = [records EXCEPT ![focused_row_key] = edited]
      OBVIOUS
    <3> HIDE DEF edited, made
    <3>5. /\ made \in Seq(FormRecords) /\ DOMAIN made = DOMAIN records
          /\ \A r \in DOMAIN records : made[r].id = records[r].id /\ made[r].text_in_db = records[r].text_in_db
      BY <2>1, <3>1, <3>3, <3>4
    <3> QED
      BY <1>4, <3>1, <3>5, ShowingKeepsForm
  <2>4. ASSUME NEW r, C!RemoveRow(r)
        PROVE  FormInv'
    <3>1. rows \ {r} \in SUBSET rows
      OBVIOUS
    <3> QED
      BY <2>2, <2>4, <3>1 DEF C!RemoveRow
  <2>5. CASE C!RemoveEmptyRows
    <3>1. C!RowsToKeep \in SUBSET rows
      BY DEF C!RowsToKeep
    <3> QED
      BY <2>2, <2>5, <3>1 DEF C!RemoveEmptyRows
  <2>6. CASE C!Save
    BY <1>4, <2>6, SavingKeepsForm
  <2>7. ASSUME client_save' \in {client_save, None},
               UNCHANGED <<records, rows, ids_in_db, client_contacts, last_id, client_lost>>
        PROVE  FormInv'
    BY <2>1, <2>7, <1>4 DEF FormInv, FormTypes, RecordsHaveTheirIds, RecordsKnowTheirRows, PageKnowsTheContacts,
                       SaveFitsTheRecords
  <2>8. ASSUME NEW r, C!Focus(r) \/ C!Reference(r) \/ C!SaveFails
        PROVE  FormInv'
    <3>1. /\ client_save' \in {client_save, None}
          /\ UNCHANGED <<records, rows, ids_in_db, client_contacts, last_id, client_lost>>
      BY <2>8 DEF C!Focus, C!Reference, C!SaveFails, C!Discard, C!page
    <3> QED
      BY <2>7, <3>1
  <2>9. ASSUME C!UpdateClient(FALSE)
        PROVE  FormInv'
    <3>1. client_lost' = 1
      BY <1>4, <2>9 DEF C!UpdateClient
    <3> QED
      BY <3>1 DEF FormInv
  <2>10. ASSUME C!UpdateClient(TRUE)
         PROVE  FormInv'
    BY <1>4, <2>10, AnswersKeepForm
  <2> QED
    BY <1>4, <2>3, <2>4, <2>5, <2>6, <2>8, <2>9, <2>10 DEF C!Next
<1> QED
  BY <1>1, <1>2, <1>3, <1>4

\* A form that says that nothing needs to be saved shows all that is stored and nothing else, as long as
\* no answer was lost (tracked_record_array.ts:33-49, editable_rows.svelte.ts:16-35).
THEOREM CleanIsStored == MCSpec => []CleanFormIsStored
<1>1. MCInit => FormInv
  BY FormInit DEF MCInit
<1>2. FormInv /\ [MCNext]_<<of_pages, of_others, side>> => FormInv'
  <2>1. [MCNext]_<<of_pages, of_others, side>> => [C!Next]_of_client
    BY DEF MCNext, PageNext, of_pages
  <2> QED
    BY <2>1, FormNext
<1>3. FormInv => CleanFormIsStored
  <2> SUFFICES ASSUME FormInv, ~C!NeedsToBeSaved, client_lost = 0
               PROVE  /\ \A r \in C!NonEmptyRows :
                           /\ records[r].id \in DOMAIN client_contacts
                           /\ client_contacts[records[r].id] = records[r].text
                      /\ DOMAIN client_contacts = {records[r].id : r \in C!NonEmptyRows}
    BY DEF CleanFormIsStored, C!CleanFormIsStored
  <2>1. \A r \in C!NonEmptyRows : r \in rows /\ records[r].id # None /\ records[r].text = records[r].text_in_db
    BY DEF C!NeedsToBeSaved, C!AddedRows, C!ChangedRows, C!NonEmptyRows
  <2>2. ids_in_db \subseteq {records[r].id : r \in C!NonEmptyRows}
    BY DEF C!NeedsToBeSaved, C!RemovedIds
  <2>3. FormTypes /\ RecordsKnowTheirRows /\ PageKnowsTheContacts
    BY DEF FormInv
  <2>4. \A r \in C!NonEmptyRows : records[r].id \in DOMAIN client_contacts
    BY <2>1, <2>3 DEF PageKnowsTheContacts
  <2>5. \A r \in C!NonEmptyRows : client_contacts[records[r].id] = records[r].text
    BY <2>1, <2>3, <2>4 DEF RecordsKnowTheirRows, FormTypes
  <2> QED
    BY <2>2, <2>3, <2>4, <2>5 DEF PageKnowsTheContacts
<1> QED
  BY <1>1, <1>2, <1>3, PTL DEF MCSpec

-----------------------------------------------------------------------------
(* PhotoMarkup.                                                            *)

(* The values of the photo pages, of a save on its way and of the photos.  *)
PhotoTypes ==
    /\ photo_page \in {"left", "live", "capturing", "marking", "photo"}
    /\ {item, image, going, drawing} \subseteq Nat \cup {None}
    /\ strokes \in [done : Seq(Nat), undone : Seq(Nat)]
    /\ overlay \in SUBSET Nat
    /\ save # None => save \in P!Saves
    /\ {items, last_stroke, failures} \subseteq Nat
    /\ images \in Seq(P!Photos)
\* The canvas shows the strokes that were not undone, and the one that is drawn.
CanvasIsTheHistory == overlay = P!ToSet(strokes.done) \cup P!Pixels(drawing)
\* A photo page is of a photo that is stored.
PagesHavePhotos == photo_page = "photo" => image \in DOMAIN images
\* Until someone draws, the picture of a save shows the strokes that it stores.
SaveIsOfItsStrokes ==
    save # None =>
        /\ photo_page # "capturing"
        /\ save.page = "photo" \/ save.step = "enqueue" => save.image \in DOMAIN images
        /\ save.step = "update" => save.page = "photo"
        /\ ~save.touched =>
             save.picture = P!ToSet(IF save.step = "composing" THEN strokes.done ELSE save.strokes)
        /\ save.step = "enqueue" => images[save.image].strokes = save.strokes
\* The files of every photo show its strokes, but for the one whose files a save is about to queue.
FilesShowTheStrokes ==
    failures = 0 =>
        \A i \in DOMAIN images :
            LET files == images[i].files
            IN  \/ files = None
                \/ files.touched
                \/ files.picture = P!ToSet(images[i].strokes)
                \/ save # None /\ save.step = "enqueue" /\ save.image = i
PhotoInv ==
    PhotoTypes /\ CanvasIsTheHistory /\ PagesHavePhotos /\ SaveIsOfItsStrokes /\ FilesShowTheStrokes


LEMMA PixelsOfNone == P!Pixels(None) = {} /\ P!ToSet(<<>>) = {}
BY DEF P!Pixels, P!ToSet

\* The undo history stays one of strokes.
LEMMA StrokesAreSequences ==
  ASSUME NEW s \in Seq(Nat)
  PROVE  /\ P!ToSet(s) \in SUBSET Nat
         /\ \A n \in Nat : Append(s, n) \in Seq(Nat)
         /\ s # <<>> => P!Front(s) \in Seq(Nat) /\ P!Last(s) \in Nat
<1>1. P!ToSet(s) \in SUBSET Nat
  BY DEF P!ToSet
<1>2. ASSUME s # <<>>
      PROVE  P!Front(s) \in Seq(Nat) /\ P!Last(s) \in Nat
  <2>1. Len(s) \in Nat \ {0}
    BY <1>2
  <2> QED
    BY <2>1 DEF P!Front, P!Last
<1> QED
  BY <1>1, <1>2

LEMMA PhotoInit == PagesAssumption /\ P!Init => PhotoInv
<1> SUFFICES ASSUME P!Init
             PROVE  PhotoInv
  OBVIOUS
<1>1. /\ photo_page = "left" /\ item = None /\ image = None /\ going = None
      /\ strokes = [done |-> <<>>, undone |-> <<>>] /\ drawing = None /\ overlay = {}
      /\ save = None /\ items \in 0 .. 1 /\ images = <<>> /\ last_stroke = 0 /\ failures = 0
  BY DEF P!Init, P!Empty
<1>2. PhotoTypes
  BY <1>1 DEF PhotoTypes
<1>3. CanvasIsTheHistory
  BY <1>1, PixelsOfNone DEF CanvasIsTheHistory
<1> QED
  BY <1>1, <1>2, <1>3 DEF PhotoInv, PagesHavePhotos, SaveIsOfItsStrokes, FilesShowTheStrokes

\* Drawing, while a save runs or not: the save is told.
LEMMA DrawingKeepsPhotos ==
  ASSUME PhotoInv, P!Touched, strokes' \in [done : Seq(Nat), undone : Seq(Nat)],
         drawing' \in Nat \cup {None}, last_stroke' \in Nat, CanvasIsTheHistory',
         UNCHANGED <<photo_page, item, image, going, items, images, failures>>
  PROVE  PhotoInv'
<1>1. save' = IF save = None THEN None ELSE [save EXCEPT !.touched = TRUE]
  BY DEF P!Touched
<1>2. save # None =>
        /\ save' # None /\ save' \in P!Saves /\ save'.touched
        /\ save'.step = save.step /\ save'.page = save.page /\ save'.image = save.image
        /\ save'.strokes = save.strokes
  BY <1>1, PagesAssumption DEF PhotoInv, PhotoTypes, P!Saves, P!MarkupAssumption
<1>3. overlay' \in SUBSET Nat
  <2>1. P!ToSet(strokes'.done) \in SUBSET Nat
    BY StrokesAreSequences
  <2>2. overlay' = P!ToSet(strokes'.done) \cup P!Pixels(drawing')
    BY DEF CanvasIsTheHistory
  <2> QED
    BY <2>1, <2>2 DEF P!Pixels
<1>4. PhotoTypes'
  BY <1>1, <1>2, <1>3 DEF PhotoInv, PhotoTypes
<1>5. PagesHavePhotos'
  BY DEF PhotoInv, PagesHavePhotos
<1>6. SaveIsOfItsStrokes'
  BY <1>1, <1>2 DEF PhotoInv, SaveIsOfItsStrokes
<1>7. FilesShowTheStrokes'
  BY <1>1, <1>2 DEF PhotoInv, FilesShowTheStrokes
<1> QED
  BY <1>4, <1>5, <1>6, <1>7 DEF PhotoInv

\* Another page is shown, or another canvas while no save runs.
LEMMA PagesKeepPhotos ==
  ASSUME PhotoInv, UNCHANGED <<save, items, images, last_stroke, failures>>,
         photo_page' \in {"left", "live", "capturing", "marking", "photo"},
         {item, image, going}' \subseteq Nat \cup {None},
         photo_page' = "photo" => image' \in DOMAIN images,
         save # None => photo_page' # "capturing",
         \/ UNCHANGED <<strokes, drawing, overlay>>
         \/ save = None /\ \E s \in Seq(Nat) : P!Fresh(P!FromDone(s))
  PROVE  PhotoInv'
<1>1. /\ strokes' \in [done : Seq(Nat), undone : Seq(Nat)] /\ drawing' \in Nat \cup {None}
      /\ overlay' \in SUBSET Nat /\ CanvasIsTheHistory'
  <2>1. CASE UNCHANGED <<strokes, drawing, overlay>>
    BY <2>1 DEF PhotoInv, PhotoTypes, CanvasIsTheHistory
  <2>2. ASSUME NEW s \in Seq(Nat), P!Fresh(P!FromDone(s))
        PROVE  /\ strokes' \in [done : Seq(Nat), undone : Seq(Nat)] /\ drawing' \in Nat \cup {None}
               /\ overlay' \in SUBSET Nat /\ CanvasIsTheHistory'
    <3>1. strokes' = [done |-> s, undone |-> <<>>] /\ drawing' = None /\ overlay' = P!ToSet(s)
      BY <2>2 DEF P!Fresh, P!FromDone
    <3>2. P!ToSet(s) \in SUBSET Nat
      BY StrokesAreSequences
    <3> QED
      BY <3>1, <3>2, PixelsOfNone DEF CanvasIsTheHistory
  <2> QED
    BY <2>1, <2>2
<1>2. PhotoTypes'
  BY <1>1 DEF PhotoInv, PhotoTypes
<1>3. PagesHavePhotos'
  BY DEF PagesHavePhotos
<1>4. SaveIsOfItsStrokes'
  BY DEF PhotoInv, SaveIsOfItsStrokes
<1>5. FilesShowTheStrokes'
  BY DEF PhotoInv, FilesShowTheStrokes
<1> QED
  BY <1>1, <1>2, <1>3, <1>4, <1>5 DEF PhotoInv

\* Compose: the picture is taken from the canvas at once, the strokes from the history later.
LEMMA ComposeKeepsPhotos == PhotoInv /\ P!Compose => PhotoInv'
<1> SUFFICES ASSUME PhotoInv, P!Compose
             PROVE  PhotoInv'
  OBVIOUS
<1> DEFINE picture == IF strokes.done = <<>> THEN {} ELSE overlay
<1>1. /\ photo_page \in {"marking", "photo"} /\ save = None
      /\ save' = [step |-> "composing", page |-> photo_page, item |-> item, image |-> image,
                  picture |-> picture, strokes |-> <<>>, touched |-> drawing # None]
      /\ UNCHANGED <<photo_page, item, image, going, strokes, drawing, overlay, items, images,
                     last_stroke, failures>>
  BY DEF P!Compose, P!Marking, P!Busy, P!canvas
<1>2. picture \in SUBSET Nat
  BY DEF PhotoInv, PhotoTypes
<1>3. drawing = None => picture = P!ToSet(strokes.done)
  BY PixelsOfNone DEF PhotoInv, CanvasIsTheHistory
<1> HIDE DEF picture
<1>4. save' \in P!Saves
  BY <1>1, <1>2 DEF PhotoInv, PhotoTypes, P!Saves
<1>5. PhotoTypes'
  BY <1>1, <1>4 DEF PhotoInv, PhotoTypes
<1>6. CanvasIsTheHistory' /\ PagesHavePhotos'
  BY <1>1 DEF PhotoInv, CanvasIsTheHistory, PagesHavePhotos
<1>7. SaveIsOfItsStrokes'
  BY <1>1, <1>3 DEF PhotoInv, SaveIsOfItsStrokes, PagesHavePhotos
<1>8. FilesShowTheStrokes'
  BY <1>1 DEF PhotoInv, FilesShowTheStrokes
<1> QED
  BY <1>5, <1>6, <1>7, <1>8 DEF PhotoInv

\* The strokes are those that the picture shows, unless somebody drew since.
LEMMA ComposedKeepsPhotos == PhotoInv /\ (P!Composed \/ P!CreateLineItem) => PhotoInv'
<1> SUFFICES ASSUME PhotoInv, P!Composed \/ P!CreateLineItem
             PROVE  PhotoInv'
  OBVIOUS
<1>1. save # None /\ save \in P!Saves
  BY DEF P!Composed, P!CreateLineItem, PhotoInv, PhotoTypes
<1>2. UNCHANGED <<photo_page, item, image, going, strokes, drawing, overlay, images, last_stroke, failures>>
  BY DEF P!Composed, P!CreateLineItem, P!canvas
<1>3. /\ save' \in P!Saves /\ items' \in Nat
      /\ save'.page = save.page /\ save'.image = save.image /\ save'.picture = save.picture
      /\ save'.touched = save.touched /\ save.step \in {"composing", "create item"}
      /\ save'.step \in {"update", "create item", "create image"}
      /\ save'.step = "update" => save'.page = "photo"
      /\ save'.strokes = IF save.step = "composing" THEN strokes.done ELSE save.strokes
  <2>1. CASE P!Composed
    <3>1. strokes.done \in Seq(Nat) /\ items' = items /\ items \in Nat
      BY <2>1 DEF P!Composed, PhotoInv, PhotoTypes
    <3> QED
      BY <1>1, <2>1, <3>1 DEF P!Composed, P!Saves
  <2>2. CASE P!CreateLineItem
    <3>1. items' = items + 1 /\ save' = [save EXCEPT !.step = "create image", !.item = items + 1]
      BY <2>2, Zenon DEF P!CreateLineItem
    <3>2. items + 1 \in Nat
      BY DEF PhotoInv, PhotoTypes
    <3> QED
      BY <1>1, <2>2, <3>1, <3>2 DEF P!CreateLineItem, P!Saves
  <2> QED
    BY <2>1, <2>2
<1>4. PhotoTypes'
  BY <1>2, <1>3 DEF PhotoInv, PhotoTypes
<1>5. CanvasIsTheHistory' /\ PagesHavePhotos'
  BY <1>2 DEF PhotoInv, CanvasIsTheHistory, PagesHavePhotos
<1>6. SaveIsOfItsStrokes'
  BY <1>1, <1>2, <1>3 DEF PhotoInv, SaveIsOfItsStrokes
<1>7. FilesShowTheStrokes'
  BY <1>1, <1>2, <1>3 DEF PhotoInv, FilesShowTheStrokes
<1> QED
  BY <1>4, <1>5, <1>6, <1>7 DEF PhotoInv

\* A new photo has the strokes of its save, and no files yet.
LEMMA CreateKeepsPhotos == PhotoInv /\ P!CreateLineItemImage => PhotoInv'
<1> SUFFICES ASSUME PhotoInv, P!CreateLineItemImage
             PROVE  PhotoInv'
  OBVIOUS
<1> DEFINE photo == [item |-> save.item, strokes |-> save.strokes, files |-> None]
<1>1. /\ save # None /\ save \in P!Saves /\ save.step = "create image"
      /\ images' = Append(images, photo)
      /\ save' = [save EXCEPT !.step = "enqueue", !.image = Len(images) + 1]
      /\ UNCHANGED <<photo_page, item, image, going, strokes, drawing, overlay, items, last_stroke, failures>>
  BY DEF P!CreateLineItemImage, P!canvas, PhotoInv, PhotoTypes
<1>2. photo \in P!Photos /\ photo.strokes = save.strokes /\ photo.files = None
  BY <1>1 DEF P!Saves, P!Photos
<1> HIDE DEF photo
<1>3. images \in Seq(P!Photos) /\ Len(images) \in Nat
  BY DEF PhotoInv, PhotoTypes
<1>4. /\ images' \in Seq(P!Photos) /\ DOMAIN images' = 1 .. Len(images) + 1 /\ DOMAIN images = 1 .. Len(images)
      /\ \A i \in DOMAIN images : images'[i] = images[i]
      /\ images'[Len(images) + 1] = photo
  <2>1. /\ images' \in Seq(P!Photos) /\ Len(images') = Len(images) + 1
        /\ \A i \in 1 .. Len(images) : images'[i] = images[i]
        /\ images'[Len(images) + 1] = photo
    BY <1>1, <1>2, <1>3, AppendProperties, ZenonT(60)
  <2>2. DOMAIN images' = 1 .. Len(images) + 1 /\ DOMAIN images = 1 .. Len(images)
    BY <1>3, <2>1
  <2> QED
    BY <2>1, <2>2
<1> DEFINE new == Len(images) + 1
<1>5. new \in DOMAIN images' /\ new \in Nat /\ images'[new] = photo
  BY <1>3, <1>4
<1> HIDE DEF new
<1>6. /\ save' \in P!Saves /\ save'.step = "enqueue" /\ save'.image = new
      /\ save'.page = save.page /\ save'.picture = save.picture
      /\ save'.touched = save.touched /\ save'.strokes = save.strokes
  <2>1. save' = [save EXCEPT !.step = "enqueue", !.image = new]
    BY <1>1 DEF new
  <2> QED
    BY <1>1, <1>5, <2>1 DEF P!Saves
<1>7. PhotoTypes'
  BY <1>1, <1>4, <1>6 DEF PhotoInv, PhotoTypes
<1>8. DOMAIN images \subseteq DOMAIN images'
  BY <1>3, <1>4
<1>9. CanvasIsTheHistory' /\ PagesHavePhotos'
  BY <1>1, <1>8 DEF PhotoInv, CanvasIsTheHistory, PagesHavePhotos
<1>10. SaveIsOfItsStrokes'
  BY <1>1, <1>2, <1>5, <1>6 DEF PhotoInv, SaveIsOfItsStrokes
<1>11. FilesShowTheStrokes'
  <2>1. ASSUME failures = 0, NEW i \in DOMAIN images'
        PROVE  \/ images'[i].files = None
               \/ images'[i].files.touched
               \/ images'[i].files.picture = P!ToSet(images'[i].strokes)
    <3>1. CASE i \in DOMAIN images
      BY <1>1, <1>4, <2>1, <3>1 DEF PhotoInv, FilesShowTheStrokes
    <3>2. CASE i \notin DOMAIN images
      BY <1>2, <1>3, <1>4, <2>1, <3>2
    <3> QED
      BY <3>1, <3>2
  <2> QED
    BY <1>1, <2>1 DEF FilesShowTheStrokes
<1> QED
  BY <1>7, <1>9, <1>10, <1>11 DEF PhotoInv

\* The row of the photo takes the strokes of the save, whose files follow.
LEMMA UpdateKeepsPhotos == PhotoInv /\ P!UpdateProjectImage => PhotoInv'
<1> SUFFICES ASSUME PhotoInv, P!UpdateProjectImage
             PROVE  PhotoInv'
  OBVIOUS
<1>1. /\ save # None /\ save \in P!Saves /\ save.step = "update"
      /\ images' = [images EXCEPT ![save.image].strokes = save.strokes]
      /\ save' = [save EXCEPT !.step = "enqueue"]
      /\ UNCHANGED <<photo_page, item, image, going, strokes, drawing, overlay, items, last_stroke, failures>>
  BY DEF P!UpdateProjectImage, P!canvas, PhotoInv, PhotoTypes
<1>2. save.image \in DOMAIN images /\ images \in Seq(P!Photos)
  BY <1>1 DEF PhotoInv, SaveIsOfItsStrokes, PhotoTypes
<1>3. /\ images' \in Seq(P!Photos) /\ DOMAIN images' = DOMAIN images
      /\ \A i \in DOMAIN images \ {save.image} : images'[i] = images[i]
      /\ images'[save.image].strokes = save.strokes
  <2>1. images[save.image] \in P!Photos
    BY <1>2
  <2>2. save.strokes \in Seq(Nat)
    BY <1>1 DEF P!Saves
  <2> DEFINE photo == [images[save.image] EXCEPT !.strokes = save.strokes]
  <2>3. photo \in P!Photos /\ photo.strokes = save.strokes
    BY <2>2, <2>1 DEF P!Photos
  <2>4. images' = [images EXCEPT ![save.image] = photo]
    BY <1>1
  <2> HIDE DEF photo
  <2> QED
    BY <1>2, <2>3, <2>4
<1>4. /\ save' \in P!Saves /\ save'.step = "enqueue" /\ save'.image = save.image
      /\ save'.page = save.page /\ save'.picture = save.picture
      /\ save'.touched = save.touched /\ save'.strokes = save.strokes /\ save' # None
  BY <1>1, PagesAssumption DEF P!Saves, P!MarkupAssumption
<1>5. PhotoTypes'
  BY <1>1, <1>3, <1>4 DEF PhotoInv, PhotoTypes
<1>6. CanvasIsTheHistory' /\ PagesHavePhotos'
  BY <1>1, <1>3 DEF PhotoInv, CanvasIsTheHistory, PagesHavePhotos
<1>7. SaveIsOfItsStrokes'
  BY <1>1, <1>2, <1>3, <1>4 DEF PhotoInv, SaveIsOfItsStrokes
<1>8. FilesShowTheStrokes'
  BY <1>1, <1>3, <1>4 DEF PhotoInv, FilesShowTheStrokes
<1> QED
  BY <1>5, <1>6, <1>7, <1>8 DEF PhotoInv

\* The files that are queued are those of the row.
LEMMA EnqueueKeepsPhotos == PhotoInv /\ P!Enqueue => PhotoInv'
<1> SUFFICES ASSUME PhotoInv, P!Enqueue
             PROVE  PhotoInv'
  OBVIOUS
<1> DEFINE files == [picture |-> save.picture, touched |-> save.touched]
<1>1. /\ save # None /\ save \in P!Saves /\ save.step = "enqueue"
      /\ images' = [images EXCEPT ![save.image].files = files]
      /\ save' = None
      /\ UNCHANGED <<item, items, last_stroke, failures>>
  BY DEF P!Enqueue, PhotoInv, PhotoTypes
<1>2. /\ save.image \in DOMAIN images /\ images \in Seq(P!Photos)
      /\ images[save.image].strokes = save.strokes
      /\ ~save.touched => save.picture = P!ToSet(save.strokes)
  BY <1>1 DEF PhotoInv, SaveIsOfItsStrokes, PhotoTypes
<1>3. files \in [picture : SUBSET Nat, touched : BOOLEAN]
      /\ files.picture = save.picture /\ files.touched = save.touched
  BY <1>1 DEF P!Saves
<1> HIDE DEF files
<1>4. /\ images' \in Seq(P!Photos) /\ DOMAIN images' = DOMAIN images
      /\ \A i \in DOMAIN images \ {save.image} : images'[i] = images[i]
      /\ images'[save.image].strokes = images[save.image].strokes
      /\ images'[save.image].files = files
  <2>1. images[save.image] \in P!Photos
    BY <1>2
  <2> DEFINE photo == [images[save.image] EXCEPT !.files = files]
  <2>2. photo \in P!Photos /\ photo.strokes = images[save.image].strokes /\ photo.files = files
    BY <1>3, <2>1 DEF P!Photos
  <2>3. images' = [images EXCEPT ![save.image] = photo]
    BY <1>1
  <2> HIDE DEF photo
  <2> QED
    BY <1>2, <2>2, <2>3
<1>5. /\ photo_page' \in {photo_page, "left", "live"}
      /\ photo_page' = "photo" => photo_page = "photo" /\ image' = image
      /\ {image', going'} \subseteq Nat \cup {None}
      /\ UNCHANGED <<strokes, drawing, overlay>> \/ P!Fresh(P!Empty)
  <2>1. \/ photo_page' = "left" /\ image' = None /\ UNCHANGED going
        \/ /\ going' = IF item = None THEN save.item ELSE going
           /\ photo_page' = IF item # None /\ photo_page = "marking" THEN "live" ELSE photo_page
           /\ UNCHANGED image
    BY DEF P!Enqueue
  <2>2. UNCHANGED <<strokes, drawing, overlay>> \/ P!Fresh(P!Empty)
    BY DEF P!Enqueue, P!canvas
  <2>3. {image, going, save.item} \subseteq Nat \cup {None}
    BY <1>1 DEF PhotoInv, PhotoTypes, P!Saves
  <2> QED
    BY <2>1, <2>2, <2>3
<1>6. /\ strokes' \in [done : Seq(Nat), undone : Seq(Nat)] /\ drawing' \in Nat \cup {None}
      /\ overlay' \in SUBSET Nat /\ CanvasIsTheHistory'
  <2>1. CASE UNCHANGED <<strokes, drawing, overlay>>
    BY <2>1 DEF PhotoInv, PhotoTypes, CanvasIsTheHistory
  <2>2. CASE P!Fresh(P!Empty)
    BY <2>2, PixelsOfNone DEF P!Fresh, P!Empty, CanvasIsTheHistory
  <2> QED
    BY <1>5, <2>1, <2>2
<1>7. PhotoTypes'
  BY <1>1, <1>4, <1>5, <1>6 DEF PhotoInv, PhotoTypes
<1>8. PagesHavePhotos' /\ SaveIsOfItsStrokes'
  BY <1>1, <1>4, <1>5 DEF PhotoInv, PagesHavePhotos, SaveIsOfItsStrokes
<1>9. FilesShowTheStrokes'
  BY <1>1, <1>2, <1>3, <1>4 DEF PhotoInv, FilesShowTheStrokes
<1> QED
  BY <1>6, <1>7, <1>8, <1>9 DEF PhotoInv

LEMMA FailureKeepsPhotos == PhotoInv /\ P!SaveFails => PhotoInv'
<1> SUFFICES ASSUME PhotoInv, P!SaveFails
             PROVE  PhotoInv'
  OBVIOUS
<1>1. /\ failures' = failures + 1 /\ save' = None
      /\ UNCHANGED <<photo_page, item, image, going, strokes, drawing, overlay, items, images, last_stroke>>
  BY DEF P!SaveFails, P!canvas
<1>2. failures \in Nat
  BY DEF PhotoInv, PhotoTypes
<1> QED
  BY <1>1, <1>2 DEF PhotoInv, PhotoTypes, CanvasIsTheHistory, PagesHavePhotos, SaveIsOfItsStrokes, FilesShowTheStrokes

LEMMA PhotoNext == PhotoInv /\ [P!Next]_of_photo => PhotoInv'
<1> SUFFICES ASSUME PhotoInv, [P!Next]_of_photo
             PROVE  PhotoInv'
  OBVIOUS
<1>1. PhotoTypes /\ strokes.done \in Seq(Nat) /\ strokes.undone \in Seq(Nat)
  BY DEF PhotoInv, PhotoTypes
<1>2. CASE P!PointerDown
  <2>1. /\ drawing = None /\ drawing' = last_stroke + 1 /\ last_stroke' = last_stroke + 1
        /\ overlay' = overlay \cup {last_stroke + 1} /\ P!Touched
        /\ UNCHANGED <<photo_page, item, image, going, strokes, items, images, failures>>
    BY <1>2 DEF P!PointerDown
  <2>2. last_stroke + 1 \in Nat /\ last_stroke + 1 # None
    BY <1>1, PagesAssumption DEF PhotoTypes, P!MarkupAssumption
  <2>3. CanvasIsTheHistory'
    BY <2>1, <2>2, PixelsOfNone DEF PhotoInv, CanvasIsTheHistory, P!Pixels
  <2> QED
    BY <1>1, <2>1, <2>2, <2>3, DrawingKeepsPhotos DEF PhotoTypes
<1>3. ASSUME NEW stack \in [done : Seq(Nat), undone : Seq(Nat)], NEW stroke \in Nat \cup {None},
             P!Turn(stack, stroke)
      PROVE  PhotoInv'
  BY <1>1, <1>3, DrawingKeepsPhotos DEF P!Turn, P!Redrawn, CanvasIsTheHistory, PhotoTypes
<1>4. CASE P!PointerEnd
  <2>1. P!Push(strokes, drawing) \in [done : Seq(Nat), undone : Seq(Nat)]
    BY <1>1, <1>4, StrokesAreSequences DEF P!PointerEnd, P!Push, P!FromDone, PhotoTypes
  <2> QED
    BY <1>3, <1>4, <2>1 DEF P!PointerEnd
<1>5. CASE P!Undo
  <2>1. P!Undone(strokes) \in [done : Seq(Nat), undone : Seq(Nat)]
    BY <1>1, <1>5, StrokesAreSequences DEF P!Undo, P!Undone
  <2> QED
    BY <1>1, <1>3, <1>5, <2>1 DEF P!Undo, PhotoTypes
<1>6. CASE P!Redo
  <2>1. P!Redone(strokes) \in [done : Seq(Nat), undone : Seq(Nat)]
    BY <1>1, <1>6, StrokesAreSequences DEF P!Redo, P!Redone
  <2> QED
    BY <1>1, <1>3, <1>6, <2>1 DEF P!Redo, PhotoTypes
<1>7. P!Empty = P!FromDone(<<>>) /\ <<>> \in Seq(Nat)
  BY DEF P!Empty, P!FromDone
<1>8. ASSUME NEW i \in (1 .. items) \cup {None}, P!OpenCamera(i)
      PROVE  PhotoInv'
  <2>1. i \in Nat \cup {None}
    BY <1>1 DEF PhotoTypes
  <2> QED
    BY <1>1, <1>8, <2>1, PagesKeepPhotos DEF P!OpenCamera, P!canvas, PhotoTypes
<1>9. ASSUME NEW i \in DOMAIN images, P!OpenPhoto(i)
      PROVE  PhotoInv'
  <2>1. images[i] \in P!Photos /\ i \in Nat
    BY <1>1 DEF PhotoTypes
  <2>2. images[i].item \in Nat \cup {None} /\ images[i].strokes \in Seq(Nat)
    BY <2>1 DEF P!Photos
  <2>3. /\ photo_page' = "photo" /\ item' = images[i].item /\ image' = i /\ save = None
        /\ P!Fresh(P!FromDone(images[i].strokes))
        /\ UNCHANGED <<going, save, items, images, last_stroke, failures>>
    BY <1>9 DEF P!OpenPhoto
  <2> QED
    BY <1>1, <2>1, <2>2, <2>3, PagesKeepPhotos DEF PhotoTypes
<1>10. CASE P!Leave
  <2>1. /\ photo_page' = "left" /\ image' = None /\ going' = None
        /\ UNCHANGED <<item, save, items, images, last_stroke, failures>>
        /\ UNCHANGED <<strokes, drawing, overlay>> \/ (save = None /\ P!Fresh(P!Empty))
    BY <1>10 DEF P!Leave, P!canvas
  <2> QED
    BY <1>1, <1>7, <2>1, PagesKeepPhotos DEF PhotoTypes
<1>11. CASE P!Arrive
  <2>1. /\ photo_page' = "live" /\ item' = going /\ going' = None
        /\ UNCHANGED <<image, save, items, images, last_stroke, failures>>
        /\ UNCHANGED <<strokes, drawing, overlay>> \/ (save = None /\ P!Fresh(P!Empty))
    BY <1>11 DEF P!Arrive, P!canvas
  <2> QED
    BY <1>1, <1>7, <2>1, PagesKeepPhotos DEF PhotoTypes
<1>12. CASE P!TakePhoto
  <2>1. /\ photo_page' = "capturing" /\ save = None
        /\ UNCHANGED <<item, image, going, strokes, drawing, overlay, save, items, images, last_stroke, failures>>
    BY <1>12 DEF P!TakePhoto, P!canvas, P!Busy
  <2> QED
    BY <1>1, <2>1, PagesKeepPhotos DEF PhotoTypes
<1>13. CASE P!Captured
  <2>1. save = None
    BY <1>13 DEF P!Captured, PhotoInv, SaveIsOfItsStrokes
  <2>2. /\ photo_page' \in {"marking", "live"}
        /\ UNCHANGED <<item, image, going, save, items, images, last_stroke, failures>>
        /\ UNCHANGED <<strokes, drawing, overlay>> \/ P!Fresh(P!Empty)
    BY <1>13 DEF P!Captured, P!canvas
  <2> QED
    BY <1>1, <1>7, <2>1, <2>2, PagesKeepPhotos DEF PhotoTypes
<1>14. CASE P!Discard \/ P!GoBack
  <2>1. /\ photo_page' \in {"left", "live"} /\ image' = None /\ save = None
        /\ UNCHANGED <<item, going, save, items, images, last_stroke, failures>> /\ P!Fresh(P!Empty)
    BY <1>14 DEF P!Discard, P!GoBack, P!Busy
  <2> QED
    BY <1>1, <1>7, <2>1, PagesKeepPhotos DEF PhotoTypes
<1>15. CASE UNCHANGED of_photo
  BY <1>1, <1>15, PagesKeepPhotos
     DEF of_photo, PhotoInv, PhotoTypes, PagesHavePhotos, SaveIsOfItsStrokes
<1> QED
  BY <1>2, <1>4, <1>5, <1>6, <1>8, <1>9, <1>10, <1>11, <1>12, <1>13, <1>14, <1>15,
     ComposeKeepsPhotos, ComposedKeepsPhotos, CreateKeepsPhotos, UpdateKeepsPhotos, EnqueueKeepsPhotos,
     FailureKeepsPhotos DEF P!Next

\* The files that are queued for a photo show the strokes that are stored for it, through any drawing,
\* undoing and leaving while saves run, as long as none failed and nobody drew during the save
\* (PhotoMarkup.svelte:118-137).
THEOREM PicturesAreTrue == MCSpec => []PicturesShowTheirStrokes
<1>1. MCInit => PhotoInv
  BY PhotoInit, PagesAssumption DEF MCInit
<1>2. PhotoInv /\ [MCNext]_<<of_pages, of_others, side>> => PhotoInv'
  <2>1. [MCNext]_<<of_pages, of_others, side>> => [P!Next]_of_photo
    BY DEF MCNext, PageNext, of_pages
  <2> QED
    BY <2>1, PhotoNext
<1>3. PhotoInv => PicturesShowTheirStrokes
  BY DEF PhotoInv, FilesShowTheStrokes, PicturesShowTheirStrokes, P!PicturesShowTheirStrokes
<1> QED
  BY <1>1, <1>2, <1>3, PTL DEF MCSpec

-----------------------------------------------------------------------------
(* Pipeline.                                                               *)

(* The values of the projects, their histories and what the pages know of them. *)
ListDocuments == {"unqualified", "qualified", "proposal", "work order", "declined", "void"}
ListedRows == [client : {1}, document : ListDocuments, changed : Nat \cup {None}, closed : BOOLEAN,
               closed_on : Nat \cup {None}, in_app : BOOLEAN]
RowsOfHistory == [document : ListDocuments, day : Nat]
ListTypes ==
    /\ today \in Nat
    /\ listed \in Seq(ListedRows)
    /\ document_history \in Seq(Seq(RowsOfHistory))
    /\ seen \in Seq(SUBSET ListDocuments)
    /\ Len(document_history) = Len(listed) /\ Len(seen) = Len(listed)
(* A project's last change is the latest of its history, if that has any row. *)
ChangeIsLatest(project, lines) ==
    \/ lines = <<>> /\ project.changed = None
    \/ /\ project.changed \in Nat /\ project.changed <= today
       /\ \E k \in DOMAIN lines : lines[k].day = project.changed
       /\ \A k \in DOMAIN lines : lines[k].day <= project.changed
\* A project made in the app that is worked, or that a page knows as a proposal, has been a proposal.
Proposed(lines) == \E k \in DOMAIN lines : lines[k].document = "proposal"
WorkWasProposed(project, lines, known) ==
    project.in_app =>
        /\ "proposal" \in known => Proposed(lines)
        /\ project.document = "work order" => Proposed(lines)
ListInv ==
    /\ ListTypes
    /\ \A n \in DOMAIN listed :
         /\ ChangeIsLatest(listed[n], document_history[n])
         /\ WorkWasProposed(listed[n], document_history[n], seen[n])

\* What is assumed of the leads that are imported.
LEMMA ListConstants ==
  /\ None \notin Nat /\ HomeDays \in Nat /\ ExpireDays \in Nat /\ YearDays \in Nat
  /\ \A lead \in MCLeads :
       /\ lead.document \in ListDocuments
       /\ lead.estimated \in BOOLEAN /\ lead.over \in BOOLEAN /\ lead.dated \in BOOLEAN
       /\ lead.days[1] \in Nat /\ lead.days[2] \in Nat /\ lead.days[3] \in Nat
       /\ lead.days[1] <= lead.days[2] /\ lead.days[2] <= lead.days[3]
<1>1. W!ListsAssumption
  BY PagesAssumption
<1>2. None \notin Nat /\ {HomeDays, ExpireDays, YearDays} \subseteq Nat
  BY <1>1 DEF W!ListsAssumption
<1>3. ASSUME NEW lead \in MCLeads
      PROVE  /\ lead.document \in ListDocuments
             /\ {lead.estimated, lead.over, lead.dated} \subseteq BOOLEAN
             /\ lead.days \in [1 .. 3 -> Nat]
             /\ lead.days[1] <= lead.days[2] /\ lead.days[2] <= lead.days[3]
  BY <1>1, Zenon DEF W!ListsAssumption, ListDocuments
<1>4. ASSUME NEW lead \in MCLeads
      PROVE  lead.days[1] \in Nat /\ lead.days[2] \in Nat /\ lead.days[3] \in Nat
  BY <1>3
<1> QED
  BY <1>2, <1>3, <1>4

LEMMA ListInit == W!Init => ListInv
BY DEF W!Init, ListInv, ListTypes

\* A project that comes to the lists.
LEMMA AddingKeepsLists ==
  ASSUME ListInv, NEW project \in ListedRows, NEW lines \in Seq(RowsOfHistory),
         ChangeIsLatest(project, lines), project.in_app => project.document = "qualified",
         W!Added(project, lines), today' = today
  PROVE  ListInv'
<1> DEFINE n == Len(listed)
<1>1. /\ listed \in Seq(ListedRows) /\ document_history \in Seq(Seq(RowsOfHistory))
      /\ seen \in Seq(SUBSET ListDocuments) /\ today \in Nat
      /\ n \in Nat /\ Len(document_history) = n /\ Len(seen) = n
  BY DEF ListInv, ListTypes
<1>2. /\ listed' = Append(listed, project) /\ document_history' = Append(document_history, lines)
      /\ seen' = Append(seen, {project.document})
  BY DEF W!Added
<1> DEFINE known == {project.document}
<1>3. known \in SUBSET ListDocuments
  BY DEF ListedRows
<1>4. /\ listed' \in Seq(ListedRows) /\ Len(listed') = n + 1 /\ listed'[n + 1] = project
      /\ \A i \in 1 .. n : listed'[i] = listed[i]
  <2>1. listed' = Append(listed, project)
    BY <1>2
  <2>2. listed \in Seq(ListedRows) /\ project \in ListedRows
    BY <1>1
  <2>3. /\ listed' \in Seq(ListedRows) /\ Len(listed') = Len(listed) + 1
        /\ listed'[Len(listed) + 1] = project
        /\ \A i \in 1 .. Len(listed) : listed'[i] = listed[i]
    BY <2>1, <2>2, AppendProperties, ZenonT(60)
  <2> QED
    BY <2>3
<1>5. /\ document_history' \in Seq(Seq(RowsOfHistory)) /\ Len(document_history') = n + 1
      /\ document_history'[n + 1] = lines
      /\ \A i \in 1 .. n : document_history'[i] = document_history[i]
  <2> DEFINE Histories == Seq(RowsOfHistory)
  <2>1. document_history' = Append(document_history, lines)
    BY <1>2
  <2>2. document_history \in Seq(Histories) /\ lines \in Histories
    BY <1>1
  <2> HIDE DEF Histories
  <2>3. /\ document_history' \in Seq(Histories)
        /\ Len(document_history') = Len(document_history) + 1
        /\ document_history'[Len(document_history) + 1] = lines
        /\ \A i \in 1 .. Len(document_history) : document_history'[i] = document_history[i]
    BY <2>1, <2>2, AppendProperties, ZenonT(60)
  <2> QED
    BY <1>1, <2>3 DEF Histories
<1>6. /\ seen' \in Seq(SUBSET ListDocuments) /\ Len(seen') = n + 1 /\ seen'[n + 1] = {project.document}
      /\ \A i \in 1 .. n : seen'[i] = seen[i]
  <2>1. seen' = Append(seen, known)
    BY <1>2
  <2> DEFINE Known == SUBSET ListDocuments
  <2>2. seen \in Seq(Known) /\ known \in Known
    BY <1>1, <1>3
  <2> HIDE DEF known, Known
  <2>3. /\ seen' \in Seq(Known) /\ Len(seen') = Len(seen) + 1
        /\ seen'[Len(seen) + 1] = known
        /\ \A i \in 1 .. Len(seen) : seen'[i] = seen[i]
    BY <2>1, <2>2, AppendProperties, ZenonT(60)
  <2> QED
    BY <1>1, <2>3 DEF known, Known
<1>7. ListTypes'
  BY <1>1, <1>4, <1>5, <1>6 DEF ListTypes
<1>8. ASSUME NEW i \in 1 .. n + 1
      PROVE  /\ ChangeIsLatest(listed'[i], document_history'[i])
             /\ WorkWasProposed(listed'[i], document_history'[i], seen'[i])
  <2>1. CASE i \in 1 .. n
    <3>1. i \in DOMAIN listed
      BY <1>1, <2>1
    <3> QED
      BY <1>4, <1>5, <1>6, <2>1, <3>1 DEF ListInv
  <2>2. CASE i = n + 1
    <3>1. listed'[i] = project /\ document_history'[i] = lines /\ seen'[i] = {project.document}
      BY <1>4, <1>5, <1>6, <2>2
    <3>2. WorkWasProposed(project, lines, {project.document})
      BY DEF WorkWasProposed
    <3> QED
      BY <3>1, <3>2
  <2> QED
    BY <1>1, <2>1, <2>2
<1>9. DOMAIN listed' = 1 .. n + 1
  BY <1>4
<1> QED
  BY <1>7, <1>8, <1>9 DEF ListInv, ChangeIsLatest

\* One of the projects changes.
LEMMA ChangingKeepsLists ==
  ASSUME ListInv, NEW n \in DOMAIN listed, NEW project \in ListedRows, NEW lines \in Seq(RowsOfHistory),
         NEW known \in SUBSET ListDocuments,
         ChangeIsLatest(project, lines), WorkWasProposed(project, lines, known),
         listed' = [listed EXCEPT ![n] = project],
         document_history' = [document_history EXCEPT ![n] = lines],
         seen' = [seen EXCEPT ![n] = known],
         today' = today
  PROVE  ListInv'
<1>1. /\ listed \in Seq(ListedRows) /\ document_history \in Seq(Seq(RowsOfHistory))
      /\ seen \in Seq(SUBSET ListDocuments) /\ today \in Nat
      /\ Len(document_history) = Len(listed) /\ Len(seen) = Len(listed)
  BY DEF ListInv, ListTypes
<1>2. DOMAIN document_history = DOMAIN listed /\ DOMAIN seen = DOMAIN listed
  BY <1>1
<1>3. /\ listed' \in Seq(ListedRows) /\ Len(listed') = Len(listed) /\ listed'[n] = project
      /\ \A i \in DOMAIN listed \ {n} : listed'[i] = listed[i]
      /\ DOMAIN listed' = DOMAIN listed
  BY <1>1
<1>4. /\ document_history' \in Seq(Seq(RowsOfHistory)) /\ Len(document_history') = Len(listed)
      /\ document_history'[n] = lines
      /\ \A i \in DOMAIN listed \ {n} : document_history'[i] = document_history[i]
  BY <1>1, <1>2
<1>5. /\ seen' \in Seq(SUBSET ListDocuments) /\ Len(seen') = Len(listed) /\ seen'[n] = known
      /\ \A i \in DOMAIN listed \ {n} : seen'[i] = seen[i]
  BY <1>1, <1>2
<1>6. ListTypes'
  BY <1>1, <1>3, <1>4, <1>5 DEF ListTypes
<1>7. ASSUME NEW i \in DOMAIN listed
      PROVE  /\ ChangeIsLatest(listed'[i], document_history'[i])
             /\ WorkWasProposed(listed'[i], document_history'[i], seen'[i])
  <2>1. CASE i = n
    BY <1>3, <1>4, <1>5, <2>1
  <2>2. CASE i # n
    BY <1>3, <1>4, <1>5, <2>2 DEF ListInv
  <2> QED
    BY <2>1, <2>2
<1> QED
  BY <1>3, <1>6, <1>7 DEF ListInv, ChangeIsLatest

-----------------------------------------------------------------------------
\* An estimate page moves the document, whatever it knows of the project.
LEMMA MovingKeepsLists ==
  ASSUME ListInv, NEW n \in DOMAIN listed, NEW document \in ListDocuments, W!MoveDocument(n, document)
  PROVE  ListInv'
<1> DEFINE project == [listed[n] EXCEPT !.document = document, !.changed = today]
           row == [document |-> document, day |-> today]
           old == document_history[n]
           lines == Append(old, row)
           known == seen[n] \cup {document}
<1>1. /\ listed \in Seq(ListedRows) /\ document_history \in Seq(Seq(RowsOfHistory))
      /\ seen \in Seq(SUBSET ListDocuments) /\ today \in Nat
      /\ DOMAIN document_history = DOMAIN listed /\ DOMAIN seen = DOMAIN listed
  BY DEF ListInv, ListTypes
<1>2. listed[n] \in ListedRows /\ old \in Seq(RowsOfHistory) /\ seen[n] \in SUBSET ListDocuments
  BY <1>1
<1>3. /\ listed' = [listed EXCEPT ![n] = project]
      /\ document_history' = [document_history EXCEPT ![n] = lines]
      /\ seen' = [seen EXCEPT ![n] = known]
      /\ today' = today
      /\ document = "work order" => "proposal" \in seen[n]
  <2>1. /\ listed' = [listed EXCEPT ![n].document = document, ![n].changed = today]
        /\ document_history' = [document_history EXCEPT ![n] = Append(@, W!Row(document, today))]
        /\ seen' = [seen EXCEPT ![n] = @ \cup {document}]
        /\ today' = today
        /\ \E loaded \in seen[n] \cap DOMAIN W!NextDocument : document = W!NextDocument[loaded]
    BY Zenon DEF W!MoveDocument
  <2>2. listed' = [listed EXCEPT ![n] = project]
    BY <2>1
  <2>3. document_history' = [document_history EXCEPT ![n] = lines] /\ seen' = [seen EXCEPT ![n] = known]
    BY <1>1, <2>1 DEF W!Row
  <2>4. document = "work order" => "proposal" \in seen[n]
    <3>1. PICK loaded \in seen[n] \cap DOMAIN W!NextDocument : document = W!NextDocument[loaded]
      BY <2>1
    <3>2. DOMAIN W!NextDocument = {"unqualified", "qualified", "proposal"}
      BY DEF W!NextDocument
    <3>3. W!NextDocument["unqualified"] = "qualified" /\ W!NextDocument["qualified"] = "proposal"
      BY DEF W!NextDocument
    <3> QED
      BY <3>1, <3>2, <3>3
  <2> QED
    BY <2>1, <2>2, <2>3, <2>4
<1>4. /\ project \in ListedRows /\ project.document = document /\ project.changed = today
      /\ project.in_app = listed[n].in_app
  BY <1>1, <1>2 DEF ListedRows
<1>5. row \in RowsOfHistory /\ row.day = today /\ row.document = document
  BY <1>1 DEF RowsOfHistory
<1> HIDE DEF project, row
<1>6. /\ lines \in Seq(RowsOfHistory) /\ Len(lines) = Len(old) + 1 /\ lines[Len(old) + 1] = row
      /\ \A k \in 1 .. Len(old) : lines[k] = old[k]
  BY <1>2, <1>5, AppendProperties, ZenonT(60)
<1>7. known \in SUBSET ListDocuments
  BY <1>2
<1> HIDE DEF lines
<1>8. /\ DOMAIN lines = 1 .. Len(old) + 1 /\ DOMAIN old = 1 .. Len(old)
      /\ Len(old) + 1 \in DOMAIN lines
      /\ \A k \in DOMAIN lines :
           \/ k \in DOMAIN old /\ lines[k] = old[k]
           \/ lines[k] = row
      /\ \A k \in DOMAIN old : k \in DOMAIN lines /\ lines[k] = old[k]
  <2>1. Len(old) \in Nat /\ DOMAIN old = 1 .. Len(old) /\ DOMAIN lines = 1 .. Len(old) + 1
    BY <1>2, <1>6
  <2> DEFINE m == Len(old)
  <2>2. m + 1 \in 1 .. m + 1 /\ \A k \in 1 .. m + 1 : k \in 1 .. m \/ k = m + 1
    BY <2>1
  <2>3. 1 .. m \subseteq 1 .. m + 1
    BY <2>1
  <2> QED
    BY <1>6, <2>1, <2>2, <2>3
<1>9. ChangeIsLatest(listed[n], old) /\ WorkWasProposed(listed[n], old, seen[n])
  BY DEF ListInv
<1> HIDE DEF old, known
<1>10. ChangeIsLatest(project, lines)
  <2>1. \A k \in DOMAIN old : old[k].day <= today
    <3>1. CASE old = <<>>
      BY <3>1
    <3>2. CASE old # <<>>
      <4>1. listed[n].changed \in Nat /\ listed[n].changed <= today
            /\ \A k \in DOMAIN old : old[k].day <= listed[n].changed
        BY <1>9, <3>2 DEF ChangeIsLatest
      <4>2. \A k \in DOMAIN old : old[k] \in RowsOfHistory
        BY <1>2
      <4>3. \A k \in DOMAIN old : old[k].day \in Nat
        BY <4>2 DEF RowsOfHistory
      <4> QED
        BY <1>1, <4>1, <4>3
    <3> QED
      BY <3>1, <3>2
  <2>2. \A k \in DOMAIN lines : lines[k].day <= today
    BY <1>1, <1>5, <1>8, <2>1
  <2> QED
    BY <1>1, <1>4, <1>5, <1>6, <1>8, <2>2 DEF ChangeIsLatest
<1>11. WorkWasProposed(project, lines, known)
  <2>1. Proposed(old) => Proposed(lines)
    BY <1>8 DEF Proposed
  <2>2. document = "proposal" => Proposed(lines)
    BY <1>5, <1>6, <1>8 DEF Proposed
  <2> QED
    BY <1>3, <1>4, <1>9, <2>1, <2>2 DEF WorkWasProposed, known
<1> QED
  BY <1>3, <1>4, <1>6, <1>7, <1>10, <1>11, ChangingKeepsLists

LEMMA ShortSequences ==
  ASSUME NEW Kind, NEW a \in Kind, NEW b \in Kind, NEW c \in Kind
  PROVE  Append(<<a>>, b) = <<a, b>> /\ Append(<<a, b>>, c) = <<a, b, c>>
<1>1. <<a>> \in Seq(Kind) /\ <<a, b>> \in Seq(Kind) /\ <<a, b, c>> \in Seq(Kind)
  OBVIOUS
<1>2. Append(<<a>>, b) = <<a, b>>
  <2> DEFINE s == Append(<<a>>, b)
             t == <<a, b>>
  <2>1. s \in Seq(Kind) /\ Len(s) = 2 /\ s[1] = a /\ s[2] = b
    BY <1>1
  <2>2. t \in Seq(Kind) /\ Len(t) = 2 /\ t[1] = a /\ t[2] = b
    BY <1>1
  <2> HIDE DEF s, t
  <2>3. s = t
    BY <2>1, <2>2, SeqEqual
  <2> QED
    BY <2>3 DEF s, t
<1>3. Append(<<a, b>>, c) = <<a, b, c>>
  <2> DEFINE s == Append(<<a, b>>, c)
             t == <<a, b, c>>
  <2>1. s \in Seq(Kind) /\ Len(s) = 3 /\ s[1] = a /\ s[2] = b /\ s[3] = c
    BY <1>1
  <2>2. t \in Seq(Kind) /\ Len(t) = 3 /\ t[1] = a /\ t[2] = b /\ t[3] = c
    BY <1>1
  <2> HIDE DEF s, t
  <2>3. s = t
    BY <2>1, <2>2, SeqEqual
  <2> QED
    BY <2>3 DEF s, t
<1> QED
  BY <1>2, <1>3

\* What an export says of a lead is a history with its latest day at the end.
LEMMA ChainsAreOrdered ==
  ASSUME NEW lead \in MCLeads, W!Exported(lead), today \in Nat
  PROVE  /\ W!Chain(lead) \in Seq(RowsOfHistory)
         /\ W!Last(W!Chain(lead)).day \in Nat /\ W!Last(W!Chain(lead)).day <= today
         /\ \E k \in DOMAIN W!Chain(lead) : W!Chain(lead)[k].day = W!Last(W!Chain(lead)).day
         /\ \A k \in DOMAIN W!Chain(lead) : W!Chain(lead)[k].day <= W!Last(W!Chain(lead)).day
<1> DEFINE first == [document |-> "unqualified", day |-> lead.days[1]]
           second == [document |-> "proposal", day |-> lead.days[2]]
           third == [document |-> lead.document, day |-> lead.days[3]]
           chain == W!Chain(lead)
<1>1. /\ first \in RowsOfHistory /\ second \in RowsOfHistory /\ third \in RowsOfHistory
      /\ first.day <= second.day /\ second.day <= third.day /\ third.day <= today
  BY ListConstants DEF RowsOfHistory, ListDocuments, W!Exported
<1>2. first.day \in Nat /\ second.day \in Nat /\ third.day \in Nat
  BY ListConstants
<1>3. chain = <<first>> \o (IF lead.estimated THEN <<second>> ELSE <<>>)
                        \o (IF lead.document \in {"unqualified", "proposal"} THEN <<>> ELSE <<third>>)
  BY DEF W!Chain, W!Row
<1> HIDE DEF first, second, third, chain
<1>4. chain \in {<<first>>, <<first, second>>, <<first, third>>, <<first, second, third>>}
  <2> DEFINE a == IF lead.estimated THEN <<second>> ELSE <<>>
             b == IF lead.document \in {"unqualified", "proposal"} THEN <<>> ELSE <<third>>
  <2>1. a \in {<<>>, <<second>>} /\ b \in {<<>>, <<third>>}
    OBVIOUS
  <2>2. chain = (<<first>> \o a) \o b
    BY <1>3
  <2> HIDE DEF a, b
  <2>3. <<first>> \in Seq(RowsOfHistory) /\ <<first, second>> \in Seq(RowsOfHistory)
    BY <1>1
  <2>4. <<first>> \o <<>> = <<first>> /\ <<first, second>> \o <<>> = <<first, second>>
    BY <2>3, ConcatEmptySeq, Zenon
  <2>5. /\ <<first>> \o <<second>> = Append(<<first>>, second)
        /\ <<first>> \o <<third>> = Append(<<first>>, third)
        /\ <<first, second>> \o <<third>> = Append(<<first, second>>, third)
    BY <1>1, <2>3, AppendIsConcat
  <2>6. /\ Append(<<first>>, second) = <<first, second>> /\ Append(<<first>>, third) = <<first, third>>
        /\ Append(<<first, second>>, third) = <<first, second, third>>
    BY <1>1, ShortSequences, Zenon
  <2> QED
    BY <2>1, <2>2, <2>4, <2>5, <2>6
<1>5. CASE chain = <<first>>
  BY <1>1, <1>2, <1>5 DEF W!Last, chain
<1>6. CASE chain = <<first, second>>
  BY <1>1, <1>2, <1>6 DEF W!Last, chain
<1>7. CASE chain = <<first, third>>
  BY <1>1, <1>2, <1>7 DEF W!Last, chain
<1>8. CASE chain = <<first, second, third>>
  BY <1>1, <1>2, <1>8 DEF W!Last, chain
<1> QED
  BY <1>4, <1>5, <1>6, <1>7, <1>8

\* What is imported of a lead.
LEMMA ImportsFitTheirHistory ==
  ASSUME NEW lead \in MCLeads, W!Exported(lead), today \in Nat,
         NEW project \in [client : {1}, document : ListDocuments \cup {None}, changed : Nat \cup {None},
                          closed : BOOLEAN, closed_on : Nat \cup {None}, in_app : {FALSE}],
         NEW lines \in Seq(RowsOfHistory), ChangeIsLatest(project, lines)
  PROVE  /\ W!Imported(project, lead) \in ListedRows
         /\ W!Imported(project, lead).in_app = FALSE
         /\ ChangeIsLatest(W!Imported(project, lead), IF lead.dated THEN W!Chain(lead) ELSE lines)
<1> DEFINE imported == W!Imported(project, lead)
           latest == W!Last(W!Chain(lead)).day
<1>1. W!ClosedOn(lead) \in Nat \cup {None}
  BY ListConstants DEF W!ClosedOn
<1>2. latest \in Nat
  BY ChainsAreOrdered
<1>3. imported = [project EXCEPT !.document = lead.document,
                                 !.changed = IF lead.dated THEN latest ELSE project.changed,
                                 !.closed = project.closed \/ lead.over,
                                 !.closed_on = IF lead.over /\ project.closed_on = None
                                               THEN W!ClosedOn(lead) ELSE project.closed_on]
  BY DEF W!Imported
<1> HIDE DEF imported, latest
<1>4. imported \in ListedRows
  BY <1>1, <1>2, <1>3, ListConstants DEF ListedRows
<1>5. /\ imported.in_app = FALSE /\ imported.changed = IF lead.dated THEN latest ELSE project.changed
  BY <1>3
<1>6. ChangeIsLatest(imported, IF lead.dated THEN W!Chain(lead) ELSE lines)
  <2>1. CASE lead.dated
    <3>1. imported.changed = latest
      BY <1>5, <2>1
    <3> QED
      BY <1>2, <2>1, <3>1, ChainsAreOrdered DEF ChangeIsLatest, latest
  <2>2. CASE ~lead.dated
    BY <1>5, <2>2 DEF ChangeIsLatest
  <2> QED
    BY <2>1, <2>2
<1> QED
  BY <1>4, <1>5, <1>6 DEF imported

LEMMA DocumentsHaveFlags ==
  /\ W!ToSet(W!ProjectDocuments) = ListDocuments
  /\ W!TheDocument("needs_estimate_to_move_on") = "qualified"
  /\ \A document :
       /\ W!Has(document, "needs_to_be_contacted_by_lead_qualifier") <=> document = "unqualified"
       /\ W!Has(document, "needs_estimate_to_move_on") <=> document = "qualified"
       /\ W!Has(document, "needs_client_approval_to_move_on") <=> document = "proposal"
       /\ W!Has(document, "can_expire") <=> document = "proposal"
       /\ W!Has(document, "represents_billable_sale_when_closed") <=> document = "work order"
<1>1. W!ToSet(W!ProjectDocuments) = ListDocuments
  <2>1. DOMAIN W!ProjectDocuments = 1 .. 6
    BY DEF W!ProjectDocuments
  <2>2. 1 .. 6 = {1, 2, 3, 4, 5, 6}
    OBVIOUS
  <2>3. W!ToSet(W!ProjectDocuments) = {W!ProjectDocuments[k] : k \in {1, 2, 3, 4, 5, 6}}
    BY <2>1, <2>2 DEF W!ToSet
  <2>4. /\ W!ProjectDocuments[1] = "unqualified" /\ W!ProjectDocuments[2] = "qualified"
        /\ W!ProjectDocuments[3] = "proposal" /\ W!ProjectDocuments[4] = "work order"
        /\ W!ProjectDocuments[5] = "declined" /\ W!ProjectDocuments[6] = "void"
    BY DEF W!ProjectDocuments
  <2> QED
    BY <2>3, <2>4 DEF ListDocuments
<1>2. /\ W!DocumentsWith["needs_to_be_contacted_by_lead_qualifier"] = {"unqualified"}
      /\ W!DocumentsWith["needs_estimate_to_move_on"] = {"qualified"}
      /\ W!DocumentsWith["needs_client_approval_to_move_on"] = {"proposal"}
      /\ W!DocumentsWith["can_expire"] = {"proposal"}
      /\ W!DocumentsWith["represents_billable_sale_when_closed"] = {"work order"}
  BY DEF W!DocumentsWith
<1>3. W!TheDocument("needs_estimate_to_move_on") = "qualified"
  BY <1>1, <1>2 DEF W!TheDocument, W!Has, ListDocuments
<1> QED
  BY <1>1, <1>2, <1>3 DEF W!Has

LEMMA ListNext == ListInv /\ [W!Next]_of_lists => ListInv'
<1> SUFFICES ASSUME ListInv, [W!Next]_of_lists
             PROVE  ListInv'
  OBVIOUS
<1>1. /\ listed \in Seq(ListedRows) /\ document_history \in Seq(Seq(RowsOfHistory))
      /\ seen \in Seq(SUBSET ListDocuments) /\ today \in Nat
      /\ DOMAIN document_history = DOMAIN listed /\ DOMAIN seen = DOMAIN listed
  BY DEF ListInv, ListTypes
<1>2. CASE UNCHANGED of_lists
  BY <1>2 DEF of_lists, ListInv, ListTypes, ChangeIsLatest
<1>3. ASSUME NEW c \in {1}, W!CreateLead(c)
      PROVE  ListInv'
  <2> DEFINE project == [client |-> c, document |-> "qualified", changed |-> today, closed |-> FALSE,
                         closed_on |-> None, in_app |-> TRUE]
             row == [document |-> "qualified", day |-> today]
             lines == <<row>>
  <2>1. W!Added(project, lines) /\ today' = today
    BY <1>3, DocumentsHaveFlags DEF W!CreateLead, W!Row
  <2>2. project \in ListedRows /\ project.document = "qualified" /\ project.changed = today
    BY <1>1 DEF ListedRows, ListDocuments
  <2>3. row \in RowsOfHistory /\ row.day = today
    BY <1>1 DEF RowsOfHistory, ListDocuments
  <2> HIDE DEF row, project
  <2>4. lines \in Seq(RowsOfHistory) /\ DOMAIN lines = {1} /\ lines[1] = row
    BY <2>3
  <2> HIDE DEF lines
  <2>5. ChangeIsLatest(project, lines)
    BY <1>1, <2>2, <2>3, <2>4 DEF ChangeIsLatest
  <2> QED
    BY <2>1, <2>2, <2>4, <2>5, AddingKeepsLists
<1>4. ASSUME NEW c \in {1}, NEW lead \in MCLeads, W!ImportNew(c, lead)
      PROVE  ListInv'
  <2> DEFINE project == [client |-> c, document |-> None, changed |-> None, closed |-> FALSE,
                         closed_on |-> None, in_app |-> FALSE]
             lines == IF lead.dated THEN W!Chain(lead) ELSE <<>>
             imported == W!Imported(project, lead)
  <2>1. W!Added(imported, lines) /\ today' = today /\ W!Exported(lead)
    BY <1>4 DEF W!ImportNew
  <2>2. project \in [client : {1}, document : ListDocuments \cup {None}, changed : Nat \cup {None},
                     closed : BOOLEAN, closed_on : Nat \cup {None}, in_app : {FALSE}]
    OBVIOUS
  <2>3. <<>> \in Seq(RowsOfHistory) /\ ChangeIsLatest(project, <<>>)
    BY DEF ChangeIsLatest
  <2> HIDE DEF project
  <2>4. imported \in ListedRows /\ imported.in_app = FALSE /\ ChangeIsLatest(imported, lines)
    BY <1>1, <2>1, <2>2, <2>3, ImportsFitTheirHistory
  <2>5. lines \in Seq(RowsOfHistory)
    BY <1>1, <2>1, <2>3, ChainsAreOrdered
  <2> HIDE DEF imported, lines
  <2> QED
    BY <2>1, <2>4, <2>5, AddingKeepsLists
<1>5. ASSUME NEW n \in DOMAIN listed, NEW lead \in MCLeads, W!ImportAgain(n, lead)
      PROVE  ListInv'
  <2> DEFINE project == listed[n]
             old == document_history[n]
             lines == IF lead.dated THEN W!Chain(lead) ELSE old
             imported == W!Imported(project, lead)
             known == seen[n] \cup {lead.document}
  <2>1. /\ listed' = [listed EXCEPT ![n] = imported] /\ W!Exported(lead) /\ today' = today
        /\ seen' = [seen EXCEPT ![n] = known]
        /\ document_history' = IF lead.dated THEN [document_history EXCEPT ![n] = W!Chain(lead)] ELSE document_history
        /\ ~project.in_app
    BY <1>5 DEF W!ImportAgain
  <2>2. document_history' = [document_history EXCEPT ![n] = lines]
    <3>1. document_history = [document_history EXCEPT ![n] = old]
      BY <1>1
    <3> QED
      BY <2>1, <3>1
  <2>3. project \in ListedRows /\ old \in Seq(RowsOfHistory) /\ ChangeIsLatest(project, old)
    BY <1>1 DEF ListInv
  <2>4. project \in [client : {1}, document : ListDocuments \cup {None}, changed : Nat \cup {None},
                     closed : BOOLEAN, closed_on : Nat \cup {None}, in_app : {FALSE}]
    BY <2>1, <2>3 DEF ListedRows
  <2>5. known \in SUBSET ListDocuments
    BY <1>1, ListConstants
  <2> HIDE DEF project, old
  <2>6. imported \in ListedRows /\ imported.in_app = FALSE /\ ChangeIsLatest(imported, lines)
    BY <1>1, <2>1, <2>3, <2>4, ImportsFitTheirHistory
  <2>7. lines \in Seq(RowsOfHistory)
    BY <1>1, <2>1, <2>3, ChainsAreOrdered
  <2> HIDE DEF imported, lines, known
  <2>8. WorkWasProposed(imported, lines, known)
    BY <2>6 DEF WorkWasProposed
  <2> QED
    BY <2>1, <2>2, <2>5, <2>6, <2>7, <2>8, ChangingKeepsLists
<1>6. CASE W!DayPasses
  <2>1. today' = today + 1 /\ UNCHANGED <<listed, document_history, seen>>
    BY <1>6 DEF W!DayPasses
  <2>2. ListTypes'
    BY <1>1, <2>1 DEF ListInv, ListTypes
  <2>3. ASSUME NEW n \in DOMAIN listed
        PROVE  ChangeIsLatest(listed[n], document_history[n])'
    <3>1. ChangeIsLatest(listed[n], document_history[n])
      BY DEF ListInv
    <3>2. \A day \in Nat : day <= today => day <= today + 1
      BY <1>1
    <3> QED
      BY <2>1, <3>1, <3>2 DEF ChangeIsLatest
  <2> QED
    BY <2>1, <2>2, <2>3 DEF ListInv
<1>7. CASE W!Next
  BY <1>3, <1>4, <1>5, <1>6, <1>7, DocumentsHaveFlags, MovingKeepsLists DEF W!Next
<1> QED
  BY <1>2, <1>7

-----------------------------------------------------------------------------
(* What the pages show.                                                    *)

LEMMA PipelineRowsAre ==
  ASSUME ListInv
  PROVE  /\ \A row \in W!PipelineRows :
              /\ row[1] \in DOMAIN listed /\ row[2] \in DOMAIN document_history[row[1]]
              /\ document_history[row[1]][row[2]].day >= today - HomeDays
         /\ \A n \in W!LeadList, k \in Nat :
              k \in DOMAIN document_history[n] /\ document_history[n][k].day >= today - HomeDays =>
                <<n, k>> \in W!PipelineRows
<1>1. ASSUME NEW row \in W!PipelineRows
      PROVE  /\ row[1] \in DOMAIN listed /\ row[2] \in DOMAIN document_history[row[1]]
             /\ document_history[row[1]][row[2]].day >= today - HomeDays
  <2>1. row \in W!HistoryRows(W!Open) /\ document_history[row[1]][row[2]].day >= today - HomeDays
    BY DEF W!PipelineRows
  <2>2. PICK n \in W!Open : row \in {n} \X DOMAIN document_history[n]
    BY <2>1 DEF W!HistoryRows
  <2>3. n \in DOMAIN listed
    BY DEF W!Open
  <2> QED
    BY <2>1, <2>2, <2>3
<1>2. ASSUME NEW n \in W!LeadList, NEW k \in DOMAIN document_history[n],
             document_history[n][k].day >= today - HomeDays
      PROVE  <<n, k>> \in W!PipelineRows
  <2>1. n \in W!Open /\ listed[n].document \in {"unqualified", "qualified"}
    BY DocumentsHaveFlags DEF W!LeadList, W!InA
  <2>2. <<n, k>> \in W!HistoryRows(W!Open)
    BY <2>1 DEF W!HistoryRows
  <2>3. W!ProjectDocuments[1] = "unqualified" /\ W!ProjectDocuments[2] = "qualified"
    BY DEF W!ProjectDocuments
  <2> QED
    BY <1>2, <2>1, <2>2, <2>3 DEF W!PipelineRows
<1> QED
  BY <1>1, <1>2

LEMMA StatusAgesHold == ListInv => W!StatusAgesAreTrue
<1> SUFFICES ASSUME ListInv
             PROVE  W!StatusAgesAreTrue
  OBVIOUS
<1>1. /\ listed \in Seq(ListedRows) /\ document_history \in Seq(Seq(RowsOfHistory)) /\ today \in Nat
      /\ DOMAIN document_history = DOMAIN listed
  BY DEF ListInv, ListTypes
<1>2. DOMAIN W!Pipeline = {row[1] : row \in W!PipelineRows}
  BY DEF W!Pipeline
<1>3. ASSUME NEW n \in DOMAIN W!Pipeline
      PROVE  W!Pipeline[n].latest_change = listed[n].changed
  <2> DEFINE days == {document_history[n][row[2]].day : row \in {row \in W!PipelineRows : row[1] = n}}
  <2>1. W!Pipeline[n].latest_change = W!Max(days)
    BY <1>2 DEF W!Pipeline
  <2>2. PICK row \in W!PipelineRows : row[1] = n
    BY <1>2
  <2>3. n \in DOMAIN listed /\ row[2] \in DOMAIN document_history[n]
        /\ document_history[n][row[2]].day >= today - HomeDays
    BY <2>2, PipelineRowsAre
  <2>4. /\ document_history[n] \in Seq(RowsOfHistory)
        /\ \A k \in DOMAIN document_history[n] : document_history[n][k] \in RowsOfHistory
    BY <1>1, <2>3
  <2>5. \A k \in DOMAIN document_history[n] : document_history[n][k].day \in Nat
    BY <2>4 DEF RowsOfHistory
  <2>6. /\ listed[n].changed \in Nat
        /\ \A k \in DOMAIN document_history[n] : document_history[n][k].day <= listed[n].changed
    BY <2>3 DEF ListInv, ChangeIsLatest
  <2>7. PICK k \in DOMAIN document_history[n] : document_history[n][k].day = listed[n].changed
    BY <2>3 DEF ListInv, ChangeIsLatest
  <2>8. listed[n].changed >= today - HomeDays
    BY <1>1, <2>3, <2>5, <2>6, ListConstants
  <2>9. \A day \in days : day \in Nat /\ day <= listed[n].changed
    BY <2>5, <2>6, PipelineRowsAre
  <2>10. <<n, k>> \in W!PipelineRows
    <3>1. n \in W!Open /\ listed[n].document \in {W!ProjectDocuments[1], W!ProjectDocuments[2]}
      <4>1. row \in W!HistoryRows(W!Open) /\ listed[row[1]].document \in {W!ProjectDocuments[1], W!ProjectDocuments[2]}
        BY <2>2 DEF W!PipelineRows
      <4>2. PICK m \in W!Open : row \in {m} \X DOMAIN document_history[m]
        BY <4>1 DEF W!HistoryRows
      <4> QED
        BY <2>2, <4>1, <4>2
    <3>2. <<n, k>> \in W!HistoryRows(W!Open)
      BY <3>1 DEF W!HistoryRows
    <3> QED
      BY <2>7, <2>8, <3>1, <3>2 DEF W!PipelineRows
  <2>11. listed[n].changed \in days
    <3>1. document_history[n][<<n, k>>[2]].day \in days
      BY <2>10
    <3> QED
      BY <2>7, <3>1
  <2> HIDE DEF days
  <2>12. W!Max(days) = listed[n].changed
    <3> DEFINE it == CHOOSE x \in days : \A y \in days : x >= y
    <3>1. \A y \in days : listed[n].changed >= y
      BY <2>6, <2>9
    <3>2. it \in days /\ \A y \in days : it >= y
      BY <2>11, <3>1, Zenon
    <3>3. W!Max(days) = it
      BY DEF W!Max
    <3> HIDE DEF it
    <3> QED
      BY <2>6, <2>9, <2>11, <3>2, <3>3
  <2> QED
    BY <2>1, <2>12
<1>4. ASSUME NEW n \in W!LeadList, listed[n].changed # None, listed[n].changed >= today - HomeDays
      PROVE  n \in DOMAIN W!Pipeline
  <2>1. n \in DOMAIN listed
    BY DEF W!LeadList, W!Open
  <2>2. PICK k \in DOMAIN document_history[n] : document_history[n][k].day = listed[n].changed
    BY <1>4, <2>1 DEF ListInv, ChangeIsLatest
  <2>3. k \in Nat
    BY <1>1, <2>1
  <2>4. <<n, k>> \in W!PipelineRows
    BY <1>4, <2>2, <2>3, PipelineRowsAre
  <2> QED
    BY <1>2, <2>4
<1> QED
  BY <1>3, <1>4 DEF W!StatusAgesAreTrue

LEMMA ForgottenHold == ListInv => W!NoProjectIsForgotten
<1> SUFFICES ASSUME ListInv
             PROVE  W!NoProjectIsForgotten
  OBVIOUS
<1>1. \A n \in DOMAIN listed : listed[n] \in ListedRows
  BY DEF ListInv, ListTypes
<1>2. /\ W!LeadList = {n \in W!Open : listed[n].document \in {"unqualified", "qualified"}}
      /\ W!LeadsToEstimate = {n \in W!Open : listed[n].document = "qualified"}
      /\ W!ProposalList = {n \in W!Open : listed[n].document = "proposal" /\ W!Unexpired(n)}
  BY DocumentsHaveFlags DEF W!LeadList, W!LeadsToEstimate, W!ProposalList, W!InA, W!Open
<1>3. W!LeadList \cap W!ProposalList = {} /\ W!LeadsToEstimate \subseteq W!LeadList
  BY <1>2
<1>4. ASSUME NEW n \in W!Open \ (W!LeadList \cup W!ProposalList),
             listed[n].document \in {"unqualified", "qualified", "proposal"}
      PROVE  listed[n].document = "proposal" /\ (listed[n].changed = None \/ today - listed[n].changed > ExpireDays)
  <2>1. listed[n].document = "proposal" /\ ~W!Unexpired(n)
    BY <1>2, <1>4
  <2>2. listed[n].changed = None \/ ~(listed[n].changed >= today - ExpireDays)
    BY <2>1 DEF W!Unexpired
  <2>3. n \in DOMAIN listed
    BY DEF W!Open
  <2>4. listed[n].changed \in Nat \cup {None} /\ today \in Nat /\ ExpireDays \in Nat
    BY <1>1, <2>3, ListConstants DEF ListedRows, ListInv, ListTypes
  <2> QED
    BY <2>1, <2>2, <2>4
<1> QED
  BY <1>3, <1>4 DEF W!NoProjectIsForgotten

LEMMA AcceptedHold == ListInv => W!AcceptedWasProposed
<1> SUFFICES ASSUME ListInv, NEW c \in {1}
             PROVE  /\ W!Metrics(c).latest_job_count <= W!Metrics(c).accepted
                    /\ W!Metrics(c).proposals <= W!Cardinality(W!Of(c))
                    /\ (\A n \in W!Of(c) : listed[n].in_app) => W!Metrics(c).accepted <= W!Metrics(c).proposals
  BY Zenon DEF W!AcceptedWasProposed
<1> DEFINE mine == W!Of(c)
           accepted == W!AcceptedProjects(c)
           jobs == W!LatestJobs(c)
           proposed == {row[1] : row \in W!ProposalRows(c)}
<1>1. /\ W!Metrics(c).proposals = Cardinality(proposed) /\ W!Metrics(c).accepted = Cardinality(accepted)
      /\ W!Metrics(c).latest_job_count = Cardinality(jobs) /\ W!Cardinality(W!Of(c)) = Cardinality(mine)
  BY DEF W!Metrics, W!CountProjects, W!Cardinality, Cardinality
<1>2. mine \subseteq DOMAIN listed /\ accepted \subseteq mine /\ jobs \subseteq accepted
  BY DEF W!Of, W!AcceptedProjects, W!LatestJobs
<1>3. proposed \subseteq mine
  <2>1. ASSUME NEW row \in W!ProposalRows(c)
        PROVE  row[1] \in mine
    <3>1. row \in W!HistoryRows(W!Of(c))
      BY DEF W!ProposalRows
    <3>2. PICK n \in W!Of(c) : row \in {n} \X DOMAIN document_history[n]
      BY <3>1 DEF W!HistoryRows
    <3> QED
      BY <3>2
  <2> QED
    BY <2>1
<1>4. (\A n \in mine : listed[n].in_app) => accepted \subseteq proposed
  <2> SUFFICES ASSUME \A n \in mine : listed[n].in_app, NEW n \in accepted
               PROVE  n \in proposed
    OBVIOUS
  <2>1. n \in DOMAIN listed /\ n \in W!Of(c) /\ listed[n].in_app /\ listed[n].document = "work order"
    BY <1>2, DocumentsHaveFlags DEF W!AcceptedProjects, W!InA
  <2>2. PICK k \in DOMAIN document_history[n] : document_history[n][k].document = "proposal"
    BY <2>1 DEF ListInv, WorkWasProposed, Proposed
  <2>3. <<n, k>> \in W!HistoryRows(W!Of(c))
    <3>1. <<n, k>> \in {n} \X DOMAIN document_history[n]
      BY <2>2
    <3>2. n \in W!Of(c)
      BY <2>1
    <3> HIDE DEF mine, accepted, jobs, proposed
    <3> QED
      BY <3>1, <3>2, Zenon DEF W!HistoryRows
  <2>4. <<n, k>> \in W!ProposalRows(c)
    BY <2>2, <2>3, DocumentsHaveFlags DEF W!ProposalRows
  <2> QED
    BY <2>4
<1> HIDE DEF mine, accepted, jobs, proposed
<1>5. IsFiniteSet(DOMAIN listed)
  <2>1. DOMAIN listed = 1 .. Len(listed) /\ Len(listed) \in Nat
    BY DEF ListInv, ListTypes
  <2> QED
    BY <2>1, FS_Interval
<1>6. IsFiniteSet(mine) /\ IsFiniteSet(accepted) /\ IsFiniteSet(proposed)
  BY <1>2, <1>3, <1>5, FS_Subset
<1>7. Cardinality(jobs) <= Cardinality(accepted) /\ Cardinality(proposed) <= Cardinality(mine)
      /\ (accepted \subseteq proposed => Cardinality(accepted) <= Cardinality(proposed))
  BY <1>2, <1>3, <1>6, FS_Subset
<1>8. (\A n \in W!Of(c) : listed[n].in_app) => accepted \subseteq proposed
  BY <1>4 DEF mine
<1> QED
  BY <1>1, <1>7, <1>8

\* The home page tells how long every lead and estimate has its status, the lists of leads and proposals
\* show every open project that is not worked yet unless its proposal expired, and no client is said to
\* have accepted more than was proposed, through any moves by old pages and any imports
\* (Home.State.svelte:25-53, Proposal.State.svelte:21-34, client_metrics.ts:13-56).
THEOREM ListsAreTrue == MCSpec => []PipelineIsTrue
<1>1. MCInit => ListInv
  BY ListInit DEF MCInit
<1>2. ListInv /\ [MCNext]_<<of_pages, of_others, side>> => ListInv'
  <2>1. [MCNext]_<<of_pages, of_others, side>> => [W!Next]_of_lists
    BY DEF MCNext, PageNext, of_pages
  <2> QED
    BY <2>1, ListNext
<1>3. ListInv => PipelineIsTrue
  BY StatusAgesHold, ForgottenHold, AcceptedHold DEF PipelineIsTrue, W!PipelineIsTrue
<1> QED
  BY <1>1, <1>2, <1>3, PTL DEF MCSpec

-----------------------------------------------------------------------------
(* Sessions.                                                               *)

(* The values of the worker, of a browser and of its tabs.                  *)
People == Employees \cup {None}
SessionRows == [employee : Employees, invalidated : BOOLEAN]
Asks == [tab : Tabs \cup {None}, kind : {"session", "call", "create company", "log in", "log out"},
         who : People, right : BOOLEAN, cookie : Nat, at : {"sent", "checked", "answered", "refused", "over"},
         is : People, session : Nat, late : BOOLEAN]
Transitions == [to : {"login", "app"}, request : Nat, alive : BOOLEAN]
WorkerTypes ==
    /\ sessions \in Seq(SessionRows) /\ requests \in Seq(Asks)
    /\ cookie \in 0 .. Len(sessions)
\* What was logged out of is invalidated, and stays so.
OutIsInvalidated == out \subseteq DOMAIN sessions /\ \A c \in out : sessions[c].invalidated
\* A request is about rows that are there, and somebody logs in; the answer has the session that was
\* inserted.  A call with a session that was logged out runs for nobody.
IsRight(request, rows_of) ==
    /\ request.cookie <= rows_of /\ request.session <= rows_of
    /\ request.kind \in {"log in", "create company"} => request.who \in Employees
    /\ request.kind = "create company" => request.tab = None
    /\ request.tab = None => request.kind \in {"log in", "create company"}
    /\ request.at = "refused" => request.kind \in {"log in", "create company"}
    /\ request.kind = "log in" /\ request.at = "answered" => request.session # 0
    /\ request.late => request.is = None /\ request.at # "sent"
RequestsAreRight == \A n \in DOMAIN requests : IsRight(requests[n], Len(sessions))
OutInv == WorkerTypes /\ OutIsInvalidated /\ RequestsAreRight

LEMMA NoTabIsNone == None \notin Tabs
BY PagesAssumption DEF S!SessionsAssumption

LEMMA Widened ==
  ASSUME NEW r \in Asks, NEW k \in Nat, NEW l \in Nat, k <= l, IsRight(r, k)
  PROVE  IsRight(r, l)
<1>1. r.cookie \in Nat /\ r.session \in Nat
  BY Zenon DEF Asks
<1>2. r.cookie <= k /\ r.session <= k
  BY Zenon DEF IsRight
<1>3. r.cookie <= l /\ r.session <= l
  BY <1>1, <1>2
<1> QED
  BY <1>3, Zenon DEF IsRight

LEMMA Answering ==
  ASSUME NEW r \in Asks, NEW k \in Nat, IsRight(r, k), NEW who \in People, NEW late \in BOOLEAN,
         late => who = None, r.kind # "log in"
  PROVE  LET new == [r EXCEPT !.at = "answered", !.is = who, !.late = late]
         IN  new \in Asks /\ IsRight(new, k)
<1> DEFINE new == [r EXCEPT !.at = "answered", !.is = who, !.late = late]
<1>1. new \in Asks
  BY Zenon DEF Asks
<1>2. new.cookie = r.cookie /\ new.session = r.session /\ new.kind = r.kind /\ new.tab = r.tab /\ new.who = r.who
      /\ new.is = who /\ new.at = "answered"
  BY Zenon DEF Asks
<1>3. new.late = late
  BY Zenon DEF Asks
<1> HIDE DEF new
<1>4. IsRight(new, k)
  BY <1>2, <1>3, Zenon DEF IsRight
<1> QED
  BY <1>1, <1>4, Zenon DEF new

LEMMA LoggedIn ==
  ASSUME NEW r \in Asks, NEW k \in Nat, IsRight(r, k), NEW l \in Nat \ {0}, k <= l
  PROVE  LET new == [r EXCEPT !.at = "answered", !.session = l]
         IN  new \in Asks /\ IsRight(new, l)
<1> DEFINE new == [r EXCEPT !.at = "answered", !.session = l]
<1>1. new \in Asks
  BY Zenon DEF Asks
<1>2. new.cookie = r.cookie /\ new.session = l /\ new.kind = r.kind /\ new.tab = r.tab /\ new.who = r.who /\ new.late = r.late
      /\ new.is = r.is /\ new.at = "answered"
  BY Zenon DEF Asks
<1>3. IsRight(r, l)
  BY Widened
<1>4. l <= l
  OBVIOUS
<1> HIDE DEF new
<1>5. IsRight(new, l)
  BY <1>2, <1>3, <1>4, Zenon DEF IsRight
<1> QED
  BY <1>1, <1>5 DEF new

LEMMA OneRequest ==
  ASSUME OutInv, NEW n \in DOMAIN requests, NEW new \in Asks, requests' = [requests EXCEPT ![n] = new],
         sessions' \in Seq(SessionRows), Len(sessions) <= Len(sessions'), cookie' \in 0 .. Len(sessions'),
         IsRight(new, Len(sessions'))
  PROVE  WorkerTypes' /\ RequestsAreRight' /\ DOMAIN requests' = DOMAIN requests
<1>1. requests \in Seq(Asks)
  BY DEF OutInv, WorkerTypes
<1>2. requests' \in Seq(Asks) /\ DOMAIN requests' = DOMAIN requests
  BY <1>1
<1>3. \A m \in DOMAIN requests : requests'[m] = IF m = n THEN new ELSE requests[m]
  BY <1>1
<1>4. \A m \in DOMAIN requests : requests[m] \in Asks /\ IsRight(requests[m], Len(sessions))
  BY <1>1 DEF OutInv, RequestsAreRight
<1>5. Len(sessions) \in Nat /\ Len(sessions') \in Nat
  BY DEF OutInv, WorkerTypes
<1>6. \A m \in DOMAIN requests : IsRight(requests[m], Len(sessions'))
  <2> SUFFICES ASSUME NEW m \in DOMAIN requests
               PROVE  IsRight(requests[m], Len(sessions'))
    OBVIOUS
  <2> QED
    BY <1>4, <1>5, Widened
<1>7. \A m \in DOMAIN requests' : IsRight(requests'[m], Len(sessions'))
  BY <1>2, <1>3, <1>6
<1> QED
  BY <1>2, <1>7 DEF WorkerTypes, RequestsAreRight

LEMMA OneMore ==
  ASSUME WorkerTypes, RequestsAreRight, NEW new \in Asks, NEW before \in Seq(Asks),
         \A m \in DOMAIN before : IsRight(before[m], Len(sessions)), requests' = Append(before, new),
         UNCHANGED sessions, cookie' \in 0 .. Len(sessions),
         IsRight(new, Len(sessions))
  PROVE  /\ WorkerTypes' /\ RequestsAreRight' /\ Len(requests') = Len(before) + 1
         /\ DOMAIN requests' = 1 .. Len(before) + 1
         /\ requests'[Len(before) + 1] = new
         /\ \A m \in DOMAIN before : requests'[m] = before[m]
<1>1. requests' \in Seq(Asks) /\ Len(requests') = Len(before) + 1
      /\ requests'[Len(before) + 1] = new /\ \A m \in 1 .. Len(before) : requests'[m] = before[m]
  BY AppendProperties, ZenonT(60)
<1>2. DOMAIN requests' = 1 .. Len(before) + 1 /\ DOMAIN before = 1 .. Len(before) /\ Len(before) \in Nat
  BY <1>1
<1>3. \A m \in DOMAIN requests' : m \in DOMAIN before \/ m = Len(before) + 1
  BY <1>2
<1>4. \A m \in DOMAIN requests' : IsRight(requests'[m], Len(sessions))
  BY <1>1, <1>2, <1>3
<1> QED
  BY <1>1, <1>2, <1>4, Zenon DEF WorkerTypes, RequestsAreRight, IsRight

\* What is known of a request, and of the session that its cookie names.
LEMMA RequestFacts ==
  ASSUME OutInv, NEW n \in DOMAIN requests
  PROVE  /\ requests[n] \in Asks /\ IsRight(requests[n], Len(sessions))
         /\ requests[n].cookie # 0 => requests[n].cookie \in DOMAIN sessions
         /\ S!Validated(n) \in People
         /\ requests[n].cookie \in out => S!Validated(n) = None
<1>1. requests[n] \in Asks /\ IsRight(requests[n], Len(sessions))
  BY DEF OutInv, WorkerTypes, RequestsAreRight
<1>0. Len(sessions) \in Nat
  BY DEF OutInv, WorkerTypes
<1>2. requests[n].cookie \in Nat /\ requests[n].cookie <= Len(sessions) /\ Len(sessions) \in Nat
  BY <1>0, <1>1, Zenon DEF Asks, IsRight
<1>3. DOMAIN sessions = 1 .. Len(sessions)
  BY DEF OutInv, WorkerTypes
<1>4. requests[n].cookie # 0 => requests[n].cookie \in DOMAIN sessions
  BY <1>2, <1>3
<1>5. S!Validated(n) \in People
  <2>1. \A c \in DOMAIN sessions : sessions[c] \in SessionRows
    BY DEF OutInv, WorkerTypes
  <2>2. \A c \in DOMAIN sessions : sessions[c].employee \in Employees
    BY <2>1 DEF SessionRows
  <2> QED
    BY <1>4, <2>2 DEF S!Validated, People
<1>6. requests[n].cookie \in out => S!Validated(n) = None
  BY DEF OutInv, OutIsInvalidated, S!Validated
<1> QED
  BY <1>1, <1>4, <1>5, <1>6

\* A request that is refused, checked, answered or over is asked no more.
LEMMA PassingOnKeepsOut ==
  ASSUME OutInv, NEW n \in DOMAIN requests, NEW new \in Asks, requests' = [requests EXCEPT ![n] = new],
         IsRight(new, Len(sessions)), UNCHANGED <<sessions, out>>, cookie' \in 0 .. Len(sessions)
  PROVE  OutInv'
<1>2. sessions' \in Seq(SessionRows) /\ Len(sessions) <= Len(sessions') /\ cookie' \in 0 .. Len(sessions')
  BY DEF OutInv, WorkerTypes
<1>3. WorkerTypes' /\ RequestsAreRight'
  BY <1>2, OneRequest
<1> QED
  BY <1>3 DEF OutInv, OutIsInvalidated

LEMMA ReadingKeepsOut ==
  ASSUME OutInv, NEW n \in DOMAIN requests, S!ReadSession(n) \/ S!CallFunction(n)
  PROVE  OutInv'
<1> DEFINE New(late) == [requests[n] EXCEPT !.at = "answered", !.is = S!Validated(n), !.late = late]
<1>1. requests[n] \in Asks /\ IsRight(requests[n], Len(sessions)) /\ S!Validated(n) \in People
      /\ (requests[n].cookie \in out => S!Validated(n) = None)
  BY RequestFacts
<1>2. UNCHANGED <<registered, sessions, cookie, out>> /\ requests[n].at = "sent" /\ requests[n].kind # "log in"
  BY Zenon DEF S!ReadSession, S!CallFunction, S!of_worker, S!Got
<1>3. requests[n].late = FALSE
  BY <1>1, <1>2, Zenon DEF IsRight, Asks
<1>4. PICK late \in BOOLEAN : requests' = [requests EXCEPT ![n] = New(late)] /\ (late => S!Validated(n) = None)
  <2>1. CASE S!ReadSession(n)
    <3>1. [requests[n] EXCEPT !.at = "answered", !.is = S!Validated(n)] = New(FALSE)
      BY <1>1, <1>3, Zenon DEF Asks
    <3> QED
      BY <2>1, <3>1, Zenon DEF S!ReadSession, S!Answer
  <2>2. CASE S!CallFunction(n)
    <3>1. [requests[n] EXCEPT !.at = "answered", !.is = S!Validated(n), !.late = @ \/ requests[n].cookie \in out]
            = New(requests[n].cookie \in out)
      <4>1. (requests[n].late \/ requests[n].cookie \in out) = (requests[n].cookie \in out)
        BY <1>3
      <4> QED
        BY <4>1, Zenon
    <3>2. (requests[n].cookie \in out) \in BOOLEAN
      OBVIOUS
    <3> QED
      BY <1>1, <2>2, <3>1, <3>2, Zenon DEF S!CallFunction, S!Answer
  <2> QED
    BY <2>1, <2>2, Zenon
<1>5. Len(sessions) \in Nat
  BY DEF OutInv, WorkerTypes
<1>6. New(late) \in Asks /\ IsRight(New(late), Len(sessions))
  BY <1>1, <1>2, <1>4, <1>5, Answering, Zenon
<1> HIDE DEF New
<1>7. cookie' \in 0 .. Len(sessions)
  BY <1>2, Zenon DEF OutInv, WorkerTypes
<1> QED
  BY <1>2, <1>4, <1>6, <1>7, PassingOnKeepsOut, Zenon

LEMMA OverKeepsOut ==
  ASSUME OutInv, NEW n \in DOMAIN requests, requests' = S!Over(n), UNCHANGED <<sessions, out>>,
         cookie' \in 0 .. Len(sessions)
  PROVE  OutInv'
<1> DEFINE new == [requests[n] EXCEPT !.at = "over"]
<1>1. requests[n] \in Asks /\ IsRight(requests[n], Len(sessions))
  BY RequestFacts
<1>2. new \in Asks /\ IsRight(new, Len(sessions))
  BY <1>1, Zenon DEF Asks, IsRight
<1>3. requests' = [requests EXCEPT ![n] = new]
  BY DEF S!Over
<1> HIDE DEF new
<1> QED
  BY <1>2, <1>3, PassingOnKeepsOut

LEMMA CheckingKeepsOut ==
  ASSUME OutInv, NEW n \in DOMAIN requests, S!CreateCompany(n) \/ S!CheckPassword(n)
  PROVE  OutInv'
<1>1. requests[n] \in Asks /\ IsRight(requests[n], Len(sessions))
  BY RequestFacts
<1>2. PICK new \in {[requests[n] EXCEPT !.at = "refused"], [requests[n] EXCEPT !.kind = "log in"],
                    [requests[n] EXCEPT !.at = "checked"]} : requests' = [requests EXCEPT ![n] = new]
  <2>1. CASE S!CreateCompany(n)
    BY <2>1, Zenon DEF S!CreateCompany, S!Answer
  <2>2. CASE S!CheckPassword(n)
    BY <2>2, Zenon DEF S!CheckPassword, S!Answer
  <2> QED
    BY <2>1, <2>2, Zenon
<1>3. UNCHANGED <<sessions, cookie, out>>
  BY Zenon DEF S!CreateCompany, S!CheckPassword, S!of_worker
<1>4. requests[n].at = "sent" /\ requests[n].kind \in {"log in", "create company"}
  BY Zenon DEF S!CreateCompany, S!CheckPassword, S!Got
<1>5. new \in Asks /\ IsRight(new, Len(sessions))
  BY <1>1, <1>2, <1>4, Zenon DEF Asks, IsRight
<1>6. cookie' \in 0 .. Len(sessions)
  BY <1>3, Zenon DEF OutInv, WorkerTypes
<1> QED
  BY <1>2, <1>3, <1>5, <1>6, PassingOnKeepsOut, Zenon

LEMMA InsertingKeepsOut ==
  ASSUME OutInv, NEW n \in DOMAIN requests, S!InsertSession(n)
  PROVE  OutInv'
<1> DEFINE row == [employee |-> requests[n].who, invalidated |-> FALSE]
           new == [requests[n] EXCEPT !.at = "answered", !.session = Len(sessions')]
<1>1. requests[n] \in Asks /\ IsRight(requests[n], Len(sessions)) /\ requests[n].kind = "log in"
  BY RequestFacts, Zenon DEF S!InsertSession, S!Got
<1>2. row \in SessionRows
  BY <1>1, Zenon DEF IsRight, SessionRows
<1>3. sessions' = Append(sessions, row) /\ requests' = [requests EXCEPT ![n] = new] /\ UNCHANGED <<cookie, out>>
  BY Zenon DEF S!InsertSession, S!Answer
<1> HIDE DEF row
<1>4. sessions \in Seq(SessionRows)
  BY DEF OutInv, WorkerTypes
<1>5. sessions' \in Seq(SessionRows) /\ Len(sessions') = Len(sessions) + 1
      /\ \A c \in 1 .. Len(sessions) : sessions'[c] = sessions[c]
  BY <1>2, <1>3, <1>4, AppendProperties, ZenonT(60)
<1>6. Len(sessions) \in Nat /\ cookie \in 0 .. Len(sessions)
  BY <1>4 DEF OutInv, WorkerTypes
<1>7. new \in Asks /\ IsRight(new, Len(sessions'))
  <2>1. Len(sessions') \in Nat \ {0} /\ Len(sessions) <= Len(sessions')
    BY <1>5, <1>6
  <2> QED
    BY <1>1, <1>6, <2>1, LoggedIn, Zenon
<1> HIDE DEF new
<1>8. WorkerTypes' /\ RequestsAreRight'
  <2>1. Len(sessions) <= Len(sessions') /\ cookie' \in 0 .. Len(sessions')
    BY <1>3, <1>5, <1>6
  <2> QED
    BY <1>3, <1>5, <1>7, <2>1, OneRequest
<1>9. OutIsInvalidated'
  <2>1. DOMAIN sessions = 1 .. Len(sessions) /\ DOMAIN sessions' = 1 .. Len(sessions')
    BY <1>4, <1>5
  <2>2. DOMAIN sessions \subseteq DOMAIN sessions'
    BY <1>5, <1>6, <2>1
  <2> QED
    BY <1>3, <1>5, <2>1, <2>2 DEF OutInv, OutIsInvalidated
<1> QED
  BY <1>8, <1>9 DEF OutInv

LEMMA LoggingOutKeepsOut ==
  ASSUME OutInv, NEW n \in DOMAIN requests, S!LogOut(n)
  PROVE  OutInv'
<1> DEFINE c == requests[n].cookie
           gone == S!Invalidated(sessions[c])
           new == [requests[n] EXCEPT !.at = "answered"]
<1>1. requests[n] \in Asks /\ IsRight(requests[n], Len(sessions)) /\ requests[n].kind = "log out"
      /\ (c # 0 => c \in DOMAIN sessions)
  BY RequestFacts, Zenon DEF S!LogOut, S!Got
<1>2. sessions \in Seq(SessionRows) /\ Len(sessions) \in Nat /\ cookie \in 0 .. Len(sessions)
  BY DEF OutInv, WorkerTypes
<1>3. sessions' = (IF c = 0 THEN sessions ELSE [sessions EXCEPT ![c] = gone])
      /\ requests' = [requests EXCEPT ![n] = new] /\ out' = out \cup ({c} \ {0}) /\ UNCHANGED cookie
  BY Zenon DEF S!LogOut, S!Answer, S!Invalidated
<1>4. new \in Asks /\ IsRight(new, Len(sessions))
  BY <1>1, Zenon DEF Asks, IsRight
<1>5. c # 0 => gone \in SessionRows /\ gone.invalidated
  <2>1. \A d \in DOMAIN sessions : sessions[d] \in SessionRows
    BY <1>2
  <2>2. c # 0 => sessions[c] \in SessionRows
    BY <1>1, <2>1, Zenon
  <2> QED
    BY <2>2 DEF S!Invalidated, SessionRows
<1> HIDE DEF new, gone
<1>6. sessions' \in Seq(SessionRows) /\ Len(sessions') = Len(sessions) /\ DOMAIN sessions' = DOMAIN sessions
      /\ \A d \in DOMAIN sessions : sessions'[d] = IF d = c /\ c # 0 THEN gone ELSE sessions[d]
  <2>1. CASE c = 0
    BY <1>2, <1>3, <2>1
  <2>2. CASE c # 0
    <3>1. sessions' = [sessions EXCEPT ![c] = gone] /\ c \in DOMAIN sessions /\ gone \in SessionRows
      BY <1>1, <1>3, <1>5, <2>2, Zenon
    <3> HIDE DEF c
    <3>2. sessions' \in Seq(SessionRows) /\ Len(sessions') = Len(sessions) /\ DOMAIN sessions' = DOMAIN sessions
      BY <1>2, <3>1
    <3>3. \A d \in DOMAIN sessions : sessions'[d] = IF d = c THEN gone ELSE sessions[d]
      BY <1>2, <3>1
    <3> QED
      BY <2>2, <3>2, <3>3
  <2> QED
    BY <2>1, <2>2
<1>7. WorkerTypes' /\ RequestsAreRight'
  <2>1. Len(sessions) <= Len(sessions') /\ cookie' \in 0 .. Len(sessions')
    BY <1>2, <1>3, <1>6
  <2> QED
    BY <1>3, <1>4, <1>6, <2>1, OneRequest
<1>8. OutIsInvalidated'
  BY <1>1, <1>3, <1>5, <1>6, Zenon DEF OutInv, OutIsInvalidated
<1> QED
  BY <1>7, <1>8 DEF OutInv

LEMMA CookieFacts ==
  ASSUME OutInv
  PROVE  /\ Len(sessions) \in Nat /\ 0 \in 0 .. Len(sessions) /\ cookie \in 0 .. Len(sessions)
         /\ \A k \in 0 .. Len(sessions) : k \in Nat /\ k <= Len(sessions)
<1>1. Len(sessions) \in Nat /\ cookie \in 0 .. Len(sessions)
  BY DEF OutInv, WorkerTypes
<1> QED
  BY <1>1

\* A request that is made is right, whatever cookie it carries.
LEMMA NewRequest ==
  ASSUME OutInv, NEW tab \in Tabs \cup {None}, NEW kind \in {"session", "call", "create company", "log in", "log out"},
         NEW who \in People, NEW right \in BOOLEAN, NEW k \in 0 .. Len(sessions),
         kind \in {"log in", "create company"} => who \in Employees, kind = "create company" <=> tab = None
  PROVE  /\ S!Request(tab, kind, who, right) \in Asks
         /\ IsRight(S!Request(tab, kind, who, right), Len(sessions))
         /\ [S!Request(tab, kind, who, right) EXCEPT !.cookie = k] \in Asks
         /\ IsRight([S!Request(tab, kind, who, right) EXCEPT !.cookie = k], Len(sessions))
<1> DEFINE new == S!Request(tab, kind, who, right)
           other == [new EXCEPT !.cookie = k]
<1>1. k \in Nat /\ k <= Len(sessions) /\ cookie \in Nat /\ cookie <= Len(sessions) /\ 0 <= Len(sessions)
  BY CookieFacts, Zenon
<1>2. new \in Asks /\ new.cookie = cookie /\ new.session = 0 /\ new.kind = kind /\ new.tab = tab /\ new.who = who /\ new.late = FALSE
      /\ new.at = "sent"
  BY <1>1, Zenon DEF Asks, S!Request, People
<1> HIDE DEF new
<1>3. other \in Asks /\ other.cookie = k /\ other.session = 0 /\ other.kind = kind /\ other.tab = tab /\ other.who = who
      /\ other.late = new.late /\ other.at = "sent"
  BY <1>1, <1>2, Zenon DEF Asks
<1> HIDE DEF other
<1>5. IsRight(new, Len(sessions)) /\ IsRight(other, Len(sessions))
  BY <1>1, <1>2, <1>3, Zenon DEF IsRight
<1> QED
  BY <1>2, <1>3, <1>5, Zenon DEF new, other

LEMMA MoreKeepsOut ==
  ASSUME OutInv, NEW before \in Seq(Asks), NEW new \in Asks, requests' = Append(before, new),
         \A m \in DOMAIN before : IsRight(before[m], Len(sessions)), IsRight(new, Len(sessions)),
         UNCHANGED <<sessions, out>>, cookie' \in 0 .. Len(sessions)
  PROVE  OutInv'
BY OneMore DEF OutInv, OutIsInvalidated

LEMMA AskingKeepsOut ==
  ASSUME OutInv, NEW tab \in Tabs \cup {None}, NEW kind \in {"call", "create company", "log in", "log out"},
         NEW who \in People, NEW right \in BOOLEAN, S!Ask(tab, kind, who, right),
         kind \in {"log in", "create company"} => who \in Employees, kind = "create company" <=> tab = None,
         UNCHANGED <<sessions, out, cookie>>
  PROVE  OutInv'
<1>1. requests \in Seq(Asks) /\ cookie' \in 0 .. Len(sessions)
  BY Zenon DEF OutInv, WorkerTypes
<1>2. \A m \in DOMAIN requests : IsRight(requests[m], Len(sessions))
  BY Zenon DEF OutInv, RequestsAreRight
<1>3. S!Request(tab, kind, who, right) \in Asks /\ IsRight(S!Request(tab, kind, who, right), Len(sessions))
  <2>1. 0 \in 0 .. Len(sessions)
    BY CookieFacts, Zenon
  <2> QED
    BY <2>1, NewRequest, Zenon
<1>4. requests' = Append(requests, S!Request(tab, kind, who, right))
  BY Zenon DEF S!Ask
<1> QED
  BY <1>1, <1>2, <1>3, <1>4, MoreKeepsOut, Zenon

\* A request that is over stays as right as it was.
LEMMA OverIsRight ==
  ASSUME NEW r \in Asks, NEW k, IsRight(r, k)
  PROVE  [r EXCEPT !.at = "over"] \in Asks /\ IsRight([r EXCEPT !.at = "over"], k)
<1> DEFINE new == [r EXCEPT !.at = "over"]
<1>1. new \in Asks /\ new.cookie = r.cookie /\ new.session = r.session /\ new.kind = r.kind /\ new.tab = r.tab /\ new.who = r.who
      /\ new.late = r.late /\ new.is = r.is /\ new.at = "over"
  BY Zenon DEF Asks
<1> HIDE DEF new
<1>2. IsRight(new, k)
  BY <1>1, Zenon DEF IsRight
<1> QED
  BY <1>1, <1>2 DEF new

\* The requests of which some are over, and those that are forgotten.
LEMMA OverRequests ==
  ASSUME OutInv
  PROVE  /\ \A n \in DOMAIN requests :
              /\ S!Over(n) \in Seq(Asks) /\ Len(S!Over(n)) = Len(requests) /\ DOMAIN S!Over(n) = DOMAIN requests
              /\ S!Over(n)[n] = [requests[n] EXCEPT !.at = "over"]
              /\ \A m \in DOMAIN requests : m # n => S!Over(n)[m] = requests[m]
              /\ \A m \in DOMAIN requests : IsRight(S!Over(n)[m], Len(sessions))
         /\ \A t :
              /\ S!Forgotten(t) \in Seq(Asks) /\ Len(S!Forgotten(t)) = Len(requests)
              /\ DOMAIN S!Forgotten(t) = DOMAIN requests
              /\ \A m \in DOMAIN requests :
                   S!Forgotten(t)[m] = IF requests[m].tab = t THEN [requests[m] EXCEPT !.at = "over"] ELSE requests[m]
              /\ \A m \in DOMAIN requests : IsRight(S!Forgotten(t)[m], Len(sessions))
<1>1. requests \in Seq(Asks) /\ \A m \in DOMAIN requests : requests[m] \in Asks /\ IsRight(requests[m], Len(sessions))
  BY DEF OutInv, WorkerTypes, RequestsAreRight
<1> DEFINE Ended(m) == [requests[m] EXCEPT !.at = "over"]
<1>2. \A m \in DOMAIN requests : Ended(m) \in Asks /\ IsRight(Ended(m), Len(sessions))
  BY <1>1, OverIsRight
<1>3. \A n : S!Over(n) = [requests EXCEPT ![n] = Ended(n)]
  BY DEF S!Over
<1>4. \A t : S!Forgotten(t) = [m \in DOMAIN requests |-> IF requests[m].tab = t THEN Ended(m) ELSE requests[m]]
  BY DEF S!Forgotten
<1> HIDE DEF Ended
<1>5. ASSUME NEW n \in DOMAIN requests
      PROVE  /\ S!Over(n) \in Seq(Asks) /\ Len(S!Over(n)) = Len(requests) /\ DOMAIN S!Over(n) = DOMAIN requests
             /\ S!Over(n)[n] = Ended(n)
             /\ \A m \in DOMAIN requests : m # n => S!Over(n)[m] = requests[m]
             /\ \A m \in DOMAIN requests : IsRight(S!Over(n)[m], Len(sessions))
  <2>1. Ended(n) \in Asks
    BY <1>2
  <2>2. S!Over(n) \in Seq(Asks) /\ Len(S!Over(n)) = Len(requests) /\ DOMAIN S!Over(n) = DOMAIN requests
        /\ \A m \in DOMAIN requests : S!Over(n)[m] = IF m = n THEN Ended(n) ELSE requests[m]
    BY <1>1, <1>3, <2>1
  <2> QED
    BY <1>1, <1>2, <2>2
<1>6. ASSUME NEW t
      PROVE  /\ S!Forgotten(t) \in Seq(Asks) /\ Len(S!Forgotten(t)) = Len(requests)
             /\ DOMAIN S!Forgotten(t) = DOMAIN requests
             /\ \A m \in DOMAIN requests :
                   S!Forgotten(t)[m] = IF requests[m].tab = t THEN Ended(m) ELSE requests[m]
             /\ \A m \in DOMAIN requests : IsRight(S!Forgotten(t)[m], Len(sessions))
  <2>1. \A m \in DOMAIN requests :
          /\ S!Forgotten(t)[m] = IF requests[m].tab = t THEN Ended(m) ELSE requests[m]
          /\ S!Forgotten(t)[m] \in Asks
          /\ IsRight(S!Forgotten(t)[m], Len(sessions))
    BY <1>1, <1>2, <1>4
  <2>2. DOMAIN requests = 1 .. Len(requests) /\ Len(requests) \in Nat
    BY <1>1
  <2>3. S!Forgotten(t) \in Seq(Asks) /\ Len(S!Forgotten(t)) = Len(requests) /\ DOMAIN S!Forgotten(t) = DOMAIN requests
    BY <1>4, <2>1, <2>2
  <2> QED
    BY <2>1, <2>3
<1> QED
  BY <1>5, <1>6 DEF Ended

(* Logging in opens the app.                                               *)

TabTypes ==
    /\ tab_page \in [Tabs -> {"none", "login", "app"}]
    /\ promise \in [Tabs -> Nat]
    /\ resolving \in [Tabs -> SUBSET Transitions]
    /\ result \in [Tabs -> {"none", "success", "error"}]
    /\ submits \in [Tabs -> Nat]
    /\ trouble \in [Tabs -> BOOLEAN]
NoneInvalidated == \A i \in DOMAIN sessions : ~sessions[i].invalidated
\* A log in of the tab that is not over.
LogsIn(n, t) == requests[n].tab = t /\ requests[n].kind = "log in" /\ requests[n].at # "over"
\* A request for the tab's session that finds it, unless that is invalidated.
FindsSession(n, t) ==
    /\ n \in DOMAIN requests
    /\ requests[n].tab = t /\ requests[n].kind = "session" /\ requests[n].cookie # 0
    /\ requests[n].at # "sent" => requests[n].is # None
\* The page that the log in opened: the app, or the one that waits for it.
OpensTheApp(t) ==
    \/ tab_page[t] = "app" /\ resolving[t] = {}
    \/ /\ tab_page[t] = "login"
       /\ \E r \in Transitions : resolving[t] = {r} /\ r.alive /\ r.to = "app" /\ FindsSession(r.request, t)
\* Until a log in succeeds, a tab enters one state after it was loaded, and stays in it.
TabIsOrderly(t) ==
    /\ submits[t] = 0 => result[t] = "none" /\ \A n \in DOMAIN requests : ~LogsIn(n, t)
    /\ submits[t] = 1 =>
         /\ \A m, n \in DOMAIN requests : LogsIn(m, t) /\ LogsIn(n, t) => m = n
         /\ result[t] # "none" => \A n \in DOMAIN requests : ~LogsIn(n, t)
         /\ result[t] # "success" => tab_page[t] = "login"
    /\ submits[t] \in {0, 1} /\ result[t] # "success" =>
         resolving[t] = {} \/ (tab_page[t] = "none" /\ \E r \in Transitions : resolving[t] = {r})
    /\ submits[t] = 1 /\ result[t] = "success" /\ ~trouble[t] /\ NoneInvalidated => OpensTheApp(t)
TabsInv == TabTypes /\ \A t \in Tabs : TabIsOrderly(t)

\* The requests of a tab go on as they are to: none logs in anew, and its session is found.
RequestsGoOn(t) ==
    /\ \A n \in DOMAIN requests' : LogsIn(n, t)' => n \in DOMAIN requests /\ LogsIn(n, t)
    /\ NoneInvalidated' => NoneInvalidated /\ \A n : FindsSession(n, t) => FindsSession(n, t)'

LEMMA OthersKeepTab ==
  ASSUME NEW t \in Tabs, TabIsOrderly(t), RequestsGoOn(t),
         tab_page'[t] = tab_page[t], resolving'[t] = resolving[t], result'[t] = result[t], submits'[t] = submits[t],
         trouble[t] => trouble'[t]
  PROVE  TabIsOrderly(t)'
<1>1. \A n \in DOMAIN requests' : LogsIn(n, t)' => n \in DOMAIN requests /\ LogsIn(n, t)
  BY DEF RequestsGoOn
<1>2. submits'[t] = 0 => result'[t] = "none" /\ \A n \in DOMAIN requests' : ~LogsIn(n, t)'
  BY <1>1 DEF TabIsOrderly
<1>3. submits'[t] = 1 =>
         /\ \A m, n \in DOMAIN requests' : LogsIn(m, t)' /\ LogsIn(n, t)' => m = n
         /\ result'[t] # "none" => \A n \in DOMAIN requests' : ~LogsIn(n, t)'
         /\ result'[t] # "success" => tab_page'[t] = "login"
  BY <1>1 DEF TabIsOrderly
<1>4. ASSUME submits'[t] = 1, result'[t] = "success", ~trouble'[t], NoneInvalidated'
      PROVE  OpensTheApp(t)'
  <2>1. OpensTheApp(t) /\ \A n : FindsSession(n, t) => FindsSession(n, t)'
    BY <1>4 DEF RequestsGoOn, TabIsOrderly
  <2> QED
    BY <2>1 DEF OpensTheApp
<1>5. submits'[t] \in {0, 1} /\ result'[t] # "success" =>
        resolving'[t] = {} \/ (tab_page'[t] = "none" /\ \E r \in Transitions : resolving'[t] = {r})
  BY DEF TabIsOrderly
<1> QED
  BY <1>2, <1>3, <1>4, <1>5 DEF TabIsOrderly

LEMMA OneGoesOn ==
  ASSUME NEW t \in Tabs, OutInv, NEW n \in DOMAIN requests, NEW new \in Asks, requests' = [requests EXCEPT ![n] = new],
         new.tab = t /\ new.kind = "log in" /\ new.at # "over" => LogsIn(n, t),
         NoneInvalidated' => NoneInvalidated,
         NoneInvalidated' /\ FindsSession(n, t) =>
            new.tab = t /\ new.kind = "session" /\ new.cookie # 0 /\ (new.at # "sent" => new.is # None)
  PROVE  RequestsGoOn(t)
<1>1. DOMAIN requests' = DOMAIN requests
      /\ \A m \in DOMAIN requests : requests'[m] = IF m = n THEN new ELSE requests[m]
  BY Zenon
<1>2. \A m \in DOMAIN requests' : LogsIn(m, t)' => m \in DOMAIN requests /\ LogsIn(m, t)
  BY <1>1, Zenon DEF LogsIn
<1>3. ASSUME NoneInvalidated', NEW m, FindsSession(m, t)
      PROVE  FindsSession(m, t)'
  <2>1. m \in DOMAIN requests
    BY <1>3, Zenon DEF FindsSession
  <2>2. CASE m = n
    BY <1>1, <1>3, <2>2, Zenon DEF FindsSession
  <2>3. CASE m # n
    BY <1>1, <1>3, <2>1, <2>3, Zenon DEF FindsSession
  <2> QED
    BY <2>2, <2>3, Zenon
<1> QED
  BY <1>2, <1>3, Zenon DEF RequestsGoOn

LEMMA NoneStaysInvalidated ==
  ASSUME UNCHANGED sessions
  PROVE  NoneInvalidated' => NoneInvalidated
BY DEF NoneInvalidated

LEMMA FixedTabs ==
  ASSUME TabsInv, UNCHANGED S!of_tabs, \A t \in Tabs : RequestsGoOn(t)
  PROVE  TabsInv'
<1>1. UNCHANGED <<tab_page, promise, resolving, result, submits, trouble>>
  BY DEF S!of_tabs
<1>2. \A t \in Tabs : TabIsOrderly(t)'
  BY <1>1, OthersKeepTab DEF TabsInv
<1> QED
  BY <1>1, <1>2 DEF TabsInv, TabTypes

\* The session that a request's cookie names is found, unless it is invalidated.
LEMMA SessionIsFound ==
  ASSUME OutInv, NEW n \in DOMAIN requests, requests[n].cookie # 0, NoneInvalidated
  PROVE  S!Validated(n) # None
<1>1. requests[n].cookie \in DOMAIN sessions
  BY RequestFacts
<1>2. \A c \in DOMAIN sessions : sessions[c] \in SessionRows
  BY DEF OutInv, WorkerTypes
<1>3. \A c \in DOMAIN sessions : sessions[c].employee \in Employees
  BY <1>2 DEF SessionRows
<1>4. None \notin Employees
  BY PagesAssumption DEF S!SessionsAssumption
<1> QED
  BY <1>1, <1>3, <1>4 DEF S!Validated, NoneInvalidated

LEMMA WorkerKeepsTabs ==
  ASSUME OutInv, TabsInv, NEW n \in DOMAIN requests,
         S!ReadSession(n) \/ S!CallFunction(n) \/ S!CreateCompany(n) \/ S!CheckPassword(n)
         \/ S!InsertSession(n) \/ S!LogOut(n)
  PROVE  TabsInv'
<1>1. UNCHANGED S!of_tabs
  BY Zenon DEF S!ReadSession, S!CallFunction, S!CreateCompany, S!CheckPassword, S!InsertSession, S!LogOut
<1>2. requests[n] \in Asks
  BY RequestFacts
<1>3. ASSUME NEW t \in Tabs
      PROVE  RequestsGoOn(t)
  <2>1. CASE S!ReadSession(n)
    <3> DEFINE new == [requests[n] EXCEPT !.at = "answered", !.is = S!Validated(n)]
    <3>1. requests' = [requests EXCEPT ![n] = new] /\ UNCHANGED sessions /\ requests[n].kind = "session"
      BY <2>1 DEF S!ReadSession, S!Answer, S!of_worker, S!Got
    <3>2. new \in Asks /\ new.kind = "session" /\ new.tab = requests[n].tab /\ new.cookie = requests[n].cookie
          /\ new.is = S!Validated(n)
      BY <1>2, <3>1, RequestFacts, Zenon DEF Asks
    <3> HIDE DEF new
    <3>3. NoneInvalidated' => NoneInvalidated
      BY <3>1, NoneStaysInvalidated
    <3>4. NoneInvalidated' /\ FindsSession(n, t) => new.is # None
      BY <3>2, <3>3, SessionIsFound DEF FindsSession
    <3> QED
      BY <3>1, <3>2, <3>3, <3>4, OneGoesOn, Zenon DEF FindsSession
  <2>2. CASE S!CallFunction(n)
    <3> DEFINE new == [requests[n] EXCEPT !.at = "answered", !.is = S!Validated(n), !.late = @ \/ requests[n].cookie \in out]
    <3>1. requests' = [requests EXCEPT ![n] = new] /\ UNCHANGED sessions /\ requests[n].kind = "call"
      BY <2>2 DEF S!CallFunction, S!Answer, S!of_worker, S!Got
    <3>2. new \in Asks /\ new.kind = "call"
      BY <1>2, <3>1, RequestFacts, Zenon DEF Asks
    <3> HIDE DEF new
    <3> QED
      BY <3>1, <3>2, NoneStaysInvalidated, OneGoesOn, Zenon DEF FindsSession
  <2>3. CASE S!CreateCompany(n)
    <3>0. PICK new \in {[requests[n] EXCEPT !.at = "refused"], [requests[n] EXCEPT !.kind = "log in"]} :
            requests' = [requests EXCEPT ![n] = new]
      BY <2>3, Zenon DEF S!CreateCompany, S!Answer
    <3>1. UNCHANGED sessions /\ requests[n].kind = "create company"
      BY <2>3, Zenon DEF S!CreateCompany, S!Answer, S!of_worker, S!Got
    <3>2. new \in Asks /\ new.tab = requests[n].tab
      BY <1>2, <3>0, <3>1, Zenon DEF Asks
    <3>3. requests[n].tab = None /\ None # t
      BY <3>1, RequestFacts, PagesAssumption, Zenon DEF IsRight, S!SessionsAssumption
    <3> QED
      BY <3>0, <3>1, <3>2, <3>3, NoneStaysInvalidated, OneGoesOn, Zenon DEF FindsSession
  <2>4. CASE S!CheckPassword(n)
    <3>0. PICK new \in {[requests[n] EXCEPT !.at = "refused"], [requests[n] EXCEPT !.at = "checked"]} :
            requests' = [requests EXCEPT ![n] = new]
      BY <2>4, Zenon DEF S!CheckPassword, S!Answer
    <3>1. UNCHANGED sessions /\ requests[n].kind = "log in" /\ requests[n].at = "sent"
      BY <2>4, Zenon DEF S!CheckPassword, S!Answer, S!of_worker, S!Got
    <3>2. new \in Asks /\ new.tab = requests[n].tab /\ new.kind = "log in"
      BY <1>2, <3>0, <3>1, Zenon DEF Asks
    <3> QED
      BY <3>0, <3>1, <3>2, NoneStaysInvalidated, OneGoesOn, Zenon DEF FindsSession, LogsIn
  <2>5. CASE S!InsertSession(n)
    <3> DEFINE new == [requests[n] EXCEPT !.at = "answered", !.session = Len(sessions')]
    <3>1. requests' = [requests EXCEPT ![n] = new] /\ requests[n].kind = "log in" /\ requests[n].at = "checked"
      BY <2>5, Zenon DEF S!InsertSession, S!Answer, S!Got
    <3>2. OutInv'
      BY <2>5, InsertingKeepsOut
    <3>3. new \in Asks /\ new.tab = requests[n].tab /\ new.kind = "log in"
      <4>1. Len(sessions') \in Nat
        BY <3>2 DEF OutInv, WorkerTypes
      <4> QED
        BY <1>2, <3>1, <4>1, Zenon DEF Asks
    <3> HIDE DEF new
    <3>4. NoneInvalidated' => NoneInvalidated
      <4> DEFINE row == [employee |-> requests[n].who, invalidated |-> FALSE]
      <4>1. row \in SessionRows /\ sessions \in Seq(SessionRows)
        <5>1. requests[n].who \in Employees
          BY <3>1, RequestFacts, Zenon DEF IsRight
        <5> QED
          BY <5>1 DEF SessionRows, OutInv, WorkerTypes
      <4>2. sessions' = Append(sessions, row)
        BY <2>5, Zenon DEF S!InsertSession
      <4> HIDE DEF row
      <4>3. \A i \in 1 .. Len(sessions) : sessions'[i] = sessions[i]
        BY <4>1, <4>2, AppendProperties, ZenonT(60)
      <4>4. DOMAIN sessions = 1 .. Len(sessions) /\ DOMAIN sessions' = 1 .. Len(sessions) + 1 /\ Len(sessions) \in Nat
        BY <4>1, <4>2
      <4>5. DOMAIN sessions \subseteq DOMAIN sessions'
        BY <4>4
      <4> QED
        BY <4>3, <4>4, <4>5 DEF NoneInvalidated
    <3> QED
      BY <3>1, <3>3, <3>4, OneGoesOn, Zenon DEF FindsSession, LogsIn
  <2>6. CASE S!LogOut(n)
    <3> DEFINE new == [requests[n] EXCEPT !.at = "answered"]
    <3>1. requests' = [requests EXCEPT ![n] = new] /\ requests[n].kind = "log out"
      BY <2>6, Zenon DEF S!LogOut, S!Answer, S!Got
    <3>2. new \in Asks /\ new.kind = "log out"
      BY <1>2, <3>1, Zenon DEF Asks
    <3> HIDE DEF new
    <3>3. NoneInvalidated' => NoneInvalidated
      <4> DEFINE c == requests[n].cookie
                 gone == S!Invalidated(sessions[c])
      <4>1. sessions' = (IF c = 0 THEN sessions ELSE [sessions EXCEPT ![c] = gone])
        BY <2>6, Zenon DEF S!LogOut, S!Invalidated
      <4>2. c # 0 => c \in DOMAIN sessions
        BY RequestFacts
      <4>3. c # 0 => gone.invalidated
        <5>1. \A d \in DOMAIN sessions : sessions[d] \in SessionRows
          BY DEF OutInv, WorkerTypes
        <5> QED
          BY <4>2, <5>1 DEF S!Invalidated, SessionRows
      <4> HIDE DEF c, gone
      <4> QED
        BY <4>1, <4>2, <4>3 DEF NoneInvalidated
    <3> QED
      BY <3>1, <3>2, <3>3, OneGoesOn, Zenon DEF FindsSession
  <2> QED
    BY <2>1, <2>2, <2>3, <2>4, <2>5, <2>6
<1> QED
  BY <1>1, <1>3, FixedTabs

LEMMA OverGoesOn ==
  ASSUME OutInv, NEW n \in DOMAIN requests, requests' = S!Over(n), UNCHANGED sessions, NEW t \in Tabs,
         requests[n].tab # t \/ requests[n].kind # "session" \/ requests[n].at # "sent"
  PROVE  RequestsGoOn(t)
<1> DEFINE new == [requests[n] EXCEPT !.at = "over"]
<1>1. requests[n] \in Asks /\ requests' = [requests EXCEPT ![n] = new]
  BY RequestFacts DEF S!Over
<1>2. new \in Asks /\ new.kind = requests[n].kind /\ new.tab = requests[n].tab /\ new.cookie = requests[n].cookie
      /\ new.is = requests[n].is /\ new.at = "over"
  BY <1>1, Zenon DEF Asks
<1> HIDE DEF new
<1> QED
  BY <1>1, <1>2, NoneStaysInvalidated, OneGoesOn, Zenon DEF FindsSession

LEMMA OneAtTheEnd ==
  ASSUME NEW before \in Seq(Asks), NEW new \in Asks
  PROVE  LET after == Append(before, new)
         IN  /\ Len(after) = Len(before) + 1 /\ DOMAIN after = 1 .. Len(before) + 1 /\ DOMAIN before = 1 .. Len(before)
             /\ Len(before) \in Nat
             /\ after[Len(before) + 1] = new /\ Len(before) + 1 \in DOMAIN after
             /\ \A m \in DOMAIN before : m \in DOMAIN after /\ after[m] = before[m]
             /\ \A m \in DOMAIN after : m \in DOMAIN before \/ m = Len(before) + 1
<1>0. PICK after : after = Append(before, new)
  OBVIOUS
<1>1. after \in Seq(Asks) /\ Len(after) = Len(before) + 1
      /\ after[Len(before) + 1] = new /\ \A m \in 1 .. Len(before) : after[m] = before[m]
  BY <1>0, AppendProperties, ZenonT(60)
<1>2. DOMAIN after = 1 .. Len(before) + 1 /\ DOMAIN before = 1 .. Len(before) /\ Len(before) \in Nat
  BY <1>1
<1>3. /\ \A m \in DOMAIN before : m \in DOMAIN after /\ after[m] = before[m]
      /\ Len(before) + 1 \in DOMAIN after
      /\ \A m \in DOMAIN after : m \in DOMAIN before \/ m = Len(before) + 1
  BY <1>1, <1>2
<1> QED
  BY <1>0, <1>1, <1>2, <1>3, Zenon

LEMMA OneMoreRequest ==
  ASSUME NEW before \in Seq(Asks), NEW new \in Asks, requests' = Append(before, new)
  PROVE  /\ \A m \in DOMAIN before : m \in DOMAIN requests' /\ requests'[m] = before[m]
         /\ \A m \in DOMAIN requests' : m \in DOMAIN before \/ requests'[m] = new
         /\ Len(requests') \in DOMAIN requests' /\ requests'[Len(requests')] = new
<1>0. /\ \A m \in DOMAIN before : m \in DOMAIN Append(before, new) /\ Append(before, new)[m] = before[m]
      /\ \A m \in DOMAIN Append(before, new) : m \in DOMAIN before \/ m = Len(before) + 1
      /\ Append(before, new)[Len(before) + 1] = new /\ Len(before) + 1 \in DOMAIN Append(before, new)
      /\ Len(Append(before, new)) = Len(before) + 1
  BY OneAtTheEnd, Zenon
<1> QED
  BY <1>0, Zenon

\* A request of a session or of another tab is no log in of this one.
LEMMA MoreGoesOn ==
  ASSUME NEW t \in Tabs, OutInv, NEW before \in Seq(Asks), NEW new \in Asks, requests' = Append(before, new),
         DOMAIN before = DOMAIN requests,
         \A m \in DOMAIN requests : requests[m].tab = t => before[m] = requests[m],
         \A m \in DOMAIN requests : requests[m].tab # t => before[m].tab # t,
         new.tab # t \/ new.kind # "log in", UNCHANGED sessions
  PROVE  RequestsGoOn(t)
<1>1. \A m \in DOMAIN before : m \in DOMAIN requests' /\ requests'[m] = before[m]
  BY OneMoreRequest, Zenon
<1>2. \A m \in DOMAIN requests' : m \in DOMAIN before \/ requests'[m] = new
  BY OneMoreRequest, Zenon
<1>3. \A m \in DOMAIN requests' : (m \in DOMAIN requests /\ requests'[m] = before[m]) \/ requests'[m] = new
  BY <1>1, <1>2, Zenon
<1>4. \A m \in DOMAIN requests : m \in DOMAIN requests' /\ requests'[m] = before[m]
  BY <1>1, Zenon
<1>5. \A m \in DOMAIN requests' : LogsIn(m, t)' => m \in DOMAIN requests /\ LogsIn(m, t)
  BY <1>3, Zenon DEF LogsIn
<1>6. \A m : FindsSession(m, t) => FindsSession(m, t)'
  BY <1>4, Zenon DEF FindsSession
<1> QED
  BY <1>5, <1>6, NoneStaysInvalidated, Zenon DEF RequestsGoOn

SessionsInv == OutInv /\ TabsInv

LEMMA SimpleAnswersKeep ==
  ASSUME SessionsInv, NEW n \in DOMAIN requests, S!SessionAnswer(n) \/ S!CallAnswer(n) \/ S!FounderAnswer(n)
  PROVE  SessionsInv'
<1>1. requests' = S!Over(n) /\ UNCHANGED <<sessions, out, cookie, S!of_tabs>>
  BY DEF S!SessionAnswer, S!CallAnswer, S!FounderAnswer, S!of_worker
<1>2. requests[n].tab = None \/ requests[n].at # "sent"
  BY DEF S!SessionAnswer, S!CallAnswer, S!FounderAnswer, S!Got
<1>3. None \notin Tabs
  BY PagesAssumption DEF S!SessionsAssumption
<1>4. OutInv'
  BY <1>1, OverKeepsOut, CookieFacts DEF SessionsInv
<1>5. \A t \in Tabs : RequestsGoOn(t)
  BY <1>1, <1>2, <1>3, OverGoesOn DEF SessionsInv
<1> QED
  BY <1>1, <1>4, <1>5, FixedTabs DEF SessionsInv

LEMMA EndingALogIn ==
  ASSUME OutInv, NEW n \in DOMAIN requests, requests' = S!Over(n), NEW t \in Tabs, TabIsOrderly(t), LogsIn(n, t),
         submits[t] = 1
  PROVE  \A m \in DOMAIN requests' : ~LogsIn(m, t)'
<1>1. DOMAIN S!Over(n) = DOMAIN requests /\ S!Over(n)[n] = [requests[n] EXCEPT !.at = "over"]
      /\ \A m \in DOMAIN requests : m # n => S!Over(n)[m] = requests[m]
  BY OverRequests, Zenon
<1>2. requests'[n].at = "over"
  <2>1. requests[n] \in Asks
    BY RequestFacts
  <2> QED
    BY <1>1, <2>1, Zenon DEF Asks
<1>3. \A m \in DOMAIN requests : LogsIn(m, t) => m = n
  BY DEF TabIsOrderly
<1>4. ~LogsIn(n, t)'
  BY <1>2, Zenon DEF LogsIn
<1>5. ASSUME NEW m \in DOMAIN requests, m # n
      PROVE  ~LogsIn(m, t)'
  <2>1. requests'[m] = requests[m] /\ ~LogsIn(m, t)
    BY <1>1, <1>3, <1>5, Zenon
  <2> QED
    BY <2>1, Zenon DEF LogsIn
<1>6. DOMAIN requests' = DOMAIN requests
  BY <1>1, Zenon
<1> QED
  BY <1>4, <1>5, <1>6, Zenon

LEMMA RefusedKeeps ==
  ASSUME SessionsInv, NEW n \in DOMAIN requests, S!Refused(n)
  PROVE  SessionsInv'
<1>1. PICK t \in Tabs \cup {None} :
        /\ t = requests[n].tab /\ t # None
        /\ requests' = S!Over(n) /\ result' = [result EXCEPT ![t] = "error"]
        /\ requests[n].at = "refused"
        /\ UNCHANGED <<sessions, out, cookie, tab_page, promise, resolving, submits, trouble>>
  <2>1. requests[n].tab \in Tabs \cup {None}
    BY RequestFacts, Zenon DEF SessionsInv, Asks
  <2> QED
    BY <2>1, Zenon DEF S!Refused, S!of_worker
<1>2. requests[n] \in Asks /\ IsRight(requests[n], Len(sessions))
  BY RequestFacts DEF SessionsInv
<1>3. t \in Tabs /\ LogsIn(n, t)
  BY <1>1, <1>2, Zenon DEF Asks, IsRight, LogsIn
<1>4. OutInv'
  BY <1>1, OverKeepsOut, CookieFacts DEF SessionsInv
<1>5. \A u \in Tabs : RequestsGoOn(u)
  BY <1>1, OverGoesOn DEF SessionsInv
<1>6. \A u \in Tabs : result'[u] = IF u = t THEN "error" ELSE result[u]
  BY <1>1 DEF SessionsInv, TabsInv, TabTypes
<1>7. TabIsOrderly(t)
  BY <1>3 DEF SessionsInv, TabsInv
<1>8. TabIsOrderly(t)'
  <2>1. submits[t] # 0
    BY <1>3, <1>7 DEF TabIsOrderly
  <2>2. submits[t] = 1 => \A m \in DOMAIN requests' : ~LogsIn(m, t)'
    BY <1>1, <1>3, <1>7, EndingALogIn DEF SessionsInv
  <2>3. submits[t] = 1 =>
          /\ result[t] = "none" /\ tab_page[t] = "login"
          /\ resolving[t] = {} \/ (tab_page[t] = "none" /\ \E r \in Transitions : resolving[t] = {r})
    BY <1>3, <1>7 DEF TabIsOrderly
  <2>4. result'[t] = "error" /\ tab_page'[t] = tab_page[t] /\ resolving'[t] = resolving[t] /\ submits'[t] = submits[t]
    BY <1>1, <1>3, <1>6
  <2> QED
    BY <2>1, <2>2, <2>3, <2>4 DEF TabIsOrderly
<1>9. \A u \in Tabs : u # t => TabIsOrderly(u)'
  BY <1>1, <1>5, <1>6, OthersKeepTab DEF SessionsInv, TabsInv
<1>10. TabTypes'
  BY <1>1, <1>3 DEF SessionsInv, TabsInv, TabTypes
<1>11. \A u \in Tabs : TabIsOrderly(u)'
  BY <1>8, <1>9
<1> QED
  BY <1>4, <1>10, <1>11 DEF SessionsInv, TabsInv

LEMMA BreakKeeps ==
  ASSUME SessionsInv, NEW n \in DOMAIN requests, S!Break(n)
  PROVE  SessionsInv'
<1>1. PICK t \in Tabs \cup {None} :
        /\ t = requests[n].tab /\ t # None
        /\ requests' = S!Over(n) /\ requests[n].at # "over"
        /\ promise' = IF promise[t] = n \/ requests[n].kind = "session" THEN [promise EXCEPT ![t] = 0] ELSE promise
        /\ resolving' = [resolving EXCEPT ![t] = {r \in @ : r.request # n}]
        /\ result' = IF requests[n].kind = "log in" THEN [result EXCEPT ![t] = "error"] ELSE result
        /\ trouble' = [trouble EXCEPT ![t] = TRUE]
        /\ UNCHANGED <<sessions, out, cookie, tab_page, submits>>
  <2>1. requests[n].tab \in Tabs \cup {None}
    BY RequestFacts, Zenon DEF SessionsInv, Asks
  <2> QED
    BY <2>1, Zenon DEF S!Break, S!of_worker
<1>2. TabTypes /\ OutInv
  BY DEF SessionsInv, TabsInv
<1>3. t \in Tabs /\ TabIsOrderly(t)
  BY <1>1, Zenon DEF SessionsInv, TabsInv
<1>4. OutInv'
  BY <1>1, OverKeepsOut, CookieFacts, Zenon DEF SessionsInv
<1>5. /\ resolving'[t] = {r \in resolving[t] : r.request # n} /\ trouble'[t] = TRUE
      /\ result'[t] = IF requests[n].kind = "log in" THEN "error" ELSE result[t]
      /\ \A u \in Tabs : u # t =>
           resolving'[u] = resolving[u] /\ trouble'[u] = trouble[u] /\ result'[u] = result[u]
  BY <1>1, <1>2, <1>3, Zenon DEF TabTypes
<1>6. TabTypes'
  <2>1. promise' \in [Tabs -> Nat] /\ result' \in [Tabs -> {"none", "success", "error"}]
        /\ trouble' \in [Tabs -> BOOLEAN]
    BY <1>1, <1>2, <1>3, Zenon DEF TabTypes
  <2>2. resolving[t] \in SUBSET Transitions
    BY <1>2, <1>3 DEF TabTypes
  <2>3. {r \in resolving[t] : r.request # n} \in SUBSET Transitions
    BY <2>2
  <2>4. resolving' \in [Tabs -> SUBSET Transitions]
    BY <1>1, <1>2, <2>3, Zenon DEF TabTypes
  <2> QED
    BY <1>1, <1>2, <2>1, <2>4, Zenon DEF TabTypes
<1>7. \A u \in Tabs : u # t => TabIsOrderly(u)'
  <2>1. \A u \in Tabs : u # t => RequestsGoOn(u)
    BY <1>1, <1>2, OverGoesOn, Zenon
  <2> QED
    BY <1>1, <1>5, <2>1, OthersKeepTab, Zenon DEF SessionsInv, TabsInv
<1>8. TabIsOrderly(t)'
  <2>1. /\ DOMAIN S!Over(n) = DOMAIN requests /\ S!Over(n)[n] = [requests[n] EXCEPT !.at = "over"]
        /\ \A m \in DOMAIN requests : m # n => S!Over(n)[m] = requests[m]
    BY <1>2, OverRequests, Zenon
  <2>2. requests[n] \in Asks
    BY <1>2, RequestFacts
  <2>3. requests'[n].at = "over"
    BY <1>1, <2>1, <2>2, Zenon DEF Asks
  <2>4. \A m \in DOMAIN requests' : LogsIn(m, t)' => m \in DOMAIN requests /\ LogsIn(m, t)
    BY <1>1, <2>1, <2>3, Zenon DEF LogsIn
  <2>5. requests[n].kind = "log in" => LogsIn(n, t)
    BY <1>1, Zenon DEF LogsIn
  <2>6. submits[t] = 0 => result'[t] = "none" /\ \A m \in DOMAIN requests' : ~LogsIn(m, t)'
    BY <1>3, <1>5, <2>4, <2>5, Zenon DEF TabIsOrderly
  <2>7. ASSUME submits[t] = 1, requests[n].kind = "log in"
        PROVE  (\A m \in DOMAIN requests' : ~LogsIn(m, t)') /\ result[t] = "none"
    BY <1>1, <1>2, <1>3, <2>5, <2>7, EndingALogIn, Zenon DEF TabIsOrderly
  <2>8. submits[t] = 1 =>
          /\ \A k, m \in DOMAIN requests' : LogsIn(k, t)' /\ LogsIn(m, t)' => k = m
          /\ result'[t] # "none" => \A m \in DOMAIN requests' : ~LogsIn(m, t)'
          /\ result'[t] # "success" => tab_page[t] = "login"
    <3>1. CASE requests[n].kind = "log in"
      BY <1>3, <1>5, <2>7, <3>1, Zenon DEF TabIsOrderly
    <3>2. CASE requests[n].kind # "log in"
      BY <1>3, <1>5, <2>4, <3>2, Zenon DEF TabIsOrderly
    <3> QED
      BY <3>1, <3>2, Zenon
  <2>9. submits[t] \in {0, 1} /\ result'[t] # "success" =>
          resolving'[t] = {} \/ (tab_page[t] = "none" /\ \E r \in Transitions : resolving'[t] = {r})
    <3>1. submits[t] \in {0, 1} /\ result'[t] # "success" => result[t] # "success"
      BY <1>5, <2>5, <2>7, <1>3, Zenon DEF TabIsOrderly
    <3>2. ASSUME NEW r \in Transitions, resolving[t] = {r}
          PROVE  resolving'[t] = {} \/ resolving'[t] = {r}
      BY <1>5, <3>2, Zenon
    <3>3. resolving[t] = {} => resolving'[t] = {}
      BY <1>5, Zenon
    <3> QED
      BY <1>3, <3>1, <3>2, <3>3 DEF TabIsOrderly
  <2> QED
    BY <1>1, <1>5, <2>6, <2>8, <2>9, Zenon DEF TabIsOrderly
<1>9. \A u \in Tabs : TabIsOrderly(u)'
  BY <1>7, <1>8
<1> QED
  BY <1>4, <1>6, <1>9 DEF SessionsInv, TabsInv

\* A tab that is loaded asks for its session, and knows nothing else.
LEMMA LoadedKeeps ==
  ASSUME SessionsInv, NEW t \in Tabs, NEW to \in {"login", "app"}, NEW k \in 0 .. Len(sessions),
         S!Loaded(t, to, k), UNCHANGED <<sessions, out>>
  PROVE  SessionsInv'
<1> DEFINE new == [S!Request(t, "session", None, FALSE) EXCEPT !.cookie = k]
           one == [to |-> to, request |-> Len(requests'), alive |-> TRUE]
<1>1. /\ requests' = Append(S!Forgotten(t), new) /\ cookie' = k
      /\ promise' = [promise EXCEPT ![t] = Len(requests')]
      /\ resolving' = [resolving EXCEPT ![t] = {one}]
      /\ tab_page' = [tab_page EXCEPT ![t] = "none"]
      /\ result' = [result EXCEPT ![t] = "none"]
      /\ submits' = [submits EXCEPT ![t] = 0] /\ trouble' = [trouble EXCEPT ![t] = FALSE]
  BY Zenon DEF S!Loaded
<1>2. TabTypes /\ OutInv
  BY DEF SessionsInv, TabsInv
<1>3. new \in Asks /\ IsRight(new, Len(sessions)) /\ new.tab = t /\ new.kind = "session"
  <2>1. None \in People /\ FALSE \in BOOLEAN /\ t \in Tabs \cup {None}
    BY DEF People
  <2>2. new \in Asks /\ IsRight(new, Len(sessions))
    BY <1>2, <2>1, NoTabIsNone, NewRequest, Zenon
  <2> QED
    BY <2>2 DEF S!Request
<1> HIDE DEF new
<1>4. /\ S!Forgotten(t) \in Seq(Asks) /\ DOMAIN S!Forgotten(t) = DOMAIN requests
      /\ \A m \in DOMAIN requests :
           S!Forgotten(t)[m] = IF requests[m].tab = t THEN [requests[m] EXCEPT !.at = "over"] ELSE requests[m]
      /\ \A m \in DOMAIN requests : IsRight(S!Forgotten(t)[m], Len(sessions))
  BY <1>2, OverRequests, Zenon
<1>5. OutInv'
  BY <1>1, <1>2, <1>3, <1>4, MoreKeepsOut
<1>6. Len(requests') \in Nat
  BY <1>5 DEF OutInv, WorkerTypes
<1>7. one \in Transitions
  BY <1>6 DEF Transitions
<1> HIDE DEF one
<1>8. TabTypes'
  BY <1>1, <1>2, <1>6, <1>7 DEF TabTypes
<1>9. /\ resolving'[t] = {one} /\ tab_page'[t] = "none" /\ result'[t] = "none" /\ submits'[t] = 0
      /\ \A u \in Tabs : u # t =>
           /\ resolving'[u] = resolving[u] /\ tab_page'[u] = tab_page[u] /\ result'[u] = result[u]
           /\ submits'[u] = submits[u] /\ trouble'[u] = trouble[u]
  BY <1>1, <1>2 DEF TabTypes
<1>10. \A u \in Tabs : u # t => TabIsOrderly(u)'
  <2>1. \A m \in DOMAIN requests : requests[m].tab = t => S!Forgotten(t)[m].tab = t
    <3>1. \A m \in DOMAIN requests : requests[m] \in Asks
      BY <1>2, RequestFacts
    <3> QED
      BY <1>4, <3>1, Zenon DEF Asks
  <2>2. \A u \in Tabs : u # t => RequestsGoOn(u)
    BY <1>1, <1>2, <1>3, <1>4, <2>1, MoreGoesOn, Zenon
  <2> QED
    BY <1>9, <2>2, OthersKeepTab DEF SessionsInv, TabsInv
<1>11. TabIsOrderly(t)'
  <2>1. \A m \in DOMAIN requests' : m \in DOMAIN S!Forgotten(t) => requests'[m] = S!Forgotten(t)[m]
    BY <1>1, <1>3, <1>4, OneMoreRequest
  <2>2. \A m \in DOMAIN requests' : (m \in DOMAIN requests /\ requests'[m] = S!Forgotten(t)[m]) \/ requests'[m] = new
    BY <1>1, <1>3, <1>4, <2>1, OneMoreRequest
  <2>3. \A m \in DOMAIN requests : S!Forgotten(t)[m].tab = t => S!Forgotten(t)[m].at = "over"
    <3>1. \A m \in DOMAIN requests : requests[m] \in Asks
      BY <1>2, RequestFacts
    <3> QED
      BY <1>4, <3>1, Zenon DEF Asks
  <2>4. \A m \in DOMAIN requests' : ~LogsIn(m, t)'
    BY <1>3, <2>2, <2>3, Zenon DEF LogsIn
  <2> QED
    BY <1>7, <1>9, <2>4 DEF TabIsOrderly
<1>12. \A u \in Tabs : TabIsOrderly(u)'
  BY <1>10, <1>11
<1> QED
  BY <1>5, <1>8, <1>12 DEF SessionsInv, TabsInv

LEMMA AskingKeeps ==
  ASSUME SessionsInv, NEW t \in Tabs \cup {None}, NEW kind \in {"call", "create company", "log out"},
         NEW who \in People, NEW right \in BOOLEAN, S!Ask(t, kind, who, right),
         kind = "create company" <=> t = None, kind = "create company" => who \in Employees,
         UNCHANGED <<sessions, cookie, out, S!of_tabs>>
  PROVE  SessionsInv'
<1>1. OutInv'
  BY AskingKeepsOut, Zenon DEF SessionsInv
<1>2. S!Request(t, kind, who, right) \in Asks /\ S!Request(t, kind, who, right).kind = kind
  <2>1. 0 \in 0 .. Len(sessions)
    BY CookieFacts, Zenon DEF SessionsInv
  <2> QED
    BY <2>1, NewRequest, Zenon DEF SessionsInv, S!Request
<1>3. requests' = Append(requests, S!Request(t, kind, who, right)) /\ requests \in Seq(Asks)
  BY Zenon DEF S!Ask, SessionsInv, OutInv, WorkerTypes
<1>4. \A u \in Tabs : RequestsGoOn(u)
  BY <1>2, <1>3, MoreGoesOn, Zenon DEF SessionsInv
<1> QED
  BY <1>1, <1>4, FixedTabs, Zenon DEF SessionsInv

LEMMA SubmitKeeps ==
  ASSUME SessionsInv, NEW t \in Tabs, NEW who \in Employees, NEW right \in BOOLEAN, S!Submit(t, who, right)
  PROVE  SessionsInv'
<1>1. /\ tab_page[t] = "login" /\ submits[t] < 2 /\ S!Ask(t, "log in", who, right)
      /\ submits' = [submits EXCEPT ![t] = @ + 1]
      /\ UNCHANGED <<sessions, out, cookie, tab_page, promise, resolving, result, trouble>>
  BY Zenon DEF S!Submit, S!of_worker
<1>2. OutInv /\ TabTypes /\ TabIsOrderly(t)
  BY DEF SessionsInv, TabsInv
<1>3. OutInv'
  BY <1>1, <1>2, NoTabIsNone, AskingKeepsOut, Zenon DEF People
<1> DEFINE new == S!Request(t, "log in", who, right)
<1>4. new \in Asks /\ new.kind = "log in" /\ new.tab = t
  <2>1. 0 \in 0 .. Len(sessions)
    BY <1>2, CookieFacts
  <2> QED
    BY <1>2, <2>1, NoTabIsNone, NewRequest, Zenon DEF People, S!Request
<1>5. requests' = Append(requests, new) /\ requests \in Seq(Asks)
  BY <1>1, <1>2, Zenon DEF S!Ask, OutInv, WorkerTypes
<1> HIDE DEF new
<1>6. submits'[t] = submits[t] + 1 /\ submits[t] \in Nat /\ \A u \in Tabs : u # t => submits'[u] = submits[u]
  BY <1>1, <1>2, Zenon DEF TabTypes
<1>7. TabTypes'
  <2>1. submits[t] + 1 \in Nat
    BY <1>6
  <2>2. submits' \in [Tabs -> Nat]
    BY <1>1, <1>2, <2>1, Zenon DEF TabTypes
  <2> QED
    BY <1>1, <1>2, <2>2, Zenon DEF TabTypes
<1>8. \A u \in Tabs : u # t => TabIsOrderly(u)'
  <2>1. \A u \in Tabs : u # t => RequestsGoOn(u)
    BY <1>1, <1>2, <1>4, <1>5, MoreGoesOn, Zenon
  <2> QED
    BY <1>1, <1>6, <2>1, OthersKeepTab, Zenon DEF SessionsInv, TabsInv
<1>9. TabIsOrderly(t)'
  <2>1. CASE submits[t] = 0
    <3>1. result[t] = "none" /\ \A n \in DOMAIN requests : ~LogsIn(n, t)
      BY <1>2, <2>1 DEF TabIsOrderly
    <3>2. requests' \in Seq(Asks)
      BY <1>3 DEF OutInv, WorkerTypes
    <3>3. /\ \A m \in DOMAIN requests : m \in DOMAIN requests' /\ requests'[m] = requests[m]
          /\ \A m \in DOMAIN requests' : m \in DOMAIN requests \/ m = Len(requests) + 1
      <4>1. PICK before \in Seq(Asks) : before = requests
        BY <1>5
      <4>2. /\ \A m \in DOMAIN Append(before, new) : m \in DOMAIN before \/ m = Len(before) + 1
            /\ \A m \in DOMAIN before : m \in DOMAIN Append(before, new) /\ Append(before, new)[m] = before[m]
        BY <1>4, OneAtTheEnd, Zenon
      <4> QED
        BY <1>5, <4>1, <4>2, Zenon
    <3>4. \A m \in DOMAIN requests' : LogsIn(m, t)' => m = Len(requests) + 1
      BY <3>1, <3>3, Zenon DEF LogsIn
    <3>5. resolving[t] = {} /\ tab_page'[t] = "login"
      BY <1>1, <1>2, <2>1, <3>1, Zenon DEF TabIsOrderly
    <3>6. submits'[t] = 1
      BY <1>6, <2>1
    <3>7. result'[t] = "none" /\ resolving'[t] = {}
      BY <1>1, <3>1, <3>5, Zenon
    <3>8. \A m, k \in DOMAIN requests' : LogsIn(m, t)' /\ LogsIn(k, t)' => m = k
      BY <3>4
    <3> HIDE DEF LogsIn
    <3> QED
      BY <3>5, <3>6, <3>7, <3>8 DEF TabIsOrderly
  <2>2. CASE submits[t] # 0
    <3>1. submits'[t] \notin {0, 1}
      BY <1>6, <2>2
    <3> QED
      BY <3>1 DEF TabIsOrderly
  <2> QED
    BY <2>1, <2>2
<1>10. \A u \in Tabs : TabIsOrderly(u)'
  BY <1>8, <1>9
<1> QED
  BY <1>3, <1>7, <1>10 DEF SessionsInv, TabsInv

\* A state that waits for the session is entered, or fails below.
LEMMA EnterKeeps ==
  ASSUME SessionsInv, NEW t \in Tabs, NEW r \in resolving[t], S!Enter(t, r) \/ S!ChildFails(t, r)
  PROVE  SessionsInv'
<1>1. OutInv /\ TabTypes /\ TabIsOrderly(t)
  BY DEF SessionsInv, TabsInv
<1>2. UNCHANGED <<sessions, out, cookie, requests, promise, result, submits>>
      /\ resolving' = [resolving EXCEPT ![t] = @ \ {r}]
  BY DEF S!Enter, S!ChildFails, S!of_worker
<1>3. \A u \in Tabs : RequestsGoOn(u)
  BY <1>2, Zenon DEF RequestsGoOn, LogsIn, FindsSession, NoneInvalidated
<1>4. OutInv'
  BY <1>1, <1>2 DEF OutInv, WorkerTypes, OutIsInvalidated, RequestsAreRight
<1>5. r \in Transitions /\ resolving[t] \in SUBSET Transitions
  BY <1>1 DEF TabTypes
<1>6. /\ tab_page' \in [Tabs -> {"none", "login", "app"}] /\ trouble' \in [Tabs -> BOOLEAN]
      /\ \A u \in Tabs : u # t => tab_page'[u] = tab_page[u] /\ trouble'[u] = trouble[u]
      /\ trouble[t] => trouble'[t]
  <2>1. CASE S!Enter(t, r)
    <3> DEFINE fails == r.to = "app" /\ requests[r.request].is # None /\ started[t]
    <3>1. (tab_page' = tab_page \/ tab_page' = [tab_page EXCEPT ![t] = r.to])
          /\ trouble' = [trouble EXCEPT ![t] = @ \/ (r.alive /\ fails)]
      BY <2>1, Zenon DEF S!Enter
    <3>2. r.to \in {"none", "login", "app"}
      BY <1>5 DEF Transitions
    <3>3. (trouble[t] \/ (r.alive /\ fails)) \in BOOLEAN
      OBVIOUS
    <3> HIDE DEF fails
    <3> QED
      BY <1>1, <3>1, <3>2, <3>3 DEF TabTypes
  <2>2. CASE S!ChildFails(t, r)
    BY <1>1, <2>2 DEF S!ChildFails, TabTypes
  <2> QED
    BY <2>1, <2>2
<1>7. TabTypes'
  <2>1. resolving[t] \ {r} \in SUBSET Transitions
    BY <1>5
  <2>2. resolving' \in [Tabs -> SUBSET Transitions]
    BY <1>1, <1>2, <2>1, Zenon DEF TabTypes
  <2> QED
    BY <1>1, <1>2, <1>6, <2>2 DEF TabTypes
<1>8. resolving'[t] = resolving[t] \ {r} /\ \A u \in Tabs : u # t => resolving'[u] = resolving[u]
  BY <1>1, <1>2 DEF TabTypes
<1>9. \A u \in Tabs : u # t => TabIsOrderly(u)'
  BY <1>2, <1>3, <1>6, <1>8, OthersKeepTab DEF SessionsInv, TabsInv
<1>10. TabIsOrderly(t)'
  <2>1. submits[t] = 1 => result[t] = "success"
    BY <1>1 DEF TabIsOrderly
  <2>2. submits[t] = 0 /\ result[t] # "success" => resolving'[t] = {}
    BY <1>1, <1>8 DEF TabIsOrderly
  <2>3. ASSUME submits[t] = 1, result[t] = "success", ~trouble'[t], NoneInvalidated'
        PROVE  OpensTheApp(t)'
    <3>1. NoneInvalidated /\ ~trouble[t]
      BY <1>2, <1>6, <2>3 DEF NoneInvalidated
    <3>2. OpensTheApp(t)
      BY <1>1, <2>3, <3>1 DEF TabIsOrderly
    <3>3. resolving[t] = {r} /\ r.alive /\ r.to = "app" /\ FindsSession(r.request, t)
      BY <3>2 DEF OpensTheApp
    <3>4. CASE S!Enter(t, r)
      <4>1. requests[r.request].at = "over"
        BY <3>4 DEF S!Enter, S!Answered
      <4>2. requests[r.request].is # None
        BY <3>3, <4>1 DEF FindsSession
      <4>3. trouble' = [trouble EXCEPT ![t] = @ \/ (r.alive /\ r.to = "app" /\ requests[r.request].is # None /\ started[t])]
        BY <3>4, Zenon DEF S!Enter
      <4>4. ~started[t]
        BY <1>1, <2>3, <3>3, <4>2, <4>3 DEF TabTypes
      <4>5. tab_page' = [tab_page EXCEPT ![t] = r.to]
        BY <3>3, <3>4, <4>4, Zenon DEF S!Enter
      <4>6. tab_page'[t] = "app" /\ resolving'[t] = {}
        BY <1>1, <1>8, <3>3, <4>5 DEF TabTypes
      <4> QED
        BY <4>6 DEF OpensTheApp
    <3>5. CASE S!ChildFails(t, r)
      <4>1. trouble'[t]
        BY <1>1, <3>5 DEF S!ChildFails, TabTypes
      <4> QED
        BY <2>3, <4>1
    <3> QED
      BY <3>4, <3>5
  <2>4. submits'[t] = submits[t] /\ result'[t] = result[t] /\ UNCHANGED requests
    BY <1>2
  <2>5. submits[t] = 0 => result[t] = "none" /\ \A n \in DOMAIN requests : ~LogsIn(n, t)
    BY <1>1 DEF TabIsOrderly
  <2>6. submits[t] = 1 =>
          /\ \A m, n \in DOMAIN requests : LogsIn(m, t) /\ LogsIn(n, t) => m = n
          /\ result[t] # "none" => \A n \in DOMAIN requests : ~LogsIn(n, t)
    BY <1>1 DEF TabIsOrderly
  <2>7. \A n : LogsIn(n, t)' = LogsIn(n, t)
    BY <2>4 DEF LogsIn
  <2> QED
    BY <2>1, <2>2, <2>3, <2>4, <2>5, <2>6, <2>7 DEF TabIsOrderly
<1>11. \A u \in Tabs : TabIsOrderly(u)'
  BY <1>9, <1>10
<1> QED
  BY <1>4, <1>7, <1>11 DEF SessionsInv, TabsInv

\* A state that the session sends elsewhere waits there for the same promise, or for a new one.
LEMMA RedirectKeeps ==
  ASSUME SessionsInv, NEW t \in Tabs, NEW r \in resolving[t], S!Redirect(t, r)
  PROVE  SessionsInv'
<1> DEFINE new == [S!Request(t, "session", None, FALSE) EXCEPT !.cookie = cookie']
           one == [to |-> IF r.to = "login" THEN "app" ELSE "login", request |-> promise'[t], alive |-> TRUE]
<1>1. OutInv /\ TabTypes /\ TabIsOrderly(t)
  BY DEF SessionsInv, TabsInv
<1>2. /\ requests[r.request].at = "over" /\ r.to = (IF requests[r.request].is # None THEN "login" ELSE "app")
      /\ UNCHANGED <<sessions, out, cookie, tab_page, result, submits, trouble>>
      /\ requests' = requests \/ requests' = Append(requests, new)
      /\ promise' = [promise EXCEPT ![t] = IF promise[t] # 0 THEN promise[t] ELSE Len(requests')]
      /\ resolving' = [resolving EXCEPT ![t] = (@ \ {r}) \cup {one}]
  BY Zenon DEF S!Redirect, S!GetSession, S!of_worker, S!Answered
<1>3. new \in Asks /\ IsRight(new, Len(sessions)) /\ new.tab = t /\ new.kind = "session"
  <2>1. cookie' \in 0 .. Len(sessions)
    BY <1>1, <1>2, CookieFacts
  <2>2. None \in People /\ FALSE \in BOOLEAN /\ t \in Tabs \cup {None}
    BY DEF People
  <2>3. new \in Asks /\ IsRight(new, Len(sessions))
    BY <1>1, <2>1, <2>2, NoTabIsNone, NewRequest, Zenon
  <2> QED
    BY <2>3 DEF S!Request
<1> HIDE DEF new
<1>4. requests \in Seq(Asks) /\ (\A m \in DOMAIN requests : IsRight(requests[m], Len(sessions)))
      /\ cookie' \in 0 .. Len(sessions)
  BY <1>1, <1>2, CookieFacts DEF OutInv, WorkerTypes, RequestsAreRight
<1>5. OutInv'
  <2>1. CASE requests' = requests
    BY <1>1, <1>2, <2>1 DEF OutInv, WorkerTypes, OutIsInvalidated, RequestsAreRight
  <2>2. CASE requests' = Append(requests, new)
    BY <1>1, <1>2, <1>3, <1>4, <2>2, MoreKeepsOut
  <2> QED
    BY <1>2, <2>1, <2>2
<1>6. \A u \in Tabs : RequestsGoOn(u)
  <2>1. CASE requests' = requests
    BY <1>2, <2>1, Zenon DEF RequestsGoOn, LogsIn, FindsSession, NoneInvalidated
  <2>2. CASE requests' = Append(requests, new)
    BY <1>1, <1>2, <1>3, <1>4, <2>2, MoreGoesOn, Zenon
  <2> QED
    BY <1>2, <2>1, <2>2
<1>7. promise' \in [Tabs -> Nat]
  <2>1. Len(requests') \in Nat
    BY <1>5 DEF OutInv, WorkerTypes
  <2> QED
    BY <1>1, <1>2, <2>1 DEF TabTypes
<1>8. r \in Transitions /\ resolving[t] \in SUBSET Transitions
  BY <1>1 DEF TabTypes
<1>9. one \in Transitions
  BY <1>7, <1>8 DEF Transitions
<1> HIDE DEF one
<1>10. TabTypes'
  <2>1. (resolving[t] \ {r}) \cup {one} \in SUBSET Transitions
    BY <1>8, <1>9
  <2>2. resolving' \in [Tabs -> SUBSET Transitions]
    BY <1>1, <1>2, <2>1, Zenon DEF TabTypes
  <2> QED
    BY <1>1, <1>2, <1>7, <2>2 DEF TabTypes
<1>11. resolving'[t] = (resolving[t] \ {r}) \cup {one} /\ \A u \in Tabs : u # t => resolving'[u] = resolving[u]
  BY <1>1, <1>2 DEF TabTypes
<1>12. \A u \in Tabs : u # t => TabIsOrderly(u)'
  BY <1>2, <1>6, <1>11, OthersKeepTab DEF SessionsInv, TabsInv
<1>13. TabIsOrderly(t)'
  <2>1. \A n \in DOMAIN requests' : LogsIn(n, t)' => n \in DOMAIN requests /\ LogsIn(n, t)
    BY <1>6 DEF RequestsGoOn
  <2>2. /\ submits'[t] = 0 => result'[t] = "none" /\ \A n \in DOMAIN requests' : ~LogsIn(n, t)'
        /\ submits'[t] = 1 =>
             /\ \A m, n \in DOMAIN requests' : LogsIn(m, t)' /\ LogsIn(n, t)' => m = n
             /\ result'[t] # "none" => \A n \in DOMAIN requests' : ~LogsIn(n, t)'
             /\ result'[t] # "success" => tab_page'[t] = "login"
    BY <1>1, <1>2, <2>1 DEF TabIsOrderly
  <2>3. submits[t] \in {0, 1} /\ result[t] # "success" => tab_page[t] = "none" /\ resolving'[t] = {one}
    BY <1>1, <1>11 DEF TabIsOrderly
  <2>4. ASSUME submits[t] = 1, result[t] = "success", ~trouble[t], NoneInvalidated'
        PROVE  FALSE
    <3>1. NoneInvalidated
      BY <1>2, <2>4, NoneStaysInvalidated
    <3>2. OpensTheApp(t)
      BY <1>1, <2>4, <3>1 DEF TabIsOrderly
    <3>3. r.to = "app" /\ FindsSession(r.request, t)
      BY <3>2 DEF OpensTheApp
    <3> QED
      BY <1>2, <3>3 DEF FindsSession
  <2> QED
    BY <1>2, <1>9, <2>2, <2>3, <2>4 DEF TabIsOrderly
<1>14. \A u \in Tabs : TabIsOrderly(u)'
  BY <1>12, <1>13
<1> QED
  BY <1>5, <1>10, <1>14 DEF SessionsInv, TabsInv

\* The log in is answered: the form forgets the session and goes to the app.
LEMMA LogInAnswerKeeps ==
  ASSUME SessionsInv, NEW n \in DOMAIN requests, S!LogInAnswer(n)
  PROVE  SessionsInv'
<1> DEFINE k == requests[n].session
<1>1. PICK t \in Tabs \cup {None} :
        /\ t = requests[n].tab /\ t # None /\ requests[n].kind = "log in" /\ requests[n].at = "answered"
        /\ cookie' = k /\ result' = [result EXCEPT ![t] = "success"]
        /\ IF tab_page[t] = "app"
           THEN requests' = S!Over(n) /\ promise' = S!ClearedPromise(t) /\ resolving' = resolving
           ELSE /\ S!GetSession(t, S!ClearedPromise(t)[t], S!Over(n))
                /\ resolving' = [resolving EXCEPT ![t] = {[r EXCEPT !.alive = FALSE] : r \in @}
                                   \cup {[to |-> "app", request |-> promise'[t], alive |-> TRUE]}]
        /\ UNCHANGED <<sessions, out, tab_page, submits, trouble>>
  <2>1. requests[n].tab \in Tabs \cup {None}
    BY RequestFacts, Zenon DEF SessionsInv, Asks
  <2> QED
    BY <2>1, Zenon DEF S!LogInAnswer, S!of_worker, S!Got
<1>2. OutInv /\ TabTypes /\ t \in Tabs /\ TabIsOrderly(t) /\ LogsIn(n, t)
  BY <1>1, Zenon DEF SessionsInv, TabsInv, LogsIn
<1>3. k \in 0 .. Len(sessions) /\ k # 0
  <2>1. requests[n] \in Asks /\ IsRight(requests[n], Len(sessions)) /\ Len(sessions) \in Nat
    BY <1>2, RequestFacts, CookieFacts
  <2>2. k \in Nat
    BY <2>1, Zenon DEF Asks
  <2>3. k <= Len(sessions) /\ k # 0
    BY <1>1, <2>1, Zenon DEF IsRight
  <2> QED
    BY <2>1, <2>2, <2>3
<1>4. cookie' \in 0 .. Len(sessions)
  BY <1>1, <1>3, Zenon
<1> HIDE DEF k
<1>5. \A u \in Tabs : result'[u] = IF u = t THEN "success" ELSE result[u]
  BY <1>1, <1>2, Zenon DEF TabTypes
<1>6. result' \in [Tabs -> {"none", "success", "error"}]
  BY <1>1, <1>2, Zenon DEF TabTypes
<1>7. submits[t] # 0 /\ (submits[t] = 1 => tab_page[t] = "login" /\ resolving[t] = {})
  BY <1>2 DEF TabIsOrderly
<1>8. S!ClearedPromise(t) \in [Tabs -> Nat] /\ S!ClearedPromise(t)[t] = 0
      /\ S!ClearedPromise(t) = [promise EXCEPT ![t] = 0]
  BY <1>2 DEF S!ClearedPromise, TabTypes
<1>9. CASE tab_page[t] = "app"
  <2>1. requests' = S!Over(n) /\ promise' = S!ClearedPromise(t) /\ resolving' = resolving
    BY <1>1, <1>9, Zenon
  <2>2. OutInv'
    BY <1>1, <1>2, <1>4, <2>1, OverKeepsOut, Zenon
  <2>3. \A u \in Tabs : RequestsGoOn(u)
    BY <1>1, <1>2, <2>1, OverGoesOn, Zenon
  <2>4. TabTypes'
    BY <1>1, <1>2, <1>6, <1>8, <2>1, Zenon DEF TabTypes
  <2>5. \A u \in Tabs : u # t => TabIsOrderly(u)'
    BY <1>1, <1>5, <2>1, <2>3, OthersKeepTab, Zenon DEF SessionsInv, TabsInv
  <2>6. TabIsOrderly(t)'
    <3>1. submits'[t] \notin {0, 1}
      BY <1>1, <1>7, <1>9, Zenon
    <3> QED
      BY <3>1 DEF TabIsOrderly
  <2>7. \A u \in Tabs : TabIsOrderly(u)'
    BY <2>5, <2>6
  <2> QED
    BY <2>2, <2>4, <2>7 DEF SessionsInv, TabsInv
<1>10. CASE tab_page[t] # "app"
  <2> DEFINE new == [S!Request(t, "session", None, FALSE) EXCEPT !.cookie = cookie']
             one == [to |-> "app", request |-> promise'[t], alive |-> TRUE]
             dead == {[r EXCEPT !.alive = FALSE] : r \in resolving[t]}
  <2>1. /\ requests' = Append(S!Over(n), new)
        /\ promise' = [promise EXCEPT ![t] = Len(requests')]
        /\ resolving' = [resolving EXCEPT ![t] = dead \cup {one}]
    BY <1>1, <1>8, <1>10, Zenon DEF S!GetSession
  <2>2. new \in Asks /\ IsRight(new, Len(sessions)) /\ new.tab = t /\ new.kind = "session" /\ new.cookie # 0
        /\ new.at = "sent"
    <3>2. None \in People /\ FALSE \in BOOLEAN /\ t \in Tabs \cup {None}
      BY DEF People
    <3>3. new \in Asks /\ IsRight(new, Len(sessions))
      BY <1>2, <1>4, <3>2, NoTabIsNone, NewRequest, Zenon
    <3>4. cookie' # 0
      BY <1>1, <1>3, Zenon
    <3> QED
      BY <3>3, <3>4 DEF S!Request
  <2> HIDE DEF new
  <2>3. /\ S!Over(n) \in Seq(Asks) /\ DOMAIN S!Over(n) = DOMAIN requests
        /\ S!Over(n)[n] = [requests[n] EXCEPT !.at = "over"]
        /\ \A m \in DOMAIN requests : m # n => S!Over(n)[m] = requests[m]
        /\ \A m \in DOMAIN requests : IsRight(S!Over(n)[m], Len(sessions))
    BY <1>2, OverRequests, Zenon
  <2>4. OutInv'
    BY <1>1, <1>2, <1>4, <2>1, <2>2, <2>3, MoreKeepsOut, Zenon
  <2>5. S!Over(n)[n].tab = t /\ S!Over(n)[n].at = "over"
    <3>1. requests[n] \in Asks
      BY <1>2, RequestFacts
    <3> QED
      BY <1>1, <2>3, <3>1, Zenon DEF Asks
  <2>6. \A u \in Tabs : u # t => RequestsGoOn(u)
    <3> SUFFICES ASSUME NEW u \in Tabs, u # t
                 PROVE  RequestsGoOn(u)
      OBVIOUS
    <3>1. /\ \A m \in DOMAIN requests : requests[m].tab = u => S!Over(n)[m] = requests[m]
          /\ \A m \in DOMAIN requests : requests[m].tab # u => S!Over(n)[m].tab # u
      BY <1>1, <2>3, <2>5, Zenon
    <3> QED
      BY <1>1, <1>2, <2>1, <2>2, <2>3, <3>1, MoreGoesOn, Zenon
  <2>7. Len(requests') \in Nat /\ promise'[t] = Len(requests')
    BY <1>2, <2>1, <2>4 DEF OutInv, WorkerTypes, TabTypes
  <2>8. one \in Transitions /\ one.to = "app" /\ one.alive /\ one.request = Len(requests')
    BY <2>7 DEF Transitions
  <2>9. dead \in SUBSET Transitions
    <3>1. resolving[t] \in SUBSET Transitions
      BY <1>2 DEF TabTypes
    <3>2. \A r \in Transitions : [r EXCEPT !.alive = FALSE] \in Transitions
      BY DEF Transitions
    <3> QED
      BY <3>1, <3>2
  <2>10. resolving[t] = {} => dead = {}
    OBVIOUS
  <2> HIDE DEF one, dead
  <2>11. TabTypes'
    <3>1. dead \cup {one} \in SUBSET Transitions
      BY <2>8, <2>9
    <3>2. resolving' \in [Tabs -> SUBSET Transitions]
      BY <1>2, <2>1, <3>1, Zenon DEF TabTypes
    <3>3. promise' \in [Tabs -> Nat]
      BY <1>2, <2>1, <2>7, Zenon DEF TabTypes
    <3> QED
      BY <1>1, <1>2, <1>6, <3>2, <3>3, Zenon DEF TabTypes
  <2>12. resolving'[t] = dead \cup {one} /\ \A u \in Tabs : u # t => resolving'[u] = resolving[u]
    BY <1>2, <2>1 DEF TabTypes
  <2>13. \A u \in Tabs : u # t => TabIsOrderly(u)'
    BY <1>1, <1>5, <2>6, <2>12, OthersKeepTab, Zenon DEF SessionsInv, TabsInv
  <2>14. TabIsOrderly(t)'
    <3>1. CASE submits[t] # 1
      <4>1. submits'[t] \notin {0, 1}
        BY <1>1, <1>7, <3>1, Zenon
      <4> QED
        BY <4>1 DEF TabIsOrderly
    <3>2. CASE submits[t] = 1
      <4>1. submits'[t] = 1 /\ result'[t] = "success" /\ tab_page'[t] = "login" /\ resolving'[t] = {one}
        BY <1>1, <1>2, <1>5, <1>7, <2>10, <2>12, <3>2, Zenon
      <4>2. Len(requests') \in DOMAIN requests' /\ requests'[Len(requests')] = new
            /\ \A m \in DOMAIN S!Over(n) : m \in DOMAIN requests' /\ requests'[m] = S!Over(n)[m]
        BY <2>1, <2>2, <2>3, OneMoreRequest, Zenon
      <4>3. \A m \in DOMAIN requests' : m \in DOMAIN S!Over(n) \/ requests'[m] = new
        BY <2>1, <2>2, <2>3, OneMoreRequest, Zenon
      <4>4. \A m \in DOMAIN requests' : ~LogsIn(m, t)'
        <5>1. \A m \in DOMAIN requests : LogsIn(m, t) => m = n
          BY <1>2, <3>2 DEF TabIsOrderly
        <5>2. \A m \in DOMAIN requests : ~(S!Over(n)[m].tab = t /\ S!Over(n)[m].kind = "log in" /\ S!Over(n)[m].at # "over")
          BY <2>3, <2>5, <5>1, Zenon DEF LogsIn
        <5>3. ASSUME NEW m \in DOMAIN requests'
              PROVE  ~(requests'[m].tab = t /\ requests'[m].kind = "log in" /\ requests'[m].at # "over")
          <6>1. CASE m \in DOMAIN S!Over(n)
            BY <2>3, <4>2, <5>2, <6>1, Zenon
          <6>2. CASE requests'[m] = new
            BY <2>2, <6>2, Zenon
          <6> QED
            BY <4>3, <5>3, <6>1, <6>2, Zenon
        <5> QED
          BY <5>3, Zenon DEF LogsIn
      <4>5. PICK r \in Transitions : r = one
        BY <2>8
      <4>6. FindsSession(r.request, t)'
        <5>1. r.request \in DOMAIN requests' /\ requests'[r.request] = new
          BY <2>8, <4>2, <4>5
        <5> QED
          BY <2>2, <5>1 DEF FindsSession
      <4>7. resolving'[t] = {r} /\ r.alive /\ r.to = "app"
        BY <2>8, <4>1, <4>5
      <4>8. OpensTheApp(t)'
        BY <4>1, <4>6, <4>7 DEF OpensTheApp
      <4> QED
        BY <4>1, <4>4, <4>8 DEF TabIsOrderly
    <3> QED
      BY <3>1, <3>2
  <2>15. \A u \in Tabs : TabIsOrderly(u)'
    BY <2>13, <2>14
  <2> QED
    BY <2>4, <2>11, <2>15 DEF SessionsInv, TabsInv
<1> QED
  BY <1>9, <1>10

LEMMA SessionsInit == S!Init => SessionsInv
<1> SUFFICES ASSUME S!Init
             PROVE  SessionsInv
  OBVIOUS
<1>1. sessions \in {<<>>} \cup {<<[employee |-> e, invalidated |-> FALSE]>> : e \in registered}
      /\ registered = Employees \ Founders /\ cookie = Len(sessions) /\ requests = <<>> /\ out = {}
      /\ tab_page = [u \in Tabs |-> "none"] /\ promise = [u \in Tabs |-> 0] /\ resolving = [u \in Tabs |-> {}]
      /\ result = [u \in Tabs |-> "none"] /\ submits = [u \in Tabs |-> 0] /\ trouble = [u \in Tabs |-> FALSE]
  BY DEF S!Init
<1>2. sessions \in Seq(SessionRows)
  <2>1. \A e \in registered : [employee |-> e, invalidated |-> FALSE] \in SessionRows
    BY <1>1 DEF SessionRows
  <2>2. \A row \in SessionRows : <<row>> \in Seq(SessionRows)
    OBVIOUS
  <2>3. <<>> \in Seq(SessionRows)
    OBVIOUS
  <2>4. CASE sessions = <<>>
    BY <2>3, <2>4
  <2>5. CASE sessions # <<>>
    <3>1. PICK e \in registered : sessions = <<[employee |-> e, invalidated |-> FALSE]>>
      BY <1>1, <2>5
    <3>2. PICK row \in SessionRows : row = [employee |-> e, invalidated |-> FALSE]
      BY <2>1
    <3>3. sessions = <<row>>
      BY <3>1, <3>2
    <3> QED
      BY <2>2, <3>3
  <2> QED
    BY <2>4, <2>5
<1>3. cookie \in 0 .. Len(sessions)
  <2>1. Len(sessions) \in Nat
    BY <1>2
  <2> QED
    BY <1>1, <2>1
<1>4. requests \in Seq(Asks) /\ DOMAIN requests = {}
  BY <1>1
<1>5. OutInv
  BY <1>1, <1>2, <1>3, <1>4 DEF OutInv, WorkerTypes, OutIsInvalidated, RequestsAreRight
<1>6. TabTypes
  BY <1>1 DEF TabTypes
<1>7. ASSUME NEW u \in Tabs
      PROVE  TabIsOrderly(u)
  BY <1>1, <1>4 DEF TabIsOrderly
<1> QED
  BY <1>5, <1>6, <1>7 DEF SessionsInv, TabsInv

LEMMA SessionsNext == SessionsInv /\ [S!Next]_of_sessions => SessionsInv'
<1> SUFFICES ASSUME SessionsInv, [S!Next]_of_sessions
             PROVE  SessionsInv'
  OBVIOUS
<1>0. OutInv /\ cookie \in 0 .. Len(sessions) /\ 0 \in 0 .. Len(sessions)
  BY CookieFacts DEF SessionsInv
<1>1. CASE UNCHANGED of_sessions
  <2>1. \A u \in Tabs : RequestsGoOn(u)
    BY <1>1, Zenon DEF of_sessions, RequestsGoOn, LogsIn, FindsSession, NoneInvalidated
  <2>2. UNCHANGED S!of_tabs
    BY <1>1 DEF of_sessions, S!of_tabs
  <2>3. OutInv'
    BY <1>0, <1>1 DEF of_sessions, OutInv, WorkerTypes, OutIsInvalidated, RequestsAreRight
  <2> QED
    BY <2>1, <2>2, <2>3, FixedTabs DEF SessionsInv
<1>2. ASSUME NEW t \in Tabs, NEW to \in {"login", "app"}, S!Load(t, to)
      PROVE  SessionsInv'
  <2>1. S!Loaded(t, to, cookie) /\ UNCHANGED <<sessions, out>>
    BY <1>2 DEF S!Load, S!of_worker
  <2> QED
    BY <1>0, <2>1, LoadedKeeps
<1>3. ASSUME NEW t \in Tabs, NEW r \in resolving[t],
             S!Redirect(t, r) \/ S!Enter(t, r) \/ S!ChildFails(t, r)
      PROVE  SessionsInv'
  BY <1>3, RedirectKeeps, EnterKeeps
<1>4. ASSUME NEW t \in Tabs, NEW who \in Employees, NEW right \in BOOLEAN, S!Submit(t, who, right)
      PROVE  SessionsInv'
  BY <1>4, SubmitKeeps
<1>5. ASSUME NEW t \in Tabs, S!Call(t) \/ S!ClickLogOut(t)
      PROVE  SessionsInv'
  <2>1. PICK kind \in {"call", "log out"} : S!Ask(t, kind, None, FALSE)
    BY <1>5, Zenon DEF S!Call, S!ClickLogOut
  <2>2. UNCHANGED <<sessions, cookie, out, S!of_tabs>>
    BY <1>5, Zenon DEF S!Call, S!ClickLogOut, S!of_worker
  <2>3. t \in Tabs \cup {None} /\ kind \in {"call", "create company", "log out"} /\ None \in People
        /\ FALSE \in BOOLEAN /\ kind # "create company" /\ t # None
    BY NoTabIsNone, Zenon DEF People
  <2> QED
    BY <2>1, <2>2, <2>3, AskingKeeps, Zenon
<1>6. ASSUME NEW who \in Founders, S!AskForACompany(who)
      PROVE  SessionsInv'
  <2>1. S!Ask(None, "create company", who, TRUE) /\ UNCHANGED <<sessions, cookie, out, S!of_tabs>>
    BY <1>6, Zenon DEF S!AskForACompany, S!of_worker
  <2>2. None \in Tabs \cup {None} /\ who \in People /\ TRUE \in BOOLEAN /\ who \in Employees
    BY PagesAssumption DEF People, S!SessionsAssumption
  <2> QED
    BY <2>1, <2>2, AskingKeeps, Zenon
<1>7. ASSUME NEW n \in DOMAIN requests,
             S!ReadSession(n) \/ S!CallFunction(n) \/ S!CreateCompany(n)
             \/ S!CheckPassword(n) \/ S!InsertSession(n) \/ S!LogOut(n)
      PROVE  SessionsInv'
  <2>1. TabsInv'
    BY <1>0, <1>7, WorkerKeepsTabs DEF SessionsInv
  <2>2. OutInv'
    BY <1>0, <1>7, ReadingKeepsOut, CheckingKeepsOut, InsertingKeepsOut, LoggingOutKeepsOut
  <2> QED
    BY <2>1, <2>2 DEF SessionsInv
<1>8. ASSUME NEW n \in DOMAIN requests,
             S!SessionAnswer(n) \/ S!CallAnswer(n) \/ S!LogInAnswer(n) \/ S!Refused(n) \/ S!FounderAnswer(n) \/ S!Break(n)
      PROVE  SessionsInv'
  BY <1>8, SimpleAnswersKeep, LogInAnswerKeeps, RefusedKeeps, BreakKeeps
<1>9. ASSUME NEW n \in DOMAIN requests, S!LogOutAnswer(n)
      PROVE  SessionsInv'
  <2>1. PICK t \in Tabs \cup {None} : t = requests[n].tab
    BY <1>0, RequestFacts, Zenon DEF Asks
  <2>2. S!Loaded(t, "app", 0) /\ UNCHANGED <<sessions, out>>
    BY <1>9, <2>1, Zenon DEF S!LogOutAnswer, S!of_worker
  <2>3. CASE t \in Tabs
    BY <1>0, <2>2, <2>3, LoadedKeeps
  <2>4. requests[n].tab # None
    BY <1>0, <1>9, RequestFacts, Zenon DEF IsRight, S!LogOutAnswer, S!Got
  <2> QED
    BY <2>1, <2>3, <2>4
<1>10. CASE S!Next
  BY <1>2, <1>3, <1>4, <1>5, <1>6, <1>7, <1>8, <1>9, <1>10, Zenon DEF S!Next
<1> QED
  BY <1>1, <1>10

\* Once a session was logged out, no call that still carries it, from whichever tab, runs for its
\* employee (log_out.ts, validate_session.ts).
THEOREM LogOutsHold == MCSpec => []LoggedOutIsOut
<1>1. MCInit => SessionsInv
  BY SessionsInit DEF MCInit
<1>2. SessionsInv /\ [MCNext]_<<of_pages, of_others, side>> => SessionsInv'
  <2>1. [MCNext]_<<of_pages, of_others, side>> => [S!Next]_of_sessions
    BY DEF MCNext, OtherNext, of_others
  <2> QED
    BY <2>1, SessionsNext
<1>3. SessionsInv => LoggedOutIsOut
  BY Zenon DEF SessionsInv, OutInv, RequestsAreRight, IsRight, LoggedOutIsOut, S!LoggedOutIsOut
<1> QED
  BY <1>1, <1>2, <1>3, PTL DEF MCSpec

\* A log in that was sent once and succeeded opens the app, whatever the tab knew of the session
\* before: when nothing is under way, nothing failed and nobody logged out, the app is shown
\* (Login.State.svelte, session.ts).
THEOREM LogInsOpenTheApp == MCSpec => []LoggingInOpensTheApp
<1>1. MCInit => SessionsInv
  BY SessionsInit DEF MCInit
<1>2. SessionsInv /\ [MCNext]_<<of_pages, of_others, side>> => SessionsInv'
  <2>1. [MCNext]_<<of_pages, of_others, side>> => [S!Next]_of_sessions
    BY DEF MCNext, OtherNext, of_others
  <2> QED
    BY <2>1, SessionsNext
<1>3. SessionsInv => LoggingInOpensTheApp
  <2> SUFFICES ASSUME SessionsInv, NEW t \in Tabs, result[t] = "success", submits[t] = 1, resolving[t] = {},
                      ~trouble[t], NoneInvalidated
               PROVE  tab_page[t] = "app"
    BY DEF LoggingInOpensTheApp, S!LoggingInOpensTheApp, S!Quiet, NoneInvalidated
  <2>1. OpensTheApp(t)
    BY DEF SessionsInv, TabsInv, TabIsOrderly
  <2> QED
    BY <2>1 DEF OpensTheApp
<1> QED
  BY <1>1, <1>2, <1>3, PTL DEF MCSpec

-----------------------------------------------------------------------------
(* The fields for numbers and dates.                                       *)

\* A field holds what it accepts, and the text of a field that nobody is in is that of its value.
FieldInv ==
    /\ field \in NumberFields /\ focused \in BOOLEAN
    /\ value \in F!Held(field)
    /\ text \in Numbers \cup {None}
    /\ ~focused => text = value

LEMMA LeftEmptyIsHeld ==
  ASSUME NEW f \in NumberFields
  PROVE  F!WhenLeftEmpty(f) \in F!Held(f)
<1>1. Numbers \subseteq Int
  BY PagesAssumption DEF F!FieldAssumption
<1>2. CASE f.nullable
  BY <1>2 DEF F!WhenLeftEmpty, F!Held
<1>3. CASE ~f.nullable /\ f.kind = "integer"
  <2>1. f.min \in Numbers /\ f.min % 2 = 0
    BY <1>3, PagesAssumption DEF F!FieldAssumption
  <2>2. f.min >= f.min
    <3>1. f.min \in Int
      BY <1>1, <2>1
    <3>2. PICK least \in Int : least = f.min
      BY <3>1
    <3> QED
      BY <3>2
  <2> QED
    BY <1>3, <2>1, <2>2 DEF F!WhenLeftEmpty, F!Held, F!Acceptable, F!Step
<1>4. CASE ~f.nullable /\ f.kind # "integer"
  <2>1. 0 \in Numbers /\ 0 >= f.min
    BY <1>4, PagesAssumption DEF F!FieldAssumption
  <2>2. 0 % 2 = 0
    OBVIOUS
  <2> QED
    BY <1>4, <2>1, <2>2 DEF F!WhenLeftEmpty, F!Held, F!Acceptable, F!Step
<1> QED
  BY <1>2, <1>3, <1>4

LEMMA FieldNext == FieldInv /\ [F!Next]_of_field => FieldInv'
<1> SUFFICES ASSUME FieldInv, [F!Next]_of_field
             PROVE  FieldInv'
  OBVIOUS
<1>0. F!Held(field) \subseteq Numbers \cup {None}
  BY DEF F!Held
<1>1. CASE UNCHANGED of_field
  BY <1>1 DEF of_field, FieldInv, F!Held
<1>2. CASE F!Focus
  BY <1>2 DEF F!Focus, FieldInv, F!Held
<1>3. CASE F!Blur
  <2>1. value' = (IF text = None THEN F!WhenLeftEmpty(field) ELSE value) /\ text' = value' /\ focused' = FALSE /\ field' = field
    BY <1>3 DEF F!Blur, F!BlurredText, F!Shown
  <2>2. value' \in F!Held(field)
    BY <2>1, LeftEmptyIsHeld DEF FieldInv
  <2> QED
    BY <1>0, <2>1, <2>2 DEF FieldInv
<1>4. ASSUME NEW t \in Numbers \cup {None}, F!Type(t)
      PROVE  FieldInv'
  <2>1. focused /\ text' = t /\ UNCHANGED <<field, focused>>
        /\ value' = IF t = None THEN IF field.nullable THEN None ELSE value
                    ELSE IF F!Acceptable(field, t) THEN t ELSE value
    BY <1>4 DEF F!Type
  <2>2. value' \in F!Held(field)
    BY <2>1 DEF FieldInv, F!Held
  <2> QED
    BY <2>1, <2>2 DEF FieldInv
<1>5. ASSUME NEW v \in F!Held(field), F!OwnerSets(v)
      PROVE  FieldInv'
  BY <1>0, <1>5 DEF F!OwnerSets, F!Shown, FieldInv
<1> QED
  BY <1>1, <1>2, <1>3, <1>4, <1>5 DEF F!Next

(* The range of dates.                                                     *)

DateInv ==
    /\ start \in Dates /\ end \in Dates /\ D!date_lte(start, end)
    /\ down \in [{"start", "end"} -> Dates \cup {None}]
    /\ mouseover \in Dates \cup {None}
    /\ visible \in [{"start", "end"} -> DOMAIN MonthLength]

LEMMA DatesAreOrdered ==
  ASSUME NEW a \in Dates, NEW b \in Dates
  PROVE  /\ D!date_gt(a, b) => D!date_lte(b, a)
         /\ D!date_lte(a, b) \/ D!date_lte(b, a)
         /\ D!date_lte(a, a)
<1>1. a \in [year : Int, month : Int, day : Int] /\ b \in [year : Int, month : Int, day : Int]
  BY PagesAssumption DEF D!RangeAssumption
<1>2. a.year \in Int /\ a.month \in Int /\ a.day \in Int /\ b.year \in Int /\ b.month \in Int /\ b.day \in Int
  BY <1>1
<1> QED
  BY <1>2 DEF D!date_gt, D!date_lte

\* Two dates in their order.
LEMMA RangesAreOrdered ==
  ASSUME NEW a \in Dates, NEW b \in Dates
  PROVE  /\ D!dates_as_range(a, b)[1] \in Dates /\ D!dates_as_range(a, b)[2] \in Dates
         /\ D!date_lte(D!dates_as_range(a, b)[1], D!dates_as_range(a, b)[2])
BY DatesAreOrdered DEF D!dates_as_range

LEMMA DisplayIsOrdered ==
  ASSUME DateInv
  PROVE  /\ D!display_range[1] \in Dates /\ D!display_range[2] \in Dates
         /\ D!date_lte(D!display_range[1], D!display_range[2])
<1>1. /\ down["start"] \in Dates \cup {None} /\ down["end"] \in Dates \cup {None}
      /\ start \in Dates /\ end \in Dates /\ mouseover \in Dates \cup {None}
  BY DEF DateInv
<1>2. \A date, than \in Dates : D!Other(date, than) \in Dates
  BY <1>1 DEF D!Other
<1>3. PICK a \in Dates, b \in Dates : D!display_range = D!dates_as_range(a, b)
  BY <1>1, <1>2 DEF D!display_range
<1> QED
  BY <1>3, RangesAreOrdered

LEMMA ClicksAreOrdered ==
  ASSUME DateInv, NEW s \in {"start", "end"}, NEW date \in Dates
  PROVE  LET picked_range == D!EndsAfterClick(s, date)
         IN  picked_range[1] \in Dates /\ picked_range[2] \in Dates /\ D!date_lte(picked_range[1], picked_range[2])
<1>1. start \in Dates /\ end \in Dates
  BY DEF DateInv
<1>2. CASE s = "start"
  BY <1>1, <1>2, DatesAreOrdered DEF D!EndsAfterClick, D!date_lte
<1>3. CASE s = "end"
  BY <1>1, <1>3, DatesAreOrdered DEF D!EndsAfterClick, D!date_lt, D!dates_match
<1> QED
  BY <1>2, <1>3

LEMMA DateNext == DateInv /\ [D!Next]_of_dates => DateInv'
<1> SUFFICES ASSUME DateInv, [D!Next]_of_dates
             PROVE  DateInv'
  OBVIOUS
<1>0. D!MouseIsUp \in [{"start", "end"} -> Dates \cup {None}]
  BY DEF D!MouseIsUp, D!Sides
<1>1. CASE UNCHANGED of_dates
  BY <1>1 DEF of_dates, DateInv, D!date_lte, D!date_gt
<1>2. ASSUME NEW s \in {"start", "end"}, NEW date \in Dates, D!MouseDown(s, date) \/ D!MouseEnter(s, date)
      PROVE  DateInv'
  <2>1. UNCHANGED <<start, end, visible>> /\ mouseover' = date /\ (down' = down \/ down' = [down EXCEPT ![s] = date])
    BY <1>2 DEF D!MouseDown, D!MouseEnter
  <2> QED
    BY <2>1 DEF DateInv, D!date_lte, D!date_gt
<1>3. ASSUME NEW s \in {"start", "end"}, NEW date \in Dates, D!MouseUp(s, date)
      PROVE  DateInv'
  <2>1. UNCHANGED <<mouseover, visible>> /\ down' = D!MouseIsUp
    BY <1>3 DEF D!MouseUp
  <2>2. PICK range \in {D!display_range, D!EndsAfterClick(s, date), <<start, end>>} : D!Select(range)
    BY <1>3 DEF D!MouseUp
  <2>3. range[1] \in Dates /\ range[2] \in Dates /\ D!date_lte(range[1], range[2])
    BY <2>2, DisplayIsOrdered, ClicksAreOrdered DEF DateInv
  <2>4. start' = range[1] /\ end' = range[2]
    BY <2>2 DEF D!Select
  <2> QED
    BY <1>0, <2>1, <2>3, <2>4 DEF DateInv, D!date_lte, D!date_gt
<1>4. ASSUME NEW s \in {"start", "end"}, NEW date \in Dates, D!PressKey(s, date)
      PROVE  DateInv'
  <2>1. UNCHANGED <<mouseover, visible>> /\ down' = D!MouseIsUp
        /\ start' = D!EndsAfterClick(s, date)[1] /\ end' = D!EndsAfterClick(s, date)[2]
    BY <1>4 DEF D!PressKey, D!Select
  <2>2. PICK range : range = D!EndsAfterClick(s, date)
    OBVIOUS
  <2>3. range[1] \in Dates /\ range[2] \in Dates /\ D!date_lte(range[1], range[2])
    BY <2>2, ClicksAreOrdered
  <2> QED
    BY <1>0, <2>1, <2>2, <2>3 DEF DateInv, D!date_lte, D!date_gt
<1>5. CASE D!MouseUpElsewhere
  BY <1>0, <1>5 DEF D!MouseUpElsewhere, DateInv, D!date_lte, D!date_gt
<1>6. ASSUME NEW s \in {"start", "end"}, NEW increment \in {-1, 1}, D!SwitchMonth(s, increment)
      PROVE  DateInv'
  BY <1>6 DEF D!SwitchMonth, D!Months, DateInv, D!date_lte, D!date_gt
<1> QED
  BY <1>1, <1>2, <1>3, <1>4, <1>5, <1>6 DEF D!Next, D!Sides

LEMMA DateInit == D!Init => DateInv
<1> SUFFICES ASSUME D!Init
             PROVE  DateInv
  OBVIOUS
<1>1. \A date \in Dates : D!MonthOf(date) \in DOMAIN MonthLength
  BY PagesAssumption, Zenon DEF D!RangeAssumption, D!MonthOf
<1>2. visible \in [{"start", "end"} -> DOMAIN MonthLength]
  BY <1>1 DEF D!Init, D!Sides
<1> QED
  BY <1>2 DEF D!Init, D!MouseIsUp, D!Sides, DateInv

LEMMA OneWeekday ==
  ASSUME NEW i \in Int, NEW k \in Int, NEW j \in 0 .. 6, NEW l \in 0 .. 6, i * 7 + j = k * 7 + l
  PROVE  i = k /\ j = l
OBVIOUS

\* Every day of a month has one cell, under its weekday.
LEMMA CellsHaveTheirDays ==
  ASSUME NEW month \in DOMAIN MonthLength, NEW day \in 1 .. MonthLength[month]
  PROVE  {c \in D!Cells(month) : D!Cell(month, c[1], c[2]) = day}
           = {<<(FirstWeekday[month] + day - 1) \div 7, (FirstWeekday[month] + day - 1) % 7>>}
<1> DEFINE length == MonthLength[month]
           first == FirstWeekday[month]
           week == (first + day - 1) \div 7
           weekday == (first + day - 1) % 7
<1>1. length \in Nat /\ first \in 0 .. 6
  BY PagesAssumption DEF D!RangeAssumption
<1>2. day \in Nat /\ day >= 1 /\ day <= length
  BY <1>1
<1> HIDE DEF length, first
<1>3. week \in Nat /\ weekday \in 0 .. 6 /\ week * 7 + weekday = first + day - 1
  BY <1>1, <1>2
<1>4. week <= (length + first + 6) \div 7 - 1
  BY <1>1, <1>2
<1>5. <<week, weekday>> \in D!Cells(month)
  <2>1. week \in 0 .. D!Weeks(month) - 1
    BY <1>1, <1>3, <1>4 DEF D!Weeks, length, first
  <2> QED
    BY <1>3, <2>1 DEF D!Cells
<1>6. D!Cell(month, week, weekday) = day
  <2>1. week * 7 + weekday - first + 1 = day
    BY <1>1, <1>2, <1>3
  <2> HIDE DEF week, weekday
  <2> QED
    BY <1>2, <2>1 DEF D!Cell, length, first
<1>7. ASSUME NEW c \in D!Cells(month), D!Cell(month, c[1], c[2]) = day
      PROVE  c = <<week, weekday>>
  <2>1. c[1] \in Int /\ c[2] \in 0 .. 6 /\ c = <<c[1], c[2]>>
    BY <1>1 DEF D!Cells, D!Weeks, length, first
  <2>2. c[1] * 7 + c[2] - first + 1 = day
    BY <1>2, <1>7 DEF D!Cell, length, first
  <2>3. PICK i \in Int, j \in 0 .. 6 : c = <<i, j>> /\ i * 7 + j = first + day - 1
    <3>1. c[1] * 7 + c[2] = first + day - 1
      BY <1>1, <1>2, <2>1, <2>2
    <3> QED
      BY <2>1, <3>1
  <2> HIDE DEF week, weekday
  <2>4. i = week /\ j = weekday
    BY <1>3, <2>3, OneWeekday
  <2> QED
    BY <2>3, <2>4
<1> QED
  BY <1>5, <1>6, <1>7 DEF first

\* A field that the user is not in shows the value that the form holds, and that is one which the field
\* accepts; and a range of dates never ends before it starts, and every month that is shown has each of
\* its days once, under its weekday (IntegerInput.svelte, NumberInput.svelte, DateRangeInput.svelte).
THEOREM FieldsHold == MCSpec => []FieldsShowTheirValues
<1> DEFINE InputsInv == (side = "field" => FieldInv) /\ (side = "dates" => DateInv)
<1>1. MCInit => InputsInv
  <2>1. ASSUME F!Init
        PROVE  FieldInv
    BY <2>1 DEF F!Init, FieldInv, F!Shown, F!Held
  <2> QED
    BY <2>1, DateInit DEF MCInit
<1>2. InputsInv /\ [MCNext]_<<of_pages, of_others, side>> => InputsInv'
  <2>1. [MCNext]_<<of_pages, of_others, side>> => UNCHANGED side /\ [F!Next]_of_field /\ [D!Next]_of_dates
    BY DEF MCNext, OtherNext, of_others, of_inputs
  <2> QED
    BY <2>1, FieldNext, DateNext
<1>3. InputsInv => FieldsShowTheirValues
  <2>1. FieldInv => F!FieldShowsItsValue
    BY DEF FieldInv, F!FieldShowsItsValue, F!Shown
  <2>2. DateInv => D!RangeIsOrdered
    <3> SUFFICES ASSUME DateInv
                 PROVE  D!RangeIsOrdered
      OBVIOUS
    <3>1. \A s \in {"start", "end"} : visible[s] \in DOMAIN MonthLength
      BY DEF DateInv
    <3> QED
      BY <3>1, DisplayIsOrdered, CellsHaveTheirDays, Zenon DEF D!RangeIsOrdered, D!Sides, DateInv
  <2> QED
    BY <2>1, <2>2 DEF FieldsShowTheirValues
<1> QED
  BY <1>1, <1>2, <1>3, PTL DEF MCSpec

(* The options of a dropdown.                                              *)

\* The active option is one of the options, whatever the text that is shown or put aside.
DropdownInv ==
    /\ data \in Datas /\ search_text \in Words /\ saved_search_text \in Words
    /\ O!ActiveIsAnOption

LEMMA OptionsAreAList ==
  ASSUME NEW list \in Datas, NEW word
  PROVE  /\ Len(O!Options(list, word)) \in Nat
         /\ DOMAIN O!Options(list, word) = 1 .. Len(O!Options(list, word))
<1>1. PICK Listed : list \in Seq(Listed)
  BY PagesAssumption DEF O!DropdownAssumption
<1>2. PICK Found : O!Matched(list, word) \in Seq(Found)
  <2> DEFINE kept == {i \in DOMAIN list : <<list[i], word>> \in Includes}
             Place(n) == CHOOSE i \in kept : Cardinality({j \in kept : j <= i}) = n
  <2>1. O!Matched(list, word) = [n \in 1 .. Cardinality(kept) |-> list[Place(n)]]
    BY Zenon DEF O!Matched, O!Cardinality, Cardinality
  <2>2. Cardinality(kept) \in Nat
    <3>1. IsFiniteSet(DOMAIN list)
      BY <1>1, FS_Interval
    <3>2. kept \subseteq DOMAIN list
      OBVIOUS
    <3> QED
      BY <3>1, <3>2, FS_Subset, FS_CardinalityType
  <2> HIDE DEF kept, Place
  <2>3. O!Matched(list, word) \in Seq({list[Place(n)] : n \in 1 .. Cardinality(kept)})
    BY <2>1, <2>2
  <2> QED
    BY <2>3
<1>3. PICK more : more \in {<<>>, <<[add |-> word]>>}
        /\ O!Options(list, word) = IF word = None THEN list ELSE O!Matched(list, word) \o more
  BY DEF O!Options
<1>4. PICK Both : list \in Seq(Both) /\ O!Matched(list, word) \in Seq(Both) /\ more \in Seq(Both)
  <2> DEFINE Both == Listed \cup Found \cup {[add |-> word]}
  <2>1. list \in Seq(Both) /\ O!Matched(list, word) \in Seq(Both)
    BY <1>1, <1>2
  <2>2. more \in Seq(Both)
    <3>1. [add |-> word] \in Both
      OBVIOUS
    <3> HIDE DEF Both
    <3>2. CASE more = <<>>
      BY <3>2
    <3>3. CASE more = <<[add |-> word]>>
      <4>1. PICK one \in Both : one = [add |-> word]
        BY <3>1
      <4>2. more = <<one>>
        BY <3>3, <4>1
      <4> QED
        BY <4>2
    <3> QED
      BY <1>3, <3>2, <3>3
  <2> QED
    BY <2>1, <2>2
<1>5. O!Options(list, word) \in Seq(Both)
  BY <1>3, <1>4
<1> QED
  BY <1>5

\* The first of the options that were derived anew is the active one.
LEMMA TopIsAnOption ==
  ASSUME NEW list \in Datas, NEW word
  PROVE  IF Len(O!Options(list, word)) = 0 THEN O!ActiveAfter(O!Options(list, word)) = None
         ELSE /\ O!ActiveAfter(O!Options(list, word)) # None
              /\ O!ActiveAfter(O!Options(list, word)) \in DOMAIN O!Options(list, word)
<1>1. None # 1
  BY PagesAssumption DEF O!DropdownAssumption
<1> QED
  BY <1>1, OptionsAreAList DEF O!ActiveAfter, O!TopOf

LEMMA SameOptions ==
  ASSUME UNCHANGED <<keeps, data, search_text>>
  PROVE  O!options' = O!options
BY DEF O!options, O!Options, O!Matched

LEMMA ActiveStays ==
  ASSUME DropdownInv, UNCHANGED <<keeps, data, search_text, saved_search_text, active_option_index>>
  PROVE  DropdownInv'
<1>1. O!options' = O!options
  BY SameOptions
<1> QED
  BY <1>1, Zenon DEF DropdownInv, O!ActiveIsAnOption

LEMMA ActiveFollowsTheList ==
  ASSUME DropdownInv, O!ActiveFollows, keeps' = keeps, data' \in Datas, search_text' \in Words, saved_search_text' \in Words
  PROVE  DropdownInv'
<1>1. CASE data' = data /\ search_text' = search_text
  <2>1. UNCHANGED <<keeps, data, search_text, active_option_index>> /\ saved_search_text' \in Words
    BY <1>1 DEF O!ActiveFollows
  <2>2. O!options' = O!options
    BY <2>1, SameOptions
  <2>3. O!ActiveIsAnOption'
    BY <2>1, <2>2, Zenon DEF DropdownInv, O!ActiveIsAnOption
  <2> QED
    BY <2>1, <2>3 DEF DropdownInv
<1>2. CASE data' # data \/ search_text' # search_text
  <2>1. active_option_index' = O!ActiveAfter(O!Options(data', search_text'))
    BY <1>2 DEF O!ActiveFollows
  <2>2. O!options' = O!Options(data', search_text')
    BY DEF O!options, O!Options, O!Matched
  <2>3. O!ActiveIsAnOption'
    BY <2>1, <2>2, TopIsAnOption DEF O!ActiveIsAnOption
  <2> QED
    BY <2>3 DEF DropdownInv
<1> QED
  BY <1>1, <1>2

LEMMA DropdownNext == DropdownInv /\ [O!Next]_of_dropdown => DropdownInv'
<1> SUFFICES ASSUME DropdownInv, [O!Next]_of_dropdown
             PROVE  DropdownInv'
  OBVIOUS
<1>0. data \in Datas /\ search_text \in Words /\ saved_search_text \in Words /\ None \in Words
  BY PagesAssumption DEF DropdownInv, O!DropdownAssumption
<1>1. CASE UNCHANGED of_dropdown
  BY <1>1, ActiveStays DEF of_dropdown
<1>2. ASSUME NEW word \in Words, NEW backspace \in BOOLEAN, O!Type(word, backspace)
      PROVE  DropdownInv'
  <2>1. O!ActiveFollows /\ keeps' = keeps /\ data' = data /\ search_text' = word /\ saved_search_text' = saved_search_text
    BY <1>2 DEF O!Type, O!keyboard
  <2> QED
    BY <1>0, <2>1, ActiveFollowsTheList
<1>3. ASSUME NEW by \in {-1, 1}, O!Move(by)
      PROVE  DropdownInv'
  <2>1. UNCHANGED <<keeps, data, search_text, saved_search_text>> /\ Len(O!options) > 0
        /\ active_option_index' =
             IF by > 0 THEN IF active_option_index < Len(O!options) THEN active_option_index + 1 ELSE Len(O!options)
             ELSE IF active_option_index > 1 THEN active_option_index - 1 ELSE 1
    BY <1>3 DEF O!Move, O!keyboard, O!Visible
  <2>2. PICK k \in Nat : k = Len(O!options) /\ DOMAIN O!options = 1 .. k
    BY <1>0, OptionsAreAList DEF O!options
  <2>3. active_option_index \in 1 .. k
    BY <2>1, <2>2 DEF DropdownInv, O!ActiveIsAnOption
  <2>4. active_option_index' \in 1 .. k
    BY <2>1, <2>2, <2>3
  <2>5. active_option_index' # None
    BY <2>4, PagesAssumption DEF O!DropdownAssumption
  <2>6. O!options' = O!options
    BY <2>1, SameOptions
  <2> HIDE DEF O!options
  <2> QED
    BY <1>0, <2>1, <2>2, <2>4, <2>5, <2>6 DEF DropdownInv, O!ActiveIsAnOption
<1>4. CASE O!Enter \/ O!Escape
  <2>1. O!ActiveFollows /\ keeps' = keeps /\ data' = data /\ search_text' = None /\ saved_search_text' = saved_search_text
    BY <1>4 DEF O!Enter, O!Escape, O!SetItem, O!keyboard
  <2> QED
    BY <1>0, <2>1, ActiveFollowsTheList
<1>5. CASE O!Focus \/ O!Blur
  <2>1. O!ActiveFollows /\ keeps' = keeps /\ data' = data /\ search_text' \in Words /\ saved_search_text' \in Words
    BY <1>0, <1>5 DEF O!Focus, O!Focused, O!FocusedText, O!Blur
  <2> QED
    BY <2>1, <1>0, ActiveFollowsTheList
<1>6. CASE O!CloseList \/ O!LoseItem
  BY <1>6, ActiveStays DEF O!CloseList, O!LoseItem, O!keyboard
<1>7. ASSUME NEW index \in 1 .. 4, O!Press(index)
      PROVE  DropdownInv'
  <2>1. UNCHANGED <<keeps, data, search_text, saved_search_text>> /\ active_option_index' = index /\ index \in DOMAIN O!options
        /\ Len(O!options) > 0
    BY <1>7 DEF O!Press, O!Visible
  <2>2. index # None
    BY PagesAssumption DEF O!DropdownAssumption
  <2>3. O!options' = O!options
    BY <2>1, SameOptions
  <2> HIDE DEF O!options
  <2> QED
    BY <1>0, <2>1, <2>2, <2>3 DEF DropdownInv, O!ActiveIsAnOption
<1>8. CASE O!Click
  <2>1. O!ActiveFollows /\ keeps' = keeps /\ data' = data /\ search_text' \in Words /\ saved_search_text' \in Words
    BY <1>0, <1>8 DEF O!Click, O!Focused, O!SetItem
  <2> QED
    BY <1>0, <2>1, ActiveFollowsTheList
<1>9. ASSUME NEW list \in Datas, O!Refresh(list)
      PROVE  DropdownInv'
  <2>1. O!ActiveFollows /\ keeps' = keeps /\ data' = list /\ search_text' = search_text /\ saved_search_text' = saved_search_text
    BY <1>9 DEF O!Refresh
  <2> QED
    BY <1>0, <2>1, ActiveFollowsTheList
<1> QED
  BY <1>1, <1>2, <1>3, <1>4, <1>5, <1>6, <1>7, <1>8, <1>9 DEF O!Next

LEMMA DropdownInit == O!Init => DropdownInv
<1> SUFFICES ASSUME O!Init
             PROVE  DropdownInv
  OBVIOUS
<1>1. data \in Datas /\ search_text = None /\ saved_search_text = None /\ None \in Words
      /\ active_option_index = O!TopOf(data)
  BY PagesAssumption DEF O!Init, O!DropdownAssumption
<1>2. O!options = data
  BY <1>1 DEF O!options, O!Options
<1>3. O!ActiveIsAnOption
  <2>1. O!Options(data, None) = data
    BY DEF O!Options
  <2> QED
    BY <1>1, <1>2, <2>1, TopIsAnOption DEF O!ActiveIsAnOption, O!ActiveAfter
<1> QED
  BY <1>1, <1>3 DEF DropdownInv

\* A click is on the option that was pressed.
LEMMA ClickPicksThePressed ==
  ASSUME [O!Next]_of_dropdown
  PROVE  pressed_item # None /\ pressed_item' = None /\ O!FocusedText = search_text
         => /\ picked' \in {pressed_item, picked}
            /\ O!Visible /\ (\E i \in DOMAIN O!options : O!options[i] = pressed_item) => picked' = pressed_item
<1> SUFFICES ASSUME pressed_item # None, pressed_item' = None, O!FocusedText = search_text
             PROVE  /\ picked' \in {pressed_item, picked}
                    /\ O!Visible /\ (\E i \in DOMAIN O!options : O!options[i] = pressed_item) => picked' = pressed_item
  OBVIOUS
<1>1. O!Click
  BY DEF O!Next, of_dropdown, O!Type, O!Move, O!Enter, O!Escape, O!Focus, O!Blur, O!CloseList, O!LoseItem, O!Press,
         O!Refresh, O!keyboard
<1>2. CASE O!Visible /\ \E i \in DOMAIN O!options : O!options[i] = pressed_item
  <2>1. picked' = IF O!PlaceOfThePressed \in DOMAIN O!options THEN O!options[O!PlaceOfThePressed] ELSE None
    BY <1>1, <1>2, Zenon DEF O!Click, O!SetItem, O!options
  <2>2. O!PlaceOfThePressed \in DOMAIN O!options /\ O!options[O!PlaceOfThePressed] = pressed_item
    BY <1>2, Zenon DEF O!PlaceOfThePressed
  <2> QED
    BY <2>1, <2>2
<1>3. CASE ~(O!Visible /\ \E i \in DOMAIN O!options : O!options[i] = pressed_item)
  <2>1. picked' = picked
    BY <1>1, <1>3, Zenon DEF O!Click
  <2> QED
    BY <1>3, <2>1
<1> QED
  BY <1>2, <1>3

\* The active option is one of the options that are there now, however often the text and the data
\* changed, and a click picks the option that the mouse went down on (DropdownSearchInput.svelte,
\* Dropdown.svelte).
THEOREM OptionsHold == MCSpec => OptionsArePickedAsShown
<1> DEFINE ListInv1 == side = "dropdown" => DropdownInv
<1>1. MCInit => ListInv1
  BY DropdownInit DEF MCInit
<1>2. [MCNext]_<<of_pages, of_others, side>> => UNCHANGED side /\ [O!Next]_of_dropdown
  BY DEF MCNext, OtherNext, of_others, of_inputs
<1>3. ListInv1 /\ [MCNext]_<<of_pages, of_others, side>> => ListInv1'
  BY <1>2, DropdownNext
<1>4. ListInv1 => (side = "dropdown" => O!ActiveIsAnOption)
  BY DEF DropdownInv
<1>5. [MCNext]_<<of_pages, of_others, side>>
      => [pressed_item # None /\ pressed_item' = None /\ O!FocusedText = search_text
          => /\ picked' \in {pressed_item, picked}
             /\ O!Visible /\ (\E i \in DOMAIN O!options : O!options[i] = pressed_item) => picked' = pressed_item]_O!vars
  BY <1>2, ClickPicksThePressed
<1> QED
  BY <1>1, <1>3, <1>4, <1>5, PTL DEF MCSpec, OptionsArePickedAsShown, O!PickedIsThePressed
=============================================================================
