--------------------------- MODULE LineItemExport ---------------------------
(***************************************************************************)
(* The exports that ask ArboStar for one record at a time                  *)
(* (scripts/arbostar/export_line_items.ts): several runners fetch the       *)
(* estimate profiles of the leads of estimates.js, a few others the lead    *)
(* profiles of the leads that have no estimate, while ArboStar's users go   *)
(* on working.  A fetch that fails leaves its lead out.                    *)
(***************************************************************************)
EXTENDS Naturals, Sequences, FiniteSets, SequencesExt

CONSTANTS
    Leads,       \* the leads of estimates.js and the others of leads.js: [estimates, others],
                 \* two sequences without repetitions
    Estimates,   \* for each lead, the contents that its estimate may have: [groups, items],
                 \* either of which may be None
    Runners,     \* [estimates, others], the runners of each pass
    Verified,    \* whether the lead profile endpoint may be used
    MaxEdits,    \* bound on what the users do
    None

VARIABLES
    estimate, seen,  \* of each lead, its contents or None, and all that it had during the run
    edits,
    next,        \* for each pass, the next lead that no runner has claimed
    runner,      \* for each pass and runner, the lead and the answer that is on its way
    result,      \* for each pass and lead, None, or its answer
    first,       \* the lead whose profile came first
    state,       \* "running", "finished" or "failed"
    line_items, lead_notes, lead_profiles, codebooks  \* the files, or None

vars == <<estimate, seen, edits, next, runner, result, first, state, line_items, lead_notes, lead_profiles, codebooks>>
written == <<line_items, lead_notes, lead_profiles, codebooks>>

Passes == {"estimates", "others"}
\* Leads without an estimate are only asked for once their endpoint is known not to write.
List(pass) == IF pass = "others" /\ ~Verified THEN <<>> ELSE Leads[pass]
Idle == [lead |-> None, answer |-> None]
Answer(content) == [ok |-> TRUE, content |-> content]
Failed == [ok |-> FALSE, content |-> None]

-----------------------------------------------------------------------------
(* estimate_services.ts: a row is [id, type, children].  The ids of groups  *)
(* are a sequence of their own and collide with those of items.            *)

IsItem(row) == row.type = "item"
ChildrenOf(row) == IF row.type = "group" THEN row.children ELSE <<row>>
ListsServices(content) == content # None /\ (content.groups # None \/ content.items # None)
ServicesOf(content) ==
    IF content.groups = None THEN SelectSeq(content.items, IsItem)
    ELSE FlattenSeq([i \in DOMAIN content.groups |-> ChildrenOf(content.groups[i])])

-----------------------------------------------------------------------------
(* map_with_concurrency.                                                   *)

Claim(pass, r) ==
    /\ state = "running" /\ runner[pass][r] = Idle /\ next[pass] <= Len(List(pass))
    /\ runner' = [runner EXCEPT ![pass][r] = [lead |-> next[pass], answer |-> None]]
    /\ next' = [next EXCEPT ![pass] = @ + 1]
    /\ UNCHANGED <<estimate, seen, edits, result, first, state, written>>

\* ArboStar answers with what the estimate is then, and refuses one that does not exist.
Serve(pass, r) ==
    /\ runner[pass][r] # Idle /\ runner[pass][r].answer = None
    /\ LET content == estimate[List(pass)[runner[pass][r].lead]]
       IN  \/ /\ pass = "estimates" => content # None
              /\ runner' = [runner EXCEPT ![pass][r].answer = Answer(content)]
           \/ runner' = [runner EXCEPT ![pass][r].answer = Failed]
    /\ UNCHANGED <<estimate, seen, edits, next, result, first, state, written>>

\* The mapper of each pass; a profile that lists no services counts as a failure.
MayBeRead(pass, answer) == answer.ok /\ (pass = "estimates" => ListsServices(answer.content))
Receive(pass, r) ==
    LET lead == runner[pass][r].lead
        answer == runner[pass][r].answer
        read == MayBeRead(pass, answer)
    IN  /\ runner[pass][r] # Idle /\ answer # None
        /\ result' = [result EXCEPT ![pass][lead] = IF read THEN answer ELSE Failed]
        /\ first' = IF pass = "estimates" /\ read /\ first = None THEN List(pass)[lead] ELSE first
        /\ runner' = [runner EXCEPT ![pass][r] = Idle]
        /\ UNCHANGED <<estimate, seen, edits, next, state, written>>

-----------------------------------------------------------------------------
(* The files.                                                              *)

Obtained(pass) == SelectSeq([i \in DOMAIN List(pass) |-> i], LAMBDA i : result[pass][i].ok)
ItemsOf(lead, content) ==
    LET services == ServicesOf(content)
    IN  [i \in DOMAIN services |-> [id |-> services[i].id, lead |-> lead]]
Exported ==
    FlattenSeq([i \in DOMAIN Obtained("estimates") |->
        LET k == Obtained("estimates")[i]
        IN  ItemsOf(List("estimates")[k], result["estimates"][k].content)])
\* Notes and profiles, of the leads with an estimate before the others.
OfLeads ==
    [i \in DOMAIN Obtained("estimates") |-> List("estimates")[Obtained("estimates")[i]]]
    \o [i \in DOMAIN Obtained("others") |-> List("others")[Obtained("others")[i]]]
UniqueIds(items) == Cardinality({items[i].id : i \in DOMAIN items}) = Len(items)

\* Both assertions end the script; the second one only when three files were written.
WriteFiles ==
    /\ state = "running"
    /\ \A pass \in Passes : next[pass] > Len(List(pass)) /\ \A r \in Runners[pass] : runner[pass][r] = Idle
    /\ IF UniqueIds(Exported)
       THEN /\ line_items' = Exported /\ lead_notes' = OfLeads /\ lead_profiles' = OfLeads
            /\ codebooks' = IF first = None THEN None
                            ELSE [estimate |-> first,
                                  lead |-> IF Obtained("others") = <<>> THEN None
                                           ELSE List("others")[Obtained("others")[1]]]
       ELSE UNCHANGED written
    /\ state' = IF UniqueIds(Exported) /\ first # None THEN "finished" ELSE "failed"
    /\ UNCHANGED <<estimate, seen, edits, next, runner, result, first>>

-----------------------------------------------------------------------------

\* A user of ArboStar changes, adds or deletes an estimate.
Edit(lead, content) ==
    /\ state = "running" /\ edits < MaxEdits /\ content # estimate[lead]
    /\ estimate' = [estimate EXCEPT ![lead] = content]
    /\ seen' = [seen EXCEPT ![lead] = @ \cup {content}]
    /\ edits' = edits + 1
    /\ UNCHANGED <<next, runner, result, first, state, written>>

\* What estimates.js said was true then.
Init ==
    /\ estimate \in {e \in [DOMAIN Estimates -> UNION {Estimates[l] : l \in DOMAIN Estimates} \cup {None}] :
                        \A l \in DOMAIN Estimates : IF l \in ToSet(Leads.estimates) THEN e[l] \in Estimates[l] ELSE e[l] = None}
    /\ seen = [l \in DOMAIN Estimates |-> {estimate[l]}] /\ edits = 0
    /\ next = [pass \in Passes |-> 1]
    /\ runner = [pass \in Passes |-> [r \in Runners[pass] |-> Idle]]
    /\ result = [pass \in Passes |-> [i \in DOMAIN List(pass) |-> None]]
    /\ first = None /\ state = "running"
    /\ line_items = None /\ lead_notes = None /\ lead_profiles = None /\ codebooks = None

Next ==
    \/ \E pass \in Passes : \E r \in Runners[pass] : Claim(pass, r) \/ Serve(pass, r) \/ Receive(pass, r)
    \/ \E l \in DOMAIN Estimates : \E content \in Estimates[l] \cup {None} : Edit(l, content)
    \/ WriteFiles
Spec == Init /\ [][Next]_vars

-----------------------------------------------------------------------------

\* line_items.js has, lead by lead and in the order of estimates.js, exactly the items of each
\* profile that was obtained, as the estimate was at one moment of the run, however the runners
\* overtook each other; what is missing is missing whole.
ItemsAreOfTheirLead ==
    line_items # None =>
        /\ \A i, j \in DOMAIN line_items : i < j =>
              \E a, b \in DOMAIN Leads.estimates :
                 a <= b /\ line_items[i].lead = Leads.estimates[a] /\ line_items[j].lead = Leads.estimates[b]
        /\ \A k \in DOMAIN Leads.estimates :
              LET lead == Leads.estimates[k]
                  OfLead(item) == item.lead = lead
                  items == SelectSeq(line_items, OfLead)
              IN  IF lead \in ToSet(lead_notes)
                  THEN \E content \in seen[lead] : ListsServices(content) /\ items = ItemsOf(lead, content)
                  ELSE ~result["estimates"][k].ok /\ items = <<>>

\* "every exported line item has a unique line_item_id" (an assertion of export_line_items.ts):
\* the script never fails by it, although groups and items share their ids.
ExportedIdsAreUnique == state = "failed" => first = None

\* A lead has its notes and its profile once, and the codebooks are of leads that were obtained.
ProfilesAreOfObtainedLeads ==
    lead_notes # None =>
        /\ Cardinality(ToSet(lead_notes)) = Len(lead_notes)
        /\ codebooks # None => {codebooks.estimate} \cup ({codebooks.lead} \ {None}) \subseteq ToSet(lead_profiles)
=============================================================================
