------------------------------ MODULE Pipeline ------------------------------
(***************************************************************************)
(* What the pages say about the projects of a company: the pipeline of the  *)
(* home page (Home.State.svelte), the leads to estimate with their clients' *)
(* metrics (LeadsToEstimate.State.svelte, client_metrics.ts), and the lists *)
(* of leads and of proposals (Lead.State.svelte, Proposal.State.svelte).    *)
(* They read projects that were made in the app and moved by pages which    *)
(* may be old, and projects that were imported again and again.            *)
(***************************************************************************)
EXTENDS Integers, Sequences, FiniteSets, SequencesExt, FiniteSetsExt

CONSTANTS
    Clients,
    None,
    Leads,                          \* what exports may say of a lead: [document, estimated, over, dated, days]
    HomeDays, ExpireDays, YearDays, \* 45, 90 and a year in the code
    LastDay, MaxProjects, MaxMoves  \* bounds

VARIABLES
    today,
    projects,  \* rows [client, document, changed, closed, closed_on, in_app]
    history,   \* per project: its rows [document, day] of project_document_history
    seen,      \* per project: the documents that an estimate page was loaded with
    moves
vars == <<today, projects, history, seen, moves>>

\* Assumed by the module that gives the constants their values: the days of a lead are in their order.
ListsAssumption ==
    /\ {HomeDays, ExpireDays, YearDays} \subseteq Nat /\ None \notin Nat
    /\ \A lead \in Leads :
        /\ lead.document \in {"unqualified", "qualified", "proposal", "work order", "declined", "void"}
        /\ {lead.estimated, lead.over, lead.dated} \subseteq BOOLEAN
        /\ lead.days \in [1 .. 3 -> Nat]
        /\ lead.days[1] <= lead.days[2] /\ lead.days[2] <= lead.days[3]

\* The codebook project_document, by sort, and its flags with the documents that have them.
ProjectDocuments == <<"unqualified", "qualified", "proposal", "work order", "declined", "void">>
DocumentsWith ==
    [needs_to_be_contacted_by_lead_qualifier |-> {"unqualified"}, needs_estimate_to_move_on |-> {"qualified"},
     needs_client_approval_to_move_on |-> {"proposal"}, can_expire |-> {"proposal"},
     should_be_worked |-> {"work order"}, represents_billable_sale_when_closed |-> {"work order"},
     declined |-> {"declined"}, closed_by_default |-> {"declined", "void"}]
Has(document, flag) == document \in DocumentsWith[flag]
\* document_id of resolve_context.ts: exactly one document has the flag.
TheDocument(flag) == CHOOSE document \in ToSet(ProjectDocuments) : Has(document, flag)
NextDocument == [unqualified |-> "qualified", qualified |-> "proposal", proposal |-> "work order"]

Init ==
    /\ today = 1
    /\ projects = <<>> /\ history = <<>> /\ seen = <<>> /\ moves = 0

Row(document, day) == [document |-> document, day |-> day]
Added(project, rows) ==
    /\ Len(projects) < MaxProjects
    /\ projects' = Append(projects, project)
    /\ history' = Append(history, rows)
    /\ seen' = Append(seen, {project.document})

\* create_lead: the lead and the first row of its history.
CreateLead(c) ==
    LET document == TheDocument("needs_estimate_to_move_on") IN
    /\ Added([client |-> c, document |-> document, changed |-> today, closed |-> FALSE, closed_on |-> None,
              in_app |-> TRUE], <<Row(document, today)>>)
    /\ UNCHANGED <<today, moves>>

\* update_project_document, for an estimate page that knows the project as it was when it was loaded.
MoveDocument(n, document) ==
    /\ moves < MaxMoves /\ moves' = moves + 1
    /\ \E loaded \in seen[n] \cap DOMAIN NextDocument : document = NextDocument[loaded]
    /\ document # projects[n].document
    /\ projects' = [projects EXCEPT ![n].document = document, ![n].changed = today]
    /\ history' = [history EXCEPT ![n] = Append(@, Row(document, today))]
    /\ seen' = [seen EXCEPT ![n] = @ \cup {document}]
    /\ UNCHANGED today

(* The import of a lead.  It is all that an export says of it: the document, *)
(* whether there is an estimate, whether nothing is left to be done, whether *)
(* it says when the lead was made, and the days of its creation, its        *)
(* estimate and its end.                                                   *)
Exported(lead) == lead.days[3] <= today
Chain(lead) ==
    <<Row("unqualified", lead.days[1])>>
    \o (IF lead.estimated THEN <<Row("proposal", lead.days[2])>> ELSE <<>>)
    \o (IF lead.document \in {"unqualified", "proposal"} THEN <<>> ELSE <<Row(lead.document, lead.days[3])>>)
ClosedOn(lead) == IF lead.over /\ lead.document \in {"work order", "declined"} THEN lead.days[3] ELSE None
\* A closed project stays closed, and on the day that it has.
Imported(project, lead) ==
    [project EXCEPT
        !.document = lead.document,
        !.changed = IF lead.dated THEN Last(Chain(lead)).day ELSE @,
        !.closed = @ \/ lead.over,
        !.closed_on = IF lead.over /\ @ = None THEN ClosedOn(lead) ELSE @]
ImportNew(c, lead) ==
    /\ Exported(lead)
    /\ Added(Imported([client |-> c, document |-> None, changed |-> None, closed |-> FALSE, closed_on |-> None,
                       in_app |-> FALSE], lead), IF lead.dated THEN Chain(lead) ELSE <<>>)
    /\ UNCHANGED <<today, moves>>
ImportAgain(n, lead) ==
    /\ moves < MaxMoves /\ moves' = moves + 1
    /\ ~projects[n].in_app /\ Exported(lead)
    /\ projects' = [projects EXCEPT ![n] = Imported(@, lead)]
    /\ history' = IF lead.dated THEN [history EXCEPT ![n] = Chain(lead)] ELSE history
    /\ seen' = [seen EXCEPT ![n] = @ \cup {lead.document}]
    /\ UNCHANGED today

DayPasses ==
    /\ today < LastDay /\ today' = today + 1
    /\ UNCHANGED <<projects, history, seen, moves>>

Next ==
    \/ \E c \in Clients : CreateLead(c) \/ \E lead \in Leads : ImportNew(c, lead)
    \/ \E n \in DOMAIN projects :
        \/ \E document \in ToSet(ProjectDocuments) : MoveDocument(n, document)
        \/ \E lead \in Leads : ImportAgain(n, lead)
    \/ DayPasses
Spec == Init /\ [][Next]_vars

-----------------------------------------------------------------------------
(* The lists.                                                              *)

Open == {n \in DOMAIN projects : ~projects[n].closed}
InA(flag) == {n \in DOMAIN projects : Has(projects[n].document, flag)}

\* The rows of the history of the last days, joined to the projects that are in one of the first
\* two documents and grouped by the project.
HistoryRows(numbers) == UNION {{n} \X DOMAIN history[n] : n \in numbers}
PipelineRows == {row \in HistoryRows(Open) :
    /\ projects[row[1]].document \in {ProjectDocuments[1], ProjectDocuments[2]}
    /\ history[row[1]][row[2]].day >= today - HomeDays}
Pipeline ==
    LET days(n) == {history[n][row[2]].day : row \in {row \in PipelineRows : row[1] = n}} IN
    [n \in {row[1] : row \in PipelineRows} |->
        [latest_change |-> Max(days(n)), first_change |-> Min(days(n))]]

LeadsToEstimate == Open \cap InA("needs_estimate_to_move_on")
LeadList == Open \cap (InA("needs_to_be_contacted_by_lead_qualifier") \cup InA("needs_estimate_to_move_on"))
Unexpired(n) ==
    \/ ~Has(projects[n].document, "can_expire")
    \/ projects[n].changed # None /\ projects[n].changed >= today - ExpireDays
ProposalList == {n \in Open \cap InA("needs_client_approval_to_move_on") : Unexpired(n)}

\* get_client_metrics.
Of(c) == {n \in DOMAIN projects : projects[n].client = c}
ProposalRows(c) == {row \in HistoryRows(Of(c)) :
    Has(history[row[1]][row[2]].document, "needs_client_approval_to_move_on")}
\* (a mistake) The rows of the history are counted.
CountRows(rows) == Cardinality(rows)
\* COUNT DISTINCT of the projects.
CountProjects(rows) == Cardinality({row[1] : row \in rows})
AcceptedProjects(c) == Of(c) \cap InA("represents_billable_sale_when_closed")
LatestJobs(c) == {n \in AcceptedProjects(c) :
    projects[n].closed /\ projects[n].closed_on # None /\ projects[n].closed_on >= today - YearDays}
Metrics(c) == [proposals |-> CountProjects(ProposalRows(c)), accepted |-> Cardinality(AcceptedProjects(c)),
               latest_job_count |-> Cardinality(LatestJobs(c))]

-----------------------------------------------------------------------------

\* The home page says of a project how long it has its status, whatever moved it: the latest row
\* of the history that it finds is the last change that the project knows of.  It shows every
\* project that got one of the first two documents within its days (Home.State.svelte:25-53).
StatusAgesAreTrue ==
    /\ \A n \in DOMAIN Pipeline : Pipeline[n].latest_change = projects[n].changed
    /\ \A n \in LeadList : projects[n].changed # None /\ projects[n].changed >= today - HomeDays => n \in DOMAIN Pipeline

\* An open project that is not worked yet is in one of the two lists and only there, or it is a
\* proposal that expired or whose date nobody knows (Lead.State.svelte, Proposal.State.svelte).
NoProjectIsForgotten ==
    /\ LeadList \cap ProposalList = {} /\ LeadsToEstimate \subseteq LeadList
    /\ \A n \in Open \ (LeadList \cup ProposalList) : projects[n].document \in {"unqualified", "qualified", "proposal"} =>
         projects[n].document = "proposal" /\ (projects[n].changed = None \/ today - projects[n].changed > ExpireDays)

\* No client is said to have accepted more than was proposed, unless by what was imported, however
\* often its projects went to and fro; and no job counts unless it was accepted (client_metrics.ts).
AcceptedWasProposed ==
    \A c \in Clients :
        /\ Metrics(c).latest_job_count <= Metrics(c).accepted
        /\ Metrics(c).proposals <= Cardinality(Of(c))
        /\ (\A n \in Of(c) : projects[n].in_app) => Metrics(c).accepted <= Metrics(c).proposals

PipelineIsTrue == StatusAgesAreTrue /\ NoProjectIsForgotten /\ AcceptedWasProposed
=============================================================================
