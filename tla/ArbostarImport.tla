--------------------------- MODULE ArbostarImport ---------------------------
(***************************************************************************)
(* The import of an ArboStar export into a company's tables                *)
(* (shared/arbostar/import_arbostar_export.ts), which is run by hand again  *)
(* and again while both systems are in use.  A run reads the rows that      *)
(* earlier runs left (the context) once, then commits one transaction per   *)
(* phase, and copies photos into the object store between transactions.     *)
(* It may crash anywhere, and the users of the app go on working.           *)
(*                                                                         *)
(* A row that nothing deletes is named by its key: a project by its number, *)
(* an invoice by its customer-facing number, a payment and a client by      *)
(* their ArboStar ids.  Line items and photos come and go, so their rows    *)
(* have ids of their own.  Names, amounts, addresses and texts are left     *)
(* out; a codebook row (item type, tax rate, lead source, payment method)   *)
(* is made by name or found, and a name that the app adds at the same time  *)
(* fails the phase, which is what Crash stands for.                         *)
(***************************************************************************)
EXTENDS Integers, Sequences, FiniteSets, SequencesExt, FiniteSetsExt

CONSTANTS
    Exports,        \* the exports that may be imported
    Staff,          \* the employees before the first run: row id -> employee
    TakenElsewhere, \* the identities that employees of other companies have
    Gap,            \* 1000 in the code (import_projects.ts:210)
    MaxRuns,        \* bound: how many runs are started
    MaxAppSteps,    \* bound: how many changes users of the app make
    None

ASSUME ImportAssumption ==
    /\ {Gap, MaxRuns, MaxAppSteps} \subseteq Nat
    /\ DOMAIN Staff \subseteq Nat /\ IsFiniteSet(DOMAIN Staff)
    /\ None \notin {"early", "late"}

(* An export is a finite file: one of its leads has the highest number.  A  *)
(* name is never null.                                                     *)
ASSUME ExportsAssumption ==
    \A x \in Exports :
      /\ IsFiniteSet(DOMAIN x.users) /\ IsFiniteSet(DOMAIN x.clients)
      /\ \A c \in DOMAIN x.clients : IsFiniteSet(DOMAIN x.clients[c])
      /\ DOMAIN x.leads \subseteq Nat /\ \E most \in DOMAIN x.leads \union {0} : \A l \in DOMAIN x.leads : l <= most
      /\ IsFiniteSet(DOMAIN x.items) /\ IsFiniteSet(DOMAIN x.photos)
      /\ None \notin DOMAIN x.items /\ None \notin DOMAIN x.photos

(* ArboStar issues fewer than Gap numbers between any two of the exports    *)
(* ("the 1000 gap covers ArboStar issuing new numbers between this export   *)
(* and the next while both systems run", import_projects.ts:202).          *)
ASSUME GapAssumption ==
    \A x, y \in Exports : DOMAIN x.leads # {} =>
      \A l \in DOMAIN y.leads : \E k \in DOMAIN x.leads : l < k + Gap

VARIABLES
    employees,   \* row id -> [name, identities, user]
    contacts,    \* row id -> [client, contact, primary]; contact is None for a fallback
    clients,     \* ids of the clients that have a row
    skills,      \* names of the work skills
    projects,    \* number -> [client, document, history, closed, closed_at, in_app]
    allocator,   \* the next project number, and whether an import has raised it
    lines,       \* row id -> [item, project, skill]; item is None when made in the app
    photos,      \* row id -> [image, project, line, uploaded]; image is None when taken in the app
    store,       \* row ids of the photos that have objects
    invoices,    \* number -> [invoice, project, lines]; invoice is the ArboStar id
    payments,    \* payment id -> the numbers of the invoices it is allocated to
    run,         \* the run in progress, or the last one
    last_id,     \* the last row id that was given
    runs, app_steps

people == <<employees, contacts, clients, skills>>
money == <<invoices, payments>>
work == <<projects, allocator, lines, photos, store>>
vars == <<people, work, money, run, last_id, runs, app_steps>>

Phases == {"photos_read", "rows_read", "employees", "clients", "work_skills", "projects",
           "line_items", "line_objects", "image_rows", "image_objects", "images", "invoices",
           "payments"}
Row(table, field, key) == {r \in DOMAIN table : table[r][field] = key}
Named(table, field, key) == CHOOSE r \in Row(table, field, key) : TRUE
Known(table, field) == {table[r][field] : r \in DOMAIN table} \ {None}

(* A table with the rows of another where it has none, and with one more row. *)
Joined(table, more) ==
    [r \in DOMAIN table \union DOMAIN more |-> IF r \in DOMAIN table THEN table[r] ELSE more[r]]
WithRow(table, r, value) ==
    [s \in DOMAIN table \union {r} |-> IF s \in DOMAIN table THEN table[s] ELSE value]

Nothing == [r \in {} |-> None]
NothingRead == [photos |-> Nothing, employees |-> Nothing, contacts |-> Nothing, clients |-> {}, skills |-> {},
                projects |-> Nothing, lines |-> Nothing, invoices |-> Nothing, payments |-> Nothing]
Idle == [export |-> None, done |-> {}, crashed |-> FALSE, context |-> NothingRead, refused |-> FALSE,
         line_of |-> Nothing, photo_of |-> Nothing, doomed |-> {}, tried |-> {}, stored |-> {}, removed |-> {}]
Running == run.export # None /\ ~run.crashed /\ run.done # Phases
export == run.export
context == run.context

(* A phase begins when those it awaits have ended (lines 70, 94-177).       *)
Awaits(phase) ==
    CASE phase \in {"photos_read", "rows_read"} -> {}
      [] phase \in {"employees", "clients", "work_skills"} -> {"photos_read", "rows_read"}
      [] phase = "projects" -> {"employees", "clients", "work_skills"}
      [] phase = "line_items" -> {"projects"}
      [] phase = "line_objects" -> {"line_items"}
      [] phase \in {"image_rows", "invoices"} -> {"line_objects"}
      [] phase = "image_objects" -> {"image_rows"}
      [] phase = "images" -> {"image_objects"}
      [] phase = "payments" -> {"invoices"}
Begins(phase) == Running /\ phase \notin run.done /\ Awaits(phase) \subseteq run.done
Ended(phase) == [run EXCEPT !.done = @ \union {phase}]

(***************************************************************************)
(* What a lead's records say                                               *)
(***************************************************************************)

(* estimates and workorders are the sets of the states of a lead's records. *)
Dead == {"declined", "expired", "thinking"}
AllEstimatesDead(lead) == lead.estimates # {} /\ lead.estimates \subseteq Dead
ProjectDocument(lead) ==
    IF lead.workorders # {} \/ lead.invoiced THEN "work_order"
    ELSE IF lead.status = "no_go" THEN "void"
    ELSE IF lead.estimates # {}
         THEN IF AllEstimatesDead(lead) /\ "declined" \in lead.estimates
              THEN "declined_proposal" ELSE "estimate"
    ELSE IF lead.status = "draft" THEN "lead_unqualified" ELSE "lead_qualified"

(* The documents the project passed through.                               *)
DocumentChain(lead) ==
    <<"lead_unqualified">>
      \o (IF lead.estimates # {} THEN <<"estimate">> ELSE <<>>)
      \o (IF ProjectDocument(lead) \in {"declined_proposal", "work_order", "void", "lead_qualified"}
          THEN <<ProjectDocument(lead)>> ELSE <<>>)

Closes(lead) ==
    \/ "finished" \in lead.workorders
    \/ ProjectDocument(lead) \in {"void", "declined_proposal"}
    \/ ProjectDocument(lead) = "estimate" /\ AllEstimatesDead(lead)
(* The moment it closed, where the export has one.                         *)
ClosingDate(lead) ==
    IF "finished" \in lead.workorders \/ ProjectDocument(lead) = "declined_proposal"
    THEN lead.date ELSE None

(***************************************************************************)
(* A run: reading, and the phases that need nothing else                   *)
(***************************************************************************)

Start(exported) ==
    /\ ~Running /\ runs < MaxRuns
    /\ runs' = runs + 1
    /\ run' = [Idle EXCEPT !.export = exported]
    /\ UNCHANGED <<people, work, money, last_id, app_steps>>

(* The selects of the context run on several connections, in any order.    *)
(* A photo is read joined to the link to its line item.                    *)
ReadUploadedPhotos ==               \* (a mistake) rows whose upload never came are missed
    /\ Begins("photos_read")
    /\ run' = [Ended("photos_read") EXCEPT !.context.photos =
                 [r \in {r \in DOMAIN photos : photos[r].line # None /\ photos[r].uploaded} |-> photos[r]]]
    /\ UNCHANGED <<people, work, money, last_id, runs, app_steps>>
ReadPhotos ==
    /\ Begins("photos_read")
    /\ run' = [Ended("photos_read") EXCEPT !.context.photos =
                 [r \in {r \in DOMAIN photos : photos[r].line # None} |-> photos[r]]]
    /\ UNCHANGED <<people, work, money, last_id, runs, app_steps>>

ReadRows ==
    /\ Begins("rows_read")
    /\ run' = [Ended("rows_read") EXCEPT !.context =
                 [photos |-> @.photos, employees |-> employees, contacts |-> contacts, clients |-> clients,
                  skills |-> skills, projects |-> projects, lines |-> lines,
                  invoices |-> invoices, payments |-> payments]]
    /\ UNCHANGED <<people, work, money, last_id, runs, app_steps>>

(* The users of the export (the active ones) find their employees one after *)
(* the other: by their id, by an identity no user has adopted yet, or by    *)
(* name.  rows[i] holds the row of the i-th user, or nothing.              *)
One(rows) == IF rows = {} THEN {} ELSE {CHOOSE r \in rows : TRUE}
Matches ==
    LET found[i \in 0..Len(export.users)] ==
          IF i = 0 THEN [rows |-> <<>>, adopted |-> {}]
          ELSE LET user == export.users[i]
                   correlated == Row(context.employees, "user", user.user)
                   identity == One({r \in DOMAIN context.employees \ found[i - 1].adopted :
                                      context.employees[r].identities \cap user.identities # {}})
                   adopted == IF correlated = {} /\ identity # {} THEN identity
                              ELSE One(Row(context.employees, "name", user.name))
               IN [rows |-> Append(found[i - 1].rows,
                                   IF correlated # {} THEN correlated ELSE adopted),
                   adopted |-> found[i - 1].adopted \union adopted]
    IN found[Len(export.users)].rows

(* An identity that somebody has already, here or in another company, is   *)
(* not given to the new employee, who gets a placeholder if none is left.   *)
NewEmployee(i, new) ==
    LET earlier == UNION {export.users[j].identities : j \in {j \in new : j < i}}
        taken == UNION {employees[r].identities : r \in DOMAIN employees}
        free == export.users[i].identities \ (earlier \union taken \union TakenElsewhere)
    IN [name |-> export.users[i].name, user |-> export.users[i].user,
        identities |-> IF free = {} THEN {<<"placeholder", export.users[i].user>>} ELSE free]

(* The rows for the members of set get the next ids, in some order.         *)
NewIds(set) == LET order == SetToSeq(set) IN [x \in set |-> last_id + (CHOOSE k \in DOMAIN order : order[k] = x)]
Inserted(ids, Value(_)) == [r \in {ids[x] : x \in DOMAIN ids} |->
                               Value(CHOOSE x \in DOMAIN ids : ids[x] = r)]

(* A unique key on the field refuses the rows, and the phase is rolled back. *)
Clash(table, field) ==
    \E r, s \in DOMAIN table : r # s /\ table[r][field] # None /\ table[r][field] = table[s][field]
Refuse == run' = [run EXCEPT !.crashed = TRUE, !.refused = TRUE]

ImportEmployees ==
    LET rows == Matches
        new == {i \in DOMAIN export.users : rows[i] = {}}
        holders(r) == {i \in DOMAIN rows : r \in rows[i]}
        updated == [r \in DOMAIN employees |->
                      IF holders(r) = {} THEN employees[r]
                      ELSE [employees[r] EXCEPT !.name = export.users[Max(holders(r))].name,
                                                !.user = export.users[Max(holders(r))].user]]
        ids == NewIds(new)
        table == Joined(updated, Inserted(ids, LAMBDA i : NewEmployee(i, new)))
    IN /\ Begins("employees")
       /\ IF Clash(table, "user")
          THEN Refuse /\ UNCHANGED <<people, last_id>>
          ELSE /\ employees' = table
               /\ last_id' = last_id + Cardinality(new)
               /\ run' = Ended("employees")
               /\ UNCHANGED <<contacts, clients, skills>>
       /\ UNCHANGED <<work, money, runs, app_steps>>

(* Contacts are found by their ArboStar ids; the first of a client's is the *)
(* primary one.  A client without any gets a fallback unless it has a       *)
(* primary contact already.  Contacts are never deleted.                   *)
ImportClients ==
    LET incoming == UNION {{<<c, i>> : i \in DOMAIN export.clients[c]} : c \in DOMAIN export.clients}
        contact(x) == export.clients[x[1]][x[2]]
        new == {x \in incoming : Row(context.contacts, "contact", contact(x)) = {}}
        bare == {c \in DOMAIN export.clients :
                   /\ export.clients[c] = <<>>
                   /\ ~\E r \in Row(context.contacts, "client", c) : context.contacts[r].primary}
        ids == NewIds(new \union bare)
        place(r) == {x \in incoming : contact(x) = contacts[r].contact}
        updated == [r \in DOMAIN contacts |->
                      IF place(r) = {} THEN contacts[r]
                      ELSE [contacts[r] EXCEPT !.primary = \E x \in place(r) : x[2] = 1]]
        table == Joined(updated, Inserted(ids, LAMBDA x :
                   IF x \in bare THEN [client |-> x, contact |-> None, primary |-> TRUE]
                   ELSE [client |-> x[1], contact |-> contact(x), primary |-> x[2] = 1]))
    IN /\ Begins("clients")
       /\ IF Clash(table, "contact")
          THEN Refuse /\ UNCHANGED <<people, last_id>>
          ELSE /\ contacts' = table
               /\ clients' = clients \union DOMAIN export.clients
               /\ last_id' = last_id + Cardinality(new \union bare)
               /\ run' = Ended("clients")
               /\ UNCHANGED <<employees, skills>>
       /\ UNCHANGED <<work, money, runs, app_steps>>

ImportWorkSkills ==
    /\ Begins("work_skills")
    /\ skills' = skills \union export.skills
    /\ run' = Ended("work_skills")
    /\ UNCHANGED <<employees, contacts, clients, work, money, last_id, runs, app_steps>>

(***************************************************************************)
(* Projects: one for each lead, known by its number                        *)
(***************************************************************************)

Importable == {l \in DOMAIN export.leads : export.leads[l].client \in DOMAIN export.clients}

(* Above every number ArboStar has issued, and never back (lines 200-212).  *)
RaisedWithoutGap ==                 \* (a mistake) ArboStar goes on from there, too
    IF DOMAIN export.leads = {} THEN allocator
    ELSE [next |-> Max({allocator.next, Max(DOMAIN export.leads) + 1}), raised |-> TRUE]
Raised == IF DOMAIN export.leads = {} THEN allocator
          ELSE [next |-> Max({allocator.next, Max(DOMAIN export.leads) + Gap}), raised |-> TRUE]

(* A lead can close a project but not reopen it, and a closing date that    *)
(* was there when the run began stays.  The history is written anew, but    *)
(* not for a lead without a date of creation.                              *)
UpdatedProjectThatReopens(l) ==     \* (a mistake) the export always decides
    LET lead == export.leads[l]
    IN [projects[l] EXCEPT
          !.client = lead.client, !.document = ProjectDocument(lead),
          !.history = IF lead.created THEN DocumentChain(lead) ELSE @,
          !.closed = Closes(lead), !.closed_at = ClosingDate(lead)]
UpdatedProject(l) ==
    LET lead == export.leads[l]
        dated == context.projects[l].closed_at # None
    IN [projects[l] EXCEPT
          !.client = lead.client, !.document = ProjectDocument(lead),
          !.history = IF lead.created THEN DocumentChain(lead) ELSE @,
          !.closed = @ \/ Closes(lead),
          !.closed_at = IF Closes(lead) /\ ~dated THEN ClosingDate(lead) ELSE @]
NewProject(l) ==
    LET lead == export.leads[l]
    IN [client |-> lead.client, document |-> ProjectDocument(lead),
        history |-> IF lead.created THEN DocumentChain(lead) ELSE <<>>,
        closed |-> Closes(lead), closed_at |-> ClosingDate(lead), in_app |-> None]

ImportProjects ==
    LET new == Importable \ DOMAIN context.projects
    IN /\ Begins("projects")
       /\ IF new \cap DOMAIN projects # {}
          THEN Refuse /\ UNCHANGED <<projects, allocator>>
          ELSE /\ projects' = [n \in DOMAIN projects \union new |->
                                 IF n \in new THEN NewProject(n)
                                 ELSE IF n \in Importable THEN UpdatedProject(n) ELSE projects[n]]
               /\ allocator' = Raised
               /\ run' = Ended("projects")
       /\ UNCHANGED <<people, money, lines, photos, store, last_id, runs, app_steps>>

(***************************************************************************)
(* Line items                                                              *)
(***************************************************************************)

(* ArboStar repeats some ids: the copy with less data (the phantom) counts  *)
(* only where the real one belongs to no project of this run.              *)
ItemLead(i) == IF export.items[i].lead \in Importable THEN export.items[i].lead
               ELSE IF export.items[i].phantom \in Importable THEN export.items[i].phantom ELSE None
Items == {i \in DOMAIN export.items : ItemLead(i) # None}
NewItems == Items \ Known(context.lines, "item")
LineFields(i) == [item |-> i, project |-> ItemLead(i), skill |-> export.items[i].skill]

ImportLineItems ==
    LET ids == NewIds(NewItems)
        known == {r \in DOMAIN lines : r \in DOMAIN context.lines /\ lines[r].item \in Items}
        table == Joined([r \in DOMAIN lines |-> IF r \in known THEN LineFields(lines[r].item) ELSE lines[r]],
                        Inserted(ids, LineFields))
        stale == {r \in DOMAIN table : /\ table[r].item # None
                                       /\ table[r].project \in Importable
                                       /\ table[r].item \notin Items}
        gone == {r \in DOMAIN photos : photos[r].line \in stale /\ photos[r].image # None}
        codes == {export.items[i].skill : i \in Items} \ {None}
    IN /\ Begins("line_items")
       /\ IF Clash(table, "item") \/ ~(codes \subseteq export.skills)
          THEN Refuse /\ UNCHANGED <<lines, photos, last_id>>
          ELSE /\ lines' = [r \in DOMAIN table \ stale |-> table[r]]
               /\ photos' = [r \in DOMAIN photos \ gone |->
                               IF photos[r].line \in stale THEN [photos[r] EXCEPT !.line = None] ELSE photos[r]]
               /\ last_id' = last_id + Cardinality(NewItems)
               /\ run' = [Ended("line_items") EXCEPT
                            !.line_of = Joined(ids, [i \in Known(context.lines, "item") |-> Named(context.lines, "item", i)]),
                            !.doomed = {r \in gone : photos[r].uploaded}]
       /\ UNCHANGED <<people, money, projects, allocator, store, runs, app_steps>>

(* Objects are deleted after the rows are gone (images.ts:239).             *)
DeleteObjects(phase) ==
    /\ Begins(phase)
    /\ store' = store \ run.doomed
    /\ run' = [Ended(phase) EXCEPT !.doomed = {}]
    /\ UNCHANGED <<people, money, projects, allocator, lines, photos, last_id, runs, app_steps>>

(***************************************************************************)
(* Photos                                                                  *)
(***************************************************************************)

Images == {p \in DOMAIN export.photos : export.photos[p].lead \in Importable /\ export.photos[p].item \in DOMAIN run.line_of}
KnownImages == Images \cap Known(context.photos, "image")
NewImages == Images \ KnownImages
PhotoFields(p) == [image |-> p, project |-> export.photos[p].lead,
                   line |-> run.line_of[export.photos[p].item], uploaded |-> FALSE]
(* Photos are missing only from leads that the export of photos has looked *)
(* at.                                                                     *)
StalePhotos == {r \in DOMAIN context.photos :
                  /\ context.photos[r].image \notin Images \union {None}
                  /\ context.photos[r].project \in Importable \cap export.scanned}

(* Rows and links are updated and inserted, and stale ones deleted; a link  *)
(* that the users of the app have removed meanwhile stays away.             *)
ImportImages ==
    LET ids == NewIds(NewImages)
        row_of == Joined(ids, [p \in KnownImages |-> Named(context.photos, "image", p)])
        moved == [r \in DOMAIN photos |->
                    IF \E p \in KnownImages : row_of[p] = r
                    THEN [PhotoFields(photos[r].image) EXCEPT
                            !.uploaded = photos[r].uploaded, !.line = IF photos[r].line = None THEN None ELSE @]
                    ELSE photos[r]]
        table == Joined(moved, Inserted(ids, PhotoFields))
    IN /\ Begins("image_rows")
       /\ IF Clash(table, "image")
          THEN Refuse /\ UNCHANGED <<photos, last_id>>
          ELSE /\ photos' = [r \in DOMAIN table \ StalePhotos |-> table[r]]
               /\ last_id' = last_id + Cardinality(NewImages)
               /\ run' = [Ended("image_rows") EXCEPT
                            !.photo_of = row_of,
                            !.doomed = {r \in StalePhotos : context.photos[r].uploaded}]
       /\ UNCHANGED <<people, money, projects, allocator, lines, store, runs, app_steps>>

(* What is new or was not uploaded by an earlier run.                      *)
Pending == {p \in Images : p \in NewImages \/ ~context.photos[run.photo_of[p]].uploaded}

(* The files are read and put outside of any transaction; a failure is only *)
(* logged.                                                                 *)
Upload(p, succeeds) ==
    /\ Begins("images") /\ p \in Pending \ run.tried
    /\ run' = [run EXCEPT !.tried = @ \union {p}, !.stored = IF succeeds THEN @ \union {p} ELSE @]
    /\ store' = IF succeeds THEN store \union {run.photo_of[p]} ELSE store
    /\ UNCHANGED <<people, money, projects, allocator, lines, photos, last_id, runs, app_steps>>

StoreAllKeys ==                     \* (a mistake) failed uploads get a key as well
    /\ Begins("images") /\ Pending \subseteq run.tried
    /\ photos' = [r \in DOMAIN photos |->
                    IF \E p \in run.tried : run.photo_of[p] = r
                    THEN [photos[r] EXCEPT !.uploaded = TRUE] ELSE photos[r]]
    /\ run' = Ended("images")
    /\ UNCHANGED <<people, money, projects, allocator, lines, store, last_id, runs, app_steps>>
StoreKeys ==
    /\ Begins("images") /\ Pending \subseteq run.tried
    /\ photos' = [r \in DOMAIN photos |->
                    IF \E p \in run.stored : run.photo_of[p] = r
                    THEN [photos[r] EXCEPT !.uploaded = TRUE] ELSE photos[r]]
    /\ run' = Ended("images")
    /\ UNCHANGED <<people, money, projects, allocator, lines, store, last_id, runs, app_steps>>

(***************************************************************************)
(* Invoices and payments                                                   *)
(***************************************************************************)

Invoiced == {v \in DOMAIN export.invoices : export.invoices[v].client \in DOMAIN export.clients}
(* ArboStar deletes an invoice and makes it again under its number: the new *)
(* one takes over the row, unless the old one is still there or the app's.  *)
Adopting == {v \in Invoiced : /\ v \notin Known(context.invoices, "invoice")
                              /\ export.invoices[v].number \in DOMAIN context.invoices}
MayAdopt(v) == context.invoices[export.invoices[v].number].invoice \notin {None} \union DOMAIN export.invoices
InvoiceFields(v) ==
    [invoice |-> v,
     project |-> IF export.invoices[v].lead \in Importable THEN export.invoices[v].lead ELSE None,
     lines |-> {IF i \in DOMAIN run.line_of THEN run.line_of[i] ELSE None : i \in export.invoices[v].items}]

ImportInvoices ==
    LET number(v) == export.invoices[v].number
        table == Joined([n \in {number(v) : v \in Invoiced} |->
                           InvoiceFields(CHOOSE v \in Invoiced : number(v) = n)], invoices)
    IN /\ Begins("invoices")
       /\ IF (\E v \in Adopting : ~MayAdopt(v)) \/ Clash(table, "invoice")
          THEN Refuse /\ UNCHANGED invoices
          ELSE invoices' = table /\ run' = Ended("invoices")
       /\ UNCHANGED <<people, work, payments, last_id, runs, app_steps>>

(* The allocations of every payment that an import made are brought in line *)
(* with the export, those of payments it no longer has included.           *)
ImportPayments ==
    LET paid == {q \in DOMAIN export.payments : export.payments[q].client \in DOMAIN export.clients}
        allocated(q) == {export.invoices[v].number : v \in export.payments[q].invoices \cap Invoiced}
    IN /\ Begins("payments")
       /\ payments' = [q \in paid \union DOMAIN payments |-> IF q \in paid THEN allocated(q) ELSE {}]
       /\ run' = Ended("payments")
       /\ UNCHANGED <<people, work, invoices, last_id, runs, app_steps>>

(* A statement fails, the connection breaks or the script is stopped.      *)
Crash ==
    /\ Running
    /\ run' = [run EXCEPT !.crashed = TRUE]
    /\ UNCHANGED <<people, work, money, last_id, runs, app_steps>>

(***************************************************************************)
(* The users of the app, meanwhile                                         *)
(***************************************************************************)

AppStep == app_steps < MaxAppSteps /\ app_steps' = app_steps + 1

CreateLead(c) ==
    /\ AppStep /\ c \in clients /\ allocator.next \notin DOMAIN projects
    /\ projects' = WithRow(projects, allocator.next,
         [client |-> c, document |-> "lead_unqualified", history |-> <<"lead_unqualified">>,
          closed |-> FALSE, closed_at |-> None, in_app |-> IF allocator.raised THEN "late" ELSE "early"])
    /\ allocator' = [allocator EXCEPT !.next = @ + 1]
    /\ UNCHANGED <<people, money, lines, photos, store, run, last_id, runs>>

(* update_project_document: the row is locked before it is read.           *)
MoveDocument(n, document) ==
    /\ AppStep /\ projects[n].document # document
    /\ projects' = [projects EXCEPT ![n].document = document, ![n].history = Append(@, document)]
    /\ UNCHANGED <<people, money, allocator, lines, photos, store, run, last_id, runs>>

AddLineItem(n) ==
    /\ AppStep
    /\ last_id' = last_id + 1
    /\ lines' = WithRow(lines, last_id + 1, [item |-> None, project |-> n, skill |-> None])
    /\ UNCHANGED <<people, money, projects, allocator, photos, store, run, runs>>

AddPhoto(r) ==
    /\ AppStep
    /\ last_id' = last_id + 1
    /\ photos' = WithRow(photos, last_id + 1,
                   [image |-> None, project |-> lines[r].project, line |-> r, uploaded |-> TRUE])
    /\ store' = store \union {last_id + 1}
    /\ UNCHANGED <<people, money, projects, allocator, lines, run, runs>>

(* update_estimate removes a line that is on no invoice, with its links.    *)
RemoveLineItem(r) ==
    /\ AppStep
    /\ \A n \in DOMAIN invoices : r \notin invoices[n].lines
    /\ lines' = [s \in DOMAIN lines \ {r} |-> lines[s]]
    /\ photos' = [s \in DOMAIN photos |->
                    IF photos[s].line = r THEN [photos[s] EXCEPT !.line = None] ELSE photos[s]]
    /\ run' = [run EXCEPT !.removed = @ \union {r}]
    /\ UNCHANGED <<people, money, projects, allocator, store, last_id, runs>>

(***************************************************************************)
(* The whole                                                               *)
(***************************************************************************)

Init ==
    /\ employees = Staff
    /\ contacts = Nothing /\ clients = {} /\ skills = {}
    /\ projects = Nothing /\ allocator = [next |-> 1, raised |-> FALSE]
    /\ lines = Nothing /\ photos = Nothing /\ store = {}
    /\ invoices = Nothing /\ payments = Nothing
    /\ run = Idle
    /\ last_id = Cardinality(DOMAIN Staff)
    /\ runs = 0 /\ app_steps = 0

ImportStep ==
    \/ ReadPhotos \/ ReadRows
    \/ ImportEmployees \/ ImportClients \/ ImportWorkSkills
    \/ ImportProjects \/ ImportLineItems \/ ImportImages
    \/ \E phase \in {"line_objects", "image_objects"} : DeleteObjects(phase)
    \/ \E p \in DOMAIN run.photo_of, succeeds \in BOOLEAN : Upload(p, succeeds)
    \/ StoreKeys
    \/ ImportInvoices \/ ImportPayments

AppAction ==
    \/ \E c \in clients : CreateLead(c)
    \/ \E n \in DOMAIN projects, document \in {"estimate", "work_order"} : MoveDocument(n, document)
    \/ \E n \in DOMAIN projects : AddLineItem(n)
    \/ \E r \in DOMAIN lines : AddPhoto(r) \/ RemoveLineItem(r)

Next ==
    \/ \E exported \in Exports : Start(exported)
    \/ ImportStep
    \/ Crash
    \/ AppAction

Spec == Init /\ [][Next]_vars

(***************************************************************************)
(* Properties                                                              *)
(***************************************************************************)

(* After a crash at any point the import is run again, and no key refuses   *)
(* a row that an earlier run left behind (orchestrator, lines 98-100), but  *)
(* for two cases: a lead that the app made before the first import raised   *)
(* the allocator has a number of the export, or a user removed the line of  *)
(* an imported photo, whose row the context then misses.                   *)
ImportIsNotRefused ==
    run.refused =>
      \/ \E n \in Importable \cap DOMAIN projects : projects[n].in_app = "early"
      \/ \E r \in DOMAIN photos : photos[r].image # None /\ photos[r].line = None

(* A crash leaves at worst an orphan object, never a row pointing at a      *)
(* missing object (images.ts:239), whatever failed or was deleted.         *)
UploadedPhotosHaveObjects ==
    \A r \in DOMAIN photos : photos[r].uploaded => r \in store

(* When a run ends, the rows that came from ArboStar are those of its       *)
(* export, once each and linked as there, whatever earlier runs left.  The  *)
(* exception is a photo that sat on a line deleted by this very run: its    *)
(* row went with the line, and only the next run brings it back.  Lines that*)
(* the users of the app removed during the run stay away.                  *)
Finished == run.done = Phases
WentWithItsLine(p) ==
    /\ p \in KnownImages
    /\ LET r == context.photos[Named(context.photos, "image", p)].line
       IN r \in DOMAIN context.lines => r \notin DOMAIN lines
RunMirrorsTheExport ==
    Finished =>
      /\ \A i \in DOMAIN export.users : Cardinality(Row(employees, "user", export.users[i].user)) = 1
      /\ \A r, s \in DOMAIN employees : r # s => employees[r].identities \cap employees[s].identities = {}
      /\ \A c \in DOMAIN export.clients :
           /\ \A i \in DOMAIN export.clients[c] : Row(contacts, "contact", export.clients[c][i]) # {}
           /\ \E r \in Row(contacts, "client", c) : contacts[r].primary
           /\ Cardinality(Row(contacts, "client", c) \cap Row(contacts, "contact", None)) <= 1
      /\ \A l \in Importable : l \in DOMAIN projects /\ projects[l].client = export.leads[l].client
      /\ \A i \in Items :
           LET r == run.line_of[i]
           IN r \notin run.removed => lines[r].item = i /\ lines[r].project = ItemLead(i)
      /\ \A r \in DOMAIN lines : lines[r].project \in Importable => lines[r].item \in Items \union {None}
      /\ \A p \in {p \in Images : ~WentWithItsLine(p)} :
           LET r == Named(photos, "image", p)
           IN /\ Row(photos, "image", p) # {}
              /\ \/ photos[r].line = run.line_of[export.photos[p].item]
                 \/ run.line_of[export.photos[p].item] \in run.removed
                 \/ photos[r].line = None /\ context.photos[r].line \in run.removed
              /\ p \notin run.tried \ run.stored => photos[r].uploaded
      /\ \A r \in DOMAIN photos : photos[r].project \in Importable \cap export.scanned =>
                                    photos[r].image \in Images \union {None}
      /\ \A v \in Invoiced : invoices[export.invoices[v].number].invoice = v
      /\ \A q \in DOMAIN payments : payments[q] \subseteq DOMAIN invoices

(* The import leaves alone what was made in the app: line items, photos    *)
(* (which may lose the link to a line that is deleted) with their objects,  *)
(* and the leads whose numbers came from the raised allocator.             *)
InAppRowsStay ==
    [][app_steps' = app_steps =>
         /\ \A r \in Row(lines, "item", None) : r \in DOMAIN lines' /\ lines'[r] = lines[r]
         /\ \A r \in Row(photos, "image", None) :
              /\ r \in DOMAIN photos' \cap store'
              /\ photos'[r].line \in {photos[r].line, None}
              /\ photos[r].line \in DOMAIN lines' => photos'[r] = photos[r]
         /\ \A n \in Row(projects, "in_app", "late") : projects'[n] = projects[n]]_vars

(* Projects keep their past.  The import closes them but never reopens one, *)
(* and the first closing date stays, also when the lead comes back to life  *)
(* in ArboStar.  The last row of a history is the document the project is   *)
(* on, whoever moved it and although imports rewrite the history; they      *)
(* write none for a lead without a date of creation.                       *)
ClosingIsForGood ==
    [][\A n \in DOMAIN projects :
         /\ projects[n].closed => projects'[n].closed
         /\ projects[n].closed_at # None => projects'[n].closed_at = projects[n].closed_at]_vars
Undated == {n \in DOMAIN projects : \E x \in Exports : n \in DOMAIN x.leads /\ ~x.leads[n].created}
HistoryEndsAtTheDocument ==
    \A n \in DOMAIN projects \ Undated : Last(projects[n].history) = projects[n].document
ProjectsKeepTheirPast == ClosingIsForGood /\ []HistoryEndsAtTheDocument

(* What the code says of a rerun (orchestrator, lines 98-100: a crash is    *)
(* recovered by re-running, every row carries its correlation): no row of   *)
(* an earlier run makes a phase fail.                                      *)
RerunsAreAccepted == run.refused => \E n \in Importable \cap DOMAIN projects : projects[n].in_app = "early"

=============================================================================
