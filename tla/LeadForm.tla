------------------------------ MODULE LeadForm ------------------------------
(***************************************************************************)
(* The page that creates a lead (create_a_lead, lead_form.svelte.ts): three *)
(* tracked_records, for the client, the address and the contact of a new    *)
(* project, each either a row that is stored or one to be made.  A client   *)
(* is picked or cleared, its addresses and contacts are offered, all may be *)
(* typed over, and create_lead writes them in one transaction.             *)
(*                                                                         *)
(* Of a row, the model keeps whose it is and one text.  The effect that     *)
(* copies a new client to its contact runs before the next event, so it is  *)
(* part of every action.  Only the button is off during a save: a user may  *)
(* go on, and a record that then is to take other values throws.  After the *)
(* answer the page stays until the next one is loaded.                      *)
(***************************************************************************)
EXTENDS Integers, Sequences

CONSTANTS
    Texts, Blank,                  \* what can be typed, and the default
    FirstAddresses, FirstContacts, \* id -> the client whose it is, of the rows there are
    FirstClients,                  \* how many clients there are
    MaxSaves, MaxInputs,           \* bounds on saves, and on inputs typed into and boxes ticked
    None

VARIABLES
    client, address, contact,  \* records [id, in_db, form, saving]
    selected_client,           \* whose addresses and contacts are offered, or None
    different,                 \* project_contact_is_different_from_client
    contact_draft,
    billing_address,           \* a text, or None
    billing_draft,
    pending,                   \* the save in flight, or None
    refused,          \* the next page is being loaded; a record threw
    clients, addresses, contacts, projects,  \* the tables: id -> row
    saves, inputs

\* Assumed by the module that gives the constants their values.
LeadAssumption ==
    /\ FirstClients \in Nat
    /\ FirstAddresses \in Seq(1 .. FirstClients) /\ FirstContacts \in Seq(1 .. FirstClients)
    /\ None \notin Nat

drafts == <<different, contact_draft, billing_draft>>
form == <<client, address, contact, selected_client, billing_address>>
tables == <<clients, addresses, contacts, projects>>
vars == <<form, drafts, pending, refused, tables, saves, inputs>>

NewRecord == [id |-> None, in_db |-> None, form |-> Blank, saving |-> FALSE]
\* What set_values and clear leave behind.
Holding(rows, id) == [id |-> id, in_db |-> rows[id].text, form |-> rows[id].text, saving |-> FALSE]
Cleared == NewRecord
RowsOf(rows, owner) == {id \in DOMAIN rows : rows[id].client = owner}

\* Typing and ticking.
Input == inputs < MaxInputs /\ inputs' = inputs + 1

\* The effect: a contact that is not said to be another follows a new client.
Follow(c, k, is_different) ==
    IF c.id = None /\ ~is_different THEN [k EXCEPT !.form = c.form] ELSE k

Init ==
    /\ LET Rows(owners) == [id \in DOMAIN owners |-> [client |-> owners[id], text |-> Blank]]
       IN  addresses = Rows(FirstAddresses) /\ contacts = Rows(FirstContacts)
    /\ clients = [id \in 1 .. FirstClients |-> [text |-> Blank, billing |-> Blank]]
    /\ projects = <<>>
    /\ client = NewRecord /\ address = NewRecord /\ contact = NewRecord
    /\ selected_client = None
    /\ different = FALSE /\ contact_draft = None
    /\ billing_address = None /\ billing_draft = None
    /\ pending = None /\ refused = FALSE
    /\ saves = 0 /\ inputs = 0

-----------------------------------------------------------------------------
(* What the user does.                                                     *)

\* Any of its addresses may be its default, and any contact may be the one that
\* the search matched.
SetClient(id) ==
    /\ selected_client' = id
    /\ IF client.saving
       THEN /\ refused' = TRUE
            /\ UNCHANGED <<client, address, contact, billing_address>>
       ELSE /\ client' = Holding(clients, id)
            /\ billing_address' = None
            /\ IF RowsOf(addresses, id) = {} THEN address' = Cleared
               ELSE \E a \in RowsOf(addresses, id) : address' = Holding(addresses, a)
            /\ IF RowsOf(contacts, id) = {} THEN contact' = Cleared
               ELSE \E k \in RowsOf(contacts, id) : contact' = Holding(contacts, k)
            /\ UNCHANGED refused
    /\ UNCHANGED <<drafts, pending, tables, saves, inputs>>

\* (a mistake) the contact stays
ContactThatStays == Follow(Cleared, contact, different)
ClearedContact == Follow(Cleared, Cleared, different)

ClearClient ==
    /\ client.id # None
    /\ selected_client' = None
    /\ IF client.saving
       THEN refused' = TRUE /\ UNCHANGED <<client, address, contact>>
       ELSE /\ client' = Cleared /\ address' = Cleared /\ contact' = ClearedContact
            /\ UNCHANGED refused
    /\ UNCHANGED <<billing_address, drafts, pending, tables, saves, inputs>>

\* None is the option for a new row.
SetSavedAddress(id) ==
    /\ client.id # None
    /\ id # None => selected_client # None /\ id \in RowsOf(addresses, selected_client)
    /\ address' = IF address.saving THEN address
                  ELSE IF id = None THEN Cleared ELSE Holding(addresses, id)
    /\ refused' = (refused \/ address.saving)
    /\ UNCHANGED <<client, contact, selected_client, billing_address, drafts, pending, tables, saves, inputs>>

SetSavedContact(id) ==
    /\ client.id # None
    /\ id # None => selected_client # None /\ id \in RowsOf(contacts, selected_client)
    /\ contact' = IF contact.saving THEN contact
                  ELSE IF id = None THEN Cleared ELSE Holding(contacts, id)
    /\ refused' = (refused \/ contact.saving)
    /\ UNCHANGED <<client, address, selected_client, billing_address, drafts, pending, tables, saves, inputs>>

TypeClient(text) ==
    /\ Input
    /\ client.form # text
    /\ client' = [client EXCEPT !.form = text]
    /\ contact' = Follow(client', contact, different)
    /\ UNCHANGED <<address, selected_client, billing_address, drafts, pending, refused, tables, saves>>

TypeAddress(text) ==
    /\ Input
    /\ address.form # text
    /\ address' = [address EXCEPT !.form = text]
    /\ UNCHANGED <<client, contact, selected_client, billing_address, drafts, pending, refused, tables, saves>>

TypeContact(text) ==
    /\ Input
    /\ client.id # None \/ different
    /\ contact.form # text
    /\ contact' = [contact EXCEPT !.form = text]
    /\ UNCHANGED <<client, address, selected_client, billing_address, drafts, pending, refused, tables, saves>>

SetDifferent ==
    /\ Input
    /\ client.id = None
    /\ different' = ~different
    /\ contact_draft' = IF different THEN contact.form ELSE contact_draft
    /\ contact' = IF different THEN Follow(client, contact, FALSE)
                  ELSE IF contact_draft # None THEN [contact EXCEPT !.form = contact_draft] ELSE contact
    /\ UNCHANGED <<client, address, selected_client, billing_address, billing_draft,
                   pending, refused, tables, saves>>

SetBillingIsDifferent ==
    /\ Input
    /\ client.id = None
    /\ IF billing_address = None
       THEN /\ billing_address' = IF billing_draft # None THEN billing_draft ELSE address.form
            /\ UNCHANGED billing_draft
       ELSE billing_draft' = billing_address /\ billing_address' = None
    /\ UNCHANGED <<client, address, contact, selected_client, different, contact_draft,
                   pending, refused, tables, saves>>

TypeBilling(text) ==
    /\ Input
    /\ billing_address \notin {None, text}
    /\ billing_address' = text
    /\ UNCHANGED <<client, address, contact, selected_client, drafts, pending, refused, tables, saves>>

\* start_save: what is sent of a stored row is its id and what differs.
Sent(record) ==
    [id |-> record.id, text |-> IF record.form = record.in_db THEN None ELSE record.form]

Submit ==
    /\ pending = None
    /\ saves < MaxSaves
    /\ saves' = saves + 1
    /\ pending' = [client |-> Sent(client), address |-> Sent(address), contact |-> Sent(contact),
                   billing |-> billing_address]
    /\ client' = [client EXCEPT !.saving = TRUE]
    /\ address' = [address EXCEPT !.saving = TRUE]
    /\ contact' = [contact EXCEPT !.saving = TRUE]
    /\ UNCHANGED <<selected_client, billing_address, drafts, refused, tables, inputs>>

-----------------------------------------------------------------------------
(* create_lead, and what becomes of its answer.                            *)

Id(sent, rows) == IF sent.id = None THEN Len(rows) + 1 ELSE sent.id
\* A row of its own client, or an update of nothing but the text.
Upserted(rows, sent, owner) ==
    IF sent.id = None THEN Append(rows, [client |-> owner, text |-> sent.text])
    ELSE IF sent.text = None THEN rows
    ELSE [rows EXCEPT ![sent.id].text = sent.text]

Committed(record, sent, id) ==
    [record EXCEPT !.id = id, !.in_db = IF sent.text = None THEN @ ELSE sent.text, !.saving = FALSE]
Discarded(record) == [record EXCEPT !.saving = FALSE]

\* An answer that is lost leaves the page as a refusal does.
CreateLead(answered) ==
    /\ pending # None
    /\ LET c == Id(pending.client, clients)
           a == Id(pending.address, addresses)
           k == Id(pending.contact, contacts)
       IN  /\ addresses' = Upserted(addresses, pending.address, c)
           /\ contacts' = Upserted(contacts, pending.contact, c)
           /\ clients' =
                IF pending.client.id = None
                THEN Append(clients, [text |-> pending.client.text,
                                      billing |-> IF pending.billing = None THEN addresses'[a].text ELSE pending.billing])
                ELSE IF pending.client.text = None THEN clients
                ELSE [clients EXCEPT ![c].text = pending.client.text]
           /\ projects' = Append(projects, [client |-> c, address |-> a, contact |-> k, place |-> addresses'[a].text])
           /\ client' = IF answered THEN Committed(client, pending.client, c) ELSE Discarded(client)
           /\ address' = IF answered THEN Committed(address, pending.address, a) ELSE Discarded(address)
           /\ contact' = IF answered THEN Committed(contact, pending.contact, k) ELSE Discarded(contact)
    /\ pending' = None
    /\ UNCHANGED <<selected_client, billing_address, drafts, refused, saves, inputs>>

SaveFails ==
    /\ pending # None
    /\ pending' = None
    /\ client' = Discarded(client) /\ address' = Discarded(address) /\ contact' = Discarded(contact)
    /\ UNCHANGED <<selected_client, billing_address, drafts, refused, tables, saves, inputs>>

\* The page is left by "Cancel", or because of its answer, when the next one is
\* loaded; and it is entered again.
Leave ==
    /\ pending = None
    /\ client' = NewRecord /\ address' = NewRecord /\ contact' = NewRecord
    /\ selected_client' = None
    /\ different' = FALSE /\ contact_draft' = None
    /\ billing_address' = None /\ billing_draft' = None
    /\ UNCHANGED <<pending, refused, tables, saves, inputs>>

Next ==
    \/ \E id \in DOMAIN clients : SetClient(id)
    \/ ClearClient
    \/ \E id \in DOMAIN addresses \cup {None} : SetSavedAddress(id)
    \/ \E id \in DOMAIN contacts \cup {None} : SetSavedContact(id)
    \/ \E text \in Texts \cup {Blank} :
         TypeClient(text) \/ TypeAddress(text) \/ TypeContact(text) \/ TypeBilling(text)
    \/ SetDifferent
    \/ SetBillingIsDifferent
    \/ Submit
    \/ \E answered \in BOOLEAN : CreateLead(answered)
    \/ SaveFails
    \/ Leave

Spec == Init /\ [][Next]_vars

-----------------------------------------------------------------------------
\* Whatever was picked, cleared, ticked and typed before, also in earlier saves that
\* failed: a lead has an address and a contact of its own client, though the server
\* checks only that they exist; and a new client whose contact was not said to be
\* another is its own contact.  It takes that no record ever threw
\* (lead_form.svelte.ts:60-80, ContactSelector.svelte:37-43, lead.fns.ts:91-110).
LeadsAreOneClients ==
    ~refused =>
        /\ \A i \in DOMAIN projects :
             /\ addresses[projects[i].address].client = projects[i].client
             /\ contacts[projects[i].contact].client = projects[i].client
        /\ client.id = None /\ ~different => contact.id = None /\ contact.form = client.form
=============================================================================
