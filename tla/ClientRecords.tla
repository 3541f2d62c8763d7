---------------------------- MODULE ClientRecords ----------------------------
(***************************************************************************)
(* The records of one client, its addresses and contacts, and the two      *)
(* server functions that change them, each in one transaction: create_lead *)
(* for a client that exists, and update_client.  Several run at once, from *)
(* several pages.                                                          *)
(*                                                                         *)
(* Nothing but the code keeps the rows consistent: there are no foreign    *)
(* keys, and no unique key on sort.                                        *)
(*                                                                         *)
(* Abstractions.  A row holds the columns that refer to other rows, and    *)
(* sort.  A transaction's arguments are chosen when they are used, among   *)
(* the ids its snapshot holds: with any other id it fails its first        *)
(* checks.  A new row is named after the transaction that inserts it       *)
(* (auto-increment ids are never used twice, also after a rollback), and a *)
(* request adds at most one address and one contact and changes at most    *)
(* one of each.  Statements that only touch rows nobody else can see (the  *)
(* project, its history and its availability) go with the statement before *)
(* them.                                                                   *)
(***************************************************************************)
EXTENDS Integers, FiniteSetsExt

CONSTANTS
  Leads,      \* the requests to create_lead
  Updates,    \* the requests to update_client
  Addresses,  \* the addresses the client has at first
  Contacts,   \* the contacts it has at first
  None,       \* no contact, no row
  NoRow

ASSUME RecordsAssumption ==
  /\ Leads \cap Updates = {}
  /\ (Leads \cup Updates) \cap (Addresses \cup Contacts) = {}
  /\ Addresses # {}
  /\ None \notin Leads \cup Updates \cup Addresses \cup Contacts
  /\ IsFiniteSet(Leads \cup Updates \cup Addresses \cup Contacts)

VARIABLES
  stored, snapshot, written, locks,
  step,     \* step[t]: the statement transaction t is at
  picked,   \* picked[t]: the address and the contact of lead t
  in_use    \* in_use[t]: the rows update t has found in use

Transactions == Leads \cup Updates
AddressIds   == Addresses \cup Transactions
ContactIds   == Contacts \cup Transactions

Client     == <<"client", None>>
Source     == <<"lead_source", None>>      \* the lead source of one name
Number     == <<"project_number", None>>   \* the company's next project number
Address(a) == <<"client_address", a>>
Contact(c) == <<"client_contact", c>>
Project(l) == <<"project", l>>

AddressKeys == {Address(a) : a \in AddressIds}
ContactKeys == {Contact(c) : c \in ContactIds}
ProjectKeys == {Project(l) : l \in Leads}
Keys == {Client, Source, Number} \cup AddressKeys \cup ContactKeys \cup ProjectKeys

INSTANCE Database

database == <<stored, snapshot, written, locks>>
vars == <<database, step, picked, in_use>>

-----------------------------------------------------------------------------
(* Statements both functions use.                                          *)

\* The ids of the rows a request may name.
Known(t, keys) == {k[2] : k \in {k \in keys : snapshot[t][k] # NoRow}}

\* get_next_sort: SELECT MAX(sort) ... FOR UPDATE.
NextSort(t, keys) ==
  Max({0} \cup {Current(t)[k].sort : k \in {k \in keys : Current(t)[k] # NoRow}}) + 1

\* (a mistake) get_next_sort without FOR UPDATE
InsertAddressWithoutForUpdate(t, contact) ==
  Execute(t, {Address(t)}, One(Address(t),
    [sort |-> Max({0} \cup {View(t)[k].sort : k \in {k \in AddressKeys : View(t)[k] # NoRow}}) + 1,
     contact |-> contact]))

InsertAddress(t, contact) ==
  Execute(t, AddressKeys, One(Address(t), [sort |-> NextSort(t, AddressKeys), contact |-> contact]))

InsertContact(t) ==
  Execute(t, ContactKeys, One(Contact(t), [sort |-> NextSort(t, ContactKeys)]))

\* UPDATE ... WHERE id = ...: a row that is gone is not matched, and nobody asks.
Update(t, key, row) ==
  Execute(t, {key}, IF Current(t)[key] = NoRow THEN NoRows ELSE One(key, row))

Touch(t, key) == Update(t, key, Current(t)[key])

\* An optional part of the request is left out.
Omit == UNCHANGED database

Goes(t, from, to) == step[t] = from /\ step' = [step EXCEPT ![t] = to]

-----------------------------------------------------------------------------
(* create_lead.                                                            *)

BeginLead(t) ==
  /\ Goes(t, "new", "address")
  /\ Begin(t)
  /\ UNCHANGED <<picked, in_use>>

\* The address is a new one, or one the client has, with or without changes.
LeadAddress(t) ==
  /\ Goes(t, "address", "client")
  /\ \/ InsertAddress(t, None) /\ picked' = [picked EXCEPT ![t].address = t]
     \/ \E a \in Known(t, AddressKeys) :
          /\ Touch(t, Address(a)) \/ Omit
          /\ picked' = [picked EXCEPT ![t].address = a]
  /\ UNCHANGED in_use

LeadClient(t) ==
  /\ Goes(t, "client", "contact")
  /\ Touch(t, Client) \/ Omit
  /\ UNCHANGED <<picked, in_use>>

LeadContact(t) ==
  /\ Goes(t, "contact", "source")
  /\ \/ InsertContact(t) /\ picked' = [picked EXCEPT ![t].contact = t]
     \/ \E c \in Known(t, ContactKeys) :
          /\ Touch(t, Contact(c)) \/ Omit
          /\ picked' = [picked EXCEPT ![t].contact = c]
  /\ UNCHANGED in_use

\* insert_lead_source: when the name is taken by now, the row is read instead.  A lead
\* without a new lead source goes on.
LeadSource(t) ==
  /\ \/ Goes(t, "source", "project") /\ Omit
     \/ /\ Current(t)[Source] = NoRow
        /\ Goes(t, "source", "project")
        /\ Execute(t, {Source}, One(Source, "row"))
     \/ /\ Current(t)[Source] # NoRow
        /\ Goes(t, "source", IF View(t)[Source] # NoRow THEN "project" ELSE "source_missing")
        /\ Free(t, {Source})
        /\ Omit
  /\ UNCHANGED <<picked, in_use>>

\* get_next_project_number_and_increment: LAST_INSERT_ID(next_number) + 1.
NextNumber(t) == Current(t)[Number].next

\* The company's next project number, and the project with that number.
InsertProject(t) ==
  /\ Goes(t, "project", "commit")
  /\ Execute(t, {Number, Project(t)},
       Over(One(Number, [next |-> NextNumber(t) + 1]), One(Project(t), [picked[t] EXCEPT !.number = NextNumber(t)])))
  /\ UNCHANGED <<picked, in_use>>

-----------------------------------------------------------------------------
(* update_client.                                                          *)

BeginUpdate(t) ==
  /\ Goes(t, "new", "change_client")
  /\ Begin(t)
  /\ UNCHANGED <<picked, in_use>>

\* Changes of the client's own fields, perhaps of its default project address.
ChangeClient(t) ==
  /\ Goes(t, "change_client", "add_contacts")
  /\ \/ Omit
     \/ \E a \in Known(t, AddressKeys) :
          Update(t, Client, [Current(t)[Client] EXCEPT !.default = a])
  /\ UNCHANGED <<picked, in_use>>

AddContacts(t) ==
  /\ Goes(t, "add_contacts", "change_contacts")
  /\ InsertContact(t) \/ Omit
  /\ UNCHANGED <<picked, in_use>>

ChangeContacts(t) ==
  /\ Goes(t, "change_contacts", "add_addresses")
  /\ Omit \/ \E c \in Known(t, ContactKeys) : Touch(t, Contact(c))
  /\ UNCHANGED <<picked, in_use>>

AddAddresses(t) ==
  /\ Goes(t, "add_addresses", "change_addresses")
  /\ Omit \/ \E c \in Known(t, ContactKeys) \cup {None} : InsertAddress(t, c)
  /\ UNCHANGED <<picked, in_use>>

ChangeAddresses(t) ==
  /\ Goes(t, "change_addresses", "check")
  /\ \/ Omit
     \/ \E a \in Known(t, AddressKeys), c \in Known(t, ContactKeys) \cup {None} :
          Update(t, Address(a), [Current(t)[Address(a)] EXCEPT !.contact = c])
  /\ UNCHANGED <<picked, in_use>>

\* The rows that the rows of s refer to.
ReferredTo(s) ==
  LET projects  == {s[k] : k \in {k \in ProjectKeys : s[k] # NoRow}}
      addresses == {s[k] : k \in {k \in AddressKeys : s[k] # NoRow}}
  IN {Address(s[Client].default)}
       \cup {Address(p.address) : p \in projects} \cup {Contact(p.contact) : p \in projects}
       \cup {Contact(a.contact) : a \in {a \in addresses : a.contact # None}}

\* (a mistake) the references are looked up before the request's own changes
CheckInUseBeforeTheChanges(t) ==
  /\ Goes(t, "check", "remove_addresses")
  /\ in_use' = [in_use EXCEPT ![t] = ReferredTo(snapshot[t])]
  /\ UNCHANGED <<database, picked>>

\* select_client_address_ids_in_use and select_client_contact_ids_in_use.
CheckInUse(t) ==
  /\ Goes(t, "check", "remove_addresses")
  /\ in_use' = [in_use EXCEPT ![t] = ReferredTo(View(t))]
  /\ UNCHANGED <<database, picked>>

\* The rows are locked, none may be in use, and each must still be there.
Remove(t, keys) ==
  /\ keys \cap in_use[t] = {}
  /\ \A k \in keys : Current(t)[k] # NoRow
  /\ Execute(t, keys, [k \in keys |-> NoRow])

RemoveAddresses(t) ==
  /\ Goes(t, "remove_addresses", "remove_contacts")
  /\ \E ids \in SUBSET Known(t, AddressKeys) : Remove(t, {Address(a) : a \in ids})
  /\ UNCHANGED <<picked, in_use>>

RemoveContacts(t) ==
  /\ Goes(t, "remove_contacts", "commit")
  /\ \E ids \in SUBSET Known(t, ContactKeys) : Remove(t, {Contact(c) : c \in ids})
  /\ UNCHANGED <<picked, in_use>>

-----------------------------------------------------------------------------
Nobody == [address |-> None, contact |-> None, number |-> 0]

Forget(t) ==
  /\ picked' = [picked EXCEPT ![t] = Nobody]
  /\ in_use' = [in_use EXCEPT ![t] = {}]

Finish(t) ==
  /\ Goes(t, "commit", "done")
  /\ Commit(t)
  /\ Forget(t)

\* An assertion fails, the worker or the connection breaks, or the database picks t as the
\* victim of a deadlock.
Abort(t) ==
  /\ step[t] \notin {"new", "done"}
  /\ Goes(t, step[t], "done")
  /\ Rollback(t)
  /\ Forget(t)

\* A client with its first addresses and contacts, numbered in any order.
Numberings(S, first) ==
  {f \in [S -> first .. first + Cardinality(S) - 1] : \A x, y \in S : f[x] = f[y] => x = y}

FirstRow(k, default, address_sort, contact_sort, address_contact) ==
  CASE k = Client -> [default |-> default]
    [] k = Number -> [next |-> 1]
    [] k \in {Address(a) : a \in Addresses} -> [sort |-> address_sort[k[2]], contact |-> address_contact[k[2]]]
    [] k \in {Contact(c) : c \in Contacts} -> [sort |-> contact_sort[k[2]]]
    [] OTHER -> NoRow

Init ==
  /\ \E default \in Addresses, address_sort \in Numberings(Addresses, 0),
        contact_sort \in Numberings(Contacts, 1), address_contact \in [Addresses -> Contacts \cup {None}] :
       stored = [k \in Keys |-> FirstRow(k, default, address_sort, contact_sort, address_contact)]
  /\ snapshot = [t \in Transactions |-> NoRows]
  /\ written = [t \in Transactions |-> NoRows]
  /\ locks = [t \in Transactions |-> {}]
  /\ step = [t \in Transactions |-> "new"]
  /\ picked = [t \in Transactions |-> Nobody]
  /\ in_use = [t \in Transactions |-> {}]

Lead(t) == BeginLead(t) \/ LeadAddress(t) \/ LeadClient(t) \/ LeadContact(t) \/ LeadSource(t) \/ InsertProject(t)

UpdateClient(t) ==
  \/ BeginUpdate(t)
  \/ ChangeClient(t)
  \/ AddContacts(t)
  \/ ChangeContacts(t)
  \/ AddAddresses(t)
  \/ ChangeAddresses(t)
  \/ CheckInUse(t)
  \/ RemoveAddresses(t)
  \/ RemoveContacts(t)

Next ==
  \/ \E t \in Leads : Lead(t)
  \/ \E t \in Updates : UpdateClient(t)
  \/ \E t \in Transactions : Finish(t) \/ Abort(t)

Spec == Init /\ [][Next]_vars

\* For TLC: the leads are interchangeable.
LeadSymmetry == {[l \in Leads |-> IF l = a THEN b ELSE IF l = b THEN a ELSE l] : a, b \in Leads}

-----------------------------------------------------------------------------
Steps == {"new", "address", "client", "contact", "source", "source_missing", "project",
          "change_client", "add_contacts", "change_contacts", "add_addresses", "change_addresses",
          "check", "remove_addresses", "remove_contacts", "commit", "done"}

AddressRows == [sort : Nat, contact : ContactIds \cup {None}]
ContactRows == [sort : Nat]
ProjectRows == [address : AddressIds \cup {None}, contact : ContactIds \cup {None}, number : Nat]

\* No row looks like one that does not exist.
ASSUME NoRowAssumption ==
  NoRow \notin AddressRows \cup ContactRows \cup ProjectRows \cup [next : Nat] \cup [default : AddressIds] \cup {"row"}

RowOK(k, row) ==
  \/ row = NoRow
  \/ k = Client /\ row \in [default : AddressIds]
  \/ k = Source /\ row = "row"
  \/ k = Number /\ row \in [next : Nat \ {0}]
  \/ k \in AddressKeys /\ row \in AddressRows
  \/ k \in ContactKeys /\ row \in ContactRows
  \/ k \in ProjectKeys /\ row \in ProjectRows

RowsOK(rows) == DOMAIN rows \subseteq Keys /\ \A k \in DOMAIN rows : RowOK(k, rows[k])

\* No row is locked twice, and whatever is written is locked.
DatabaseOK ==
  /\ DOMAIN stored = Keys /\ RowsOK(stored)
  /\ DOMAIN snapshot = Transactions /\ DOMAIN written = Transactions /\ DOMAIN locks = Transactions
  /\ \A t \in Transactions :
       /\ RowsOK(snapshot[t]) /\ DOMAIN snapshot[t] \in {{}, Keys}
       /\ RowsOK(written[t])
       /\ DOMAIN written[t] \subseteq locks[t]
       /\ locks[t] \subseteq Keys
       /\ Free(t, locks[t])

\* The types, and what holds of the locks.  What in_use holds only removals read.
TypeOK ==
  /\ DatabaseOK
  /\ step \in [Transactions -> Steps]
  /\ picked \in [Transactions -> [address : AddressIds \cup {None}, contact : ContactIds \cup {None}, number : {0}]]

\* However the requests overlap, no two addresses and no two contacts of the client have
\* the same place in its lists.
SortsAreDistinct ==
  \A keys \in {AddressKeys, ContactKeys} : \A j, k \in keys :
    stored[j] # NoRow /\ stored[k] # NoRow /\ stored[j].sort = stored[k].sort => j = k

\* The stored projects are numbered without a gap and without a number given twice, also
\* when transactions that had taken a number are rolled back.
NumbersHaveNoGaps ==
  LET projects == {l \in Leads : stored[Project(l)] # NoRow} IN
  /\ {stored[Project(l)].number : l \in projects} = 1 .. stored[Number].next - 1
  /\ Cardinality(projects) = stored[Number].next - 1

\* No order of the requests, and no request that fails, gives a place or a number twice.
PlacesAndNumbersAreRight == SortsAreDistinct /\ NumbersHaveNoGaps

ReferencesExist(s) == \A k \in ReferredTo(s) : s[k] # NoRow

\* A request that sees all that was committed before it leaves no reference to a row that
\* is gone, whatever it adds, changes and removes at once.
SerialRequestsKeepReferences ==
  [][\A t \in Transactions :
       Goes(t, "commit", "done") /\ snapshot[t] = stored /\ ReferencesExist(stored) => ReferencesExist(stored')]_vars

\* "This address is used by a project or is the default project address and cannot be
\* deleted", and so for contacts: no address or contact that is in use is gone.
InUseIsNeverDeleted == ReferencesExist(stored)

=============================================================================
