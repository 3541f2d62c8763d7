-------------------------- MODULE MCArbostarImport --------------------------
(* Exports for TLC: what ArboStar may hold at the moments it is exported.   *)
EXTENDS ArbostarImport

CONSTANTS u1, u2, u3, c1, c2, k1, k2, i1, i2, p1, p2, v1, v2, q1

(* Row 1 is an employee whom u1 finds by identity, row 2 one whom u2 finds  *)
(* by name.  u3 has the identity of u1 and one that another company took.   *)
Ident(mail) == <<"mail", mail>>
MCStaff == 1 :> [name |-> "ann", identities |-> {Ident("ann@x")}, user |-> None]
           @@ 2 :> [name |-> "bob", identities |-> {Ident("bob@x")}, user |-> None]
MCTakenElsewhere == {Ident("cid@x")}
Ann == [user |-> u1, name |-> "ann b.", identities |-> {Ident("ann@x")}]
Bob == [user |-> u2, name |-> "bob", identities |-> {Ident("bob@y")}]
Cid == [user |-> u3, name |-> "cid", identities |-> {Ident("cid@x"), Ident("ann@x")}]

\* Lead 2 has no date of creation.
Lead(client, status, estimates, workorders, date) ==
    [client |-> client, status |-> status, estimates |-> estimates, workorders |-> workorders,
     invoiced |-> FALSE, date |-> date, created |-> client = c1]
Item(lead) == [lead |-> lead, phantom |-> None, skill |-> "CL"]
Photo(lead, item) == [lead |-> lead, item |-> item]
Invoice(items) == [number |-> 10, client |-> c1, lead |-> 1, items |-> items]

(* A new lead with two items, a photo, an invoice and a payment.           *)
First ==
    [users |-> <<Ann, Cid, Bob>>, clients |-> c1 :> <<>>, skills |-> {"CL"},
     leads |-> 1 :> Lead(c1, "new", {"live"}, {}, None),
     items |-> i1 :> Item(1) @@ i2 :> Item(1),
     photos |-> p1 :> Photo(1, i1), scanned |-> {1},
     invoices |-> v1 :> Invoice({i1}), payments |-> q1 :> [client |-> c1, invoices |-> {v1}]]

(* It is declined, a second lead takes over one of its items; the client    *)
(* has contacts now, and the invoice was made again.                       *)
Declined ==
    [First EXCEPT
       !.users = <<Cid, Ann, Bob>>, !.clients = c1 :> <<k1, k2>> @@ c2 :> <<>>,
       !.leads = 1 :> Lead(c1, "new", {"declined"}, {}, "d1") @@ 2 :> Lead(c2, "draft", {}, {}, None),
       !.items = i1 :> Item(1) @@ i2 :> Item(2),
       !.photos = p1 :> Photo(1, i1) @@ p2 :> Photo(2, i2), !.scanned = {1, 2},
       !.invoices = v2 :> Invoice({i1}), !.payments = q1 :> [client |-> c1, invoices |-> {v2}]]

(* It came back to life and its work is done; an item was dropped and its   *)
(* photo moved to the other one, the contacts are in another order.        *)
Done ==
    [First EXCEPT
       !.users = <<Bob, Ann, Cid>>, !.clients = c1 :> <<k2, k1>>,
       !.leads = 1 :> Lead(c1, "new", {"declined", "live"}, {"finished"}, "d2"),
       !.items = i2 :> [Item(2) EXCEPT !.phantom = 1],
       !.photos = p1 :> Photo(1, i2),
       !.invoices = v1 :> Invoice({}), !.payments = q1 :> [client |-> c1, invoices |-> {v1}]]

(* A partial export: one of two leads, and no photo was looked for.        *)
Partial ==
    [First EXCEPT
       !.users = <<>>, !.clients = c2 :> <<>>,
       !.leads = 2 :> Lead(c2, "no_go", {"live"}, {}, None),
       !.items = i1 :> Item(2), !.photos = [p \in {} |-> None], !.scanned = {},
       !.invoices = [v \in {} |-> None], !.payments = [q \in {} |-> None]]

MCExports == {First, Declined, Done, Partial}
=============================================================================
