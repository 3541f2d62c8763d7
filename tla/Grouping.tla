------------------------------ MODULE Grouping ------------------------------
(***************************************************************************)
(* group_joined_rows.ts: the rows of a query that left-joins two lists of   *)
(* children to a table become a tree again.  A behaviour is a database      *)
(* whose joined rows come one by one, in an order that the database chooses.*)
(***************************************************************************)
EXTENDS Integers, Sequences, FiniteSets, SequencesExt

CONSTANTS
    Trees,  \* per parent key: [contacts, addresses], the sets of the keys of its children
    Null

VARIABLES tree, rows
vars == <<tree, rows>>

Joined(children) == IF children = {} THEN {Null} ELSE children
JoinedRows(t) == UNION {{[client |-> p, contacts |-> c, addresses |-> a] :
                            c \in Joined(t[p].contacts), a \in Joined(t[p].addresses)} : p \in DOMAIN t}

\* A left join without a match has no key.
IsMatched(key) == key # Null

\* The keys of a table, in the order that they come first in.
Keys(table, some_rows) ==
    FoldLeft(LAMBDA known, row : IF IsMatched(row[table]) /\ row[table] \notin ToSet(known)
                                 THEN Append(known, row[table]) ELSE known, <<>>, some_rows)

\* group_level, for a parent with two lists of children.
group_joined_rows(all_rows) ==
    LET parents == Keys("client", all_rows)
        Children(p, table) == Keys(table, SelectSeq(all_rows, LAMBDA row : row.client = p))
    IN  [i \in DOMAIN parents |-> [client |-> parents[i],
            contacts |-> Children(parents[i], "contacts"), addresses |-> Children(parents[i], "addresses")]]

ReadRow(row) ==
    /\ row \notin ToSet(rows)
    /\ rows' = Append(rows, row)
    /\ UNCHANGED tree

Init == tree \in Trees /\ rows = <<>>
Next == \E row \in JoinedRows(tree) : ReadRow(row)

\* Of the rows that came, every parent and every child is in the result once, children with their
\* own parent, however the product of the two lists repeats and mixes them, and a parent without
\* children has none (group_joined_rows).
GroupedIsTheTree ==
    LET result == group_joined_rows(rows)
        Is(list, keys) == Len(list) = Cardinality(keys) /\ ToSet(list) = keys
        Came(p, table) == {r[table] : r \in {row \in ToSet(rows) : row.client = p}} \cap tree[p][table]
    IN  /\ Is([i \in DOMAIN result |-> result[i].client], {row.client : row \in ToSet(rows)})
        /\ \A i \in DOMAIN result : \A table \in {"contacts", "addresses"} :
            Is(result[i][table], Came(result[i].client, table))
=============================================================================
