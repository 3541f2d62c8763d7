------------------------- MODULE ClientRecordsProofs -------------------------
(***************************************************************************)
(* Places in the lists of a client and project numbers stay distinct for   *)
(* any number of leads and updates that run at once and are rolled back at *)
(* any statement.  The argument is about locks: whoever gives out a place  *)
(* or a number has locked all that it depends on until it commits.  The    *)
(* second part is about references, which are kept by what a request has   *)
(* read, and only as long as that is what is stored.                       *)
(***************************************************************************)
EXTENDS ClientRecords, FiniteSetTheorems, WellFoundedInduction, TLAPS

Lists == {AddressKeys, ContactKeys}

\* What transaction t has done to a list left every row that remains at its place.
KeepsPlaces(t, list) ==
  \A k \in list : Current(t)[k] # NoRow => stored[k] # NoRow /\ Current(t)[k].sort = stored[k].sort
PlacesDiffer(rows, list) ==
  \A j, k \in list : rows[j] # NoRow /\ rows[k] # NoRow /\ rows[j].sort = rows[k].sort => j = k

(* The strengthening: a transaction that does not keep the places of a list *)
(* holds the whole of it, and has given distinct ones.                      *)
PlacesAreRight(list) ==
  /\ PlacesDiffer(stored, list)
  /\ \A t \in Transactions :
       KeepsPlaces(t, list) \/ (list \subseteq locks[t] /\ PlacesDiffer(Current(t), list))

(* And one that has taken a number has it, and its project, locked.        *)
Projects(rows) == {l \in Leads : rows[Project(l)] # NoRow}
NoGaps(rows) ==
  /\ {rows[Project(l)].number : l \in Projects(rows)} = 1 .. rows[Number].next - 1
  /\ Cardinality(Projects(rows)) = rows[Number].next - 1

TakesNoNumber(t) == DOMAIN written[t] \cap (ProjectKeys \cup {Number}) = {}
TakesTheNext(t) ==
  /\ t \in Leads /\ step[t] = "commit"
  /\ DOMAIN written[t] \cap (ProjectKeys \cup {Number}) = {Number, Project(t)}
  /\ written[t][Number] # NoRow /\ written[t][Number].next = stored[Number].next + 1
  /\ written[t][Project(t)] # NoRow /\ written[t][Project(t)].number = stored[Number].next

NumbersAreLocked ==
  /\ stored[Number] # NoRow /\ NoGaps(stored)
  /\ \A l \in Leads : step[l] # "done" => stored[Project(l)] = NoRow
  /\ \A t \in Transactions : TakesNoNumber(t) \/ TakesTheNext(t)

IInv == TypeOK /\ (\A list \in Lists : PlacesAreRight(list)) /\ NumbersAreLocked

-----------------------------------------------------------------------------
(* The rows and their keys.                                                *)

LEMMA KeysDiffer ==
  /\ \A k \in AddressKeys : k \notin ContactKeys \cup ProjectKeys \cup {Client, Source, Number}
  /\ \A k \in ContactKeys : k \notin AddressKeys \cup ProjectKeys \cup {Client, Source, Number}
  /\ \A k \in ProjectKeys : k \notin AddressKeys \cup ContactKeys \cup {Client, Source, Number}
  /\ Client # Source /\ Client # Number /\ Source # Number
BY DEF AddressKeys, ContactKeys, ProjectKeys, Address, Contact, Project, Client, Source, Number

LEMMA KeysOfTables ==
  /\ AddressKeys \subseteq Keys /\ ContactKeys \subseteq Keys /\ ProjectKeys \subseteq Keys
  /\ {Client, Source, Number} \subseteq Keys
  /\ \A a \in AddressIds : Address(a) \in AddressKeys
  /\ \A c \in ContactIds : Contact(c) \in ContactKeys
  /\ \A l \in Leads : Project(l) \in ProjectKeys
  /\ \A l, m \in Leads : Project(l) = Project(m) => l = m
  /\ Transactions \subseteq AddressIds /\ Transactions \subseteq ContactIds
BY DEF Keys, AddressKeys, ContactKeys, ProjectKeys, Address, Contact, Project, AddressIds, ContactIds

\* The ids that a request may name are ids of the table.
LEMMA KnownIds ==
  ASSUME NEW t
  PROVE  Known(t, AddressKeys) \subseteq AddressIds /\ Known(t, ContactKeys) \subseteq ContactIds
<1>1. \A k \in AddressKeys : k[2] \in AddressIds
  BY DEF AddressKeys, Address
<1>2. \A k \in ContactKeys : k[2] \in ContactIds
  BY DEF ContactKeys, Contact
<1> QED
  BY <1>1, <1>2 DEF Known

\* A finite set of numbers has a largest one.
LEMMA LargestNumber ==
  ASSUME NEW S, S \subseteq Nat, S # {}, IsFiniteSet(S)
  PROVE  Max(S) \in S /\ \A n \in S : n <= Max(S)
<1> DEFINE HasLargest(T) == \E x \in T : \A y \in T : x >= y
           less == OpToRel(<, Nat)
           sizes == {Cardinality(T) : T \in {T \in SUBSET S : T # {} /\ ~ HasLargest(T)}}
<1>1. HasLargest(S)
  <2> SUFFICES ASSUME ~ HasLargest(S)
               PROVE  FALSE
    OBVIOUS
  <2>1. sizes \subseteq Nat /\ sizes # {}
    <3>1. \A T \in SUBSET S : Cardinality(T) \in Nat
      BY FS_Subset, FS_CardinalityType
    <3> HIDE DEF HasLargest
    <3> QED
      BY <3>1
  <2>2. IsWellFoundedOn(less, Nat)
    BY NatLessThanWellFounded
  <2>3. PICK m \in sizes : \A n \in sizes : ~ (<<n, m>> \in less)
    <3> HIDE DEF sizes, less
    <3> QED
      BY <2>1, <2>2, WFMin
  <2>4. PICK T \in SUBSET S : T # {} /\ ~ HasLargest(T) /\ Cardinality(T) = m
    <3> HIDE DEF HasLargest, less
    <3> QED
      BY <2>3
  <2>5. PICK x \in T : TRUE
    BY <2>4
  <2>6. /\ IsFiniteSet(T) /\ IsFiniteSet(T \ {x}) /\ T \subseteq Nat
        /\ Cardinality(T \ {x}) = m - 1 /\ m \in Nat /\ m - 1 \in Nat
    <3>1. IsFiniteSet(T)
      BY FS_Subset
    <3>2. Cardinality(T \ {x}) = Cardinality(T) - 1 /\ IsFiniteSet(T \ {x})
      BY <2>5, <3>1, FS_RemoveElement
    <3>3. Cardinality(T) \in Nat /\ Cardinality(T \ {x}) \in Nat
      BY <3>1, <3>2, FS_CardinalityType
    <3> QED
      BY <2>4, <3>1, <3>2, <3>3
  <2>7. CASE T \ {x} = {}
    <3>1. \A y \in T : x >= y
      BY <2>5, <2>6, <2>7
    <3> QED
      BY <2>4, <2>5, <3>1
  <2>8. CASE T \ {x} # {}
    <3>1. m - 1 \notin sizes
      <4>1. <<m - 1, m>> \in Nat \X Nat /\ <<m - 1, m>>[1] < <<m - 1, m>>[2]
        BY <2>6
      <4>2. <<m - 1, m>> \in less
        BY <4>1, Zenon DEF OpToRel
      <4> HIDE DEF sizes, less
      <4> QED
        BY <2>3, <4>2
    <3>2. HasLargest(T \ {x})
      <4> HIDE DEF HasLargest
      <4> QED
        BY <2>6, <2>8, <3>1
    <3>3. PICK y \in T \ {x} : \A z \in T \ {x} : y >= z
      BY <3>2
    <3>4. x \in Nat /\ y \in Nat /\ \A z \in T : z \in Nat
      BY <2>5, <2>6, <3>3
    <3>5. CASE x >= y
      <4>1. \A z \in T : x >= z
        BY <3>3, <3>4, <3>5
      <4> QED
        BY <2>4, <2>5, <4>1
    <3>6. CASE y >= x
      <4>1. \A z \in T : y >= z
        BY <3>3, <3>4, <3>6
      <4> QED
        BY <2>4, <3>3, <4>1
    <3> QED
      BY <3>4, <3>5, <3>6
  <2> QED
    BY <2>7, <2>8
<1>2. Max(S) \in S /\ \A n \in S : Max(S) >= n
  BY <1>1 DEF Max
<1>3. \A n \in S : n \in Nat
  OBVIOUS
<1> QED
  BY <1>2, <1>3

-----------------------------------------------------------------------------
(* Statements and ends of transactions.                                    *)

LEMMA TypesOfRows ==
  ASSUME NEW k \in Keys, NEW row, RowOK(k, row), row # NoRow
  PROVE  /\ k \in AddressKeys => row \in AddressRows
         /\ k \in ContactKeys => row \in ContactRows
         /\ k \in ProjectKeys => row \in ProjectRows
         /\ k = Number => row \in [next : Nat \ {0}]
         /\ k = Client => row \in [default : AddressIds]
BY KeysDiffer DEF RowOK

\* What a transaction finds and what is stored is of the right types.
LEMMA RowsAreTyped ==
  ASSUME DatabaseOK, NEW t \in Transactions
  PROVE  /\ DOMAIN Current(t) = Keys /\ RowsOK(Current(t))
         /\ \A k \in Keys : Current(t)[k] = IF k \in DOMAIN written[t] THEN written[t][k] ELSE stored[k]
         /\ RowsOK(stored) /\ DOMAIN stored = Keys /\ RowsOK(written[t]) /\ DOMAIN written[t] \subseteq Keys
<1>1. /\ RowsOK(stored) /\ DOMAIN stored = Keys /\ RowsOK(written[t]) /\ DOMAIN written[t] \subseteq Keys
  BY DEF DatabaseOK, RowsOK
<1>2. DOMAIN Current(t) = Keys
  BY <1>1 DEF Current, Over
<1>3. \A k \in Keys : Current(t)[k] = IF k \in DOMAIN written[t] THEN written[t][k] ELSE stored[k]
  BY <1>1 DEF Current, Over
<1>4. RowsOK(Current(t))
  BY <1>1, <1>2, <1>3 DEF RowsOK
<1> QED
  BY <1>1, <1>2, <1>3, <1>4

\* A statement locks rows that nobody else has, and writes some of them.
LEMMA Statement ==
  ASSUME DatabaseOK, NEW t \in Transactions, NEW keys, keys \subseteq Keys,
         NEW rows, RowsOK(rows), DOMAIN rows \subseteq keys, Execute(t, keys, rows)
  PROVE  /\ DatabaseOK'
         /\ stored' = stored /\ snapshot' = snapshot
         /\ \A u \in Transactions \ {t} :
               locks'[u] = locks[u] /\ written'[u] = written[u] /\ Current(u)' = Current(u)
               /\ locks[u] \cap keys = {}
         /\ locks'[t] = locks[t] \cup keys /\ written'[t] = Over(rows, written[t])
         /\ \A k \in Keys : Current(t)'[k] = IF k \in DOMAIN rows THEN rows[k] ELSE Current(t)[k]
<1>1. /\ stored' = stored /\ snapshot' = snapshot /\ Free(t, keys)
      /\ locks' = [locks EXCEPT ![t] = @ \cup keys]
      /\ written' = [written EXCEPT ![t] = Over(rows, @)]
  BY DEF Execute
<1>2. DOMAIN written = Transactions /\ DOMAIN locks = Transactions
  BY DEF DatabaseOK
<1>3. /\ locks'[t] = locks[t] \cup keys /\ written'[t] = Over(rows, written[t])
      /\ DOMAIN written' = Transactions /\ DOMAIN locks' = Transactions
  BY <1>1, <1>2
<1>4. \A u \in Transactions \ {t} : locks'[u] = locks[u] /\ written'[u] = written[u]
  BY <1>1, <1>2
<1>5. \A u \in Transactions \ {t} : Current(u)' = Current(u)
  BY <1>1, <1>4 DEF Current
<1>6. \A u \in Transactions \ {t} : locks[u] \cap keys = {}
  BY <1>1 DEF Free
<1>7. /\ DOMAIN written'[t] = DOMAIN rows \cup DOMAIN written[t]
      /\ \A k \in DOMAIN rows \cup DOMAIN written[t] :
            written'[t][k] = IF k \in DOMAIN rows THEN rows[k] ELSE written[t][k]
  BY <1>3 DEF Over
<1>8. \A k \in Keys : Current(t)'[k] = IF k \in DOMAIN rows THEN rows[k] ELSE Current(t)[k]
  <2>1. \A k \in Keys : Current(t)'[k] = IF k \in DOMAIN written'[t] THEN written'[t][k] ELSE stored[k]
    BY <1>1 DEF Current, Over, DatabaseOK
  <2> QED
    BY <1>7, <2>1, RowsAreTyped
<1>9. RowsOK(written'[t]) /\ DOMAIN written'[t] \subseteq locks'[t] /\ locks'[t] \subseteq Keys
  BY <1>3, <1>7 DEF RowsOK, DatabaseOK
<1>10. \A u \in Transactions : Free(u, locks[u])'
  <2> SUFFICES ASSUME NEW u \in Transactions, NEW v \in Transactions \ {u}
               PROVE  locks'[v] \cap locks'[u] = {}
    BY DEF Free
  <2>1. locks[v] \cap locks[u] = {}
    BY DEF DatabaseOK, Free
  <2>2. CASE u = t
    BY <1>3, <1>4, <1>6, <2>1, <2>2
  <2>3. CASE v = t
    BY <1>3, <1>4, <1>6, <2>1, <2>3
  <2>4. CASE u # t /\ v # t
    BY <1>4, <2>1, <2>4
  <2> QED
    BY <2>2, <2>3, <2>4
<1>11. DatabaseOK'
  <2>1. ASSUME NEW u \in Transactions
        PROVE  /\ RowsOK(snapshot[u])' /\ (DOMAIN snapshot[u] \in {{}, Keys})'
               /\ RowsOK(written[u])' /\ (DOMAIN written[u] \subseteq locks[u])' /\ (locks[u] \subseteq Keys)'
    <3>1. CASE u = t
      BY <1>1, <1>9, <3>1 DEF DatabaseOK, RowsOK
    <3>2. CASE u # t
      BY <1>1, <1>4, <3>2 DEF DatabaseOK, RowsOK
    <3> QED
      BY <3>1, <3>2
  <2> QED
    BY <1>1, <1>3, <1>10, <2>1 DEF DatabaseOK, RowsOK
<1> QED
  BY <1>1, <1>3, <1>4, <1>5, <1>6, <1>8, <1>11

\* A transaction that ends has nothing written or locked any more.
LEMMA Ending ==
  ASSUME DatabaseOK, NEW t \in Transactions, End(t), RowsOK(stored'), DOMAIN stored' = Keys
  PROVE  /\ DatabaseOK'
         /\ \A u \in Transactions \ {t} : locks'[u] = locks[u] /\ written'[u] = written[u]
         /\ locks'[t] = {} /\ DOMAIN written'[t] = {}
         /\ \A k \in Keys : Current(t)'[k] = stored'[k]
<1>1. /\ snapshot' = [snapshot EXCEPT ![t] = NoRows] /\ written' = [written EXCEPT ![t] = NoRows]
      /\ locks' = [locks EXCEPT ![t] = {}]
      /\ DOMAIN snapshot = Transactions /\ DOMAIN written = Transactions /\ DOMAIN locks = Transactions
  BY DEF End, DatabaseOK
<1>2. DOMAIN NoRows = {} /\ RowsOK(NoRows)
  BY DEF NoRows, RowsOK
<1>3. /\ \A u \in Transactions \ {t} :
            locks'[u] = locks[u] /\ written'[u] = written[u] /\ snapshot'[u] = snapshot[u]
      /\ locks'[t] = {} /\ written'[t] = NoRows /\ snapshot'[t] = NoRows
      /\ DOMAIN snapshot' = Transactions /\ DOMAIN written' = Transactions /\ DOMAIN locks' = Transactions
  BY <1>1
<1>4. \A u \in Transactions : Free(u, locks[u])'
  BY <1>3 DEF Free, DatabaseOK
<1>5. DatabaseOK'
  <2>1. ASSUME NEW u \in Transactions
        PROVE  /\ RowsOK(snapshot[u])' /\ (DOMAIN snapshot[u] \in {{}, Keys})'
               /\ RowsOK(written[u])' /\ (DOMAIN written[u] \subseteq locks[u])' /\ (locks[u] \subseteq Keys)'
    <3>1. CASE u = t
      BY <1>2, <1>3, <3>1 DEF RowsOK
    <3>2. CASE u # t
      BY <1>3, <3>2 DEF DatabaseOK, RowsOK
    <3> QED
      BY <3>1, <3>2
  <2> QED
    BY <1>3, <1>4, <2>1 DEF DatabaseOK, RowsOK
<1>6. \A k \in Keys : Current(t)'[k] = stored'[k]
  BY <1>2, <1>3 DEF Current, Over
<1> QED
  BY <1>2, <1>3, <1>5, <1>6

-----------------------------------------------------------------------------
(* The places in the lists.                                                *)

LEMMA ListsAreTables == \A list \in Lists : list \subseteq Keys
BY KeysOfTables DEF Lists

LEMMA FoundPlacesDiffer ==
  ASSUME NEW list, PlacesAreRight(list), NEW t \in Transactions
  PROVE  PlacesDiffer(Current(t), list)
BY DEF PlacesAreRight, KeepsPlaces, PlacesDiffer

\* Nothing that a statement writes comes to another place, or to a place where nothing was.
Stays(t, rows, list) ==
  \A k \in DOMAIN rows \cap list : rows[k] # NoRow => Current(t)[k] # NoRow /\ rows[k].sort = Current(t)[k].sort

LEMMA RowsThatStay ==
  ASSUME DatabaseOK, NEW list \in Lists, PlacesAreRight(list),
         NEW t \in Transactions, NEW keys, keys \subseteq Keys,
         NEW rows, RowsOK(rows), DOMAIN rows \subseteq keys, Execute(t, keys, rows), Stays(t, rows, list)
  PROVE  PlacesAreRight(list)'
<1>1. list \subseteq Keys
  BY ListsAreTables
<1>2. /\ stored' = stored
      /\ \A u \in Transactions \ {t} : locks'[u] = locks[u] /\ Current(u)' = Current(u)
      /\ locks'[t] = locks[t] \cup keys
      /\ \A k \in Keys : Current(t)'[k] = IF k \in DOMAIN rows THEN rows[k] ELSE Current(t)[k]
  BY Statement
<1>3. PlacesDiffer(stored, list)'
  BY <1>2 DEF PlacesAreRight, PlacesDiffer
<1>4. \A k \in list : Current(t)'[k] # NoRow =>
         Current(t)[k] # NoRow /\ Current(t)'[k].sort = Current(t)[k].sort
  BY <1>1, <1>2 DEF Stays
<1>5. CASE KeepsPlaces(t, list)
  <2>1. KeepsPlaces(t, list)'
    BY <1>2, <1>4, <1>5 DEF KeepsPlaces
  <2>2. \A u \in Transactions \ {t} :
          (KeepsPlaces(u, list) \/ (list \subseteq locks[u] /\ PlacesDiffer(Current(u), list)))'
    BY <1>2 DEF PlacesAreRight, KeepsPlaces, PlacesDiffer
  <2> QED
    BY <1>3, <2>1, <2>2 DEF PlacesAreRight
<1>6. CASE list \subseteq locks[t] /\ PlacesDiffer(Current(t), list)
  <2>1. PlacesDiffer(Current(t), list)' /\ list \subseteq locks'[t]
    BY <1>2, <1>4, <1>6 DEF PlacesDiffer
  <2>2. \A u \in Transactions \ {t} :
          (KeepsPlaces(u, list) \/ (list \subseteq locks[u] /\ PlacesDiffer(Current(u), list)))'
    BY <1>2 DEF PlacesAreRight, KeepsPlaces, PlacesDiffer
  <2> QED
    BY <1>3, <2>1, <2>2 DEF PlacesAreRight
<1> QED
  BY <1>5, <1>6 DEF PlacesAreRight

LEMMA KeysAreFinite == IsFiniteSet(AddressKeys) /\ IsFiniteSet(ContactKeys) /\ IsFiniteSet(Leads)
<1>1. IsFiniteSet(AddressIds) /\ IsFiniteSet(ContactIds) /\ IsFiniteSet(Leads)
  <2> DEFINE all == Leads \cup Updates \cup Addresses \cup Contacts
  <2>1. IsFiniteSet(all)
    BY RecordsAssumption
  <2>2. AddressIds \subseteq all /\ ContactIds \subseteq all /\ Leads \subseteq all
    BY DEF AddressIds, ContactIds, Transactions
  <2> HIDE DEF all
  <2> QED
    BY <2>1, <2>2, FS_Subset
<1>2. IsFiniteSet(AddressKeys)
  <2> DEFINE f == [a \in AddressIds |-> Address(a)]
  <2>1. f \in Surjection(AddressIds, AddressKeys)
    BY DEF Surjection, AddressKeys
  <2> QED
    BY <1>1, <2>1, FS_Surjection
<1>3. IsFiniteSet(ContactKeys)
  <2> DEFINE f == [c \in ContactIds |-> Contact(c)]
  <2>1. f \in Surjection(ContactIds, ContactKeys)
    BY DEF Surjection, ContactKeys
  <2> QED
    BY <1>1, <2>1, FS_Surjection
<1> QED
  BY <1>1, <1>2, <1>3

\* get_next_sort gives a place behind all others that the transaction finds.
LEMMA NextSortIsBehind ==
  ASSUME DatabaseOK, NEW list \in Lists, NEW t \in Transactions
  PROVE  /\ NextSort(t, list) \in Nat
         /\ \A k \in list : Current(t)[k] # NoRow => Current(t)[k].sort \in Nat /\ Current(t)[k].sort < NextSort(t, list)
<1> DEFINE found == {k \in list : Current(t)[k] # NoRow}
           sorts == {Current(t)[k].sort : k \in found}
<1>1. \A k \in found : Current(t)[k].sort \in Nat
  <2> SUFFICES ASSUME NEW k \in found
               PROVE  Current(t)[k].sort \in Nat
    OBVIOUS
  <2>1. k \in Keys /\ RowOK(k, Current(t)[k]) /\ Current(t)[k] # NoRow /\ k \in AddressKeys \cup ContactKeys
    BY ListsAreTables, RowsAreTyped DEF RowsOK, Lists
  <2>2. Current(t)[k] \in AddressRows \/ Current(t)[k] \in ContactRows
    BY <2>1, TypesOfRows
  <2> QED
    BY <2>2 DEF AddressRows, ContactRows
<1>2. {0} \cup sorts \subseteq Nat /\ {0} \cup sorts # {}
  BY <1>1
<1>3. IsFiniteSet({0} \cup sorts)
  <2>1. IsFiniteSet(found)
    BY KeysAreFinite, FS_Subset DEF Lists
  <2> DEFINE f == [k \in found |-> Current(t)[k].sort]
  <2>2. f \in Surjection(found, sorts)
    BY DEF Surjection
  <2> HIDE DEF found, sorts, f
  <2>3. IsFiniteSet(sorts)
    BY <2>1, <2>2, FS_Surjection
  <2> QED
    BY <2>3, FS_AddElement
<1>4. NextSort(t, list) = Max({0} \cup sorts) + 1
  BY DEF NextSort
<1> HIDE DEF sorts
<1>5. Max({0} \cup sorts) \in Nat /\ \A n \in sorts : n <= Max({0} \cup sorts)
  BY <1>2, <1>3, LargestNumber
<1>6. \A k \in found : Current(t)[k].sort \in sorts
  BY DEF sorts
<1>7. \A k \in found : Current(t)[k].sort <= Max({0} \cup sorts)
  BY <1>5, <1>6
<1>8. \A k \in found : Current(t)[k].sort < NextSort(t, list)
  <2> DEFINE largest == Max({0} \cup sorts)
  <2> SUFFICES ASSUME NEW k \in found
               PROVE  Current(t)[k].sort < NextSort(t, list)
    OBVIOUS
  <2>1. largest \in Nat /\ Current(t)[k].sort \in Nat /\ Current(t)[k].sort <= largest
    BY <1>1, <1>5, <1>7
  <2>2. NextSort(t, list) = largest + 1
    BY <1>4
  <2> HIDE DEF largest, found
  <2> QED
    BY <2>1, <2>2
<1>9. NextSort(t, list) \in Nat
  BY <1>4, <1>5
<1> QED
  BY <1>1, <1>8, <1>9

LEMMA RowsThatCome ==
  ASSUME DatabaseOK, NEW list \in Lists, PlacesAreRight(list),
         NEW t \in Transactions, NEW key \in list, NEW row, RowOK(key, row), row.sort = NextSort(t, list),
         Execute(t, list, One(key, row))
  PROVE  PlacesAreRight(list)'
<1>1. list \subseteq Keys /\ DOMAIN One(key, row) = {key} /\ One(key, row)[key] = row /\ RowsOK(One(key, row))
  BY ListsAreTables DEF One, RowsOK
<1>2. /\ stored' = stored
      /\ \A u \in Transactions \ {t} : locks'[u] = locks[u] /\ Current(u)' = Current(u)
      /\ locks'[t] = locks[t] \cup list
      /\ \A k \in Keys : Current(t)'[k] = IF k \in {key} THEN One(key, row)[k] ELSE Current(t)[k]
  <2> DEFINE rows == One(key, row)
  <2>1. DOMAIN rows = {key} /\ DOMAIN rows \subseteq list /\ RowsOK(rows) /\ Execute(t, list, rows)
    BY <1>1
  <2> HIDE DEF rows
  <2>2. \A k \in Keys : Current(t)'[k] = IF k \in DOMAIN rows THEN rows[k] ELSE Current(t)[k]
    BY <1>1, <2>1, Statement
  <2>3. /\ stored' = stored
        /\ \A u \in Transactions \ {t} : locks'[u] = locks[u] /\ Current(u)' = Current(u)
        /\ locks'[t] = locks[t] \cup list
    BY <1>1, <2>1, Statement
  <2>4. \A k \in Keys : Current(t)'[k] = IF k \in {key} THEN rows[k] ELSE Current(t)[k]
    BY <2>1, <2>2
  <2> QED
    BY <2>3, <2>4 DEF rows
<1>3. \A k \in list : Current(t)'[k] = IF k = key THEN row ELSE Current(t)[k]
  BY <1>1, <1>2
<1>4. PlacesDiffer(Current(t), list)
  BY FoundPlacesDiffer
<1>5. \A k \in list : Current(t)[k] # NoRow => Current(t)[k].sort # row.sort
  BY NextSortIsBehind
<1>6. PlacesDiffer(Current(t), list)' /\ list \subseteq locks'[t]
  BY <1>2, <1>3, <1>4, <1>5 DEF PlacesDiffer
<1>7. PlacesDiffer(stored, list)'
  BY <1>2 DEF PlacesAreRight, PlacesDiffer
<1>8. \A u \in Transactions \ {t} :
        (KeepsPlaces(u, list) \/ (list \subseteq locks[u] /\ PlacesDiffer(Current(u), list)))'
  BY <1>2 DEF PlacesAreRight, KeepsPlaces, PlacesDiffer
<1> QED
  BY <1>6, <1>7, <1>8 DEF PlacesAreRight

LEMMA PlacesSurviveRollback ==
  ASSUME DatabaseOK, NEW list \in Lists, PlacesAreRight(list), NEW t \in Transactions, Rollback(t)
  PROVE  PlacesAreRight(list)'
<1>1. list \subseteq Keys /\ stored' = stored /\ RowsOK(stored') /\ DOMAIN stored' = Keys
  BY ListsAreTables DEF Rollback, DatabaseOK
<1>2. /\ \A u \in Transactions \ {t} : locks'[u] = locks[u] /\ written'[u] = written[u]
      /\ \A k \in Keys : Current(t)'[k] = stored'[k]
  BY <1>1, Ending DEF Rollback
<1>3. \A u \in Transactions \ {t} : Current(u)' = Current(u)
  BY <1>1, <1>2 DEF Current
<1>4. KeepsPlaces(t, list)'
  BY <1>1, <1>2 DEF KeepsPlaces
<1>5. PlacesDiffer(stored, list)'
  BY <1>1 DEF PlacesAreRight, PlacesDiffer
<1>6. \A u \in Transactions \ {t} :
        (KeepsPlaces(u, list) \/ (list \subseteq locks[u] /\ PlacesDiffer(Current(u), list)))'
  BY <1>1, <1>2, <1>3 DEF PlacesAreRight, KeepsPlaces, PlacesDiffer
<1> QED
  BY <1>4, <1>5, <1>6 DEF PlacesAreRight

\* A commit that moved a list had it to itself; one that did not leaves the places of others right.
LEMMA PlacesSurviveCommit ==
  ASSUME DatabaseOK, NEW list \in Lists, PlacesAreRight(list), NEW t \in Transactions, Commit(t)
  PROVE  PlacesAreRight(list)'
<1>1. list \subseteq Keys /\ stored' = Current(t) /\ RowsOK(stored') /\ DOMAIN stored' = Keys
  BY ListsAreTables, RowsAreTyped DEF Commit
<1>2. /\ DatabaseOK'
      /\ \A u \in Transactions \ {t} : locks'[u] = locks[u] /\ written'[u] = written[u]
      /\ \A k \in Keys : Current(t)'[k] = stored'[k]
  BY <1>1, Ending DEF Commit
<1>3. PlacesDiffer(stored, list)'
  BY <1>1, FoundPlacesDiffer DEF PlacesDiffer
<1>4. KeepsPlaces(t, list)'
  BY <1>1, <1>2 DEF KeepsPlaces
<1>5. ASSUME NEW u \in Transactions \ {t}
      PROVE  (KeepsPlaces(u, list) \/ (list \subseteq locks[u] /\ PlacesDiffer(Current(u), list)))'
  <2>1. locks[u] \cap locks[t] = {} /\ DOMAIN written[u] \subseteq locks[u] /\ DOMAIN written[t] \subseteq locks[t]
    BY DEF DatabaseOK, Free
  <2>2. \A k \in Keys : Current(u)'[k] = IF k \in DOMAIN written[u] THEN written[u][k] ELSE Current(t)[k]
    BY <1>1, <1>2 DEF Current, Over
  <2>3. \A k \in Keys : /\ Current(u)[k] = IF k \in DOMAIN written[u] THEN written[u][k] ELSE stored[k]
                        /\ Current(t)[k] = IF k \in DOMAIN written[t] THEN written[t][k] ELSE stored[k]
    BY RowsAreTyped
  <2>4. CASE list \subseteq locks[u] /\ PlacesDiffer(Current(u), list)
    <3>1. \A k \in list : k \notin DOMAIN written[t]
      BY <2>1, <2>4
    <3>2. \A k \in list : Current(u)'[k] = Current(u)[k]
      BY <1>1, <2>2, <2>3, <3>1
    <3> QED
      BY <1>2, <2>4, <3>2 DEF PlacesDiffer
  <2>5. CASE KeepsPlaces(u, list)
    <3>1. ASSUME NEW k \in list, Current(u)'[k] # NoRow
          PROVE  stored'[k] # NoRow /\ Current(u)'[k].sort = stored'[k].sort
      <4>1. CASE k \in DOMAIN written[u]
        <5>1. k \notin DOMAIN written[t] /\ k \in Keys
          BY <1>1, <2>1, <4>1
        <5>2. Current(u)'[k] = Current(u)[k] /\ stored'[k] = stored[k]
          BY <1>1, <2>2, <2>3, <4>1, <5>1
        <5> QED
          BY <2>5, <3>1, <5>2 DEF KeepsPlaces
      <4>2. CASE k \notin DOMAIN written[u]
        BY <1>1, <2>2, <3>1, <4>2
      <4> QED
        BY <4>1, <4>2
    <3> QED
      BY <3>1 DEF KeepsPlaces
  <2> QED
    BY <2>4, <2>5 DEF PlacesAreRight
<1> QED
  BY <1>3, <1>4, <1>5 DEF PlacesAreRight

-----------------------------------------------------------------------------
(* What the statements write.                                              *)

\* A statement that moves no list, or gives out the next place of one, and takes no number.
Ordinary(t, keys, rows) ==
  /\ keys \subseteq Keys /\ DOMAIN rows \subseteq keys /\ RowsOK(rows)
  /\ DOMAIN rows \cap (ProjectKeys \cup {Number}) = {}
  /\ \A list \in Lists :
       \/ Stays(t, rows, list)
       \/ /\ keys = list
          /\ \E key \in list : \E row : rows = One(key, row) /\ RowOK(key, row) /\ row.sort = NextSort(t, list)
OrdinaryStatement(t) ==
  UNCHANGED database \/ \E keys, rows : Ordinary(t, keys, rows) /\ Execute(t, keys, rows)

LEMMA AddressesAreInserted ==
  ASSUME TypeOK, NEW t \in Transactions, NEW contact \in ContactIds \cup {None}, InsertAddress(t, contact)
  PROVE  OrdinaryStatement(t)
<1> DEFINE row == [sort |-> NextSort(t, AddressKeys), contact |-> contact]
           rows == One(Address(t), row)
<1>1. DatabaseOK /\ AddressKeys \in Lists /\ Address(t) \in AddressKeys /\ AddressKeys \subseteq Keys
  BY KeysOfTables DEF TypeOK, Lists
<1>2. row \in AddressRows /\ row.sort = NextSort(t, AddressKeys)
  BY <1>1, NextSortIsBehind DEF AddressRows
<1>3. RowOK(Address(t), row)
  BY <1>1, <1>2 DEF RowOK
<1> HIDE DEF row
<1>4. DOMAIN rows = {Address(t)} /\ rows[Address(t)] = row
  BY DEF One
<1>5. Stays(t, rows, ContactKeys)
  BY <1>1, <1>4, KeysDiffer DEF Stays
<1>6. Ordinary(t, AddressKeys, rows)
  BY <1>1, <1>2, <1>3, <1>4, <1>5, KeysDiffer DEF Ordinary, Lists, RowsOK
<1>7. Execute(t, AddressKeys, rows)
  BY DEF InsertAddress, row
<1> HIDE DEF rows
<1> QED
  BY <1>6, <1>7 DEF OrdinaryStatement

LEMMA ContactsAreInserted ==
  ASSUME TypeOK, NEW t \in Transactions, InsertContact(t)
  PROVE  OrdinaryStatement(t)
<1> DEFINE row == [sort |-> NextSort(t, ContactKeys)]
           rows == One(Contact(t), row)
<1>1. DatabaseOK /\ ContactKeys \in Lists /\ Contact(t) \in ContactKeys /\ ContactKeys \subseteq Keys
  BY KeysOfTables DEF TypeOK, Lists
<1>2. row \in ContactRows /\ row.sort = NextSort(t, ContactKeys)
  BY <1>1, NextSortIsBehind DEF ContactRows
<1>3. RowOK(Contact(t), row)
  BY <1>1, <1>2 DEF RowOK
<1> HIDE DEF row
<1>4. DOMAIN rows = {Contact(t)} /\ rows[Contact(t)] = row
  BY DEF One
<1>5. Stays(t, rows, AddressKeys)
  BY <1>1, <1>4, KeysDiffer DEF Stays
<1>6. Ordinary(t, ContactKeys, rows)
  BY <1>1, <1>2, <1>3, <1>4, <1>5, KeysDiffer DEF Ordinary, Lists, RowsOK
<1>7. Execute(t, ContactKeys, rows)
  BY DEF InsertContact, row
<1> HIDE DEF rows
<1> QED
  BY <1>6, <1>7 DEF OrdinaryStatement

LEMMA RowsAreUpdated ==
  ASSUME TypeOK, NEW t \in Transactions, NEW key \in AddressKeys \cup ContactKeys \cup {Client}, NEW row,
         Update(t, key, row),
         Current(t)[key] # NoRow => RowOK(key, row) /\ (key # Client => row.sort = Current(t)[key].sort)
  PROVE  OrdinaryStatement(t)
<1> DEFINE rows == IF Current(t)[key] = NoRow THEN NoRows ELSE One(key, row)
<1>1. key \in Keys /\ key \notin ProjectKeys \cup {Number}
  BY KeysOfTables, KeysDiffer
<1>2. DOMAIN rows \subseteq {key} /\ \A k \in DOMAIN rows : k = key /\ Current(t)[key] # NoRow /\ rows[k] = row
  BY DEF One, NoRows
<1>3. Execute(t, {key}, rows)
  BY DEF Update
<1> HIDE DEF rows
<1>4. RowsOK(rows)
  BY <1>1, <1>2 DEF RowsOK
<1>5. \A list \in Lists : Stays(t, rows, list)
  BY <1>2, KeysDiffer DEF Stays, Lists
<1>6. Ordinary(t, {key}, rows)
  BY <1>1, <1>2, <1>4, <1>5 DEF Ordinary
<1> QED
  BY <1>3, <1>6 DEF OrdinaryStatement

LEMMA RowsAreTouched ==
  ASSUME TypeOK, NEW t \in Transactions, NEW key \in AddressKeys \cup ContactKeys \cup {Client}, Touch(t, key)
  PROVE  OrdinaryStatement(t)
<1>1. key \in Keys /\ RowOK(key, Current(t)[key])
  BY KeysOfTables, RowsAreTyped DEF TypeOK, RowsOK
<1> QED
  BY <1>1, RowsAreUpdated DEF Touch

LEMMA RowsAreRemoved ==
  ASSUME TypeOK, NEW t \in Transactions, NEW keys, keys \subseteq AddressKeys \cup ContactKeys, Remove(t, keys)
  PROVE  OrdinaryStatement(t)
<1> DEFINE rows == [k \in keys |-> NoRow]
<1>1. keys \subseteq Keys /\ RowsOK(rows)
  BY KeysOfTables DEF RowsOK, RowOK
<1>2. \A list \in Lists : Stays(t, rows, list)
  BY DEF Stays
<1>3. DOMAIN rows \cap (ProjectKeys \cup {Number}) = {}
  BY KeysDiffer
<1>4. Ordinary(t, keys, rows)
  BY <1>1, <1>2, <1>3 DEF Ordinary
<1>5. Execute(t, keys, rows)
  BY DEF Remove
<1> HIDE DEF rows
<1> QED
  BY <1>4, <1>5 DEF OrdinaryStatement

-----------------------------------------------------------------------------
(* What the statements keep.                                               *)

LEMMA MovesKeepSteps ==
  ASSUME TypeOK, NEW t \in Transactions, NEW from, NEW to \in Steps, Goes(t, from, to)
  PROVE  /\ step' \in [Transactions -> Steps] /\ step[t] = from /\ step'[t] = to
         /\ \A u \in Transactions \ {t} : step'[u] = step[u]
BY DEF TypeOK, Goes

Chooses == picked' \in [Transactions -> [address : AddressIds \cup {None}, contact : ContactIds \cup {None}, number : {0}]]

LEMMA OrdinaryStatementsKeepTheInvariant ==
  ASSUME IInv, NEW t \in Transactions, NEW from \in Steps \ {"commit", "done"}, NEW to \in Steps \ {"done"},
         Goes(t, from, to), OrdinaryStatement(t), Chooses
  PROVE  IInv'
<1>1. /\ step' \in [Transactions -> Steps] /\ step[t] = from /\ step'[t] = to
      /\ \A u \in Transactions \ {t} : step'[u] = step[u]
  BY MovesKeepSteps DEF IInv
<1>2. \A l \in Leads : step[l] = "done" <=> step'[l] = "done"
  BY <1>1 DEF Transactions
<1>3. ~ TakesTheNext(t) /\ TakesNoNumber(t)
  BY <1>1 DEF IInv, NumbersAreLocked, TakesTheNext
<1>4. CASE UNCHANGED database
  <2>1. DatabaseOK' /\ (\A list \in Lists : PlacesAreRight(list))'
    BY <1>4 DEF IInv, TypeOK, DatabaseOK, database, RowsOK, Free, PlacesAreRight, PlacesDiffer, KeepsPlaces, Current
  <2>2. ASSUME NEW u \in Transactions
        PROVE  (TakesNoNumber(u) \/ TakesTheNext(u))'
    <3>1. CASE u = t
      BY <1>3, <1>4, <3>1 DEF TakesNoNumber, database
    <3>2. CASE u # t
      BY <1>1, <1>4, <3>2 DEF IInv, NumbersAreLocked, TakesNoNumber, TakesTheNext, database
    <3> QED
      BY <3>1, <3>2
  <2>3. NumbersAreLocked'
    BY <1>2, <1>4, <2>2 DEF IInv, NumbersAreLocked, NoGaps, Projects, database
  <2> QED
    BY <1>1, <2>1, <2>3 DEF IInv, TypeOK, Chooses
<1>5. ASSUME NEW keys, NEW rows, Ordinary(t, keys, rows), Execute(t, keys, rows)
      PROVE  IInv'
  <2>1. /\ DatabaseOK /\ keys \subseteq Keys /\ DOMAIN rows \subseteq keys /\ RowsOK(rows)
        /\ DOMAIN rows \cap (ProjectKeys \cup {Number}) = {}
    BY <1>5 DEF IInv, TypeOK, Ordinary
  <2>2. /\ DatabaseOK' /\ stored' = stored
        /\ \A u \in Transactions \ {t} : written'[u] = written[u]
        /\ written'[t] = Over(rows, written[t])
    BY <1>5, <2>1, Statement
  <2>3. ASSUME NEW list \in Lists
        PROVE  PlacesAreRight(list)'
    <3>1. CASE Stays(t, rows, list)
      BY <1>5, <2>1, <3>1, RowsThatStay DEF IInv
    <3>2. ASSUME keys = list, NEW key \in list, NEW row, rows = One(key, row), RowOK(key, row),
                 row.sort = NextSort(t, list)
          PROVE  PlacesAreRight(list)'
      <4>1. Execute(t, list, One(key, row)) /\ PlacesAreRight(list)
        BY <1>5, <3>2 DEF IInv
      <4> QED
        BY <2>1, <3>2, <4>1, RowsThatCome
    <3> QED
      BY <1>5, <3>1, <3>2 DEF Ordinary
  <2>4. DOMAIN written'[t] \cap (ProjectKeys \cup {Number}) = {}
    BY <1>3, <2>1, <2>2 DEF Over, TakesNoNumber
  <2>5. ASSUME NEW u \in Transactions
        PROVE  (TakesNoNumber(u) \/ TakesTheNext(u))'
    <3>1. CASE u = t
      BY <2>4, <3>1 DEF TakesNoNumber
    <3>2. CASE u # t
      BY <1>1, <2>2, <3>2 DEF IInv, NumbersAreLocked, TakesNoNumber, TakesTheNext
    <3> QED
      BY <3>1, <3>2
  <2>6. NumbersAreLocked'
    BY <1>2, <2>2, <2>5 DEF IInv, NumbersAreLocked, NoGaps, Projects
  <2> QED
    BY <1>1, <2>2, <2>3, <2>6 DEF IInv, TypeOK, Chooses
<1> QED
  BY <1>4, <1>5 DEF OrdinaryStatement

LEMMA BeginKeepsTheInvariant ==
  ASSUME IInv, NEW t \in Transactions, NEW to \in Steps \ {"done"}, Goes(t, "new", to), Begin(t),
         UNCHANGED <<picked, in_use>>
  PROVE  IInv'
<1>1. /\ step' \in [Transactions -> Steps] /\ step[t] = "new" /\ step'[t] = to
      /\ \A u \in Transactions \ {t} : step'[u] = step[u]
  BY MovesKeepSteps DEF IInv, Steps
<1>2. stored' = stored /\ written' = written /\ locks' = locks /\ snapshot' = [snapshot EXCEPT ![t] = stored]
  BY DEF Begin
<1>3. DatabaseOK'
  <2>1. /\ DOMAIN snapshot' = Transactions /\ snapshot'[t] = stored
        /\ \A u \in Transactions \ {t} : snapshot'[u] = snapshot[u]
    BY <1>2 DEF IInv, TypeOK, DatabaseOK
  <2>2. ASSUME NEW u \in Transactions
        PROVE  RowsOK(snapshot[u])' /\ (DOMAIN snapshot[u] \in {{}, Keys})'
    BY <2>1 DEF IInv, TypeOK, DatabaseOK, RowsOK
  <2> QED
    BY <1>2, <2>1, <2>2 DEF IInv, TypeOK, DatabaseOK, RowsOK, Free
<1>4. TypeOK'
  BY <1>1, <1>3 DEF IInv, TypeOK
<1>5. (\A list \in Lists : PlacesAreRight(list))'
  BY <1>2 DEF IInv, PlacesAreRight, PlacesDiffer, KeepsPlaces, Current
<1>6. NumbersAreLocked'
  <2>1. \A u \in Transactions : (TakesNoNumber(u) \/ TakesTheNext(u))'
    BY <1>1, <1>2 DEF IInv, NumbersAreLocked, TakesNoNumber, TakesTheNext
  <2>2. \A l \in Leads : step'[l] # "done" => step[l] # "done"
    BY <1>1 DEF Transactions
  <2> QED
    BY <1>2, <2>1, <2>2 DEF IInv, NumbersAreLocked, NoGaps, Projects
<1> QED
  BY <1>4, <1>5, <1>6 DEF IInv

LEMMA InsertProjectKeepsTheInvariant ==
  ASSUME IInv, NEW t \in Leads, InsertProject(t)
  PROVE  IInv'
<1> DEFINE number == [next |-> NextNumber(t) + 1]
           project == [picked[t] EXCEPT !.number = NextNumber(t)]
           rows == Over(One(Number, number), One(Project(t), project))
           keys == {Number, Project(t)}
<1>1. /\ t \in Transactions /\ Project(t) \in ProjectKeys /\ keys \subseteq Keys /\ Number # Project(t)
      /\ DatabaseOK
  BY KeysOfTables, KeysDiffer DEF Transactions, IInv, TypeOK
<1>2. /\ step' \in [Transactions -> Steps] /\ step[t] = "project" /\ step'[t] = "commit"
      /\ \A u \in Transactions \ {t} : step'[u] = step[u]
      /\ Execute(t, keys, rows) /\ UNCHANGED <<picked, in_use>>
  BY <1>1, MovesKeepSteps DEF IInv, InsertProject, Steps
<1>3. TakesNoNumber(t)
  BY <1>1, <1>2 DEF IInv, NumbersAreLocked, TakesTheNext
<1>4. Current(t)[Number] = stored[Number] /\ stored[Number] \in [next : Nat \ {0}]
  <2>1. Number \in Keys /\ Number \notin DOMAIN written[t]
    BY <1>1, <1>3 DEF TakesNoNumber
  <2>2. Current(t)[Number] = stored[Number] /\ RowOK(Number, stored[Number]) /\ stored[Number] # NoRow
    BY <1>1, <2>1, RowsAreTyped DEF RowsOK, IInv, NumbersAreLocked
  <2> QED
    BY <2>1, <2>2, TypesOfRows
<1>5. NextNumber(t) = stored[Number].next /\ NextNumber(t) \in Nat \ {0}
  BY <1>4 DEF NextNumber
<1> HIDE DEF NextNumber
<1>6. /\ number \in [next : Nat \ {0}] /\ number.next = stored[Number].next + 1 /\ number # NoRow
  BY <1>5, NoRowAssumption
<1>7. project \in ProjectRows /\ project.number = stored[Number].next /\ project # NoRow
  <2>1. picked[t] \in [address : AddressIds \cup {None}, contact : ContactIds \cup {None}, number : {0}]
    BY <1>1 DEF IInv, TypeOK
  <2>2. project \in ProjectRows /\ project.number = NextNumber(t)
    BY <1>5, <2>1 DEF ProjectRows
  <2> QED
    BY <1>5, <2>2, NoRowAssumption
<1> HIDE DEF number, project
<1>8. /\ DOMAIN rows = keys /\ rows[Number] = number /\ rows[Project(t)] = project
  BY <1>1 DEF Over, One
<1>9. RowsOK(rows)
  <2>1. RowOK(Number, number) /\ RowOK(Project(t), project)
    BY <1>1, <1>6, <1>7 DEF RowOK
  <2> QED
    BY <1>1, <1>8, <2>1 DEF RowsOK
<1> HIDE DEF rows, keys
<1>10. /\ DatabaseOK' /\ stored' = stored
       /\ \A u \in Transactions \ {t} : written'[u] = written[u]
       /\ written'[t] = Over(rows, written[t])
  BY <1>1, <1>2, <1>8, <1>9, Statement, ZenonT(60)
<1>11. \A list \in Lists : PlacesAreRight(list)'
  <2>1. \A list \in Lists : Stays(t, rows, list)
    BY <1>1, <1>8, KeysDiffer DEF Stays, Lists, keys
  <2> QED
    BY <1>1, <1>2, <1>8, <1>9, <2>1, RowsThatStay DEF IInv
<1>12. TakesTheNext(t)'
  <2>1. DOMAIN written'[t] \cap (ProjectKeys \cup {Number}) = {Number, Project(t)}
    BY <1>1, <1>3, <1>8, <1>10 DEF Over, TakesNoNumber, keys
  <2>2. written'[t][Number] = number /\ written'[t][Project(t)] = project
    BY <1>8, <1>10 DEF Over, keys
  <2> QED
    BY <1>2, <1>6, <1>7, <1>10, <2>1, <2>2 DEF TakesTheNext
<1>13. \A u \in Transactions : (TakesNoNumber(u) \/ TakesTheNext(u))'
  <2> SUFFICES ASSUME NEW u \in Transactions \ {t}
               PROVE  (TakesNoNumber(u) \/ TakesTheNext(u))'
    BY <1>12
  <2> QED
    BY <1>2, <1>10 DEF IInv, NumbersAreLocked, TakesNoNumber, TakesTheNext
<1>14. NumbersAreLocked'
  <2>1. \A l \in Leads : step'[l] # "done" => step[l] # "done"
    BY <1>2 DEF Transactions
  <2> QED
    BY <1>10, <1>13, <2>1 DEF IInv, NumbersAreLocked, NoGaps, Projects
<1> QED
  BY <1>2, <1>10, <1>11, <1>14 DEF IInv, TypeOK

LEMMA ForgetIsTyped ==
  ASSUME TypeOK, NEW t \in Transactions, Forget(t)
  PROVE  Chooses
BY DEF TypeOK, Forget, Nobody, Chooses

LEMMA RollbackKeepsTheInvariant ==
  ASSUME IInv, NEW t \in Transactions, Abort(t)
  PROVE  IInv'
<1>1. /\ step' \in [Transactions -> Steps] /\ step'[t] = "done"
      /\ \A u \in Transactions \ {t} : step'[u] = step[u]
      /\ Rollback(t) /\ Chooses
  BY MovesKeepSteps, ForgetIsTyped DEF IInv, Abort, Steps
<1>2. stored' = stored /\ RowsOK(stored') /\ DOMAIN stored' = Keys /\ DatabaseOK
  BY <1>1 DEF Rollback, IInv, TypeOK, DatabaseOK
<1>3. /\ DatabaseOK' /\ DOMAIN written'[t] = {}
      /\ \A u \in Transactions \ {t} : written'[u] = written[u]
  BY <1>1, <1>2, Ending DEF Rollback
<1>4. \A list \in Lists : PlacesAreRight(list)'
  BY <1>1, <1>2, PlacesSurviveRollback DEF IInv
<1>5. \A u \in Transactions : (TakesNoNumber(u) \/ TakesTheNext(u))'
  <2>1. TakesNoNumber(t)'
    BY <1>3 DEF TakesNoNumber
  <2>2. \A u \in Transactions \ {t} : (TakesNoNumber(u) \/ TakesTheNext(u))'
    BY <1>1, <1>2, <1>3 DEF IInv, NumbersAreLocked, TakesNoNumber, TakesTheNext
  <2> QED
    BY <2>1, <2>2
<1>6. NumbersAreLocked'
  <2>1. \A l \in Leads : step'[l] # "done" => step[l] # "done"
    BY <1>1 DEF Transactions
  <2> QED
    BY <1>2, <1>5, <2>1 DEF IInv, NumbersAreLocked, NoGaps, Projects
<1> QED
  BY <1>1, <1>3, <1>4, <1>6 DEF IInv, TypeOK, Chooses

\* A project that is committed comes with the next number.
LEMMA CommitKeepsNumbers ==
  ASSUME IInv, NEW t \in Leads, TakesTheNext(t), Commit(t)
  PROVE  NoGaps(stored') /\ stored'[Number] # NoRow
<1> DEFINE next == stored[Number].next
<1>1. /\ stored' = Current(t) /\ DatabaseOK /\ t \in Transactions
      /\ \A k \in Keys : Current(t)[k] = IF k \in DOMAIN written[t] THEN written[t][k] ELSE stored[k]
  BY RowsAreTyped DEF Commit, IInv, TypeOK, Transactions
<1>2. /\ stored'[Number] # NoRow /\ stored'[Number].next = next + 1
      /\ stored'[Project(t)] # NoRow /\ stored'[Project(t)].number = next
  BY <1>1, KeysOfTables DEF TakesTheNext
<1>3. \A l \in Leads \ {t} : stored'[Project(l)] = stored[Project(l)]
  <2> SUFFICES ASSUME NEW l \in Leads \ {t}
               PROVE  stored'[Project(l)] = stored[Project(l)]
    OBVIOUS
  <2>1. Project(l) \in Keys /\ Project(l) \in ProjectKeys /\ Project(l) # Project(t) /\ Project(l) # Number
    BY KeysOfTables, KeysDiffer
  <2>2. Project(l) \notin DOMAIN written[t]
    BY <2>1 DEF TakesTheNext
  <2> QED
    BY <1>1, <2>1, <2>2
<1>4. stored[Project(t)] = NoRow /\ next \in Nat \ {0}
  <2>1. stored[Project(t)] = NoRow
    BY DEF IInv, NumbersAreLocked, TakesTheNext
  <2>2. Number \in Keys /\ RowOK(Number, stored[Number]) /\ stored[Number] # NoRow
    BY <1>1, KeysOfTables DEF DatabaseOK, RowsOK, IInv, NumbersAreLocked
  <2> QED
    BY <2>1, <2>2, TypesOfRows
<1>5. Projects(stored') = Projects(stored) \cup {t} /\ t \notin Projects(stored)
  BY <1>2, <1>3, <1>4 DEF Projects
<1>6. {stored'[Project(l)].number : l \in Projects(stored')} = (1 .. next - 1) \cup {next}
  <2>1. {stored[Project(l)].number : l \in Projects(stored)} = 1 .. next - 1
    BY DEF IInv, NumbersAreLocked, NoGaps
  <2>2. \A l \in Projects(stored) : stored'[Project(l)].number = stored[Project(l)].number
    BY <1>3, <1>5 DEF Projects
  <2> HIDE DEF next
  <2> QED
    BY <1>2, <1>5, <2>1, <2>2
<1>7. Cardinality(Projects(stored')) = next
  <2>1. IsFiniteSet(Projects(stored))
    BY KeysAreFinite, FS_Subset DEF Projects
  <2>2. Cardinality(Projects(stored')) = Cardinality(Projects(stored)) + 1
    BY <1>5, <2>1, FS_AddElement
  <2>3. Cardinality(Projects(stored)) = next - 1
    BY DEF IInv, NumbersAreLocked, NoGaps
  <2> HIDE DEF next
  <2> QED
    BY <1>4, <2>2, <2>3
<1> HIDE DEF next
<1>8. (1 .. next - 1) \cup {next} = 1 .. stored'[Number].next - 1
  BY <1>2, <1>4
<1> QED
  BY <1>2, <1>4, <1>6, <1>7, <1>8 DEF NoGaps

LEMMA CommitKeepsTheInvariant ==
  ASSUME IInv, NEW t \in Transactions, Finish(t)
  PROVE  IInv'
<1>1. /\ step' \in [Transactions -> Steps] /\ step[t] = "commit" /\ step'[t] = "done"
      /\ \A u \in Transactions \ {t} : step'[u] = step[u]
      /\ Commit(t) /\ Chooses
  BY MovesKeepSteps, ForgetIsTyped DEF IInv, Finish, Steps
<1>2. /\ stored' = Current(t) /\ RowsOK(stored') /\ DOMAIN stored' = Keys /\ DatabaseOK
      /\ \A k \in Keys : stored'[k] = IF k \in DOMAIN written[t] THEN written[t][k] ELSE stored[k]
  BY <1>1, RowsAreTyped DEF Commit, IInv, TypeOK
<1>3. /\ DatabaseOK' /\ DOMAIN written'[t] = {}
      /\ \A u \in Transactions \ {t} : written'[u] = written[u]
  BY <1>1, <1>2, Ending DEF Commit
<1>4. \A list \in Lists : PlacesAreRight(list)'
  BY <1>1, <1>2, PlacesSurviveCommit DEF IInv
<1>5. \A k \in Keys : k \notin DOMAIN written[t] => stored'[k] = stored[k]
  BY <1>2
<1>6. ASSUME NEW u \in Transactions \ {t}
      PROVE  (TakesNoNumber(u) \/ TakesTheNext(u))'
  <2>1. CASE TakesNoNumber(u)
    BY <1>3, <2>1 DEF TakesNoNumber
  <2>2. CASE TakesTheNext(u)
    <3>1. Number \in DOMAIN written[u] /\ Number \in Keys
      BY <2>2, KeysOfTables DEF TakesTheNext
    <3>2. Number \notin DOMAIN written[t]
      BY <1>2, <3>1 DEF DatabaseOK, Free
    <3>3. stored'[Number] = stored[Number]
      BY <1>5, <3>1, <3>2
    <3> QED
      BY <1>1, <1>3, <2>2, <3>3 DEF TakesTheNext
  <2> QED
    BY <2>1, <2>2 DEF IInv, NumbersAreLocked
<1>7. \A u \in Transactions : (TakesNoNumber(u) \/ TakesTheNext(u))'
  BY <1>3, <1>6 DEF TakesNoNumber
<1>8. \A l \in Leads : step'[l] # "done" => stored'[Project(l)] = NoRow
  <2> SUFFICES ASSUME NEW l \in Leads, step'[l] # "done"
               PROVE  stored'[Project(l)] = NoRow
    OBVIOUS
  <2>1. l # t /\ step[l] # "done" /\ stored[Project(l)] = NoRow
    BY <1>1 DEF Transactions, IInv, NumbersAreLocked
  <2>2. Project(l) \in Keys /\ Project(l) \in ProjectKeys /\ Project(l) # Number
    BY KeysOfTables, KeysDiffer
  <2>3. Project(l) \notin DOMAIN written[t]
    <3>1. CASE TakesNoNumber(t)
      BY <2>2, <3>1 DEF TakesNoNumber
    <3>2. CASE TakesTheNext(t)
      BY <2>1, <2>2, <3>2, KeysOfTables DEF TakesTheNext
    <3> QED
      BY <3>1, <3>2 DEF IInv, NumbersAreLocked
  <2> QED
    BY <1>5, <2>1, <2>2, <2>3
<1>9. NoGaps(stored') /\ stored'[Number] # NoRow
  <2>1. CASE TakesNoNumber(t)
    <3>1. \A k \in ProjectKeys \cup {Number} : stored'[k] = stored[k]
      BY <1>5, <2>1, KeysOfTables DEF TakesNoNumber
    <3>2. Projects(stored') = Projects(stored) /\ stored'[Number] = stored[Number]
      BY <3>1, KeysOfTables DEF Projects
    <3>3. \A l \in Leads : stored'[Project(l)] = stored[Project(l)]
      BY <3>1, KeysOfTables
    <3>4. {stored'[Project(l)].number : l \in Projects(stored')} = {stored[Project(l)].number : l \in Projects(stored)}
      BY <3>2, <3>3 DEF Projects
    <3> QED
      BY <3>2, <3>4 DEF IInv, NumbersAreLocked, NoGaps
  <2>2. CASE TakesTheNext(t)
    BY <1>1, <2>2, CommitKeepsNumbers DEF TakesTheNext
  <2> QED
    BY <2>1, <2>2 DEF IInv, NumbersAreLocked
<1>10. NumbersAreLocked'
  BY <1>7, <1>8, <1>9 DEF NumbersAreLocked, NoGaps, Projects
<1> QED
  BY <1>1, <1>3, <1>4, <1>10 DEF IInv, TypeOK, Chooses

-----------------------------------------------------------------------------
(* The requests.                                                           *)

LEMMA SameChoices ==
  ASSUME TypeOK
  PROVE  UNCHANGED picked => Chooses
BY DEF TypeOK, Chooses

LEMMA LeadsKeepTheInvariant ==
  ASSUME IInv, NEW t \in Leads, Lead(t)
  PROVE  IInv'
<1>1. TypeOK /\ t \in Transactions
  BY DEF IInv, Transactions
<1>2. CASE BeginLead(t)
  BY <1>1, <1>2, BeginKeepsTheInvariant DEF BeginLead, Steps
<1>3. CASE LeadAddress(t)
  <2>1. OrdinaryStatement(t) /\ Chooses
    <3>1. CASE InsertAddress(t, None) /\ picked' = [picked EXCEPT ![t].address = t]
      BY <1>1, <3>1, AddressesAreInserted, KeysOfTables DEF TypeOK, Chooses
    <3>2. ASSUME NEW a \in Known(t, AddressKeys), Touch(t, Address(a)) \/ Omit,
                 picked' = [picked EXCEPT ![t].address = a]
          PROVE  OrdinaryStatement(t) /\ Chooses
      <4>1. a \in AddressIds /\ Address(a) \in AddressKeys
        BY KnownIds, KeysOfTables
      <4>2. Chooses
        BY <1>1, <3>2, <4>1 DEF TypeOK, Chooses
      <4>3. OrdinaryStatement(t)
        BY <1>1, <3>2, <4>1, RowsAreTouched DEF Omit, OrdinaryStatement
      <4> QED
        BY <4>2, <4>3
    <3> QED
      BY <1>3, <3>1, <3>2 DEF LeadAddress
  <2>2. Goes(t, "address", "client")
    BY <1>1, <1>3, SameChoices DEF LeadAddress
  <2> QED
    BY <1>1, <2>1, <2>2, OrdinaryStatementsKeepTheInvariant DEF Steps
<1>4. CASE LeadClient(t)
  <2>1. OrdinaryStatement(t)
    BY <1>1, <1>4, RowsAreTouched DEF LeadClient, Omit, OrdinaryStatement
  <2>2. Goes(t, "client", "contact") /\ Chooses
    BY <1>1, <1>4, SameChoices DEF LeadClient
  <2> QED
    BY <1>1, <2>1, <2>2, OrdinaryStatementsKeepTheInvariant DEF Steps
<1>5. CASE LeadContact(t)
  <2>1. OrdinaryStatement(t) /\ Chooses
    <3>1. CASE InsertContact(t) /\ picked' = [picked EXCEPT ![t].contact = t]
      BY <1>1, <3>1, ContactsAreInserted, KeysOfTables DEF TypeOK, Chooses
    <3>2. ASSUME NEW c \in Known(t, ContactKeys), Touch(t, Contact(c)) \/ Omit,
                 picked' = [picked EXCEPT ![t].contact = c]
          PROVE  OrdinaryStatement(t) /\ Chooses
      <4>1. c \in ContactIds /\ Contact(c) \in ContactKeys
        BY KnownIds, KeysOfTables
      <4>2. Chooses
        BY <1>1, <3>2, <4>1 DEF TypeOK, Chooses
      <4>3. OrdinaryStatement(t)
        BY <1>1, <3>2, <4>1, RowsAreTouched DEF Omit, OrdinaryStatement
      <4> QED
        BY <4>2, <4>3
    <3> QED
      BY <1>5, <3>1, <3>2 DEF LeadContact
  <2>2. Goes(t, "contact", "source")
    BY <1>1, <1>5, SameChoices DEF LeadContact
  <2> QED
    BY <1>1, <2>1, <2>2, OrdinaryStatementsKeepTheInvariant DEF Steps
<1>6. CASE LeadSource(t)
  <2>1. Chooses
    BY <1>1, <1>6, SameChoices DEF LeadSource
  <2>2. PICK to \in {"project", "source_missing"} :
          Goes(t, "source", to) /\ (Omit \/ Execute(t, {Source}, One(Source, "row")))
    BY <1>6 DEF LeadSource
  <2>3. ASSUME Execute(t, {Source}, One(Source, "row"))
        PROVE  OrdinaryStatement(t)
    <3> DEFINE rows == One(Source, "row")
    <3>1. DOMAIN rows = {Source} /\ rows[Source] = "row"
      BY DEF One
    <3> HIDE DEF rows
    <3>2. {Source} \subseteq Keys /\ RowsOK(rows)
      BY <3>1, KeysOfTables DEF RowsOK, RowOK
    <3>3. \A list \in Lists : Stays(t, rows, list)
      BY <3>1, KeysDiffer DEF Stays, Lists
    <3>4. Ordinary(t, {Source}, rows)
      BY <3>1, <3>2, <3>3, KeysDiffer DEF Ordinary
    <3>5. Execute(t, {Source}, rows)
      BY <2>3 DEF rows
    <3> QED
      BY <3>4, <3>5 DEF OrdinaryStatement
  <2>4. OrdinaryStatement(t)
    BY <2>2, <2>3 DEF Omit, OrdinaryStatement
  <2> QED
    BY <1>1, <2>1, <2>2, <2>4, OrdinaryStatementsKeepTheInvariant DEF Steps
<1>7. CASE InsertProject(t)
  BY <1>7, InsertProjectKeepsTheInvariant
<1> QED
  BY <1>2, <1>3, <1>4, <1>5, <1>6, <1>7 DEF Lead

LEMMA UpdatesKeepTheInvariant ==
  ASSUME IInv, NEW t \in Updates, UpdateClient(t)
  PROVE  IInv'
<1>1. TypeOK /\ t \in Transactions
  BY DEF IInv, Transactions
<1>2. ASSUME NEW from \in Steps \ {"commit", "done"}, NEW to \in Steps \ {"done"},
             Goes(t, from, to), OrdinaryStatement(t), UNCHANGED <<picked, in_use>>
      PROVE  IInv'
  BY <1>1, <1>2, SameChoices, OrdinaryStatementsKeepTheInvariant
<1>3. CASE BeginUpdate(t)
  BY <1>1, <1>3, BeginKeepsTheInvariant DEF BeginUpdate, Steps
<1>4. CASE ChangeClient(t)
  <2>1. ASSUME NEW a \in Known(t, AddressKeys), Update(t, Client, [Current(t)[Client] EXCEPT !.default = a])
        PROVE  OrdinaryStatement(t)
    <3>1. a \in AddressIds /\ Client \in Keys /\ RowOK(Client, Current(t)[Client])
      BY <1>1, KnownIds, KeysOfTables, RowsAreTyped DEF TypeOK, RowsOK
    <3>2. Current(t)[Client] # NoRow => RowOK(Client, [Current(t)[Client] EXCEPT !.default = a])
      <4> SUFFICES ASSUME Current(t)[Client] # NoRow
                   PROVE  [Current(t)[Client] EXCEPT !.default = a] \in [default : AddressIds]
        BY DEF RowOK
      <4>1. Current(t)[Client] \in [default : AddressIds]
        BY <3>1, TypesOfRows
      <4> QED
        BY <3>1, <4>1
    <3> QED
      BY <1>1, <2>1, <3>2, RowsAreUpdated
  <2>2. OrdinaryStatement(t)
    BY <1>4, <2>1 DEF ChangeClient, Omit, OrdinaryStatement
  <2> QED
    BY <1>2, <1>4, <2>2 DEF ChangeClient, Steps
<1>5. CASE AddContacts(t)
  <2>1. OrdinaryStatement(t)
    BY <1>1, <1>5, ContactsAreInserted DEF AddContacts, Omit, OrdinaryStatement
  <2> QED
    BY <1>2, <1>5, <2>1 DEF AddContacts, Steps
<1>6. CASE ChangeContacts(t)
  <2>1. \A c \in Known(t, ContactKeys) : Contact(c) \in ContactKeys
    BY KnownIds, KeysOfTables
  <2>2. OrdinaryStatement(t)
    BY <1>1, <1>6, <2>1, RowsAreTouched DEF ChangeContacts, Omit, OrdinaryStatement
  <2> QED
    BY <1>2, <1>6, <2>2 DEF ChangeContacts, Steps
<1>7. CASE AddAddresses(t)
  <2>1. Known(t, ContactKeys) \cup {None} \subseteq ContactIds \cup {None}
    BY KnownIds
  <2>2. OrdinaryStatement(t)
    BY <1>1, <1>7, <2>1, AddressesAreInserted DEF AddAddresses, Omit, OrdinaryStatement
  <2> QED
    BY <1>2, <1>7, <2>2 DEF AddAddresses, Steps
<1>8. CASE ChangeAddresses(t)
  <2>1. ASSUME NEW a \in Known(t, AddressKeys), NEW c \in Known(t, ContactKeys) \cup {None},
               Update(t, Address(a), [Current(t)[Address(a)] EXCEPT !.contact = c])
        PROVE  OrdinaryStatement(t)
    <3> DEFINE before == Current(t)[Address(a)]
    <3>1. /\ c \in ContactIds \cup {None} /\ Address(a) \in AddressKeys /\ Address(a) \in Keys
          /\ RowOK(Address(a), before)
      BY <1>1, KnownIds, KeysOfTables, RowsAreTyped DEF TypeOK, RowsOK
    <3>2. before # NoRow => RowOK(Address(a), [before EXCEPT !.contact = c]) /\ [before EXCEPT !.contact = c].sort = before.sort
      <4> SUFFICES ASSUME before # NoRow
                   PROVE  [before EXCEPT !.contact = c] \in AddressRows /\ [before EXCEPT !.contact = c].sort = before.sort
        BY <3>1 DEF RowOK
      <4>1. before \in AddressRows
        BY <3>1, TypesOfRows
      <4> QED
        BY <3>1, <4>1 DEF AddressRows
    <3> QED
      BY <1>1, <2>1, <3>1, <3>2, RowsAreUpdated
  <2>2. OrdinaryStatement(t)
    BY <1>8, <2>1 DEF ChangeAddresses, Omit, OrdinaryStatement
  <2> QED
    BY <1>2, <1>8, <2>2 DEF ChangeAddresses, Steps
<1>9. CASE CheckInUse(t)
  <2>1. OrdinaryStatement(t) /\ Chooses /\ Goes(t, "check", "remove_addresses")
    BY <1>1, <1>9, SameChoices DEF CheckInUse, OrdinaryStatement
  <2> QED
    BY <1>1, <2>1, OrdinaryStatementsKeepTheInvariant DEF Steps
<1>10. CASE RemoveAddresses(t)
  <2>1. \A ids \in SUBSET Known(t, AddressKeys) : {Address(a) : a \in ids} \subseteq AddressKeys \cup ContactKeys
    BY KnownIds, KeysOfTables
  <2>2. OrdinaryStatement(t)
    BY <1>1, <1>10, <2>1, RowsAreRemoved DEF RemoveAddresses
  <2> QED
    BY <1>2, <1>10, <2>2 DEF RemoveAddresses, Steps
<1>11. CASE RemoveContacts(t)
  <2>1. \A ids \in SUBSET Known(t, ContactKeys) : {Contact(c) : c \in ids} \subseteq AddressKeys \cup ContactKeys
    BY KnownIds, KeysOfTables
  <2>2. OrdinaryStatement(t)
    BY <1>1, <1>11, <2>1, RowsAreRemoved DEF RemoveContacts
  <2> QED
    BY <1>2, <1>11, <2>2 DEF RemoveContacts, Steps
<1> QED
  BY <1>3, <1>4, <1>5, <1>6, <1>7, <1>8, <1>9, <1>10, <1>11 DEF UpdateClient

-----------------------------------------------------------------------------
LEMMA NumberingsDiffer ==
  ASSUME NEW S, NEW first, NEW f \in Numberings(S, first)
  PROVE  f \in [S -> first .. first + Cardinality(S) - 1] /\ \A x, y \in S : f[x] = f[y] => x = y
BY DEF Numberings

LEMMA InitInv == Init => IInv
<1> SUFFICES ASSUME Init
             PROVE  IInv
  OBVIOUS
<1>1. PICK default \in Addresses, address_sort \in Numberings(Addresses, 0),
           contact_sort \in Numberings(Contacts, 1), address_contact \in [Addresses -> Contacts \cup {None}] :
         stored = [k \in Keys |-> FirstRow(k, default, address_sort, contact_sort, address_contact)]
  BY DEF Init
<1> DEFINE FirstAddresses == {Address(a) : a \in Addresses}
           FirstContacts == {Contact(c) : c \in Contacts}
<1>2. /\ snapshot = [t \in Transactions |-> NoRows] /\ written = [t \in Transactions |-> NoRows]
      /\ locks = [t \in Transactions |-> {}] /\ step = [t \in Transactions |-> "new"]
      /\ picked = [t \in Transactions |-> Nobody] /\ DOMAIN stored = Keys
  BY <1>1 DEF Init
<1>3. FirstAddresses \subseteq AddressKeys /\ FirstContacts \subseteq ContactKeys
  BY DEF AddressKeys, ContactKeys, AddressIds, ContactIds
<1>4. /\ stored[Client] = [default |-> default]
      /\ stored[Number] = [next |-> 1]
  BY <1>1, <1>3, KeysDiffer, KeysOfTables DEF FirstRow
<1>5. \A a \in Addresses : stored[Address(a)] = [sort |-> address_sort[a], contact |-> address_contact[a]]
  <2> SUFFICES ASSUME NEW a \in Addresses
               PROVE  stored[Address(a)] = [sort |-> address_sort[a], contact |-> address_contact[a]]
    OBVIOUS
  <2>1. /\ Address(a) \in FirstAddresses /\ Address(a) \in Keys /\ Address(a)[2] = a
        /\ Address(a) \notin FirstContacts /\ Address(a) # Client /\ Address(a) # Number
    BY <1>3, KeysDiffer, KeysOfTables DEF Address
  <2> QED
    BY <1>1, <2>1 DEF FirstRow
<1>6. \A c \in Contacts : stored[Contact(c)] = [sort |-> contact_sort[c]]
  <2> SUFFICES ASSUME NEW c \in Contacts
               PROVE  stored[Contact(c)] = [sort |-> contact_sort[c]]
    OBVIOUS
  <2>1. /\ Contact(c) \in FirstContacts /\ Contact(c) \in Keys /\ Contact(c)[2] = c
        /\ Contact(c) \notin FirstAddresses /\ Contact(c) # Client /\ Contact(c) # Number
    BY <1>3, KeysDiffer, KeysOfTables DEF Contact
  <2> QED
    BY <1>1, <2>1 DEF FirstRow
<1>7. \A k \in Keys \ (FirstAddresses \cup FirstContacts \cup {Client, Number}) : stored[k] = NoRow
  BY <1>1 DEF FirstRow
<1>8. /\ \A a \in Addresses : stored[Address(a)] \in AddressRows
      /\ \A c \in Contacts : stored[Contact(c)] \in ContactRows
  <2>1. Cardinality(Addresses) \in Nat /\ Cardinality(Contacts) \in Nat
    <3> DEFINE all == Leads \cup Updates \cup Addresses \cup Contacts
    <3>1. IsFiniteSet(all) /\ Addresses \subseteq all /\ Contacts \subseteq all
      BY RecordsAssumption
    <3> HIDE DEF all
    <3> QED
      BY <3>1, FS_Subset, FS_CardinalityType
  <2>2. /\ \A a \in Addresses : address_sort[a] \in Nat
        /\ \A c \in Contacts : contact_sort[c] \in Nat
    BY <2>1, NumberingsDiffer
  <2>3. \A a \in Addresses : address_contact[a] \in ContactIds \cup {None}
    BY DEF ContactIds
  <2>4. ASSUME NEW a \in Addresses
        PROVE  stored[Address(a)] \in AddressRows
    <3>1. stored[Address(a)] = [sort |-> address_sort[a], contact |-> address_contact[a]]
      BY <1>5
    <3>2. address_sort[a] \in Nat /\ address_contact[a] \in ContactIds \cup {None}
      BY <2>2, <2>3
    <3> QED
      BY <3>1, <3>2 DEF AddressRows
  <2>5. ASSUME NEW c \in Contacts
        PROVE  stored[Contact(c)] \in ContactRows
    <3>1. stored[Contact(c)] = [sort |-> contact_sort[c]]
      BY <1>6
    <3> QED
      BY <3>1, <2>2 DEF ContactRows
  <2> QED
    BY <2>4, <2>5
<1>9. RowsOK(stored)
  <2> SUFFICES ASSUME NEW k \in Keys
               PROVE  RowOK(k, stored[k])
    BY <1>2 DEF RowsOK
  <2>1. CASE k \in FirstAddresses
    BY <1>3, <1>8, <2>1 DEF RowOK
  <2>2. CASE k \in FirstContacts
    BY <1>3, <1>8, <2>2 DEF RowOK
  <2>3. CASE k = Client
    BY <1>4, <2>3 DEF RowOK, AddressIds
  <2>4. CASE k = Number
    BY <1>4, <2>4 DEF RowOK
  <2>5. CASE k \notin FirstAddresses \cup FirstContacts \cup {Client, Number}
    BY <1>7, <2>5 DEF RowOK
  <2> QED
    BY <2>1, <2>2, <2>3, <2>4, <2>5
<1>10. TypeOK
  <2>1. RowsOK(NoRows) /\ DOMAIN NoRows = {}
    BY DEF NoRows, RowsOK
  <2>2. DatabaseOK
    BY <1>2, <1>9, <2>1 DEF DatabaseOK, Free
  <2> QED
    BY <1>2, <2>2 DEF TypeOK, Steps, Nobody
<1>11. ASSUME NEW list \in Lists
       PROVE  PlacesAreRight(list)
  <2>1. PlacesDiffer(stored, AddressKeys)
    <3> SUFFICES ASSUME NEW j \in AddressKeys, NEW k \in AddressKeys, stored[j] # NoRow, stored[k] # NoRow,
                        stored[j].sort = stored[k].sort
                 PROVE  j = k
      BY DEF PlacesDiffer
    <3>1. j \in FirstAddresses /\ k \in FirstAddresses
      BY <1>3, <1>7, KeysDiffer, KeysOfTables
    <3>2. PICK a \in Addresses, b \in Addresses : j = Address(a) /\ k = Address(b)
      BY <3>1
    <3>3. stored[j] = [sort |-> address_sort[a], contact |-> address_contact[a]]
      BY <1>5, <3>2
    <3>4. stored[k] = [sort |-> address_sort[b], contact |-> address_contact[b]]
      BY <1>5, <3>2
    <3>5. address_sort[a] = address_sort[b]
      BY <3>3, <3>4
    <3> QED
      BY <3>2, <3>5, NumberingsDiffer
  <2>2. PlacesDiffer(stored, ContactKeys)
    <3> SUFFICES ASSUME NEW j \in ContactKeys, NEW k \in ContactKeys, stored[j] # NoRow, stored[k] # NoRow,
                        stored[j].sort = stored[k].sort
                 PROVE  j = k
      BY DEF PlacesDiffer
    <3>1. j \in FirstContacts /\ k \in FirstContacts
      BY <1>3, <1>7, KeysDiffer, KeysOfTables
    <3>2. PICK c \in Contacts, d \in Contacts : j = Contact(c) /\ k = Contact(d)
      BY <3>1
    <3>3. stored[j] = [sort |-> contact_sort[c]]
      BY <1>6, <3>2
    <3>4. stored[k] = [sort |-> contact_sort[d]]
      BY <1>6, <3>2
    <3>5. contact_sort[c] = contact_sort[d]
      BY <3>3, <3>4
    <3> QED
      BY <3>2, <3>5, NumberingsDiffer
  <2>3. ASSUME NEW t \in Transactions
        PROVE  KeepsPlaces(t, list)
    <3>1. \A k \in Keys : Current(t)[k] = stored[k]
      BY <1>2 DEF Current, Over, NoRows
    <3> QED
      BY <3>1, ListsAreTables DEF KeepsPlaces
  <2> QED
    BY <2>1, <2>2, <2>3 DEF PlacesAreRight, Lists
<1>12. NumbersAreLocked
  <2>1. \A l \in Leads : stored[Project(l)] = NoRow
    BY <1>3, <1>7, KeysDiffer, KeysOfTables
  <2>2. Projects(stored) = {}
    BY <2>1 DEF Projects
  <2>3. stored[Number].next = 1 /\ stored[Number] # NoRow
    <3>1. [next |-> 1] \in [next : Nat]
      OBVIOUS
    <3> QED
      BY <1>4, <3>1, NoRowAssumption
  <2>4. NoGaps(stored)
    BY <2>2, <2>3, FS_EmptySet DEF NoGaps
  <2>5. \A t \in Transactions : TakesNoNumber(t)
    BY <1>2 DEF TakesNoNumber, NoRows
  <2> QED
    BY <2>1, <2>3, <2>4, <2>5 DEF NumbersAreLocked
<1> QED
  BY <1>10, <1>11, <1>12 DEF IInv

LEMMA NextInv == IInv /\ [Next]_vars => IInv'
<1> SUFFICES ASSUME IInv, [Next]_vars
             PROVE  IInv'
  OBVIOUS
<1>1. CASE UNCHANGED vars
  <2>1. TypeOK'
    BY <1>1 DEF vars, database, IInv, TypeOK, DatabaseOK, RowsOK, Free
  <2>2. (\A list \in Lists : PlacesAreRight(list))'
    BY <1>1 DEF vars, database, IInv, PlacesAreRight, PlacesDiffer, KeepsPlaces, Current
  <2>3. NumbersAreLocked'
    BY <1>1 DEF vars, database, IInv, NumbersAreLocked, NoGaps, Projects, TakesNoNumber, TakesTheNext
  <2> QED
    BY <2>1, <2>2, <2>3 DEF IInv
<1> QED
  BY <1>1, LeadsKeepTheInvariant, UpdatesKeepTheInvariant, CommitKeepsTheInvariant, RollbackKeepsTheInvariant
     DEF Next

LEMMA InvImpliesPlacesAndNumbers == IInv => PlacesAndNumbersAreRight
<1> SUFFICES ASSUME IInv
             PROVE  SortsAreDistinct /\ NumbersHaveNoGaps
  BY DEF PlacesAndNumbersAreRight
<1>1. SortsAreDistinct
  BY DEF IInv, PlacesAreRight, PlacesDiffer, SortsAreDistinct, Lists
<1>2. NumbersHaveNoGaps
  BY DEF IInv, NumbersAreLocked, NoGaps, Projects, NumbersHaveNoGaps
<1> QED
  BY <1>1, <1>2

\* For any number of leads and updates of a client, overlapping statement by statement and rolled
\* back anywhere: no two addresses and no two contacts come to one place, and the projects are
\* numbered without a gap and without a number given twice (get_next_sort,
\* get_next_project_number_and_increment).
THEOREM PlacesAndNumbers == Spec => []PlacesAndNumbersAreRight
BY InitInv, NextInv, InvImpliesPlacesAndNumbers, PTL DEF Spec

\* Rows and locks keep their types: no row is locked by two transactions, and none is written
\* without its lock (Database).
THEOREM TypeCorrect == Spec => []TypeOK
<1>1. IInv => TypeOK
  BY DEF IInv
<1> QED
  BY <1>1, InitInv, NextInv, PTL DEF Spec

-----------------------------------------------------------------------------
(* References.  There is no lock that protects them: what a request may    *)
(* refer to and what it may remove it reads from its snapshot.             *)

\* The rows that a row refers to, whatever its table.
Refers(k, row) ==
  IF k = Client THEN {Address(row.default)}
  ELSE IF row = NoRow THEN {}
  ELSE IF k \in ProjectKeys THEN {Address(row.address), Contact(row.contact)}
  ELSE IF k \in AddressKeys /\ row.contact # None THEN {Contact(row.contact)}
  ELSE {}

\* The rows that a transaction has read or written.
Met(t, k) == k \in DOMAIN written[t] \/ (k \in Keys /\ snapshot[t][k] # NoRow)

SnapshotsAreTaken(t) ==
  /\ step[t] = "new" => DOMAIN written[t] = {}
  /\ step[t] \notin {"new", "done"} => DOMAIN snapshot[t] = Keys

\* What a transaction writes refers to rows it has met, but for what the row referred to
\* before; and so do the picks of a lead.
RefersToMet(t) ==
  \A k \in DOMAIN written[t] : \A x \in Refers(k, written[t][k]) : x \in Refers(k, stored[k]) \/ Met(t, x)
PicksAreMet(t) ==
  /\ step[t] \in {"client", "contact", "source", "project"} => Met(t, Address(picked[t].address))
  /\ step[t] \in {"source", "project"} => Met(t, Contact(picked[t].contact))

\* An update knows all that its own view refers to before it removes a row, and removes
\* nothing of that.
Removing == {"remove_addresses", "remove_contacts", "commit"}
RemovesUnused(t) ==
  /\ \A k \in DOMAIN written[t] : written[t][k] = NoRow => step[t] \in Removing /\ k \notin in_use[t]
  /\ step[t] \in Removing /\ t \in Updates => \A k \in Keys : Refers(k, View(t)[k]) \subseteq in_use[t]
  /\ t \in Leads => \A k \in DOMAIN written[t] : written[t][k] # NoRow

RefersWell(t) == SnapshotsAreTaken(t) /\ RefersToMet(t) /\ PicksAreMet(t) /\ RemovesUnused(t)

RInv ==
  /\ DOMAIN in_use = Transactions
  /\ \A k \in Keys : Refers(k, stored[k]) \subseteq Keys
  /\ \A t \in Transactions : RefersWell(t)

LEMMA ReferencesAreOfRows ==
  ASSUME NEW s
  PROVE  ReferredTo(s) = UNION {Refers(k, s[k]) : k \in Keys}
<1> DEFINE projects == {s[k] : k \in {k \in ProjectKeys : s[k] # NoRow}}
           addresses == {s[k] : k \in {k \in AddressKeys : s[k] # NoRow}}
           all == UNION {Refers(k, s[k]) : k \in Keys}
<1>1. ReferredTo(s) = {Address(s[Client].default)}
         \cup {Address(p.address) : p \in projects} \cup {Contact(p.contact) : p \in projects}
         \cup {Contact(a.contact) : a \in {a \in addresses : a.contact # None}}
  BY DEF ReferredTo
<1>2. Refers(Client, s[Client]) = {Address(s[Client].default)} /\ Client \in Keys
  BY KeysOfTables DEF Refers
<1>3. ASSUME NEW k \in ProjectKeys
      PROVE  /\ k \in Keys
             /\ Refers(k, s[k]) = IF s[k] = NoRow THEN {} ELSE {Address(s[k].address), Contact(s[k].contact)}
  BY KeysOfTables, KeysDiffer DEF Refers
<1>4. ASSUME NEW k \in AddressKeys
      PROVE  /\ k \in Keys
             /\ Refers(k, s[k]) = IF s[k] = NoRow \/ s[k].contact = None THEN {} ELSE {Contact(s[k].contact)}
  BY KeysOfTables, KeysDiffer DEF Refers
<1>5. ASSUME NEW k \in Keys, k # Client, k \notin ProjectKeys, k \notin AddressKeys
      PROVE  Refers(k, s[k]) = {}
  BY <1>5 DEF Refers
<1>6. ReferredTo(s) \subseteq all
  <2>1. Address(s[Client].default) \in all
    BY <1>2
  <2>2. ASSUME NEW p \in projects
        PROVE  Address(p.address) \in all /\ Contact(p.contact) \in all
    BY <1>3, <2>2
  <2>3. ASSUME NEW a \in addresses, a.contact # None
        PROVE  Contact(a.contact) \in all
    BY <1>4, <2>3
  <2> HIDE DEF all, projects, addresses
  <2> QED
    BY <1>1, <2>1, <2>2, <2>3
<1>7. ASSUME NEW k \in Keys, NEW x \in Refers(k, s[k])
      PROVE  x \in ReferredTo(s)
  <2>1. CASE k = Client
    BY <1>1, <1>2, <1>7, <2>1
  <2>2. CASE k \in ProjectKeys
    <3>1. s[k] \in projects /\ (x = Address(s[k].address) \/ x = Contact(s[k].contact))
      BY <1>3, <1>7, <2>2
    <3> HIDE DEF projects, addresses
    <3> QED
      BY <1>1, <3>1
  <2>3. CASE k \in AddressKeys
    <3>1. s[k] \in addresses /\ s[k].contact # None /\ x = Contact(s[k].contact)
      BY <1>4, <1>7, <2>3
    <3> HIDE DEF projects, addresses
    <3> QED
      BY <1>1, <3>1
  <2> QED
    BY <1>5, <1>7, <2>1, <2>2, <2>3
<1> HIDE DEF projects, addresses
<1> QED
  BY <1>6, <1>7

\* What a transaction has met it has met for good.
LEMMA MetStays ==
  ASSUME NEW t, NEW k, Met(t, k), snapshot' = snapshot, DOMAIN written[t] \subseteq DOMAIN written'[t]
  PROVE  Met(t, k)'
BY DEF Met

\* The steps of another transaction leave alone what one has done.
LEMMA OthersAreLeftAlone ==
  ASSUME NEW t, RefersWell(t),
         written'[t] = written[t], snapshot'[t] = snapshot[t], step'[t] = step[t], picked'[t] = picked[t],
         in_use'[t] = in_use[t], \A k \in DOMAIN written[t] : stored'[k] = stored[k]
  PROVE  RefersWell(t)'
<1>1. SnapshotsAreTaken(t)'
  BY DEF RefersWell, SnapshotsAreTaken
<1>2. \A k : Met(t, k)' <=> Met(t, k)
  BY DEF Met
<1>3. RefersToMet(t)'
  BY <1>2 DEF RefersWell, RefersToMet
<1>4. PicksAreMet(t)'
  BY <1>2 DEF RefersWell, PicksAreMet
<1>5. View(t)' = View(t)
  BY DEF View
<1>6. RemovesUnused(t)'
  BY <1>5 DEF RefersWell, RemovesUnused
<1> QED
  BY <1>1, <1>3, <1>4, <1>6 DEF RefersWell

\* A transaction that has not begun, or has ended, has nothing to answer for.
LEMMA NothingWritten ==
  ASSUME NEW t, DOMAIN written[t] = {}, step[t] \in {"new", "address", "change_client", "done"},
         step[t] \notin {"new", "done"} => DOMAIN snapshot[t] = Keys
  PROVE  RefersWell(t)
BY DEF RefersWell, SnapshotsAreTaken, RefersToMet, PicksAreMet, RemovesUnused, Removing

\* What the rows that a statement writes may refer to.
RefersSoundly(t, rows) ==
  \A k \in DOMAIN rows : \A x \in Refers(k, rows[k]) : x \in Refers(k, Current(t)[k]) \/ Met(t, x)

LEMMA StatementsReferToMet ==
  ASSUME TypeOK, NEW t \in Transactions, RefersWell(t), NEW keys, keys \subseteq Keys,
         NEW rows, RowsOK(rows), DOMAIN rows \subseteq keys, Execute(t, keys, rows), RefersSoundly(t, rows)
  PROVE  /\ RefersToMet(t)' /\ \A k : Met(t, k) => Met(t, k)'
         /\ DOMAIN written'[t] = DOMAIN written[t] \cup DOMAIN rows
         /\ \A k \in DOMAIN written'[t] : written'[t][k] = IF k \in DOMAIN rows THEN rows[k] ELSE written[t][k]
<1>1. /\ stored' = stored /\ snapshot' = snapshot /\ written'[t] = Over(rows, written[t])
      /\ \A k \in Keys : Current(t)[k] = IF k \in DOMAIN written[t] THEN written[t][k] ELSE stored[k]
      /\ DOMAIN written[t] \subseteq Keys
  BY Statement, RowsAreTyped DEF TypeOK
<1>2. /\ DOMAIN written'[t] = DOMAIN written[t] \cup DOMAIN rows
      /\ \A k \in DOMAIN written'[t] : written'[t][k] = IF k \in DOMAIN rows THEN rows[k] ELSE written[t][k]
  BY <1>1 DEF Over
<1>3. \A k : Met(t, k) => Met(t, k)'
  BY <1>1, <1>2, MetStays
<1>4. RefersToMet(t)'
  <2> SUFFICES ASSUME NEW k \in DOMAIN written'[t], NEW x \in Refers(k, written'[t][k])
               PROVE  x \in Refers(k, stored[k]) \/ Met(t, x)'
    BY <1>1 DEF RefersToMet, Refers
  <2>1. CASE k \in DOMAIN rows
    <3>1. x \in Refers(k, Current(t)[k]) \/ Met(t, x)
      BY <1>2, <2>1 DEF RefersSoundly
    <3>2. CASE k \in DOMAIN written[t]
      BY <1>1, <1>3, <3>1, <3>2 DEF RefersWell, RefersToMet
    <3>3. CASE k \notin DOMAIN written[t]
      BY <1>1, <1>3, <2>1, <3>1, <3>3
    <3> QED
      BY <3>2, <3>3
  <2>2. CASE k \notin DOMAIN rows
    BY <1>2, <1>3, <2>2 DEF RefersWell, RefersToMet
  <2> QED
    BY <2>1, <2>2
<1> QED
  BY <1>2, <1>3, <1>4

\* A statement before the removals writes rows, and each is one that there is.
Writes(t, keys, rows) ==
  /\ keys \subseteq Keys /\ DOMAIN rows \subseteq keys /\ RowsOK(rows) /\ Execute(t, keys, rows)
  /\ \A k \in DOMAIN rows : rows[k] # NoRow
  /\ RefersSoundly(t, rows)
WritesSoundly(t) == UNCHANGED database \/ \E keys, rows : Writes(t, keys, rows)

\* The others go on as they were.
LEMMA OnlyOneMoves ==
  ASSUME IInv, RInv, NEW t \in Transactions, DOMAIN in_use' = Transactions, stored' = stored, RefersWell(t)',
         \A u \in Transactions \ {t} :
            written'[u] = written[u] /\ snapshot'[u] = snapshot[u] /\ step'[u] = step[u]
            /\ picked'[u] = picked[u] /\ in_use'[u] = in_use[u]
  PROVE  RInv'
<1>1. ASSUME NEW u \in Transactions \ {t}
      PROVE  RefersWell(u)'
  BY OthersAreLeftAlone DEF RInv
<1>2. (\A k \in Keys : Refers(k, stored[k]) \subseteq Keys)'
  BY DEF RInv, Refers
<1> QED
  BY <1>1, <1>2 DEF RInv

\* A transaction goes on to another statement.
LEMMA Moves ==
  ASSUME IInv, NEW t \in Transactions, NEW from, NEW to, Goes(t, from, to)
  PROVE  step[t] = from /\ step'[t] = to /\ \A u \in Transactions \ {t} : step'[u] = step[u]
BY DEF IInv, TypeOK, Goes

LEMMA WritesMeet ==
  ASSUME IInv, NEW t \in Transactions, RefersWell(t), WritesSoundly(t)
  PROVE  /\ stored' = stored /\ snapshot' = snapshot
         /\ \A u \in Transactions \ {t} : written'[u] = written[u]
         /\ RefersToMet(t)' /\ \A k : Met(t, k) => Met(t, k)'
         /\ \A k \in DOMAIN written'[t] : written'[t][k] = NoRow => k \in DOMAIN written[t] /\ written[t][k] = NoRow
<1>1. CASE UNCHANGED database
  BY <1>1 DEF database, RefersWell, RefersToMet, Met
<1>2. ASSUME NEW keys, NEW rows, Writes(t, keys, rows)
      PROVE  /\ stored' = stored /\ snapshot' = snapshot
             /\ \A u \in Transactions \ {t} : written'[u] = written[u]
             /\ RefersToMet(t)' /\ \A k : Met(t, k) => Met(t, k)'
             /\ \A k \in DOMAIN written'[t] : written'[t][k] = NoRow => k \in DOMAIN written[t] /\ written[t][k] = NoRow
  <2>1. /\ keys \subseteq Keys /\ DOMAIN rows \subseteq keys /\ RowsOK(rows) /\ Execute(t, keys, rows)
        /\ \A k \in DOMAIN rows : rows[k] # NoRow
        /\ RefersSoundly(t, rows) /\ TypeOK /\ DatabaseOK
    BY <1>2 DEF Writes, IInv, TypeOK
  <2>2. /\ RefersToMet(t)' /\ \A k : Met(t, k) => Met(t, k)'
        /\ DOMAIN written'[t] = DOMAIN written[t] \cup DOMAIN rows
        /\ \A k \in DOMAIN written'[t] : written'[t][k] = IF k \in DOMAIN rows THEN rows[k] ELSE written[t][k]
    BY <2>1, StatementsReferToMet
  <2>3. stored' = stored /\ snapshot' = snapshot /\ \A u \in Transactions \ {t} : written'[u] = written[u]
    BY <2>1, Statement
  <2> QED
    BY <2>1, <2>2, <2>3
<1> QED
  BY <1>1, <1>2 DEF WritesSoundly

\* A statement that writes soundly and keeps the picks right keeps all of it.
LEMMA SoundWritesReferWell ==
  ASSUME IInv, RInv, NEW t \in Transactions, NEW from \in Steps \ (Removing \cup {"new", "done"}),
         NEW to \in Steps \ {"new", "done"}, to \in Removing => to = "commit" /\ t \in Leads,
         Goes(t, from, to), WritesSoundly(t), PicksAreMet(t)', UNCHANGED in_use,
         \A u \in Transactions \ {t} : picked'[u] = picked[u]
  PROVE  RInv'
<1>1. RefersWell(t)
  BY DEF RInv
<1>2. step[t] = from /\ step'[t] = to /\ \A u \in Transactions \ {t} : step'[u] = step[u]
  BY Moves
<1>3. /\ stored' = stored /\ snapshot' = snapshot
      /\ \A u \in Transactions \ {t} : written'[u] = written[u]
      /\ RefersToMet(t)'
      /\ \A k \in DOMAIN written'[t] : written'[t][k] = NoRow => k \in DOMAIN written[t] /\ written[t][k] = NoRow
  BY <1>1, WritesMeet
<1>4. SnapshotsAreTaken(t)'
  BY <1>1, <1>2, <1>3 DEF RefersWell, SnapshotsAreTaken
<1>5. \A k \in DOMAIN written'[t] : written'[t][k] # NoRow
  BY <1>1, <1>2, <1>3 DEF RefersWell, RemovesUnused
<1>6. t \in Leads => t \notin Updates
  BY RecordsAssumption
<1>7. RemovesUnused(t)'
  BY <1>2, <1>5, <1>6 DEF RemovesUnused
<1>8. RefersWell(t)'
  BY <1>3, <1>4, <1>7 DEF RefersWell
<1> QED
  BY <1>2, <1>3, <1>8, OnlyOneMoves DEF RInv

-----------------------------------------------------------------------------
(* Each statement writes soundly.                                          *)

LEMMA NoRowIsNoRecord ==
  ASSUME NEW row, row \in AddressRows \cup ContactRows \cup ProjectRows \cup [next : Nat] \cup [default : AddressIds] \cup {"row"}
  PROVE  row # NoRow
BY NoRowAssumption

LEMMA KnownAreMet ==
  ASSUME NEW t
  PROVE  /\ \A a \in Known(t, AddressKeys) : Met(t, Address(a))
         /\ \A c \in Known(t, ContactKeys) : Met(t, Contact(c))
<1>1. ASSUME NEW a \in Known(t, AddressKeys)
      PROVE  Met(t, Address(a))
  <2>1. PICK k \in AddressKeys : snapshot[t][k] # NoRow /\ k[2] = a
    BY DEF Known
  <2>2. k = Address(a) /\ k \in Keys
    BY <2>1, KeysOfTables DEF AddressKeys, Address
  <2> QED
    BY <2>1, <2>2 DEF Met
<1>2. ASSUME NEW c \in Known(t, ContactKeys)
      PROVE  Met(t, Contact(c))
  <2>1. PICK k \in ContactKeys : snapshot[t][k] # NoRow /\ k[2] = c
    BY DEF Known
  <2>2. k = Contact(c) /\ k \in Keys
    BY <2>1, KeysOfTables DEF ContactKeys, Contact
  <2> QED
    BY <2>1, <2>2 DEF Met
<1> QED
  BY <1>1, <1>2

LEMMA InsertedAddressesReferToMet ==
  ASSUME IInv, NEW t \in Transactions, NEW contact \in Known(t, ContactKeys) \cup {None}, InsertAddress(t, contact)
  PROVE  WritesSoundly(t) /\ Met(t, Address(t))'
<1> DEFINE row == [sort |-> NextSort(t, AddressKeys), contact |-> contact]
           rows == One(Address(t), row)
<1>1. /\ DatabaseOK /\ AddressKeys \in Lists /\ Address(t) \in AddressKeys /\ AddressKeys \subseteq Keys
      /\ contact \in ContactIds \cup {None}
  BY KeysOfTables, KnownIds DEF IInv, TypeOK, Lists
<1>2. row \in AddressRows /\ row.contact = contact
  BY <1>1, NextSortIsBehind DEF AddressRows
<1> HIDE DEF row
<1>3. RowOK(Address(t), row) /\ row # NoRow
  BY <1>1, <1>2, NoRowIsNoRecord DEF RowOK
<1>4. DOMAIN rows = {Address(t)} /\ rows[Address(t)] = row
  BY DEF One
<1>5. Refers(Address(t), row) \subseteq IF contact = None THEN {} ELSE {Contact(contact)}
  BY <1>1, <1>2, KeysDiffer DEF Refers
<1>6. RefersSoundly(t, rows)
  BY <1>4, <1>5, KnownAreMet DEF RefersSoundly
<1>7. Execute(t, AddressKeys, rows)
  BY DEF InsertAddress, row
<1> HIDE DEF rows
<1>8. RowsOK(rows)
  BY <1>1, <1>3, <1>4 DEF RowsOK
<1>9. Writes(t, AddressKeys, rows)
  BY <1>1, <1>3, <1>4, <1>6, <1>7, <1>8 DEF Writes
<1>10. Address(t) \in DOMAIN written'[t]
  <2>1. DOMAIN rows \subseteq AddressKeys /\ AddressKeys \subseteq Keys
    BY <1>1, <1>4
  <2>2. written'[t] = Over(rows, written[t])
    BY <1>1, <1>7, <1>8, <2>1, Statement
  <2> QED
    BY <1>4, <2>2 DEF Over
<1> QED
  BY <1>9, <1>10 DEF WritesSoundly, Met

LEMMA InsertedContactsReferToNothing ==
  ASSUME IInv, NEW t \in Transactions, InsertContact(t)
  PROVE  WritesSoundly(t) /\ Met(t, Contact(t))'
<1> DEFINE row == [sort |-> NextSort(t, ContactKeys)]
           rows == One(Contact(t), row)
<1>1. DatabaseOK /\ ContactKeys \in Lists /\ Contact(t) \in ContactKeys /\ ContactKeys \subseteq Keys
  BY KeysOfTables DEF IInv, TypeOK, Lists
<1>2. row \in ContactRows
  BY <1>1, NextSortIsBehind DEF ContactRows
<1> HIDE DEF row
<1>3. RowOK(Contact(t), row) /\ row # NoRow
  BY <1>1, <1>2, NoRowIsNoRecord DEF RowOK
<1>4. DOMAIN rows = {Contact(t)} /\ rows[Contact(t)] = row
  BY DEF One
<1>5. Refers(Contact(t), row) = {}
  BY <1>1, KeysDiffer DEF Refers
<1>6. RefersSoundly(t, rows)
  BY <1>4, <1>5 DEF RefersSoundly
<1>7. Execute(t, ContactKeys, rows)
  BY DEF InsertContact, row
<1> HIDE DEF rows
<1>8. RowsOK(rows)
  BY <1>1, <1>3, <1>4 DEF RowsOK
<1>9. Writes(t, ContactKeys, rows)
  BY <1>1, <1>3, <1>4, <1>6, <1>7, <1>8 DEF Writes
<1>10. Contact(t) \in DOMAIN written'[t]
  <2>1. DOMAIN rows \subseteq ContactKeys /\ ContactKeys \subseteq Keys
    BY <1>1, <1>4
  <2>2. written'[t] = Over(rows, written[t])
    BY <1>1, <1>7, <1>8, <2>1, Statement
  <2> QED
    BY <1>4, <2>2 DEF Over
<1> QED
  BY <1>9, <1>10 DEF WritesSoundly, Met

LEMMA UpdatedRowsReferToMet ==
  ASSUME IInv, NEW t \in Transactions, NEW key \in Keys, NEW row, Update(t, key, row),
         Current(t)[key] # NoRow =>
           /\ RowOK(key, row) /\ row # NoRow
           /\ \A x \in Refers(key, row) : x \in Refers(key, Current(t)[key]) \/ Met(t, x)
  PROVE  WritesSoundly(t)
<1> DEFINE rows == IF Current(t)[key] = NoRow THEN NoRows ELSE One(key, row)
<1>1. DOMAIN rows \subseteq {key} /\ \A k \in DOMAIN rows : k = key /\ Current(t)[key] # NoRow /\ rows[k] = row
  BY DEF One, NoRows
<1>2. Execute(t, {key}, rows)
  BY DEF Update
<1> HIDE DEF rows
<1>3. RowsOK(rows)
  BY <1>1 DEF RowsOK
<1>4. RefersSoundly(t, rows)
  BY <1>1 DEF RefersSoundly
<1>5. Writes(t, {key}, rows)
  BY <1>1, <1>2, <1>3, <1>4 DEF Writes
<1> QED
  BY <1>5 DEF WritesSoundly

LEMMA TouchedRowsReferAsBefore ==
  ASSUME IInv, NEW t \in Transactions, NEW key \in Keys, Touch(t, key)
  PROVE  WritesSoundly(t)
<1>1. RowOK(key, Current(t)[key])
  BY RowsAreTyped DEF IInv, TypeOK, RowsOK
<1> QED
  BY <1>1, UpdatedRowsReferToMet DEF Touch

LEMMA InsertedProjectsReferToMet ==
  ASSUME IInv, NEW t \in Leads, PicksAreMet(t), InsertProject(t)
  PROVE  WritesSoundly(t)
<1> DEFINE number == [next |-> NextNumber(t) + 1]
           project == [picked[t] EXCEPT !.number = NextNumber(t)]
           rows == Over(One(Number, number), One(Project(t), project))
           keys == {Number, Project(t)}
<1>1. /\ t \in Transactions /\ Project(t) \in ProjectKeys /\ keys \subseteq Keys /\ Number # Project(t)
      /\ DatabaseOK /\ step[t] = "project" /\ Execute(t, keys, rows)
  BY KeysOfTables, KeysDiffer DEF Transactions, IInv, TypeOK, InsertProject, Goes
<1>2. TakesNoNumber(t)
  BY <1>1 DEF IInv, NumbersAreLocked, TakesTheNext
<1>3. Current(t)[Number] \in [next : Nat \ {0}]
  <2>1. Number \in Keys /\ Number \notin DOMAIN written[t]
    BY <1>2, KeysOfTables DEF TakesNoNumber
  <2>2. RowOK(Number, Current(t)[Number]) /\ Current(t)[Number] # NoRow
    BY <1>1, <2>1, <1>2, RowsAreTyped DEF RowsOK, IInv, NumbersAreLocked
  <2> QED
    BY <2>1, <2>2, TypesOfRows
<1>4. NextNumber(t) \in Nat \ {0}
  BY <1>3 DEF NextNumber
<1> HIDE DEF NextNumber
<1>5. number \in [next : Nat \ {0}] /\ number \in [next : Nat]
  BY <1>4
<1>6. /\ project \in ProjectRows /\ project.address = picked[t].address /\ project.contact = picked[t].contact
  <2>1. picked[t] \in [address : AddressIds \cup {None}, contact : ContactIds \cup {None}, number : {0}]
    BY <1>1 DEF IInv, TypeOK
  <2> QED
    BY <1>4, <2>1 DEF ProjectRows
<1> HIDE DEF number, project
<1>7. number # NoRow /\ project # NoRow
  BY <1>5, <1>6, NoRowIsNoRecord
<1>8. DOMAIN rows = keys /\ rows[Number] = number /\ rows[Project(t)] = project
  BY <1>1 DEF Over, One
<1>9. RowsOK(rows)
  <2>1. RowOK(Number, number) /\ RowOK(Project(t), project)
    BY <1>1, <1>5, <1>6 DEF RowOK
  <2> QED
    BY <1>1, <1>8, <2>1 DEF RowsOK
<1> HIDE DEF rows
<1>10. Refers(Number, number) = {}
  BY KeysDiffer, KeysOfTables DEF Refers
<1>11. Refers(Project(t), project) = {Address(picked[t].address), Contact(picked[t].contact)}
  BY <1>1, <1>6, <1>7, KeysDiffer DEF Refers
<1>12. Met(t, Address(picked[t].address)) /\ Met(t, Contact(picked[t].contact))
  BY <1>1 DEF PicksAreMet
<1>13. RefersSoundly(t, rows)
  BY <1>8, <1>10, <1>11, <1>12 DEF RefersSoundly
<1>14. Writes(t, keys, rows)
  BY <1>1, <1>7, <1>8, <1>9, <1>13 DEF Writes
<1> QED
  BY <1>14 DEF WritesSoundly

LEMMA LeadSourcesReferToNothing ==
  ASSUME IInv, NEW t \in Transactions, Execute(t, {Source}, One(Source, "row"))
  PROVE  WritesSoundly(t)
<1> DEFINE rows == One(Source, "row")
<1>1. DOMAIN rows = {Source} /\ rows[Source] = "row"
  BY DEF One
<1>2. Execute(t, {Source}, rows)
  OBVIOUS
<1> HIDE DEF rows
<1>3. {Source} \subseteq Keys /\ RowsOK(rows) /\ "row" # NoRow
  BY <1>1, KeysOfTables, NoRowAssumption DEF RowsOK, RowOK
<1>4. Refers(Source, "row") = {}
  BY KeysDiffer, KeysOfTables DEF Refers
<1>5. RefersSoundly(t, rows)
  BY <1>1, <1>4 DEF RefersSoundly
<1>6. Writes(t, {Source}, rows)
  BY <1>1, <1>2, <1>3, <1>5 DEF Writes
<1> QED
  BY <1>6 DEF WritesSoundly

LEMMA OmittedStatementsWriteNothing ==
  ASSUME NEW t, Omit
  PROVE  WritesSoundly(t)
BY DEF Omit, WritesSoundly

-----------------------------------------------------------------------------
(* The requests.                                                           *)

LEMMA BeginsReferWell ==
  ASSUME IInv, RInv, NEW t \in Transactions, NEW to \in {"address", "change_client"},
         Goes(t, "new", to), Begin(t), UNCHANGED <<picked, in_use>>
  PROVE  RInv'
<1>1. step[t] = "new" /\ step'[t] = to /\ \A u \in Transactions \ {t} : step'[u] = step[u]
  BY Moves
<1>2. /\ stored' = stored /\ written' = written
      /\ snapshot'[t] = stored /\ \A u \in Transactions \ {t} : snapshot'[u] = snapshot[u]
      /\ DOMAIN stored = Keys
  BY DEF Begin, IInv, TypeOK, DatabaseOK
<1>3. DOMAIN written[t] = {}
  BY <1>1 DEF RInv, RefersWell, SnapshotsAreTaken
<1>4. RefersWell(t)'
  BY <1>1, <1>2, <1>3 DEF RefersWell, SnapshotsAreTaken, RefersToMet, PicksAreMet, RemovesUnused, Removing
<1> QED
  BY <1>1, <1>2, <1>4, OnlyOneMoves DEF RInv

LEMMA LeadsReferWell ==
  ASSUME IInv, RInv, NEW t \in Leads, Lead(t)
  PROVE  RInv'
<1>1. t \in Transactions /\ TypeOK /\ RefersWell(t) /\ PicksAreMet(t)
  BY DEF IInv, RInv, RefersWell, Transactions
<1>2. /\ t \in DOMAIN picked /\ picked[t] \in [address : AddressIds \cup {None}, contact : ContactIds \cup {None}, number : {0}]
  BY <1>1 DEF TypeOK
<1>3. WritesSoundly(t) => \A k : Met(t, k) => Met(t, k)'
  BY <1>1, WritesMeet
<1>4. ASSUME NEW from \in Steps \ (Removing \cup {"new", "done"}), NEW to \in Steps \ {"new", "done"},
             to \in Removing => to = "commit",
             Goes(t, from, to), WritesSoundly(t), PicksAreMet(t)', UNCHANGED in_use,
             \A u \in Transactions \ {t} : picked'[u] = picked[u]
      PROVE  RInv'
  BY <1>1, <1>4, SoundWritesReferWell
<1>5. CASE BeginLead(t)
  BY <1>1, <1>5, BeginsReferWell DEF BeginLead
<1>6. CASE LeadAddress(t)
  <2>1. Goes(t, "address", "client") /\ UNCHANGED in_use
    BY <1>6 DEF LeadAddress
  <2>2. step'[t] = "client"
    BY <1>1, <2>1, Moves
  <2>3. /\ WritesSoundly(t) /\ Met(t, Address(picked[t].address))'
        /\ \A u \in Transactions \ {t} : picked'[u] = picked[u]
    <3>1. CASE InsertAddress(t, None) /\ picked' = [picked EXCEPT ![t].address = t]
      <4>1. picked'[t].address = t /\ \A u \in Transactions \ {t} : picked'[u] = picked[u]
        BY <1>2, <3>1
      <4>2. WritesSoundly(t) /\ Met(t, Address(t))'
        BY <1>1, <3>1, InsertedAddressesReferToMet
      <4> QED
        BY <4>1, <4>2 DEF Met
    <3>2. ASSUME NEW a \in Known(t, AddressKeys), Touch(t, Address(a)) \/ Omit,
                 picked' = [picked EXCEPT ![t].address = a]
          PROVE  /\ WritesSoundly(t) /\ Met(t, Address(picked[t].address))'
                 /\ \A u \in Transactions \ {t} : picked'[u] = picked[u]
      <4>1. picked'[t].address = a /\ \A u \in Transactions \ {t} : picked'[u] = picked[u]
        BY <1>2, <3>2
      <4>2. Address(a) \in Keys
        BY KnownIds, KeysOfTables
      <4>3. WritesSoundly(t)
        BY <1>1, <3>2, <4>2, TouchedRowsReferAsBefore, OmittedStatementsWriteNothing
      <4>4. Met(t, Address(a))'
        BY <1>3, <4>3, KnownAreMet
      <4> QED
        BY <4>1, <4>3, <4>4 DEF Met
    <3> QED
      BY <1>6, <3>1, <3>2 DEF LeadAddress
  <2>4. PicksAreMet(t)'
    BY <2>2, <2>3 DEF PicksAreMet
  <2> QED
    BY <1>4, <2>1, <2>3, <2>4 DEF Steps, Removing
<1>7. CASE LeadClient(t)
  <2>1. Goes(t, "client", "contact") /\ UNCHANGED <<picked, in_use>>
    BY <1>7 DEF LeadClient
  <2>2. step[t] = "client" /\ step'[t] = "contact"
    BY <1>1, <2>1, Moves
  <2>3. WritesSoundly(t)
    BY <1>1, <1>7, KeysOfTables, TouchedRowsReferAsBefore, OmittedStatementsWriteNothing DEF LeadClient
  <2>4. Met(t, Address(picked[t].address))'
    <3>1. Met(t, Address(picked[t].address))
      BY <1>1, <2>2 DEF PicksAreMet
    <3> QED
      BY <1>3, <2>1, <2>3, <3>1 DEF Met
  <2>5. PicksAreMet(t)'
    BY <2>2, <2>4 DEF PicksAreMet
  <2> QED
    BY <1>4, <2>1, <2>3, <2>5 DEF Steps, Removing
<1>8. CASE LeadContact(t)
  <2>1. Goes(t, "contact", "source") /\ UNCHANGED in_use
    BY <1>8 DEF LeadContact
  <2>2. step[t] = "contact" /\ step'[t] = "source"
    BY <1>1, <2>1, Moves
  <2>3. /\ WritesSoundly(t) /\ Met(t, Contact(picked[t].contact))'
        /\ picked'[t].address = picked[t].address
        /\ \A u \in Transactions \ {t} : picked'[u] = picked[u]
    <3>1. CASE InsertContact(t) /\ picked' = [picked EXCEPT ![t].contact = t]
      <4>1. /\ picked'[t].contact = t /\ picked'[t].address = picked[t].address
            /\ \A u \in Transactions \ {t} : picked'[u] = picked[u]
        BY <1>2, <3>1
      <4>2. WritesSoundly(t) /\ Met(t, Contact(t))'
        BY <1>1, <3>1, InsertedContactsReferToNothing
      <4> QED
        BY <4>1, <4>2 DEF Met
    <3>2. ASSUME NEW c \in Known(t, ContactKeys), Touch(t, Contact(c)) \/ Omit,
                 picked' = [picked EXCEPT ![t].contact = c]
          PROVE  /\ WritesSoundly(t) /\ Met(t, Contact(picked[t].contact))'
                 /\ picked'[t].address = picked[t].address
                 /\ \A u \in Transactions \ {t} : picked'[u] = picked[u]
      <4>1. /\ picked'[t].contact = c /\ picked'[t].address = picked[t].address
            /\ \A u \in Transactions \ {t} : picked'[u] = picked[u]
        BY <1>2, <3>2
      <4>2. Contact(c) \in Keys
        BY KnownIds, KeysOfTables
      <4>3. WritesSoundly(t)
        BY <1>1, <3>2, <4>2, TouchedRowsReferAsBefore, OmittedStatementsWriteNothing
      <4>4. Met(t, Contact(c))'
        BY <1>3, <4>3, KnownAreMet
      <4> QED
        BY <4>1, <4>3, <4>4 DEF Met
    <3> QED
      BY <1>8, <3>1, <3>2 DEF LeadContact
  <2>4. Met(t, Address(picked[t].address))
    BY <1>1, <2>2 DEF PicksAreMet
  <2>5. Met(t, Address(picked[t].address))'
    BY <1>3, <2>3, <2>4 DEF Met
  <2>6. PicksAreMet(t)'
    BY <2>2, <2>3, <2>5 DEF PicksAreMet
  <2> QED
    BY <1>4, <2>1, <2>3, <2>6 DEF Steps, Removing
<1>9. CASE LeadSource(t)
  <2>1. PICK to \in {"project", "source_missing"} :
          Goes(t, "source", to) /\ (Omit \/ Execute(t, {Source}, One(Source, "row")))
    BY <1>9 DEF LeadSource
  <2>2. UNCHANGED <<picked, in_use>>
    BY <1>9 DEF LeadSource
  <2>3. step[t] = "source" /\ step'[t] = to
    BY <1>1, <2>1, Moves
  <2>4. WritesSoundly(t)
    BY <1>1, <2>1, LeadSourcesReferToNothing, OmittedStatementsWriteNothing
  <2>5. Met(t, Address(picked[t].address))' /\ Met(t, Contact(picked[t].contact))'
    <3>1. Met(t, Address(picked[t].address)) /\ Met(t, Contact(picked[t].contact))
      BY <1>1, <2>3 DEF PicksAreMet
    <3> QED
      BY <1>3, <2>2, <2>4, <3>1 DEF Met
  <2>6. PicksAreMet(t)'
    BY <2>5 DEF PicksAreMet
  <2> QED
    BY <1>4, <2>1, <2>2, <2>4, <2>6 DEF Steps, Removing
<1>10. CASE InsertProject(t)
  <2>1. Goes(t, "project", "commit") /\ UNCHANGED <<picked, in_use>>
    BY <1>10 DEF InsertProject
  <2>2. step'[t] = "commit"
    BY <1>1, <2>1, Moves
  <2>3. WritesSoundly(t)
    BY <1>1, <1>10, InsertedProjectsReferToMet
  <2>4. PicksAreMet(t)'
    BY <2>2 DEF PicksAreMet
  <2> QED
    BY <1>4, <2>1, <2>3, <2>4 DEF Steps, Removing
<1> QED
  BY <1>5, <1>6, <1>7, <1>8, <1>9, <1>10 DEF Lead

LEMMA ChecksReferWell ==
  ASSUME IInv, RInv, NEW t \in Updates, CheckInUse(t)
  PROVE  RInv'
<1>1. t \in Transactions /\ Goes(t, "check", "remove_addresses") /\ RefersWell(t) /\ UNCHANGED <<database, picked>>
  BY DEF RInv, Transactions, CheckInUse
<1>2. /\ step[t] = "check" /\ step'[t] = "remove_addresses"
      /\ \A u \in Transactions \ {t} : step'[u] = step[u]
  BY <1>1, Moves
<1>3. stored' = stored /\ snapshot' = snapshot /\ written' = written /\ picked' = picked
  BY <1>1 DEF database
<1>4. /\ in_use'[t] = ReferredTo(View(t)) /\ DOMAIN in_use' = Transactions
      /\ \A u \in Transactions \ {t} : in_use'[u] = in_use[u]
  BY <1>1 DEF CheckInUse, RInv
<1>5. View(t)' = View(t)
  BY <1>3 DEF View
<1>6. \A k \in Keys : Refers(k, View(t)[k]) \subseteq in_use'[t]
  BY <1>4, ReferencesAreOfRows
<1>7. \A k \in DOMAIN written[t] : written[t][k] # NoRow
  BY <1>1, <1>2 DEF RefersWell, RemovesUnused, Removing
<1>8. RemovesUnused(t)'
  <2>1. t \notin Leads
    BY RecordsAssumption
  <2> QED
    BY <1>3, <1>5, <1>6, <1>7, <2>1 DEF RemovesUnused
<1>9. RefersToMet(t)' /\ SnapshotsAreTaken(t)' /\ PicksAreMet(t)'
  BY <1>1, <1>2, <1>3 DEF RefersWell, RefersToMet, SnapshotsAreTaken, PicksAreMet, Met
<1>10. RefersWell(t)'
  BY <1>8, <1>9 DEF RefersWell
<1> QED
  BY <1>1, <1>2, <1>3, <1>4, <1>10, OnlyOneMoves

LEMMA RemovalsReferWell ==
  ASSUME IInv, RInv, NEW t \in Updates, NEW keys, keys \subseteq AddressKeys \cup ContactKeys, Remove(t, keys),
         NEW from \in {"remove_addresses", "remove_contacts"}, NEW to \in Removing, Goes(t, from, to),
         UNCHANGED <<picked, in_use>>
  PROVE  RInv'
<1> DEFINE rows == [k \in keys |-> NoRow]
<1>1. t \in Transactions /\ RefersWell(t) /\ TypeOK /\ DatabaseOK
  BY DEF RInv, Transactions, IInv, TypeOK
<1>2. step[t] = from /\ step'[t] = to /\ \A u \in Transactions \ {t} : step'[u] = step[u]
  BY <1>1, Moves
<1>3. keys \subseteq Keys /\ keys \cap in_use[t] = {} /\ Execute(t, keys, rows) /\ Client \notin keys
  BY KeysOfTables, KeysDiffer DEF Remove
<1>4. DOMAIN rows = keys /\ \A k \in keys : rows[k] = NoRow
  OBVIOUS
<1> HIDE DEF rows
<1>5. RowsOK(rows)
  BY <1>3, <1>4 DEF RowsOK, RowOK
<1>6. RefersSoundly(t, rows)
  BY <1>3, <1>4 DEF RefersSoundly, Refers
<1>7. /\ RefersToMet(t)'
      /\ DOMAIN written'[t] = DOMAIN written[t] \cup DOMAIN rows
      /\ \A k \in DOMAIN written'[t] : written'[t][k] = IF k \in DOMAIN rows THEN rows[k] ELSE written[t][k]
  BY <1>1, <1>3, <1>4, <1>5, <1>6, StatementsReferToMet
<1>8. stored' = stored /\ snapshot' = snapshot /\ \A u \in Transactions \ {t} : written'[u] = written[u]
  BY <1>1, <1>3, <1>4, <1>5, Statement
<1>9. SnapshotsAreTaken(t)' /\ PicksAreMet(t)' /\ DOMAIN snapshot[t] = Keys
  BY <1>1, <1>2, <1>8 DEF RefersWell, SnapshotsAreTaken, PicksAreMet, Removing
<1>10. \A k \in Keys : Refers(k, View(t)'[k]) \subseteq in_use[t]
  <2>1. \A k \in Keys : Refers(k, View(t)[k]) \subseteq in_use[t]
    BY <1>1, <1>2 DEF RefersWell, RemovesUnused, Removing
  <2>2. \A k \in Keys : View(t)[k] = IF k \in DOMAIN written[t] THEN written[t][k] ELSE snapshot[t][k]
    BY <1>9 DEF View, Over
  <2>3. \A k \in Keys : View(t)'[k] = IF k \in DOMAIN written'[t] THEN written'[t][k] ELSE snapshot[t][k]
    BY <1>8, <1>9 DEF View, Over
  <2>4. \A k \in Keys : View(t)'[k] = IF k \in keys THEN NoRow ELSE View(t)[k]
    BY <1>4, <1>7, <2>2, <2>3
  <2>5. \A k \in keys : Refers(k, NoRow) = {}
    BY <1>3 DEF Refers
  <2> QED
    BY <2>1, <2>4, <2>5
<1>11. \A k \in DOMAIN written'[t] : written'[t][k] = NoRow => k \notin in_use[t]
  BY <1>1, <1>3, <1>4, <1>7 DEF RefersWell, RemovesUnused
<1>12. RemovesUnused(t)'
  <2>1. t \notin Leads
    BY RecordsAssumption
  <2> QED
    BY <1>2, <1>10, <1>11, <2>1 DEF RemovesUnused
<1>13. RefersWell(t)'
  BY <1>7, <1>9, <1>12 DEF RefersWell
<1> QED
  BY <1>1, <1>2, <1>8, <1>13, OnlyOneMoves DEF RInv

LEMMA UpdatesReferWell ==
  ASSUME IInv, RInv, NEW t \in Updates, UpdateClient(t)
  PROVE  RInv'
<1>1. t \in Transactions /\ TypeOK /\ DatabaseOK
  BY DEF IInv, Transactions, TypeOK
<1>2. ASSUME NEW from \in Steps \ (Removing \cup {"new", "done"}),
             NEW to \in {"add_contacts", "change_contacts", "add_addresses", "change_addresses", "check"},
             Goes(t, from, to), WritesSoundly(t), UNCHANGED <<picked, in_use>>
      PROVE  RInv'
  <2>1. step'[t] = to
    BY <1>1, <1>2, Moves
  <2>2. PicksAreMet(t)'
    BY <2>1 DEF PicksAreMet
  <2> QED
    BY <1>1, <1>2, <2>2, SoundWritesReferWell DEF Steps, Removing
<1>3. Omit => WritesSoundly(t)
  BY OmittedStatementsWriteNothing
<1>4. CASE BeginUpdate(t)
  BY <1>1, <1>4, BeginsReferWell DEF BeginUpdate
<1>5. CASE ChangeClient(t)
  <2>1. ASSUME NEW a \in Known(t, AddressKeys), Update(t, Client, [Current(t)[Client] EXCEPT !.default = a])
        PROVE  WritesSoundly(t)
    <3> DEFINE row == [Current(t)[Client] EXCEPT !.default = a]
    <3>1. a \in AddressIds /\ Client \in Keys /\ RowOK(Client, Current(t)[Client])
      BY <1>1, KnownIds, KeysOfTables, RowsAreTyped DEF RowsOK
    <3>2. Current(t)[Client] # NoRow => row \in [default : AddressIds] /\ row.default = a
      <4> SUFFICES ASSUME Current(t)[Client] # NoRow
                   PROVE  row \in [default : AddressIds] /\ row.default = a
        OBVIOUS
      <4>1. Current(t)[Client] \in [default : AddressIds]
        BY <3>1, TypesOfRows
      <4> QED
        BY <3>1, <4>1
    <3>3. Update(t, Client, row)
      BY <2>1
    <3> HIDE DEF row
    <3>4. Current(t)[Client] # NoRow => RowOK(Client, row) /\ row # NoRow /\ Refers(Client, row) = {Address(a)}
      BY <3>2, NoRowIsNoRecord DEF RowOK, Refers
    <3>5. Met(t, Address(a))
      BY KnownAreMet
    <3> QED
      BY <1>1, <3>1, <3>3, <3>4, <3>5, UpdatedRowsReferToMet
  <2> QED
    BY <1>2, <1>3, <1>5, <2>1 DEF ChangeClient, Steps, Removing
<1>6. CASE AddContacts(t)
  BY <1>1, <1>2, <1>3, <1>6, InsertedContactsReferToNothing DEF AddContacts, Steps, Removing
<1>7. CASE ChangeContacts(t)
  <2>1. \A c \in Known(t, ContactKeys) : Contact(c) \in Keys
    BY KnownIds, KeysOfTables
  <2>2. WritesSoundly(t)
    BY <1>1, <1>3, <1>7, <2>1, TouchedRowsReferAsBefore DEF ChangeContacts
  <2> QED
    BY <1>2, <1>7, <2>2 DEF ChangeContacts, Steps, Removing
<1>8. CASE AddAddresses(t)
  BY <1>1, <1>2, <1>3, <1>8, InsertedAddressesReferToMet DEF AddAddresses, Steps, Removing
<1>9. CASE ChangeAddresses(t)
  <2>1. ASSUME NEW a \in Known(t, AddressKeys), NEW c \in Known(t, ContactKeys) \cup {None},
               Update(t, Address(a), [Current(t)[Address(a)] EXCEPT !.contact = c])
        PROVE  WritesSoundly(t)
    <3> DEFINE row == [Current(t)[Address(a)] EXCEPT !.contact = c]
    <3>1. /\ c \in ContactIds \cup {None} /\ Address(a) \in AddressKeys /\ Address(a) \in Keys
          /\ RowOK(Address(a), Current(t)[Address(a)])
      BY <1>1, KnownIds, KeysOfTables, RowsAreTyped DEF RowsOK
    <3>2. Current(t)[Address(a)] # NoRow => row \in AddressRows /\ row.contact = c
      <4> SUFFICES ASSUME Current(t)[Address(a)] # NoRow
                   PROVE  row \in AddressRows /\ row.contact = c
        OBVIOUS
      <4>1. Current(t)[Address(a)] \in AddressRows
        BY <3>1, TypesOfRows
      <4> QED
        BY <3>1, <4>1 DEF AddressRows
    <3>3. Update(t, Address(a), row)
      BY <2>1
    <3> HIDE DEF row
    <3>4. Current(t)[Address(a)] # NoRow =>
            /\ RowOK(Address(a), row) /\ row # NoRow
            /\ Refers(Address(a), row) \subseteq IF c = None THEN {} ELSE {Contact(c)}
      BY <3>1, <3>2, NoRowIsNoRecord, KeysDiffer DEF RowOK, Refers
    <3>5. c # None => Met(t, Contact(c))
      BY KnownAreMet
    <3> QED
      BY <1>1, <3>1, <3>3, <3>4, <3>5, UpdatedRowsReferToMet
  <2> QED
    BY <1>2, <1>3, <1>9, <2>1 DEF ChangeAddresses, Steps, Removing
<1>10. CASE CheckInUse(t)
  BY <1>10, ChecksReferWell
<1>11. CASE RemoveAddresses(t)
  <2>1. PICK ids \in SUBSET Known(t, AddressKeys) : Remove(t, {Address(a) : a \in ids})
    BY <1>11 DEF RemoveAddresses
  <2> DEFINE keys == {Address(a) : a \in ids}
  <2>2. keys \subseteq AddressKeys \cup ContactKeys /\ Remove(t, keys)
    BY <2>1, KnownIds, KeysOfTables
  <2> HIDE DEF keys
  <2> QED
    BY <1>11, <2>2, RemovalsReferWell DEF RemoveAddresses, Removing
<1>12. CASE RemoveContacts(t)
  <2>1. PICK ids \in SUBSET Known(t, ContactKeys) : Remove(t, {Contact(c) : c \in ids})
    BY <1>12 DEF RemoveContacts
  <2> DEFINE keys == {Contact(c) : c \in ids}
  <2>2. keys \subseteq AddressKeys \cup ContactKeys /\ Remove(t, keys)
    BY <2>1, KnownIds, KeysOfTables
  <2> HIDE DEF keys
  <2> QED
    BY <1>12, <2>2, RemovalsReferWell DEF RemoveContacts, Removing
<1> QED
  BY <1>4, <1>5, <1>6, <1>7, <1>8, <1>9, <1>10, <1>11, <1>12 DEF UpdateClient

\* Whatever a transaction finds refers to rows that there can be.
LEMMA FoundReferencesAreKeys ==
  ASSUME IInv, RInv, NEW t \in Transactions
  PROVE  \A k \in Keys : Refers(k, Current(t)[k]) \subseteq Keys
<1>1. /\ \A k \in Keys : Current(t)[k] = IF k \in DOMAIN written[t] THEN written[t][k] ELSE stored[k]
      /\ DOMAIN written[t] \subseteq Keys
  BY RowsAreTyped DEF IInv, TypeOK
<1>2. ASSUME NEW k \in Keys, NEW x \in Refers(k, Current(t)[k])
      PROVE  x \in Keys
  <2>1. x \in Refers(k, stored[k]) \/ Met(t, x)
    BY <1>1, <1>2 DEF RInv, RefersWell, RefersToMet
  <2> QED
    BY <1>1, <2>1 DEF Met, RInv
<1> QED
  BY <1>2

\* A transaction that ends answers for nothing any more, and the others hold what they wrote.
LEMMA EndsReferWell ==
  ASSUME IInv, RInv, NEW t \in Transactions, NEW from, Goes(t, from, "done"), End(t), Forget(t),
         stored' = stored \/ stored' = Current(t)
  PROVE  RInv'
<1>1. step'[t] = "done" /\ \A u \in Transactions \ {t} : step'[u] = step[u]
  BY Moves
<1>2. /\ DOMAIN snapshot = Transactions /\ DOMAIN written = Transactions /\ DOMAIN picked = Transactions
      /\ DOMAIN in_use = Transactions
  BY DEF IInv, TypeOK, DatabaseOK, RInv
<1>3. /\ DOMAIN written'[t] = {} /\ DOMAIN in_use' = Transactions
      /\ \A u \in Transactions \ {t} :
            /\ written'[u] = written[u] /\ snapshot'[u] = snapshot[u]
            /\ picked'[u] = picked[u] /\ in_use'[u] = in_use[u]
  BY <1>2 DEF End, Forget, NoRows
<1>4. \A k \in Keys : stored'[k] = stored[k] \/ (k \in DOMAIN written[t] /\ stored'[k] = Current(t)[k])
  BY RowsAreTyped DEF IInv, TypeOK
<1>5. ASSUME NEW u \in Transactions \ {t}
      PROVE  RefersWell(u)'
  <2>1. \A k \in DOMAIN written[u] : k \in Keys /\ k \notin DOMAIN written[t]
    BY DEF IInv, TypeOK, DatabaseOK, Free
  <2>2. \A k \in DOMAIN written[u] : stored'[k] = stored[k]
    BY <1>4, <2>1
  <2> QED
    BY <1>1, <1>3, <2>2, OthersAreLeftAlone DEF RInv
<1>6. RefersWell(t)'
  BY <1>1, <1>3 DEF RefersWell, SnapshotsAreTaken, RefersToMet, PicksAreMet, RemovesUnused, Removing
<1>7. ASSUME NEW k \in Keys
      PROVE  Refers(k, stored'[k]) \subseteq Keys
  BY <1>4, FoundReferencesAreKeys DEF RInv
<1>8. (\A k \in Keys : Refers(k, stored[k]) \subseteq Keys)'
  BY <1>7 DEF Refers
<1> QED
  BY <1>3, <1>5, <1>6, <1>8 DEF RInv

LEMMA InitReferences == Init => RInv
<1> SUFFICES ASSUME Init
             PROVE  RInv
  OBVIOUS
<1>1. PICK default \in Addresses, address_sort \in Numberings(Addresses, 0),
           contact_sort \in Numberings(Contacts, 1), address_contact \in [Addresses -> Contacts \cup {None}] :
         stored = [k \in Keys |-> FirstRow(k, default, address_sort, contact_sort, address_contact)]
  BY DEF Init
<1>2. /\ written = [t \in Transactions |-> NoRows] /\ step = [t \in Transactions |-> "new"]
      /\ in_use = [t \in Transactions |-> {}] /\ DOMAIN NoRows = {}
  BY DEF Init, NoRows
<1>3. \A t \in Transactions : RefersWell(t)
  BY <1>2, NothingWritten
<1>4. ASSUME NEW k \in Keys
      PROVE  Refers(k, stored[k]) \subseteq Keys
  <2>1. stored[k] = FirstRow(k, default, address_sort, contact_sort, address_contact)
    BY <1>1
  <2>2. CASE k = Client
    <3>1. stored[k] = [default |-> default]
      BY <2>1, <2>2, KeysDiffer DEF FirstRow, AddressKeys, ContactKeys, AddressIds, ContactIds
    <3>2. Address(default) \in Keys
      BY KeysOfTables DEF AddressIds
    <3> QED
      BY <2>2, <3>1, <3>2 DEF Refers
  <2>3. CASE k \in ProjectKeys
    <3>1. k \notin {Address(a) : a \in Addresses} /\ k \notin {Contact(c) : c \in Contacts} /\ k # Client /\ k # Number
      BY <2>3, KeysDiffer DEF AddressKeys, ContactKeys, AddressIds, ContactIds
    <3>2. stored[k] = NoRow
      BY <2>1, <3>1 DEF FirstRow
    <3> QED
      BY <3>1, <3>2 DEF Refers
  <2>4. CASE k \in AddressKeys /\ stored[k] # NoRow
    <3>1. k \notin {Contact(c) : c \in Contacts} /\ k # Client /\ k # Number /\ k \notin ProjectKeys
      BY <2>4, KeysDiffer DEF ContactKeys, ContactIds
    <3>2. PICK a \in Addresses : k = Address(a)
      BY <2>1, <2>4, <3>1 DEF FirstRow
    <3>3. stored[k].contact = address_contact[a]
      BY <2>1, <3>1, <3>2 DEF FirstRow, Address
    <3>4. address_contact[a] # None => Contact(address_contact[a]) \in Keys
      BY KeysOfTables DEF ContactIds
    <3> QED
      BY <2>4, <3>1, <3>3, <3>4 DEF Refers
  <2> QED
    BY <2>2, <2>3, <2>4 DEF Refers
<1> QED
  BY <1>2, <1>3, <1>4 DEF RInv

LEMMA NextReferences == IInv /\ RInv /\ [Next]_vars => RInv'
<1> SUFFICES ASSUME IInv, RInv, [Next]_vars
             PROVE  RInv'
  OBVIOUS
<1>1. CASE UNCHANGED vars
  <2>1. /\ stored' = stored /\ written' = written /\ snapshot' = snapshot /\ step' = step
        /\ picked' = picked /\ in_use' = in_use
    BY <1>1 DEF vars, database
  <2>2. \A t \in Transactions : RefersWell(t)'
    BY <2>1, OthersAreLeftAlone DEF RInv
  <2>3. (\A k \in Keys : Refers(k, stored[k]) \subseteq Keys)'
    BY <2>1 DEF RInv, Refers
  <2> QED
    BY <2>1, <2>2, <2>3 DEF RInv
<1>2. ASSUME NEW t \in Transactions, Finish(t)
      PROVE  RInv'
  BY <1>2, EndsReferWell DEF Finish, Commit
<1>3. ASSUME NEW t \in Transactions, Abort(t)
      PROVE  RInv'
  BY <1>3, EndsReferWell DEF Abort, Rollback
<1> QED
  BY <1>1, <1>2, <1>3, LeadsReferWell, UpdatesReferWell DEF Next

LEMMA CommitsKeepReferences ==
  ASSUME IInv, RInv, NEW t \in Transactions, Finish(t), snapshot[t] = stored, ReferencesExist(stored)
  PROVE  ReferencesExist(stored')
<1>1. step[t] = "commit" /\ stored' = Current(t) /\ View(t) = Current(t) /\ RefersWell(t)
  BY Moves DEF Finish, Commit, RInv, View, Current
<1>2. \A k \in Keys : Current(t)[k] = IF k \in DOMAIN written[t] THEN written[t][k] ELSE stored[k]
  BY RowsAreTyped DEF IInv, TypeOK
<1>3. \A k \in Keys : \A x \in Refers(k, stored[k]) : stored[x] # NoRow
  BY ReferencesAreOfRows DEF ReferencesExist
<1>4. ASSUME NEW k \in Keys, NEW x \in Refers(k, Current(t)[k])
      PROVE  Current(t)[x] # NoRow
  <2>1. x \in Keys
    BY FoundReferencesAreKeys
  <2>2. CASE x \in DOMAIN written[t]
    <3>1. CASE t \in Leads
      BY <1>1, <1>2, <2>1, <2>2, <3>1 DEF RefersWell, RemovesUnused
    <3>2. CASE t \in Updates
      <4>1. x \in in_use[t]
        BY <1>1, <3>2 DEF RefersWell, RemovesUnused, Removing
      <4> QED
        BY <1>1, <1>2, <2>1, <2>2, <4>1 DEF RefersWell, RemovesUnused
    <3> QED
      BY <3>1, <3>2 DEF Transactions
  <2>3. CASE x \notin DOMAIN written[t]
    <3>1. Current(t)[x] = stored[x]
      BY <1>2, <2>1, <2>3
    <3>2. x \in Refers(k, stored[k]) \/ Met(t, x)
      BY <1>1, <1>2 DEF RefersWell, RefersToMet
    <3> QED
      BY <1>3, <2>3, <3>1, <3>2 DEF Met
  <2> QED
    BY <2>2, <2>3
<1>5. ReferredTo(stored') = UNION {Refers(k, Current(t)[k]) : k \in Keys}
  BY <1>1, ReferencesAreOfRows
<1> QED
  BY <1>1, <1>4, <1>5 DEF ReferencesExist

\* For any number of leads and updates of a client, at any overlap: the one that commits, having
\* seen all that was committed before it, leaves no reference to an address or a contact that is
\* gone. What keeps the references of overlapping requests is nothing at all (assert_not_in_use,
\* select_client_address_ids_in_use, select_client_contact_ids_in_use).
THEOREM References == Spec => SerialRequestsKeepReferences
<1>1. IInv /\ RInv /\ [Next]_vars =>
        [\A t \in Transactions :
           Goes(t, "commit", "done") /\ snapshot[t] = stored /\ ReferencesExist(stored) => ReferencesExist(stored')]_vars
  <2> SUFFICES ASSUME IInv, RInv, Next, NEW t \in Transactions, Goes(t, "commit", "done"), snapshot[t] = stored,
                      ReferencesExist(stored)
               PROVE  ReferencesExist(stored')
    OBVIOUS
  <2>1. step[t] = "commit" /\ step'[t] = "done" /\ \A u \in Transactions \ {t} : step'[u] = step[u]
    BY Moves
  <2>2. CASE stored' = stored
    BY <2>2 DEF ReferencesExist
  <2>3. CASE stored' # stored
    <3>1. PICK u \in Transactions : Finish(u)
      <4>1. ASSUME NEW u \in Transactions, Abort(u)
            PROVE  FALSE
        BY <2>3, <4>1 DEF Abort, Rollback
      <4>2. ASSUME NEW u \in Leads, Lead(u)
            PROVE  FALSE
        BY <2>3, <4>2 DEF Lead, BeginLead, LeadAddress, LeadClient, LeadContact, LeadSource, InsertProject,
             Begin, Execute, InsertAddress, InsertContact, Touch, Update, Omit, database
      <4>3. ASSUME NEW u \in Updates, UpdateClient(u)
            PROVE  FALSE
        BY <2>3, <4>3 DEF UpdateClient, BeginUpdate, ChangeClient, AddContacts, ChangeContacts, AddAddresses,
             ChangeAddresses, CheckInUse, RemoveAddresses, RemoveContacts,
             Begin, Execute, InsertAddress, InsertContact, Touch, Update, Remove, Omit, database
      <4> QED
        BY <4>1, <4>2, <4>3 DEF Next
    <3>2. step[u] = "commit" /\ step'[u] = "done"
      BY <3>1, Moves DEF Finish
    <3>3. u = t
      BY <2>1, <3>2
    <3> QED
      BY <3>1, <3>3, CommitsKeepReferences
  <2> QED
    BY <2>2, <2>3
<1> QED
  BY <1>1, InitInv, NextInv, InitReferences, NextReferences, PTL DEF Spec, SerialRequestsKeepReferences

=============================================================================
