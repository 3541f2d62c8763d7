\* Two leads and one update of a client, in every order.
\* Deadlock is not checked: every request ends.
SPECIFICATION Spec
CONSTANTS
  Leads = {l1, l2}
  Updates = {u1}
  Addresses = {a1}
  Contacts = {c1}
  None = None
  NoRow = NoRow
SYMMETRY LeadSymmetry
INVARIANTS
  PlacesAndNumbersAreRight
PROPERTY
  SerialRequestsKeepReferences
CHECK_DEADLOCK FALSE
