\* One lead and one update of a client at once.
SPECIFICATION Spec
CONSTANTS
  Leads = {l1}
  Updates = {u1}
  Addresses = {a1, a2}
  Contacts = {c1}
  None = None
  NoRow = NoRow
INVARIANT
  InUseIsNeverDeleted
CHECK_DEADLOCK FALSE
