\* Two photo cameras come and go, three opens, two stops; or two clients and a contact
\* change while two refreshes and a poll overlap.
SPECIFICATION MCSpec
CONSTANTS
  Cameras = {c1, c2}
  MaxOpens = 3
  MaxStops = 2
  a = a
  b = b
  k = k
  Tables = {"client", "client_contact"}
  MaxSeconds = 2
  MaxWrites = 1
  MaxFailures = 1
  Polls = {1}
  Refreshes = {1, 2}
  None = None
  Idle = Idle
  Asked = Asked
INVARIANTS
  OnlyTheShownStreamIsOn
PROPERTIES
  UnusedCameraGoesOff
  CacheCatchesUp
\* The page may be left alone once the bounds are reached.
CHECK_DEADLOCK FALSE
