\* Two pages draw on one photo, and nothing fails.
\* Deadlock is not checked: the system stops when MaxUploads are made.
SPECIFICATION Spec
CONSTANTS
  Pages = {camera, other}
  Camera = camera
  Drawings = {d1, d2}
  NoDrawing = NoDrawing
  Nothing = Nothing
  MaxUploads = 4
  MaxFailures = 0
  MaxCuts = 0
INVARIANTS
  EveryFileExists
CHECK_DEADLOCK FALSE
