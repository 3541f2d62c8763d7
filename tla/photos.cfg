\* Four uploads, enqueued at any moment, each of which may fail; or three uploads of
\* one photo, of which one fails on the server and one is cut off, or two views of it meanwhile.
SPECIFICATION MCSpec
CONSTANTS
  MaxQueued = 4
  ProgressSteps = {50, 100}
  MaxUploads = 3
  Pages = {camera}
  Camera = camera
  Drawings = {d1, d2}
  NoDrawing = NoDrawing
  Nothing = Nothing
  MaxFailures = 1
  MaxCuts = 1
  Drawn = d1
  MaxViews = 2
INVARIANTS
  OneAtATime
  SentInOrder
  QuietPhotoIsWhole
PROPERTIES
  EveryUploadSettles
  PhotosAreThere
\* Nobody uploads any more once the bounds are reached: the page may stop.
CHECK_DEADLOCK FALSE
