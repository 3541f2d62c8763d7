SPECIFICATION MCSpec
CONSTANTS
    Exports <- MCExports
    Staff <- MCStaff
    TakenElsewhere <- MCTakenElsewhere
    Gap = 2
    MaxRuns = 2
    MaxAppSteps = 1
    None = None
    u1 = u1
    u2 = u2
    u3 = u3
    c1 = c1
    c2 = c2
    k1 = k1
    k2 = k2
    i1 = i1
    i2 = i2
    p1 = p1
    p2 = p2
    v1 = v1
    v2 = v2
    q1 = q1
    Draft = Draft
    Sent = Sent
    Overdue = Overdue
    Statuses = {Draft, Sent, Overdue}
    Active = {Sent, Overdue}
    FirstCounts = {0, 3}
    PageSize = 2
    MaxChanges = 2
    Independent = {"clients"}
    Photos = {p1, p2}
    Runners = {1, 2}
    Unassigned = Unassigned
    NoLeader = NoLeader
    NoEvent = NoEvent
    MaxImports = 3
    MaxRemovals = 1
    MaxEdits = 1
    Trees = {t1, t2}
    MaxSet = 4
    EmptyRunLimit = 2
    CatalogRows = {r1, r2, r3}
INVARIANTS
    ImportIsNotRefused
    UploadedPhotosHaveObjects
    ImportsMirrorTheExport
    ExportIsWhole
    InvoiceStatusesAreTrue
PROPERTIES
    InAppRowsStay
    ProjectsKeepTheirPast
\* A run ends, and nobody has to start another one.
CHECK_DEADLOCK FALSE
