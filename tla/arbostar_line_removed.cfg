SPECIFICATION Spec
CONSTANTS
    Exports <- MCExports
    Staff <- MCStaff
    TakenElsewhere <- MCTakenElsewhere
    Gap = 2
    MaxRuns = 2
    MaxAppSteps = 1
    None = None
    u1 = u1
    u2 = u2
    u3 = u3
    c1 = c1
    c2 = c2
    k1 = k1
    k2 = k2
    i1 = i1
    i2 = i2
    p1 = p1
    p2 = p2
    v1 = v1
    v2 = v2
    q1 = q1
INVARIANTS
    RerunsAreAccepted
CHECK_DEADLOCK FALSE
