SPECIFICATION Spec
CONSTANTS
    Callbacks <- CompanyCallbacks
    MaxCalls = 2
    None = None
INVARIANTS
    CallbackFailuresAreRolledBack
\* No callback is left to run.
CHECK_DEADLOCK FALSE
