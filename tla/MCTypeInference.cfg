SPECIFICATION Spec
CONSTANTS
    Statements <- Mixed
    Functions <- Library
    MaxStatements = 5
    InstanceLimit = 2
    None = None
INVARIANTS
    SolverSound
    ProgramsWellTyped
    TypesAreFinite
CHECK_DEADLOCK FALSE
