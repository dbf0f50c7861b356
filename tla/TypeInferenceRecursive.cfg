SPECIFICATION Spec
CONSTANTS
    Statements <- Nested
    Functions <- Library
    MaxStatements = 3
    InstanceLimit = 2
    None = None
INVARIANTS
    TypesAreFinite
CHECK_DEADLOCK FALSE
