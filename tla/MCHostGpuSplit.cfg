SPECIFICATION Spec
CONSTANTS
    NF = 2
    NC = 2
    Structs = {"S", "T"}
    Shaders = {"main"}
    Zero = Zero
    Nonzero = Nonzero
    Computed = Computed
    Families <- const_Families
CHECK_DEADLOCK FALSE
INVARIANTS
    PartsAreWhatIsNeeded
    RunsWhereItIs
    ReportsAreRight
    DomainsAreTheirDefinition
