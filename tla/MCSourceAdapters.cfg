SPECIFICATION Spec
CONSTANTS
    Half = 8
    Fuel = 12
    Unsafe = {}
    Constants <- Consts
    Defaults <- DefaultsOf
    Programs <- ProgramsOf
    MaxLength = 4
    FunctionNames = {"f", "draw"}
    Parameter = "p"
    Arguments <- Args
    Admitted = {}
PROPERTIES
    RubyMeansTheSame
    PhpMeansTheSame
    PerlMeansTheSame
CHECK_DEADLOCK FALSE
