SPECIFICATION Spec
CONSTANTS
    Half = 8
    Fuel = 20
    Constants <- Consts
    Defaults <- DefaultsOf
    Families <- Programs
    MaxLength = 3
    Param = "p"
    Arguments <- Args
    Unsafe = {"if"}
    Admitted = {}
PROPERTIES
    LirMeansTheSame
    JsMeansTheSame
    GlslMeansTheSame
CHECK_DEADLOCK FALSE
