SPECIFICATION Spec
CONSTANTS
    m1 = m1
    NoVictim = NoVictim
    Machines <- MCMachines
    Profiles <- MCProfiles
    Tools <- MCTools
    Ceids <- MCCeids
    Bare <- MCBare
    Shapes = {"list", "named", "none"}
    TailerToo = FALSE
    MaxConnects = 2
    MaxCalls = 2
    MaxFaults = 2
INVARIANTS
    TypeOK
    SessionStateIsTrue
    HostHearsTheTool
    SettledMeansProgrammed
CHECK_DEADLOCK FALSE
