\* Progress, with three launches; no symmetry under liveness.
SPECIFICATION Spec
CONSTANTS
    MAX_PROCESSES = 2
    NULL = NULL
    FIRST_PID = 5
    MaxPid = 7
    a1 = a1
    a2 = a2
    a3 = a3
    Addr <- mc_Addr
    max_resources <- mc_max_resources
    available_apps <- mc_two_apps
PROPERTIES
    OperationReturns
    ShutdownCompletes
