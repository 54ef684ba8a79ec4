\* Rows of the allocation matrix after a kill.
SPECIFICATION Spec
CONSTANTS
    MAX_PROCESSES = 3
    NULL = NULL
    FIRST_PID = 5
    MaxPid = 6
    a1 = a1
    a2 = a2
    a3 = a3
    Addr <- mc_Addr
    max_resources <- mc_max_resources
    available_apps <- mc_available_apps
INVARIANT AllocationIsCurrent
