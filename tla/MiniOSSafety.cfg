\* Three applications, one of them larger than the machine, three slots, pids that fall in the rows of the app ids.
SPECIFICATION Spec
CONSTANTS
    MAX_PROCESSES = 3
    NULL = NULL
    FIRST_PID = 5
    MaxPid = 8
    a1 = a1
    a2 = a2
    a3 = a3
    Addr <- mc_Addr
    max_resources <- mc_max_resources
    available_apps <- mc_available_apps
SYMMETRY Symmetry
INVARIANTS
    TypeOK
    BooksBalanced
    GrantCoversMemory
    TableConsistent
    LiveProcessesQueued
PROPERTY RefusedOnlyWhenShort
