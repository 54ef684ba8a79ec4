\* Three processes, one row each, claims that overcommit the machine.
SPECIFICATION Spec
CONSTANTS
    MAX_PROCESSES = 3
    NULL = NULL
    p1 = p1
    p2 = p2
    p3 = p3
    max_resources <- mc_max_resources
    Client <- mc_Client
    pid <- mc_pid
    claim <- mc_claim
INVARIANTS
    Conserved
    NeedIsCurrent
    AlwaysSafe
    GrantsExactlyWhenSafe
    NeverWedged
