\* The two example tasks and one the user adds.
SPECIFICATION Spec
CONSTANTS
    MAX_TASKS = 3
    Delay = {1}
    Interval = {1}
    first_interval = 2
    first_delay = 1
    MaxTime = 3
INVARIANTS
    OnceRunsOnce
PROPERTIES
    CancelledAsleepStays
    OnceTaskEnds
    ExitCompletes
