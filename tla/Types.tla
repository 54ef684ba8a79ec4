------------------------------- MODULE Types -------------------------------
(***************************************************************************)
(* The shared vocabulary of the kernel (include/types.h): the table size,  *)
(* the three resource classes the code keeps in int[3] arrays and in the   *)
(* memory/hdd/cores fields, and the arithmetic the code does on them       *)
(* component by component.                                                 *)
(***************************************************************************)
EXTENDS Integers, FiniteSets

CONSTANTS
    MAX_PROCESSES,    \* rows of the Banker's matrices, slots of the process table
    max_resources,    \* what the configuration gives the machine, per resource
    NULL              \* the null pointer

Res == {"ram", "hdd", "cores"}
Index == 0 .. MAX_PROCESSES - 1
Slots == Index
Priorities == {"high", "medium", "low"}
States == {"NEW", "READY", "RUNNING", "TERMINATED"}

Amounts == [Res -> Nat]

ASSUME SizeAssumption == MAX_PROCESSES \in Nat \ {0}
ASSUME ResourcesAssumption == max_resources \in Amounts

Zero == [r \in Res |-> 0]
Plus(u, v) == [r \in Res |-> u[r] + v[r]]
Minus(u, v) == [r \in Res |-> u[r] - v[r]]
Fits(u, v) == \A r \in Res : u[r] <= v[r]
Clamped(u) == [r \in Res |-> IF u[r] < 0 THEN 0 ELSE u[r]]

=============================================================================
