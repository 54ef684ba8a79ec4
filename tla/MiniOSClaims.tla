---------------------------- MODULE MiniOSClaims ----------------------------
(***************************************************************************)
(* A statement the comments make about the running system and that the     *)
(* code does not keep.  Its run ends in a counterexample.                  *)
(***************************************************************************)
EXTENDS MiniOS, Functions

\* types.h:129-130: available is what is available, allocation what is
\* currently allocated, so at the prompt the two add up to the machine.
AllocationIsCurrent ==
    pc = "menu" =>
        \A r \in Res :
            available[r] + SumFunction([i \in Index |-> allocation[i][r]])
                = max_resources[r]

=============================================================================
