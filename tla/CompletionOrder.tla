--------------------------- MODULE CompletionOrder ---------------------------
(***************************************************************************)
(* What is_safe_state searches for, said without a search: an order in     *)
(* which the rows of the Banker can finish.                                *)
(***************************************************************************)
EXTENDS Banker, Functions

\* Sum of the entries of resource r over the rows in S.
RowSum(al, S, r) == SumFunctionOnSet([i \in Index |-> al[i][r]], S)

\* The reference for the safety algorithm, as the comment at deadlock.c:52
\* words it: the rows can be ordered so that each one's remaining need is met
\* by what is free plus what the rows before it hold.
HasCompletionOrder(av, al, rest, rows) ==
    \E place \in Injection(rows, 1 .. Cardinality(rows)) :
        \A i \in rows : \A r \in Res :
            rest[i][r] <= av[r] + RowSum(al, {j \in rows : place[j] < place[i]}, r)

\* The rows that hold something.
Holding(al) == {i \in Index : al[i] # Zero}

Remaining(al, mx) == [i \in Index |-> Minus(mx[i], al[i])]

=============================================================================
