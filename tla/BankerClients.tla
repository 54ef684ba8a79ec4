---------------------------- MODULE BankerClients ----------------------------
(***************************************************************************)
(* The Banker as the kernel API offers it (include/kernel.h): a set of     *)
(* processes that ask, are refused, ask again, hand part of their          *)
(* resources back and ask for them later.  The callers are external; what  *)
(* they may do is what request_resources documents: the first request of a *)
(* process is its maximum need, what it holds never exceeds that maximum,  *)
(* and it releases only what it holds.                                     *)
(***************************************************************************)
EXTENDS CompletionOrder

CONSTANTS
    Client,     \* the calling processes
    pid,        \* pid[c], the id client c passes to the Banker
    claim       \* claim[c], the most client c will ever hold

ASSUME ClientsAssumption ==
    /\ pid \in [Client -> Nat]
    /\ claim \in [Client -> Amounts]
    /\ \A c \in Client : claim[c]["ram"] > 0
    \* Two callers that meet in one row are one process to the Banker; the ids
    \* the kernel passes are application ids, fewer than there are rows.
    /\ \A c, d \in Client : Row(pid[c]) = Row(pid[d]) => c = d

VARIABLE held   \* what each client has been granted and not given back

vars == <<bankerVars, held>>

\* The non-zero amounts up to bound.
UpTo(bound) ==
    {v \in [Res -> 0 .. bound["ram"] + bound["hdd"] + bound["cores"]] :
        Fits(v, bound) /\ v # Zero}

\* No claim exceeds the machine.  request_resources does not check it, so it is
\* no assumption of this module but a condition of what needs it.
ClaimsFit == \A c \in Client : Fits(claim[c], max_resources)

\* What client c may ask for: its claim while the Banker has none on record,
\* afterwards anything up to the rest of it.
Askable(c) ==
    IF max_need[Row(pid[c])] = Zero THEN {claim[c]}
                                    ELSE UpTo(Minus(claim[c], held[c]))

Init == init_banker /\ held = [c \in Client |-> Zero]

AskGranted(c, req) ==
    /\ request_granted(pid[c], req)
    /\ held' = [held EXCEPT ![c] = Plus(held[c], req)]

AskDenied(c, req) ==
    /\ request_denied(pid[c], req)
    /\ UNCHANGED held

GiveBack(c, req) ==
    /\ release_resources(pid[c], req)
    /\ held' = [held EXCEPT ![c] = Minus(held[c], req)]

Next ==
    \E c \in Client :
        \/ \E req \in Askable(c) : AskGranted(c, req) \/ AskDenied(c, req)
        \/ \E req \in UpTo(held[c]) : GiveBack(c, req)

Spec == Init /\ [][Next]_vars

-----------------------------------------------------------------------------
TypeOK == BankerTypeOK /\ held \in [Client -> Amounts]

\* Nothing is created or lost by any sequence of grants, refusals, rollbacks
\* and partial releases: free and allocated add up to the machine, and a row
\* holds what its clients hold (request_resources, release_resources).
Conserved ==
    /\ TypeOK
    /\ \A r \in Res :
          /\ available[r] + RowSum(allocation, Index, r) = max_resources[r]
          /\ \A i \in Index :
                allocation[i][r] =
                    SumFunctionOnSet([c \in Client |-> held[c][r]],
                                     {c \in Client : Row(pid[c]) = i})

\* The need matrix read by the next safety check says what the maximum and the
\* allocation say, for every row that holds something: it is updated in three
\* places (grant, rollback, release) and by none of the early returns.
NeedIsCurrent ==
    \A i \in Index :
        allocation[i] # Zero => need[i] = Minus(max_need[i], allocation[i])

\* The Banker never lets the machine into a state with no completion order for
\* the rows that hold something: a row with a maximum and nothing allocated,
\* which a refusal leaves behind, can wedge nobody.
AlwaysSafe ==
    HasCompletionOrder(available, allocation, Remaining(allocation, max_need),
                       Holding(allocation))

\* request_resources grants a request that fits exactly when a completion
\* order exists afterwards: the index-order sweeps of is_safe_state find one
\* whenever there is one, on the need matrix as the earlier calls left it.
GrantsExactlyWhenSafe ==
    \A c \in Client : \A req \in Askable(c) :
        LET mx == MaxNeedAfter(pid[c], req)
            al == AllocationAfter(pid[c], req)
        IN  Fits(req, available) =>
                (Grants(pid[c], req) <=>
                    HasCompletionOrder(Minus(available, req), al,
                                       Remaining(al, mx), Holding(al)))

\* Deadlock avoidance proper: whenever somebody holds resources, somebody who
\* does can be granted the whole rest of its claim at once (or has it), so the
\* holders can always be served one after the other.
NeverWedged ==
    (\E c \in Client : held[c] # Zero) =>
        \E c \in Client :
            /\ held[c] # Zero
            /\ held[c] = claim[c] \/ Grants(pid[c], Minus(claim[c], held[c]))

=============================================================================
