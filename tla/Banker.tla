------------------------------- MODULE Banker -------------------------------
(***************************************************************************)
(* kernel/deadlock.c: the Banker's Algorithm.  The four matrices of        *)
(* BankerState are the variables, each function of the file that changes   *)
(* them is an action.  A process is known to the Banker only by the row    *)
(* pid % MAX_PROCESSES, and a row counts as a process exactly when the RAM *)
(* entry of its max_need is not 0.                                         *)
(*                                                                         *)
(* The machine calls these functions from one thread and BankerState has   *)
(* no lock, so a call is one step.                                         *)
(***************************************************************************)
EXTENDS Types

VARIABLES available, allocation, max_need, need

bankerVars == <<available, allocation, max_need, need>>

BankerTypeOK ==
    /\ available \in Amounts
    /\ allocation \in [Index -> Amounts]
    /\ max_need \in [Index -> Amounts]
    /\ need \in [Index -> [Res -> Int]]

init_banker ==
    /\ available = max_resources
    /\ allocation = [i \in Index |-> Zero]
    /\ max_need = [i \in Index |-> Zero]
    /\ need = [i \in Index |-> Zero]

-----------------------------------------------------------------------------
(* The safety algorithm.  A search state is the simulated work vector and  *)
(* the set of rows marked finished; one sweep visits every row once, in    *)
(* index order, and the while loop sweeps until enough rows have finished  *)
(* or a sweep finishes none.  Sweeping MAX_PROCESSES times reaches the     *)
(* same set: a sweep that adds nothing is followed by others that add      *)
(* nothing.                                                                *)

Active(mx) == {i \in Index : mx[i]["ram"] # 0}

\* Mutant: a finished process does not hand its allocation back to work.
Visit_keeps_work(search, i, al, mx, nd) ==
    IF i \in Active(mx) \ search.finish /\ Fits(nd[i], search.work)
    THEN [search EXCEPT !.finish = @ \union {i}]
    ELSE search

Visit(search, i, al, mx, nd) ==
    IF i \in Active(mx) \ search.finish /\ Fits(nd[i], search.work)
    THEN [work |-> Plus(search.work, al[i]), finish |-> search.finish \union {i}]
    ELSE search

Sweep(search, al, mx, nd) ==
    LET visited[i \in 0 .. MAX_PROCESSES] ==
            IF i = 0 THEN search ELSE Visit(visited[i - 1], i - 1, al, mx, nd)
    IN  visited[MAX_PROCESSES]

\* Mutant: the for loop without the while loop around it.
is_safe_state_one_sweep(av, al, mx, nd, process_count) ==
    Cardinality(Sweep([work |-> av, finish |-> {}], al, mx, nd).finish)
        >= process_count

is_safe_state(av, al, mx, nd, process_count) ==
    LET swept[k \in 0 .. MAX_PROCESSES] ==
            IF k = 0 THEN [work |-> av, finish |-> {}]
                     ELSE Sweep(swept[k - 1], al, mx, nd)
    IN  Cardinality(swept[MAX_PROCESSES].finish) >= process_count

-----------------------------------------------------------------------------
(* request_resources *)

Row(pid) == pid % MAX_PROCESSES

\* The first request of a row becomes its maximum need; a later one is not
\* compared with it.
MaxNeedAfter(pid, req) ==
    IF max_need[Row(pid)]["ram"] = 0
    THEN [max_need EXCEPT ![Row(pid)] = req]
    ELSE max_need

AllocationAfter(pid, req) ==
    [allocation EXCEPT ![Row(pid)] = Plus(allocation[Row(pid)], req)]

\* Mutant: the safety check runs before the tentative allocation.
SafeToGrant_checks_before(pid, req) ==
    LET mx == MaxNeedAfter(pid, req)
    IN  is_safe_state(available, allocation, mx, need, Cardinality(Active(mx)))

\* The state is_safe_state is asked about, after the tentative allocation.
SafeToGrant(pid, req) ==
    LET mx == MaxNeedAfter(pid, req)
        al == AllocationAfter(pid, req)
        nd == [need EXCEPT ![Row(pid)] = Minus(mx[Row(pid)], al[Row(pid)])]
    IN  is_safe_state(Minus(available, req), al, mx, nd, Cardinality(Active(mx)))

Grants(pid, req) == Fits(req, available) /\ SafeToGrant(pid, req)

\* The call returns true.
request_granted(pid, req) ==
    /\ Grants(pid, req)
    /\ available' = Minus(available, req)
    /\ allocation' = AllocationAfter(pid, req)
    /\ max_need' = MaxNeedAfter(pid, req)
    /\ need' = [need EXCEPT ![Row(pid)] =
                    Minus(max_need'[Row(pid)], allocation'[Row(pid)])]

\* Mutant: an unsafe request is refused without rolling the allocation back.
request_denied_no_rollback(pid, req) ==
    /\ ~Grants(pid, req)
    /\ max_need' = MaxNeedAfter(pid, req)
    /\ IF Fits(req, available)
       THEN /\ available' = Minus(available, req)
            /\ allocation' = AllocationAfter(pid, req)
            /\ need' = [need EXCEPT ![Row(pid)] =
                           Minus(max_need'[Row(pid)], allocation'[Row(pid)])]
       ELSE UNCHANGED <<available, allocation, need>>

\* The call returns false.  Both refusals keep the new max_need; the early
\* return leaves need alone, the rollback recomputes it.
request_denied(pid, req) ==
    /\ ~Grants(pid, req)
    /\ max_need' = MaxNeedAfter(pid, req)
    /\ need' = IF Fits(req, available)
               THEN [need EXCEPT ![Row(pid)] =
                        Minus(max_need'[Row(pid)], allocation[Row(pid)])]
               ELSE need
    /\ UNCHANGED <<available, allocation>>

-----------------------------------------------------------------------------
\* Mutant: the released amount is taken from the pool instead of returned.
release_resources_wrong_sign(pid, req) ==
    /\ available' = Minus(available, req)
    /\ allocation' = [allocation EXCEPT ![Row(pid)] =
                         Clamped(Minus(allocation[Row(pid)], req))]
    /\ UNCHANGED <<max_need, need>>

\* Mutant: a partial release forgets to recompute the remaining need.
release_resources_stale_need(pid, req) ==
    LET left == Clamped(Minus(allocation[Row(pid)], req))
    IN  /\ available' = Plus(available, req)
        /\ allocation' = [allocation EXCEPT ![Row(pid)] = left]
        /\ max_need' = IF left = Zero
                       THEN [max_need EXCEPT ![Row(pid)] = Zero]
                       ELSE max_need
        /\ need' = IF left = Zero THEN [need EXCEPT ![Row(pid)] = Zero] ELSE need

release_resources(pid, req) ==
    LET left == Clamped(Minus(allocation[Row(pid)], req))
    IN  /\ available' = Plus(available, req)
        /\ allocation' = [allocation EXCEPT ![Row(pid)] = left]
        /\ max_need' = IF left = Zero
                       THEN [max_need EXCEPT ![Row(pid)] = Zero]
                       ELSE max_need
        /\ need' = [need EXCEPT ![Row(pid)] = Minus(max_need'[Row(pid)], left)]

=============================================================================
