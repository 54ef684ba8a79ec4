------------------------------ MODULE MCBanker ------------------------------
(* Instances of BankerClients for TLC. *)
EXTENDS BankerClients, TLC

Amount(ram, hdd, cores) == ("ram" :> ram) @@ ("hdd" :> hdd) @@ ("cores" :> cores)

mc_max_resources == Amount(3, 2, 2)

CONSTANTS p1, p2, p3
mc_Client == {p1, p2, p3}

\* Three claims of which any two together overcommit some resource; every
\* client has a row of its own, and the ids are larger than the matrix.
mc_pid == p1 :> 3 @@ p2 :> 7 @@ p3 :> 11
mc_claim == p1 :> Amount(3, 1, 1) @@ p2 :> Amount(2, 1, 2) @@ p3 :> Amount(1, 2, 1)

\* The hypothesis of GrantDecision and Unwedged holds of these claims.
ASSUME ClaimsFit

=============================================================================
