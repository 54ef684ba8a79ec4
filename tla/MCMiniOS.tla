------------------------------ MODULE MCMiniOS ------------------------------
(* Instances of MiniOS for TLC. *)
EXTENDS MiniOSClaims, TLC

Amount(ram, hdd, cores) == ("ram" :> ram) @@ ("hdd" :> hdd) @@ ("cores" :> cores)

CONSTANTS a1, a2, a3
mc_Addr == {a1, a2, a3}
Symmetry == Permutations(mc_Addr)

\* A small application of which four fit, one more than there are slots; a
\* large one that fits beside one small one; one larger than the machine.
mc_max_resources == Amount(4, 4, 4)
mc_available_apps ==
    1 :> [priority |-> "high", req |-> Amount(1, 1, 1)] @@
    2 :> [priority |-> "low", req |-> Amount(3, 1, 1)] @@
    3 :> [priority |-> "medium", req |-> Amount(5, 1, 1)]

\* The same without the third.
mc_two_apps == [id \in {1, 2} |-> mc_available_apps[id]]
=============================================================================
