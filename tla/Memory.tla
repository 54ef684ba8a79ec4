------------------------------- MODULE Memory -------------------------------
(***************************************************************************)
(* kernel/memory.c: the RAM and HDD counters of SystemResources.  Every    *)
(* function holds resource_lock from its first read to its last write, so  *)
(* each is one step.  total_ram and total_hdd come from the configuration  *)
(* the Banker is initialised with (initialize_system, main).               *)
(***************************************************************************)
EXTENDS Types

VARIABLES available_ram, available_hdd

memoryVars == <<available_ram, available_hdd>>

total_ram == max_resources["ram"]
total_hdd == max_resources["hdd"]

MemoryTypeOK == available_ram \in Nat /\ available_hdd \in Nat

init_memory_manager == available_ram = total_ram /\ available_hdd = total_hdd

check_memory_available(req) ==
    available_ram >= req["ram"] /\ available_hdd >= req["hdd"]

\* The call returns true; when the check fails it returns false and changes
\* nothing.
allocate_memory(req) ==
    /\ check_memory_available(req)
    /\ available_ram' = available_ram - req["ram"]
    /\ available_hdd' = available_hdd - req["hdd"]

AtMost(n, bound) == IF n > bound THEN bound ELSE n

deallocate_memory(req) ==
    /\ available_ram' = AtMost(available_ram + req["ram"], total_ram)
    /\ available_hdd' = AtMost(available_hdd + req["hdd"], total_hdd)

=============================================================================
