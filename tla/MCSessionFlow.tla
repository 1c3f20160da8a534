---------------------------- MODULE MCSessionFlow ---------------------------
EXTENDS SessionFlow, TLC

CONSTANTS a1, a2, l1, c1

(* Racing tabs with faults include those without. *)
AllEnvironments ==
    {[tabs |-> FALSE, faults |-> FALSE], [tabs |-> FALSE, faults |-> TRUE],
     [tabs |-> TRUE, faults |-> TRUE]}

AttemptSymmetry == Permutations(Attempts)
=============================================================================
