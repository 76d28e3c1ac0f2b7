---------------------------- MODULE MCModelStore ----------------------------
(* Two callers, who are alike; one model at first, two in an old file. *)
EXTENDS ModelStore, TLC

CONSTANTS c1, c2
Symmetry == Permutations(Clients)

Older(n) == [id |-> n, number |-> n - 2]
MCFirstFiles == {{}, {[id |-> 0, number |-> 0]}}
MCFirstLegacies == {{}, {Older(0), Older(1)}}
=============================================================================
