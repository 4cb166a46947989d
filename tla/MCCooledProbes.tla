---------------------------- MODULE MCCooledProbes ----------------------------
(* Small instances of CooledProbes for TLC.  Every soft failure fills its      *)
(* window at once: ProviderCooldown's own runs fill the windows slowly.        *)
EXTENDS CooledProbes

CONSTANTS gmail, v1, v2, v3

MCTierMin == <<1, 2, 3, 4>>
MCTierMax == <<1, 2, 3, 5>>
MCWindow == [timeout |-> 1, temp451 |-> 1, unknown |-> 1]
MCLimit == [timeout |-> 1, temp451 |-> 1, unknown |-> 1]

AllOfOne == [v \in Verification |-> gmail]

=============================================================================
