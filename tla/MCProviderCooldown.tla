-------------------------- MODULE MCProviderCooldown --------------------------
(* Small instances of ProviderCooldown for TLC.  The durations keep the order *)
(* of the real ones: the jitter ranges of the tiers do not overlap.           *)
EXTENDS ProviderCooldown

MCTierMin == <<1, 2, 3, 4>>
MCTierMax == <<1, 2, 3, 5>>
MCWindow == [timeout |-> 2, temp451 |-> 2, unknown |-> 1]
MCLimit == [timeout |-> 2, temp451 |-> 2, unknown |-> 3]

\* For the two-provider run: only the 450/451 window keeps stamps.
MCLimitSmall == [timeout |-> 1, temp451 |-> 2, unknown |-> 1]

=============================================================================
