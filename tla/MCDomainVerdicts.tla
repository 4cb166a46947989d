---------------------------- MODULE MCDomainVerdicts ----------------------------
(* Small instances of DomainVerdicts for TLC.  The lifetimes keep the order of *)
(* the defaults that matters: valid and soft shortest, then negative and       *)
(* mx_persistent, then dead and mx; two lifetimes of dead fit in the clock.    *)
EXTENDS DomainVerdicts, TLC

CONSTANTS s1, s2, a1

MCTtl == [valid |-> 1, soft |-> 1, negative |-> 2,
          mx_persistent |-> 2, catchall |-> 1, dead |-> 2, mx |-> 1]

Plain == {}
Forcing == {"forceRefresh"}
NoProbe == {"skipSmtp"}
NoCatchAll == {"skipCatchAll"}

AllOptions == {Plain, Forcing, NoProbe, NoCatchAll}

Symmetry == Permutations(Slot)

=============================================================================
