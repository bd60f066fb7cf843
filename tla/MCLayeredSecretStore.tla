------------------------ MODULE MCLayeredSecretStore ------------------------
(* TLC instances of LayeredSecretStore.                                     *)
EXTENDS LayeredSecretStore, TLC

Environment(switches, slow, drops, legacy, inFlight) ==
    [switches |-> switches, slow |-> slow, drops |-> drops, legacy |-> legacy,
     inFlight |-> inFlight]

Steady == Environment(FALSE, FALSE, FALSE, FALSE, 3)
Unreliable == Environment(TRUE, TRUE, TRUE, TRUE, 2)
SteadyAndUnreliable == {Steady, Unreliable}
Outages == {Environment(TRUE, FALSE, FALSE, FALSE, 1)}
LateWrites == {Environment(FALSE, TRUE, FALSE, FALSE, 1)}

Symmetry == Permutations(Values) \cup Permutations(Callers)
=============================================================================
