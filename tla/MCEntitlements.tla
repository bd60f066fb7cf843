--------------------------- MODULE MCEntitlements ---------------------------
(* TLC instances of Entitlements.                                           *)
EXTENDS Entitlements, TLC

Symmetry == Permutations(Cards) \cup Permutations(Fingerprints)
            \cup Permutations(Handlers)
=============================================================================
