----------------------- MODULE MCSubscriptionRefresh -----------------------
(* Small instances of SubscriptionRefresh for TLC.                         *)
EXTENDS SubscriptionRefresh, TLC

(* Neither the calls nor the sources are told apart.                       *)
Symmetry == Permutations(Calls) \cup Permutations(Sources)
=============================================================================
