------------------------------ MODULE MCCampaign ------------------------------
(* Campaign on small instances.                                             *)
EXTENDS Campaign, TLC

CONSTANTS c1, c2, e1, e2, q1, q2

Interchangeable ==
  Permutations({c1, c2}) \cup Permutations({e1, e2}) \cup Permutations({q1, q2})

=============================================================================
