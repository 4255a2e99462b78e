-------------------------- MODULE MCDeliveryReceipts --------------------------
(* DeliveryReceipts on small instances.                                     *)
EXTENDS DeliveryReceipts, TLC

CONSTANTS w1, w2, h1, h2

Interchangeable ==
  {hooks @@ wamids : hooks \in Permutations({h1, h2}), wamids \in Permutations({w1, w2})}

=============================================================================
