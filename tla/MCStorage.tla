------------------------------ MODULE MCStorage ------------------------------
(***************************************************************************)
(* Instances of Storage for TLC.                                           *)
(***************************************************************************)
EXTENDS Storage

TwoSizes == [i \in 1..NumObjects |-> i]

=============================================================================
