-------------------------- MODULE MCOperationKernel --------------------------
(* Instances of OperationKernel for TLC. *)
EXTENDS KernelReplay, TLC

CONSTANTS r1, r2

OneItem == [r \in Runs |-> "item"]

OneEffect == [r \in Runs |-> "effect"]

OwnScope == [r \in Runs |-> r]

RunSymmetry == Permutations(Runs)
=============================================================================
