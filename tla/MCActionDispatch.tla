-------------------------- MODULE MCActionDispatch --------------------------
(* Instances of ActionDispatch for TLC. *)
EXTENDS ActionDispatch, TLC

\* Every worker takes one action, or two.
LoadOfOne == [w \in Workers |-> 1]
LoadOfTwo == [w \in Workers |-> 2]

Symmetry == Permutations(Workers) \cup Permutations(Handlers)
=============================================================================
