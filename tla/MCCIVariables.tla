---------------------------- MODULE MCCIVariables ---------------------------
(* A small instance of CIVariables: invocations, values, and the variables   *)
(* other than Target are interchangeable.                                    *)
EXTENDS CIVariables, TLC

Symmetry ==
  Permutations(Invocation) \cup Permutations(Value) \cup Permutations(Key \ {Target})
=============================================================================
