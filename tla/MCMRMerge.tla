------------------------------ MODULE MCMRMerge -----------------------------
(* A small instance of MRMerge: invocations, heads, branches and pipelines   *)
(* are interchangeable.                                                      *)
EXTENDS MRMerge, TLC

Symmetry ==
  Permutations(Invocation) \cup Permutations(Sha)
    \cup Permutations(Branch) \cup Permutations(PID)
=============================================================================
