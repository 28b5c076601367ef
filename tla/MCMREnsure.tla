----------------------------- MODULE MCMREnsure -----------------------------
(* A small instance of MREnsure: invocations, merge requests, contents and   *)
(* heads are interchangeable; metadata is not, one value being the default.  *)
EXTENDS MREnsure, TLC

Symmetry ==
  Permutations(Invocation) \cup Permutations(IID)
    \cup Permutations(Content) \cup Permutations(Sha)
=============================================================================
