-------------------------- MODULE MCResourceDelete --------------------------
(* A small instance of ResourceDelete: invocations and revisions are         *)
(* interchangeable.                                                          *)
EXTENDS ResourceDelete, TLC

Symmetry == Permutations(Invocation) \cup Permutations(Rev)
=============================================================================
