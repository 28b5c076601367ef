----------------------------- MODULE MCIssueEdit ----------------------------
(* A small instance of IssueEdit: titles, names and labels are               *)
(* interchangeable.                                                          *)
EXTENDS IssueEdit, TLC

Symmetry ==
  Permutations(Invocation) \cup Permutations(Title) \cup Permutations(Name)
  \cup Permutations(Label)
=============================================================================
