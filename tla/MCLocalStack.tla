---------------------------- MODULE MCLocalStack ----------------------------
(* A small instance of LocalStack: a base and one member, two commits of     *)
(* which one is the ancestor of the other; one invocation of any kind, or    *)
(* two registrations.                                                        *)
EXTENDS LocalStack, TLC

CONSTANTS base, member, older, newer

TheChain == <<base, member>>
TheHistory == {<<older, older>>, <<older, newer>>, <<newer, newer>>}

OneOrTwo ==
  {k \in [Invocation -> Kind] :
     \/ \A c \in Invocation : k[c] = "register"
     \/ \E c \in Invocation : k[c] # "none" /\ \A d \in Invocation \ {c} : k[d] = "none"}

Symmetry == Permutations(Invocation) \cup Permutations(Binding)
=============================================================================
