---------------------------- MODULE MCBoundedRead ----------------------------
(* One read of each kind, of up to four items on pages of two. *)
EXTENDS BoundedRead
CONSTANTS c1, r1, r2
\* Two items of one time, and one numbered late that is older than they are.
MCCreated == [i \in Item |-> CASE i = 1 -> 3 [] i = 2 -> 5 [] i = 3 -> 5 [] i = 4 -> 1
                               [] OTHER -> i + 2]
=============================================================================
