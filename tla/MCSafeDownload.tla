--------------------------- MODULE MCSafeDownload ---------------------------
(* One download of each kind, while other processes, another download to    *)
(* the same place among them, and the provider take a few steps.            *)
EXTENDS SafeDownload, TLC
CONSTANTS c1, d1, d2, v1, v2, v3, v4
MCDir == {d1, d2}
MCVersion == {v1, v2, v3, v4}

\* v2 cannot be told from v1 by its listing, v3 has another name, v4 another size.
MCListed == [v \in MCVersion |-> [name |-> IF v = v3 THEN "other" ELSE "archive",
                                 size |-> IF v = v4 THEN 2 ELSE 1]]
Symmetry == Permutations({d1, d2})
=============================================================================
