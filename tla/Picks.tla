-------------------------------- MODULE Picks --------------------------------
(***************************************************************************)
(* Elements of a vector picked by their positions, in the order of the      *)
(* vector: what a loop over it with a condition visits, or what is left     *)
(* when the others have been erased.                                        *)
(***************************************************************************)
EXTENDS Naturals, Sequences, FiniteSets

\* The positions of a set, from the lowest to the highest.
Ascending(I) ==
    CHOOSE f \in [1 .. Cardinality(I) -> I] :
        /\ \A i \in I : \E r \in DOMAIN f : f[r] = i
        /\ \A r, q \in DOMAIN f : r < q => f[r] < f[q]

\* The elements at these positions.
Only(seq, I) == LET f == Ascending(I) IN [r \in DOMAIN f |-> seq[f[r]]]
=============================================================================
