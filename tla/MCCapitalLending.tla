--------------------------- MODULE MCCapitalLending ---------------------------
EXTENDS CapitalLending, TLC
CONSTANTS n1, n2, r1, r2, p1, c1, c2, d1, d2, none
Symmetry == Permutations(Need) \cup Permutations(Call) \cup Permutations(Doc)
              \cup Permutations(Receivable)
=============================================================================
