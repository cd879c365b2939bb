--------------------------- MODULE MCReceivableDesk ---------------------------
EXTENDS ReceivableDesk, TLC
CONSTANTS r1, o1, o2, b1, b2, t1, t2, e1, anna, bert, u1, u2, none
MCcreditorOf == [r \in Receivable |-> anna]
Symmetry == Permutations(Offer) \cup Permutations(Bid) \cup Permutations(Trade)
=============================================================================
