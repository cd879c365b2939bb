--------------------------- MODULE MCProtocolEvents ---------------------------
EXTENDS ProtocolEvents, TLC
CONSTANTS admin, member, other, movena, abroad

MCtenantOf == [u \in User |-> IF u = other THEN abroad ELSE movena]
Symmetry == Permutations(Call) \cup Permutations(Receivable)
=============================================================================
