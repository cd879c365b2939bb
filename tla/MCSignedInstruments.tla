------------------------- MODULE MCSignedInstruments -------------------------
EXTENDS SignedInstruments
CONSTANTS w1, w2, z1, q1, c1, none
=============================================================================
