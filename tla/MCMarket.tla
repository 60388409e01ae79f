------------------------------ MODULE MCMarket ------------------------------
EXTENDS Market, TLC
ProcessSymmetry == Permutations(Workers)
=============================================================================
