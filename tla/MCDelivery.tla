---------------------------- MODULE MCDelivery ----------------------------
EXTENDS Delivery, TLC

CONSTANTS h1, h2, k1, k2

Symmetry == Permutations(Handlers) \cup Permutations(Keys)
=============================================================================
