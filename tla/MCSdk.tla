------------------------------- MODULE MCSdk -------------------------------
EXTENDS SdkClient, TLC

CONSTANTS t1, t2, s1, s2

Symmetry == Permutations(HostThreads) \cup Permutations(Senders)
=============================================================================
