----------------------------- MODULE MCSandbox ------------------------------
EXTENDS SandboxFleet, TLC

CONSTANTS r1, r2, w1, w2, nobody

MCTogether == [r \in {r1, r2} |-> w1]
=============================================================================
