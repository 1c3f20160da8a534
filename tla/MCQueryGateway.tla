--------------------------- MODULE MCQueryGateway ---------------------------
EXTENDS QueryGateway, TLC

CONSTANTS r1, r2, r3, r4, acme

OneTenant == [r \in Requests |-> acme]

RequestSymmetry == Permutations(Requests)
=============================================================================
