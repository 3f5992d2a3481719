------------------------------ MODULE MCAcceptEx ------------------------------
EXTENDS AcceptEx, TLC

CONSTANTS r1, r2, r3, r4

MCRequesters == {r1, r2, r3, r4}

MCSlots == 1..2

MCSymmetry == Permutations(MCRequesters)

=============================================================================
