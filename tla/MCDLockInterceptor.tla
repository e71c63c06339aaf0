-------------------------- MODULE MCDLockInterceptor --------------------------
EXTENDS DLockInterceptor, TLC

Symmetry == Permutations(Clients)
==============================================================================
