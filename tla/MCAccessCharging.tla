-------------------------- MODULE MCAccessCharging --------------------------
EXTENDS AccessCharging, TLC

Symmetry == Permutations(Workers)
==============================================================================
