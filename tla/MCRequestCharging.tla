-------------------------- MODULE MCRequestCharging --------------------------
EXTENDS RequestCharging, TLC

\* A free result, one paid by its rows, and one with a code of three digits.
MCResults == {[code |-> 1, rows |-> 2], [code |-> 2, rows |-> 0],
              [code |-> 601, rows |-> 1]}
MCTwoResults == {[code |-> 1, rows |-> 2], [code |-> 2, rows |-> 0]}
MCChargings == <<[code |-> 1, type |-> "RESULT_COUNT", cost |-> 1],
                 [code |-> 601, type |-> "QUERY_TIMES", cost |-> 1]>>

Symmetry == Permutations(Requests)
==============================================================================
