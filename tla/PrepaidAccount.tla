--------------------------- MODULE PrepaidAccount ---------------------------
(***************************************************************************)
(* What an account that is charged after use promises: a user is let in on *)
(* a positive balance, gets one bill, and the bill is taken from the       *)
(* balance as it is at that moment, once and in full, or not at all when   *)
(* the user gets nothing.                                                  *)
(***************************************************************************)
EXTENDS Integers

CONSTANTS
  Users,            \* the concurrent uses of the account
  InitialMoney,     \* the balance at the start
  MaxCost           \* the most one use costs

VARIABLES balance, stage, bill

vars == <<balance, stage, bill>>

Init ==
  /\ balance = InitialMoney
  /\ stage = [u \in Users |-> "out"]
  /\ bill = [u \in Users |-> 0]

Admit(u) ==
  /\ stage[u] = "out" /\ balance > 0
  /\ stage' = [stage EXCEPT ![u] = "admitted"]
  /\ UNCHANGED <<balance, bill>>

Bill(u) ==
  /\ stage[u] = "admitted"
  /\ \E cost \in 0..MaxCost : bill' = [bill EXCEPT ![u] = cost]
  /\ stage' = [stage EXCEPT ![u] = "billed"]
  /\ UNCHANGED balance

Settle(u) ==
  /\ stage[u] = "billed"
  /\ balance' = balance - bill[u]
  /\ stage' = [stage EXCEPT ![u] = "out"]
  /\ bill' = [bill EXCEPT ![u] = 0]

Drop(u) ==
  /\ stage[u] \in {"admitted", "billed"}
  /\ stage' = [stage EXCEPT ![u] = "out"]
  /\ bill' = [bill EXCEPT ![u] = 0]
  /\ UNCHANGED balance

Next == \E u \in Users : Admit(u) \/ Bill(u) \/ Settle(u) \/ Drop(u)

Spec == Init /\ [][Next]_vars
==============================================================================
