------------------------ MODULE AccessCharging_proofs ------------------------
(***************************************************************************)
(* The charging services of devplat-auth-shiro for any number of workers:  *)
(* the count's bounds, the debt's bound, and the money service as an       *)
(* implementation of PrepaidAccount.                                       *)
(***************************************************************************)
EXTENDS AccessCharging, FiniteSetTheorems, TLAPS

\* The workers who have not yet used the balance they were let in on.
Admitted == {w \in Workers : pc[w] \in {"querying", "charging"}}

(***************************************************************************)
(* A count that was read covers what the ledger leaves; a price is only    *)
(* there while it is due; and for every worker that is not admitted the    *)
(* account may have been overdrawn by one price.                           *)
(***************************************************************************)
CountInv ==
  /\ count >= 0 /\ count >= InitialCount - taken
  /\ \A w \in Workers : pc[w] = "counting" => got[w] >= InitialCount - taken

PriceInv == \A w \in Workers : pc[w] # "charging" => cost[w] = 0

DebtInv == money > -(MaxCost * (Cardinality(Workers) - Cardinality(Admitted)))

IInv == TypeOK /\ CountInv /\ PriceInv

------------------------------------------------------------------------------
LEMMA InitHolds == Init => IInv
  BY AmountsAreNatural DEF Init, IInv, TypeOK, CountInv, PriceInv, PcValues

LEMMA StepKeeps == IInv /\ [Next]_vars => IInv'
<1>1. SUFFICES ASSUME IInv, [Next]_vars PROVE IInv'
  OBVIOUS
<1>2. CASE UNCHANGED vars
  BY <1>1, <1>2 DEF vars, IInv, TypeOK, CountInv, PriceInv
<1>3. ASSUME NEW w \in Workers, Refuse(w) PROVE IInv'
  BY <1>1, <1>3 DEF Refuse, vars, IInv, TypeOK, CountInv, PriceInv
<1>4. ASSUME NEW w \in Workers, CountStart(w) PROVE IInv'
  BY <1>1, <1>4 DEF CountStart, Move, IInv, TypeOK, CountInv, PriceInv, PcValues
<1>5. ASSUME NEW w \in Workers, CountFinish(w) PROVE IInv'
  <2>1. PICK rows \in 0..MaxRows :
          got[w] - rows >= 0 /\ count' = got[w] - rows /\ taken' = taken + rows
    BY <1>5 DEF CountFinish, Enough
  <2>2. rows \in Nat /\ pc[w] = "counting"
    BY <1>5, AmountsAreNatural DEF CountFinish, Move
  <2> QED
    BY <1>1, <1>5, <2>1, <2>2, AmountsAreNatural
    DEF CountFinish, Move, IInv, TypeOK, CountInv, PriceInv, PcValues
<1>6. ASSUME NEW w \in Workers, CountFails(w) PROVE IInv'
  BY <1>1, <1>6 DEF CountFails, Move, IInv, TypeOK, CountInv, PriceInv, PcValues
<1>7. ASSUME NEW w \in Workers, MoneyStart(w) PROVE IInv'
  BY <1>1, <1>7 DEF MoneyStart, Move, IInv, TypeOK, CountInv, PriceInv, PcValues
<1>8. ASSUME NEW w \in Workers, Price(w) PROVE IInv'
  BY <1>1, <1>8 DEF Price, Move, IInv, TypeOK, CountInv, PriceInv, PcValues
<1>9. ASSUME NEW w \in Workers, Charge(w) PROVE IInv'
  BY <1>1, <1>9, AmountsAreNatural
  DEF Charge, Move, IInv, TypeOK, CountInv, PriceInv, PcValues
<1>10. ASSUME NEW w \in Workers, Respond(w) PROVE IInv'
  BY <1>1, <1>10 DEF Respond, Move, IInv, TypeOK, CountInv, PriceInv, PcValues
<1>11. ASSUME NEW w \in Workers, MoneyFails(w) PROVE IInv'
  BY <1>1, <1>11, AmountsAreNatural
  DEF MoneyFails, Move, IInv, TypeOK, CountInv, PriceInv, PcValues
<1> QED
  BY <1>1, <1>2, <1>3, <1>4, <1>5, <1>6, <1>7, <1>8, <1>9, <1>10, <1>11 DEF Next

\* The inductive invariant holds in every behaviour.
THEOREM InductiveInvariant == Spec => []IInv
  BY InitHolds, StepKeeps, PTL DEF Spec

\* Every state is of its type.
THEOREM Typing == Spec => []TypeOK
<1>1. IInv => TypeOK
  BY DEF IInv
<1> QED
  BY InductiveInvariant, <1>1, PTL

\* Stale counts never make the count negative, for any number of workers.
THEOREM CountStaysNatural == Spec => []CountNeverNegative
<1>1. IInv => CountNeverNegative
  BY DEF IInv, CountInv, CountNeverNegative
<1> QED
  BY InductiveInvariant, <1>1, PTL

\* Stale counts never take more than was delivered.
THEOREM CountIsFair == Spec => []CountNeverOvercharged
<1>1. IInv => CountNeverOvercharged
  BY DEF IInv, CountInv, CountNeverOvercharged
<1> QED
  BY InductiveInvariant, <1>1, PTL

------------------------------------------------------------------------------
LEMMA AdmittedFinite ==
  /\ IsFiniteSet(Admitted) /\ Cardinality(Admitted) \in Nat
  /\ Cardinality(Workers) \in Nat /\ Cardinality(Admitted) <= Cardinality(Workers)
  BY WorkersAreFinite, FS_Subset, FS_CardinalityType DEF Admitted

\* A worker joins or leaves the admitted ones.
LEMMA JoinLeave ==
  ASSUME TypeOK, TypeOK', NEW w \in Workers,
         \A v \in Workers : v # w => pc'[v] = pc[v]
  PROVE  /\ w \notin Admitted /\ w \in Admitted'
              => Cardinality(Admitted') = Cardinality(Admitted) + 1
         /\ w \in Admitted /\ w \notin Admitted'
              => Cardinality(Admitted') = Cardinality(Admitted) - 1
         /\ (w \in Admitted <=> w \in Admitted') => Admitted' = Admitted
<1>1. CASE w \notin Admitted /\ w \in Admitted'
  <2>1. Admitted' = Admitted \cup {w}
    BY <1>1 DEF Admitted
  <2> QED
    BY <1>1, <2>1, AdmittedFinite, FS_AddElement
<1>2. CASE w \in Admitted /\ w \notin Admitted'
  <2>1. Admitted' = Admitted \ {w}
    BY <1>2 DEF Admitted
  <2> QED
    BY <1>2, <2>1, AdmittedFinite, FS_RemoveElement
<1>3. CASE w \in Admitted <=> w \in Admitted'
  BY <1>3 DEF Admitted
<1> QED
  BY <1>1, <1>2, <1>3

\* The bound for n of m workers admitted grows by one price per worker who
\* is no longer among them.
LEMMA BoundSteps ==
  ASSUME NEW m \in Nat, NEW n \in Nat, n <= m
  PROVE  /\ MaxCost * (m - n) \in Nat
         /\ MaxCost * (m - (n - 1)) = MaxCost * (m - n) + MaxCost
         /\ n + 1 <= m => MaxCost * (m - (n + 1)) \in Nat
<1>1. \A k \in Nat : MaxCost * k \in Nat
  BY AmountsAreNatural
<1>2. m - n \in Nat /\ m - (n - 1) = (m - n) + 1
      /\ (n + 1 <= m => m - (n + 1) \in Nat)
  OBVIOUS
<1>3. \A k \in Nat : MaxCost * (k + 1) = MaxCost * k + MaxCost
  BY AmountsAreNatural
<1> QED
  BY <1>1, <1>2, <1>3

LEMMA DebtKeeps == IInv /\ IInv' /\ DebtInv /\ [Next]_vars => DebtInv'
<1>1. SUFFICES ASSUME IInv, IInv', DebtInv, [Next]_vars PROVE DebtInv'
  OBVIOUS
<1> DEFINE m == Cardinality(Workers)
           n == Cardinality(Admitted)
<1>2. m \in Nat /\ n \in Nat /\ n <= m
  BY AdmittedFinite
<1>3. money \in Int /\ money > -(MaxCost * (m - n)) /\ MaxCost \in Nat
  BY <1>1, AmountsAreNatural DEF IInv, TypeOK, DebtInv
<1>4. CASE UNCHANGED <<pc, money>>
  BY <1>1, <1>4 DEF DebtInv, Admitted
<1>5. ASSUME NEW w \in Workers, MoneyStart(w) PROVE DebtInv'
  <2>1. w \notin Admitted /\ w \in Admitted'
    BY <1>1, <1>5 DEF MoneyStart, Move, IInv, TypeOK, Admitted
  <2>2. Cardinality(Admitted') = n + 1
    BY <1>1, <1>5, <2>1, JoinLeave DEF MoneyStart, Move, IInv, TypeOK
  <2>3. n + 1 <= m
    BY <2>2, AdmittedFinite, WorkersAreFinite, FS_Subset DEF Admitted
  <2>4. money' = money /\ money > 0
    BY <1>5 DEF MoneyStart
  <2> QED
    BY <1>2, <1>3, <2>2, <2>3, <2>4, BoundSteps DEF DebtInv
<1>6. ASSUME NEW w \in Workers, Charge(w) PROVE DebtInv'
  <2>1. w \in Admitted /\ w \notin Admitted'
    BY <1>1, <1>6 DEF Charge, Move, IInv, TypeOK, Admitted
  <2>2. Cardinality(Admitted') = n - 1
    BY <1>1, <1>6, <2>1, JoinLeave DEF Charge, Move, IInv, TypeOK
  <2>3. money' = money - cost[w] /\ cost[w] \in 0..MaxCost
    BY <1>1, <1>6 DEF Charge, IInv, TypeOK
  <2>4. MaxCost * (m - (n - 1)) = MaxCost * (m - n) + MaxCost /\ MaxCost * (m - n) \in Nat
    BY <1>2, BoundSteps
  <2> HIDE DEF m, n
  <2>5. money' > -(MaxCost * (m - (n - 1)))
    BY <1>3, <2>3, <2>4
  <2> QED
    BY <2>2, <2>5 DEF DebtInv, m
<1>7. ASSUME NEW w \in Workers, MoneyFails(w) PROVE DebtInv'
  <2>1. w \in Admitted /\ w \notin Admitted'
    BY <1>1, <1>7 DEF MoneyFails, Move, IInv, TypeOK, Admitted
  <2>2. Cardinality(Admitted') = n - 1
    BY <1>1, <1>7, <2>1, JoinLeave DEF MoneyFails, Move, IInv, TypeOK
  <2>3. MaxCost * (m - (n - 1)) = MaxCost * (m - n) + MaxCost /\ MaxCost * (m - n) \in Nat
    BY <1>2, BoundSteps
  <2>4. money' = money
    BY <1>7 DEF MoneyFails
  <2> HIDE DEF m, n
  <2>5. money' > -(MaxCost * (m - (n - 1)))
    BY <1>3, <2>3, <2>4
  <2> QED
    BY <2>2, <2>5 DEF DebtInv, m
<1>8. ASSUME NEW w \in Workers,
             CountStart(w) \/ CountFinish(w) \/ CountFails(w) \/ Price(w) \/ Respond(w)
      PROVE  DebtInv'
  <2>1. w \in Admitted <=> w \in Admitted'
    BY <1>1, <1>8 DEF CountStart, CountFinish, CountFails, Price, Respond, Move, IInv,
                      TypeOK, Admitted
  <2>2. Admitted' = Admitted
    BY <1>1, <1>8, <2>1, JoinLeave
    DEF CountStart, CountFinish, CountFails, Price, Respond, Move, IInv, TypeOK
  <2>3. money' = money
    BY <1>8 DEF CountStart, CountFinish, CountFails, Price, Respond
  <2> QED
    BY <1>1, <2>2, <2>3 DEF DebtInv
<1> QED
  BY <1>1, <1>4, <1>5, <1>6, <1>7, <1>8 DEF Next, Refuse, vars

\* The account's debt stays below one price per worker.
THEOREM DebtIsBounded == Spec => []DebtIsPerWorker
<1>1. Init => DebtInv
  <2>1. SUFFICES ASSUME Init PROVE DebtInv
    OBVIOUS
  <2>2. Admitted = {} /\ Cardinality(Admitted) = 0
    BY <2>1, FS_EmptySet DEF Init, Admitted
  <2>3. Cardinality(Workers) \in Nat /\ Cardinality(Workers) # 0
    BY WorkersAreFinite, FS_CardinalityType, FS_EmptySet
  <2>4. MaxCost * Cardinality(Workers) > 0
    BY <2>3, AmountsAreNatural
  <2> QED
    BY <2>1, <2>2, <2>3, <2>4, AmountsAreNatural DEF Init, DebtInv
<1>2. IInv /\ DebtInv => DebtIsPerWorker
  <2>1. SUFFICES ASSUME IInv, DebtInv PROVE DebtIsPerWorker
    OBVIOUS
  <2>2. \A m, n \in Nat : n <= m => MaxCost * (m - n) <= MaxCost * m
    BY AmountsAreNatural
  <2>3. MaxCost * (Cardinality(Workers) - Cardinality(Admitted)) <= MaxCost * Cardinality(Workers)
    BY <2>2, AdmittedFinite
  <2> QED
    BY <2>1, <2>3, AdmittedFinite, AmountsAreNatural DEF IInv, TypeOK, DebtInv, DebtIsPerWorker
<1> QED
  BY InductiveInvariant, DebtKeeps, <1>1, <1>2, PTL DEF Spec

------------------------------------------------------------------------------
\* The refinement mapping, worker by worker.
Stage == [w \in Workers |->
            CASE pc[w] = "querying" -> "admitted"
              [] pc[w] = "charging" -> "billed"
              [] OTHER -> "out"]

\* A worker's move from one place to another, as the account sees it.
LEMMA StageMoves ==
  ASSUME TypeOK, NEW w \in Workers, NEW from, NEW to, Move(w, from, to)
  PROVE  Stage' = [Stage EXCEPT ![w] = CASE to = "querying" -> "admitted"
                                         [] to = "charging" -> "billed"
                                         [] OTHER -> "out"]
  BY DEF TypeOK, Move, Stage

\* Moves the account does not see.
LEMMA StageStays ==
  ASSUME TypeOK, NEW w \in Workers, NEW from, NEW to, Move(w, from, to),
         from \notin {"querying", "charging"}, to \notin {"querying", "charging"}
  PROVE  Stage' = Stage
  BY DEF TypeOK, Move, Stage

LEMMA AccountStep == IInv /\ [Next]_vars => [Account!Next]_(Account!vars)
<1>1. SUFFICES ASSUME IInv, [Next]_vars PROVE [Account!Next]_<<money, Stage, cost>>
  BY DEF Account!vars, Stage
<1> USE DEF IInv
<1>2. CASE UNCHANGED vars
  BY <1>2 DEF vars, Stage
<1>3. ASSUME NEW w \in Workers,
             Refuse(w) \/ CountStart(w) \/ CountFinish(w) \/ CountFails(w) \/ Respond(w)
      PROVE  UNCHANGED <<money, Stage, cost>>
  <2>1. CASE Refuse(w)
    BY <2>1 DEF Refuse, vars, Stage
  <2>2. CASE ~Refuse(w)
    BY <1>1, <1>3, <2>2, StageStays DEF CountStart, CountFinish, CountFails, Respond
  <2> QED
    BY <2>1, <2>2
<1>4. ASSUME NEW w \in Workers, MoneyStart(w) PROVE Account!Admit(w)
  BY <1>1, <1>4, StageMoves DEF MoneyStart, Account!Admit, Stage, Move
<1>5. ASSUME NEW w \in Workers, Price(w) PROVE Account!Bill(w)
  BY <1>1, <1>5, StageMoves DEF Price, Account!Bill, Stage, Move
<1>6. ASSUME NEW w \in Workers, Charge(w) PROVE Account!Settle(w)
  <2>1. Move(w, "charging", "writing") /\ pc[w] = "charging"
    BY <1>6 DEF Charge, Move
  <2>2. Stage' = [Stage EXCEPT ![w] = "out"]
    BY <1>1, <2>1, StageMoves
  <2>3. Stage[w] = "billed"
    BY <2>1 DEF Stage
  <2>4. money' = money - cost[w] /\ cost' = [cost EXCEPT ![w] = 0]
    BY <1>6 DEF Charge
  <2> QED
    BY <2>2, <2>3, <2>4 DEF Account!Settle, Stage
<1>7. ASSUME NEW w \in Workers, MoneyFails(w) PROVE Account!Drop(w)
  BY <1>1, <1>7, StageMoves DEF MoneyFails, Account!Drop, Stage, Move
<1> QED
  BY <1>1, <1>2, <1>3, <1>4, <1>5, <1>6, <1>7 DEF Next, Account!Next

\* The money service implements the prepaid account.
THEOREM ImplementsAccount == Spec => IsPrepaidAccount
<1>1. Init => Account!Init
  BY DEF Init, Account!Init
<1> QED
  BY InductiveInvariant, AccountStep, <1>1, PTL DEF Spec, IsPrepaidAccount, Account!Spec
==============================================================================
