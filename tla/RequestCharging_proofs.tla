------------------------ MODULE RequestCharging_proofs ------------------------
(***************************************************************************)
(* What RequestCharging promises for any number of requests, any price     *)
(* list, any balance and any amount of credit.                             *)
(***************************************************************************)
EXTENDS RequestCharging, TLAPS

(***************************************************************************)
(* What a request that is about to write the balance knows of it: it was   *)
(* positive, it is still the balance unless that has changed, and it was   *)
(* no less than the ledger, which only a credit can raise.                 *)
(***************************************************************************)
ReadIsSound ==
  \A r \in Requests : pc[r] = "write" =>
    /\ got[r] > 0
    /\ stale[r] = {} => got[r] = money
    /\ "credit" \notin stale[r] \cup raced => got[r] >= Ledger

\* A request that is past its controller has a result to charge for.
HasResult ==
  \A r \in Requests : pc[r] \in {"post", "write", "respond"} => result[r] \in Results

\* The account's part of the inductive invariant.
AccountInv ==
  /\ ReadIsSound
  /\ OverdraftBounded
  /\ ExactUnlessRaced
  /\ NeverOvercharged

IInv == TypeOK /\ HasResult /\ AccountInv

\* The steps that leave the account alone and do not reach the write.
Quiet(r) ==
  \/ Arrive(r) \/ PrePasses(r) \/ PreRefuses(r) \/ PostSkips(r)
  \/ SendMessage(r) \/ WriteResponse(r)

------------------------------------------------------------------------------
\* A service's turn ends at the next service or after the loop.
LEMMA NextServiceType ==
  ASSUME TypeOK, NEW r \in Requests, NEW loop \in PcValues, NEW next \in PcValues,
         NextService(r, loop, next)
  PROVE  /\ pc' \in [Requests -> PcValues]
         /\ step' \in [Requests -> 1..3]
         /\ \A q \in Requests : q # r => pc'[q] = pc[q]
         /\ pc'[r] \in {loop, next}
  BY SMTT(30) DEF TypeOK, NextService, Goto

\* What a change of the balance does to the others' knowledge of it.
LEMMA StaleType ==
  ASSUME TypeOK, NEW change \in Changes
  PROVE  /\ Stale(change) \in [Requests -> SUBSET Changes]
         /\ \A q \in Requests :
              /\ stale[q] \subseteq Stale(change)[q]
              /\ pc[q] = "write" /\ money' # money => change \in Stale(change)[q]
  BY DEF TypeOK, Stale

LEMMA InitHolds == Init => IInv
<1>1. SUFFICES ASSUME Init PROVE IInv
  OBVIOUS
<1>2. TypeOK
  BY <1>1, MoneyIsNatural DEF Init, TypeOK, PcValues
<1>3. HasResult /\ ReadIsSound
  BY <1>1 DEF Init, HasResult, ReadIsSound
<1>4. OverdraftBounded /\ ExactUnlessRaced /\ NeverOvercharged
  BY <1>1, MoneyIsNatural DEF Init, OverdraftBounded, ExactUnlessRaced, NeverOvercharged, Ledger
<1> QED
  BY <1>2, <1>3, <1>4 DEF IInv, AccountInv

\* Steps that leave the account alone keep the invariant.
LEMMA QuietKeeps ==
  ASSUME IInv, NEW r \in Requests, Quiet(r)
  PROVE  IInv'
<1>1. UNCHANGED <<services, kind, result, got>> /\ AccountUnchanged
  BY DEF Quiet, Arrive, PrePasses, PreRefuses, PostSkips, SendMessage, WriteResponse
<1>2. /\ pc' \in [Requests -> PcValues]
      /\ step' \in [Requests -> 1..3]
      /\ \A q \in Requests : q # r => pc'[q] = pc[q]
      /\ pc'[r] # "write"
      /\ pc'[r] \in {"post", "respond"} => pc[r] = "post"
  <2>1. TypeOK
    BY DEF IInv
  <2>2. CASE Arrive(r) \/ PreRefuses(r) \/ WriteResponse(r)
    BY <2>1, <2>2 DEF TypeOK, Arrive, PreRefuses, WriteResponse, Goto, PcValues
  <2>3. CASE PrePasses(r)
    BY <2>1, <2>3, NextServiceType DEF PrePasses, PcValues
  <2>4. CASE PostSkips(r) \/ SendMessage(r)
    BY <2>1, <2>4, NextServiceType DEF PostSkips, SendMessage, PcValues
  <2> QED
    BY <2>2, <2>3, <2>4 DEF Quiet
<1>3. sent' \in SUBSET Requests
  BY DEF IInv, TypeOK, Quiet, Arrive, PrePasses, PreRefuses, PostSkips, SendMessage, WriteResponse
<1>4. TypeOK'
  BY <1>1, <1>2, <1>3 DEF IInv, TypeOK, AccountUnchanged
<1>5. HasResult'
  BY <1>1, <1>2 DEF IInv, HasResult
<1>6. AccountInv'
  BY <1>1, <1>2 DEF IInv, AccountInv, AccountUnchanged, ReadIsSound, OverdraftBounded,
                    ExactUnlessRaced, NeverOvercharged, Ledger
<1> QED
  BY <1>4, <1>5, <1>6 DEF IInv

\* The controller's result.
LEMMA InvokeKeeps ==
  ASSUME IInv, NEW r \in Requests, Invoke(r)
  PROVE  IInv'
<1>1. PICK x \in Results : result' = [result EXCEPT ![r] = x]
  BY DEF Invoke
<1>2. TypeOK' /\ HasResult'
  BY <1>1 DEF IInv, TypeOK, HasResult, Invoke, Goto, AccountUnchanged, PcValues
<1>3. AccountInv'
  BY DEF IInv, TypeOK, Invoke, Goto, AccountInv, AccountUnchanged, ReadIsSound,
         OverdraftBounded, ExactUnlessRaced, NeverOvercharged, Ledger
<1> QED
  BY <1>2, <1>3 DEF IInv

\* An exception ends a request without touching the account.
LEMMA FailKeeps ==
  ASSUME IInv, NEW r \in Requests, Fail(r)
  PROVE  IInv'
<1>1. TypeOK'
  BY DEF IInv, TypeOK, Fail, Goto, PcValues
<1>2. HasResult'
  BY DEF IInv, TypeOK, HasResult, Fail, Goto
<1>3. AccountInv'
  BY DEF IInv, TypeOK, Fail, Goto, AccountInv, ReadIsSound, OverdraftBounded,
         ExactUnlessRaced, NeverOvercharged, Ledger
<1> QED
  BY <1>1, <1>2, <1>3 DEF IInv

\* What is read is positive and is the balance.
LEMMA ReadMoneyKeeps ==
  ASSUME IInv, NEW r \in Requests, ReadMoney(r)
  PROVE  IInv'
<1>1. CASE money <= 0
  <2>1. /\ NextService(r, "post", "respond")
        /\ UNCHANGED <<services, kind, result, got, sent>> /\ AccountUnchanged
    BY <1>1 DEF ReadMoney
  <2>2. /\ pc' \in [Requests -> PcValues]
        /\ step' \in [Requests -> 1..3]
        /\ \A q \in Requests : q # r => pc'[q] = pc[q]
        /\ pc'[r] \in {"post", "respond"}
    BY <2>1, NextServiceType DEF IInv, PcValues
  <2>3. TypeOK' /\ HasResult'
    BY <2>1, <2>2 DEF IInv, TypeOK, HasResult, AccountUnchanged, ReadMoney
  <2>4. AccountInv'
    BY <2>1, <2>2 DEF IInv, AccountInv, AccountUnchanged, ReadIsSound, OverdraftBounded,
                      ExactUnlessRaced, NeverOvercharged, Ledger
  <2> QED
    BY <2>3, <2>4 DEF IInv
<1>2. CASE money > 0
  <2>1. /\ got' = [got EXCEPT ![r] = money] /\ pc' = [pc EXCEPT ![r] = "write"]
        /\ UNCHANGED <<services, kind, step, result, sent>> /\ AccountUnchanged
    BY <1>2 DEF ReadMoney, Goto, IInv, TypeOK
  <2>2. TypeOK' /\ HasResult'
    BY <2>1 DEF IInv, TypeOK, HasResult, AccountUnchanged, PcValues, ReadMoney
  <2>3. ReadIsSound'
    BY <2>1, <1>2 DEF IInv, TypeOK, AccountInv, AccountUnchanged, ReadIsSound, NeverOvercharged, Ledger
  <2>4. (OverdraftBounded /\ ExactUnlessRaced /\ NeverOvercharged)'
    BY <2>1 DEF IInv, AccountInv, AccountUnchanged, OverdraftBounded, ExactUnlessRaced,
                NeverOvercharged, Ledger
  <2> QED
    BY <2>2, <2>3, <2>4 DEF IInv, AccountInv
<1> QED
  BY <1>1, <1>2 DEF IInv, TypeOK

\* What is written is at most one cost below what was read, and accounts
\* for every change the request knows of.
LEMMA WriteMoneyKeeps ==
  ASSUME IInv, NEW r \in Requests, WriteMoney(r)
  PROVE  IInv'
<1> DEFINE cost == CalculateIncOrDec(result[r])
<1>1. cost \in 0..MaxCost
  BY CostsAreBounded DEF IInv, HasResult, WriteMoney
<1> HIDE DEF cost
<1>2. /\ money' = got[r] - cost /\ charged' = charged + cost
      /\ raced' = raced \cup stale[r]
      /\ stale' = [Stale("charge") EXCEPT ![r] = {}]
      /\ got' = [got EXCEPT ![r] = 0]
      /\ NextService(r, "post", "respond")
      /\ UNCHANGED <<services, kind, result, sent, credited>>
      /\ pc[r] = "write"
  BY DEF WriteMoney, Debit, cost
<1>3. /\ pc' \in [Requests -> PcValues]
      /\ step' \in [Requests -> 1..3]
      /\ \A q \in Requests : q # r => pc'[q] = pc[q]
      /\ pc'[r] \in {"post", "respond"}
  BY <1>2, NextServiceType DEF IInv, PcValues
<1>4. /\ stale' \in [Requests -> SUBSET Changes]
      /\ \A q \in Requests \ {r} :
           /\ stale[q] \subseteq stale'[q]
           /\ pc[q] = "write" /\ money' # money => "charge" \in stale'[q]
  BY <1>2, StaleType DEF IInv, Changes
<1>5. TypeOK'
  <2>1. got' \in [Requests -> Int] /\ money' \in Int /\ charged' \in Nat
    BY <1>1, <1>2 DEF IInv, TypeOK
  <2>2. raced' \in SUBSET Changes
    BY <1>2 DEF IInv, TypeOK
  <2> QED
    BY <1>2, <1>3, <1>4, <2>1, <2>2, Zenon DEF IInv, TypeOK
<1>6. HasResult'
  BY <1>2, <1>3 DEF IInv, HasResult
<1>7. got[r] > 0 /\ (stale[r] = {} => got[r] = money)
      /\ ("credit" \notin stale[r] \cup raced => got[r] >= Ledger)
  BY <1>2 DEF IInv, AccountInv, ReadIsSound
<1>8. /\ got[r] \in Int /\ money \in Int /\ charged \in Nat /\ credited \in Nat
      /\ Ledger \in Int /\ Ledger' = Ledger - cost
  BY <1>1, <1>2, MoneyIsNatural DEF IInv, TypeOK, Ledger
<1>9. OverdraftBounded'
  BY <1>1, <1>2, <1>7, <1>8, MoneyIsNatural DEF OverdraftBounded
<1>10. ExactUnlessRaced'
  BY <1>1, <1>2, <1>7, <1>8 DEF IInv, AccountInv, ExactUnlessRaced
<1>11. NeverOvercharged'
  BY <1>1, <1>2, <1>7, <1>8 DEF IInv, AccountInv, NeverOvercharged
<1>12. ReadIsSound'
  <2>1. SUFFICES ASSUME NEW q \in Requests, pc'[q] = "write"
                 PROVE  /\ got'[q] > 0
                        /\ stale'[q] = {} => got'[q] = money'
                        /\ "credit" \notin stale'[q] \cup raced' => got'[q] >= Ledger'
    BY DEF ReadIsSound
  <2>2. q # r /\ pc[q] = "write" /\ got'[q] = got[q] /\ got[q] \in Int
    BY <2>1, <1>2, <1>3 DEF IInv, TypeOK
  <2>3. /\ got[q] > 0
        /\ stale[q] = {} => got[q] = money
        /\ "credit" \notin stale[q] \cup raced => got[q] >= Ledger
    BY <2>2 DEF IInv, AccountInv, ReadIsSound
  <2>4. stale'[q] = {} => got'[q] = money'
    BY <1>4, <2>2, <2>3
  <2>5. "credit" \notin stale'[q] \cup raced' => got'[q] >= Ledger'
    BY <1>1, <1>2, <1>4, <1>8, <2>2, <2>3
  <2> QED
    BY <2>2, <2>3, <2>4, <2>5
<1> QED
  BY <1>5, <1>6, <1>9, <1>10, <1>11, <1>12 DEF IInv, AccountInv

\* A credit raises the balance and the ledger by the same amount, and marks
\* whoever is about to write the balance.
LEMMA CreditKeeps ==
  ASSUME IInv, NEW amount \in 1..MaxCredit, Credit(amount)
  PROVE  IInv'
<1>1. /\ money' = money + amount /\ credited' = credited + amount
      /\ stale' = Stale("credit") /\ amount \in Nat /\ amount > 0
      /\ UNCHANGED <<services, pc, kind, step, result, got, sent, raced, charged>>
  BY MoneyIsNatural DEF Credit
<1>2. /\ stale' \in [Requests -> SUBSET Changes]
      /\ \A q \in Requests :
           pc[q] = "write" /\ money' # money => "credit" \in stale'[q]
  BY <1>1, StaleType DEF IInv, Changes
<1>3. money' # money /\ money \in Int /\ Ledger \in Int /\ Ledger' = Ledger + amount
  BY <1>1, MoneyIsNatural DEF IInv, TypeOK, Ledger
<1>4. TypeOK' /\ HasResult'
  BY <1>1, <1>2 DEF IInv, TypeOK, HasResult
<1>5. ReadIsSound'
  BY <1>1, <1>2, <1>3 DEF IInv, AccountInv, ReadIsSound
<1>6. (OverdraftBounded /\ ExactUnlessRaced /\ NeverOvercharged)'
  BY <1>1, <1>3, MoneyIsNatural DEF IInv, AccountInv, OverdraftBounded, ExactUnlessRaced, NeverOvercharged
<1> QED
  BY <1>4, <1>5, <1>6 DEF IInv, AccountInv

LEMMA StepKeeps == IInv /\ [Next]_vars => IInv'
<1>1. SUFFICES ASSUME IInv, [Next]_vars PROVE IInv'
  OBVIOUS
<1>2. CASE UNCHANGED vars
  BY <1>1, <1>2 DEF vars, IInv, TypeOK, HasResult, AccountInv, ReadIsSound, OverdraftBounded,
                    ExactUnlessRaced, NeverOvercharged, Ledger
<1>3. CASE \E r \in Requests : Step(r)
  <2>1. PICK r \in Requests : Step(r)
    BY <1>3
  <2>2. Quiet(r) \/ Invoke(r) \/ Fail(r) \/ ReadMoney(r) \/ WriteMoney(r)
    BY <2>1 DEF Step, Quiet
  <2> QED
    BY <1>1, <2>2, QuietKeeps, InvokeKeeps, FailKeeps, ReadMoneyKeeps, WriteMoneyKeeps
<1>4. CASE \E amount \in 1..MaxCredit : Credit(amount)
  BY <1>1, <1>4, CreditKeeps
<1> QED
  BY <1>1, <1>2, <1>3, <1>4 DEF Next, Done

\* The inductive invariant holds in every behaviour.
THEOREM InductiveInvariant == Spec => []IInv
  BY InitHolds, StepKeeps, PTL DEF Spec

\* Every state is of its type.
THEOREM Typing == Spec => []TypeOK
<1>1. IInv => TypeOK
  BY DEF IInv
<1> QED
  BY InductiveInvariant, <1>1, PTL

\* The account's debt never reaches the most that one result costs.
THEOREM DebtIsBounded == Spec => []OverdraftBounded
<1>1. IInv => OverdraftBounded
  BY DEF IInv, AccountInv
<1> QED
  BY InductiveInvariant, <1>1, PTL

\* Without races the balance is the ledger's.
THEOREM BalanceIsExact == Spec => []ExactUnlessRaced
<1>1. IInv => ExactUnlessRaced
  BY DEF IInv, AccountInv
<1> QED
  BY InductiveInvariant, <1>1, PTL

\* Racing requests never charge too much.
THEOREM ChargesAreFair == Spec => []NeverOvercharged
<1>1. IInv => NeverOvercharged
  BY DEF IInv, AccountInv
<1> QED
  BY InductiveInvariant, <1>1, PTL

------------------------------------------------------------------------------
(***************************************************************************)
(* The log: resultMQ is one of the services, and behind a request that is  *)
(* past its place in the list there is a message, also while charging has  *)
(* suspended the loop between its read and its write.                      *)
(***************************************************************************)
LogInv ==
  /\ \A x \in Services : \E i \in 1..3 : services[i] = x
  /\ \A r \in Requests :
       /\ pc[r] = "invoke" => step[r] = 1
       /\ pc[r] = "write" => services[step[r]] = "charging"
       /\ pc[r] \in {"post", "write"} =>
            \A i \in 1..3 : i < step[r] /\ services[i] = "resultMQ" => r \in sent
       /\ pc[r] \in {"respond", "delivered"} => r \in sent

\* The end of a service's turn, when it was not resultMQ's or has sent.
LEMMA TurnIsLogged ==
  ASSUME TypeOK, LogInv, NEW r \in Requests, pc[r] \in {"post", "write"},
         NextService(r, "post", "respond"), UNCHANGED services,
         sent \subseteq sent', Service(r) = "resultMQ" => r \in sent'
  PROVE  LogInv'
<1>1. /\ pc' \in [Requests -> PcValues]
      /\ \A q \in Requests : q # r => pc'[q] = pc[q]
      /\ pc'[r] \in {"post", "respond"}
  BY NextServiceType DEF PcValues
<1>2. \A q \in Requests : q # r => step'[q] = step[q]
  BY DEF NextService, TypeOK
<1>3. \A i \in 1..3 : i <= step[r] /\ services[i] = "resultMQ" => r \in sent'
  BY DEF LogInv, TypeOK, Service
<1>4. CASE step[r] < 3
  <2>1. step'[r] = step[r] + 1 /\ pc'[r] = "post"
    BY <1>4 DEF NextService, TypeOK, Goto
  <2> QED
    BY <1>1, <1>2, <1>3, <2>1 DEF LogInv, TypeOK
<1>5. CASE step[r] = 3
  <2>1. pc'[r] = "respond"
    BY <1>5 DEF NextService, TypeOK, Goto
  <2>2. PICK i \in 1..3 : services[i] = "resultMQ"
    BY DEF LogInv, Services
  <2>3. r \in sent'
    BY <1>3, <1>5, <2>2
  <2> QED
    BY <1>1, <1>2, <2>1, <2>3 DEF LogInv, TypeOK
<1> QED
  BY <1>4, <1>5 DEF TypeOK

LEMMA LogKeeps == TypeOK /\ LogInv /\ [Next]_vars => LogInv'
<1>1. SUFFICES ASSUME TypeOK, LogInv, [Next]_vars PROVE LogInv'
  OBVIOUS
<1>2. CASE UNCHANGED vars
  BY <1>1, <1>2 DEF vars, LogInv
<1>3. ASSUME NEW r \in Requests, Step(r) PROVE LogInv'
  <2>1. CASE Arrive(r) \/ PreRefuses(r) \/ Invoke(r) \/ Fail(r) \/ WriteResponse(r)
    BY <1>1, <2>1 DEF TypeOK, LogInv, Arrive, PreRefuses, Invoke, Fail, WriteResponse, Goto
  <2>2. CASE PrePasses(r)
    <3>1. /\ \A q \in Requests : q # r => pc'[q] = pc[q] /\ step'[q] = step[q]
          /\ pc'[r] = "pre" \/ (pc'[r] = "invoke" /\ step'[r] = 1)
          /\ UNCHANGED <<services, sent>>
      BY <1>1, <2>2 DEF PrePasses, NextService, Goto, TypeOK
    <3> QED
      BY <1>1, <3>1 DEF LogInv
  <2>3. CASE PostSkips(r) \/ SendMessage(r)
    BY <1>1, <2>3, TurnIsLogged DEF PostSkips, SendMessage
  <2>4. CASE WriteMoney(r)
    <3>1. Service(r) # "resultMQ"
      BY <1>1, <2>4 DEF LogInv, WriteMoney, Service
    <3> QED
      BY <1>1, <2>4, <3>1, TurnIsLogged DEF WriteMoney
  <2>5. CASE ReadMoney(r) /\ money <= 0
    BY <1>1, <2>5, TurnIsLogged DEF ReadMoney, AccountUnchanged
  <2>6. CASE ReadMoney(r) /\ ~(money <= 0)
    BY <1>1, <2>6 DEF TypeOK, LogInv, ReadMoney, Service, Goto
  <2> QED
    BY <1>3, <2>1, <2>2, <2>3, <2>4, <2>5, <2>6 DEF Step
<1>4. CASE \E amount \in 1..MaxCredit : Credit(amount)
  BY <1>1, <1>4 DEF Credit, LogInv
<1> QED
  BY <1>1, <1>2, <1>3, <1>4 DEF Next, Done, vars

\* Every delivered result is in the message queue's log, in any order of the
\* services.
THEOREM DeliveryIsLogged == Spec => []DeliveredIsLogged
<1>1. Init => LogInv
  BY DEF Init, LogInv
<1>2. LogInv => DeliveredIsLogged
  BY DEF LogInv, DeliveredIsLogged
<1> QED
  BY Typing, LogKeeps, <1>1, <1>2, PTL DEF Spec
==============================================================================
