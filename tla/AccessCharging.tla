--------------------------- MODULE AccessCharging ---------------------------
(***************************************************************************)
(* devplat-auth-shiro: the two ways one account is charged by.  The count  *)
(* service (CountChargingServiceImpl.charge) reads remainingCount, lets    *)
(* the query run and writes the count it read less the rows it returned.   *)
(* The money service (MoneyChargingServiceImpl.charge, as an aspect or     *)
(* from UrlHandlerAdapter for /ext requests) lets the query run and has    *)
(* the database subtract its price.                                        *)
(***************************************************************************)
EXTENDS Integers, FiniteSets

CONSTANTS
  Workers,          \* threads that serve requests of one account
  InitialCount,     \* REMAINING_COUNT
  InitialMoney,     \* REMAINING_MONEY
  MaxRows,          \* the most rows one query returns
  MaxCost,          \* the most one query is priced at
  MaxTaken          \* bound: rows charged for in a behaviour

ASSUME AmountsAreNatural ==
  /\ InitialCount \in Nat /\ InitialMoney \in Nat /\ MaxTaken \in Nat
  /\ MaxRows \in Nat \ {0} /\ MaxCost \in Nat \ {0}
ASSUME WorkersAreFinite == IsFiniteSet(Workers) /\ Workers # {}

VARIABLES
  count,            \* REMAINING_COUNT in T_ACCESS_USER_CONTROL
  money,            \* REMAINING_MONEY
  pc,               \* where each worker is
  got,              \* the remainingCount a worker has read
  cost,             \* incOrDec: what a worker's result is priced at
  taken             \* history: the rows that were charged for

vars == <<count, money, pc, got, cost, taken>>

PcValues == {"idle", "counting", "querying", "charging", "writing"}

TypeOK ==
  /\ count \in Int
  /\ money \in Int
  /\ pc \in [Workers -> PcValues]
  /\ got \in [Workers -> Int]
  /\ cost \in [Workers -> 0..MaxCost]
  /\ taken \in Nat

Init ==
  /\ count = InitialCount
  /\ money = InitialMoney
  /\ pc = [w \in Workers |-> "idle"]
  /\ got = [w \in Workers |-> 0]
  /\ cost = [w \in Workers |-> 0]
  /\ taken = 0

Move(w, from, to) == pc[w] = from /\ pc' = [pc EXCEPT ![w] = to]

------------------------------------------------------------------------------
\* A call that finds nothing left ends with an exception or a failure.
Refuse(w) ==
  /\ pc[w] = "idle"
  /\ count <= 0 \/ money <= 0
  /\ UNCHANGED vars

CountStart(w) ==
  /\ Move(w, "idle", "counting")
  /\ count > 0
  /\ got' = [got EXCEPT ![w] = count]
  /\ UNCHANGED <<count, money, cost, taken>>

\* Mutant: Only an empty account is refused.
EnoughLeft(w, rows) == got[w] > 0

\* updateRemainingCount() refuses to go below zero; the caller's exception
\* then takes the result away, as one of the query itself would.
Enough(w, rows) == got[w] - rows >= 0

\* Mutant: The size of the page is charged, not the rows on it.
CountFinishPage(w) ==
  /\ Move(w, "counting", "idle")
  /\ \E rows \in 0..MaxRows :
       /\ Enough(w, rows)
       /\ taken + rows <= MaxTaken
       /\ count' = got[w] - MaxRows
       /\ taken' = taken + rows
  /\ got' = [got EXCEPT ![w] = 0]
  /\ UNCHANGED <<money, cost>>

\* The rows the query returned are taken from the count read before it.
CountFinish(w) ==
  /\ Move(w, "counting", "idle")
  /\ \E rows \in 0..MaxRows :
       /\ Enough(w, rows)
       /\ taken + rows <= MaxTaken
       /\ count' = got[w] - rows
       /\ taken' = taken + rows
  /\ got' = [got EXCEPT ![w] = 0]
  /\ UNCHANGED <<money, cost>>

CountFails(w) ==
  /\ Move(w, "counting", "idle")
  /\ got' = [got EXCEPT ![w] = 0]
  /\ UNCHANGED <<count, money, cost, taken>>

------------------------------------------------------------------------------
\* Mutant: The balance is not looked at.
MoneyStartUnchecked(w) ==
  /\ Move(w, "idle", "querying")
  /\ UNCHANGED <<count, money, got, cost, taken>>

MoneyStart(w) ==
  /\ Move(w, "idle", "querying")
  /\ money > 0
  /\ UNCHANGED <<count, money, got, cost, taken>>

\* Mutant: One row too many.
PriceOneMore(w) ==
  /\ Move(w, "querying", "charging")
  /\ \E c \in 1..MaxCost + 1 : cost' = [cost EXCEPT ![w] = c]
  /\ UNCHANGED <<count, money, got, taken>>

\* parseReturnResultMoney(): nothing for an interface that is not charged, a
\* failure or an unlisted code, else the price times the rows.
Price(w) ==
  /\ Move(w, "querying", "charging")
  /\ \E c \in 0..MaxCost : cost' = [cost EXCEPT ![w] = c]
  /\ UNCHANGED <<count, money, got, taken>>

\* Mutant: An update that was slow is sent again.
ChargeTwice(w) ==
  /\ Move(w, "charging", "writing")
  /\ money' = money - 2 * cost[w]
  /\ cost' = [cost EXCEPT ![w] = 0]
  /\ UNCHANGED <<count, got, taken>>

\* updateRemainingMoneyIncOrDec: REMAINING_MONEY = REMAINING_MONEY - incOrDec
\* in one statement.
Charge(w) ==
  /\ Move(w, "charging", "writing")
  /\ money' = money - cost[w]
  /\ cost' = [cost EXCEPT ![w] = 0]
  /\ UNCHANGED <<count, got, taken>>

\* The charged result is returned or written; writing it may fail.
Respond(w) ==
  /\ Move(w, "writing", "idle")
  /\ UNCHANGED <<count, money, got, cost, taken>>

\* The query, the price list or the update throws: no charge, no result.
MoneyFails(w) ==
  /\ Move(w, "querying", "idle") \/ Move(w, "charging", "idle")
  /\ cost' = [cost EXCEPT ![w] = 0]
  /\ UNCHANGED <<count, money, got, taken>>

Next ==
  \E w \in Workers :
    \/ Refuse(w) \/ CountStart(w) \/ CountFinish(w) \/ CountFails(w)
    \/ MoneyStart(w) \/ Price(w) \/ Charge(w) \/ Respond(w) \/ MoneyFails(w)

Spec == Init /\ [][Next]_vars

------------------------------------------------------------------------------
\* However many workers write counts they have read long before, the count
\* never becomes negative.
CountNeverNegative == count >= 0

\* They only ever lose charges: the count never falls by more than the rows
\* that were delivered.
CountNeverOvercharged == count >= InitialCount - taken

\* The balance is looked at before the query only, so every worker may take
\* it below zero by one price, and no more.
DebtIsPerWorker == money > -(MaxCost * Cardinality(Workers))

\* The money service is a prepaid account: a price is taken from the balance
\* of the moment, in full and once, whatever other workers do meanwhile.
Account ==
  INSTANCE PrepaidAccount
    WITH Users <- Workers, balance <- money, bill <- cost,
         stage <- [w \in Workers |->
                     CASE pc[w] = "querying" -> "admitted"
                       [] pc[w] = "charging" -> "billed"
                       [] OTHER -> "out"]

IsPrepaidAccount == Account!Spec
==============================================================================
