--------------------------- MODULE RequestCharging ---------------------------
(***************************************************************************)
(* devplat-auth: UrlHandlerAdapter.handle runs every request through the   *)
(* IRequestService beans (ChargingServiceImpl, ResultMQServiceImpl and     *)
(* SensitiveWordServiceImpl): each one's preHandle, then the controller,   *)
(* then each one's postHandle.  Charging reads the account's               *)
(* remainingMoney, and later writes it back less the cost of the result,   *)
(* in a statement of its own; requests of one account run concurrently.    *)
(***************************************************************************)
EXTENDS Integers, Sequences, FiniteSets

CONSTANTS
  Requests,         \* requests of one account, each served once
  Results,          \* what controllers return: [code, rows]
  Chargings,        \* the resource's List<ResourceCharging>: [code, type, cost]
  InitialMoney,     \* the account's remainingMoney
  MaxCost,          \* the most one result costs
  MaxCredit,        \* bound: how much the operators top the account up by
  None              \* Java null

Services == {"charging", "resultMQ", "sensitiveWord"}
Kinds == {"billed",   \* an interface or API resource: it is charged
          "open",     \* no resource, or the /app prefix: it is free
          "unknown"}  \* an /ext path that is no resource, or no account

\* resultCode == code compares two Integer objects: equal ones are the same
\* object only where the JVM caches them.
SameInteger(a, b) == a = b /\ a \in -128..127

\* parseResultPrice() and calculateIncOrDec(): the first entry for the code.
CalculateIncOrDec(result) ==
  LET matching == {i \in 1..Len(Chargings) :
                     SameInteger(result.code, Chargings[i].code)}
      price == Chargings[CHOOSE i \in matching : \A j \in matching : i <= j]
  IN CASE matching = {} -> 0
       [] matching # {} /\ price.type = "RESULT_COUNT" -> result.rows * price.cost
       [] matching # {} /\ price.type = "QUERY_TIMES"  -> price.cost
       [] OTHER -> 0

ASSUME MoneyIsNatural ==
  InitialMoney \in Nat /\ MaxCredit \in Nat /\ MaxCost \in Nat \ {0}
ASSUME CostsAreBounded == \A x \in Results : CalculateIncOrDec(x) \in 0..MaxCost
ASSUME NoneIsNoResult == None \notin Results

VARIABLES
  services,         \* requestServiceList
  money,            \* the remainingMoney attribute in the database
  pc,               \* where each request is
  kind,             \* of each request
  step,             \* the index in requestServiceList a request is at
  result,           \* what its controller returned
  got,              \* the remainingMoney its postHandle has read
  sent,             \* the requests resultMQ has put a message in the queue for
  stale,            \* history: what changed money since a request read it
  raced,            \* history: changes of money that a write has undone
  charged,          \* history: the cost of all that was paid
  credited          \* history: what the operators have added

vars == <<services, money, pc, kind, step, result, got, sent, stale,
          raced, charged, credited>>

PcValues == {"arrived", "pre", "invoke", "post", "write", "respond",
             "delivered", "failed"}
Changes == {"charge", "credit"}

TypeOK ==
  /\ services \in [1..3 -> Services]
  /\ money \in Int
  /\ pc \in [Requests -> PcValues]
  /\ kind \in [Requests -> Kinds]
  /\ step \in [Requests -> 1..3]
  /\ result \in [Requests -> Results \cup {None}]
  /\ got \in [Requests -> Int]
  /\ sent \in SUBSET Requests
  /\ stale \in [Requests -> SUBSET Changes]
  /\ raced \in SUBSET Changes
  /\ charged \in Nat
  /\ credited \in Nat

\* afterPropertiesSet() collects the beans in the order the context gives.
Init ==
  /\ services \in {s \in [1..3 -> Services] : \A x \in Services : \E i \in 1..3 : s[i] = x}
  /\ money = InitialMoney
  /\ pc = [r \in Requests |-> "arrived"]
  /\ kind \in [Requests -> Kinds]
  /\ step = [r \in Requests |-> 1]
  /\ result = [r \in Requests |-> None]
  /\ got = [r \in Requests |-> 0]
  /\ sent = {}
  /\ stale = [r \in Requests |-> {}]
  /\ raced = {}
  /\ charged = 0
  /\ credited = 0

Service(r) == services[step[r]]
Goto(r, where) == pc' = [pc EXCEPT ![r] = where]
AccountUnchanged == UNCHANGED <<money, stale, raced, charged, credited>>

\* Mutant: An index one past the list.
NextServiceTooFar(r, loop, next) ==
  IF step[r] <= 3
    THEN step' = [step EXCEPT ![r] = @ + 1] /\ Goto(r, loop)
    ELSE step' = [step EXCEPT ![r] = 1] /\ Goto(r, next)

\* A loop over requestServiceList goes on, or is followed by what is next.
NextService(r, loop, next) ==
  IF step[r] < 3
    THEN step' = [step EXCEPT ![r] = @ + 1] /\ Goto(r, loop)
    ELSE step' = [step EXCEPT ![r] = 1] /\ Goto(r, next)

------------------------------------------------------------------------------
Arrive(r) ==
  /\ pc[r] = "arrived"
  /\ Goto(r, "pre")
  /\ AccountUnchanged
  /\ UNCHANGED <<services, kind, step, result, got, sent>>

\* A preHandle returns true: charging needs a balance for a billed request.
PrePasses(r) ==
  /\ pc[r] = "pre"
  /\ Service(r) = "charging" =>
       kind[r] = "open" \/ (kind[r] = "billed" /\ money > 0)
  /\ NextService(r, "pre", "invoke")
  /\ AccountUnchanged
  /\ UNCHANGED <<services, kind, result, got, sent>>

\* It returns false with a BusinessException, or what it reads with fails:
\* the answer is a failure.
PreRefuses(r) ==
  /\ pc[r] = "pre"
  /\ Service(r) # "resultMQ"
  /\ Goto(r, "failed")
  /\ AccountUnchanged
  /\ UNCHANGED <<services, kind, step, result, got, sent>>

\* The controller's method, whose own exceptions become a WebResult too.
Invoke(r) ==
  /\ pc[r] = "invoke"
  /\ \E x \in Results : result' = [result EXCEPT ![r] = x]
  /\ Goto(r, "post")
  /\ AccountUnchanged
  /\ UNCHANGED <<services, kind, step, got, sent>>

------------------------------------------------------------------------------
\* A postHandle that has nothing to do, or gives up and returns false, which
\* handle() ignores: charging for a request that is not billed, when the
\* session's user has gone, or when the price list cannot be read.
PostSkips(r) ==
  /\ pc[r] = "post" /\ Service(r) # "resultMQ"
  /\ NextService(r, "post", "respond")
  /\ AccountUnchanged
  /\ UNCHANGED <<services, kind, result, got, sent>>

\* Mutant: As charging does, only for a resource.
SendMessageIfBilled(r) ==
  /\ pc[r] = "post" /\ Service(r) = "resultMQ"
  /\ sent' = IF kind[r] = "billed" THEN sent \cup {r} ELSE sent
  /\ NextService(r, "post", "respond")
  /\ AccountUnchanged
  /\ UNCHANGED <<services, kind, result, got>>

\* resultMQ sends the request and its result to the message queue.
SendMessage(r) ==
  /\ pc[r] = "post" /\ Service(r) = "resultMQ"
  /\ sent' = sent \cup {r}
  /\ NextService(r, "post", "respond")
  /\ AccountUnchanged
  /\ UNCHANGED <<services, kind, result, got>>

\* Mutant: No second look at the balance.
ReadMoneyUnchecked(r) ==
  /\ pc[r] = "post" /\ Service(r) = "charging" /\ kind[r] = "billed"
  /\ got' = [got EXCEPT ![r] = money]
  /\ Goto(r, "write")
  /\ AccountUnchanged
  /\ UNCHANGED <<services, kind, step, result, sent>>

\* Mutant: What is read is already less the cost.
ReadMoneyDebited(r) ==
  /\ pc[r] = "post" /\ Service(r) = "charging" /\ kind[r] = "billed"
  /\ IF money <= 0
       THEN NextService(r, "post", "respond") /\ UNCHANGED got
       ELSE /\ got' = [got EXCEPT ![r] = money - CalculateIncOrDec(result[r])]
            /\ Goto(r, "write") /\ UNCHANGED step
  /\ AccountUnchanged
  /\ UNCHANGED <<services, kind, result, sent>>

\* charging reads remainingMoney; with none left it returns false as well.
ReadMoney(r) ==
  /\ pc[r] = "post" /\ Service(r) = "charging" /\ kind[r] = "billed"
  /\ IF money <= 0
       THEN NextService(r, "post", "respond") /\ UNCHANGED got
       ELSE /\ got' = [got EXCEPT ![r] = money]
            /\ Goto(r, "write") /\ UNCHANGED step
  /\ AccountUnchanged
  /\ UNCHANGED <<services, kind, result, sent>>

\* The balance has changed: what others have read to write it back is stale.
Stale(change) ==
  [q \in Requests |-> IF pc[q] = "write" /\ money' # money
                         THEN stale[q] \cup {change} ELSE stale[q]]

\* Mutant: The balance is not let below zero.
DebitToZero(r) ==
  LET rest == got[r] - CalculateIncOrDec(result[r])
  IN IF rest < 0 THEN 0 ELSE rest

\* remainingMoney - incOrDec.
Debit(r) == got[r] - CalculateIncOrDec(result[r])

\* updateRemainingMoneyByUserId(): the whole attribute is overwritten.
WriteMoney(r) ==
  /\ pc[r] = "write"
  /\ money' = Debit(r)
  /\ charged' = charged + CalculateIncOrDec(result[r])
  /\ raced' = raced \cup stale[r]
  /\ stale' = [Stale("charge") EXCEPT ![r] = {}]
  /\ got' = [got EXCEPT ![r] = 0]
  /\ NextService(r, "post", "respond")
  /\ UNCHANGED <<services, kind, result, sent, credited>>

\* An exception of a postHandle or of writeResponse(): a failed rpush of
\* resultMQ, a failed query or update of charging, a user with no balance.
Fail(r) ==
  /\ pc[r] \in {"invoke", "post", "write", "respond"}
  /\ Goto(r, "failed")
  /\ got' = [got EXCEPT ![r] = 0]
  /\ stale' = [stale EXCEPT ![r] = {}]
  /\ UNCHANGED <<services, money, kind, step, result, sent, raced,
                 charged, credited>>

WriteResponse(r) ==
  /\ pc[r] = "respond"
  /\ Goto(r, "delivered")
  /\ AccountUnchanged
  /\ UNCHANGED <<services, kind, step, result, got, sent>>

\* The operators' console, another program, adds to the balance.
Credit(amount) ==
  /\ credited + amount <= MaxCredit
  /\ credited' = credited + amount
  /\ money' = money + amount
  /\ stale' = Stale("credit")
  /\ UNCHANGED <<services, pc, kind, step, result, got, sent, raced,
                 charged>>

Done ==
  /\ \A r \in Requests : pc[r] \in {"delivered", "failed"}
  /\ UNCHANGED vars

Step(r) ==
  \/ Arrive(r) \/ PrePasses(r) \/ PreRefuses(r) \/ Invoke(r)
  \/ PostSkips(r) \/ SendMessage(r) \/ ReadMoney(r) \/ WriteMoney(r)
  \/ Fail(r) \/ WriteResponse(r)

Next ==
  \/ \E r \in Requests : Step(r)
  \/ \E amount \in 1..MaxCredit : Credit(amount)
  \/ Done

Spec == Init /\ [][Next]_vars

------------------------------------------------------------------------------
Ledger == InitialMoney + credited - charged

\* The second look at the balance, in postHandle, bounds the debt: however
\* many requests were let in on the same money, the account never goes
\* further below zero than one result costs.
OverdraftBounded == money > -MaxCost

\* The balance is exactly what the ledger says, as long as no request wrote
\* a balance that had changed since it read it.
ExactUnlessRaced == raced = {} => money = Ledger

\* Requests that race each other only ever lose charges: as long as none of
\* them undoes a credit, the account is never charged too much.
NeverOvercharged == "credit" \notin raced => money >= Ledger

\* The queue has a message for every result that was delivered, whatever the
\* order of the services.
DeliveredIsLogged ==
  \A r \in Requests : pc[r] \in {"respond", "delivered"} => r \in sent

\* Every charge that was made is still in the balance.
ChargesAreKept == money = Ledger
==============================================================================
