---------------------------- MODULE ConnectionPool ----------------------------
(***************************************************************************)
(* org.cisiondata.utils.jdbc.ConnectionPool and WrapperConnection: a       *)
(* Vector of wrappers, each with a JDBC connection and a busy flag.        *)
(* getConnection, refreshConnections, closeConnectionPool and createPool   *)
(* hold the pool's monitor, and hold it while they wait: wait(int) is the  *)
(* class's own method and sleeps.  returnConnection takes no monitor, so   *)
(* its steps fall between those of all the others.                         *)
(***************************************************************************)
EXTENDS Integers, Sequences, Functions

CONSTANTS
  Threads,          \* users of the pool
  Maintainers,      \* the threads that also refresh, close and create it
  Wrappers,         \* bound: the WrapperConnection objects there will be
  Conns,            \* bound: the connections DriverManager will open
  InitialSize,      \* initialConnections
  Increment,        \* incrementalConnections
  MaxSize,          \* maxConnections as configured: 0 or less is no limit
  DriverMax,        \* metaData.getMaxConnections(), 0 if not known
  None              \* Java null

ASSUME SizesAreIntegers ==
  /\ InitialSize \in Nat /\ Increment \in Nat /\ MaxSize \in Int
  /\ DriverMax \in Nat
ASSUME MaintainersAreThreads == Maintainers \subseteq Threads
ASSUME NoneIsNothing == None \notin Wrappers \cup Conns \cup Threads \cup Seq(Wrappers)

VARIABLES
  pool,             \* connectionPool: the Vector, or None
  maxConnections,   \* the field, which newConnection may lower
  conn,             \* of each wrapper, None before it is made
  busy,             \* of each wrapper
  status,           \* of each connection
  monitor,          \* the thread in a synchronized method, or None
  pc,               \* where each thread is
  slot,             \* the wrapper a thread works on (pConn)
  held,             \* the connection getConnection returned to a thread
  count,            \* a thread's loop counter or Enumeration count
  stolen            \* history: refresh or close took a busy connection

vars == <<pool, maxConnections, conn, busy, status, monitor, pc, slot, held,
          count, stolen>>

PcValues ==
  {"idle", "find", "grow", "refind", "wait", "test", "using",
   "match", "clear", "refresh", "refreshSlept", "create",
   "close", "closeSlept"}
Statuses == {"new", "open", "broken", "closed"}

TypeOK ==
  /\ pool \in Seq(Wrappers) \cup {None}
  /\ maxConnections \in Int
  /\ conn \in [Wrappers -> Conns \cup {None}]
  /\ busy \in [Wrappers -> BOOLEAN]
  /\ status \in [Conns -> Statuses]
  /\ monitor \in Threads \cup {None}
  /\ pc \in [Threads -> PcValues]
  /\ slot \in [Threads -> Wrappers \cup {None}]
  /\ held \in [Threads -> Conns \cup {None}]
  /\ count \in [Threads -> Nat]
  /\ stolen \in BOOLEAN

Init ==
  /\ pool = None
  /\ maxConnections = MaxSize
  /\ conn = [w \in Wrappers |-> None]
  /\ busy = [w \in Wrappers |-> FALSE]
  /\ status = [c \in Conns |-> "new"]
  /\ monitor = None
  /\ pc = [t \in Threads |-> "idle"]
  /\ slot = [t \in Threads |-> None]
  /\ held = [t \in Threads |-> None]
  /\ count = [t \in Threads |-> 0]
  /\ stolen = FALSE

Pooled == IF pool = None THEN {} ELSE Range(pool)
\* Mutant: size() > maxConnections
OverFull == maxConnections > 0 /\ Len(pool) > maxConnections

Full == maxConnections > 0 /\ Len(pool) >= maxConnections

\* The pc of a thread, and its hold of the monitor.
Goto(t, where) == pc' = [pc EXCEPT ![t] = where]
Enter(t, where) == monitor = None /\ monitor' = t /\ Goto(t, where)
Leave(t, where) == monitor' = None /\ Goto(t, where)

PoolUnchanged == UNCHANGED <<pool, maxConnections>>
ConnsUnchanged == UNCHANGED <<conn, busy, status>>

------------------------------------------------------------------------------
\* createPool(): by the constructor, or again once the pool has been closed.
CreatePool(t) ==
  /\ pc[t] = "idle" /\ pool = None
  /\ Enter(t, "create")
  /\ pool' = <<>>
  /\ count' = [count EXCEPT ![t] = InitialSize]
  /\ ConnsUnchanged
  /\ UNCHANGED <<maxConnections, slot, held, stolen>>

\* The driver opens a connection that there was not before, and the JVM makes
\* an object that there was not before: which one is of no consequence.
CanConnect == \E c \in Conns : status[c] = "new"
NewConn == CHOOSE c \in Conns : status[c] = "new"
NewWrapper == CHOOSE w \in Wrappers : conn[w] = None

\* newConnection() asks the driver for its limit when the pool is empty.
Limit == IF pool = <<>> /\ DriverMax > 0 /\ maxConnections > DriverMax
         THEN DriverMax ELSE maxConnections

\* Mutant: for (x = 0; x <= numConnections; x++)
GrowOneMore(t) ==
  /\ pc[t] \in {"create", "grow"} /\ count[t] >= 0 /\ ~Full
  /\ CanConnect /\ \E w \in Wrappers : conn[w] = None
  /\ conn' = [conn EXCEPT ![NewWrapper] = NewConn]
  /\ status' = [status EXCEPT ![NewConn] = "open"]
  /\ pool' = Append(pool, NewWrapper)
  /\ maxConnections' = Limit
  /\ count' = [count EXCEPT ![t] = @ - 1]
  /\ UNCHANGED <<busy, monitor, pc, slot, held, stolen>>

\* One pass of createConnections(): a new connection in a new wrapper.
GrowOne(t) ==
  /\ pc[t] \in {"create", "grow"} /\ count[t] > 0 /\ ~Full
  /\ CanConnect /\ \E w \in Wrappers : conn[w] = None
  /\ conn' = [conn EXCEPT ![NewWrapper] = NewConn]
  /\ status' = [status EXCEPT ![NewConn] = "open"]
  /\ pool' = Append(pool, NewWrapper)
  /\ maxConnections' = Limit
  /\ count' = [count EXCEPT ![t] = @ - 1]
  /\ UNCHANGED <<busy, monitor, pc, slot, held, stolen>>

\* The same pass when newConnection() throws, which is logged: it opens
\* nothing, or, into an empty pool, opens a connection and then fails on its
\* metadata, and nobody closes that connection.
GrowFails(t) ==
  /\ pc[t] \in {"create", "grow"} /\ count[t] > 0 /\ ~Full
  /\ \/ UNCHANGED status
     \/ /\ pool = <<>> /\ CanConnect
        /\ status' = [status EXCEPT ![NewConn] = "open"]
  /\ count' = [count EXCEPT ![t] = @ - 1]
  /\ PoolUnchanged
  /\ UNCHANGED <<conn, busy, monitor, pc, slot, held, stolen>>

\* createConnections() ends, at its count or at maxConnections.
GrowEnds(t) ==
  /\ pc[t] \in {"create", "grow"}
  /\ count[t] = 0 \/ Full
  /\ count' = [count EXCEPT ![t] = 0]
  /\ IF pc[t] = "create"
       THEN Leave(t, "idle")
       ELSE Goto(t, "refind") /\ UNCHANGED monitor
  /\ PoolUnchanged /\ ConnsUnchanged
  /\ UNCHANGED <<slot, held, stolen>>

------------------------------------------------------------------------------
\* getConnection() of a pool that is there.
GetConnection(t) ==
  /\ pc[t] = "idle" /\ pool # None
  /\ Enter(t, "find")
  /\ PoolUnchanged /\ ConnsUnchanged
  /\ UNCHANGED <<slot, held, count, stolen>>

\* findFreeConnection() finds a wrapper that is not busy: the first its
\* Enumeration meets, which a rival's return may have freed only just now.
FindFree(t) ==
  /\ pc[t] \in {"find", "refind"}
  /\ \E w \in Pooled :
       /\ ~busy[w]
       /\ busy' = [busy EXCEPT ![w] = TRUE]
       /\ slot' = [slot EXCEPT ![t] = w]
  /\ Goto(t, "test")
  /\ PoolUnchanged
  /\ UNCHANGED <<conn, status, monitor, held, count, stolen>>

\* It finds none: make some more, or, when that has been done, wait(250).
FindNone(t) ==
  /\ pc[t] \in {"find", "refind"}
  /\ \A w \in Pooled : busy[w]
  /\ IF pc[t] = "find"
       THEN Goto(t, "grow") /\ count' = [count EXCEPT ![t] = Increment]
       ELSE Goto(t, "wait") /\ UNCHANGED count
  /\ PoolUnchanged /\ ConnsUnchanged
  /\ UNCHANGED <<monitor, slot, held, stolen>>

WaitEnds(t) ==
  /\ pc[t] = "wait"
  /\ Goto(t, "find")
  /\ PoolUnchanged /\ ConnsUnchanged
  /\ UNCHANGED <<monitor, slot, held, count, stolen>>

\* getConnection() returns c.
Obtain(t, c) ==
  /\ held' = [held EXCEPT ![t] = c]
  /\ Leave(t, "using")

\* testConnection() succeeds: setAutoCommit need not notice a broken one.
TestOk(t) ==
  /\ pc[t] = "test" /\ status[conn[slot[t]]] \in {"open", "broken"}
  /\ Obtain(t, conn[slot[t]])
  /\ PoolUnchanged /\ ConnsUnchanged
  /\ UNCHANGED <<slot, count, stolen>>

\* It fails; the connection is closed and replaced by a new one.
TestFails(t) ==
  /\ pc[t] = "test" /\ status[conn[slot[t]]] \in {"broken", "closed"}
  /\ CanConnect
  /\ status' = [status EXCEPT ![conn[slot[t]]] = "closed", ![NewConn] = "open"]
  /\ conn' = [conn EXCEPT ![slot[t]] = NewConn]
  /\ Obtain(t, NewConn)
  /\ PoolUnchanged
  /\ UNCHANGED <<busy, slot, count, stolen>>

\* Mutant: null is returned without resetting busy.
ReplaceFailsBusy(t) ==
  /\ pc[t] = "test" /\ status[conn[slot[t]]] \in {"broken", "closed"}
  /\ status' = [status EXCEPT ![conn[slot[t]]] = "closed"]
  /\ slot' = [slot EXCEPT ![t] = None]
  /\ Leave(t, "idle")
  /\ PoolUnchanged
  /\ UNCHANGED <<conn, busy, held, count, stolen>>

\* It fails, and newConnection() throws: conn is still the closed connection.
ReplaceFails(t) ==
  /\ pc[t] = "test" /\ status[conn[slot[t]]] \in {"broken", "closed"}
  /\ status' = [status EXCEPT ![conn[slot[t]]] = "closed"]
  /\ Obtain(t, conn[slot[t]])
  /\ PoolUnchanged
  /\ UNCHANGED <<conn, busy, slot, count, stolen>>

------------------------------------------------------------------------------
\* returnConnection(): the pool is there, or the return is only logged.
ReturnConnection(t) ==
  /\ pc[t] = "using"
  /\ IF pool = None
       THEN Goto(t, "idle") /\ held' = [held EXCEPT ![t] = None]
                            /\ slot' = [slot EXCEPT ![t] = None]
       ELSE Goto(t, "match") /\ UNCHANGED <<held, slot>>
  /\ count' = [count EXCEPT ![t] = 0]
  /\ PoolUnchanged /\ ConnsUnchanged
  /\ UNCHANGED <<monitor, stolen>>

\* The wrapper its Enumeration is at, while the pool changes under it.
Reached(t) == pool # None /\ count[t] < Len(pool)
AtCount(t) == pool[count[t] + 1]

\* Another connection's wrapper is passed by.
MatchPasses(t) ==
  /\ pc[t] = "match" /\ Reached(t)
  /\ conn[AtCount(t)] # held[t]
  /\ count' = [count EXCEPT ![t] = @ + 1]
  /\ PoolUnchanged /\ ConnsUnchanged
  /\ UNCHANGED <<monitor, pc, slot, held, stolen>>

\* The search is over: the loop's variables are gone.
MatchEnds(t, w, where) ==
  /\ slot' = [slot EXCEPT ![t] = w]
  /\ held' = [held EXCEPT ![t] = None]
  /\ count' = [count EXCEPT ![t] = 0]
  /\ Goto(t, where)
  /\ PoolUnchanged /\ ConnsUnchanged
  /\ UNCHANGED <<monitor, stolen>>

\* Mutant: The wrapper is looked up by its busy flag.
MatchFirstBusy(t) ==
  /\ pc[t] = "match" /\ Reached(t)
  /\ busy[AtCount(t)]
  /\ MatchEnds(t, AtCount(t), "clear")

\* The Enumeration reaches the wrapper whose connection this is.
MatchFound(t) ==
  /\ pc[t] = "match" /\ Reached(t)
  /\ conn[AtCount(t)] = held[t]
  /\ MatchEnds(t, AtCount(t), "clear")

\* It ends without: the wrapper is gone, or has moved behind the Enumeration
\* when one before it was removed.  Or connectionPool has become null.
MatchNone(t) ==
  /\ pc[t] = "match" /\ ~Reached(t)
  /\ MatchEnds(t, None, "idle")

\* Mutant: The flag is left set.
ClearNothing(t) ==
  /\ pc[t] = "clear"
  /\ slot' = [slot EXCEPT ![t] = None]
  /\ Goto(t, "idle")
  /\ PoolUnchanged /\ ConnsUnchanged
  /\ UNCHANGED <<monitor, held, count, stolen>>

\* setBusy(false) on the wrapper that matched, whatever it holds by now.
ClearBusy(t) ==
  /\ pc[t] = "clear"
  /\ busy' = [busy EXCEPT ![slot[t]] = FALSE]
  /\ slot' = [slot EXCEPT ![t] = None]
  /\ Goto(t, "idle")
  /\ PoolUnchanged
  /\ UNCHANGED <<conn, status, monitor, held, count, stolen>>

------------------------------------------------------------------------------
\* refreshConnections() and closeConnectionPool() of a pool that is there.
Maintain(t) ==
  /\ pc[t] = "idle" /\ pool # None
  /\ \E what \in {"refresh", "close"} : Enter(t, what)
  /\ count' = [count EXCEPT ![t] = 0]
  /\ PoolUnchanged /\ ConnsUnchanged
  /\ UNCHANGED <<slot, held, stolen>>

\* nextElement(): a busy wrapper is given five seconds, once.
SleepIfBusy(t) ==
  /\ pc[t] \in {"refresh", "close"} /\ count[t] < Len(pool)
  /\ busy[pool[count[t] + 1]]
  /\ Goto(t, IF pc[t] = "refresh" THEN "refreshSlept" ELSE "closeSlept")
  /\ PoolUnchanged /\ ConnsUnchanged
  /\ UNCHANGED <<monitor, slot, held, count, stolen>>

\* The wrapper at the count is due: it is idle, or it has had its wait.
Due(t, here, slept) ==
  \/ pc[t] = here /\ count[t] < Len(pool) /\ ~busy[pool[count[t] + 1]]
  \/ pc[t] = slept

Steal(w) == stolen' = (stolen \/ busy[w])

\* Its connection is closed and replaced, even if still in use.
RefreshOne(t) ==
  /\ Due(t, "refresh", "refreshSlept")
  /\ LET w == pool[count[t] + 1] IN
       /\ CanConnect
       /\ status' = [status EXCEPT ![conn[w]] = "closed", ![NewConn] = "open"]
       /\ conn' = [conn EXCEPT ![w] = NewConn]
       /\ busy' = [busy EXCEPT ![w] = FALSE]
       /\ Steal(w)
  /\ count' = [count EXCEPT ![t] = @ + 1]
  /\ Goto(t, "refresh")
  /\ PoolUnchanged
  /\ UNCHANGED <<monitor, slot, held>>

\* newConnection() throws: refresh ends there, the wrapper as it was.
RefreshFails(t) ==
  /\ Due(t, "refresh", "refreshSlept")
  /\ LET w == pool[count[t] + 1] IN
       /\ status' = [status EXCEPT ![conn[w]] = "closed"]
       /\ Steal(w)
  /\ count' = [count EXCEPT ![t] = 0]
  /\ Leave(t, "idle")
  /\ PoolUnchanged
  /\ UNCHANGED <<conn, busy, slot, held>>

\* The element is removed from the Vector that is being enumerated, so the
\* one after it moves into its place and is passed over.
CloseOne(t) ==
  /\ Due(t, "close", "closeSlept")
  /\ LET i == count[t] + 1
         w == pool[i] IN
       /\ status' = [status EXCEPT ![conn[w]] = "closed"]
       /\ pool' = SubSeq(pool, 1, i - 1) \o SubSeq(pool, i + 1, Len(pool))
       /\ Steal(w)
  /\ count' = [count EXCEPT ![t] = @ + 1]
  /\ Goto(t, "close")
  /\ UNCHANGED <<maxConnections, conn, busy, monitor, slot, held>>

MaintainEnds(t) ==
  /\ pc[t] \in {"refresh", "close"} /\ count[t] >= Len(pool)
  /\ pool' = IF pc[t] = "close" THEN None ELSE pool
  /\ count' = [count EXCEPT ![t] = 0]
  /\ Leave(t, "idle")
  /\ ConnsUnchanged
  /\ UNCHANGED <<maxConnections, slot, held, stolen>>

\* The database or the network drops a connection.
Break(c) ==
  /\ status[c] = "open"
  /\ status' = [status EXCEPT ![c] = "broken"]
  /\ PoolUnchanged
  /\ UNCHANGED <<conn, busy, monitor, pc, slot, held, count, stolen>>

------------------------------------------------------------------------------
GetStep(t) ==
  \/ GrowOne(t) \/ GrowFails(t) \/ GrowEnds(t)
  \/ FindFree(t) \/ FindNone(t) \/ WaitEnds(t)
  \/ TestOk(t) \/ TestFails(t) \/ ReplaceFails(t)

ReturnStep(t) ==
  \/ ReturnConnection(t) \/ MatchPasses(t) \/ MatchFound(t) \/ MatchNone(t)
  \/ ClearBusy(t)

MaintainStep(t) ==
  \/ Maintain(t) \/ SleepIfBusy(t) \/ RefreshOne(t) \/ RefreshFails(t)
  \/ CloseOne(t) \/ MaintainEnds(t)

Next ==
  \/ \E t \in Threads : GetConnection(t) \/ GetStep(t) \/ ReturnStep(t)
  \/ \E t \in Threads : CreatePool(t)
  \/ \E t \in Maintainers : MaintainStep(t)
  \/ \E c \in Conns : Break(c)

Spec == Init /\ [][Next]_vars

\* Threads are scheduled, sleeps end, and a user returns its connection.
FairSpec == Spec /\ \A t \in Threads : WF_vars(GetStep(t) \/ ReturnStep(t))

------------------------------------------------------------------------------
\* Exclusion of getConnection(): as long as refresh and close found every
\* connection idle, no two threads have been given the same connection,
\* although returnConnection clears the busy flag without the monitor.
ConnectionExclusive ==
  ~stolen =>
    \A s, t \in Threads : held[s] # None /\ held[s] = held[t] => s = t

\* What a user of the pool sees of it.
Loans ==
  INSTANCE ConnectionLoans
    WITH Users <- Threads, loan <- held, disturbed <- stolen,
         closed <- {c \in Conns : status[c] = "closed"}

\* getConnection() lends: the connection is nobody else's, nothing that any
\* thread does closes it while it is out, although a failed test closes one
\* and returns are made without the monitor, and its loan ends when its user
\* returns it.
KeepsLoans == Loans!Spec

\* The pool never outgrows the limit in force, the driver's included.
PoolBounded ==
  pool # None /\ maxConnections > 0 => Len(pool) <= maxConnections

Closing(t) == pc[t] \in {"close", "closeSlept"}

\* t has w in hand, and the return it makes, or is making, will find it.
Has(t, w) ==
  /\ slot[t] = w
  /\ \/ pc[t] \in {"test", "clear"}
     \/ pc[t] \in {"using", "match"} /\ held[t] = conn[w]

\* A connection that is not in use can be found: a busy wrapper of the pool
\* has a thread that will clear it, whatever refresh has taken from others.
\* Only while the pool is being closed may a return miss its wrapper, in a
\* Vector that is about to be dropped.
BusyHasUser ==
  (\A m \in Threads : ~Closing(m)) =>
    \A w \in Pooled : busy[w] => \E t \in Threads : Has(t, w)

\* A thread that waits for a connection of a pool that has any, monitor in
\* hand, gets one: the others can return theirs without the monitor.
WaiterObtains ==
  \A t \in Threads : pc[t] = "wait" /\ pool # <<>> ~> pc[t] = "using"

\* closeConnectionPool() closes every connection of the pool.
ClosedPoolIsClosed ==
  [][\A t \in Threads :
       pc[t] = "close" /\ pc'[t] = "idle" =>
         \A w \in Wrappers : conn[w] # None => status[conn[w]] = "closed"]_vars

\* A connection in use is not given to a second thread, refresh or not.
InUseIsNotGiven ==
  \A s, t \in Threads : pc[s] = "using" /\ pc[t] = "using" /\ held[s] = held[t] => s = t
==============================================================================
