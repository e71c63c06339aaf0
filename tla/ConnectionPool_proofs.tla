------------------------ MODULE ConnectionPool_proofs ------------------------
(***************************************************************************)
(* The pool for any number of threads, wrappers and connections and any    *)
(* sizes: its types, its limit, the exclusion that returnConnection keeps  *)
(* although it takes no monitor, and that no wrapper stays busy for        *)
(* nobody.                                                                 *)
(***************************************************************************)
EXTENDS ConnectionPool, SequenceTheorems, TLAPS

\* Where a thread is when it holds the monitor.
Inside == {"find", "grow", "refind", "wait", "test", "refresh", "refreshSlept",
           "create", "close", "closeSlept"}

\* Where a thread has a wrapper to itself.
Owning == {"test", "using", "match", "clear"}

\* The monitor protects the Vector: it is there, and an index that was in
\* range before a sleep still is.
MonitorInv ==
  \A t \in Threads :
    /\ pc[t] \in Inside <=> monitor = t
    /\ pc[t] \in Inside => pool # None
    /\ pc[t] \in {"refreshSlept", "closeSlept"} => count[t] < Len(pool)

\* Each connection is in one wrapper at most, and was opened for it; a wrapper
\* that is pooled, busy or in a thread's hands has one.
WrapperInv ==
  /\ \A v, w \in Wrappers : conn[v] # None /\ conn[v] = conn[w] => v = w
  /\ \A w \in Wrappers : conn[w] # None => status[conn[w]] # "new"
  /\ \A w \in Wrappers : busy[w] => conn[w] # None
  /\ \A w \in Pooled : conn[w] # None
  /\ \A t \in Threads : pc[t] \in Owning => slot[t] \in Wrappers /\ conn[slot[t]] # None

\* What a thread was given had been opened.
HeldIsOpened == \A t \in Threads : held[t] # None => status[held[t]] # "new"

\* Until refresh or close take one in use, a thread between its search and
\* its setBusy(false) has a busy wrapper of its own, and it is the one whose
\* connection the thread has.
OwnerInv ==
  /\ \A t \in Threads : pc[t] \in Owning => busy[slot[t]]
  /\ \A s, t \in Threads :
       pc[s] \in Owning /\ pc[t] \in Owning /\ slot[s] = slot[t] => s = t
  /\ \A t \in Threads : pc[t] \in {"using", "match"} => held[t] = conn[slot[t]]
  /\ \A t \in Threads : held[t] # None => pc[t] \in {"using", "match"}

\* The wrapper a returning thread looks for, if it is in the pool with the
\* connection the thread has, is not behind its Enumeration.
Ahead(t) ==
  pc[t] = "match" /\ slot[t] \in Pooled /\ held[t] = conn[slot[t]] =>
    \E i \in 1..Len(pool) : i > count[t] /\ pool[i] = slot[t]

\* Nobody has left a wrapper busy.
Used(w) == \E t \in Threads : Has(t, w)

ReturnInv ==
  (\A m \in Threads : ~Closing(m)) =>
    /\ \A t \in Threads : Ahead(t)
    /\ \A w \in Pooled : busy[w] => Used(w)

IInv ==
  /\ TypeOK /\ MonitorInv /\ PoolBounded /\ WrapperInv /\ HeldIsOpened /\ ReturnInv
  /\ ~stolen => OwnerInv

------------------------------------------------------------------------------
\* Removing an element: what is left was there before.
LEMMA RemoveOne ==
  ASSUME NEW S, NEW s \in Seq(S), NEW i \in 1..Len(s)
  PROVE  LET r == SubSeq(s, 1, i - 1) \o SubSeq(s, i + 1, Len(s)) IN
           /\ r \in Seq(S) /\ Len(r) = Len(s) - 1
           /\ \A j \in 1..Len(r) : \E k \in 1..Len(s) : r[j] = s[k]
<1> DEFINE a == SubSeq(s, 1, i - 1)
           b == SubSeq(s, i + 1, Len(s))
<1>0. Len(s) \in Nat /\ i \in Nat /\ \A j \in 1..Len(s) : s[j] \in S
  BY LenProperties, ElementOfSeq
<1>1. /\ a \in Seq(S) /\ Len(a) = i - 1
      /\ \A j \in 1..Len(a) : a[j] = s[j]
  <2>1. \A j \in 1..(i - 1) : s[j] \in S
    BY <1>0
  <2> QED
    BY <1>0, <2>1, SubSeqProperties
<1>2. /\ b \in Seq(S) /\ Len(b) = Len(s) - i
      /\ \A j \in 1..Len(b) : b[j] = s[i + j]
  <2>1. \A j \in (i + 1)..Len(s) : s[j] \in S
    BY <1>0
  <2> QED
    BY <1>0, <2>1, SubSeqProperties
<1> HIDE DEF a, b
<1>3. /\ a \o b \in Seq(S) /\ Len(a \o b) = Len(s) - 1
      /\ \A j \in 1..Len(a \o b) :
           (a \o b)[j] = IF j <= Len(a) THEN a[j] ELSE b[j - Len(a)]
  <2>1. a \in Seq(S) /\ b \in Seq(S)
    BY <1>1, <1>2
  <2>2. a \o b \in Seq(S)
    BY <2>1, ConcatProperties
  <2>3. Len(a \o b) = Len(a) + Len(b)
    BY <2>1, ConcatProperties
  <2>4. \A j \in 1..Len(a) + Len(b) :
          (a \o b)[j] = IF j <= Len(a) THEN a[j] ELSE b[j - Len(a)]
    BY <2>1, ConcatProperties, Zenon
  <2>5. Len(a) + Len(b) = Len(s) - 1
    BY <1>0, <1>1, <1>2
  <2> QED
    BY <2>2, <2>3, <2>4, <2>5
<1>4. ASSUME NEW j \in 1..Len(a \o b)
      PROVE  \E k \in 1..Len(s) : (a \o b)[j] = s[k]
  <2>1. CASE j <= Len(a)
    <3>1. (a \o b)[j] = s[j] /\ j \in 1..Len(s)
      BY <1>0, <1>1, <1>3, <1>4, <2>1
    <3> QED
      BY <3>1
  <2>2. CASE ~(j <= Len(a))
    <3>1. (a \o b)[j] = s[j + 1] /\ j + 1 \in 1..Len(s)
      BY <1>0, <1>1, <1>2, <1>3, <1>4, <2>2
    <3> QED
      BY <3>1
  <2> QED
    BY <2>1, <2>2
<1> QED
  BY <1>3, <1>4 DEF a, b

\* The pool as a set.
LEMMA PooledElements ==
  ASSUME TypeOK
  PROVE  /\ Pooled \subseteq Wrappers
         /\ pool # None =>
              /\ pool \in Seq(Wrappers) /\ Len(pool) \in Nat
              /\ Pooled = {pool[i] : i \in 1..Len(pool)}
<1>1. CASE pool = None
  BY <1>1 DEF Pooled
<1>2. CASE pool # None
  <2>1. pool \in Seq(Wrappers) /\ Len(pool) \in Nat
    BY <1>2, LenProperties DEF TypeOK
  <2>2. Pooled = {pool[i] : i \in 1..Len(pool)}
    BY <1>2, <2>1, LenProperties DEF Pooled, Range
  <2> QED
    BY <2>1, <2>2, ElementOfSeq
<1> QED
  BY <1>1, <1>2

\* The driver's new connection and the JVM's new wrapper.
LEMMA FreshConn ==
  ASSUME CanConnect
  PROVE  NewConn \in Conns /\ status[NewConn] = "new"
BY DEF CanConnect, NewConn

LEMMA FreshWrapper ==
  ASSUME \E w \in Wrappers : conn[w] = None
  PROVE  NewWrapper \in Wrappers /\ conn[NewWrapper] = None
BY DEF NewWrapper

LEMMA InitHolds == Init => IInv
<1> SUFFICES ASSUME Init PROVE IInv
  OBVIOUS
<1>1. TypeOK
  BY SizesAreIntegers DEF Init, TypeOK, PcValues, Statuses
<1>2. Pooled = {}
  BY DEF Init, Pooled
<1>3. MonitorInv /\ PoolBounded
  BY NoneIsNothing DEF Init, MonitorInv, PoolBounded, Inside
<1>4. WrapperInv /\ HeldIsOpened /\ OwnerInv /\ ReturnInv
  BY <1>2 DEF Init, WrapperInv, HeldIsOpened, OwnerInv, ReturnInv, Ahead, Owning
<1> QED
  BY <1>1, <1>3, <1>4 DEF IInv

\* createConnections() adds a wrapper that nobody has yet.
LEMMA Grown ==
  ASSUME IInv, NEW t \in Threads, GrowOne(t)
  PROVE  /\ NewConn \in Conns /\ status[NewConn] = "new"
         /\ NewWrapper \in Wrappers /\ conn[NewWrapper] = None
         /\ pool \in Seq(Wrappers) /\ pool' \in Seq(Wrappers) /\ pool' # None
         /\ Len(pool) \in Nat /\ Len(pool') = Len(pool) + 1
         /\ \A i \in 1..Len(pool) : pool'[i] = pool[i]
         /\ Pooled' = Pooled \cup {NewWrapper}
<1>1. TypeOK /\ pool # None
  BY DEF IInv, GrowOne, MonitorInv, Inside
<1>2. /\ NewConn \in Conns /\ status[NewConn] = "new"
      /\ NewWrapper \in Wrappers /\ conn[NewWrapper] = None
  BY FreshConn, FreshWrapper DEF GrowOne
<1>3. pool \in Seq(Wrappers) /\ Len(pool) \in Nat
  BY <1>1, PooledElements
<1>4. pool' = Append(pool, NewWrapper)
  BY DEF GrowOne
<1>5. /\ pool' \in Seq(Wrappers) /\ Len(pool') = Len(pool) + 1
      /\ \A i \in 1..Len(pool) : pool'[i] = pool[i]
      /\ pool'[Len(pool) + 1] = NewWrapper
  BY <1>2, <1>3, <1>4
<1>6. pool' # None
  BY <1>5, NoneIsNothing
<1>7. Pooled' = {pool'[i] : i \in 1..Len(pool')}
  BY <1>5, <1>6, LenProperties DEF Pooled, Range
<1>8. Pooled = {pool[i] : i \in 1..Len(pool)}
  BY <1>1, PooledElements
<1>9. Pooled' = Pooled \cup {NewWrapper}
  BY <1>3, <1>5, <1>7, <1>8
<1> QED
  BY <1>2, <1>3, <1>5, <1>6, <1>9

\* closeConnectionPool() removes one.
LEMMA Shrunk ==
  ASSUME IInv, NEW t \in Threads, CloseOne(t)
  PROVE  /\ pool \in Seq(Wrappers) /\ pool' \in Seq(Wrappers) /\ pool' # None
         /\ Len(pool) \in Nat /\ Len(pool') = Len(pool) - 1
         /\ Pooled' \subseteq Pooled
<1>1. TypeOK /\ MonitorInv
  BY DEF IInv
<1>2. pool \in Seq(Wrappers) /\ Len(pool) \in Nat
  BY <1>1, PooledElements DEF CloseOne, Due, MonitorInv, Inside
<1>3. count[t] + 1 \in 1..Len(pool)
  BY <1>1, <1>2 DEF CloseOne, Due, MonitorInv, TypeOK
<1> DEFINE k == count[t] + 1
           r == SubSeq(pool, 1, k - 1) \o SubSeq(pool, k + 1, Len(pool))
<1>4. pool' = r
  BY Zenon DEF CloseOne
<1>5. /\ pool' \in Seq(Wrappers) /\ Len(pool') = Len(pool) - 1
      /\ \A j \in 1..Len(pool') : \E i \in 1..Len(pool) : pool'[j] = pool[i]
  <2>1. k \in 1..Len(pool)
    BY <1>3
  <2> HIDE DEF k
  <2>2. /\ r \in Seq(Wrappers) /\ Len(r) = Len(pool) - 1
        /\ \A j \in 1..Len(r) : \E i \in 1..Len(pool) : r[j] = pool[i]
    BY <1>2, <2>1, RemoveOne, Zenon
  <2> QED
    BY <1>4, <2>2, Zenon
<1>6. pool' # None
  BY <1>5, NoneIsNothing
<1>7. Pooled' = {pool'[i] : i \in 1..Len(pool')}
  BY <1>5, <1>6, LenProperties DEF Pooled, Range
<1>8. Pooled = {pool[i] : i \in 1..Len(pool)}
  BY <1>1, <1>2, <1>6, PooledElements, NoneIsNothing
<1> QED
  BY <1>2, <1>5, <1>6, <1>7, <1>8

------------------------------------------------------------------------------
\* Every step keeps the types.
LEMMA TypeStep == IInv /\ [Next]_vars => TypeOK'
<1> SUFFICES ASSUME IInv, [Next]_vars PROVE TypeOK'
  OBVIOUS
<1> USE DEF TypeOK, PcValues, Statuses, Goto, Enter, Leave, PoolUnchanged, ConnsUnchanged
<1>0. TypeOK /\ MonitorInv /\ WrapperInv
  BY DEF IInv
<1>1. CASE UNCHANGED vars
  BY <1>0, <1>1 DEF vars
<1>2. ASSUME NEW c \in Conns, Break(c) PROVE TypeOK'
  BY <1>0, <1>2 DEF Break
<1>3. ASSUME NEW t \in Threads, GetConnection(t) PROVE TypeOK'
  BY <1>0, <1>3 DEF GetConnection
<1>4. ASSUME NEW t \in Threads, CreatePool(t) PROVE TypeOK'
  BY <1>0, <1>4, SizesAreIntegers DEF CreatePool
<1>5. ASSUME NEW t \in Threads, Maintain(t) PROVE TypeOK'
  BY <1>0, <1>5 DEF Maintain
<1>6. ASSUME NEW t \in Threads, SleepIfBusy(t) PROVE TypeOK'
  BY <1>0, <1>6 DEF SleepIfBusy
<1>7. ASSUME NEW t \in Threads, GrowFails(t) PROVE TypeOK'
  BY <1>0, <1>7, FreshConn DEF GrowFails
<1>8. ASSUME NEW t \in Threads, GrowEnds(t) PROVE TypeOK'
  BY <1>0, <1>8 DEF GrowEnds
<1>9. ASSUME NEW t \in Threads, FindNone(t) PROVE TypeOK'
  BY <1>0, <1>9, SizesAreIntegers DEF FindNone
<1>10. ASSUME NEW t \in Threads, WaitEnds(t) PROVE TypeOK'
  BY <1>0, <1>10 DEF WaitEnds
<1>11. ASSUME NEW t \in Threads, ReturnConnection(t) PROVE TypeOK'
  BY <1>0, <1>11 DEF ReturnConnection
<1>12. ASSUME NEW t \in Threads, MatchPasses(t) PROVE TypeOK'
  BY <1>0, <1>12 DEF MatchPasses
<1>13. ASSUME NEW t \in Threads, MatchNone(t) PROVE TypeOK'
  BY <1>0, <1>13 DEF MatchNone, MatchEnds
<1>14. ASSUME NEW t \in Threads, ClearBusy(t) PROVE TypeOK'
  BY <1>0, <1>14 DEF ClearBusy
<1>15. ASSUME NEW t \in Threads, RefreshFails(t) PROVE TypeOK'
  BY <1>0, <1>15 DEF RefreshFails, Steal
<1>16. ASSUME NEW t \in Threads, MaintainEnds(t) PROVE TypeOK'
  BY <1>0, <1>16 DEF MaintainEnds
<1>17. ASSUME NEW t \in Threads, FindFree(t) PROVE TypeOK'
  BY <1>0, <1>17, PooledElements DEF FindFree
<1>18. ASSUME NEW t \in Threads, TestOk(t) PROVE TypeOK'
  <2>1. slot[t] \in Wrappers
    BY <1>0, <1>18 DEF TestOk, WrapperInv, Owning
  <2> QED
    BY <1>0, <1>18, <2>1 DEF TestOk, Obtain
<1>19. ASSUME NEW t \in Threads, TestFails(t) PROVE TypeOK'
  <2>1. slot[t] \in Wrappers
    BY <1>0, <1>19 DEF TestFails, WrapperInv, Owning
  <2> QED
    BY <1>0, <1>19, <2>1, FreshConn DEF TestFails, Obtain
<1>20. ASSUME NEW t \in Threads, ReplaceFails(t) PROVE TypeOK'
  <2>1. slot[t] \in Wrappers
    BY <1>0, <1>20 DEF ReplaceFails, WrapperInv, Owning
  <2> QED
    BY <1>0, <1>20, <2>1 DEF ReplaceFails, Obtain
<1>21. ASSUME NEW t \in Threads, MatchFound(t) PROVE TypeOK'
  <2>1. Reached(t) => AtCount(t) \in Wrappers
    BY <1>0, PooledElements, ElementOfSeq DEF Reached, AtCount
  <2> QED
    BY <1>0, <1>21, <2>1 DEF MatchFound, MatchEnds
<1>22. ASSUME NEW t \in Threads, RefreshOne(t) PROVE TypeOK'
  <2>1. stolen' \in BOOLEAN
    BY <1>22, Zenon DEF RefreshOne, Steal
  <2>2. /\ conn' \in [Wrappers -> Conns \cup {None}] /\ busy' \in [Wrappers -> BOOLEAN]
        /\ status' \in [Conns -> Statuses]
    BY <1>0, <1>22, FreshConn DEF RefreshOne
  <2> QED
    BY <1>0, <1>22, <2>1, <2>2 DEF RefreshOne
<1>23. ASSUME NEW t \in Threads, GrowOne(t) PROVE TypeOK'
  <2>1. maxConnections' \in Int
    BY <1>0, <1>23, SizesAreIntegers DEF GrowOne, Limit
  <2>2. pool' \in Seq(Wrappers) /\ NewConn \in Conns
    BY <1>23, Grown
  <2> QED
    BY <1>0, <1>23, <2>1, <2>2 DEF GrowOne
<1>24. ASSUME NEW t \in Threads, CloseOne(t) PROVE TypeOK'
  <2>2. pool' \in Seq(Wrappers)
    BY <1>24, Shrunk
  <2>3. stolen' \in BOOLEAN
    BY <1>24, Zenon DEF CloseOne, Steal
  <2>4. status' \in [Conns -> Statuses]
    BY <1>0, <1>24 DEF CloseOne
  <2>5. /\ count' = [count EXCEPT ![t] = @ + 1] /\ pc' = [pc EXCEPT ![t] = "close"]
        /\ UNCHANGED <<maxConnections, conn, busy, monitor, slot, held>>
    BY <1>24 DEF CloseOne
  <2> QED
    BY <1>0, <2>2, <2>3, <2>4, <2>5
<1> QED
  BY <1>1, <1>2, <1>3, <1>4, <1>5, <1>6, <1>7, <1>8, <1>9, <1>10, <1>11, <1>12, <1>13, <1>14, <1>15, <1>16, <1>17, <1>18, <1>19, <1>20, <1>21, <1>22, <1>23, <1>24,
     MaintainersAreThreads
  DEF Next, GetStep, ReturnStep, MaintainStep

------------------------------------------------------------------------------
\* The thread in the monitor is the one that runs synchronized code, and what
\* it has found of the Vector stays true.
LEMMA MonitorStep == IInv /\ TypeOK' /\ [Next]_vars => MonitorInv'
<1> SUFFICES ASSUME IInv, TypeOK', [Next]_vars, NEW s \in Threads
             PROVE  /\ pc'[s] \in Inside <=> monitor' = s
                    /\ pc'[s] \in Inside => pool' # None
                    /\ pc'[s] \in {"refreshSlept", "closeSlept"} => count'[s] < Len(pool')
  BY DEF MonitorInv
<1> DEFINE P == /\ pc'[s] \in Inside <=> monitor' = s
                /\ pc'[s] \in Inside => pool' # None
                /\ pc'[s] \in {"refreshSlept", "closeSlept"} => count'[s] < Len(pool')
<1> USE DEF Goto, Enter, Leave, PoolUnchanged, ConnsUnchanged, Inside
<1>0. TypeOK /\ MonitorInv /\ s # None
  BY NoneIsNothing DEF IInv
<1>00. /\ pc \in [Threads -> PcValues] /\ count \in [Threads -> Nat]
       /\ \A t \in Threads :
            /\ pc[t] \in Inside <=> monitor = t
            /\ pc[t] \in Inside => pool # None
            /\ pc[t] \in {"refreshSlept", "closeSlept"} => count[t] < Len(pool)
       /\ \A t \in Threads : t # None
  BY <1>0, NoneIsNothing DEF TypeOK, MonitorInv
<1>1. CASE UNCHANGED vars
  BY <1>00, <1>1 DEF vars
<1>2. ASSUME NEW c \in Conns, Break(c) PROVE P
  BY <1>00, <1>2 DEF Break
<1>3. ASSUME NEW t \in Threads, GetConnection(t) PROVE P
  BY <1>0, <1>00, <1>3 DEF GetConnection
<1>4. ASSUME NEW t \in Threads, CreatePool(t) PROVE P
  BY <1>0, <1>00, <1>4, NoneIsNothing, EmptySeq DEF CreatePool
<1>5. ASSUME NEW t \in Threads, Maintain(t) PROVE P
  BY <1>0, <1>00, <1>5 DEF Maintain
<1>6. ASSUME NEW t \in Threads, SleepIfBusy(t) PROVE P
  BY <1>0, <1>00, <1>6 DEF SleepIfBusy
<1>7. ASSUME NEW t \in Threads, GrowOne(t) PROVE P
  BY <1>0, <1>00, <1>7, Grown DEF GrowOne
<1>8. ASSUME NEW t \in Threads, GrowFails(t) PROVE P
  BY <1>0, <1>00, <1>8 DEF GrowFails
<1>9. ASSUME NEW t \in Threads, GrowEnds(t) PROVE P
  BY <1>0, <1>00, <1>9 DEF GrowEnds
<1>10. ASSUME NEW t \in Threads, FindFree(t) PROVE P
  BY <1>0, <1>00, <1>10 DEF FindFree
<1>11. ASSUME NEW t \in Threads, FindNone(t) PROVE P
  BY <1>0, <1>00, <1>11 DEF FindNone
<1>12. ASSUME NEW t \in Threads, WaitEnds(t) PROVE P
  BY <1>0, <1>00, <1>12 DEF WaitEnds
<1>13. ASSUME NEW t \in Threads, TestOk(t) PROVE P
  BY <1>0, <1>00, <1>13 DEF TestOk, Obtain
<1>14. ASSUME NEW t \in Threads, TestFails(t) PROVE P
  BY <1>0, <1>00, <1>14 DEF TestFails, Obtain
<1>15. ASSUME NEW t \in Threads, ReplaceFails(t) PROVE P
  BY <1>0, <1>00, <1>15 DEF ReplaceFails, Obtain
<1>16. ASSUME NEW t \in Threads, ReturnConnection(t) PROVE P
  BY <1>0, <1>00, <1>16 DEF ReturnConnection
<1>17. ASSUME NEW t \in Threads, MatchPasses(t) PROVE P
  BY <1>0, <1>00, <1>17 DEF MatchPasses
<1>18. ASSUME NEW t \in Threads, MatchFound(t) PROVE P
  BY <1>0, <1>00, <1>18 DEF MatchFound, MatchEnds
<1>19. ASSUME NEW t \in Threads, MatchNone(t) PROVE P
  BY <1>0, <1>00, <1>19 DEF MatchNone, MatchEnds
<1>20. ASSUME NEW t \in Threads, ClearBusy(t) PROVE P
  BY <1>0, <1>00, <1>20 DEF ClearBusy
<1>21. ASSUME NEW t \in Threads, RefreshOne(t) PROVE P
  BY <1>0, <1>00, <1>21 DEF RefreshOne, Due
<1>22. ASSUME NEW t \in Threads, RefreshFails(t) PROVE P
  BY <1>0, <1>00, <1>22 DEF RefreshFails, Due
<1>23. ASSUME NEW t \in Threads, CloseOne(t) PROVE P
  BY <1>0, <1>00, <1>23, Shrunk DEF CloseOne, Due
<1>24. ASSUME NEW t \in Threads, MaintainEnds(t) PROVE P
  BY <1>0, <1>00, <1>24 DEF MaintainEnds
<1> QED
  BY <1>1, <1>2, <1>3, <1>4, <1>5, <1>6, <1>7, <1>8, <1>9, <1>10, <1>11, <1>12, <1>13, <1>14, <1>15, <1>16, <1>17, <1>18, <1>19, <1>20, <1>21, <1>22, <1>23, <1>24,
     MaintainersAreThreads
  DEF Next, GetStep, ReturnStep, MaintainStep

------------------------------------------------------------------------------
\* The steps after which the Vector and its limit are what they were.
Fixed(t) ==
  \/ GetConnection(t) \/ Maintain(t) \/ SleepIfBusy(t) \/ GrowFails(t)
  \/ GrowEnds(t) \/ FindFree(t) \/ FindNone(t) \/ WaitEnds(t) \/ TestOk(t)
  \/ TestFails(t) \/ ReplaceFails(t) \/ ReturnConnection(t)
  \/ MatchPasses(t) \/ MatchFound(t) \/ MatchNone(t) \/ ClearBusy(t)
  \/ RefreshOne(t) \/ RefreshFails(t)

LEMMA PoolFixed ==
  ASSUME NEW t \in Threads, Fixed(t)
  PROVE  UNCHANGED <<pool, maxConnections, Pooled>>
<1>1. UNCHANGED <<pool, maxConnections>>
  BY DEF Fixed, PoolUnchanged, MatchEnds, GetConnection, Maintain,
      SleepIfBusy, GrowFails, GrowEnds, FindFree, FindNone, WaitEnds, TestOk,
      TestFails, ReplaceFails, ReturnConnection, MatchPasses, MatchFound,
      MatchNone, ClearBusy, RefreshOne, RefreshFails
<1> QED
  BY <1>1 DEF Pooled

\* No step lets the pool outgrow the limit.
LEMMA BoundStep == IInv /\ [Next]_vars => PoolBounded'
<1> SUFFICES ASSUME IInv, [Next]_vars PROVE PoolBounded'
  OBVIOUS
<1>0. TypeOK /\ PoolBounded
  BY DEF IInv
<1>1. CASE UNCHANGED vars
  BY <1>0, <1>1 DEF vars, PoolBounded
<1>2. ASSUME NEW c \in Conns, Break(c) PROVE PoolBounded'
  BY <1>0, <1>2 DEF Break, PoolUnchanged, PoolBounded
<1>3. ASSUME NEW t \in Threads, Fixed(t) PROVE PoolBounded'
  BY <1>0, <1>3, PoolFixed DEF PoolBounded
<1>4. ASSUME NEW t \in Threads, CreatePool(t) PROVE PoolBounded'
  BY <1>0, <1>4 DEF CreatePool, PoolBounded, TypeOK
<1>5. ASSUME NEW t \in Threads, GrowOne(t) PROVE PoolBounded'
  <2>1. /\ Len(pool) \in Nat /\ Len(pool') = Len(pool) + 1 /\ pool \in Seq(Wrappers)
    BY <1>5, Grown
  <2>2. maxConnections \in Int /\ maxConnections' = Limit /\ ~Full
    BY <1>0, <1>5 DEF GrowOne, TypeOK
  <2>3. CASE Limit = maxConnections
    BY <2>1, <2>2, <2>3 DEF PoolBounded, Full
  <2>4. CASE Limit # maxConnections
    <3>1. Len(pool) = 0 /\ Limit > 0 /\ Limit \in Int
      BY <2>4, SizesAreIntegers DEF Limit
    <3> QED
      BY <2>1, <2>2, <3>1 DEF PoolBounded
  <2> QED
    BY <2>3, <2>4
<1>6. ASSUME NEW t \in Threads, CloseOne(t) PROVE PoolBounded'
  <2>1. Len(pool) \in Nat /\ Len(pool') = Len(pool) - 1 /\ pool # None
    BY <1>6, Shrunk, NoneIsNothing
  <2> QED
    BY <1>0, <1>6, <2>1 DEF CloseOne, PoolBounded, TypeOK
<1>7. ASSUME NEW t \in Threads, MaintainEnds(t) PROVE PoolBounded'
  BY <1>0, <1>7 DEF MaintainEnds, PoolBounded
<1> QED
  BY <1>1, <1>2, <1>3, <1>4, <1>5, <1>6, <1>7, MaintainersAreThreads
  DEF Next, GetStep, ReturnStep, MaintainStep, Fixed

------------------------------------------------------------------------------
\* The steps that leave the connections alone.
Passive(t) ==
  \/ GetConnection(t) \/ CreatePool(t) \/ Maintain(t) \/ SleepIfBusy(t)
  \/ GrowEnds(t) \/ FindFree(t) \/ FindNone(t) \/ WaitEnds(t) \/ TestOk(t)
  \/ ReturnConnection(t) \/ MatchPasses(t) \/ MatchFound(t)
  \/ MatchNone(t) \/ ClearBusy(t) \/ MaintainEnds(t)

\* The element that refresh or close is at is a wrapper of the pool.
LEMMA DueInPool ==
  ASSUME IInv, NEW t \in Threads,
         \/ Due(t, "refresh", "refreshSlept") \/ Due(t, "close", "closeSlept")
  PROVE  pool[count[t] + 1] \in Pooled /\ pool[count[t] + 1] \in Wrappers
<1>1. TypeOK /\ MonitorInv /\ count[t] \in Nat
  BY DEF IInv, TypeOK
<1>2. pool # None /\ count[t] < Len(pool)
  BY <1>1 DEF Due, MonitorInv, Inside
<1>3. pool \in Seq(Wrappers) /\ Len(pool) \in Nat /\ Pooled = {pool[i] : i \in 1..Len(pool)}
  BY <1>1, <1>2, PooledElements
<1>4. count[t] + 1 \in 1..Len(pool)
  BY <1>1, <1>2, <1>3
<1> QED
  BY <1>3, <1>4, ElementOfSeq

\* What a step does to a connection: an opened one stays opened, and a wrapper
\* is given none but the driver's new one.
GivenNew(w) ==
  /\ NewConn \in Conns /\ status[NewConn] = "new" /\ status'[NewConn] # "new"
  /\ conn' = [conn EXCEPT ![w] = NewConn]
ConnMoves ==
  /\ \A c \in Conns : status[c] # "new" => status'[c] # "new"
  /\ conn' = conn \/ \E w \in Wrappers : GivenNew(w)

LEMMA ConnStep == IInv /\ [Next]_vars => ConnMoves
<1> SUFFICES ASSUME IInv, [Next]_vars PROVE ConnMoves
  OBVIOUS
<1>0. /\ TypeOK /\ conn \in [Wrappers -> Conns \cup {None}]
      /\ status \in [Conns -> Statuses]
  BY DEF IInv, TypeOK
<1> USE DEF ConnMoves, GivenNew, ConnsUnchanged
<1>1. CASE UNCHANGED vars
  BY <1>1 DEF vars
<1>2. ASSUME NEW c \in Conns, Break(c) PROVE ConnMoves
  BY <1>0, <1>2 DEF Break
<1>3. ASSUME NEW t \in Threads, Passive(t) PROVE ConnMoves
  <2>1. UNCHANGED <<conn, status>>
    BY <1>3 DEF Passive, MatchEnds, GetConnection, CreatePool, Maintain,
           SleepIfBusy, GrowEnds, FindFree, FindNone, WaitEnds, TestOk,
           ReturnConnection, MatchPasses, MatchFound, MatchNone, ClearBusy,
           MaintainEnds
  <2> QED
    BY <2>1
<1>4. ASSUME NEW t \in Threads, GrowOne(t) PROVE ConnMoves
  BY <1>0, <1>4, Grown DEF GrowOne
<1>5. ASSUME NEW t \in Threads, GrowFails(t) PROVE ConnMoves
  BY <1>0, <1>5, FreshConn DEF GrowFails
<1>6. ASSUME NEW t \in Threads, TestFails(t) PROVE ConnMoves
  <2>1. slot[t] \in Wrappers
    BY <1>6 DEF TestFails, IInv, WrapperInv, Owning
  <2>2. NewConn \in Conns /\ status[NewConn] = "new"
    BY <1>6, FreshConn DEF TestFails
  <2> QED
    BY <1>0, <1>6, <2>1, <2>2 DEF TestFails
<1>7. ASSUME NEW t \in Threads, ReplaceFails(t) PROVE ConnMoves
  BY <1>0, <1>7 DEF ReplaceFails
<1>8. ASSUME NEW t \in Threads, RefreshOne(t) PROVE ConnMoves
  <2>1. pool[count[t] + 1] \in Wrappers
    BY <1>0, <1>8, DueInPool DEF RefreshOne
  <2>2. NewConn \in Conns /\ status[NewConn] = "new"
    BY <1>8, FreshConn DEF RefreshOne
  <2> QED
    BY <1>0, <1>8, <2>1, <2>2 DEF RefreshOne
<1>9. ASSUME NEW t \in Threads, RefreshFails(t) PROVE ConnMoves
  BY <1>0, <1>9 DEF RefreshFails
<1>10. ASSUME NEW t \in Threads, CloseOne(t) PROVE ConnMoves
  BY <1>0, <1>10 DEF CloseOne
<1> QED
  BY <1>1, <1>2, <1>3, <1>4, <1>5, <1>6, <1>7, <1>8, <1>9, <1>10,
     MaintainersAreThreads
  DEF Next, GetStep, ReturnStep, MaintainStep, Passive

------------------------------------------------------------------------------
\* The element that a return is at is a wrapper of the pool.
LEMMA ReachedInPool ==
  ASSUME IInv, NEW t \in Threads, Reached(t)
  PROVE  AtCount(t) \in Pooled /\ AtCount(t) \in Wrappers
<1>1. TypeOK /\ count[t] \in Nat
  BY DEF IInv, TypeOK
<1>2. pool \in Seq(Wrappers) /\ Len(pool) \in Nat /\ Pooled = {pool[i] : i \in 1..Len(pool)}
  BY <1>1, PooledElements DEF Reached
<1>3. count[t] + 1 \in 1..Len(pool)
  BY <1>1, <1>2 DEF Reached
<1> QED
  BY <1>2, <1>3, ElementOfSeq DEF AtCount

\* Only createConnections() adds to the pool.
LEMMA PooledMoves ==
  ASSUME IInv, [Next]_vars, \A t \in Threads : ~GrowOne(t)
  PROVE  Pooled' \subseteq Pooled
<1>1. CASE UNCHANGED vars
  BY <1>1 DEF vars, Pooled
<1>2. ASSUME NEW c \in Conns, Break(c) PROVE Pooled' \subseteq Pooled
  BY <1>2 DEF Break, PoolUnchanged, Pooled
<1>3. ASSUME NEW t \in Threads, Fixed(t) PROVE Pooled' \subseteq Pooled
  BY <1>3, PoolFixed
<1>4. ASSUME NEW t \in Threads, CreatePool(t) PROVE Pooled' \subseteq Pooled
  <2>1. pool' = <<>> /\ pool' # None
    BY <1>4, EmptySeq, NoneIsNothing DEF CreatePool
  <2>2. Pooled' = {}
    BY <2>1 DEF Pooled, Range
  <2> QED
    BY <2>2
<1>5. ASSUME NEW t \in Threads, CloseOne(t) PROVE Pooled' \subseteq Pooled
  BY <1>5, Shrunk
<1>6. ASSUME NEW t \in Threads, MaintainEnds(t) PROVE Pooled' \subseteq Pooled
  BY <1>6 DEF MaintainEnds, Pooled
<1> QED
  BY <1>1, <1>2, <1>3, <1>4, <1>5, <1>6, MaintainersAreThreads
  DEF Next, GetStep, ReturnStep, MaintainStep, Fixed

\* A wrapper becomes busy only when a search finds it in the pool.
LEMMA BusyMoves ==
  ASSUME IInv, [Next]_vars, NEW w \in Wrappers, busy'[w]
  PROVE  busy[w] \/ w \in Pooled
<1>0. TypeOK /\ busy \in [Wrappers -> BOOLEAN]
  BY DEF IInv, TypeOK
<1>1. CASE UNCHANGED vars
  BY <1>1 DEF vars
<1>2. ASSUME NEW c \in Conns, Break(c) PROVE busy[w]
  BY <1>2 DEF Break
<1>3. ASSUME NEW t \in Threads, FindFree(t) PROVE busy[w] \/ w \in Pooled
  BY <1>0, <1>3 DEF FindFree
<1>4. ASSUME NEW t \in Threads, ClearBusy(t) \/ RefreshOne(t) PROVE busy[w]
  BY <1>0, <1>4 DEF ClearBusy, RefreshOne
<1>5. ASSUME NEW t \in Threads, Next, ~FindFree(t), ~ClearBusy(t), ~RefreshOne(t),
             Fixed(t) \/ CreatePool(t) \/ GrowOne(t) \/ CloseOne(t) \/ MaintainEnds(t)
      PROVE  busy' = busy
  BY <1>5 DEF Fixed, ConnsUnchanged, MatchEnds, GetConnection, CreatePool,
     Maintain, SleepIfBusy, GrowOne, GrowFails, GrowEnds, FindNone, WaitEnds,
     TestOk, TestFails, ReplaceFails, ReturnConnection, MatchPasses,
     MatchFound, MatchNone, RefreshFails, CloseOne, MaintainEnds
<1> QED
  BY <1>1, <1>2, <1>3, <1>4, <1>5, MaintainersAreThreads
  DEF Next, GetStep, ReturnStep, MaintainStep, Fixed

\* A thread gets hold of a wrapper only when it finds it in the pool.
LEMMA SlotMoves ==
  ASSUME IInv, [Next]_vars, NEW s \in Threads, pc'[s] \in Owning
  PROVE  \/ pc[s] \in Owning /\ slot'[s] = slot[s]
         \/ slot'[s] \in Pooled
<1> DEFINE P == \/ pc[s] \in Owning /\ slot'[s] = slot[s]
                \/ slot'[s] \in Pooled
<1>0. TypeOK /\ pc \in [Threads -> PcValues] /\ slot \in [Threads -> Wrappers \cup {None}]
  BY DEF IInv, TypeOK
<1> USE DEF Owning, Goto, Enter, Leave
<1>1. CASE UNCHANGED vars
  BY <1>1 DEF vars
<1>2. ASSUME NEW c \in Conns, Break(c) PROVE P
  BY <1>2 DEF Break
<1>3. ASSUME NEW t \in Threads, GetConnection(t) PROVE P
  BY <1>0, <1>3 DEF GetConnection
<1>4. ASSUME NEW t \in Threads, CreatePool(t) PROVE P
  BY <1>0, <1>4 DEF CreatePool
<1>5. ASSUME NEW t \in Threads, Maintain(t) PROVE P
  BY <1>0, <1>5 DEF Maintain
<1>6. ASSUME NEW t \in Threads, SleepIfBusy(t) PROVE P
  BY <1>0, <1>6 DEF SleepIfBusy
<1>7. ASSUME NEW t \in Threads, GrowOne(t) PROVE P
  BY <1>0, <1>7 DEF GrowOne
<1>8. ASSUME NEW t \in Threads, GrowFails(t) PROVE P
  BY <1>0, <1>8 DEF GrowFails
<1>9. ASSUME NEW t \in Threads, GrowEnds(t) PROVE P
  BY <1>0, <1>9 DEF GrowEnds
<1>10. ASSUME NEW t \in Threads, FindFree(t) PROVE P
  BY <1>0, <1>10 DEF FindFree
<1>11. ASSUME NEW t \in Threads, FindNone(t) PROVE P
  BY <1>0, <1>11 DEF FindNone
<1>12. ASSUME NEW t \in Threads, WaitEnds(t) PROVE P
  BY <1>0, <1>12 DEF WaitEnds
<1>13. ASSUME NEW t \in Threads, TestOk(t) PROVE P
  BY <1>0, <1>13 DEF TestOk, Obtain
<1>14. ASSUME NEW t \in Threads, TestFails(t) PROVE P
  BY <1>0, <1>14 DEF TestFails, Obtain
<1>15. ASSUME NEW t \in Threads, ReplaceFails(t) PROVE P
  BY <1>0, <1>15 DEF ReplaceFails, Obtain
<1>16. ASSUME NEW t \in Threads, ReturnConnection(t) PROVE P
  BY <1>0, <1>16 DEF ReturnConnection
<1>17. ASSUME NEW t \in Threads, MatchPasses(t) PROVE P
  BY <1>0, <1>17 DEF MatchPasses
<1>18. ASSUME NEW t \in Threads, MatchFound(t) PROVE P
  <2>1. AtCount(t) \in Pooled
    BY <1>0, <1>18, ReachedInPool DEF MatchFound
  <2> QED
    BY <1>0, <1>18, <2>1 DEF MatchFound, MatchEnds
<1>19. ASSUME NEW t \in Threads, MatchNone(t) PROVE P
  BY <1>0, <1>19 DEF MatchNone, MatchEnds
<1>20. ASSUME NEW t \in Threads, ClearBusy(t) PROVE P
  BY <1>0, <1>20 DEF ClearBusy
<1>21. ASSUME NEW t \in Threads, RefreshOne(t) PROVE P
  BY <1>0, <1>21 DEF RefreshOne
<1>22. ASSUME NEW t \in Threads, RefreshFails(t) PROVE P
  BY <1>0, <1>22 DEF RefreshFails
<1>23. ASSUME NEW t \in Threads, CloseOne(t) PROVE P
  BY <1>0, <1>23 DEF CloseOne
<1>24. ASSUME NEW t \in Threads, MaintainEnds(t) PROVE P
  BY <1>0, <1>24 DEF MaintainEnds
<1> QED
  BY <1>1, <1>2, <1>3, <1>4, <1>5, <1>6, <1>7, <1>8, <1>9, <1>10, <1>11,
     <1>12, <1>13, <1>14, <1>15, <1>16, <1>17, <1>18, <1>19, <1>20, <1>21,
     <1>22, <1>23, <1>24,
     MaintainersAreThreads
  DEF Next, GetStep, ReturnStep, MaintainStep

\* Whatever wrapper is pooled, busy or in a thread's hands has a connection of
\* its own.
LEMMA WrapperStep == IInv /\ TypeOK' /\ [Next]_vars => WrapperInv'
<1> SUFFICES ASSUME IInv, TypeOK', [Next]_vars PROVE WrapperInv'
  OBVIOUS
<1>0. /\ TypeOK /\ WrapperInv /\ conn \in [Wrappers -> Conns \cup {None}]
      /\ None \notin Conns /\ conn' \in [Wrappers -> Conns \cup {None}]
  BY NoneIsNothing DEF IInv, TypeOK
<1>1. ConnMoves
  BY ConnStep
<1>2. \A w \in Wrappers : conn[w] # None => conn'[w] # None
  BY <1>0, <1>1 DEF ConnMoves, GivenNew
<1>3. \A v, w \in Wrappers : conn'[v] # None /\ conn'[v] = conn'[w] => v = w
  <2>1. CASE conn' = conn
    BY <1>0, <2>1 DEF WrapperInv
  <2>2. ASSUME NEW u \in Wrappers, GivenNew(u)
        PROVE  \A v, w \in Wrappers : conn'[v] # None /\ conn'[v] = conn'[w] => v = w
    <3>1. \A w \in Wrappers : conn[w] # NewConn
      BY <1>0, <2>2 DEF GivenNew, WrapperInv
    <3> QED
      BY <1>0, <2>2, <3>1 DEF GivenNew, WrapperInv
  <2> QED
    BY <1>1, <2>1, <2>2 DEF ConnMoves
<1>4. \A w \in Wrappers : conn'[w] # None => status'[conn'[w]] # "new"
  BY <1>0, <1>1 DEF ConnMoves, GivenNew, WrapperInv
<1>5. \A w \in Wrappers : busy'[w] => conn'[w] # None
  BY <1>0, <1>2, BusyMoves DEF WrapperInv
<1>6. \A w \in Pooled' : conn'[w] # None
  <2>1. ASSUME NEW t \in Threads, GrowOne(t) PROVE \A w \in Pooled' : conn'[w] # None
    <3>1. /\ Pooled' = Pooled \cup {NewWrapper} /\ NewWrapper \in Wrappers
          /\ NewConn \in Conns /\ conn' = [conn EXCEPT ![NewWrapper] = NewConn]
      BY <2>1, Grown DEF GrowOne
    <3> QED
      BY <1>0, <1>2, <3>1, PooledElements DEF WrapperInv
  <2>2. (\A t \in Threads : ~GrowOne(t)) => Pooled' \subseteq Pooled
    BY PooledMoves
  <2> QED
    BY <1>0, <1>2, <2>1, <2>2, PooledElements DEF WrapperInv
<1>7. \A t \in Threads : pc'[t] \in Owning => slot'[t] \in Wrappers /\ conn'[slot'[t]] # None
  BY <1>0, <1>2, SlotMoves, PooledElements DEF WrapperInv
<1> QED
  BY <1>3, <1>4, <1>5, <1>6, <1>7 DEF WrapperInv

\* A connection that a thread is given is its wrapper's, or was opened for it.
LEMMA OpenedStep == IInv /\ [Next]_vars => HeldIsOpened'
<1> SUFFICES ASSUME IInv, [Next]_vars PROVE HeldIsOpened'
  OBVIOUS
<1>0. /\ TypeOK /\ WrapperInv /\ HeldIsOpened /\ held \in [Threads -> Conns \cup {None}]
      /\ slot \in [Threads -> Wrappers \cup {None}] /\ conn \in [Wrappers -> Conns \cup {None}]
      /\ status \in [Conns -> Statuses] /\ None \notin Conns
  BY NoneIsNothing DEF IInv, TypeOK
<1>1. \A c \in Conns : status[c] # "new" => status'[c] # "new"
  BY ConnStep DEF ConnMoves
<1>2. ASSUME \A t \in Threads : held'[t] \in {held[t], None} PROVE HeldIsOpened'
  BY <1>0, <1>1, <1>2 DEF HeldIsOpened
<1>3. ASSUME NEW t \in Threads, pc[t] = "test", held' = [held EXCEPT ![t] = conn[slot[t]]]
      PROVE  HeldIsOpened'
  <2>1. slot[t] \in Wrappers /\ conn[slot[t]] # None /\ status[conn[slot[t]]] # "new"
    BY <1>0, <1>3 DEF WrapperInv, Owning
  <2> QED
    BY <1>0, <1>1, <1>3, <2>1 DEF HeldIsOpened
<1>4. ASSUME NEW t \in Threads, TestOk(t) \/ ReplaceFails(t) PROVE HeldIsOpened'
  BY <1>3, <1>4 DEF TestOk, ReplaceFails, Obtain
<1>5. ASSUME NEW t \in Threads, TestFails(t) PROVE HeldIsOpened'
  <2>1. /\ held' = [held EXCEPT ![t] = NewConn]
        /\ NewConn \in Conns /\ status'[NewConn] = "open"
    BY <1>0, <1>5, FreshConn DEF TestFails, Obtain
  <2> QED
    BY <1>0, <1>1, <2>1 DEF HeldIsOpened
<1>6. CASE \A t \in Threads : ~TestOk(t) /\ ~ReplaceFails(t) /\ ~TestFails(t)
  <2>1. \A t \in Threads : held'[t] \in {held[t], None}
    BY <1>0, <1>6, MaintainersAreThreads
    DEF Next, vars, GetStep, ReturnStep, MaintainStep, MatchEnds, Break,
        GetConnection, CreatePool, Maintain, SleepIfBusy, GrowOne, GrowFails,
        GrowEnds, FindFree, FindNone, WaitEnds, ReturnConnection, MatchPasses,
        MatchFound, MatchNone, ClearBusy, RefreshOne, RefreshFails, CloseOne,
        MaintainEnds
  <2> QED
    BY <1>2, <2>1
<1> QED
  BY <1>4, <1>5, <1>6

------------------------------------------------------------------------------
\* Nothing is forgotten that was stolen, and while nothing is, refresh and
\* close are at a wrapper that is not busy.
LEMMA StolenStays ==
  ASSUME IInv, [Next]_vars, ~stolen'
  PROVE  /\ ~stolen /\ OwnerInv
         /\ \A t \in Threads :
              RefreshOne(t) \/ RefreshFails(t) \/ CloseOne(t) => ~busy[pool[count[t] + 1]]
<1>1. \A t \in Threads :
        RefreshOne(t) \/ RefreshFails(t) \/ CloseOne(t) => ~stolen /\ ~busy[pool[count[t] + 1]]
  BY Zenon DEF RefreshOne, RefreshFails, CloseOne, Steal
<1>2. CASE UNCHANGED vars
  BY <1>1, <1>2 DEF vars, IInv
<1>3. CASE \E t \in Threads : RefreshOne(t) \/ RefreshFails(t) \/ CloseOne(t)
  BY <1>1, <1>3 DEF IInv
<1>4. CASE Next /\ ~\E t \in Threads : RefreshOne(t) \/ RefreshFails(t) \/ CloseOne(t)
  <2>1. stolen' = stolen
    BY <1>4, MaintainersAreThreads
    DEF Next, GetStep, ReturnStep, MaintainStep, MatchEnds, Break,
        GetConnection, CreatePool, Maintain, SleepIfBusy, GrowOne, GrowFails,
        GrowEnds, FindFree, FindNone, WaitEnds, TestOk, TestFails,
        ReplaceFails, ReturnConnection, MatchPasses, MatchFound, MatchNone,
        ClearBusy, MaintainEnds
  <2> QED
    BY <1>1, <2>1 DEF IInv
<1> QED
  BY <1>2, <1>3, <1>4

\* As long as nothing is stolen, every thread keeps what it has got, alone.
LEMMA OwnerStep == IInv /\ [Next]_vars /\ ~stolen' => OwnerInv'
<1> SUFFICES ASSUME IInv, [Next]_vars, ~stolen' PROVE OwnerInv'
  OBVIOUS
<1>0. /\ pc \in [Threads -> PcValues] /\ slot \in [Threads -> Wrappers \cup {None}]
      /\ held \in [Threads -> Conns \cup {None}] /\ None \notin Conns
      /\ busy \in [Wrappers -> BOOLEAN] /\ conn \in [Wrappers -> Conns \cup {None}]
  BY NoneIsNothing DEF IInv, TypeOK
<1>00. /\ \A t \in Threads : pc[t] \in Owning =>
             /\ slot[t] \in Wrappers /\ conn[slot[t]] # None /\ busy[slot[t]]
       /\ \A r, t \in Threads :
            pc[r] \in Owning /\ pc[t] \in Owning /\ slot[r] = slot[t] => r = t
       /\ \A t \in Threads : pc[t] \in {"using", "match"} => held[t] = conn[slot[t]]
       /\ \A t \in Threads : held[t] # None => pc[t] \in {"using", "match"}
  BY StolenStays DEF IInv, OwnerInv, WrapperInv
<1> USE DEF OwnerInv, Owning, Goto, Enter, Leave, ConnsUnchanged
<1>1. CASE UNCHANGED vars
  BY <1>00, <1>1 DEF vars
<1>2. ASSUME NEW c \in Conns, Break(c) PROVE OwnerInv'
  BY <1>00, <1>2 DEF Break
<1>3. ASSUME NEW t \in Threads, GetConnection(t) PROVE OwnerInv'
  BY <1>0, <1>00, <1>3 DEF GetConnection
<1>4. ASSUME NEW t \in Threads, CreatePool(t) PROVE OwnerInv'
  BY <1>0, <1>00, <1>4 DEF CreatePool
<1>5. ASSUME NEW t \in Threads, Maintain(t) PROVE OwnerInv'
  BY <1>0, <1>00, <1>5 DEF Maintain
<1>6. ASSUME NEW t \in Threads, SleepIfBusy(t) PROVE OwnerInv'
  BY <1>0, <1>00, <1>6 DEF SleepIfBusy
<1>7. ASSUME NEW t \in Threads, GrowOne(t) PROVE OwnerInv'
  <2>1. NewWrapper \in Wrappers /\ conn[NewWrapper] = None
    BY <1>7, Grown
  <2> QED
    BY <1>0, <1>00, <1>7, <2>1 DEF GrowOne
<1>8. ASSUME NEW t \in Threads, GrowFails(t) PROVE OwnerInv'
  BY <1>0, <1>00, <1>8 DEF GrowFails
<1>9. ASSUME NEW t \in Threads, GrowEnds(t) PROVE OwnerInv'
  BY <1>0, <1>00, <1>9 DEF GrowEnds
<1>10. ASSUME NEW t \in Threads, FindFree(t) PROVE OwnerInv'
  <2>1. Pooled \subseteq Wrappers
    BY PooledElements DEF IInv
  <2> QED
    BY <1>0, <1>00, <1>10, <2>1 DEF FindFree
<1>11. ASSUME NEW t \in Threads, FindNone(t) PROVE OwnerInv'
  BY <1>0, <1>00, <1>11 DEF FindNone
<1>12. ASSUME NEW t \in Threads, WaitEnds(t) PROVE OwnerInv'
  BY <1>0, <1>00, <1>12 DEF WaitEnds
<1>13. ASSUME NEW t \in Threads, TestOk(t) PROVE OwnerInv'
  BY <1>0, <1>00, <1>13 DEF TestOk, Obtain
<1>14. ASSUME NEW t \in Threads, TestFails(t) PROVE OwnerInv'
  BY <1>0, <1>00, <1>14 DEF TestFails, Obtain
<1>15. ASSUME NEW t \in Threads, ReplaceFails(t) PROVE OwnerInv'
  BY <1>0, <1>00, <1>15 DEF ReplaceFails, Obtain
<1>16. ASSUME NEW t \in Threads, ReturnConnection(t) PROVE OwnerInv'
  BY <1>0, <1>00, <1>16 DEF ReturnConnection
<1>17. ASSUME NEW t \in Threads, MatchPasses(t) PROVE OwnerInv'
  BY <1>0, <1>00, <1>17 DEF MatchPasses
<1>18. ASSUME NEW t \in Threads, MatchFound(t) PROVE OwnerInv'
  <2>1. AtCount(t) \in Wrappers /\ conn[AtCount(t)] = conn[slot[t]]
    BY <1>00, <1>18, ReachedInPool DEF MatchFound
  <2>2. AtCount(t) = slot[t]
    BY <1>00, <1>18, <2>1 DEF IInv, WrapperInv, MatchFound
  <2> QED
    BY <1>0, <1>00, <1>18, <2>1, <2>2 DEF MatchFound, MatchEnds
<1>19. ASSUME NEW t \in Threads, MatchNone(t) PROVE OwnerInv'
  BY <1>0, <1>00, <1>19 DEF MatchNone, MatchEnds
<1>20. ASSUME NEW t \in Threads, ClearBusy(t) PROVE OwnerInv'
  BY <1>0, <1>00, <1>20 DEF ClearBusy
<1>21. ASSUME NEW t \in Threads, RefreshOne(t) PROVE OwnerInv'
  <2> DEFINE w == pool[count[t] + 1]
  <2>1. w \in Wrappers /\ ~busy[w]
    BY <1>21, StolenStays, DueInPool DEF RefreshOne
  <2>2. /\ conn' = [conn EXCEPT ![w] = NewConn] /\ busy' = [busy EXCEPT ![w] = FALSE]
        /\ pc' = [pc EXCEPT ![t] = "refresh"] /\ UNCHANGED <<slot, held>>
    BY <1>21 DEF RefreshOne
  <2>3. pc[t] \notin Owning
    BY <1>21 DEF RefreshOne, Due
  <2> HIDE DEF w
  <2> QED
    BY <1>0, <1>00, <2>1, <2>2, <2>3
<1>22. ASSUME NEW t \in Threads, RefreshFails(t) PROVE OwnerInv'
  <2>1. pc' = [pc EXCEPT ![t] = "idle"] /\ UNCHANGED <<slot, held, busy, conn>>
    BY <1>22 DEF RefreshFails
  <2>2. pc[t] \notin Owning
    BY <1>22 DEF RefreshFails, Due
  <2> QED
    BY <1>0, <1>00, <2>1, <2>2
<1>23. ASSUME NEW t \in Threads, CloseOne(t) PROVE OwnerInv'
  <2>1. pc' = [pc EXCEPT ![t] = "close"] /\ UNCHANGED <<slot, held, busy, conn>>
    BY <1>23 DEF CloseOne
  <2>2. pc[t] \notin Owning
    BY <1>23 DEF CloseOne, Due
  <2> QED
    BY <1>0, <1>00, <2>1, <2>2
<1>24. ASSUME NEW t \in Threads, MaintainEnds(t) PROVE OwnerInv'
  BY <1>0, <1>00, <1>24 DEF MaintainEnds
<1> QED
  BY <1>1, <1>2, <1>3, <1>4, <1>5, <1>6, <1>7, <1>8, <1>9, <1>10, <1>11,
     <1>12, <1>13, <1>14, <1>15, <1>16, <1>17, <1>18, <1>19, <1>20, <1>21,
     <1>22, <1>23, <1>24,
     MaintainersAreThreads
  DEF Next, GetStep, ReturnStep, MaintainStep

------------------------------------------------------------------------------
\* A close ends by dropping the Vector.
LEMMA CloseDrops ==
  ASSUME IInv, [Next]_vars, NEW m \in Threads, Closing(m), ~Closing(m)'
  PROVE  Pooled' = {}
<1>0. pc \in [Threads -> PcValues] /\ pc[m] \in {"close", "closeSlept"}
  BY DEF IInv, TypeOK, Closing
<1>1. pc'[m] \notin {"close", "closeSlept"}
  BY DEF Closing
<1>2. ~UNCHANGED vars /\ Next
  BY <1>0, <1>1 DEF vars
<1>3. \A c \in Conns : ~Break(c)
  BY <1>0, <1>1 DEF Break
<1>4. \A t \in Threads : MaintainEnds(t) => Pooled' = {}
  <2> SUFFICES ASSUME NEW t \in Threads, MaintainEnds(t) PROVE Pooled' = {}
    OBVIOUS
  <2>1. t = m
    BY <1>0, <1>1 DEF MaintainEnds, Leave, Goto
  <2>2. pool' = None
    BY <1>0, <2>1 DEF MaintainEnds
  <2> QED
    BY <2>2 DEF Pooled
<1>5. \A t \in Threads : ~GetStep(t) /\ ~ReturnStep(t) /\ ~CreatePool(t) /\ ~GetConnection(t)
  <2> SUFFICES ASSUME NEW t \in Threads
               PROVE  ~GetStep(t) /\ ~ReturnStep(t) /\ ~CreatePool(t) /\ ~GetConnection(t)
    OBVIOUS
  <2> USE DEF Goto, Leave, Enter
  <2>1. ~GetStep(t)
    BY <1>0, <1>1 DEF GetStep, GrowOne, GrowFails, GrowEnds, FindFree, FindNone,
       WaitEnds, TestOk, TestFails, ReplaceFails, Obtain
  <2>2. ~ReturnStep(t)
    BY <1>0, <1>1 DEF ReturnStep, ReturnConnection, MatchPasses, MatchFound,
       MatchNone, MatchEnds, ClearBusy
  <2>3. ~CreatePool(t) /\ ~GetConnection(t)
    BY <1>0, <1>1 DEF CreatePool, GetConnection
  <2> QED
    BY <2>1, <2>2, <2>3
<1>6. \A t \in Threads : ~Maintain(t) /\ ~SleepIfBusy(t) /\ ~RefreshOne(t)
                         /\ ~RefreshFails(t) /\ ~CloseOne(t)
  <2> SUFFICES ASSUME NEW t \in Threads
               PROVE  ~Maintain(t) /\ ~SleepIfBusy(t) /\ ~RefreshOne(t)
                      /\ ~RefreshFails(t) /\ ~CloseOne(t)
    OBVIOUS
  <2> USE DEF Goto, Leave, Enter
  <2>1. ~Maintain(t) /\ ~SleepIfBusy(t)
    BY <1>0, <1>1 DEF Maintain, SleepIfBusy
  <2>2. ~RefreshOne(t)
    <3> SUFFICES ASSUME RefreshOne(t) PROVE FALSE
      OBVIOUS
    <3>1. pc' = [pc EXCEPT ![t] = "refresh"] /\ pc[t] \in {"refresh", "refreshSlept"}
      BY DEF RefreshOne, Due
    <3> QED
      BY <1>0, <1>1, <3>1
  <2>3. ~RefreshFails(t)
    <3> SUFFICES ASSUME RefreshFails(t) PROVE FALSE
      OBVIOUS
    <3>1. pc' = [pc EXCEPT ![t] = "idle"] /\ pc[t] \in {"refresh", "refreshSlept"}
      BY DEF RefreshFails, Due
    <3> QED
      BY <1>0, <1>1, <3>1
  <2>4. ~CloseOne(t)
    <3> SUFFICES ASSUME CloseOne(t) PROVE FALSE
      OBVIOUS
    <3>1. pc' = [pc EXCEPT ![t] = "close"]
      BY DEF CloseOne
    <3> QED
      BY <1>0, <1>1, <3>1
  <2> QED
    BY <2>1, <2>2, <2>3, <2>4
<1> QED
  BY <1>2, <1>3, <1>4, <1>5, <1>6, MaintainersAreThreads DEF Next, MaintainStep

\* A wrapper that is found by its connection is the one the thread has, and
\* one that it has in the pool is found.
LEMMA ReturnFinds ==
  ASSUME IInv, NEW t \in Threads, pc[t] = "match", held[t] = conn[slot[t]]
  PROVE  /\ MatchFound(t) => AtCount(t) = slot[t]
         /\ (\A m \in Threads : ~Closing(m)) /\ MatchNone(t) => slot[t] \notin Pooled
<1>0. TypeOK /\ WrapperInv /\ ReturnInv
  BY DEF IInv
<1>1. ASSUME MatchFound(t) PROVE AtCount(t) = slot[t]
  <2>1. AtCount(t) \in Wrappers
    BY <1>1, ReachedInPool DEF MatchFound
  <2>2. /\ conn[AtCount(t)] = conn[slot[t]]
        /\ slot[t] \in Wrappers /\ conn[slot[t]] # None
    BY <1>0, <1>1 DEF MatchFound, WrapperInv, Owning
  <2> QED
    BY <1>0, <2>1, <2>2 DEF WrapperInv
<1>2. ASSUME \A m \in Threads : ~Closing(m), MatchNone(t), slot[t] \in Pooled PROVE FALSE
  <2>1. PICK i \in 1..Len(pool) : i > count[t] /\ pool[i] = slot[t]
    BY <1>0, <1>2 DEF ReturnInv, Ahead
  <2>2. pool # None /\ Len(pool) \in Nat /\ count[t] \in Nat
    BY <1>0, <1>2, PooledElements DEF Pooled, TypeOK
  <2> QED
    BY <1>2, <2>1, <2>2 DEF MatchNone, Reached
<1> QED
  BY <1>1, <1>2

\* A step that leaves the pool and its connections, and takes no thread that
\* has a wrapper elsewhere, leaves the wrappers to those who have them.
LEMMA Undisturbed ==
  ASSUME IInv, ReturnInv, UNCHANGED <<pool, Pooled, conn, slot>>,
         \A m \in Threads : ~Closing(m),
         \A w \in Wrappers : busy'[w] => busy[w],
         \A s \in Threads : pc[s] \in Owning \/ pc'[s] \in Owning =>
           /\ pc'[s] = pc[s] /\ held'[s] = held[s]
           /\ pc[s] = "match" => count'[s] = count[s]
  PROVE  /\ \A s \in Threads : Ahead(s)'
         /\ \A w \in Pooled' : busy'[w] => Used(w)'
<1>1. ASSUME NEW s \in Threads PROVE Ahead(s)'
  BY DEF ReturnInv, Ahead, Owning
<1>2. ASSUME NEW w \in Pooled', busy'[w] PROVE Used(w)'
  <2>1. PICK t \in Threads : Has(t, w)
    BY <1>2, PooledElements DEF IInv, ReturnInv, Used
  <2>2. Has(t, w)'
    BY <2>1 DEF Has, Owning
  <2> QED
    BY <2>2 DEF Used
<1> QED
  BY <1>1, <1>2

\* A step of t leaves the wrappers of the others to them, but for one it gives
\* a new connection.  What is busy after it is t's or is another's still.
LEMMA OneMoves ==
  ASSUME IInv, ReturnInv, UNCHANGED <<pool, Pooled>>, NEW t \in Threads,
         \A m \in Threads : ~Closing(m),
         \A s \in Threads \ {t} :
           /\ pc'[s] = pc[s] /\ slot'[s] = slot[s] /\ held'[s] = held[s]
           /\ count'[s] = count[s]
           /\ pc[s] = "match" /\ held[s] = conn'[slot[s]] => held[s] = conn[slot[s]],
         Ahead(t)',
         \A w \in Pooled : busy'[w] =>
           Has(t, w)' \/ (busy[w] /\ conn'[w] = conn[w] /\ ~Has(t, w))
  PROVE  /\ \A s \in Threads : Ahead(s)'
         /\ \A w \in Pooled' : busy'[w] => Used(w)'
<1>1. ASSUME NEW s \in Threads \ {t} PROVE Ahead(s)'
  BY DEF ReturnInv, Ahead
<1>2. ASSUME NEW w \in Pooled', busy'[w] PROVE Used(w)'
  <2>1. CASE Has(t, w)'
    BY <2>1 DEF Used
  <2>2. CASE busy[w] /\ conn'[w] = conn[w] /\ ~Has(t, w)
    <3>1. PICK r \in Threads : Has(r, w)
      BY <1>2, <2>2 DEF ReturnInv, Used
    <3>2. Has(r, w)'
      BY <2>2, <3>1 DEF Has
    <3> QED
      BY <3>2 DEF Used
  <2> QED
    BY <1>2, <2>1, <2>2
<1> QED
  BY <1>1, <1>2

\* While the pool is not being closed, no return misses the wrapper that its
\* thread has, and no wrapper is busy for nobody.
LEMMA ReturnKeeps == IInv /\ TypeOK' /\ [Next]_vars => ReturnInv'
<1> DEFINE A == \A s \in Threads : Ahead(s)
           U == \A w \in Pooled : busy[w] => Used(w)
<1> SUFFICES ASSUME IInv, TypeOK', [Next]_vars, \A m \in Threads : ~Closing(m)'
             PROVE  A' /\ U'
  BY DEF ReturnInv
<1>b. ASSUME NEW m \in Threads, Closing(m) PROVE A' /\ U'
  BY <1>b, CloseDrops DEF Ahead
<1> SUFFICES ASSUME \A m \in Threads : ~Closing(m) PROVE A' /\ U'
  BY <1>b
<1>0. /\ pc \in [Threads -> PcValues] /\ slot \in [Threads -> Wrappers \cup {None}]
      /\ busy \in [Wrappers -> BOOLEAN] /\ count \in [Threads -> Nat]
      /\ held \in [Threads -> Conns \cup {None}] /\ conn \in [Wrappers -> Conns \cup {None}]
      /\ Pooled \subseteq Wrappers
      /\ ReturnInv /\ WrapperInv /\ HeldIsOpened
  BY PooledElements DEF IInv, TypeOK
<1>00. /\ \A s \in Threads : pc[s] = "match" /\ slot[s] \in Pooled /\ held[s] = conn[slot[s]] =>
            \E i \in 1..Len(pool) : i > count[s] /\ pool[i] = slot[s]
       /\ \A w \in Pooled : busy[w] => \E r \in Threads : Has(r, w)
  BY <1>0 DEF ReturnInv, Ahead, Used
\* A wrapper that is given a new connection is lost to those who had it.
<1>c. ASSUME NEW u \in Wrappers, NewConn \in Conns, status[NewConn] = "new",
             conn' = [conn EXCEPT ![u] = NewConn], NEW s \in Threads,
             pc[s] \in {"using", "match"}, held'[s] = held[s], slot'[s] = slot[s],
             held'[s] = conn'[slot'[s]]
      PROVE  slot[s] # u /\ held[s] = conn[slot[s]]
  <2>1. slot[s] \in Wrappers /\ conn[slot[s]] # None
    BY <1>0, <1>c DEF WrapperInv, Owning
  <2>2. held[s] # NewConn
    BY <1>0, <1>c, NoneIsNothing DEF HeldIsOpened
  <2> QED
    BY <1>0, <1>c, <2>1, <2>2
<1>1. CASE UNCHANGED vars
  <2>1. Pooled' = Pooled
    BY <1>1 DEF vars, Pooled
  <2> QED
    BY <1>0, <1>1, <2>1, Undisturbed DEF vars
<1>2. ASSUME NEW c \in Conns, Break(c) PROVE A' /\ U'
  <2>1. pool' = pool /\ Pooled' = Pooled
    BY <1>2 DEF Break, PoolUnchanged, Pooled
  <2> QED
    BY <1>0, <1>2, <2>1, Undisturbed DEF Break
<1>3. ASSUME NEW t \in Threads, GetConnection(t) PROVE A' /\ U'
  <2>1. pool' = pool /\ Pooled' = Pooled
    BY <1>3, PoolFixed DEF Fixed
  <2>2. UNCHANGED <<conn, slot, held, busy>>
    BY <1>3 DEF GetConnection, ConnsUnchanged
  <2>3. \A s \in Threads : pc[s] \in Owning \/ pc'[s] \in Owning =>
          pc'[s] = pc[s] /\ count'[s] = count[s]
    BY <1>0, <1>3 DEF GetConnection, Owning, Goto, Enter, Leave
  <2> QED
    BY <1>0, <2>1, <2>2, <2>3, Undisturbed
<1>4. ASSUME NEW t \in Threads, Maintain(t) PROVE A' /\ U'
  <2>1. pool' = pool /\ Pooled' = Pooled
    BY <1>4, PoolFixed DEF Fixed
  <2>2. UNCHANGED <<conn, slot, held, busy>>
    BY <1>4 DEF Maintain, ConnsUnchanged
  <2>3. \A s \in Threads : pc[s] \in Owning \/ pc'[s] \in Owning =>
          pc'[s] = pc[s] /\ count'[s] = count[s]
    BY <1>0, <1>4 DEF Maintain, Owning, Goto, Enter, Leave
  <2> QED
    BY <1>0, <2>1, <2>2, <2>3, Undisturbed
<1>5. ASSUME NEW t \in Threads, SleepIfBusy(t) PROVE A' /\ U'
  <2>1. pool' = pool /\ Pooled' = Pooled
    BY <1>5, PoolFixed DEF Fixed
  <2>2. UNCHANGED <<conn, slot, held, busy>>
    BY <1>5 DEF SleepIfBusy, ConnsUnchanged
  <2>3. \A s \in Threads : pc[s] \in Owning \/ pc'[s] \in Owning =>
          pc'[s] = pc[s] /\ count'[s] = count[s]
    BY <1>0, <1>5 DEF SleepIfBusy, Owning, Goto, Enter, Leave
  <2> QED
    BY <1>0, <2>1, <2>2, <2>3, Undisturbed
<1>6. ASSUME NEW t \in Threads, GrowFails(t) PROVE A' /\ U'
  <2>1. pool' = pool /\ Pooled' = Pooled
    BY <1>6, PoolFixed DEF Fixed
  <2>2. UNCHANGED <<conn, slot, held, busy>>
    BY <1>6 DEF GrowFails, ConnsUnchanged
  <2>3. \A s \in Threads : pc[s] \in Owning \/ pc'[s] \in Owning =>
          pc'[s] = pc[s] /\ count'[s] = count[s]
    BY <1>0, <1>6 DEF GrowFails, Owning, Goto, Enter, Leave
  <2> QED
    BY <1>0, <2>1, <2>2, <2>3, Undisturbed
<1>7. ASSUME NEW t \in Threads, GrowEnds(t) PROVE A' /\ U'
  <2>1. pool' = pool /\ Pooled' = Pooled
    BY <1>7, PoolFixed DEF Fixed
  <2>2. UNCHANGED <<conn, slot, held, busy>>
    BY <1>7 DEF GrowEnds, ConnsUnchanged
  <2>3. \A s \in Threads : pc[s] \in Owning \/ pc'[s] \in Owning =>
          pc'[s] = pc[s] /\ count'[s] = count[s]
    BY <1>0, <1>7 DEF GrowEnds, Owning, Goto, Enter, Leave
  <2> QED
    BY <1>0, <2>1, <2>2, <2>3, Undisturbed
<1>8. ASSUME NEW t \in Threads, FindNone(t) PROVE A' /\ U'
  <2>1. pool' = pool /\ Pooled' = Pooled
    BY <1>8, PoolFixed DEF Fixed
  <2>2. UNCHANGED <<conn, slot, held, busy>>
    BY <1>8 DEF FindNone, ConnsUnchanged
  <2>3. \A s \in Threads : pc[s] \in Owning \/ pc'[s] \in Owning =>
          pc'[s] = pc[s] /\ count'[s] = count[s]
    BY <1>0, <1>8 DEF FindNone, Owning, Goto, Enter, Leave
  <2> QED
    BY <1>0, <2>1, <2>2, <2>3, Undisturbed
<1>9. ASSUME NEW t \in Threads, WaitEnds(t) PROVE A' /\ U'
  <2>1. pool' = pool /\ Pooled' = Pooled
    BY <1>9, PoolFixed DEF Fixed
  <2>2. UNCHANGED <<conn, slot, held, busy>>
    BY <1>9 DEF WaitEnds, ConnsUnchanged
  <2>3. \A s \in Threads : pc[s] \in Owning \/ pc'[s] \in Owning =>
          pc'[s] = pc[s] /\ count'[s] = count[s]
    BY <1>0, <1>9 DEF WaitEnds, Owning, Goto, Enter, Leave
  <2> QED
    BY <1>0, <2>1, <2>2, <2>3, Undisturbed
<1>10. ASSUME NEW t \in Threads, RefreshFails(t) PROVE A' /\ U'
  <2>1. pool' = pool /\ Pooled' = Pooled
    BY <1>10, PoolFixed DEF Fixed
  <2>2. UNCHANGED <<conn, slot, held, busy>>
    BY <1>10 DEF RefreshFails
  <2>3. \A s \in Threads : pc[s] \in Owning \/ pc'[s] \in Owning =>
          pc'[s] = pc[s] /\ count'[s] = count[s]
    BY <1>0, <1>10 DEF RefreshFails, Due, Owning, Leave, Goto
  <2> QED
    BY <1>0, <2>1, <2>2, <2>3, Undisturbed
<1>11. ASSUME NEW t \in Threads, MaintainEnds(t) PROVE A' /\ U'
  <2>1. pool' = pool /\ Pooled' = Pooled
    BY <1>11 DEF MaintainEnds, Closing, Pooled
  <2>2. UNCHANGED <<conn, slot, held, busy>>
    BY <1>11 DEF MaintainEnds, ConnsUnchanged
  <2>3. \A s \in Threads : pc[s] \in Owning \/ pc'[s] \in Owning =>
          pc'[s] = pc[s] /\ count'[s] = count[s]
    BY <1>0, <1>11 DEF MaintainEnds, Owning, Leave, Goto
  <2> QED
    BY <1>0, <2>1, <2>2, <2>3, Undisturbed
<1>12. ASSUME NEW t \in Threads, FindFree(t) PROVE A' /\ U'
  <2>1. pool' = pool /\ Pooled' = Pooled
    BY <1>12, PoolFixed DEF Fixed
  <2>2. \A s \in Threads \ {t} :
          /\ pc'[s] = pc[s] /\ slot'[s] = slot[s] /\ held'[s] = held[s]
          /\ count'[s] = count[s]
    BY <1>0, <1>12 DEF FindFree, Goto
  <2>3. Ahead(t)' /\ conn' = conn /\ pc[t] \notin Owning
    BY <1>0, <1>12 DEF FindFree, Ahead, Goto, Owning
  <2>4. \A w \in Pooled : busy'[w] => Has(t, w)' \/ (busy[w] /\ ~Has(t, w))
    BY <1>0, <1>12 DEF FindFree, Has, Goto
  <2> QED
    BY <1>0, <2>1, <2>2, <2>3, <2>4, OneMoves
<1>13. ASSUME NEW t \in Threads, TestOk(t) PROVE A' /\ U'
  <2>1. pool' = pool /\ Pooled' = Pooled
    BY <1>13, PoolFixed DEF Fixed
  <2>2. \A s \in Threads \ {t} :
          /\ pc'[s] = pc[s] /\ slot'[s] = slot[s] /\ held'[s] = held[s]
          /\ count'[s] = count[s]
    BY <1>0, <1>13 DEF TestOk, Obtain, Leave, Goto
  <2>3. Ahead(t)' /\ conn' = conn /\ busy' = busy
    BY <1>0, <1>13 DEF TestOk, Obtain, Leave, Goto, Ahead, ConnsUnchanged
  <2>4. \A w \in Pooled : Has(t, w) => Has(t, w)'
    BY <1>0, <1>13 DEF TestOk, Obtain, Leave, Goto, Has, ConnsUnchanged
  <2> QED
    BY <1>0, <2>1, <2>2, <2>3, <2>4, OneMoves
<1>14. ASSUME NEW t \in Threads, ReplaceFails(t) PROVE A' /\ U'
  <2>1. pool' = pool /\ Pooled' = Pooled
    BY <1>14, PoolFixed DEF Fixed
  <2>2. \A s \in Threads \ {t} :
          /\ pc'[s] = pc[s] /\ slot'[s] = slot[s] /\ held'[s] = held[s]
          /\ count'[s] = count[s]
    BY <1>0, <1>14 DEF ReplaceFails, Obtain, Leave, Goto
  <2>3. Ahead(t)' /\ conn' = conn /\ busy' = busy
    BY <1>0, <1>14 DEF ReplaceFails, Obtain, Leave, Goto, Ahead, ConnsUnchanged
  <2>4. \A w \in Pooled : Has(t, w) => Has(t, w)'
    BY <1>0, <1>14 DEF ReplaceFails, Obtain, Leave, Goto, Has, ConnsUnchanged
  <2> QED
    BY <1>0, <2>1, <2>2, <2>3, <2>4, OneMoves
<1>15. ASSUME NEW t \in Threads, TestFails(t) PROVE A' /\ U'
  <2>1. pool' = pool /\ Pooled' = Pooled
    BY <1>15, PoolFixed DEF Fixed
  <2>2. \A s \in Threads \ {t} :
          /\ pc'[s] = pc[s] /\ slot'[s] = slot[s] /\ held'[s] = held[s]
          /\ count'[s] = count[s]
    BY <1>0, <1>15 DEF TestFails, Obtain, Leave, Goto
  <2>3. /\ NewConn \in Conns /\ status[NewConn] = "new" /\ slot[t] \in Wrappers
        /\ conn' = [conn EXCEPT ![slot[t]] = NewConn]
        /\ held'[t] = NewConn /\ pc'[t] = "using" /\ pc[t] = "test"
        /\ UNCHANGED <<busy, slot>>
    BY <1>0, <1>15, FreshConn DEF TestFails, Obtain, Leave, Goto, WrapperInv, Owning
  <2>4. \A s \in Threads \ {t} :
          pc[s] = "match" /\ held[s] = conn'[slot[s]] => held[s] = conn[slot[s]]
    BY <1>c, <2>2, <2>3
  <2>5. Ahead(t)'
    BY <2>3 DEF Ahead
  <2>6. \A w \in Pooled : busy'[w] =>
          Has(t, w)' \/ (busy[w] /\ conn'[w] = conn[w] /\ ~Has(t, w))
    BY <1>0, <2>3 DEF Has
  <2> QED
    BY <1>0, <2>1, <2>2, <2>4, <2>5, <2>6, OneMoves
<1>16. ASSUME NEW t \in Threads, RefreshOne(t) PROVE A' /\ U'
  <2>1. pool' = pool /\ Pooled' = Pooled
    BY <1>16, PoolFixed DEF Fixed
  <2> DEFINE u == pool[count[t] + 1]
  <2>2. /\ NewConn \in Conns /\ status[NewConn] = "new" /\ u \in Wrappers
        /\ conn' = [conn EXCEPT ![u] = NewConn] /\ busy' = [busy EXCEPT ![u] = FALSE]
        /\ pc' = [pc EXCEPT ![t] = "refresh"] /\ UNCHANGED <<slot, held>>
        /\ count' = [count EXCEPT ![t] = @ + 1]
    BY <1>0, <1>16, FreshConn, DueInPool DEF RefreshOne, Goto
  <2>3. pc[t] \notin Owning
    BY <1>16 DEF RefreshOne, Due, Owning
  <2> HIDE DEF u
  <2>4. \A s \in Threads \ {t} :
          /\ pc'[s] = pc[s] /\ slot'[s] = slot[s] /\ held'[s] = held[s]
          /\ count'[s] = count[s]
    BY <1>0, <2>2
  <2>5. \A s \in Threads \ {t} :
          pc[s] = "match" /\ held[s] = conn'[slot[s]] => held[s] = conn[slot[s]]
    BY <1>c, <2>2, <2>4
  <2>6. Ahead(t)'
    BY <1>0, <2>2 DEF Ahead
  <2>7. \A w \in Pooled : busy'[w] => busy[w] /\ conn'[w] = conn[w] /\ ~Has(t, w)
    BY <1>0, <2>2, <2>3 DEF Has, Owning
  <2> QED
    BY <1>0, <2>1, <2>4, <2>5, <2>6, <2>7, OneMoves
<1>17. ASSUME NEW t \in Threads, ReturnConnection(t) PROVE A' /\ U'
  <2>1. pool' = pool /\ Pooled' = Pooled
    BY <1>17, PoolFixed DEF Fixed
  <2>2. \A s \in Threads \ {t} :
          /\ pc'[s] = pc[s] /\ slot'[s] = slot[s] /\ held'[s] = held[s]
          /\ count'[s] = count[s]
    BY <1>0, <1>17 DEF ReturnConnection, Goto
  <2>3. UNCHANGED <<conn, busy>> /\ count'[t] = 0 /\ pc[t] = "using"
    BY <1>0, <1>17 DEF ReturnConnection, ConnsUnchanged
  <2>4. CASE pool = None
    <3>1. Pooled = {} /\ pc'[t] = "idle"
      BY <1>0, <1>17, <2>4 DEF Pooled, ReturnConnection, Goto
    <3>2. Ahead(t)'
      BY <3>1 DEF Ahead
    <3> QED
      BY <1>0, <2>1, <2>2, <2>3, <3>1, <3>2, OneMoves
  <2>5. CASE pool # None
    <3>1. Pooled = {pool[i] : i \in 1..Len(pool)} /\ Len(pool) \in Nat
      BY <2>5, PooledElements DEF IInv
    <3>2. Ahead(t)'
      BY <2>1, <2>3, <3>1 DEF Ahead
    <3>3. pc'[t] = "match" /\ UNCHANGED <<slot, held>>
      BY <1>0, <1>17, <2>5 DEF ReturnConnection, Goto
    <3>4. \A w \in Pooled : Has(t, w) => Has(t, w)'
      BY <2>3, <3>3 DEF Has
    <3> QED
      BY <1>0, <2>1, <2>2, <2>3, <3>2, <3>4, OneMoves
  <2> QED
    BY <2>4, <2>5
<1>18. ASSUME NEW t \in Threads, MatchPasses(t) PROVE A' /\ U'
  <2>1. pool' = pool /\ Pooled' = Pooled
    BY <1>18, PoolFixed DEF Fixed
  <2>2. \A s \in Threads \ {t} :
          /\ pc'[s] = pc[s] /\ slot'[s] = slot[s] /\ held'[s] = held[s]
          /\ count'[s] = count[s]
    BY <1>0, <1>18 DEF MatchPasses
  <2>3. /\ UNCHANGED <<conn, busy, pc, slot, held>>
        /\ held[t] = conn[slot[t]] => AtCount(t) # slot[t]
        /\ count'[t] = count[t] + 1
    BY <1>0, <1>18 DEF MatchPasses, ConnsUnchanged
  <2>4. Ahead(t)'
    <3> SUFFICES ASSUME pc[t] = "match", slot[t] \in Pooled, held[t] = conn[slot[t]]
                 PROVE  \E i \in 1..Len(pool) : i > count[t] + 1 /\ pool[i] = slot[t]
      BY <2>1, <2>3 DEF Ahead
    <3>1. PICK i \in 1..Len(pool) : i > count[t] /\ pool[i] = slot[t]
      BY <1>00
    <3>2. i # count[t] + 1
      BY <2>3, <3>1 DEF AtCount
    <3> QED
      BY <1>0, <3>1, <3>2
  <2>5. \A w \in Pooled : Has(t, w) => Has(t, w)'
    BY <2>3 DEF Has
  <2> QED
    BY <1>0, <2>1, <2>2, <2>3, <2>4, <2>5, OneMoves
<1>19. ASSUME NEW t \in Threads, MatchFound(t) PROVE A' /\ U'
  <2>1. pool' = pool /\ Pooled' = Pooled
    BY <1>19, PoolFixed DEF Fixed
  <2>2. \A s \in Threads \ {t} :
          /\ pc'[s] = pc[s] /\ slot'[s] = slot[s] /\ held'[s] = held[s]
          /\ count'[s] = count[s]
    BY <1>0, <1>19 DEF MatchFound, MatchEnds, Goto
  <2>3. /\ UNCHANGED <<conn, busy>> /\ pc[t] = "match"
        /\ slot'[t] = AtCount(t) /\ pc'[t] = "clear"
        /\ held[t] = conn[slot[t]] => AtCount(t) = slot[t]
    BY <1>0, <1>19, ReturnFinds DEF MatchFound, MatchEnds, Goto, ConnsUnchanged
  <2>4. Ahead(t)'
    BY <2>3 DEF Ahead
  <2>5. \A w \in Pooled : Has(t, w) => Has(t, w)'
    BY <2>3 DEF Has
  <2> QED
    BY <1>0, <2>1, <2>2, <2>3, <2>4, <2>5, OneMoves
<1>20. ASSUME NEW t \in Threads, MatchNone(t) PROVE A' /\ U'
  <2>1. pool' = pool /\ Pooled' = Pooled
    BY <1>20, PoolFixed DEF Fixed
  <2>2. \A s \in Threads \ {t} :
          /\ pc'[s] = pc[s] /\ slot'[s] = slot[s] /\ held'[s] = held[s]
          /\ count'[s] = count[s]
    BY <1>0, <1>20 DEF MatchNone, MatchEnds, Goto
  <2>3. /\ UNCHANGED <<conn, busy>> /\ pc[t] = "match" /\ pc'[t] = "idle"
        /\ held[t] = conn[slot[t]] => slot[t] \notin Pooled
    BY <1>0, <1>20, ReturnFinds DEF MatchNone, MatchEnds, Goto, ConnsUnchanged
  <2>4. Ahead(t)'
    BY <2>3 DEF Ahead
  <2>5. \A w \in Pooled : ~Has(t, w)
    BY <2>3 DEF Has
  <2> QED
    BY <1>0, <2>1, <2>2, <2>3, <2>4, <2>5, OneMoves
<1>21. ASSUME NEW t \in Threads, ClearBusy(t) PROVE A' /\ U'
  <2>1. pool' = pool /\ Pooled' = Pooled
    BY <1>21, PoolFixed DEF Fixed
  <2>2. \A s \in Threads \ {t} :
          /\ pc'[s] = pc[s] /\ slot'[s] = slot[s] /\ held'[s] = held[s]
          /\ count'[s] = count[s]
    BY <1>0, <1>21 DEF ClearBusy, Goto
  <2>3. /\ conn' = conn /\ pc[t] = "clear" /\ pc'[t] = "idle"
        /\ slot[t] \in Wrappers /\ busy' = [busy EXCEPT ![slot[t]] = FALSE]
    BY <1>0, <1>21 DEF ClearBusy, Goto, WrapperInv, Owning
  <2>4. Ahead(t)'
    BY <2>3 DEF Ahead
  <2>5. \A w \in Pooled : busy'[w] => busy[w] /\ ~Has(t, w)
    BY <1>0, <2>3 DEF Has
  <2> QED
    BY <1>0, <2>1, <2>2, <2>3, <2>4, <2>5, OneMoves
<1>22. ASSUME NEW t \in Threads, CreatePool(t) PROVE A' /\ U'
  <2>1. pool' = <<>> /\ pool' # None
    BY <1>22, EmptySeq, NoneIsNothing DEF CreatePool
  <2>2. Pooled' = {}
    BY <2>1 DEF Pooled, Range
  <2> QED
    BY <2>2 DEF Ahead
<1>23. ASSUME NEW t \in Threads, GrowOne(t) PROVE A' /\ U'
  <2>1. /\ \A s \in Threads : pc[s] \in Owning => slot[s] # NewWrapper
        /\ ~busy[NewWrapper]
    BY <1>23, Grown DEF IInv, WrapperInv, Owning
  <2>2. /\ Pooled' = Pooled \cup {NewWrapper} /\ NewWrapper \in Wrappers
        /\ Len(pool) \in Nat /\ Len(pool') = Len(pool) + 1
        /\ \A i \in 1..Len(pool) : pool'[i] = pool[i]
    BY <1>23, Grown
  <2>3. /\ UNCHANGED <<busy, pc, slot, held>>
        /\ conn' = [conn EXCEPT ![NewWrapper] = NewConn]
        /\ pc[t] # "match" /\ \A s \in Threads \ {t} : count'[s] = count[s]
    BY <1>0, <1>23 DEF GrowOne
  <2>4. A'
    <3> SUFFICES ASSUME NEW s \in Threads, pc[s] = "match", slot[s] \in Pooled,
                        held[s] = conn[slot[s]]
                 PROVE  \E i \in 1..Len(pool') : i > count'[s] /\ pool'[i] = slot'[s]
      BY <1>0, <2>1, <2>2, <2>3 DEF Ahead, Owning
    <3>1. PICK i \in 1..Len(pool) : i > count[s] /\ pool[i] = slot[s]
      BY <1>00
    <3> QED
      BY <2>2, <2>3, <3>1
  <2>5. U'
    BY <1>0, <1>00, <2>1, <2>2, <2>3 DEF Used, Has
  <2> QED
    BY <2>4, <2>5
<1>24. ASSUME NEW t \in Threads, CloseOne(t) PROVE FALSE
  BY <1>24 DEF CloseOne, Due, Closing
<1> QED
  BY <1>1, <1>2, <1>3, <1>4, <1>5, <1>6, <1>7, <1>8, <1>9, <1>10, <1>11, <1>12,
      <1>13, <1>14, <1>15, <1>16, <1>17, <1>18, <1>19, <1>20, <1>21, <1>22, <1>23, <1>24,
     MaintainersAreThreads
  DEF Next, GetStep, ReturnStep, MaintainStep

------------------------------------------------------------------------------
\* Together, every step keeps the invariant.
LEMMA StepKeeps == IInv /\ [Next]_vars => IInv'
BY TypeStep, MonitorStep, BoundStep, WrapperStep, OpenedStep, OwnerStep, ReturnKeeps DEF IInv

\* Every reachable state of the pool is as IInv says: the monitor's thread is
\* the one in synchronized code, wrappers do not share connections, and
\* while refresh and close find idle ones, threads do not share wrappers.
THEOREM InductiveInvariant == Spec => []IInv
BY InitHolds, StepKeeps, PTL DEF Spec

\* The pool's fields and its threads' locals have their types at all times.
THEOREM Typing == Spec => []TypeOK
<1>1. IInv => TypeOK
  BY DEF IInv
<1> QED
  BY <1>1, InductiveInvariant, PTL

\* createConnections() never takes the pool over the limit in force, also
\* when newConnection() has just lowered it to the driver's.
THEOREM LimitHolds == Spec => []PoolBounded
<1>1. IInv => PoolBounded
  BY DEF IInv
<1> QED
  BY <1>1, InductiveInvariant, PTL

\* getConnection() gives a connection to one thread at a time, although
\* returnConnection() clears busy flags outside the monitor, as long as
\* refresh and close have not taken one that was in use.
THEOREM ConnectionsExclude == Spec => []ConnectionExclusive
<1>1. IInv => ConnectionExclusive
  <2> SUFFICES ASSUME IInv, ~stolen, NEW s \in Threads, NEW t \in Threads,
                      held[s] # None, held[s] = held[t]
               PROVE  s = t
    BY DEF ConnectionExclusive
  <2>1. pc[s] \in {"using", "match"} /\ pc[t] \in {"using", "match"}
    BY DEF IInv, OwnerInv
  <2>2. /\ slot[s] \in Wrappers /\ slot[t] \in Wrappers
        /\ conn[slot[s]] = conn[slot[t]] /\ conn[slot[s]] # None
    BY <2>1 DEF IInv, OwnerInv, WrapperInv, Owning
  <2>3. slot[s] = slot[t]
    BY <2>2 DEF IInv, WrapperInv
  <2> QED
    BY <2>1, <2>3 DEF IInv, OwnerInv, Owning
<1> QED
  BY <1>1, InductiveInvariant, PTL

\* No wrapper of the pool stays busy for nobody: every busy one has a thread
\* between its search and its setBusy(false) whose return finds it, also when
\* refreshConnections() has given other wrappers new connections.
THEOREM BusyIsUsed == Spec => []BusyHasUser
<1>1. IInv => BusyHasUser
  BY DEF IInv, ReturnInv, Used, BusyHasUser
<1> QED
  BY <1>1, InductiveInvariant, PTL

\* A thread that waits for a connection, with the monitor in hand, waits for
\* nobody who waits for the monitor: a wrapper of the pool is free by now, or
\* another thread uses or returns it, for which it needs no monitor.
WaiterIsServed ==
  \A t \in Threads : pc[t] = "wait" /\ pool # <<>> =>
    \E w \in Pooled :
      \/ ~busy[w]
      \/ \E s \in Threads \ {t} : Has(s, w) /\ pc[s] \in {"using", "match", "clear"}

\* Of WaiterObtains, this is what the code has to see to: whoever sleeps in
\* getConnection() does not sleep on those who queue for its monitor.
THEOREM WaitersAreServed == Spec => []WaiterIsServed
<1>1. IInv => WaiterIsServed
  <2> SUFFICES ASSUME IInv, NEW t \in Threads, pc[t] = "wait", pool # <<>>
               PROVE  \E w \in Pooled :
                        \/ ~busy[w]
                        \/ \E s \in Threads \ {t} :
                             Has(s, w) /\ pc[s] \in {"using", "match", "clear"}
    BY DEF WaiterIsServed
  <2>1. monitor = t /\ pool # None
    BY DEF IInv, MonitorInv, Inside
  <2>2. \A s \in Threads \ {t} : pc[s] \notin Inside
    BY <2>1 DEF IInv, MonitorInv
  <2>3. \A m \in Threads : ~Closing(m)
    BY <2>2 DEF Closing, Inside
  <2>4. PICK w \in Pooled : TRUE
    <3>1. pool \in Seq(Wrappers) /\ Len(pool) \in Nat /\ Pooled = {pool[i] : i \in 1..Len(pool)}
      BY <2>1, PooledElements DEF IInv
    <3>2. Len(pool) > 0
      BY <3>1, EmptySeq
    <3> QED
      BY <3>1, <3>2
  <2>5. CASE busy[w]
    <3>1. PICK s \in Threads : Has(s, w)
      BY <2>3, <2>5 DEF IInv, ReturnInv, Used
    <3>2. s # t /\ pc[s] # "test"
      BY <2>2, <3>1 DEF Has, Inside
    <3> QED
      BY <3>1, <3>2 DEF Has
  <2> QED
    BY <2>5
<1> QED
  BY <1>1, InductiveInvariant, PTL

------------------------------------------------------------------------------
\* A thread has a connection in hand from getConnection() until its return has
\* found the wrapper, disturbed or not.
HeldInv == \A t \in Threads : held[t] # None <=> pc[t] \in {"using", "match"}

LEMMA InitHeld == Init => HeldInv
BY DEF Init, HeldInv

LEMMA HeldStep == IInv /\ HeldInv /\ [Next]_vars => HeldInv'
<1> SUFFICES ASSUME IInv, HeldInv, [Next]_vars PROVE HeldInv'
  OBVIOUS
<1>0. /\ pc \in [Threads -> PcValues] /\ held \in [Threads -> Conns \cup {None}]
      /\ None \notin Conns
      /\ \A t \in Threads : pc[t] = "test" => conn[slot[t]] \in Conns
  BY NoneIsNothing DEF IInv, TypeOK, WrapperInv, Owning
<1> USE DEF HeldInv, Goto, Enter, Leave
<1>1. CASE UNCHANGED vars
  BY <1>1 DEF vars
<1>2. ASSUME NEW c \in Conns, Break(c) PROVE HeldInv'
  BY <1>2 DEF Break
<1>3. ASSUME NEW t \in Threads, GetConnection(t) \/ CreatePool(t) PROVE HeldInv'
  BY <1>0, <1>3 DEF GetConnection, CreatePool
<1>4. ASSUME NEW t \in Threads,
             GrowOne(t) \/ GrowFails(t) \/ GrowEnds(t) \/ FindFree(t) \/ FindNone(t) \/ WaitEnds(t)
      PROVE  HeldInv'
  BY <1>0, <1>4 DEF GrowOne, GrowFails, GrowEnds, FindFree, FindNone, WaitEnds
<1>5. ASSUME NEW t \in Threads, TestOk(t) \/ TestFails(t) \/ ReplaceFails(t) PROVE HeldInv'
  BY <1>0, <1>5, FreshConn DEF TestOk, TestFails, ReplaceFails, Obtain
<1>6. ASSUME NEW t \in Threads, ReturnStep(t) PROVE HeldInv'
  BY <1>0, <1>6
  DEF ReturnStep, ReturnConnection, MatchPasses, MatchFound, MatchNone, MatchEnds, ClearBusy
<1>7. ASSUME NEW t \in Threads, MaintainStep(t) PROVE HeldInv'
  <2>1. CASE RefreshOne(t) \/ RefreshFails(t) \/ CloseOne(t)
    BY <1>0, <2>1 DEF RefreshOne, RefreshFails, CloseOne, Due
  <2>2. CASE Maintain(t) \/ SleepIfBusy(t) \/ MaintainEnds(t)
    BY <1>0, <2>2 DEF Maintain, SleepIfBusy, MaintainEnds
  <2> QED
    BY <1>7, <2>1, <2>2 DEF MaintainStep
<1> QED
  BY <1>1, <1>2, <1>3, <1>4, <1>5, <1>6, <1>7, MaintainersAreThreads DEF Next, GetStep

\* What is lent, while nothing is stolen: not the connection of an idle
\* wrapper, nor of one under test, nor one that the driver has yet to open.
LEMMA NotLent ==
  ASSUME IInv, ~stolen
  PROVE  /\ \A w \in Wrappers : conn[w] # None /\ ~busy[w] => conn[w] \notin Loans!Lent
         /\ \A t \in Threads : pc[t] = "test" => conn[slot[t]] \notin Loans!Lent
         /\ CanConnect => NewConn \notin Loans!Lent
<1>1. ASSUME NEW s \in Threads, held[s] \in Conns
      PROVE  /\ pc[s] \in {"using", "match"} /\ slot[s] \in Wrappers /\ busy[slot[s]]
             /\ conn[slot[s]] = held[s] /\ held[s] # None /\ status[held[s]] # "new"
  <2>1. held[s] # None
    BY <1>1, NoneIsNothing
  <2>2. pc[s] \in {"using", "match"}
    BY <2>1 DEF IInv, OwnerInv
  <2> QED
    BY <1>1, <2>1, <2>2 DEF IInv, OwnerInv, WrapperInv, Owning
<1>2. ASSUME NEW w \in Wrappers, conn[w] # None, ~busy[w] PROVE conn[w] \notin Loans!Lent
  BY <1>1, <1>2 DEF Loans!Lent, IInv, WrapperInv
<1>3. ASSUME NEW t \in Threads, pc[t] = "test" PROVE conn[slot[t]] \notin Loans!Lent
  <2> SUFFICES ASSUME NEW s \in Threads, held[s] \in Conns, held[s] = conn[slot[t]] PROVE FALSE
    BY DEF Loans!Lent
  <2>1. slot[t] \in Wrappers
    BY <1>3 DEF IInv, WrapperInv, Owning
  <2>2. slot[s] = slot[t]
    BY <1>1, <2>1 DEF IInv, WrapperInv
  <2>3. s = t
    BY <1>1, <1>3, <2>2 DEF IInv, OwnerInv, Owning
  <2> QED
    BY <1>1, <1>3, <2>3
<1>4. ASSUME CanConnect PROVE NewConn \notin Loans!Lent
  BY <1>1, <1>4, FreshConn DEF Loans!Lent
<1> QED
  BY <1>2, <1>3, <1>4

\* Closing one connection, and opening a new one in its place or not.
Closed == {c \in Conns : status[c] = "closed"}

LEMMA CloseOneConn ==
  ASSUME IInv, NEW c \in Conns, ~stolen' => c \notin Loans!Lent,
         \/ status' = [status EXCEPT ![c] = "closed"]
         \/ CanConnect /\ status' = [status EXCEPT ![c] = "closed", ![NewConn] = "open"]
  PROVE  Loans!Close
<1>1. status \in [Conns -> Statuses]
  BY DEF IInv, TypeOK
<1>2. Closed \subseteq Closed' /\ Closed' \subseteq Closed \cup {c} /\ Closed' \subseteq Conns
  BY <1>1, FreshConn DEF Closed
<1> QED
  BY <1>2 DEF Closed, Loans!Close

LEMMA NoneClosed == ASSUME Closed' = Closed, UNCHANGED stolen PROVE Loans!Close
BY DEF Closed, Loans!Close

\* Tests lend, returns give back, and maintenance closes; all else is hidden.
LEMMA LoanStep == IInv /\ HeldInv /\ [Next]_vars => [Loans!Next]_(Loans!vars)
<1>1. SUFFICES ASSUME IInv, HeldInv, [Next]_vars PROVE [Loans!Next]_<<held, Closed, stolen>>
  BY DEF Loans!vars, Closed
<1>0. /\ status \in [Conns -> Statuses] /\ stolen \in BOOLEAN /\ None \notin Conns
      /\ held \in [Threads -> Conns \cup {None}]
      /\ \A t \in Threads : pc[t] = "test" => slot[t] \in Wrappers /\ conn[slot[t]] \in Conns
  BY <1>1, NoneIsNothing DEF IInv, TypeOK, WrapperInv, Owning
<1>2. CASE UNCHANGED vars
  BY <1>2 DEF vars, Closed
<1>3. ASSUME NEW c \in Conns, Break(c) PROVE UNCHANGED <<held, Closed, stolen>>
  BY <1>0, <1>3 DEF Break, Closed
<1>4. ASSUME NEW t \in Threads,
             GetConnection(t) \/ CreatePool(t) \/ GrowEnds(t) \/ FindFree(t) \/ FindNone(t)
               \/ WaitEnds(t) \/ MatchPasses(t) \/ ClearBusy(t) \/ Maintain(t) \/ SleepIfBusy(t)
               \/ MaintainEnds(t)
      PROVE  UNCHANGED <<held, Closed, stolen>>
  BY <1>4 DEF GetConnection, CreatePool, GrowEnds, FindFree, FindNone, WaitEnds, MatchPasses,
              ClearBusy, Maintain, SleepIfBusy, MaintainEnds, ConnsUnchanged, Closed
<1>5. ASSUME NEW t \in Threads, GrowOne(t) \/ GrowFails(t) PROVE UNCHANGED <<held, Closed, stolen>>
  BY <1>0, <1>5, FreshConn DEF GrowOne, GrowFails, Closed
<1>6. ASSUME NEW t \in Threads, TestOk(t) PROVE Loans!Lend(t)
  <2>1. held[t] = None
    BY <1>1, <1>6 DEF HeldInv, TestOk
  <2>2. ~stolen => conn[slot[t]] \notin Loans!Lent
    BY <1>1, <1>6, NotLent DEF TestOk
  <2>3. /\ held' = [held EXCEPT ![t] = conn[slot[t]]] /\ conn[slot[t]] \in Conns
        /\ UNCHANGED <<Closed, stolen>>
    BY <1>0, <1>6 DEF TestOk, Obtain, ConnsUnchanged, Closed
  <2> QED
    BY <2>1, <2>2, <2>3, NoneClosed DEF Loans!Lend
<1>7. ASSUME NEW t \in Threads, TestFails(t) PROVE Loans!Lend(t)
  <2>1. held[t] = None
    BY <1>1, <1>7 DEF HeldInv, TestFails
  <2>2. ~stolen => NewConn \notin Loans!Lent /\ conn[slot[t]] \notin Loans!Lent
    BY <1>1, <1>7, NotLent DEF TestFails
  <2>3. /\ held' = [held EXCEPT ![t] = NewConn] /\ NewConn \in Conns
        /\ UNCHANGED stolen
    BY <1>7, FreshConn DEF TestFails, Obtain
  <2>4. conn[slot[t]] \in Conns /\ (~stolen' => conn[slot[t]] \notin Loans!Lent)
    BY <1>0, <1>7, <2>2, <2>3 DEF TestFails
  <2>5. CanConnect /\ status' = [status EXCEPT ![conn[slot[t]]] = "closed", ![NewConn] = "open"]
    BY <1>7 DEF TestFails
  <2>6. Loans!Close
    BY <1>1, <2>4, <2>5, CloseOneConn
  <2> QED
    BY <2>1, <2>2, <2>3, <2>6 DEF Loans!Lend
<1>8. ASSUME NEW t \in Threads, ReplaceFails(t) PROVE Loans!Lend(t)
  <2>1. held[t] = None
    BY <1>1, <1>8 DEF HeldInv, ReplaceFails
  <2>2. ~stolen => conn[slot[t]] \notin Loans!Lent
    BY <1>1, <1>8, NotLent DEF ReplaceFails
  <2>3. /\ held' = [held EXCEPT ![t] = conn[slot[t]]] /\ conn[slot[t]] \in Conns
        /\ UNCHANGED stolen
    BY <1>0, <1>8 DEF ReplaceFails, Obtain
  <2>4. conn[slot[t]] \in Conns /\ (~stolen' => conn[slot[t]] \notin Loans!Lent)
    BY <2>2, <2>3
  <2>5. status' = [status EXCEPT ![conn[slot[t]]] = "closed"]
    BY <1>8 DEF ReplaceFails
  <2>6. Loans!Close
    BY <1>1, <2>4, <2>5, CloseOneConn
  <2> QED
    BY <2>1, <2>2, <2>3, <2>6 DEF Loans!Lend
<1>9. ASSUME NEW t \in Threads, ReturnConnection(t) \/ MatchFound(t) \/ MatchNone(t)
      PROVE  Loans!GiveBack(t) \/ UNCHANGED <<held, Closed, stolen>>
  BY <1>1, <1>9
  DEF HeldInv, ReturnConnection, MatchFound, MatchNone, MatchEnds, ConnsUnchanged, Closed,
      Loans!GiveBack
<1>10. ASSUME NEW t \in Threads, RefreshOne(t) \/ RefreshFails(t) \/ CloseOne(t) PROVE Loans!Maintain
  <2> DEFINE w == pool[count[t] + 1]
  <2>1. w \in Wrappers /\ conn[w] # None /\ conn[w] \in Conns
    BY <1>1, <1>10, DueInPool DEF RefreshOne, RefreshFails, CloseOne, IInv, WrapperInv, TypeOK
  <2>2. stolen' = (stolen \/ busy[w]) /\ UNCHANGED held
    BY <1>10 DEF RefreshOne, RefreshFails, CloseOne, Steal
  <2>3. ~stolen' => conn[w] \notin Loans!Lent
    BY <1>1, <2>1, <2>2, NotLent
  <2>4. Loans!Close
    BY <1>1, <1>10, <2>1, <2>3, CloseOneConn DEF RefreshOne, RefreshFails, CloseOne
  <2>5. busy[w] \in BOOLEAN
    BY <1>1, <2>1 DEF IInv, TypeOK
  <2> HIDE DEF w
  <2> QED
    BY <1>0, <2>2, <2>4, <2>5, Zenon DEF Loans!Maintain
<1> QED
  BY <1>1, <1>2, <1>3, <1>4, <1>5, <1>6, <1>7, <1>8, <1>9, <1>10, MaintainersAreThreads
  DEF Next, GetStep, ReturnStep, MaintainStep, Loans!Next

\* Of any pool: a user keeps the connection that getConnection() returned,
\* alone and not closed by others, until it returns it, however tests,
\* growth, other returns, refresh and close fall between, as long as refresh
\* and close find their wrappers idle.
THEOREM ImplementsLoans == Spec => KeepsLoans
<1>1. Init => Loans!Init
  BY DEF Init, Loans!Init
<1> QED
  BY InductiveInvariant, InitHeld, HeldStep, LoanStep, <1>1, PTL DEF Spec, KeepsLoans, Loans!Spec
==============================================================================
