------------------------ MODULE DistributedLock_proofs ------------------------
(***************************************************************************)
(* For any number of clients, any lease and any clock skew within          *)
(* LeaseMargin: the lock excludes as long as nobody is late, its key is    *)
(* never further from expiry than one lease, and it implements LeaseLock.  *)
(* An invocation of an annotated method uses its lock as this lock's own   *)
(* specification says, so that all this holds under the proxy; no thread   *)
(* owns a lock between two invocations; and the method never runs under    *)
(* the lock.                                                               *)
(***************************************************************************)
EXTENDS DLockInterceptor, TLAPS

USE TimesAreNaturals, NoTimeIsNoTime

\* Where a clock reading is live, it was taken in the past, by a skewed clock.
StampsArePast ==
  \A c \in Clients :
    pc[c] \in InAttempt \/ locked[c] => stamp[c] <= now + Skew

\* Nobody who is not late has overstayed.
Timely ==
  ~late => \A c \in Clients :
             /\ pc[c] \in InAttempt => now <= stamp[c] + AttemptMax
             /\ locked[c] => now <= stamp[c] + HoldMax

\* A pass of the loop is made only while timeout >= 0.
PassesLeft == \A c \in Clients : pc[c] \in InAttempt => timeout[c] >= 0

\* The lock is held only after lock() has returned.
LockedReturned == \A c \in Clients : locked[c] => pc[c] = "returned"

\* The value in redis covers the owner: it is the owner's own or that of a
\* rival whose clock reading is at most AttemptMax and a skew older.
KeyCovers ==
  ~late => \A c \in Owners :
             /\ key # NoTime
             /\ key >= stamp[c] - Skew - AttemptMax + Expire + 1

IInv ==
  /\ TypeOK
  /\ PassesLeft
  /\ StampsArePast
  /\ Timely
  /\ LockedReturned
  /\ KeyCovers
  /\ MutualExclusion
  /\ KeyExpires

------------------------------------------------------------------------------
\* Every step keeps the types.
LEMMA TypeStep == TypeOK /\ PassesLeft /\ [Next]_vars => TypeOK'
<1> SUFFICES ASSUME TypeOK, PassesLeft, [Next]_vars PROVE TypeOK'
  OBVIOUS
<1>1. CASE UNCHANGED vars
  BY <1>1 DEF vars, TypeOK
<1>2. CASE Tick
  BY <1>2 DEF Tick, TypeOK
<1>3. ASSUME NEW c \in Clients, ClientStep(c) PROVE TypeOK'
  <2> USE DEF TypeOK, PcValues, Goto
  <2>1. ExpireTime(c) \in Int
    BY DEF ExpireTime
  <2>2. CASE Lock(c)
    BY <2>2 DEF Lock
  <2>3. CASE ReadClock(c)
    BY <2>3 DEF ReadClock, ClockReadings
  <2>4. CASE TimedOut(c) \/ Wake(c) \/ Interrupted(c) \/ SetnxLoses(c)
    BY <2>4 DEF TimedOut, Wake, Interrupted, SetnxLoses
  <2>5. CASE SetnxWins(c) \/ GetSetWins(c)
    BY <2>5, <2>1 DEF SetnxWins, GetSetWins, Acquired
  <2>6. CASE SetnxThrows(c)
    BY <2>6, <2>1 DEF SetnxThrows, Fault
  <2>7. CASE GetReturns(c) \/ GetThrows(c)
    BY <2>7 DEF GetReturns, GetThrows, Fault
  <2>8. CASE NotExpired(c) \/ GetSetLoses(c) \/ GetSetThrows(c)
    <3>1. pc[c] = "check"
      BY <2>8 DEF NotExpired, GetSetLoses, GetSetThrows, SeenExpired
    <3>2. timeout[c] - 1 \in -1..Timeout
      BY <3>1 DEF PassesLeft, InAttempt
    <3>3. QED
      BY <2>8, <3>2, <2>1
      DEF NotExpired, GetSetLoses, GetSetThrows, NextPass, Fault
  <2>9. CASE Unlock(c) \/ UnlockThrows(c) \/ Crash(c)
    <3>1. timeout' \in [Clients -> -1..Timeout]
      BY <2>9 DEF Unlock, UnlockThrows, Crash, Forget
    <3>2. locked' \in [Clients -> BOOLEAN] /\ pc' \in [Clients -> PcValues]
      BY <2>9 DEF Unlock, UnlockThrows, Crash, Forget
    <3>3. stamp' \in [Clients -> Int]
      BY <2>9 DEF Unlock, UnlockThrows, Crash, Forget
    <3>4. lockTime' \in [Clients -> Int \cup {NoTime}]
      BY <2>9 DEF Unlock, UnlockThrows, Crash, Forget
    <3>5. /\ now' \in Nat /\ key' \in Int \cup {NoTime}
          /\ late' \in BOOLEAN /\ faults' \in 0..MaxFaults
      BY <2>9 DEF Unlock, UnlockThrows, Crash, Fault
    <3>6. QED
      BY <3>1, <3>2, <3>3, <3>4, <3>5
  <2>10. QED
    BY <1>3, <2>2, <2>3, <2>4, <2>5, <2>6, <2>7, <2>8, <2>9
    DEF ClientStep, LockStep
<1>4. QED
  BY <1>1, <1>2, <1>3 DEF Next

\* A timely owner is covered: the margin between lease and clocks.
LEMMA Covered == IInv => OwnerIsCovered
<1> SUFFICES ASSUME IInv, ~late, NEW c \in Owners, NEW t \in ClockReadings
             PROVE  key # NoTime /\ key >= t
  BY DEF OwnerIsCovered, IInv, KeyCovers
<1>1. key # NoTime /\ key \in Int /\ stamp[c] \in Int /\ now \in Int /\ c \in Clients
  BY DEF IInv, KeyCovers, TypeOK, Owners
<1>2. key >= stamp[c] - Skew - AttemptMax + Expire + 1
  BY DEF IInv, KeyCovers
<1>3. now <= stamp[c] + HoldMax
  BY DEF IInv, Timely, Owners
<1>4. t <= now + Skew /\ t \in Int
  BY <1>1 DEF ClockReadings
<1>5. QED
  BY <1>1, <1>2, <1>3, <1>4, LeaseMargin

\* So nobody can acquire the lock while a timely owner has it.
LEMMA AcquireAlone ==
  ASSUME IInv, ~late, NEW c \in Clients, SetnxWins(c) \/ GetSetWins(c)
  PROVE  Owners = {}
<1> SUFFICES ASSUME NEW d \in Owners PROVE FALSE
  OBVIOUS
<1>1. key # NoTime /\ \A t \in ClockReadings : key >= t
  BY Covered DEF OwnerIsCovered
<1>2. GetSetWins(c)
  BY <1>1 DEF SetnxWins
<1>3. PICK t \in ClockReadings : key < t
  BY <1>2 DEF GetSetWins, SeenExpired
<1>4. key \in Int /\ t \in Int
  BY <1>1 DEF IInv, TypeOK, ClockReadings
<1>5. QED
  BY <1>1, <1>3, <1>4

------------------------------------------------------------------------------
LEMMA InitIInv == Init => IInv
<1> SUFFICES ASSUME Init PROVE IInv
  OBVIOUS
<1>1. TypeOK
  <2>1. timeout \in [Clients -> -1..Timeout]
    BY DEF Init
  <2>2. locked \in [Clients -> BOOLEAN] /\ late \in BOOLEAN
    BY DEF Init
  <2>3. now \in Nat /\ key \in Int \cup {NoTime} /\ faults \in 0..MaxFaults
    BY DEF Init
  <2>4. pc \in [Clients -> PcValues]
    BY DEF Init, PcValues
  <2>5. stamp \in [Clients -> Int] /\ lockTime \in [Clients -> Int \cup {NoTime}]
    BY DEF Init
  <2>6. QED
    BY <2>1, <2>2, <2>3, <2>4, <2>5 DEF TypeOK
<1>2. Owners = {} /\ \A c \in Clients : ~locked[c] /\ pc[c] \notin InAttempt
  BY DEF Init, Owners, InAttempt
<1>3. QED
  BY <1>1, <1>2
  DEF Init, IInv, PassesLeft, StampsArePast, Timely, LockedReturned,
      KeyCovers, MutualExclusion, KeyExpires

\* The passage of time: nobody who is not late has overstayed.
LEMMA TickStep == IInv /\ Tick => IInv'
<1> SUFFICES ASSUME IInv, Tick PROVE IInv'
  OBVIOUS
<1> USE DEF IInv, TypeOK
<1>1. TypeOK' /\ PassesLeft' /\ LockedReturned'
  BY DEF Tick, PassesLeft, LockedReturned
<1>2. StampsArePast' /\ KeyExpires'
  BY DEF Tick, StampsArePast, KeyExpires
<1>3. Timely'
  <2> SUFFICES ASSUME ~late', NEW c \in Clients
               PROVE  /\ pc'[c] \in InAttempt => now' <= stamp'[c] + AttemptMax
                      /\ locked'[c] => now' <= stamp'[c] + HoldMax
    BY DEF Timely
  <2>1. ~Overdue(c)
    BY DEF Tick
  <2>2. /\ now' = now + 1 /\ now \in Int /\ stamp[c] \in Int
        /\ UNCHANGED <<pc, stamp, locked>>
    BY DEF Tick
  <2>3. QED
    BY <2>1, <2>2 DEF Overdue
<1>4. KeyCovers' /\ MutualExclusion'
  BY DEF Tick, KeyCovers, MutualExclusion, Owners
<1>5. QED
  BY <1>1, <1>2, <1>3, <1>4

\* lock() returns true.
LEMMA AcquireStep ==
  ASSUME IInv, NEW c \in Clients, SetnxWins(c) \/ GetSetWins(c)
  PROVE  IInv'
<1> USE DEF IInv
<1>1. TypeOK'
  BY TypeStep DEF Next, ClientStep, LockStep
<1>2. /\ Acquired(c)
      /\ UNCHANGED <<now, timeout, stamp, late>>
      /\ pc[c] \in InAttempt
  BY DEF SetnxWins, GetSetWins, SeenExpired, InAttempt
<1>3. PassesLeft' /\ LockedReturned' /\ StampsArePast'
  BY <1>2 DEF Acquired, Goto, PassesLeft, LockedReturned, StampsArePast,
              TypeOK, InAttempt
<1>4. KeyExpires'
  BY <1>2 DEF Acquired, ExpireTime, KeyExpires, StampsArePast, TypeOK
<1>5. CASE late
  BY <1>1, <1>2, <1>3, <1>4, <1>5
  DEF Timely, KeyCovers, MutualExclusion
<1>6. CASE ~late
  <2>1. Owners = {}
    BY <1>6, AcquireAlone
  <2>2. Owners' = {c}
    BY <1>2, <2>1 DEF Acquired, Owners, TypeOK
  <2>3. MutualExclusion'
    BY <2>2 DEF MutualExclusion
  <2>4. KeyCovers'
    BY <1>2, <2>2, NoTimeIsNoTime
    DEF KeyCovers, Acquired, ExpireTime, TypeOK
  <2>5. Timely'
    <3>1. now <= stamp[c] + AttemptMax
      BY <1>2, <1>6 DEF Timely
    <3>2. now <= stamp[c] + HoldMax
      BY <3>1, SharesNest DEF TypeOK
    <3>3. QED
      BY <1>2, <3>2, <2>2
      DEF Timely, Acquired, Goto, Owners, InAttempt, TypeOK
  <2>6. QED
    BY <1>1, <1>3, <1>4, <2>3, <2>4, <2>5
<1>7. QED
  BY <1>5, <1>6

\* SETNX throws, the GETSET loses or throws: the key is rewritten, or not, by
\* a client that does not get the lock.
LEMMA RewriteStep ==
  ASSUME IInv, NEW c \in Clients,
         SetnxThrows(c) \/ GetSetLoses(c) \/ GetSetThrows(c)
  PROVE  IInv'
<1> USE DEF IInv
<1>1. TypeOK'
  BY TypeStep DEF Next, ClientStep, LockStep
<1>2. /\ key' = key \/ key' = ExpireTime(c)
      /\ UNCHANGED <<now, locked, late>>
      /\ pc[c] \in InAttempt
      /\ \/ NextPass(c)
         \/ Goto(c, "get") /\ UNCHANGED <<stamp, timeout>>
  BY DEF SetnxThrows, GetSetLoses, GetSetThrows, SeenExpired, InAttempt
<1>3. ~locked[c]
  BY <1>2 DEF LockedReturned, InAttempt
<1>4. \A d \in Clients :
        d # c => pc'[d] = pc[d] /\ stamp'[d] = stamp[d] /\ timeout'[d] = timeout[d]
  BY <1>2 DEF NextPass, Goto, TypeOK
<1>5. \/ pc'[c] = "sleep"
      \/ pc'[c] = "get" /\ stamp'[c] = stamp[c] /\ timeout'[c] = timeout[c]
  BY <1>2 DEF NextPass, Goto, TypeOK
<1>6. PassesLeft' /\ LockedReturned'
  BY <1>2, <1>3, <1>4, <1>5 DEF PassesLeft, LockedReturned, InAttempt
<1>7. StampsArePast' /\ Timely'
  BY <1>2, <1>3, <1>4, <1>5 DEF StampsArePast, Timely, InAttempt
<1>8. KeyExpires'
  BY <1>2 DEF ExpireTime, KeyExpires, StampsArePast, TypeOK
<1>9. MutualExclusion'
  BY <1>2 DEF MutualExclusion, Owners
<1>10. KeyCovers'
  <2> SUFFICES ASSUME ~late, NEW d \in Owners
               PROVE  /\ key' # NoTime
                      /\ key' >= stamp[d] - Skew - AttemptMax + Expire + 1
    BY <1>2, <1>3, <1>4 DEF KeyCovers, Owners
  <2>1. CASE key' = key
    BY <2>1 DEF KeyCovers
  <2>2. CASE key' = ExpireTime(c)
    <3>1. now <= stamp[c] + AttemptMax /\ stamp[d] <= now + Skew
      BY <1>2 DEF Timely, StampsArePast, Owners
    <3>2. stamp[c] \in Int /\ stamp[d] \in Int /\ now \in Int
      BY DEF TypeOK, Owners
    <3>3. QED
      BY <2>2, <3>1, <3>2, NoTimeIsNoTime DEF ExpireTime
  <2>3. QED
    BY <1>2, <2>1, <2>2
<1>11. QED
  BY <1>1, <1>6, <1>7, <1>8, <1>9, <1>10

\* The steps of lock() that write neither the key nor locked.
LEMMA QuietStep ==
  ASSUME IInv, NEW c \in Clients,
         \/ Lock(c) \/ ReadClock(c) \/ TimedOut(c) \/ SetnxLoses(c)
         \/ GetReturns(c) \/ GetThrows(c) \/ NotExpired(c)
         \/ Wake(c) \/ Interrupted(c)
  PROVE  IInv'
<1> USE DEF IInv
<1>1. TypeOK'
  BY TypeStep DEF Next, ClientStep, LockStep
<1>2. UNCHANGED <<now, key, locked, late>> /\ pc[c] # "returned"
  BY DEF Lock, ReadClock, TimedOut, SetnxLoses, GetReturns, GetThrows,
         NotExpired, Wake, Interrupted
<1>3. ~locked[c]
  BY <1>2 DEF LockedReturned
<1>4. \A d \in Clients :
        d # c => pc'[d] = pc[d] /\ stamp'[d] = stamp[d] /\ timeout'[d] = timeout[d]
  BY DEF Lock, ReadClock, TimedOut, SetnxLoses, GetReturns, GetThrows,
         NotExpired, Wake, Interrupted, NextPass, Goto, TypeOK
<1>5. \/ pc'[c] \notin InAttempt
      \/ pc[c] \in InAttempt /\ stamp'[c] = stamp[c] /\ timeout'[c] = timeout[c]
      \/ stamp'[c] \in ClockReadings /\ timeout'[c] = timeout[c] /\ timeout[c] >= 0
  BY DEF Lock, ReadClock, TimedOut, SetnxLoses, GetReturns, GetThrows,
         NotExpired, Wake, Interrupted, NextPass, Goto, TypeOK, InAttempt
<1>6. PassesLeft' /\ LockedReturned'
  BY <1>2, <1>3, <1>4, <1>5 DEF PassesLeft, LockedReturned
<1>7. StampsArePast'
  BY <1>2, <1>3, <1>4, <1>5 DEF StampsArePast, ClockReadings, TypeOK
<1>8. Timely'
  <2> SUFFICES ASSUME ~late, NEW d \in Clients
               PROVE  /\ pc'[d] \in InAttempt => now <= stamp'[d] + AttemptMax
                      /\ locked[d] => now <= stamp'[d] + HoldMax
    BY <1>2 DEF Timely
  <2>1. CASE d # c
    BY <2>1, <1>4 DEF Timely
  <2>2. CASE d = c
    BY <2>2, <1>3, <1>5, SharesNest DEF Timely, ClockReadings, TypeOK
  <2>3. QED
    BY <2>1, <2>2
<1>9. KeyCovers' /\ MutualExclusion' /\ KeyExpires'
  BY <1>2, <1>3, <1>4
  DEF KeyCovers, MutualExclusion, KeyExpires, Owners
<1>10. QED
  BY <1>1, <1>6, <1>7, <1>8, <1>9

\* unlock(), and the death of a client.
LEMMA ForgetStep ==
  ASSUME IInv, NEW c \in Clients, Unlock(c) \/ UnlockThrows(c) \/ Crash(c)
  PROVE  IInv'
<1> USE DEF IInv
<1>1. TypeOK'
  BY TypeStep DEF Next, ClientStep
<1>2. /\ Forget(c)
      /\ UNCHANGED <<now, late>>
      /\ key' = key \/ (key' = NoTime /\ locked[c])
  BY DEF Unlock, UnlockThrows, Crash
<1>3. pc'[c] = "idle" /\ ~locked'[c]
  BY <1>2 DEF Forget, Goto, TypeOK
<1>4. \A d \in Clients : d # c => /\ pc'[d] = pc[d] /\ stamp'[d] = stamp[d]
                                  /\ timeout'[d] = timeout[d]
                                  /\ locked'[d] = locked[d]
  BY <1>2 DEF Forget, Goto, TypeOK
<1>5. PassesLeft' /\ LockedReturned' /\ StampsArePast' /\ Timely'
  BY <1>2, <1>3, <1>4
  DEF PassesLeft, LockedReturned, StampsArePast, Timely, InAttempt
<1>6. KeyExpires'
  BY <1>2 DEF KeyExpires
<1>7. Owners' = Owners \ {c}
  BY <1>3, <1>4 DEF Owners
<1>8. MutualExclusion'
  BY <1>2, <1>7 DEF MutualExclusion
<1>9. KeyCovers'
  <2> SUFFICES ASSUME ~late, NEW d \in Owners, d # c
               PROVE  /\ key' # NoTime
                      /\ key' >= stamp[d] - Skew - AttemptMax + Expire + 1
    BY <1>2, <1>4, <1>7 DEF KeyCovers, Owners
  <2>1. ~locked[c]
    BY DEF MutualExclusion, Owners
  <2>2. QED
    BY <1>2, <2>1 DEF KeyCovers
<1>10. QED
  BY <1>1, <1>5, <1>6, <1>8, <1>9

LEMMA NextIInv == IInv /\ [Next]_vars => IInv'
<1> SUFFICES ASSUME IInv, [Next]_vars PROVE IInv'
  OBVIOUS
<1>1. CASE UNCHANGED vars
  BY <1>1 DEF vars, IInv, TypeOK, PassesLeft, StampsArePast, Timely,
              LockedReturned, KeyCovers, MutualExclusion, KeyExpires, Owners
<1>2. CASE Tick
  BY <1>2, TickStep
<1>3. ASSUME NEW c \in Clients, ClientStep(c) PROVE IInv'
  BY <1>3, AcquireStep, RewriteStep, QuietStep, ForgetStep
  DEF ClientStep, LockStep
<1>4. QED
  BY <1>1, <1>2, <1>3 DEF Next

THEOREM InductiveInvariant == Spec => []IInv
BY InitIInv, NextIInv, PTL DEF Spec

\* The types of the model, for every value of the constants.
THEOREM Typing == Spec => []TypeOK
<1>1. IInv => TypeOK
  BY DEF IInv
<1>2. QED
  BY <1>1, InductiveInvariant, PTL

\* No two threads are told they own the lock, unless somebody is late.
THEOREM LockExcludes == Spec => []MutualExclusion
<1>1. IInv => MutualExclusion
  BY DEF IInv
<1>2. QED
  BY <1>1, InductiveInvariant, PTL

\* The key of a timely owner is there and unexpired on every clock.
THEOREM OwnerCovered == Spec => []OwnerIsCovered
BY Covered, InductiveInvariant, PTL

\* A key is never further from expiry than one lease.
THEOREM LeaseBounded == Spec => []KeyExpires
<1>1. IInv => KeyExpires
  BY DEF IInv
<1>2. QED
  BY <1>1, InductiveInvariant, PTL

------------------------------------------------------------------------------
\* Initial states map to initial states of the lease.
LEMMA InitLease == Init => Lease!Init
BY DEF Init, Lease!Init, Owners

\* Every step is a step of the lease or leaves it alone.
LEMMA StepLease == IInv /\ [Next]_vars => [Lease!Next]_(Lease!vars)
<1> SUFFICES ASSUME IInv, [Next]_vars PROVE [Lease!Next]_(Lease!vars)
  OBVIOUS
<1> USE DEF IInv, TypeOK
<1>1. CASE UNCHANGED vars
  BY <1>1 DEF vars, Lease!vars, Owners
<1>2. CASE Tick
  <2>1. Owners' = Owners /\ (late' = late \/ late' = TRUE)
    BY <1>2 DEF Tick, Owners
  <2>2. QED
    BY <2>1 DEF Lease!vars, Lease!Next, Lease!Overrun
<1>3. ASSUME NEW c \in Clients, ClientStep(c) PROVE [Lease!Next]_(Lease!vars)
  <2>1. CASE SetnxWins(c) \/ GetSetWins(c)
    <3>1. Acquired(c) /\ late' = late /\ pc[c] \in InAttempt
      BY <2>1 DEF SetnxWins, GetSetWins, SeenExpired, InAttempt
    <3>2. c \notin Owners
      BY <3>1 DEF LockedReturned, Owners, InAttempt
    <3>3. Owners' = Owners \cup {c}
      BY <3>1 DEF Acquired, Owners
    <3>4. Owners = {} \/ late
      BY <2>1, AcquireAlone
    <3>5. QED
      BY <3>1, <3>2, <3>3, <3>4 DEF Lease!Next, Lease!Acquire
  <2>2. CASE Unlock(c) \/ UnlockThrows(c) \/ Crash(c)
    <3>1. Owners' = Owners \ {c} /\ late' = late
      BY <2>2 DEF Unlock, UnlockThrows, Crash, Forget, Owners
    <3>2. CASE c \in Owners
      BY <3>1, <3>2 DEF Lease!Next, Lease!Release
    <3>3. CASE c \notin Owners
      BY <3>1, <3>3 DEF Lease!vars
    <3>4. QED
      BY <3>2, <3>3
  <2>3. CASE UNCHANGED <<locked, late>>
    BY <2>3 DEF Lease!vars, Owners
  <2>4. QED
    BY <1>3, <2>1, <2>2, <2>3
    DEF ClientStep, LockStep, Lock, ReadClock, TimedOut, SetnxLoses,
        SetnxThrows, GetReturns, GetThrows, NotExpired, GetSetLoses,
        GetSetThrows, Wake, Interrupted
<1>4. QED
  BY <1>1, <1>2, <1>3 DEF Next

\* The redis lock implements the lease, for any clients, lease and skew.
THEOREM ImplementsLease == Spec => LeaseSpec
BY InitLease, StepLease, InductiveInvariant, PTL
DEF Spec, LeaseSpec, Lease!Spec

------------------------------------------------------------------------------
\* Where lock() stands in each stage of an invocation.
StageOf(c) ==
  /\ invocation[c] = "none" => pc[c] = "idle" /\ ~locked[c]
  /\ invocation[c] = "locking" => pc[c] # "idle"
  /\ invocation[c] = "method" => pc[c] = "returned" /\ ~locked[c]
  /\ invocation[c] = "finally" => pc[c] = "returned"

Stages ==
  /\ invocation \in [Clients -> InvocationValues]
  /\ \A c \in Clients : StageOf(c)

\* The method is run by a thread that does not own the lock.
MethodsRunUnlocked ==
  \A c \in Clients : invocation[c] = "method" => ~locked[c]

------------------------------------------------------------------------------
\* The proxy takes only steps of the lock, or none.
LEMMA InvocationSimulates == [InvocationNext]_ivars => [Next]_vars
<1> SUFFICES ASSUME [InvocationNext]_ivars PROVE [Next]_vars
  OBVIOUS
<1>1. CASE UNCHANGED ivars
  BY <1>1 DEF ivars
<1>2. CASE Tick /\ UNCHANGED invocation
  BY <1>2 DEF Next
<1>3. ASSUME NEW c \in Clients,
             InvokeUnannotated(c) \/ Invoke(c) \/ InvocationStep(c) \/ Die(c)
      PROVE  [Next]_vars
  <2>1. CASE InvokeUnannotated(c) \/ RunMethod(c) \/ MethodEnds(c) \/ SkipMethod(c)
    BY <2>1 DEF InvokeUnannotated, RunMethod, MethodEnds, SkipMethod, ivars
  <2>2. CASE Invoke(c) \/ InLock(c) \/ Finally(c) \/ Die(c)
    BY <2>2 DEF Invoke, InLock, Finally, Die, Next, ClientStep
  <2>3. QED
    BY <1>3, <2>1, <2>2 DEF InvocationStep
<1>4. QED
  BY <1>1, <1>2, <1>3 DEF InvocationNext

\* A step of one thread leaves the stage of every other alone.
LEMMA OthersKeepStage ==
  ASSUME Stages, NEW c \in Clients, NEW d \in Clients, d # c,
         invocation'[d] = invocation[d], pc'[d] = pc[d], locked'[d] = locked[d]
  PROVE  StageOf(d)'
BY DEF Stages, StageOf

LEMMA LockStepStage ==
  ASSUME TypeOK, NEW c \in Clients, LockStep(c)
  PROVE  /\ pc'[c] # "idle"
         /\ \A d \in Clients \ {c} : pc'[d] = pc[d] /\ locked'[d] = locked[d]
<1>1. CASE SetnxWins(c) \/ GetSetWins(c)
  BY <1>1 DEF SetnxWins, GetSetWins, Acquired, Goto, TypeOK
<1>2. CASE \/ ReadClock(c) \/ TimedOut(c) \/ SetnxLoses(c) \/ SetnxThrows(c)
           \/ GetReturns(c) \/ GetThrows(c) \/ Wake(c) \/ Interrupted(c)
  BY <1>2 DEF ReadClock, TimedOut, SetnxLoses, SetnxThrows, GetReturns,
              GetThrows, Wake, Interrupted, Goto, TypeOK
<1>3. CASE NotExpired(c) \/ GetSetLoses(c) \/ GetSetThrows(c)
  BY <1>3 DEF NotExpired, GetSetLoses, GetSetThrows, NextPass, Goto, TypeOK
<1>4. QED
  BY <1>1, <1>2, <1>3 DEF LockStep

LEMMA StagesStep == TypeOK /\ Stages /\ [InvocationNext]_ivars => Stages'
<1> SUFFICES ASSUME TypeOK, Stages, [InvocationNext]_ivars PROVE Stages'
  OBVIOUS
<1>1. CASE UNCHANGED ivars \/ (Tick /\ UNCHANGED invocation)
  BY <1>1 DEF ivars, vars, Tick, Stages, StageOf
<1>2. ASSUME NEW c \in Clients,
             InvokeUnannotated(c) \/ Invoke(c) \/ InvocationStep(c) \/ Die(c)
      PROVE  Stages'
  <2> DEFINE Others == \A d \in Clients \ {c} :
               /\ invocation'[d] = invocation[d]
               /\ pc'[d] = pc[d] /\ locked'[d] = locked[d]
             Typed == invocation' \in [Clients -> InvocationValues]
  <2> SUFFICES Typed /\ Others /\ StageOf(c)'
    BY OthersKeepStage DEF Stages
  <2> USE DEF Stages, InvocationValues, Becomes
  <2>1. CASE InvokeUnannotated(c)
    BY <2>1 DEF InvokeUnannotated, ivars, vars, StageOf
  <2>2. CASE Invoke(c)
    <3>1. Typed /\ invocation'[c] = "locking"
      BY <2>2 DEF Invoke
    <3>2. Others /\ pc'[c] = "loop"
      BY <2>2 DEF Invoke, Lock, Goto, TypeOK
    <3>3. QED
      BY <3>1, <3>2 DEF StageOf
  <2>3. CASE InLock(c)
    BY <2>3, LockStepStage DEF InLock, StageOf
  <2>4. CASE RunMethod(c) \/ MethodEnds(c) \/ SkipMethod(c)
    <3>1. UNCHANGED <<pc, locked>> /\ pc[c] = "returned"
      BY <2>4 DEF RunMethod, MethodEnds, SkipMethod, vars, StageOf
    <3>2. Typed /\ Others
      BY <2>4, <3>1 DEF RunMethod, MethodEnds, SkipMethod
    <3>3. StageOf(c)'
      BY <2>4, <3>1 DEF RunMethod, MethodEnds, SkipMethod, StageOf
    <3>4. QED
      BY <3>2, <3>3
  <2>5. CASE Finally(c) \/ Die(c)
    <3>1. Forget(c) /\ Becomes(c, "none")
      BY <2>5 DEF Finally, Die, Unlock, UnlockThrows, Crash
    <3>2. Typed /\ Others
      BY <3>1 DEF Forget, Goto, TypeOK
    <3>3. pc'[c] = "idle" /\ ~locked'[c] /\ invocation'[c] = "none"
      BY <3>1 DEF Forget, Goto, TypeOK
    <3>4. QED
      BY <3>2, <3>3 DEF StageOf
  <2>6. QED
    BY <1>2, <2>1, <2>2, <2>3, <2>4, <2>5 DEF InvocationStep
<1>3. QED
  BY <1>1, <1>2 DEF InvocationNext

LEMMA InitStages == InvocationInit => Stages
BY DEF InvocationInit, Init, Stages, StageOf, InvocationValues

\* Whatever the proxy does with its lock, it is a behaviour of the lock.
THEOREM ProxyUsesLock == InvocationSpec => Spec
<1>1. InvocationInit => Init
  BY DEF InvocationInit
<1>2. QED
  BY <1>1, InvocationSimulates, PTL DEF InvocationSpec, Spec

LEMMA StagesInvariant == InvocationSpec => [](TypeOK /\ Stages)
<1>1. InvocationSpec => []TypeOK
  BY ProxyUsesLock, Typing, PTL
<1>2. QED
  BY <1>1, InitStages, StagesStep, PTL DEF InvocationSpec

\* The types of the proxy and of its lock.
THEOREM InvocationTyping == InvocationSpec => []InvocationTypeOK
<1>1. TypeOK /\ Stages => InvocationTypeOK
  BY DEF Stages, InvocationTypeOK
<1>2. QED
  BY <1>1, StagesInvariant, PTL

\* The finally of invoke() leaves no lock in its thread, nor does a timeout,
\* an exception of redis or of the method, or the death of the JVM.
THEOREM NothingIsLeftOwned == InvocationSpec => []NothingOwnedOutside
<1>1. Stages => NothingOwnedOutside
  BY DEF Stages, StageOf, NothingOwnedOutside
<1>2. QED
  BY <1>1, StagesInvariant, PTL

\* The annotated method is never run by a thread that owns the lock.
THEOREM MethodsAreUnlocked == InvocationSpec => []MethodsRunUnlocked
<1>1. Stages => MethodsRunUnlocked
  BY DEF Stages, StageOf, MethodsRunUnlocked
<1>2. QED
  BY <1>1, StagesInvariant, PTL

\* Under the proxy, too, the lock excludes and implements the lease.
THEOREM ProxyKeepsLease == InvocationSpec => []MutualExclusion /\ LeaseSpec
BY ProxyUsesLock, LockExcludes, ImplementsLease, PTL

------------------------------------------------------------------------------
\* How many steps an invocation still has at most: five for each pass that the
\* timeout allows, the return of lock(), the method and the finally.
Place(where) ==
  CASE where = "sleep" -> 5
    [] where = "loop" -> 4
    [] where = "setnx" -> 3
    [] where = "get" -> 2
    [] OTHER -> 1

StepsLeft(c) ==
  CASE invocation[c] = "none" -> 0
    [] invocation[c] = "finally" -> 1
    [] invocation[c] = "method" -> 2
    [] invocation[c] = "locking" /\ pc[c] = "returned" -> 3
    [] OTHER -> 3 + 5 * (timeout[c] + 1) + Place(pc[c])

StepsAreBounded == \A c \in Clients : StepsLeft(c) \in 0..(5 * Timeout + 13)

\* Each step of an invocation brings it nearer to its end, and no step of any
\* other takes it back.
DrawsToItsEnd ==
  \A c \in Clients :
    /\ InvocationStep(c) => StepsLeft(c)' < StepsLeft(c)
    /\ invocation[c] # "none" => StepsLeft(c)' <= StepsLeft(c)

LEMMA StepsLeftIs ==
  ASSUME TypeOK, Stages, NEW c \in Clients
  PROVE  /\ timeout[c] \in -1..Timeout /\ Place(pc[c]) \in 1..5
         /\ invocation[c] = "none" => StepsLeft(c) = 0
         /\ invocation[c] = "finally" => StepsLeft(c) = 1
         /\ invocation[c] = "method" => StepsLeft(c) = 2
         /\ invocation[c] = "locking" /\ pc[c] = "returned" => StepsLeft(c) = 3
         /\ invocation[c] = "locking" /\ pc[c] # "returned" =>
              StepsLeft(c) = 3 + 5 * (timeout[c] + 1) + Place(pc[c])
         /\ invocation[c] \in InvocationValues
<1>1. timeout[c] \in -1..Timeout /\ invocation[c] \in InvocationValues
  BY DEF TypeOK, Stages
<1>2. Place(pc[c]) \in 1..5
  BY DEF Place
<1>3. QED
  BY <1>1, <1>2 DEF StepsLeft

LEMMA PlaceIs ==
  /\ Place("sleep") = 5 /\ Place("loop") = 4 /\ Place("setnx") = 3
  /\ Place("get") = 2 /\ Place("check") = 1
BY DEF Place

LEMMA BoundedSteps == TypeOK /\ Stages => StepsAreBounded
<1> SUFFICES ASSUME TypeOK, Stages, NEW c \in Clients
             PROVE  StepsLeft(c) \in 0..(5 * Timeout + 13)
  BY DEF StepsAreBounded
<1>1. QED
  BY StepsLeftIs DEF InvocationValues

\* In lock(), a step goes on within the pass or spends one of those left.
LEMMA LockSpends ==
  ASSUME TypeOK, Stages, TypeOK', Stages', NEW c \in Clients, InLock(c)
  PROVE  StepsLeft(c)' < StepsLeft(c)
<1>0. /\ pc \in [Clients -> PcValues] /\ timeout \in [Clients -> -1..Timeout]
      /\ invocation[c] = "locking" /\ invocation' = invocation
  BY DEF TypeOK, InLock
<1>1. /\ timeout'[c] \in -1..Timeout
      /\ pc'[c] = "returned" => StepsLeft(c)' = 3
      /\ pc'[c] # "returned" => StepsLeft(c)' = 3 + 5 * (timeout'[c] + 1) + Place(pc'[c])
  <2>1. /\ invocation[c]' = "locking"
        /\ timeout[c]' = timeout'[c] /\ pc[c]' = pc'[c]
    BY <1>0
  <2>2. timeout'[c] \in -1..Timeout
    BY DEF TypeOK
  <2>3. QED
    BY <2>1, <2>2 DEF StepsLeft
<1>2. /\ timeout[c] \in -1..Timeout /\ Place(pc[c]) \in 1..5
      /\ pc[c] # "returned" => StepsLeft(c) = 3 + 5 * (timeout[c] + 1) + Place(pc[c])
  BY <1>0, StepsLeftIs
<1>3. /\ pc[c] # "returned"
      /\ \/ pc'[c] = "returned"
         \/ timeout'[c] = timeout[c] /\ pc[c] = "loop" /\ pc'[c] = "setnx"
         \/ timeout'[c] = timeout[c] /\ pc[c] = "setnx" /\ pc'[c] = "get"
         \/ timeout'[c] = timeout[c] /\ pc[c] = "get" /\ pc'[c] = "check"
         \/ timeout'[c] = timeout[c] - 1 /\ pc[c] = "check" /\ pc'[c] = "sleep"
         \/ timeout'[c] = timeout[c] /\ pc[c] = "sleep" /\ pc'[c] = "loop"
  <2>1. CASE \/ SetnxWins(c) \/ GetSetWins(c) \/ TimedOut(c) \/ Interrupted(c)
    BY <1>0, <2>1 DEF SetnxWins, GetSetWins, SeenExpired, Acquired, TimedOut,
       Interrupted, Goto
  <2>2. CASE \/ ReadClock(c) \/ SetnxLoses(c) \/ SetnxThrows(c)
             \/ GetReturns(c) \/ GetThrows(c) \/ Wake(c)
    BY <1>0, <2>2 DEF ReadClock, SetnxLoses, SetnxThrows, GetReturns, GetThrows, Wake, Goto
  <2>3. CASE NotExpired(c) \/ GetSetLoses(c) \/ GetSetThrows(c)
    BY <1>0, <2>3 DEF NotExpired, GetSetLoses, GetSetThrows, SeenExpired, NextPass, Goto
  <2>4. QED
    BY <2>1, <2>2, <2>3 DEF InLock, LockStep
<1>4. QED
  BY <1>1, <1>2, <1>3, PlaceIs

LEMMA DrawsStep ==
  TypeOK /\ Stages /\ StepsAreBounded /\ TypeOK' /\ Stages' /\ StepsAreBounded'
    /\ [InvocationNext]_ivars => [DrawsToItsEnd]_ivars
<1> SUFFICES ASSUME TypeOK, Stages, TypeOK', Stages', StepsAreBounded, StepsAreBounded',
                    InvocationNext, NEW c \in Clients
             PROVE  /\ InvocationStep(c) => StepsLeft(c)' < StepsLeft(c)
                    /\ invocation[c] # "none" => StepsLeft(c)' <= StepsLeft(c)
  BY DEF DrawsToItsEnd
<1>1. StepsLeft(c) \in Nat /\ StepsLeft(c)' \in Nat
  BY DEF StepsAreBounded
<1>2. ASSUME invocation'[c] = invocation[c], pc'[c] = pc[c], timeout'[c] = timeout[c]
      PROVE  StepsLeft(c)' = StepsLeft(c)
  BY <1>2 DEF StepsLeft
<1>3. ASSUME InvocationStep(c) PROVE StepsLeft(c)' < StepsLeft(c)
  <2>1. CASE InLock(c)
    BY <2>1, LockSpends
  <2>2. CASE RunMethod(c) \/ MethodEnds(c) \/ SkipMethod(c)
    <3>1. \/ invocation'[c] = "method" /\ invocation[c] = "locking" /\ pc[c] = "returned"
          \/ invocation'[c] = "finally" /\ invocation[c] = "method"
          \/ invocation'[c] = "finally" /\ invocation[c] = "locking" /\ pc[c] = "returned"
      BY <2>2 DEF RunMethod, MethodEnds, SkipMethod, Becomes, Stages
    <3>2. QED
      BY <3>1 DEF StepsLeft
  <2>3. CASE Finally(c)
    BY <2>3 DEF Finally, Becomes, Stages, StepsLeft
  <2>4. QED
    BY <1>3, <2>1, <2>2, <2>3 DEF InvocationStep
<1>4. ASSUME invocation[c] # "none" PROVE StepsLeft(c)' <= StepsLeft(c)
  <2>1. CASE Tick /\ UNCHANGED invocation
    BY <1>1, <1>2, <2>1 DEF Tick
  <2>2. ASSUME NEW d \in Clients, InvokeUnannotated(d) PROVE StepsLeft(c)' <= StepsLeft(c)
    BY <1>1, <1>2, <2>2 DEF InvokeUnannotated, ivars, vars
  <2>3. ASSUME NEW d \in Clients, Invoke(d) \/ InvocationStep(d) \/ Die(d), d # c
        PROVE  StepsLeft(c)' <= StepsLeft(c)
    <3>1. invocation'[c] = invocation[c]
      BY <2>3 DEF Invoke, InvocationStep, InLock, RunMethod, MethodEnds,
         SkipMethod, Finally, Die, Becomes, Stages
    <3>2. pc'[c] = pc[c] /\ timeout'[c] = timeout[c]
      <4>1. CASE RunMethod(d) \/ MethodEnds(d) \/ SkipMethod(d)
        BY <4>1 DEF RunMethod, MethodEnds, SkipMethod, vars
      <4>2. CASE Finally(d) \/ Die(d)
        BY <2>3, <4>2 DEF Finally, Die, Unlock, UnlockThrows, Crash, Forget, Goto, TypeOK
      <4>3. CASE Invoke(d)
        BY <2>3, <4>3 DEF Invoke, Lock, Goto, TypeOK
      <4>4. CASE InLock(d)
        BY <2>3, <4>4 DEF InLock, LockStep, ReadClock, TimedOut, SetnxWins,
           SetnxLoses, SetnxThrows, GetReturns, GetThrows, NotExpired,
           GetSetWins, GetSetLoses, GetSetThrows, Wake, Interrupted, Acquired,
           NextPass, Goto, TypeOK
      <4>5. QED
        BY <2>3, <4>1, <4>2, <4>3, <4>4 DEF InvocationStep
    <3>3. QED
      BY <1>1, <1>2, <3>1, <3>2
  <2>4. CASE Invoke(c)
    BY <1>4, <2>4 DEF Invoke
  <2>5. CASE InvocationStep(c)
    BY <1>1, <1>3, <2>5
  <2>6. CASE Die(c)
    <3>1. StepsLeft(c)' = 0
      BY <2>6 DEF Die, Becomes, Stages, StepsLeft
    <3>2. QED
      BY <1>1, <3>1
  <2>7. QED
    BY <2>1, <2>2, <2>3, <2>4, <2>5, <2>6 DEF InvocationNext
<1>5. QED
  BY <1>3, <1>4

\* Of InvocationEnds, this is what the code has to see to: lock() spends its
\* timeout whoever has the lock and whatever throws, and no way through
\* invoke() goes back.  The rest is that the thread is scheduled.
THEOREM InvocationsDrawToTheirEnd ==
  InvocationSpec => []StepsAreBounded /\ [][DrawsToItsEnd]_ivars
<1>1. InvocationSpec => []StepsAreBounded
  BY StagesInvariant, BoundedSteps, PTL
<1>2. InvocationSpec => [][DrawsToItsEnd]_ivars
  BY <1>1, StagesInvariant, DrawsStep, PTL DEF InvocationSpec
<1>3. QED
  BY <1>1, <1>2
=============================================================================
