--------------------------- MODULE DistributedLock ---------------------------
(***************************************************************************)
(* The redis lock of org.cisiondata.utils.redis.DistributedLock.  The lock *)
(* is one redis key whose value is the time at which it expires; lock()    *)
(* takes it with SETNX, or, when the value it reads has expired, with      *)
(* GETSET; unlock() deletes it.  One step per redis command, so that       *)
(* another JVM may act between any two of them.                            *)
(*                                                                         *)
(* Times are in milliseconds, but for timeout: it counts sleeps of         *)
(* DEFAULT_ACQUIRY_RESOLUTION_MILLIS, and no time but theirs.  now is real *)
(* time; a JVM's System.currentTimeMillis() is off by at most Skew.        *)
(***************************************************************************)
EXTENDS Integers

CONSTANTS
  Clients,      \* the threads that use a lock with this key, one object each
  Expire,       \* expireMillis
  Timeout,      \* timeoutMillis, in sleeps of lock()
  AttemptMax,   \* how long after its clock reading a timely pass is over
  HoldMax,      \* how long after its clock reading a timely owner unlocks
  Skew,         \* the clocks are at most this far from real time
  NoTime,       \* redis nil, and Java null
  MaxTime,      \* bound: real time stops here
  MaxFaults     \* bound: how many redis calls throw

ASSUME TimesAreNaturals ==
  /\ Expire \in Nat /\ AttemptMax \in Nat /\ HoldMax \in Nat /\ Skew \in Nat
  /\ Timeout \in Nat /\ MaxTime \in Nat /\ MaxFaults \in Nat
ASSUME NoTimeIsNoTime == NoTime \notin Int

\* Both are counted from a clock reading that may be slow by Skew, and an
\* owner's time includes the pass that acquired the lock.
ASSUME SharesNest == Skew <= AttemptMax /\ AttemptMax <= HoldMax

\* What the exclusion rests on: a timely owner is done before a value that a
\* timely rival wrote over its own can look expired to anybody's clock.
ASSUME LeaseMargin == HoldMax + AttemptMax + 2 * Skew <= Expire + 1

VARIABLES
  now,        \* real time
  key,        \* the value of lockKey in redis
  pc,         \* where each client is
  timeout,    \* lock(): its local
  stamp,      \* lock(): the clock reading in its local expireTime
  lockTime,   \* lock(): its local
  locked,     \* the field of the client's DistributedLock
  late,       \* history: a loop pass or an owner took too long
  faults      \* how many redis calls have thrown

vars == <<now, key, pc, timeout, stamp, lockTime, locked, late, faults>>

PcValues == {"idle", "loop", "setnx", "get", "check", "sleep", "returned"}
InAttempt == {"setnx", "get", "check"}

TypeOK ==
  /\ now \in Nat
  /\ key \in Int \cup {NoTime}
  /\ pc \in [Clients -> PcValues]
  /\ timeout \in [Clients -> -1..Timeout]
  /\ stamp \in [Clients -> Int]
  /\ lockTime \in [Clients -> Int \cup {NoTime}]
  /\ locked \in [Clients -> BOOLEAN]
  /\ late \in BOOLEAN
  /\ faults \in 0..MaxFaults

Init ==
  /\ now = 0
  /\ key = NoTime
  /\ pc = [c \in Clients |-> "idle"]
  /\ timeout = [c \in Clients |-> 0]
  /\ stamp = [c \in Clients |-> 0]
  /\ lockTime = [c \in Clients |-> NoTime]
  /\ locked = [c \in Clients |-> FALSE]
  /\ late = FALSE
  /\ faults = 0

ClockReadings == (now - Skew)..(now + Skew)
\* Mutant: A lease counted twice.
ExpireTimeTwice(c) == stamp[c] + 2 * Expire + 1

\* Mutant: The value is one unit short.
ExpireTimeShort(c) == stamp[c] + Expire

ExpireTime(c) == stamp[c] + Expire + 1
Owners == {c \in Clients : locked[c]}

Goto(c, where) == pc' = [pc EXCEPT ![c] = where]
Fault == faults < MaxFaults /\ faults' = faults + 1

------------------------------------------------------------------------------
Lock(c) ==
  /\ pc[c] = "idle"
  /\ Goto(c, "loop")
  /\ timeout' = [timeout EXCEPT ![c] = Timeout]
  /\ UNCHANGED <<now, key, stamp, lockTime, locked, late, faults>>

\* Mutant: The loop goes round once more than its timeout allows.
ReadClockOnceMore(c) ==
  /\ pc[c] = "loop" /\ timeout[c] >= -1
  /\ Goto(c, "setnx")
  /\ \E t \in ClockReadings : stamp' = [stamp EXCEPT ![c] = t]
  /\ UNCHANGED <<now, key, timeout, lockTime, locked, late, faults>>

\* The head of the loop: expireTime = currentTimeMillis() + expireMillis + 1.
ReadClock(c) ==
  /\ pc[c] = "loop" /\ timeout[c] >= 0
  /\ Goto(c, "setnx")
  /\ \E t \in ClockReadings : stamp' = [stamp EXCEPT ![c] = t]
  /\ UNCHANGED <<now, key, timeout, lockTime, locked, late, faults>>

\* The loop has ended: return false.
TimedOut(c) ==
  /\ pc[c] = "loop" /\ timeout[c] < 0
  /\ Goto(c, "returned")
  /\ UNCHANGED <<now, key, timeout, stamp, lockTime, locked, late, faults>>

\* lock() returns true, having written its expiry time into the key.
Acquired(c) ==
  /\ key' = ExpireTime(c)
  /\ locked' = [locked EXCEPT ![c] = TRUE]
  /\ lockTime' = [lockTime EXCEPT ![c] = NoTime]
  /\ Goto(c, "returned")

\* Mutant: timeout is not decremented.
NextPassForever(c) ==
  /\ stamp' = [stamp EXCEPT ![c] = 0]
  /\ lockTime' = [lockTime EXCEPT ![c] = NoTime]
  /\ Goto(c, "sleep")
  /\ UNCHANGED timeout

\* This pass of the loop did not take the lock; its locals end with it.
NextPass(c) ==
  /\ timeout' = [timeout EXCEPT ![c] = @ - 1]
  /\ stamp' = [stamp EXCEPT ![c] = 0]
  /\ lockTime' = [lockTime EXCEPT ![c] = NoTime]
  /\ Goto(c, "sleep")

SetnxWins(c) ==
  /\ pc[c] = "setnx" /\ key = NoTime
  /\ Acquired(c)
  /\ UNCHANGED <<now, timeout, stamp, late, faults>>

SetnxLoses(c) ==
  /\ pc[c] = "setnx" /\ key # NoTime
  /\ Goto(c, "get")
  /\ UNCHANGED <<now, key, timeout, stamp, lockTime, locked, late, faults>>

\* RedisClusterUtils swallows the exception and returns 0, whether or not
\* redis has executed the command.
SetnxThrows(c) ==
  /\ pc[c] = "setnx" /\ Fault
  /\ key' \in {key, IF key = NoTime THEN ExpireTime(c) ELSE key}
  /\ Goto(c, "get")
  /\ UNCHANGED <<now, timeout, stamp, lockTime, locked, late>>

GetReturns(c) ==
  /\ pc[c] = "get"
  /\ lockTime' = [lockTime EXCEPT ![c] = key]
  /\ Goto(c, "check")
  /\ UNCHANGED <<now, key, timeout, stamp, locked, late, faults>>

GetThrows(c) ==
  /\ pc[c] = "get" /\ Fault
  /\ lockTime' = [lockTime EXCEPT ![c] = NoTime]
  /\ Goto(c, "check")
  /\ UNCHANGED <<now, key, timeout, stamp, locked, late>>

\* lockTime == null or not before the clock: the lock is not expired.
NotExpired(c) ==
  /\ pc[c] = "check"
  /\ lockTime[c] # NoTime => \E t \in ClockReadings : lockTime[c] >= t
  /\ NextPass(c)
  /\ UNCHANGED <<now, key, locked, late, faults>>

\* lockTime < currentTimeMillis().  Time only passes, so the comparison may be
\* read as made when the GETSET that follows it is executed.
SeenExpired(c) ==
  /\ pc[c] = "check" /\ lockTime[c] # NoTime
  /\ \E t \in ClockReadings : lockTime[c] < t

\* Mutant: The value GETSET returned is not compared with the value read.
GetSetWinsUnchecked(c) ==
  /\ SeenExpired(c)
  /\ Acquired(c)
  /\ UNCHANGED <<now, timeout, stamp, late, faults>>

GetSetWins(c) ==
  /\ SeenExpired(c) /\ key = lockTime[c]
  /\ Acquired(c)
  /\ UNCHANGED <<now, timeout, stamp, late, faults>>

\* Somebody changed the key since get(): not ours, but overwritten already.
GetSetLoses(c) ==
  /\ SeenExpired(c) /\ key # lockTime[c]
  /\ key' = ExpireTime(c)
  /\ NextPass(c)
  /\ UNCHANGED <<now, locked, late, faults>>

GetSetThrows(c) ==
  /\ SeenExpired(c) /\ Fault
  /\ key' \in {key, ExpireTime(c)}
  /\ NextPass(c)
  /\ UNCHANGED <<now, locked, late>>

Wake(c) ==
  /\ pc[c] = "sleep"
  /\ Goto(c, "loop")
  /\ UNCHANGED <<now, key, timeout, stamp, lockTime, locked, late, faults>>

\* Thread.sleep throws InterruptedException: caught, return false.
Interrupted(c) ==
  /\ pc[c] = "sleep"
  /\ Goto(c, "returned")
  /\ UNCHANGED <<now, key, timeout, stamp, lockTime, locked, late, faults>>

\* The locals of lock() are gone.
Forget(c) ==
  /\ Goto(c, "idle")
  /\ locked' = [locked EXCEPT ![c] = FALSE]
  /\ timeout' = [timeout EXCEPT ![c] = 0]
  /\ stamp' = [stamp EXCEPT ![c] = 0]
  /\ lockTime' = [lockTime EXCEPT ![c] = NoTime]

\* Mutant: unlock() without its if (locked).
UnlockAlways(c) ==
  /\ pc[c] = "returned"
  /\ key' = NoTime
  /\ Forget(c)
  /\ UNCHANGED <<now, late, faults>>

\* unlock() deletes the key, whatever its value is by now, if locked.
Unlock(c) ==
  /\ pc[c] = "returned"
  /\ key' = IF locked[c] THEN NoTime ELSE key
  /\ Forget(c)
  /\ UNCHANGED <<now, late, faults>>

\* The delete throws, is swallowed, and had no effect.
UnlockThrows(c) ==
  /\ pc[c] = "returned" /\ locked[c] /\ Fault
  /\ Forget(c)
  /\ UNCHANGED <<now, key, late>>

\* The JVM dies; the key stays in redis.
Crash(c) ==
  /\ pc[c] # "idle"
  /\ Forget(c)
  /\ UNCHANGED <<now, key, late, faults>>

Overdue(c) ==
  \/ pc[c] \in InAttempt /\ now + 1 > stamp[c] + AttemptMax
  \/ locked[c] /\ now + 1 > stamp[c] + HoldMax

Tick ==
  /\ now < MaxTime
  /\ now' = now + 1
  /\ late' = (late \/ \E c \in Clients : Overdue(c))
  /\ UNCHANGED <<key, pc, timeout, stamp, lockTime, locked, faults>>

------------------------------------------------------------------------------
\* The steps of lock(), from its loop to its return.
LockStep(c) ==
  \/ ReadClock(c) \/ TimedOut(c)
  \/ SetnxWins(c) \/ SetnxLoses(c) \/ SetnxThrows(c)
  \/ GetReturns(c) \/ GetThrows(c)
  \/ NotExpired(c)
  \/ GetSetWins(c) \/ GetSetLoses(c) \/ GetSetThrows(c)
  \/ Wake(c) \/ Interrupted(c)

ClientStep(c) ==
  Lock(c) \/ LockStep(c) \/ Unlock(c) \/ UnlockThrows(c) \/ Crash(c)

Next == Tick \/ \E c \in Clients : ClientStep(c)

Spec == Init /\ [][Next]_vars

------------------------------------------------------------------------------
\* Exclusion of DistributedLock.lock(): as long as every pass of the loop and
\* every owner keeps its time, no two threads have been told that they own
\* the lock, however their SETNX, GET, GETSET and DEL commands interleave,
\* whichever throw, and whoever crashes.
MutualExclusion == ~late => \A c, d \in Owners : c = d

\* While a timely owner has the lock, the key it will delete is in redis and
\* no clock can read it as expired: the value a losing GETSET left behind
\* still covers the owner.
OwnerIsCovered ==
  ~late => \A c \in Owners :
             /\ key # NoTime
             /\ \A t \in ClockReadings : key >= t

\* An expiry time is never further ahead than one lease: a key left by a
\* crashed owner, by a losing GETSET or by a swallowed exception can be taken
\* over after Expire + 1, even by the slowest clock (two skews later).
KeyExpires == key # NoTime => key <= now + Skew + Expire + 1

Lease == INSTANCE LeaseLock WITH owners <- Owners

\* The lock implements the lease it promises.
LeaseSpec == Lease!Spec
==============================================================================
