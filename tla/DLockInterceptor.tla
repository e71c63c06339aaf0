-------------------------- MODULE DLockInterceptor --------------------------
(***************************************************************************)
(* org.cisiondata.utils.redis.DLockInterceptor: the proxy that wraps a     *)
(* method annotated with @DLock in lock() and unlock() of a new            *)
(* DistributedLock.  It is the only caller of the lock in the repository.  *)
(***************************************************************************)
EXTENDS DistributedLock

VARIABLE invocation   \* what each thread's invoke() is doing

InvocationValues == {"none", "locking", "method", "finally"}
ivars == <<vars, invocation>>

InvocationTypeOK ==
  /\ TypeOK
  /\ invocation \in [Clients -> InvocationValues]

InvocationInit ==
  /\ Init
  /\ invocation = [c \in Clients |-> "none"]

Becomes(c, what) == invocation' = [invocation EXCEPT ![c] = what]

\* The annotation is absent: no lock is made.
InvokeUnannotated(c) ==
  /\ invocation[c] = "none" /\ pc[c] = "idle"
  /\ UNCHANGED ivars

\* A new DistributedLock; lock() is called.
Invoke(c) ==
  /\ invocation[c] = "none"
  /\ Lock(c)
  /\ Becomes(c, "locking")

InLock(c) ==
  /\ invocation[c] = "locking"
  /\ LockStep(c)
  /\ UNCHANGED invocation

\* if (!locked) return method.invoke(target, args): the method is run by
\* the thread that did NOT get the lock.
RunMethod(c) ==
  /\ invocation[c] = "locking" /\ pc[c] = "returned" /\ ~locked[c]
  /\ Becomes(c, "method")
  /\ UNCHANGED vars

\* The method returns or throws.
MethodEnds(c) ==
  /\ invocation[c] = "method"
  /\ Becomes(c, "finally")
  /\ UNCHANGED vars

\* The lock was acquired: straight to finally, and return null.
SkipMethod(c) ==
  /\ invocation[c] = "locking" /\ pc[c] = "returned" /\ locked[c]
  /\ Becomes(c, "finally")
  /\ UNCHANGED vars

\* Mutant: the lock is released only after the method has run.
FinallyIfNotLocked(c) ==
  /\ invocation[c] = "finally"
  /\ IF locked[c]
       THEN /\ Goto(c, "idle")
            /\ UNCHANGED <<now, key, timeout, stamp, lockTime, locked, late, faults>>
       ELSE Unlock(c)
  /\ Becomes(c, "none")

Finally(c) ==
  /\ invocation[c] = "finally"
  /\ Unlock(c) \/ UnlockThrows(c)
  /\ Becomes(c, "none")

Die(c) ==
  /\ Crash(c)
  /\ Becomes(c, "none")

InvocationStep(c) ==
  InLock(c) \/ RunMethod(c) \/ MethodEnds(c) \/ SkipMethod(c) \/ Finally(c)

InvocationNext ==
  \/ Tick /\ UNCHANGED invocation
  \/ \E c \in Clients :
       InvokeUnannotated(c) \/ Invoke(c) \/ InvocationStep(c) \/ Die(c)

InvocationSpec == InvocationInit /\ [][InvocationNext]_ivars

\* A thread inside invoke() is scheduled, and the method it runs ends.
FairInvocationSpec ==
  InvocationSpec /\ \A c \in Clients : WF_ivars(InvocationStep(c))

------------------------------------------------------------------------------
\* What @DLock is for: no two threads are inside annotated methods with the
\* same lockKey, as long as nobody is late.
MethodsExclude ==
  ~late => \A c, d \in Clients :
             invocation[c] = "method" /\ invocation[d] = "method" => c = d

\* A thread that calls an annotated method gets out of invoke(): lock() gives
\* up or succeeds, and finally runs on every way out.
InvocationEnds ==
  \A c \in Clients : invocation[c] # "none" ~> invocation[c] = "none"

\* Between two invocations no lock is owned, however the last one ended.
NothingOwnedOutside ==
  \A c \in Clients : invocation[c] = "none" => ~locked[c]
==============================================================================
