------------------------------ MODULE LeaseLock ------------------------------
(***************************************************************************)
(* What the redis lock promises: at most one owner, as long as nobody has  *)
(* overrun its share of the lease.  Once somebody has (late), ownership is *)
(* no longer exclusive.  DistributedLock is shown to implement this.       *)
(***************************************************************************)
CONSTANT Clients

VARIABLES owners,   \* the clients whose last lock() returned true
          late      \* somebody took longer than the lease allows

vars == <<owners, late>>

Init == owners = {} /\ late = FALSE

\* A client becomes an owner: alone, unless the timing promise is broken.
Acquire(c) ==
  /\ c \notin owners
  /\ owners = {} \/ late
  /\ owners' = owners \cup {c}
  /\ UNCHANGED late

\* An owner unlocks or dies.
Release(c) ==
  /\ c \in owners
  /\ owners' = owners \ {c}
  /\ UNCHANGED late

Overrun ==
  /\ late' = TRUE
  /\ UNCHANGED owners

Next == Overrun \/ \E c \in Clients : Acquire(c) \/ Release(c)

Spec == Init /\ [][Next]_vars
==============================================================================
