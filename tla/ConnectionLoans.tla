--------------------------- MODULE ConnectionLoans ---------------------------
(***************************************************************************)
(* What a pool of connections promises its users: a connection is lent to  *)
(* one of them at a time, stays theirs until they give it back themselves, *)
(* and is not closed meanwhile, until maintenance disturbs the loans.      *)
(* Even then nobody loses the connection in hand to another, nor does a    *)
(* closed one come back.                                                   *)
(***************************************************************************)
CONSTANTS
  Users,            \* those who ask for connections
  Conns,            \* the connections there will ever be
  None

VARIABLES
  loan,             \* the connection each user has, or None
  closed,           \* the connections that were closed
  disturbed         \* maintenance took a connection in use

vars == <<loan, closed, disturbed>>

Init ==
  /\ loan = [u \in Users |-> None]
  /\ closed = {}
  /\ disturbed = FALSE

Lent == {c \in Conns : \E u \in Users : loan[u] = c}

\* Connections are closed, among them, as long as it is kept, none that is lent.
Close ==
  /\ closed' \in SUBSET Conns
  /\ closed \subseteq closed'
  /\ ~disturbed' => closed' \cap Lent \subseteq closed

\* A bad connection may be closed on this occasion; when it cannot be replaced
\* it is lent all the same.
Lend(u) ==
  /\ loan[u] = None
  /\ \E c \in Conns :
       /\ ~disturbed => c \notin Lent
       /\ loan' = [loan EXCEPT ![u] = c]
  /\ Close
  /\ UNCHANGED disturbed

GiveBack(u) ==
  /\ loan[u] # None
  /\ loan' = [loan EXCEPT ![u] = None]
  /\ UNCHANGED <<closed, disturbed>>

Maintain ==
  /\ Close
  /\ disturbed => disturbed'
  /\ disturbed' \in BOOLEAN
  /\ UNCHANGED loan

Next == Maintain \/ \E u \in Users : Lend(u) \/ GiveBack(u)

Spec == Init /\ [][Next]_vars
==============================================================================
