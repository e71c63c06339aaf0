----------------------------- MODULE RedisQueue -----------------------------
(***************************************************************************)
(* The message queue of devplat-redis.  RedisMQServiceImpl.sendMessage     *)
(* notes the routing key in a HashSet of its JVM and pushes the message on *)
(* the Redis list of that key.  On every node RedisMQListener.onMessage    *)
(* runs every two seconds, one run at a time: for each key its JVM knows   *)
(* it asks for the list's length, pops that many messages and hands each,  *)
(* or the null an empty list gives, to every consumer bean.  Lists outlive *)
(* the nodes; the sets of keys do not.                                     *)
(***************************************************************************)
EXTENDS Integers, Sequences, FiniteSets, SequencesExt

CONSTANTS
  Nodes,            \* the JVMs, each with senders and a listener
  Keys,             \* routing keys
  Messages,         \* each is sent once
  KeyOf,            \* the routing key of each message
  ConsumerKeys,     \* consumerServiceList: getRoutingKey() of each bean
  MaxFaults,        \* bound: crashes, exceptions and lost replies
  None              \* Java null

Consumers == 1..Len(ConsumerKeys)

\* Spring does not start without a consumer bean.
ASSUME KeysAreGiven ==
  /\ KeyOf \in [Messages -> Keys]
  /\ ConsumerKeys \in Seq(Keys) /\ ConsumerKeys # <<>>
  /\ MaxFaults \in Nat
ASSUME NodesAreCounted == IsFiniteSet(Nodes)
ASSUME NoneIsNothing == None \notin Messages \cup Nodes

VARIABLES
  queue,            \* the Redis list of each key
  routingKeys,      \* of each node
  sender,           \* the node whose sendMessage has noted a message's key
  noting,           \* the messages whose sendMessage is adding the key
  pushed,           \* the messages whose rpush was made
  pc,               \* where each listener is
  seen,             \* routingKeys when its loop over them began
  todo,             \* the keys its loop has yet to visit
  left,             \* how often it has yet to pop
  key,              \* the key it is at
  hand,             \* what it has popped
  turn,             \* the consumer it is at
  handled,          \* what each consumer of each node was given, in order
  log,              \* history: what was pushed on each list, in order
  lost,             \* history: what a fault took out of a listener's hand
  faults            \* history: how many faults there were

listening == <<pc, seen, todo, left, key, hand, turn>>
sending == <<routingKeys, sender, noting, pushed>>
vars == <<queue, sending, listening, handled, log, lost, faults>>

TypeOK ==
  /\ queue \in [Keys -> Seq(Messages)]
  /\ routingKeys \in [Nodes -> SUBSET Keys]
  /\ sender \in [Messages -> Nodes \cup {None}]
  /\ noting \in SUBSET Messages
  /\ pushed \in SUBSET Messages
  /\ pc \in [Nodes -> {"idle", "keys", "pop", "consume"}]
  /\ seen \in [Nodes -> SUBSET Keys]
  /\ todo \in [Nodes -> SUBSET Keys]
  /\ left \in [Nodes -> Nat]
  /\ key \in [Nodes -> Keys \cup {None}]
  /\ hand \in [Nodes -> Messages \cup {None}]
  /\ turn \in [Nodes -> Consumers]
  /\ handled \in [Nodes -> [Consumers -> Seq(Messages \cup {None})]]
  /\ log \in [Keys -> Seq(Messages)]
  /\ lost \in SUBSET Messages
  /\ faults \in 0..MaxFaults

Init ==
  /\ queue = [k \in Keys |-> <<>>]
  /\ routingKeys = [n \in Nodes |-> {}]
  /\ sender = [m \in Messages |-> None]
  /\ noting = {}
  /\ pushed = {}
  /\ pc = [n \in Nodes |-> "idle"]
  /\ seen = [n \in Nodes |-> {}]
  /\ todo = [n \in Nodes |-> {}]
  /\ left = [n \in Nodes |-> 0]
  /\ key = [n \in Nodes |-> None]
  /\ hand = [n \in Nodes |-> None]
  /\ turn = [n \in Nodes |-> 1]
  /\ handled = [n \in Nodes |-> [i \in Consumers |-> <<>>]]
  /\ log = [k \in Keys |-> <<>>]
  /\ lost = {}
  /\ faults = 0

Goto(n, where) == pc' = [pc EXCEPT ![n] = where]
Fault == faults < MaxFaults /\ faults' = faults + 1

------------------------------------------------------------------------------
\* sendMessage() on node n: it looks the key up in routingKeys and adds it.
SendMessage(m, n) ==
  /\ sender[m] = None
  /\ sender' = [sender EXCEPT ![m] = n]
  /\ noting' = noting \cup {m}
  /\ UNCHANGED <<queue, routingKeys, pushed, listening, handled, log,
                 lost, faults>>

\* The HashSet has no lock: of two senders that add at a time one may fail.
NoteKey(m) ==
  /\ m \in noting
  /\ noting' = noting \ {m}
  /\ \/ routingKeys' = [routingKeys EXCEPT ![sender[m]] = @ \cup {KeyOf[m]}]
     \/ /\ \E q \in noting \ {m} : sender[q] = sender[m]
        /\ UNCHANGED routingKeys
  /\ UNCHANGED <<queue, sender, pushed, listening, handled, log, lost, faults>>

\* The rpush, unless it fails or the node stops first.
Push(m) ==
  /\ sender[m] # None /\ m \notin pushed \cup noting
  /\ pushed' = pushed \cup {m}
  /\ queue' = [queue EXCEPT ![KeyOf[m]] = Append(@, m)]
  /\ log' = [log EXCEPT ![KeyOf[m]] = Append(@, m)]
  /\ UNCHANGED <<routingKeys, sender, noting, listening, handled, lost,
                 faults>>

\* JedisCluster makes an rpush again whose reply has not come.
PushAgain(m) ==
  /\ m \in pushed
  /\ Fault
  /\ queue' = [queue EXCEPT ![KeyOf[m]] = Append(@, m)]
  /\ log' = [log EXCEPT ![KeyOf[m]] = Append(@, m)]
  /\ UNCHANGED <<sending, listening, handled, lost>>

------------------------------------------------------------------------------
\* The listener of a node rests: what it worked with is forgotten.
Rest(n) ==
  /\ Goto(n, "idle")
  /\ seen' = [seen EXCEPT ![n] = {}]
  /\ todo' = [todo EXCEPT ![n] = {}]
  /\ left' = [left EXCEPT ![n] = 0]
  /\ key' = [key EXCEPT ![n] = None]
  /\ hand' = [hand EXCEPT ![n] = None]
  /\ turn' = [turn EXCEPT ![n] = 1]

\* What is in its hand is lost then, whether or not a consumer has had it.
RestAndLose(n) ==
  /\ Rest(n)
  /\ lost' = IF hand[n] = None THEN lost ELSE lost \cup {hand[n]}

\* A scheduled run of onMessage() begins.
OnMessage(n) ==
  /\ pc[n] = "idle"
  /\ Goto(n, "keys")
  /\ seen' = [seen EXCEPT ![n] = routingKeys[n]]
  /\ todo' = [todo EXCEPT ![n] = routingKeys[n]]
  /\ UNCHANGED <<queue, sending, left, key, hand, turn, handled, log,
                 lost, faults>>

\* The next key, and readMessageQueueLength() of it.  A key that was added
\* since may pass unnoticed.
NextKey(n) ==
  /\ pc[n] = "keys"
  /\ \E k \in todo[n] :
       /\ todo' = [todo EXCEPT ![n] = @ \ {k}]
       /\ key' = [key EXCEPT ![n] = k]
       /\ left' = [left EXCEPT ![n] = Len(queue[k])]
  /\ Goto(n, "pop")
  /\ UNCHANGED <<queue, sending, seen, hand, turn, handled, log, lost, faults>>

\* Or it is noticed: ConcurrentModificationException.
Modified(n) ==
  /\ pc[n] = "keys" /\ todo[n] # {} /\ seen[n] # routingKeys[n]
  /\ Rest(n)
  /\ UNCHANGED <<queue, sending, handled, log, lost, faults>>

AllKeysDone(n) ==
  /\ pc[n] = "keys" /\ todo[n] = {}
  /\ Rest(n)
  /\ UNCHANGED <<queue, sending, handled, log, lost, faults>>

\* Mutant: The head is read and not removed.
PopPeeks(n) ==
  /\ pc[n] = "pop" /\ left[n] > 0
  /\ left' = [left EXCEPT ![n] = @ - 1]
  /\ IF queue[key[n]] = <<>>
       THEN UNCHANGED <<queue, hand>>
       ELSE /\ hand' = [hand EXCEPT ![n] = Head(queue[key[n]])]
            /\ UNCHANGED queue
  /\ Goto(n, "consume")
  /\ UNCHANGED <<sending, seen, todo, key, turn, handled, log, lost, faults>>

\* Mutant: The list is popped where it is pushed.
PopLast(n) ==
  /\ pc[n] = "pop" /\ left[n] > 0
  /\ left' = [left EXCEPT ![n] = @ - 1]
  /\ IF queue[key[n]] = <<>>
       THEN UNCHANGED <<queue, hand>>
       ELSE /\ hand' = [hand EXCEPT ![n] = Last(queue[key[n]])]
            /\ queue' = [queue EXCEPT ![key[n]] = Front(@)]
  /\ Goto(n, "consume")
  /\ UNCHANGED <<sending, seen, todo, key, turn, handled, log, lost, faults>>

\* receiveMessage(): lpop, null if another node has emptied the list.
Pop(n) ==
  /\ pc[n] = "pop" /\ left[n] > 0
  /\ left' = [left EXCEPT ![n] = @ - 1]
  /\ IF queue[key[n]] = <<>>
       THEN UNCHANGED <<queue, hand>>
       ELSE /\ hand' = [hand EXCEPT ![n] = Head(queue[key[n]])]
            /\ queue' = [queue EXCEPT ![key[n]] = Tail(@)]
  /\ Goto(n, "consume")
  /\ UNCHANGED <<sending, seen, todo, key, turn, handled, log, lost, faults>>

\* Mutant: The run ends with the first key.
KeyDoneReturns(n) ==
  /\ pc[n] = "pop" /\ left[n] = 0
  /\ Rest(n)
  /\ UNCHANGED <<queue, sending, handled, log, lost, faults>>

\* The length that was read has been popped.
KeyDone(n) ==
  /\ pc[n] = "pop" /\ left[n] = 0
  /\ key' = [key EXCEPT ![n] = None]
  /\ Goto(n, "keys")
  /\ UNCHANGED <<queue, sending, seen, todo, left, hand, turn, handled,
                 log, lost, faults>>

\* Mutant: An index one past the list.
ConsumeTooFar(n) ==
  /\ pc[n] = "consume"
  /\ handled' = IF ConsumerKeys[turn[n]] = key[n]
                  THEN [handled EXCEPT ![n][turn[n]] = Append(@, hand[n])]
                  ELSE handled
  /\ IF turn[n] <= Len(ConsumerKeys)
       THEN /\ turn' = [turn EXCEPT ![n] = @ + 1]
            /\ UNCHANGED <<pc, hand>>
       ELSE /\ turn' = [turn EXCEPT ![n] = 1]
            /\ hand' = [hand EXCEPT ![n] = None]
            /\ Goto(n, "pop")
  /\ UNCHANGED <<queue, sending, seen, todo, left, key, log, lost, faults>>

\* Mutant: The loop ends at a consumer of another key.
ConsumeUntilOther(n) ==
  /\ pc[n] = "consume"
  /\ handled' = IF ConsumerKeys[turn[n]] = key[n]
                  THEN [handled EXCEPT ![n][turn[n]] = Append(@, hand[n])]
                  ELSE handled
  /\ IF turn[n] < Len(ConsumerKeys) /\ ConsumerKeys[turn[n]] = key[n]
       THEN /\ turn' = [turn EXCEPT ![n] = @ + 1]
            /\ UNCHANGED <<pc, hand>>
       ELSE /\ turn' = [turn EXCEPT ![n] = 1]
            /\ hand' = [hand EXCEPT ![n] = None]
            /\ Goto(n, "pop")
  /\ UNCHANGED <<queue, sending, seen, todo, left, key, log, lost, faults>>

\* handleMessage() of one consumer: those of other keys return at once.
Consume(n) ==
  /\ pc[n] = "consume"
  /\ handled' = IF ConsumerKeys[turn[n]] = key[n]
                  THEN [handled EXCEPT ![n][turn[n]] = Append(@, hand[n])]
                  ELSE handled
  /\ IF turn[n] < Len(ConsumerKeys)
       THEN /\ turn' = [turn EXCEPT ![n] = @ + 1]
            /\ UNCHANGED <<pc, hand>>
       ELSE /\ turn' = [turn EXCEPT ![n] = 1]
            /\ hand' = [hand EXCEPT ![n] = None]
            /\ Goto(n, "pop")
  /\ UNCHANGED <<queue, sending, seen, todo, left, key, log, lost, faults>>

\* A consumer, or a call to Redis, throws: the run ends, with the message.
Throw(n) ==
  /\ pc[n] \in {"keys", "pop", "consume"}
  /\ Fault
  /\ RestAndLose(n)
  /\ UNCHANGED <<queue, sending, handled, log>>

\* The reply to an lpop that was made is lost; JedisCluster makes another,
\* or gives up with an exception.
ReplyLost(n) ==
  /\ pc[n] = "pop" /\ left[n] > 0 /\ queue[key[n]] # <<>>
  /\ Fault
  /\ lost' = lost \cup {Head(queue[key[n]])}
  /\ queue' = [queue EXCEPT ![key[n]] = Tail(@)]
  /\ Rest(n) \/ UNCHANGED listening
  /\ UNCHANGED <<sending, handled, log>>

\* A node stops and starts again with no keys, and its senders, if at all,
\* from the beginning.
Crash(n) ==
  /\ Fault
  /\ routingKeys' = [routingKeys EXCEPT ![n] = {}]
  /\ sender' = [m \in Messages |->
                  IF sender[m] = n /\ m \notin pushed THEN None ELSE sender[m]]
  /\ noting' = {m \in noting : sender[m] # n}
  /\ RestAndLose(n)
  /\ UNCHANGED <<queue, pushed, handled, log>>

------------------------------------------------------------------------------
Listen(n) ==
  \/ OnMessage(n) \/ NextKey(n) \/ Modified(n) \/ AllKeysDone(n)
  \/ Pop(n) \/ KeyDone(n) \/ Consume(n)

Next ==
  \/ \E m \in Messages, n \in Nodes : SendMessage(m, n)
  \/ \E m \in Messages : NoteKey(m) \/ Push(m) \/ PushAgain(m)
  \/ \E n \in Nodes : Listen(n) \/ Throw(n) \/ ReplyLost(n) \/ Crash(n)

Spec == Init /\ [][Next]_vars

\* The scheduler runs the listeners, and a sender's rpush is made.
FairSpec ==
  /\ Spec
  /\ \A n \in Nodes : WF_vars(Listen(n))
  /\ \A m \in Messages : WF_vars(NoteKey(m) \/ Push(m))

------------------------------------------------------------------------------
\* A consumer still to come in the turn of the listener that holds m.
IsHeldFor(m, i) == \E n \in Nodes : hand[n] = m /\ turn[n] <= i

\* The consumer i of some node was given m.
IsHandled(m, i) == \E n \in Nodes : m \in ToSet(handled[n][i])

\* No message slips through: what was pushed is in its list, on its way to
\* a consumer of its key, handled by it, or lost by a fault that is known.
NothingVanishes ==
  \A m \in pushed : \A i \in Consumers :
    ConsumerKeys[i] = KeyOf[m] =>
      \/ m \in ToSet(queue[KeyOf[m]])
      \/ IsHeldFor(m, i) \/ IsHandled(m, i)
      \/ m \in lost

Places(m, s) == {j \in 1..Len(s) : s[j] = m}

\* However many nodes poll a list, a consumer is given each message of its
\* key once at most for each rpush of it: what it was given, what is still in
\* the list and what is on its way to it add up to no more.
HandledOnce ==
  \A m \in Messages : \A i \in Consumers :
    IF ConsumerKeys[i] = KeyOf[m]
      THEN Cardinality(UNION {{n} \X Places(m, handled[n][i]) : n \in Nodes})
             + Cardinality(Places(m, queue[KeyOf[m]]))
             + Cardinality({n \in Nodes : hand[n] = m /\ turn[n] <= i})
             <= Cardinality(Places(m, log[KeyOf[m]]))
      ELSE ~IsHandled(m, i)

\* What was given, but for nulls, has its order in what was sent.
InOrder(given, sent) ==
  \A a, b \in 1..Len(given) :
    a < b /\ given[a] # None /\ given[b] # None =>
      \E x, y \in 1..Len(sent) : x < y /\ sent[x] = given[a] /\ sent[y] = given[b]

\* Each node hands a consumer the messages of its key in the order in which
\* they were pushed, over faults and restarts, though others pop between.
HandledInOrder ==
  \A n \in Nodes : \A i \in Consumers :
    InOrder(handled[n][i], log[ConsumerKeys[i]])

Knows(n, m) == KeyOf[m] \in routingKeys[n]

\* Every message that is pushed while some node knows its key is handled in
\* the end, whatever else that node has to visit, unless a fault takes it or
\* its key away.
EveryMessageHandled ==
  \A m \in Messages : \A i \in Consumers :
    m \in pushed /\ ConsumerKeys[i] = KeyOf[m] /\ (\E n \in Nodes : Knows(n, m))
      ~> IsHandled(m, i) \/ m \in lost \/ \A n \in Nodes : ~Knows(n, m)
==============================================================================
