-------------------------- MODULE RedisQueue_proofs --------------------------
(***************************************************************************)
(* For any nodes, keys, messages, consumers and number of faults: no       *)
(* message slips through, none is handled more often than it was pushed,   *)
(* and none overtakes another on its way to a consumer of a node.          *)
(***************************************************************************)
EXTENDS RedisQueue, SequenceTheorems, FiniteSetTheorems, TLAPS

LEMMA FirstConsumer == 1 \in Consumers /\ Len(ConsumerKeys) \in Nat
BY KeysAreGiven DEF Consumers

------------------------------------------------------------------------------
\* A listener holds nothing between two pops, and what it holds is of its key.
ListenerOK ==
  \A n \in Nodes :
    /\ pc[n] \in {"pop", "consume"} => key[n] \in Keys
    /\ pc[n] # "consume" => hand[n] = None /\ turn[n] = 1
    /\ hand[n] # None => key[n] = KeyOf[hand[n]]

\* A list holds messages of its key.
QueuesOK == \A k \in Keys : \A j \in 1..Len(queue[k]) : KeyOf[queue[k][j]] = k

\* A key is added by the node that sends.
SendersOK == \A m \in noting : sender[m] # None

QueueInv == TypeOK /\ ListenerOK /\ QueuesOK /\ SendersOK

LEMMA InitQueueInv == Init => QueueInv
<1> SUFFICES ASSUME Init PROVE QueueInv
  OBVIOUS
<1>1. <<>> \in Seq(Messages) /\ <<>> \in Seq(Messages \cup {None}) /\ 0 \in 0..MaxFaults
  BY KeysAreGiven
<1>2. TypeOK
  BY <1>1, FirstConsumer DEF Init, TypeOK
<1>3. ListenerOK
  BY DEF Init, ListenerOK
<1>4. QueuesOK
  <2>1. Len(<<>>) = 0
    OBVIOUS
  <2>2. QED
    BY <2>1 DEF Init, QueuesOK
<1>5. QED
  BY <1>2, <1>3, <1>4 DEF Init, SendersOK, QueueInv

\* What a resting listener is typed by.
LEMMA RestTypes ==
  ASSUME TypeOK, NEW n \in Nodes, Rest(n)
  PROVE  /\ pc' \in [Nodes -> {"idle", "keys", "pop", "consume"}]
         /\ seen' \in [Nodes -> SUBSET Keys] /\ todo' \in [Nodes -> SUBSET Keys]
         /\ left' \in [Nodes -> Nat] /\ key' \in [Nodes -> Keys \cup {None}]
         /\ hand' \in [Nodes -> Messages \cup {None}] /\ turn' \in [Nodes -> Consumers]
BY FirstConsumer DEF TypeOK, Rest, Goto

LEMMA RestListener ==
  ASSUME TypeOK, ListenerOK, NEW n \in Nodes, Rest(n) PROVE ListenerOK'
BY DEF TypeOK, ListenerOK, Rest, Goto

\* The senders.
LEMMA SendStep ==
  ASSUME QueueInv, NEW m \in Messages, NEW n \in Nodes, SendMessage(m, n)
  PROVE  QueueInv'
<1>1. TypeOK'
  BY DEF QueueInv, TypeOK, SendMessage, listening
<1>2. ListenerOK' /\ QueuesOK'
  BY DEF QueueInv, ListenerOK, QueuesOK, SendMessage, listening
<1>3. SendersOK'
  BY NoneIsNothing DEF QueueInv, TypeOK, SendersOK, SendMessage
<1>4. QED
  BY <1>1, <1>2, <1>3 DEF QueueInv

LEMMA NoteStep == ASSUME QueueInv, NEW m \in Messages, NoteKey(m) PROVE QueueInv'
<1>1. m \in noting /\ noting' = noting \ {m}
      /\ UNCHANGED <<queue, sender, pushed, listening, handled, log, lost, faults>>
  BY DEF NoteKey
<1>2. routingKeys' \in [Nodes -> SUBSET Keys]
  <2>1. sender[m] \in Nodes /\ KeyOf[m] \in Keys
    BY <1>1, KeysAreGiven DEF QueueInv, TypeOK, SendersOK
  <2>2. \/ routingKeys' = [routingKeys EXCEPT ![sender[m]] = @ \cup {KeyOf[m]}]
        \/ routingKeys' = routingKeys
    BY DEF NoteKey
  <2>3. routingKeys \in [Nodes -> SUBSET Keys]
    BY DEF QueueInv, TypeOK
  <2>4. QED
    BY <2>1, <2>2, <2>3
<1>3. TypeOK'
  BY <1>1, <1>2 DEF QueueInv, TypeOK, listening
<1>4. ListenerOK' /\ QueuesOK' /\ SendersOK'
  BY <1>1 DEF QueueInv, ListenerOK, QueuesOK, SendersOK, listening
<1>5. QED
  BY <1>3, <1>4 DEF QueueInv

\* A message more in its list, pushed for the first time or again.
Pushed(m) ==
  /\ queue' = [queue EXCEPT ![KeyOf[m]] = Append(@, m)]
  /\ log' = [log EXCEPT ![KeyOf[m]] = Append(@, m)]
  /\ pushed' \in {pushed, pushed \cup {m}} /\ m \in pushed'
  /\ faults' \in 0..MaxFaults
  /\ UNCHANGED <<routingKeys, sender, noting, listening, handled, lost>>

LEMMA PushIs ==
  ASSUME QueueInv, NEW m \in Messages, Push(m) \/ PushAgain(m) PROVE Pushed(m)
<1>1. CASE Push(m)
  BY <1>1 DEF Push, Pushed, QueueInv, TypeOK
<1>2. CASE PushAgain(m)
  BY <1>2, KeysAreGiven DEF PushAgain, Pushed, Fault, sending, QueueInv, TypeOK
<1>3. QED
  BY <1>1, <1>2

LEMMA PushStep == ASSUME QueueInv, NEW m \in Messages, Pushed(m) PROVE QueueInv'
<1> DEFINE k == KeyOf[m]
<1>1. k \in Keys /\ queue[k] \in Seq(Messages) /\ log[k] \in Seq(Messages)
  BY KeysAreGiven DEF QueueInv, TypeOK
<1>2. /\ Append(queue[k], m) \in Seq(Messages) /\ Append(log[k], m) \in Seq(Messages)
      /\ Len(Append(queue[k], m)) = Len(queue[k]) + 1 /\ Len(queue[k]) \in Nat
      /\ \A j \in 1..Len(queue[k]) : Append(queue[k], m)[j] = queue[k][j]
      /\ Append(queue[k], m)[Len(queue[k]) + 1] = m
  BY <1>1, AppendProperties, LenProperties
<1>3. /\ queue' \in [Keys -> Seq(Messages)] /\ log' \in [Keys -> Seq(Messages)]
      /\ queue'[k] = Append(queue[k], m)
      /\ \A l \in Keys \ {k} : queue'[l] = queue[l]
  BY <1>1, <1>2 DEF Pushed, QueueInv, TypeOK
<1>4. TypeOK'
  BY <1>3 DEF Pushed, QueueInv, TypeOK, listening
<1>5. ListenerOK' /\ SendersOK'
  BY DEF Pushed, QueueInv, ListenerOK, SendersOK, listening
<1>6. QueuesOK'
  <2> SUFFICES ASSUME NEW l \in Keys, NEW j \in 1..Len(queue'[l])
               PROVE  KeyOf[queue'[l][j]] = l
    BY DEF QueuesOK
  <2>1. CASE l # k
    BY <1>3, <2>1 DEF QueueInv, QueuesOK
  <2>2. CASE l = k
    <3>1. j \in 1..Len(queue[k]) \/ j = Len(queue[k]) + 1
      BY <1>2, <1>3, <2>2
    <3>2. j \in 1..Len(queue[k]) => queue'[l][j] = queue[k][j]
      BY <1>2, <1>3, <2>2
    <3>3. j = Len(queue[k]) + 1 => queue'[l][j] = m
      BY <1>2, <1>3, <2>2
    <3>4. j \in 1..Len(queue[k]) => KeyOf[queue[k][j]] = k
      BY <1>1 DEF QueueInv, QueuesOK
    <3>5. QED
      BY <2>2, <3>1, <3>2, <3>3, <3>4
  <2>3. QED
    BY <2>1, <2>2
<1>7. QED
  BY <1>4, <1>5, <1>6 DEF QueueInv

\* The listeners between two pops.
Moves(n) == OnMessage(n) \/ NextKey(n) \/ Modified(n) \/ AllKeysDone(n) \/ KeyDone(n)

LEMMA MoveKeeps ==
  ASSUME QueueInv, NEW n \in Nodes, Moves(n)
  PROVE  /\ UNCHANGED <<queue, sending, handled, log, lost, faults>>
         /\ hand' = hand /\ turn' = turn
<1>1. CASE OnMessage(n) \/ NextKey(n) \/ KeyDone(n)
  BY <1>1 DEF OnMessage, NextKey, KeyDone
<1>2. CASE Modified(n) \/ AllKeysDone(n)
  <2>1. hand[n] = None /\ turn[n] = 1
    BY <1>2 DEF Modified, AllKeysDone, QueueInv, ListenerOK
  <2>2. hand' = [hand EXCEPT ![n] = None] /\ turn' = [turn EXCEPT ![n] = 1]
    BY <1>2 DEF Modified, AllKeysDone, Rest
  <2>3. hand' = hand /\ turn' = turn
    BY <2>1, <2>2 DEF QueueInv, TypeOK
  <2>4. QED
    BY <1>2, <2>3 DEF Modified, AllKeysDone
<1>3. QED
  BY <1>1, <1>2 DEF Moves

LEMMA MoveStep == ASSUME QueueInv, NEW n \in Nodes, Moves(n) PROVE QueueInv'
<1>1. QueuesOK' /\ SendersOK'
  BY MoveKeeps DEF QueueInv, QueuesOK, SendersOK, sending
<1>2. CASE OnMessage(n)
  <2>1. TypeOK'
    BY <1>2 DEF OnMessage, Goto, QueueInv, TypeOK, sending
  <2>2. ListenerOK'
    BY <1>2 DEF OnMessage, Goto, QueueInv, TypeOK, ListenerOK
  <2>3. QED
    BY <1>1, <2>1, <2>2 DEF QueueInv
<1>3. CASE NextKey(n)
  <2>1. PICK k \in todo[n] :
          /\ todo' = [todo EXCEPT ![n] = @ \ {k}]
          /\ key' = [key EXCEPT ![n] = k]
          /\ left' = [left EXCEPT ![n] = Len(queue[k])]
    BY <1>3 DEF NextKey
  <2>2. k \in Keys /\ Len(queue[k]) \in Nat
    BY <2>1, LenProperties DEF QueueInv, TypeOK
  <2>3. /\ pc[n] = "keys" /\ pc' = [pc EXCEPT ![n] = "pop"]
        /\ UNCHANGED <<queue, sending, seen, hand, turn, handled, log, lost, faults>>
    BY <1>3 DEF NextKey, Goto
  <2>4. TypeOK'
    BY <2>1, <2>2, <2>3 DEF QueueInv, TypeOK, sending
  <2>5. ListenerOK'
    BY <2>1, <2>2, <2>3 DEF QueueInv, TypeOK, ListenerOK
  <2>6. QED
    BY <1>1, <2>4, <2>5 DEF QueueInv
<1>4. CASE Modified(n) \/ AllKeysDone(n)
  <2>1. Rest(n) /\ UNCHANGED <<queue, sending, handled, log, lost, faults>>
    BY <1>4 DEF Modified, AllKeysDone
  <2>2. TypeOK'
    BY <2>1, RestTypes DEF QueueInv, TypeOK, sending
  <2>3. QED
    BY <1>1, <2>1, <2>2, RestListener DEF QueueInv
<1>5. CASE KeyDone(n)
  <2>1. TypeOK'
    BY <1>5 DEF KeyDone, Goto, QueueInv, TypeOK, sending
  <2>2. ListenerOK'
    BY <1>5 DEF KeyDone, Goto, QueueInv, TypeOK, ListenerOK
  <2>3. QED
    BY <1>1, <2>1, <2>2 DEF QueueInv
<1>6. QED
  BY <1>2, <1>3, <1>4, <1>5 DEF Moves

\* The head of a list that is not empty is taken off.
LEMMA OffTheList ==
  ASSUME QueueInv, NEW k \in Keys, queue[k] # <<>>,
         queue' = [queue EXCEPT ![k] = Tail(@)]
  PROVE  /\ queue' \in [Keys -> Seq(Messages)] /\ QueuesOK'
         /\ Head(queue[k]) \in Messages /\ KeyOf[Head(queue[k])] = k
<1>1. queue[k] \in Seq(Messages)
  BY DEF QueueInv, TypeOK
<1>2. /\ Tail(queue[k]) \in Seq(Messages) /\ Head(queue[k]) \in Messages
      /\ Len(Tail(queue[k])) = Len(queue[k]) - 1
      /\ \A j \in 1..Len(Tail(queue[k])) : Tail(queue[k])[j] = queue[k][j + 1]
  BY <1>1, HeadTailProperties
<1>3. Len(queue[k]) \in Nat \ {0} /\ Head(queue[k]) = queue[k][1]
  BY <1>1, EmptySeq
<1>4. /\ queue' \in [Keys -> Seq(Messages)] /\ queue'[k] = Tail(queue[k])
      /\ \A l \in Keys \ {k} : queue'[l] = queue[l]
  BY <1>2 DEF QueueInv, TypeOK
<1>5. QueuesOK'
  <2> SUFFICES ASSUME NEW l \in Keys, NEW j \in 1..Len(queue'[l])
               PROVE  KeyOf[queue'[l][j]] = l
    BY DEF QueuesOK
  <2>1. CASE l # k
    BY <1>4, <2>1 DEF QueueInv, QueuesOK
  <2>2. CASE l = k
    <3>1. queue'[l][j] = queue[k][j + 1] /\ j + 1 \in 1..Len(queue[k])
      BY <1>2, <1>3, <1>4, <2>2
    <3>2. QED
      BY <2>2, <3>1 DEF QueueInv, QueuesOK
  <2>3. QED
    BY <2>1, <2>2
<1>6. KeyOf[Head(queue[k])] = k
  BY <1>3 DEF QueueInv, QueuesOK
<1>7. QED
  BY <1>2, <1>4, <1>5, <1>6

LEMMA PopStep == ASSUME QueueInv, NEW n \in Nodes, Pop(n) PROVE QueueInv'
<1>1. /\ pc[n] = "pop" /\ left[n] > 0 /\ left' = [left EXCEPT ![n] = @ - 1]
      /\ pc' = [pc EXCEPT ![n] = "consume"]
      /\ UNCHANGED <<sending, seen, todo, key, turn, handled, log, lost, faults>>
  BY DEF Pop, Goto
<1>2. left' \in [Nodes -> Nat] /\ pc' \in [Nodes -> {"idle", "keys", "pop", "consume"}]
  BY <1>1 DEF QueueInv, TypeOK
<1>3. key[n] \in Keys /\ hand[n] = None /\ turn[n] = 1
  BY <1>1 DEF QueueInv, ListenerOK
<1>4. /\ queue' \in [Keys -> Seq(Messages)] /\ QueuesOK'
      /\ hand' \in [Nodes -> Messages \cup {None}]
      /\ \A p \in Nodes : p # n => hand'[p] = hand[p]
      /\ hand'[n] # None => key[n] = KeyOf[hand'[n]]
  <2>1. CASE queue[key[n]] = <<>>
    BY <1>3, <2>1 DEF Pop, QueueInv, TypeOK, QueuesOK
  <2>2. CASE queue[key[n]] # <<>>
    <3>1. /\ hand' = [hand EXCEPT ![n] = Head(queue[key[n]])]
          /\ queue' = [queue EXCEPT ![key[n]] = Tail(@)]
      BY <2>2 DEF Pop
    <3>2. QED
      BY <1>3, <2>2, <3>1, OffTheList DEF QueueInv, TypeOK
  <2>3. QED
    BY <2>1, <2>2
<1>5. TypeOK'
  BY <1>1, <1>2, <1>4 DEF QueueInv, TypeOK, sending
<1>6. ListenerOK'
  BY <1>1, <1>3, <1>4 DEF QueueInv, TypeOK, ListenerOK
<1>7. SendersOK'
  BY <1>1 DEF QueueInv, SendersOK, sending
<1>8. QED
  BY <1>4, <1>5, <1>6, <1>7 DEF QueueInv

LEMMA ConsumeTypes ==
  ASSUME QueueInv, NEW n \in Nodes, Consume(n)
  PROVE  handled' \in [Nodes -> [Consumers -> Seq(Messages \cup {None})]]
<1>1. /\ turn[n] \in Consumers /\ handled[n] \in [Consumers -> Seq(Messages \cup {None})]
      /\ hand[n] \in Messages \cup {None}
  BY DEF QueueInv, TypeOK
<1>2. Append(handled[n][turn[n]], hand[n]) \in Seq(Messages \cup {None})
  BY <1>1, AppendProperties
<1>3. [handled[n] EXCEPT ![turn[n]] = Append(@, hand[n])]
        \in [Consumers -> Seq(Messages \cup {None})]
  BY <1>1, <1>2
<1>4. \/ handled' = handled
      \/ handled' = [handled EXCEPT ![n][turn[n]] = Append(@, hand[n])]
  BY DEF Consume
<1>5. QED
  BY <1>3, <1>4 DEF QueueInv, TypeOK

LEMMA ConsumeStep == ASSUME QueueInv, NEW n \in Nodes, Consume(n) PROVE QueueInv'
<1>1. /\ pc[n] = "consume"
      /\ UNCHANGED <<queue, sending, seen, todo, left, key, log, lost, faults>>
  BY DEF Consume
<1>2. \/ /\ turn[n] < Len(ConsumerKeys) /\ turn' = [turn EXCEPT ![n] = @ + 1]
         /\ UNCHANGED <<pc, hand>>
      \/ /\ turn' = [turn EXCEPT ![n] = 1] /\ hand' = [hand EXCEPT ![n] = None]
         /\ pc' = [pc EXCEPT ![n] = "pop"]
  BY DEF Consume, Goto
<1>3. turn[n] \in 1..Len(ConsumerKeys) /\ Len(ConsumerKeys) \in Nat
  BY FirstConsumer DEF QueueInv, TypeOK, Consumers
<1>4. /\ turn' \in [Nodes -> Consumers] /\ hand' \in [Nodes -> Messages \cup {None}]
      /\ pc' \in [Nodes -> {"idle", "keys", "pop", "consume"}]
  <2>1. turn[n] < Len(ConsumerKeys) => turn[n] + 1 \in Consumers
    BY <1>3 DEF Consumers
  <2>2. QED
    BY <1>2, <2>1, FirstConsumer DEF QueueInv, TypeOK
<1>5. TypeOK'
  BY <1>1, <1>4, ConsumeTypes DEF QueueInv, TypeOK, sending
<1>6. ListenerOK'
  BY <1>1, <1>2 DEF QueueInv, TypeOK, ListenerOK
<1>7. QueuesOK' /\ SendersOK'
  BY <1>1 DEF QueueInv, QueuesOK, SendersOK, sending
<1>8. QED
  BY <1>5, <1>6, <1>7 DEF QueueInv

\* What a fault of a listener takes from its hand is known.
LEMMA LostTypes ==
  ASSUME QueueInv, NEW n \in Nodes, RestAndLose(n) PROVE lost' \in SUBSET Messages
BY DEF RestAndLose, QueueInv, TypeOK

LEMMA ThrowStep == ASSUME QueueInv, NEW n \in Nodes, Throw(n) PROVE QueueInv'
<1>1. Rest(n) /\ RestAndLose(n) /\ UNCHANGED <<queue, sending, handled, log>>
      /\ faults' \in 0..MaxFaults
  BY KeysAreGiven DEF Throw, RestAndLose, Fault, QueueInv, TypeOK
<1>2. TypeOK'
  BY <1>1, RestTypes, LostTypes DEF QueueInv, TypeOK, sending
<1>3. QueuesOK' /\ SendersOK'
  BY <1>1 DEF QueueInv, QueuesOK, SendersOK, sending
<1>4. QED
  BY <1>1, <1>2, <1>3, RestListener DEF QueueInv

LEMMA CrashStep == ASSUME QueueInv, NEW n \in Nodes, Crash(n) PROVE QueueInv'
<1>1. /\ Rest(n) /\ RestAndLose(n) /\ UNCHANGED <<queue, pushed, handled, log>>
      /\ faults' \in 0..MaxFaults
      /\ routingKeys' = [routingKeys EXCEPT ![n] = {}]
      /\ sender' = [m \in Messages |->
                      IF sender[m] = n /\ m \notin pushed THEN None ELSE sender[m]]
      /\ noting' = {m \in noting : sender[m] # n}
  BY KeysAreGiven DEF Crash, RestAndLose, Fault, QueueInv, TypeOK
<1>2. TypeOK'
  BY <1>1, RestTypes, LostTypes DEF QueueInv, TypeOK
<1>3. QueuesOK'
  BY <1>1 DEF QueueInv, QueuesOK
<1>4. SendersOK'
  BY <1>1 DEF QueueInv, TypeOK, SendersOK
<1>5. QED
  BY <1>1, <1>2, <1>3, <1>4, RestListener DEF QueueInv

LEMMA ReplyLostIs ==
  ASSUME QueueInv, NEW n \in Nodes, ReplyLost(n)
  PROVE  /\ key[n] \in Keys /\ queue[key[n]] # <<>>
         /\ queue' = [queue EXCEPT ![key[n]] = Tail(@)]
         /\ lost' = lost \cup {Head(queue[key[n]])}
         /\ hand' = hand /\ turn' = turn
         /\ UNCHANGED <<sending, handled, log>>
<1>1. pc[n] = "pop" /\ key[n] \in Keys /\ hand[n] = None /\ turn[n] = 1
  BY DEF ReplyLost, QueueInv, ListenerOK
<1>2. hand' = hand /\ turn' = turn
  BY <1>1 DEF ReplyLost, Rest, listening, QueueInv, TypeOK
<1>3. QED
  BY <1>1, <1>2 DEF ReplyLost

LEMMA ReplyLostStep == ASSUME QueueInv, NEW n \in Nodes, ReplyLost(n) PROVE QueueInv'
<1>1. /\ queue' \in [Keys -> Seq(Messages)] /\ QueuesOK'
      /\ Head(queue[key[n]]) \in Messages
  BY ReplyLostIs, OffTheList
<1>2. lost' \in SUBSET Messages /\ faults' \in 0..MaxFaults
  <2>1. lost' \in SUBSET Messages
    BY <1>1, ReplyLostIs DEF QueueInv, TypeOK
  <2>2. faults' \in 0..MaxFaults
    BY KeysAreGiven DEF ReplyLost, Fault, QueueInv, TypeOK
  <2>3. QED
    BY <2>1, <2>2
<1>3. (Rest(n) \/ UNCHANGED listening) /\ UNCHANGED <<sending, handled, log>>
  BY DEF ReplyLost
<1>4. TypeOK'
  <2>1. CASE Rest(n)
    BY <1>1, <1>2, <1>3, <2>1, RestTypes DEF QueueInv, TypeOK, sending
  <2>2. CASE UNCHANGED listening
    BY <1>1, <1>2, <1>3, <2>2 DEF QueueInv, TypeOK, sending, listening
  <2>3. QED
    BY <1>3, <2>1, <2>2
<1>5. ListenerOK'
  <2>1. CASE Rest(n)
    BY <2>1, RestListener DEF QueueInv
  <2>2. CASE UNCHANGED listening
    BY <2>2 DEF QueueInv, ListenerOK, listening
  <2>3. QED
    BY <1>3, <2>1, <2>2
<1>6. QED
  BY <1>1, <1>3, <1>4, <1>5 DEF QueueInv, SendersOK, sending

LEMMA NextQueueInv == QueueInv /\ [Next]_vars => QueueInv'
<1> SUFFICES ASSUME QueueInv, [Next]_vars PROVE QueueInv'
  OBVIOUS
<1>1. CASE UNCHANGED vars
  BY <1>1 DEF vars, sending, listening, QueueInv, TypeOK, ListenerOK, QueuesOK, SendersOK
<1>2. CASE Next
  BY <1>2, SendStep, NoteStep, PushIs, PushStep, MoveStep, PopStep, ConsumeStep,
     ThrowStep, CrashStep, ReplyLostStep DEF Next, Listen, Moves
<1>3. QED
  BY <1>1, <1>2

LEMMA QueueInvHolds == Spec => []QueueInv
BY InitQueueInv, NextQueueInv, PTL DEF Spec

\* The types of the queue.
THEOREM QueueTyping == Spec => []TypeOK
<1>1. QueueInv => TypeOK
  BY DEF QueueInv
<1>2. QED
  BY <1>1, QueueInvHolds, PTL

------------------------------------------------------------------------------
\* Nothing vanishes.  Where a message of a consumer's key is.
Accounted(m, i) ==
  \/ m \in ToSet(queue[KeyOf[m]])
  \/ IsHeldFor(m, i) \/ IsHandled(m, i)
  \/ m \in lost

\* A list that only grows, and what was appended to it.
LEMMA AppendedSet ==
  ASSUME NEW S, NEW s \in Seq(S), NEW e \in S
  PROVE  ToSet(Append(s, e)) = ToSet(s) \cup {e}
<1>1. /\ Append(s, e) \in Seq(S) /\ Len(Append(s, e)) = Len(s) + 1 /\ Len(s) \in Nat
      /\ \A j \in 1..Len(s) : Append(s, e)[j] = s[j]
      /\ Append(s, e)[Len(s) + 1] = e
  BY AppendProperties, LenProperties
<1>2. DOMAIN s = 1..Len(s) /\ DOMAIN Append(s, e) = 1..(Len(s) + 1)
  BY <1>1, LenProperties
<1>3. 1..(Len(s) + 1) = 1..Len(s) \cup {Len(s) + 1}
  BY <1>1
<1>4. QED
  BY <1>1, <1>2, <1>3 DEF ToSet

\* The head of a list, and what is left of it.
LEMMA HeadAndTail ==
  ASSUME NEW S, NEW s \in Seq(S), s # <<>>
  PROVE  ToSet(s) \subseteq {Head(s)} \cup ToSet(Tail(s))
<1>1. /\ Tail(s) \in Seq(S) /\ Len(Tail(s)) = Len(s) - 1
      /\ \A j \in 1..Len(Tail(s)) : Tail(s)[j] = s[j + 1]
      /\ Len(s) \in Nat \ {0} /\ Head(s) = s[1]
  BY HeadTailProperties, EmptySeq
<1>2. DOMAIN s = 1..Len(s) /\ DOMAIN Tail(s) = 1..(Len(s) - 1)
  BY <1>1, LenProperties
<1>3. ASSUME NEW j \in 1..Len(s) PROVE s[j] \in {Head(s)} \cup ToSet(Tail(s))
  <2>1. CASE j = 1
    BY <1>1, <2>1
  <2>2. CASE j # 1
    <3>1. j - 1 \in 1..(Len(s) - 1) /\ Tail(s)[j - 1] = s[j]
      BY <1>1, <2>2
    <3>2. QED
      BY <1>2, <3>1 DEF ToSet
  <2>3. QED
    BY <2>1, <2>2
<1>4. QED
  BY <1>2, <1>3 DEF ToSet

LEMMA InitVanishes == Init => NothingVanishes
BY DEF Init, NothingVanishes

LEMMA VanishesIs ==
  NothingVanishes <=>
    \A m \in pushed : \A i \in Consumers : ConsumerKeys[i] = KeyOf[m] => Accounted(m, i)
BY DEF NothingVanishes, Accounted

\* Steps after which everything is where it was.
LEMMA StillAccounted ==
  ASSUME QueueInv, NothingVanishes, pushed' = pushed, queue' = queue, hand' = hand,
         turn' = turn, handled' = handled, lost' = lost
  PROVE  NothingVanishes'
BY DEF NothingVanishes, IsHeldFor, IsHandled

LEMMA PushVanishes ==
  ASSUME QueueInv, NothingVanishes, NEW p \in Messages, Pushed(p)
  PROVE  NothingVanishes'
<1>1. KeyOf[p] \in Keys /\ queue[KeyOf[p]] \in Seq(Messages)
  BY KeysAreGiven DEF QueueInv, TypeOK
<1>2. ToSet(queue'[KeyOf[p]]) = ToSet(queue[KeyOf[p]]) \cup {p}
  BY <1>1, AppendedSet DEF Pushed, QueueInv, TypeOK
<1>3. \A k \in Keys : k # KeyOf[p] => queue'[k] = queue[k]
  BY DEF Pushed, QueueInv, TypeOK
<1>4. /\ pushed' \subseteq pushed \cup {p}
      /\ hand' = hand /\ turn' = turn /\ handled' = handled /\ lost' = lost
  BY DEF Pushed, listening
<1>5. SUFFICES ASSUME NEW m \in pushed', NEW i \in Consumers, ConsumerKeys[i] = KeyOf[m]
               PROVE  Accounted(m, i)'
  BY DEF NothingVanishes, Accounted
<1>6. CASE m = p
  BY <1>2, <1>6 DEF Accounted
<1>7. CASE m # p
  <2>0. m \in pushed
    BY <1>4, <1>7
  <2>1. Accounted(m, i) /\ m \in Messages /\ KeyOf[m] \in Keys
    BY <1>5, <2>0, KeysAreGiven, VanishesIs DEF QueueInv, TypeOK
  <2>2. ToSet(queue[KeyOf[m]]) \subseteq ToSet(queue'[KeyOf[m]])
    BY <1>2, <1>3, <2>1
  <2>3. (IsHeldFor(m, i) <=> IsHeldFor(m, i)') /\ (IsHandled(m, i) <=> IsHandled(m, i)')
    BY <1>4 DEF IsHeldFor, IsHandled
  <2>4. QED
    BY <1>4, <2>1, <2>2, <2>3 DEF Accounted
<1>8. QED
  BY <1>6, <1>7

\* The head of a list is taken: it is in a hand before every consumer's turn,
\* or lost; the other messages are where they were.
LEMMA TakeVanishes ==
  ASSUME QueueInv, NothingVanishes, NEW k \in Keys, queue[k] # <<>>,
         NEW h, h = Head(queue[k]),
         queue' = [queue EXCEPT ![k] = Tail(@)], pushed' = pushed, handled' = handled,
         lost \subseteq lost',
         \A m \in Messages : \A i \in Consumers : IsHeldFor(m, i) => IsHeldFor(m, i)',
         h \in lost' \/ \A i \in Consumers : IsHeldFor(h, i)'
  PROVE  NothingVanishes'
<1>1. queue[k] \in Seq(Messages) /\ queue'[k] = Tail(queue[k])
      /\ \A l \in Keys \ {k} : queue'[l] = queue[l]
  BY DEF QueueInv, TypeOK
<1>2. ToSet(queue[k]) \subseteq {h} \cup ToSet(queue'[k])
  BY <1>1, HeadAndTail
<1>3. SUFFICES ASSUME NEW m \in pushed, NEW i \in Consumers, ConsumerKeys[i] = KeyOf[m]
               PROVE  Accounted(m, i)'
  BY DEF NothingVanishes, Accounted
<1>4. Accounted(m, i) /\ m \in Messages /\ KeyOf[m] \in Keys
  BY <1>3, KeysAreGiven, VanishesIs DEF QueueInv, TypeOK
<1>5. IsHandled(m, i) => IsHandled(m, i)'
  BY DEF IsHandled
<1>6. CASE m \in ToSet(queue[KeyOf[m]])
  <2>1. m \in ToSet(queue'[KeyOf[m]]) \/ m = h
    BY <1>1, <1>2, <1>4, <1>6
  <2>2. QED
    BY <2>1 DEF Accounted
<1>7. CASE IsHeldFor(m, i) \/ IsHandled(m, i) \/ m \in lost
  BY <1>4, <1>5, <1>7 DEF Accounted
<1>8. QED
  BY <1>4, <1>6, <1>7 DEF Accounted

LEMMA PopVanishes ==
  ASSUME QueueInv, NothingVanishes, NEW n \in Nodes, Pop(n)
  PROVE  NothingVanishes'
<1>1. key[n] \in Keys /\ hand[n] = None /\ turn[n] = 1 /\ turn' = turn
      /\ UNCHANGED <<pushed, handled, lost>>
  BY DEF Pop, sending, QueueInv, ListenerOK
<1>2. CASE queue[key[n]] = <<>>
  BY <1>1, <1>2, StillAccounted DEF Pop
<1>3. CASE queue[key[n]] # <<>>
  <2>0. PICK h : h = Head(queue[key[n]])
    OBVIOUS
  <2>1. /\ hand' = [hand EXCEPT ![n] = h]
        /\ queue' = [queue EXCEPT ![key[n]] = Tail(@)]
    BY <1>3, <2>0 DEF Pop
  <2>2. /\ hand'[n] = h
        /\ \A p \in Nodes \ {n} : hand'[p] = hand[p]
    BY <2>1 DEF QueueInv, TypeOK
  <2>3. \A i \in Consumers : IsHeldFor(h, i)'
    <3>1. \A i \in Consumers : 1 <= i
      BY DEF Consumers
    <3>2. QED
      BY <1>1, <2>2, <3>1 DEF IsHeldFor
  <2>4. \A m \in Messages : \A i \in Consumers : IsHeldFor(m, i) => IsHeldFor(m, i)'
    BY <1>1, <2>2, NoneIsNothing DEF IsHeldFor
  <2>5. QED
    BY <1>1, <1>3, <2>0, <2>1, <2>3, <2>4, TakeVanishes
<1>4. QED
  BY <1>2, <1>3

LEMMA ReplyVanishes ==
  ASSUME QueueInv, NothingVanishes, NEW n \in Nodes, ReplyLost(n)
  PROVE  NothingVanishes'
<1>1. \A m \in Messages : \A i \in Consumers : IsHeldFor(m, i) => IsHeldFor(m, i)'
  BY ReplyLostIs DEF IsHeldFor
<1>2. QED
  BY <1>1, ReplyLostIs, TakeVanishes DEF sending

LEMMA ConsumeVanishes ==
  ASSUME QueueInv, NothingVanishes, NEW n \in Nodes, Consume(n)
  PROVE  NothingVanishes'
<1>1. /\ UNCHANGED <<queue, pushed, lost, key>>
      /\ turn[n] \in Consumers /\ hand[n] \in Messages \cup {None}
      /\ handled[n][turn[n]] \in Seq(Messages \cup {None})
  BY DEF Consume, sending, QueueInv, TypeOK
<1>2. \/ /\ turn[n] < Len(ConsumerKeys) /\ turn' = [turn EXCEPT ![n] = @ + 1]
         /\ UNCHANGED <<pc, hand>>
      \/ /\ turn' = [turn EXCEPT ![n] = 1] /\ hand' = [hand EXCEPT ![n] = None]
         /\ ~(turn[n] < Len(ConsumerKeys))
  BY DEF Consume
<1>3. ToSet(Append(handled[n][turn[n]], hand[n])) = ToSet(handled[n][turn[n]]) \cup {hand[n]}
  BY <1>1, AppendedSet
<1>4. \A m \in Messages : \A i \in Consumers : IsHandled(m, i) => IsHandled(m, i)'
  <2>1. CASE handled' = handled
    BY <2>1 DEF IsHandled
  <2>2. CASE handled' = [handled EXCEPT ![n][turn[n]] = Append(@, hand[n])]
    <3>1. \A p \in Nodes : \A i \in Consumers :
            ToSet(handled[p][i]) \subseteq ToSet(handled'[p][i])
      <4>1. \A p \in Nodes : \A i \in Consumers :
              handled'[p][i] = IF p = n /\ i = turn[n] THEN Append(handled[p][i], hand[n])
                               ELSE handled[p][i]
        BY <1>1, <2>2 DEF QueueInv, TypeOK
      <4>2. QED
        BY <1>3, <4>1
    <3>2. QED
      BY <3>1 DEF IsHandled
  <2>3. QED
    BY <2>1, <2>2 DEF Consume
<1>5. ASSUME NEW m \in Messages, NEW i \in Consumers, hand[n] = m, turn[n] = i,
             ConsumerKeys[i] = KeyOf[m]
      PROVE  IsHandled(m, i)'
  <2>1. handled' = [handled EXCEPT ![n][turn[n]] = Append(@, hand[n])]
    BY <1>5, NoneIsNothing DEF Consume, QueueInv, ListenerOK
  <2>2. handled'[n][i] = Append(handled[n][i], m)
    BY <1>1, <1>5, <2>1 DEF QueueInv, TypeOK
  <2>3. m \in ToSet(handled'[n][i])
    BY <1>3, <1>5, <2>2
  <2>4. QED
    BY <2>3 DEF IsHandled
<1>6. SUFFICES ASSUME NEW m \in pushed, NEW i \in Consumers, ConsumerKeys[i] = KeyOf[m]
               PROVE  Accounted(m, i)'
  BY <1>1 DEF NothingVanishes, Accounted
<1>7. Accounted(m, i) /\ m \in Messages
  BY <1>6, VanishesIs DEF QueueInv, TypeOK
<1>8. IsHeldFor(m, i) => IsHeldFor(m, i)' \/ IsHandled(m, i)'
  <2> SUFFICES ASSUME NEW p \in Nodes, hand[p] = m, turn[p] <= i
               PROVE  IsHeldFor(m, i)' \/ IsHandled(m, i)'
    BY DEF IsHeldFor
  <2>1. CASE p # n
    <3>1. hand'[p] = m /\ turn'[p] = turn[p]
      BY <1>2, <2>1 DEF QueueInv, TypeOK
    <3>2. QED
      BY <3>1 DEF IsHeldFor
  <2>2. CASE p = n /\ turn[n] = i
    BY <1>5, <1>6, <1>7, <2>2
  <2>3. CASE p = n /\ turn[n] # i
    <3>1. turn[n] \in Nat /\ i \in Nat /\ i <= Len(ConsumerKeys) /\ turn[n] < i
          /\ Len(ConsumerKeys) \in Nat
      BY <1>1, <2>3, FirstConsumer DEF Consumers
    <3>2. turn[n] < Len(ConsumerKeys)
      BY <3>1
    <3>3. turn'[n] = turn[n] + 1 /\ hand'[n] = m
      BY <1>2, <2>3, <3>2 DEF QueueInv, TypeOK
    <3>4. turn'[n] <= i
      BY <3>1, <3>3
    <3>5. QED
      BY <3>3, <3>4 DEF IsHeldFor
  <2>4. QED
    BY <2>1, <2>2, <2>3
<1>9. QED
  BY <1>1, <1>4, <1>7, <1>8 DEF Accounted

LEMMA LoseVanishes ==
  ASSUME QueueInv, NothingVanishes, NEW n \in Nodes, RestAndLose(n),
         UNCHANGED <<queue, pushed, handled>>
  PROVE  NothingVanishes'
<1>1. /\ \A p \in Nodes \ {n} : hand'[p] = hand[p] /\ turn'[p] = turn[p]
      /\ lost \subseteq lost' /\ (hand[n] # None => hand[n] \in lost')
  BY DEF RestAndLose, Rest, QueueInv, TypeOK
<1>2. SUFFICES ASSUME NEW m \in pushed, NEW i \in Consumers, ConsumerKeys[i] = KeyOf[m]
               PROVE  Accounted(m, i)'
  BY DEF NothingVanishes, Accounted
<1>3. Accounted(m, i) /\ m # None
  BY <1>2, VanishesIs, NoneIsNothing DEF QueueInv, TypeOK
<1>4. IsHeldFor(m, i) => IsHeldFor(m, i)' \/ m \in lost'
  BY <1>1, <1>3 DEF IsHeldFor
<1>5. IsHandled(m, i) => IsHandled(m, i)'
  BY DEF IsHandled
<1>6. QED
  BY <1>1, <1>3, <1>4, <1>5 DEF Accounted

LEMMA NextVanishes == QueueInv /\ NothingVanishes /\ [Next]_vars => NothingVanishes'
<1> SUFFICES ASSUME QueueInv, NothingVanishes, [Next]_vars PROVE NothingVanishes'
  OBVIOUS
<1>1. CASE UNCHANGED vars
  BY <1>1, StillAccounted DEF vars, sending, listening
<1>2. ASSUME NEW m \in Messages, NEW n \in Nodes, SendMessage(m, n) PROVE NothingVanishes'
  BY <1>2, StillAccounted DEF SendMessage, listening
<1>3. ASSUME NEW m \in Messages, NoteKey(m) PROVE NothingVanishes'
  BY <1>3, StillAccounted DEF NoteKey, listening
<1>4. ASSUME NEW m \in Messages, Push(m) \/ PushAgain(m) PROVE NothingVanishes'
  BY <1>4, PushIs, PushVanishes
<1>5. ASSUME NEW n \in Nodes, Moves(n) PROVE NothingVanishes'
  BY <1>5, MoveKeeps, StillAccounted DEF sending
<1>6. ASSUME NEW n \in Nodes, Throw(n) \/ Crash(n) PROVE NothingVanishes'
  BY <1>6, LoseVanishes DEF Throw, Crash, sending
<1>7. QED
  BY <1>1, <1>2, <1>3, <1>4, <1>5, <1>6, PopVanishes, ConsumeVanishes, ReplyVanishes
  DEF Next, Listen, Moves

\* No message slips through, however many nodes poll the lists and whatever
\* faults there are: it is queued, held, handled, or known to be lost.
THEOREM NoneVanishes == Spec => []NothingVanishes
BY InitVanishes, NextVanishes, QueueInvHolds, PTL DEF Spec

------------------------------------------------------------------------------
\* At most once.  Sets with one element more, one less, or none more.
LEMMA NoMore ==
  ASSUME NEW S, IsFiniteSet(S), NEW T, T \subseteq S
  PROVE  /\ IsFiniteSet(T) /\ Cardinality(S) \in Nat /\ Cardinality(T) \in Nat
         /\ Cardinality(T) <= Cardinality(S)
BY FS_Subset, FS_CardinalityType

LEMMA OneMore ==
  ASSUME NEW S, IsFiniteSet(S), NEW x, NEW T, T \subseteq S \cup {x}
  PROVE  /\ IsFiniteSet(T) /\ Cardinality(S) \in Nat /\ Cardinality(T) \in Nat
         /\ Cardinality(T) <= Cardinality(S) + 1
<1>1. IsFiniteSet(S \cup {x}) /\ Cardinality(S \cup {x}) <= Cardinality(S) + 1
      /\ Cardinality(S) \in Nat
  BY FS_AddElement, FS_CardinalityType
<1>2. IsFiniteSet(T) /\ Cardinality(T) <= Cardinality(S \cup {x})
      /\ Cardinality(T) \in Nat /\ Cardinality(S \cup {x}) \in Nat
  BY <1>1, NoMore
<1>3. QED
  BY <1>1, <1>2

LEMMA OneLess ==
  ASSUME NEW S, IsFiniteSet(S), NEW x \in S, NEW T, T \subseteq S \ {x}
  PROVE  /\ IsFiniteSet(T) /\ Cardinality(S) \in Nat /\ Cardinality(T) \in Nat
         /\ Cardinality(T) + 1 <= Cardinality(S)
<1>1. IsFiniteSet(S \ {x}) /\ Cardinality(S \ {x}) = Cardinality(S) - 1
      /\ Cardinality(S) \in Nat
  BY FS_RemoveElement, FS_CardinalityType
<1>2. IsFiniteSet(T) /\ Cardinality(T) <= Cardinality(S \ {x}) /\ Cardinality(T) \in Nat
  BY <1>1, NoMore
<1>3. QED
  BY <1>1, <1>2

\* How often a message is in a list.
Times(m, s) == Cardinality(Places(m, s))

LEMMA PlacesAreFinite ==
  ASSUME NEW S, NEW s \in Seq(S), NEW m
  PROVE  IsFiniteSet(Places(m, s)) /\ Times(m, s) \in Nat
<1>1. Len(s) \in Nat /\ Places(m, s) \subseteq 1..Len(s)
  BY LenProperties DEF Places
<1>2. IsFiniteSet(1..Len(s))
  BY <1>1, FS_Interval
<1>3. QED
  BY <1>1, <1>2, NoMore DEF Times

LEMMA TimesAppended ==
  ASSUME NEW S, NEW s \in Seq(S), NEW e \in S, NEW m
  PROVE  Times(m, Append(s, e)) = Times(m, s) + (IF e = m THEN 1 ELSE 0)
<1>1. /\ Len(Append(s, e)) = Len(s) + 1 /\ Len(s) \in Nat
      /\ \A j \in 1..Len(s) : Append(s, e)[j] = s[j]
      /\ Append(s, e)[Len(s) + 1] = e
  BY AppendProperties, LenProperties
<1>2. 1..(Len(s) + 1) = 1..Len(s) \cup {Len(s) + 1}
  BY <1>1
<1>3. Places(m, Append(s, e)) =
        Places(m, s) \cup (IF e = m THEN {Len(s) + 1} ELSE {})
  BY <1>1, <1>2 DEF Places
<1>4. Len(s) + 1 \notin Places(m, s)
  BY <1>1 DEF Places
<1>5. CASE e = m
  BY <1>3, <1>4, <1>5, PlacesAreFinite, FS_AddElement DEF Times
<1>6. CASE e # m
  <2>1. Places(m, Append(s, e)) = Places(m, s)
    BY <1>3, <1>6
  <2>2. QED
    BY <1>6, <2>1, PlacesAreFinite DEF Times
<1>7. QED
  BY <1>5, <1>6

LEMMA TimesInTail ==
  ASSUME NEW S, NEW s \in Seq(S), s # <<>>, NEW m
  PROVE  Times(m, Tail(s)) + (IF Head(s) = m THEN 1 ELSE 0) <= Times(m, s)
<1>1. /\ Tail(s) \in Seq(S) /\ Len(Tail(s)) = Len(s) - 1
      /\ \A j \in 1..Len(Tail(s)) : Tail(s)[j] = s[j + 1]
      /\ Len(s) \in Nat \ {0} /\ Head(s) = s[1]
  BY HeadTailProperties, EmptySeq
<1> DEFINE f == [j \in Places(m, Tail(s)) |-> j + 1]
<1>2. f \in Injection(Places(m, Tail(s)), Places(m, s) \ {1})
  <2>1. ASSUME NEW j \in Places(m, Tail(s)) PROVE j \in Nat /\ j + 1 \in Places(m, s) \ {1}
    <3>1. j \in 1..(Len(s) - 1) /\ Tail(s)[j] = m
      BY <1>1 DEF Places
    <3>2. j + 1 \in 1..Len(s) /\ s[j + 1] = m /\ j + 1 # 1
      BY <1>1, <3>1
    <3>3. QED
      BY <3>1, <3>2 DEF Places
  <2>2. f \in [Places(m, Tail(s)) -> Places(m, s) \ {1}]
    BY <2>1
  <2>3. ASSUME NEW a \in Places(m, Tail(s)), NEW b \in Places(m, Tail(s)), f[a] = f[b]
        PROVE  a = b
    BY <2>1, <2>3
  <2>4. QED
    BY <2>2, <2>3 DEF Injection, IsInjective
<1>3. /\ IsFiniteSet(Places(m, s)) /\ IsFiniteSet(Places(m, s) \ {1})
      /\ Times(m, s) \in Nat /\ Times(m, Tail(s)) \in Nat
  BY <1>1, PlacesAreFinite, FS_RemoveElement
<1>4. Times(m, Tail(s)) <= Cardinality(Places(m, s) \ {1})
  BY <1>2, <1>3, FS_Injection DEF Times
<1>5. Cardinality(Places(m, s) \ {1}) = IF 1 \in Places(m, s) THEN Times(m, s) - 1 ELSE Times(m, s)
  BY <1>3, FS_RemoveElement DEF Times
<1>6. Head(s) = m => 1 \in Places(m, s)
  BY <1>1 DEF Places
<1>7. QED
  BY <1>3, <1>4, <1>5, <1>6

\* Where consumer i was given m, and who holds m for it.
GivenAt(m, i) == UNION {{n} \X Places(m, handled[n][i]) : n \in Nodes}
HeldBy(m, i) == {n \in Nodes : hand[n] = m /\ turn[n] <= i}

GivenFinite == \A m \in Messages : \A i \in Consumers : IsFiniteSet(GivenAt(m, i))

OnceInv == HandledOnce /\ GivenFinite

LEMMA OnceIs ==
  HandledOnce <=>
    \A m \in Messages : \A i \in Consumers :
      IF ConsumerKeys[i] = KeyOf[m]
        THEN Cardinality(GivenAt(m, i)) + Times(m, queue[KeyOf[m]])
               + Cardinality(HeldBy(m, i)) <= Times(m, log[KeyOf[m]])
        ELSE ~IsHandled(m, i)
BY DEF HandledOnce, GivenAt, HeldBy, Times

LEMMA HeldFinite ==
  ASSUME NEW m, NEW i
  PROVE  IsFiniteSet(HeldBy(m, i)) /\ Cardinality(HeldBy(m, i)) \in Nat
BY NodesAreCounted, NoMore DEF HeldBy

LEMMA GivenIs ==
  ASSUME NEW m, NEW i, NEW x
  PROVE  x \in GivenAt(m, i) <=>
           \E n \in Nodes : \E j \in 1..Len(handled[n][i]) :
              handled[n][i][j] = m /\ x = <<n, j>>
BY DEF GivenAt, Places

\* The sums are of numbers.
LEMMA AreNumbers ==
  ASSUME QueueInv, GivenFinite, NEW m \in Messages, NEW i \in Consumers
  PROVE  /\ IsFiniteSet(GivenAt(m, i)) /\ Cardinality(GivenAt(m, i)) \in Nat
         /\ IsFiniteSet(HeldBy(m, i)) /\ Cardinality(HeldBy(m, i)) \in Nat
         /\ KeyOf[m] \in Keys
         /\ Times(m, queue[KeyOf[m]]) \in Nat /\ Times(m, log[KeyOf[m]]) \in Nat
<1>1. KeyOf[m] \in Keys /\ queue[KeyOf[m]] \in Seq(Messages) /\ log[KeyOf[m]] \in Seq(Messages)
  BY KeysAreGiven DEF QueueInv, TypeOK
<1>2. IsFiniteSet(GivenAt(m, i))
  BY DEF GivenFinite
<1>3. QED
  BY <1>1, <1>2, HeldFinite, PlacesAreFinite, FS_CardinalityType

LEMMA InitOnce == Init => OnceInv
<1> SUFFICES ASSUME Init PROVE OnceInv
  OBVIOUS
<1>1. /\ handled = [n \in Nodes |-> [i \in Consumers |-> <<>>]]
      /\ hand = [n \in Nodes |-> None]
      /\ queue = [k \in Keys |-> <<>>] /\ log = [k \in Keys |-> <<>>]
  BY DEF Init
<1>2. \A m : Places(m, <<>>) = {}
  BY DEF Places
<1>3. IsFiniteSet({}) /\ Cardinality({}) = 0
  BY FS_EmptySet
<1>4. ASSUME NEW m \in Messages, NEW i \in Consumers
      PROVE  GivenAt(m, i) = {} /\ HeldBy(m, i) = {} /\ ~IsHandled(m, i)
             /\ Times(m, queue[KeyOf[m]]) = 0 /\ Times(m, log[KeyOf[m]]) = 0
  <2>1. \A n \in Nodes : handled[n][i] = <<>>
    BY <1>1
  <2>2. GivenAt(m, i) = {}
    BY <1>2, <2>1 DEF GivenAt
  <2>3. HeldBy(m, i) = {}
    BY <1>1, NoneIsNothing DEF HeldBy
  <2>4. ~IsHandled(m, i)
    BY <2>1 DEF IsHandled, ToSet
  <2>5. queue[KeyOf[m]] = <<>> /\ log[KeyOf[m]] = <<>>
    BY <1>1, KeysAreGiven
  <2>6. QED
    BY <1>2, <1>3, <2>2, <2>3, <2>4, <2>5 DEF Times
<1>5. HandledOnce
  <2>1. ASSUME NEW m \in Messages, NEW i \in Consumers
        PROVE  Cardinality(GivenAt(m, i)) + Times(m, queue[KeyOf[m]])
                 + Cardinality(HeldBy(m, i)) <= Times(m, log[KeyOf[m]])
    <3>1. Cardinality(GivenAt(m, i)) = 0 /\ Cardinality(HeldBy(m, i)) = 0
      BY <1>3, <1>4
    <3>2. QED
      BY <1>4, <3>1
  <2>2. QED
    BY <1>4, <2>1, OnceIs
<1>6. QED
  BY <1>3, <1>4, <1>5 DEF OnceInv, GivenFinite

\* Where nothing was given, no consumer has more and the lists agree.
LEMMA OnceKept ==
  ASSUME QueueInv, QueueInv', OnceInv, handled' = handled,
         \A m \in Messages, i \in Consumers :
           ConsumerKeys[i] = KeyOf[m] =>
             Times(m, queue'[KeyOf[m]]) + Cardinality(HeldBy(m, i)') + Times(m, log[KeyOf[m]])
               <= Times(m, queue[KeyOf[m]]) + Cardinality(HeldBy(m, i)) + Times(m, log'[KeyOf[m]])
  PROVE  OnceInv'
<1>1. \A m, i : GivenAt(m, i)' = GivenAt(m, i) /\ (IsHandled(m, i)' <=> IsHandled(m, i))
  BY DEF GivenAt, IsHandled
<1>2. GivenFinite'
  BY <1>1 DEF OnceInv, GivenFinite
<1>3. ASSUME NEW m \in Messages, NEW i \in Consumers, ConsumerKeys[i] = KeyOf[m]
      PROVE  Cardinality(GivenAt(m, i)') + Times(m, queue'[KeyOf[m]])
               + Cardinality(HeldBy(m, i)') <= Times(m, log'[KeyOf[m]])
  <2>1. /\ Cardinality(GivenAt(m, i)) \in Nat /\ Cardinality(HeldBy(m, i)) \in Nat
        /\ Times(m, queue[KeyOf[m]]) \in Nat /\ Times(m, log[KeyOf[m]]) \in Nat
    BY AreNumbers DEF OnceInv
  <2>2. /\ Cardinality(HeldBy(m, i)') \in Nat
        /\ Times(m, queue'[KeyOf[m]]) \in Nat /\ Times(m, log'[KeyOf[m]]) \in Nat
    <3>1. KeyOf[m] \in Keys
      BY AreNumbers DEF OnceInv
    <3>2. queue'[KeyOf[m]] \in Seq(Messages) /\ log'[KeyOf[m]] \in Seq(Messages)
      BY <3>1 DEF QueueInv, TypeOK
    <3>3. HeldBy(m, i)' \subseteq Nodes
      BY DEF HeldBy
    <3>4. QED
      BY <3>2, <3>3, PlacesAreFinite, NodesAreCounted, NoMore
  <2>3. Cardinality(GivenAt(m, i)) + Times(m, queue[KeyOf[m]]) + Cardinality(HeldBy(m, i))
          <= Times(m, log[KeyOf[m]])
    BY <1>3, OnceIs DEF OnceInv
  <2>4. Times(m, queue'[KeyOf[m]]) + Cardinality(HeldBy(m, i)') + Times(m, log[KeyOf[m]])
          <= Times(m, queue[KeyOf[m]]) + Cardinality(HeldBy(m, i)) + Times(m, log'[KeyOf[m]])
    BY <1>3
  <2>5. Cardinality(GivenAt(m, i)') = Cardinality(GivenAt(m, i))
    BY <1>1
  <2>6. QED
    BY <2>1, <2>2, <2>3, <2>4, <2>5
<1>4. ASSUME NEW m \in Messages, NEW i \in Consumers, ConsumerKeys[i] # KeyOf[m]
      PROVE  ~IsHandled(m, i)'
  BY <1>1, <1>4, OnceIs DEF OnceInv
<1>5. HandledOnce'
  BY <1>3, <1>4 DEF HandledOnce, GivenAt, HeldBy, Times
<1>6. QED
  BY <1>2, <1>5 DEF OnceInv

\* No list changes, and nobody holds more.
LEMMA HeldLess ==
  ASSUME QueueInv, QueueInv', OnceInv, handled' = handled, queue' = queue, log' = log,
         \A m \in Messages, i \in Consumers : HeldBy(m, i)' \subseteq HeldBy(m, i)
  PROVE  OnceInv'
<1>1. ASSUME NEW m \in Messages, NEW i \in Consumers
      PROVE  Times(m, queue'[KeyOf[m]]) + Cardinality(HeldBy(m, i)') + Times(m, log[KeyOf[m]])
               <= Times(m, queue[KeyOf[m]]) + Cardinality(HeldBy(m, i)) + Times(m, log'[KeyOf[m]])
  <2>1. /\ Times(m, queue[KeyOf[m]]) \in Nat /\ Times(m, log[KeyOf[m]]) \in Nat
        /\ IsFiniteSet(HeldBy(m, i))
    BY AreNumbers DEF OnceInv
  <2>2. /\ Cardinality(HeldBy(m, i)') <= Cardinality(HeldBy(m, i))
        /\ Cardinality(HeldBy(m, i)') \in Nat /\ Cardinality(HeldBy(m, i)) \in Nat
    BY <2>1, NoMore
  <2>3. QED
    BY <2>1, <2>2
<1>2. QED
  BY <1>1, OnceKept

LEMMA PushOnce ==
  ASSUME QueueInv, QueueInv', OnceInv, NEW p \in Messages, Pushed(p)
  PROVE  OnceInv'
<1>1. KeyOf[p] \in Keys /\ queue[KeyOf[p]] \in Seq(Messages) /\ log[KeyOf[p]] \in Seq(Messages)
  BY KeysAreGiven DEF QueueInv, TypeOK
<1>2. /\ queue'[KeyOf[p]] = Append(queue[KeyOf[p]], p)
      /\ log'[KeyOf[p]] = Append(log[KeyOf[p]], p)
      /\ \A k \in Keys \ {KeyOf[p]} : queue'[k] = queue[k] /\ log'[k] = log[k]
  BY <1>1 DEF Pushed, QueueInv, TypeOK
<1>3. hand' = hand /\ turn' = turn /\ handled' = handled
  BY DEF Pushed, listening
<1>4. ASSUME NEW m \in Messages, NEW i \in Consumers
      PROVE  Times(m, queue'[KeyOf[m]]) + Cardinality(HeldBy(m, i)') + Times(m, log[KeyOf[m]])
               <= Times(m, queue[KeyOf[m]]) + Cardinality(HeldBy(m, i)) + Times(m, log'[KeyOf[m]])
  <2>1. HeldBy(m, i)' = HeldBy(m, i)
    BY <1>3 DEF HeldBy
  <2>2. /\ Times(m, queue[KeyOf[m]]) \in Nat /\ Times(m, log[KeyOf[m]]) \in Nat
        /\ Cardinality(HeldBy(m, i)) \in Nat /\ KeyOf[m] \in Keys
    BY AreNumbers DEF OnceInv
  <2>3. CASE KeyOf[m] = KeyOf[p]
    <3>1. Times(m, Append(queue[KeyOf[p]], p))
            = Times(m, queue[KeyOf[p]]) + (IF p = m THEN 1 ELSE 0)
      BY <1>1, TimesAppended
    <3>2. Times(m, Append(log[KeyOf[p]], p))
            = Times(m, log[KeyOf[p]]) + (IF p = m THEN 1 ELSE 0)
      BY <1>1, TimesAppended
    <3>3. /\ queue'[KeyOf[m]] = Append(queue[KeyOf[p]], p)
          /\ log'[KeyOf[m]] = Append(log[KeyOf[p]], p)
      BY <1>2, <2>3
    <3>4. PICK more \in {0, 1} : more = IF p = m THEN 1 ELSE 0
      OBVIOUS
    <3>5. /\ Times(m, queue'[KeyOf[m]]) = Times(m, queue[KeyOf[m]]) + more
          /\ Times(m, log'[KeyOf[m]]) = Times(m, log[KeyOf[m]]) + more
      BY <2>3, <3>1, <3>2, <3>3, <3>4
    <3>6. Cardinality(HeldBy(m, i)') = Cardinality(HeldBy(m, i))
      BY <2>1
    <3>7. QED
      BY <2>2, <3>5, <3>6
  <2>4. CASE KeyOf[m] # KeyOf[p]
    BY <1>2, <2>1, <2>2, <2>4
  <2>5. QED
    BY <2>3, <2>4
<1>5. QED
  BY <1>3, <1>4, OnceKept

\* The head of a list is taken: the one who holds it then is one more at most.
LEMMA TakeOnce ==
  ASSUME QueueInv, QueueInv', OnceInv, NEW k \in Keys, queue[k] # <<>>,
         NEW n \in Nodes, NEW h, h = Head(queue[k]),
         queue' = [queue EXCEPT ![k] = Tail(@)], handled' = handled, log' = log,
         \A m \in Messages, i \in Consumers :
           HeldBy(m, i)' \subseteq HeldBy(m, i) \cup (IF m = h THEN {n} ELSE {})
  PROVE  OnceInv'
<1>1. /\ queue[k] \in Seq(Messages) /\ queue'[k] = Tail(queue[k])
      /\ \A l \in Keys \ {k} : queue'[l] = queue[l]
      /\ KeyOf[h] = k
  BY OffTheList DEF QueueInv, TypeOK
<1>2. ASSUME NEW m \in Messages, NEW i \in Consumers
      PROVE  Times(m, queue'[KeyOf[m]]) + Cardinality(HeldBy(m, i)') + Times(m, log[KeyOf[m]])
               <= Times(m, queue[KeyOf[m]]) + Cardinality(HeldBy(m, i)) + Times(m, log'[KeyOf[m]])
  <2>1. /\ Times(m, queue[KeyOf[m]]) \in Nat /\ Times(m, log[KeyOf[m]]) \in Nat
        /\ IsFiniteSet(HeldBy(m, i)) /\ Cardinality(HeldBy(m, i)) \in Nat /\ KeyOf[m] \in Keys
    BY AreNumbers DEF OnceInv
  <2>2. queue'[KeyOf[m]] \in Seq(Messages)
    BY <2>1 DEF QueueInv, TypeOK
  <2>3. Times(m, queue'[KeyOf[m]]) \in Nat
    BY <2>2, PlacesAreFinite
  <2>4. CASE m = h
    <3>1. Times(m, queue'[KeyOf[m]]) + 1 <= Times(m, queue[KeyOf[m]])
      BY <1>1, <2>4, TimesInTail
    <3>2. HeldBy(m, i)' \subseteq HeldBy(m, i) \cup {n}
      BY <2>4
    <3>3. /\ Cardinality(HeldBy(m, i)') <= Cardinality(HeldBy(m, i)) + 1
          /\ Cardinality(HeldBy(m, i)') \in Nat
      BY <2>1, <3>2, OneMore
    <3>4. QED
      BY <2>1, <2>3, <3>1, <3>3
  <2>5. CASE m # h
    <3>1. Times(m, queue'[KeyOf[m]]) <= Times(m, queue[KeyOf[m]])
      <4>1. CASE KeyOf[m] = k
        BY <1>1, <2>5, <4>1, TimesInTail, <2>1, <2>3
      <4>2. CASE KeyOf[m] # k
        BY <1>1, <2>1, <4>2
      <4>3. QED
        BY <4>1, <4>2
    <3>2. HeldBy(m, i)' \subseteq HeldBy(m, i)
      BY <2>5
    <3>3. /\ Cardinality(HeldBy(m, i)') <= Cardinality(HeldBy(m, i))
          /\ Cardinality(HeldBy(m, i)') \in Nat
      BY <2>1, <3>2, NoMore
    <3>4. QED
      BY <2>1, <2>3, <3>1, <3>3
  <2>6. QED
    BY <2>4, <2>5
<1>3. QED
  BY <1>2, OnceKept

LEMMA PopOnce ==
  ASSUME QueueInv, QueueInv', OnceInv, NEW n \in Nodes, Pop(n) PROVE OnceInv'
<1>1. key[n] \in Keys /\ hand[n] = None /\ turn[n] = 1 /\ turn' = turn
      /\ UNCHANGED <<handled, log>>
  BY DEF Pop, QueueInv, ListenerOK
<1>2. CASE queue[key[n]] = <<>>
  <2>1. queue' = queue /\ hand' = hand
    BY <1>2 DEF Pop
  <2>2. \A m \in Messages, i \in Consumers : HeldBy(m, i)' \subseteq HeldBy(m, i)
    BY <1>1, <2>1 DEF HeldBy
  <2>3. QED
    BY <1>1, <2>1, <2>2, HeldLess
<1>3. CASE queue[key[n]] # <<>>
  <2>1. PICK h : h = Head(queue[key[n]])
    OBVIOUS
  <2>2. /\ hand' = [hand EXCEPT ![n] = h]
        /\ queue' = [queue EXCEPT ![key[n]] = Tail(@)]
    BY <1>3, <2>1 DEF Pop
  <2>3. hand'[n] = h /\ \A q \in Nodes \ {n} : hand'[q] = hand[q]
    BY <2>2 DEF QueueInv, TypeOK
  <2>4. \A m \in Messages, i \in Consumers :
          HeldBy(m, i)' \subseteq HeldBy(m, i) \cup (IF m = h THEN {n} ELSE {})
    BY <1>1, <2>3 DEF HeldBy
  <2>5. handled' = handled /\ log' = log /\ queue' = [queue EXCEPT ![key[n]] = Tail(@)]
    BY <1>1, <2>2
  <2>6. QED
    <3>1. PICK k \in Keys : k = key[n]
      BY <1>1
    <3>2. queue[k] # <<>> /\ h = Head(queue[k]) /\ queue' = [queue EXCEPT ![k] = Tail(@)]
      BY <1>3, <2>1, <2>5, <3>1
    <3>3. QED
      BY <2>4, <2>5, <3>2, TakeOnce
<1>4. QED
  BY <1>2, <1>3

LEMMA ReplyOnce ==
  ASSUME QueueInv, QueueInv', OnceInv, NEW n \in Nodes, ReplyLost(n) PROVE OnceInv'
<1>1. \A m \in Messages, i \in Consumers : HeldBy(m, i)' \subseteq HeldBy(m, i)
  BY ReplyLostIs DEF HeldBy
<1>2. PICK h : h = Head(queue[key[n]])
  OBVIOUS
<1>3. \A m \in Messages, i \in Consumers :
        HeldBy(m, i)' \subseteq HeldBy(m, i) \cup (IF m = h THEN {n} ELSE {})
  BY <1>1
<1>4. QED
  BY <1>2, <1>3, ReplyLostIs, TakeOnce

LEMMA LoseOnce ==
  ASSUME QueueInv, QueueInv', OnceInv, NEW n \in Nodes, RestAndLose(n),
         UNCHANGED <<queue, handled, log>>
  PROVE  OnceInv'
<1>1. hand'[n] = None /\ \A p \in Nodes \ {n} : hand'[p] = hand[p] /\ turn'[p] = turn[p]
  BY DEF RestAndLose, Rest, QueueInv, TypeOK
<1>2. \A m \in Messages, i \in Consumers : HeldBy(m, i)' \subseteq HeldBy(m, i)
  BY <1>1, NoneIsNothing DEF HeldBy
<1>3. QED
  BY <1>2, HeldLess

\* A consumer is given what the listener holds, which moves on from it.
LEMMA ConsumeOnce ==
  ASSUME QueueInv, QueueInv', OnceInv, NEW n \in Nodes, Consume(n) PROVE OnceInv'
<1>1. /\ queue' = queue /\ log' = log
      /\ turn[n] \in Consumers /\ turn[n] \in Nat /\ hand[n] \in Messages \cup {None}
      /\ \A p \in Nodes, i \in Consumers : handled[p][i] \in Seq(Messages \cup {None})
  <2>1. turn[n] \in Consumers /\ hand[n] \in Messages \cup {None}
    BY DEF QueueInv, TypeOK
  <2>2. turn[n] \in Nat
    BY <2>1 DEF Consumers
  <2>3. ASSUME NEW p \in Nodes, NEW i \in Consumers
        PROVE  handled[p][i] \in Seq(Messages \cup {None})
    <3>1. handled[p] \in [Consumers -> Seq(Messages \cup {None})]
      BY DEF QueueInv, TypeOK
    <3>2. QED
      BY <3>1
  <2>4. QED
    BY <2>1, <2>2, <2>3 DEF Consume
<1>2. /\ \A p \in Nodes \ {n} : hand'[p] = hand[p] /\ turn'[p] = turn[p]
      /\ \/ turn'[n] = turn[n] + 1 /\ hand'[n] = hand[n]
         \/ hand'[n] = None
  BY DEF Consume, QueueInv, TypeOK
<1>3. \A p \in Nodes, i \in Consumers :
        \/ handled'[p][i] = handled[p][i]
        \/ /\ p = n /\ i = turn[n] /\ ConsumerKeys[i] = key[n]
           /\ handled'[p][i] = Append(handled[p][i], hand[n])
  <2>1. CASE handled' = handled
    BY <2>1
  <2>2. CASE /\ ConsumerKeys[turn[n]] = key[n]
             /\ handled' = [handled EXCEPT ![n][turn[n]] = Append(@, hand[n])]
    BY <1>1, <2>2 DEF QueueInv, TypeOK
  <2>3. QED
    BY <2>1, <2>2 DEF Consume
<1>4. \A p \in Nodes, i \in Consumers :
        LET s == handled[p][i]
        IN  /\ Len(s) \in Nat /\ Len(Append(s, hand[n])) = Len(s) + 1
            /\ \A j \in 1..Len(s) : Append(s, hand[n])[j] = s[j]
            /\ Append(s, hand[n])[Len(s) + 1] = hand[n]
  BY <1>1, AppendProperties, LenProperties
\* What is given anew is one place, of what is held.
<1>5. ASSUME NEW m \in Messages, NEW i \in Consumers
      PROVE  GivenAt(m, i)' \subseteq GivenAt(m, i) \cup
               (IF hand[n] = m /\ turn[n] = i THEN {<<n, Len(handled[n][i]) + 1>>} ELSE {})
  <2> SUFFICES ASSUME NEW p \in Nodes, NEW j \in 1..Len(handled'[p][i]),
                      handled'[p][i][j] = m
               PROVE  \/ <<p, j>> \in GivenAt(m, i)
                      \/ /\ hand[n] = m /\ turn[n] = i
                         /\ p = n /\ j = Len(handled[n][i]) + 1
    BY DEF GivenAt, Places
  <2>1. CASE j \in 1..Len(handled[p][i]) /\ handled[p][i][j] = m
    BY <2>1, GivenIs
  <2>2. CASE ~(j \in 1..Len(handled[p][i]) /\ handled[p][i][j] = m)
    <3>1. p = n /\ i = turn[n] /\ handled'[p][i] = Append(handled[p][i], hand[n])
      BY <1>3, <2>2
    <3>2. /\ Len(handled[n][i]) \in Nat
          /\ Len(handled'[n][i]) = Len(handled[n][i]) + 1
          /\ \A l \in 1..Len(handled[n][i]) : handled'[n][i][l] = handled[n][i][l]
          /\ handled'[n][i][Len(handled[n][i]) + 1] = hand[n]
      BY <1>4, <3>1
    <3>3. j = Len(handled[n][i]) + 1
      BY <2>2, <3>1, <3>2
    <3>4. QED
      BY <3>1, <3>2, <3>3
  <2>3. QED
    BY <2>1, <2>2
\* A listener does not hold more for those it has passed.
<1>6. ASSUME NEW m \in Messages, NEW i \in Consumers
      PROVE  /\ HeldBy(m, i)' \subseteq HeldBy(m, i)
             /\ hand[n] = m /\ turn[n] = i => n \in HeldBy(m, i) /\ n \notin HeldBy(m, i)'
  <2>1. i \in Nat
    BY DEF Consumers
  <2>2. QED
    BY <1>1, <1>2, <2>1, NoneIsNothing DEF HeldBy
<1>7. GivenFinite'
  <2> SUFFICES ASSUME NEW m \in Messages, NEW i \in Consumers
               PROVE  IsFiniteSet(GivenAt(m, i)')
    BY DEF GivenFinite
  <2>1. IsFiniteSet(GivenAt(m, i))
    BY DEF OnceInv, GivenFinite
  <2>2. GivenAt(m, i)' \subseteq GivenAt(m, i) \cup {<<n, Len(handled[n][i]) + 1>>}
    BY <1>5
  <2>3. QED
    BY <2>1, <2>2, OneMore
<1>8. ASSUME NEW m \in Messages, NEW i \in Consumers, ConsumerKeys[i] = KeyOf[m]
      PROVE  Cardinality(GivenAt(m, i)') + Times(m, queue'[KeyOf[m]])
               + Cardinality(HeldBy(m, i)') <= Times(m, log'[KeyOf[m]])
  <2>1. /\ IsFiniteSet(GivenAt(m, i)) /\ IsFiniteSet(HeldBy(m, i))
        /\ Cardinality(GivenAt(m, i)) \in Nat /\ Cardinality(HeldBy(m, i)) \in Nat
        /\ Times(m, queue[KeyOf[m]]) \in Nat /\ Times(m, log[KeyOf[m]]) \in Nat
    BY AreNumbers DEF OnceInv
  <2>2. Cardinality(GivenAt(m, i)) + Times(m, queue[KeyOf[m]]) + Cardinality(HeldBy(m, i))
          <= Times(m, log[KeyOf[m]])
    BY <1>8, OnceIs DEF OnceInv
  <2>3. CASE hand[n] = m /\ turn[n] = i
    <3>1. GivenAt(m, i)' \subseteq GivenAt(m, i) \cup {<<n, Len(handled[n][i]) + 1>>}
      BY <1>5
    <3>2. /\ Cardinality(GivenAt(m, i)') <= Cardinality(GivenAt(m, i)) + 1
          /\ Cardinality(GivenAt(m, i)') \in Nat
      BY <2>1, <3>1, OneMore
    <3>3. n \in HeldBy(m, i) /\ HeldBy(m, i)' \subseteq HeldBy(m, i) \ {n}
      BY <1>6, <2>3
    <3>4. /\ Cardinality(HeldBy(m, i)') + 1 <= Cardinality(HeldBy(m, i))
          /\ Cardinality(HeldBy(m, i)') \in Nat
      BY <2>1, <3>3, OneLess
    <3>5. QED
      BY <1>1, <2>1, <2>2, <3>2, <3>4
  <2>4. CASE ~(hand[n] = m /\ turn[n] = i)
    <3>1. GivenAt(m, i)' \subseteq GivenAt(m, i) /\ HeldBy(m, i)' \subseteq HeldBy(m, i)
      BY <1>5, <1>6, <2>4
    <3>2. /\ Cardinality(GivenAt(m, i)') <= Cardinality(GivenAt(m, i))
          /\ Cardinality(HeldBy(m, i)') <= Cardinality(HeldBy(m, i))
          /\ Cardinality(GivenAt(m, i)') \in Nat /\ Cardinality(HeldBy(m, i)') \in Nat
      BY <2>1, <3>1, NoMore
    <3>3. QED
      BY <1>1, <2>1, <2>2, <3>2
  <2>5. QED
    BY <2>3, <2>4
<1>9. ASSUME NEW m \in Messages, NEW i \in Consumers, ConsumerKeys[i] # KeyOf[m]
      PROVE  ~IsHandled(m, i)'
  <2>1. ~IsHandled(m, i)
    BY <1>9, OnceIs DEF OnceInv
  <2>2. ASSUME NEW p \in Nodes PROVE m \notin ToSet(handled'[p][i])
    <3>1. CASE handled'[p][i] = handled[p][i]
      BY <2>1, <3>1 DEF IsHandled
    <3>2. CASE p = n /\ ConsumerKeys[i] = key[n] /\ handled'[p][i] = Append(handled[p][i], hand[n])
      <4>1. hand[n] # m
        BY <1>9, <3>2, NoneIsNothing DEF QueueInv, ListenerOK
      <4>2. ToSet(handled'[p][i]) = ToSet(handled[p][i]) \cup {hand[n]}
        BY <1>1, <3>2, AppendedSet
      <4>3. QED
        BY <2>1, <4>1, <4>2 DEF IsHandled
    <3>3. QED
      BY <1>3, <3>1, <3>2
  <2>3. QED
    BY <2>2 DEF IsHandled
<1>10. HandledOnce'
  BY <1>8, <1>9 DEF HandledOnce, GivenAt, HeldBy, Times
<1>11. QED
  BY <1>7, <1>10 DEF OnceInv

\* Steps that neither move a message nor a turn.
LEMMA StillOnce ==
  ASSUME QueueInv, QueueInv', OnceInv, handled' = handled, queue' = queue, log' = log,
         hand' = hand, turn' = turn
  PROVE  OnceInv'
<1>1. \A m \in Messages, i \in Consumers : HeldBy(m, i)' \subseteq HeldBy(m, i)
  BY DEF HeldBy
<1>2. QED
  BY <1>1, HeldLess

LEMMA NextOnce == QueueInv /\ QueueInv' /\ OnceInv /\ [Next]_vars => OnceInv'
<1> SUFFICES ASSUME QueueInv, QueueInv', OnceInv, [Next]_vars PROVE OnceInv'
  OBVIOUS
<1>1. CASE UNCHANGED vars
  BY <1>1, StillOnce DEF vars, listening
<1>2. ASSUME NEW m \in Messages, NEW n \in Nodes, SendMessage(m, n) PROVE OnceInv'
  BY <1>2, StillOnce DEF SendMessage, listening
<1>3. ASSUME NEW m \in Messages, NoteKey(m) PROVE OnceInv'
  BY <1>3, StillOnce DEF NoteKey, listening
<1>4. ASSUME NEW m \in Messages, Push(m) \/ PushAgain(m) PROVE OnceInv'
  BY <1>4, PushIs, PushOnce
<1>5. ASSUME NEW n \in Nodes, Moves(n) PROVE OnceInv'
  BY <1>5, MoveKeeps, StillOnce
<1>6. ASSUME NEW n \in Nodes, Throw(n) \/ Crash(n) PROVE OnceInv'
  BY <1>6, LoseOnce DEF Throw, Crash
<1>7. QED
  BY <1>1, <1>2, <1>3, <1>4, <1>5, <1>6, PopOnce, ConsumeOnce, ReplyOnce
  DEF Next, Listen, Moves

LEMMA OnceHolds == Spec => []OnceInv
BY InitOnce, NextOnce, QueueInvHolds, PTL DEF Spec

\* However many nodes poll a list, a consumer is given a message at most as
\* often as it was pushed on it.
THEOREM HandledAtMostOnce == Spec => []HandledOnce
<1>1. OnceInv => HandledOnce
  BY DEF OnceInv
<1>2. QED
  BY <1>1, OnceHolds, PTL

------------------------------------------------------------------------------
\* The places of what is left and of what is gone in what was pushed.
LEMMA Within ==
  ASSUME NEW l \in Nat, NEW q \in Nat, NEW g \in Nat, g = l - q
  PROVE  /\ \A j \in 1..q : g + j \in 1..l
         /\ g + (q + 1) = l + 1
         /\ 1..g \subseteq 1..l
OBVIOUS

\* In order.  How many were taken off a list, what they were, and which of two
\* came first.
Gone(k) == Len(log[k]) - Len(queue[k])
Taken(k, a) == \E x \in 1..Gone(k) : log[k][x] = a
Before(k, a, b) == \E x, y \in 1..Gone(k) : x < y /\ log[k][x] = a /\ log[k][y] = b

\* A list is the rest of what was pushed on it.
Rests ==
  \A k \in Keys : /\ Gone(k) \in Nat
                  /\ \A j \in 1..Len(queue[k]) : queue[k][j] = log[k][Gone(k) + j]

GivenTaken ==
  \A n \in Nodes : \A i \in Consumers : \A a \in 1..Len(handled[n][i]) :
    handled[n][i][a] # None => Taken(ConsumerKeys[i], handled[n][i][a])

\* What a listener holds came after all it has given those still to have it.
HandNext ==
  \A n \in Nodes : hand[n] # None =>
    /\ Taken(key[n], hand[n])
    /\ \A i \in Consumers : turn[n] <= i /\ ConsumerKeys[i] = key[n] =>
         \A a \in 1..Len(handled[n][i]) : handled[n][i][a] # None =>
           Before(key[n], handled[n][i][a], hand[n])

Ordered ==
  \A n \in Nodes : \A i \in Consumers : \A a, b \in 1..Len(handled[n][i]) :
    a < b /\ handled[n][i][a] # None /\ handled[n][i][b] # None =>
      Before(ConsumerKeys[i], handled[n][i][a], handled[n][i][b])

OrderInv == Rests /\ GivenTaken /\ HandNext /\ Ordered

LEMMA InitOrder == Init => OrderInv
<1> SUFFICES ASSUME Init PROVE OrderInv
  OBVIOUS
<1>1. /\ \A n \in Nodes : hand[n] = None
      /\ \A n \in Nodes : \A i \in Consumers : handled[n][i] = <<>>
      /\ \A k \in Keys : queue[k] = <<>> /\ log[k] = <<>>
  BY DEF Init
<1>2. Len(<<>>) = 0
  OBVIOUS
<1>3. Rests
  <2>1. ASSUME NEW k \in Keys PROVE Len(queue[k]) = 0 /\ Gone(k) = 0
    <3>1. queue[k] = <<>> /\ log[k] = <<>>
      BY <1>1
    <3>2. Len(queue[k]) = 0 /\ Len(log[k]) = 0
      BY <1>2, <3>1
    <3>3. QED
      BY <3>2 DEF Gone
  <2>2. QED
    BY <2>1 DEF Rests
<1>4. GivenTaken /\ Ordered
  BY <1>1, <1>2 DEF GivenTaken, Ordered
<1>5. HandNext
  BY <1>1 DEF HandNext
<1>6. QED
  BY <1>3, <1>4, <1>5 DEF OrderInv

\* What was taken stays taken, in its place.
Persist ==
  /\ \A k \in Keys : \A a : Taken(k, a) => Taken(k, a)'
  /\ \A k \in Keys : \A a, b : Before(k, a, b) => Before(k, a, b)'

LEMMA PersistIf ==
  ASSUME Rests,
         \A k \in Keys : /\ Gone(k)' \in Nat /\ Gone(k) <= Gone(k)'
                         /\ \A x \in 1..Gone(k) : log'[k][x] = log[k][x]
  PROVE  Persist
<1>1. ASSUME NEW k \in Keys PROVE 1..Gone(k) \subseteq 1..Gone(k)'
  BY DEF Rests
<1>2. ASSUME NEW k \in Keys, NEW a, Taken(k, a) PROVE Taken(k, a)'
  BY <1>1, <1>2 DEF Taken
<1>3. ASSUME NEW k \in Keys, NEW a, NEW b, Before(k, a, b) PROVE Before(k, a, b)'
  BY <1>1, <1>3 DEF Before
<1>4. QED
  BY <1>2, <1>3 DEF Persist

\* Nobody is given anything, or holds anything else.
LEMMA OrderKept ==
  ASSUME QueueInv, OrderInv, Rests', Persist, handled' = handled,
         \A p \in Nodes : hand'[p] # None =>
           hand'[p] = hand[p] /\ turn'[p] = turn[p] /\ key'[p] = key[p]
  PROVE  OrderInv'
<1>1. \A i \in Consumers : ConsumerKeys[i] \in Keys
  BY KeysAreGiven DEF Consumers
<1>2. GivenTaken'
  BY <1>1 DEF OrderInv, GivenTaken, Persist
<1>3. Ordered'
  BY <1>1 DEF OrderInv, Ordered, Persist
<1>4. HandNext'
  <2> SUFFICES ASSUME NEW p \in Nodes, NEW m, m = hand'[p], m # None,
                      NEW k, k = key'[p], NEW t, t = turn'[p]
               PROVE  /\ Taken(k, m)'
                      /\ \A i \in Consumers : t <= i /\ ConsumerKeys[i] = k =>
                           \A a \in 1..Len(handled[p][i]) : handled[p][i][a] # None =>
                             \A g : g = handled[p][i][a] => Before(k, g, m)'
    BY DEF HandNext
  <2>1. m = hand[p] /\ k = key[p] /\ t = turn[p]
    OBVIOUS
  <2>2. k \in Keys
    BY <2>1, KeysAreGiven, NoneIsNothing DEF QueueInv, TypeOK, ListenerOK
  <2>3. Taken(k, m)'
    BY <2>1, <2>2 DEF OrderInv, HandNext, Persist
  <2>4. ASSUME NEW i \in Consumers, t <= i, ConsumerKeys[i] = k,
               NEW a \in 1..Len(handled[p][i]), NEW g, g = handled[p][i][a], g # None
        PROVE  Before(k, g, m)'
    BY <2>1, <2>2, <2>4 DEF OrderInv, HandNext, Persist
  <2>5. QED
    BY <2>3, <2>4
<1>5. QED
  BY <1>2, <1>3, <1>4 DEF OrderInv

\* The lists stay as they are.
LEMMA ListsStay ==
  ASSUME OrderInv, queue' = queue, log' = log PROVE Rests' /\ Persist
<1>1. \A k : Gone(k)' = Gone(k)
  BY DEF Gone
<1>2. Rests'
  BY <1>1 DEF OrderInv, Rests
<1>3. QED
  BY <1>1, <1>2, PersistIf DEF OrderInv, Rests

LEMMA PushOrder ==
  ASSUME QueueInv, OrderInv, NEW p \in Messages, Pushed(p) PROVE OrderInv'
<1>1. KeyOf[p] \in Keys /\ queue[KeyOf[p]] \in Seq(Messages) /\ log[KeyOf[p]] \in Seq(Messages)
  BY KeysAreGiven DEF QueueInv, TypeOK
<1>2. /\ queue'[KeyOf[p]] = Append(queue[KeyOf[p]], p)
      /\ log'[KeyOf[p]] = Append(log[KeyOf[p]], p)
      /\ \A k \in Keys \ {KeyOf[p]} : queue'[k] = queue[k] /\ log'[k] = log[k]
  BY <1>1 DEF Pushed, QueueInv, TypeOK
<1>3. ASSUME NEW k \in Keys
      PROVE  /\ Gone(k)' = Gone(k) /\ Gone(k) \in Nat
             /\ \A x \in 1..Gone(k) : log'[k][x] = log[k][x]
             /\ \A j \in 1..Len(queue'[k]) : queue'[k][j] = log'[k][Gone(k) + j]
  <2>1. /\ Gone(k) \in Nat /\ \A j \in 1..Len(queue[k]) : queue[k][j] = log[k][Gone(k) + j]
    BY DEF OrderInv, Rests
  <2>2. CASE k # KeyOf[p]
    BY <1>2, <2>1, <2>2 DEF Gone
  <2>3. CASE k = KeyOf[p]
    <3>1. /\ Len(queue[k]) \in Nat /\ Len(queue'[k]) = Len(queue[k]) + 1
          /\ \A j \in 1..Len(queue[k]) : queue'[k][j] = queue[k][j]
          /\ queue'[k][Len(queue[k]) + 1] = p
      BY <1>1, <1>2, <2>3, AppendProperties, LenProperties
    <3>2. /\ Len(log[k]) \in Nat /\ Len(log'[k]) = Len(log[k]) + 1
          /\ \A j \in 1..Len(log[k]) : log'[k][j] = log[k][j]
          /\ log'[k][Len(log[k]) + 1] = p
      <4>1. log'[k] = Append(log[k], p) /\ log[k] \in Seq(Messages)
        BY <1>1, <1>2, <2>3
      <4>2. QED
        BY <4>1, AppendProperties, LenProperties
    <3>3. Gone(k)' = Gone(k) /\ Gone(k) = Len(log[k]) - Len(queue[k])
      BY <3>1, <3>2 DEF Gone
    <3>7. Gone(k) \in Nat /\ Gone(k) = Len(log[k]) - Len(queue[k])
      BY <2>1, <3>3
    <3>4. \A x \in 1..Gone(k) : log'[k][x] = log[k][x]
      BY <2>1, <3>1, <3>2, <3>3
    <3>5. ASSUME NEW j \in 1..Len(queue'[k]) PROVE queue'[k][j] = log'[k][Gone(k) + j]
      <4>1. CASE j \in 1..Len(queue[k])
        <5>1. Gone(k) + j \in 1..Len(log[k])
          BY <3>1, <3>2, <3>7, <4>1, Within
        <5>2. QED
          BY <2>1, <3>1, <3>2, <4>1, <5>1
      <4>2. CASE j = Len(queue[k]) + 1
        <5>1. Gone(k) + j = Len(log[k]) + 1
          BY <3>1, <3>2, <3>7, <4>2, Within
        <5>2. QED
          BY <3>1, <3>2, <4>2, <5>1
      <4>3. QED
        BY <3>1, <4>1, <4>2
    <3>6. QED
      BY <2>1, <3>3, <3>4, <3>5
  <2>4. QED
    BY <2>2, <2>3
<1>4. Rests'
  BY <1>3 DEF Rests
<1>5. Persist
  BY <1>3, PersistIf DEF OrderInv
<1>6. handled' = handled /\ hand' = hand /\ turn' = turn /\ key' = key
  BY DEF Pushed, listening
<1>7. QED
  BY <1>4, <1>5, <1>6, OrderKept

\* The head is the first that was not taken yet.
LEMMA TakeOrder ==
  ASSUME QueueInv, OrderInv, NEW k \in Keys, queue[k] # <<>>, NEW h, h = Head(queue[k]),
         queue' = [queue EXCEPT ![k] = Tail(@)], log' = log
  PROVE  /\ Rests' /\ Persist /\ Taken(k, h)'
         /\ \A a : Taken(k, a) => Before(k, a, h)'
<1>1. queue[k] \in Seq(Messages) /\ log[k] \in Seq(Messages)
  BY DEF QueueInv, TypeOK
<1>2. /\ queue'[k] = Tail(queue[k])
      /\ \A l \in Keys \ {k} : queue'[l] = queue[l]
  BY DEF QueueInv, TypeOK
<1>3. /\ Len(queue'[k]) = Len(queue[k]) - 1 /\ Len(queue[k]) \in Nat \ {0}
      /\ \A j \in 1..Len(queue'[k]) : queue'[k][j] = queue[k][j + 1]
      /\ h = queue[k][1]
  <2>1. Len(queue[k]) \in Nat \ {0}
    BY <1>1, EmptySeq
  <2>2. /\ Len(Tail(queue[k])) = Len(queue[k]) - 1
        /\ \A j \in 1..Len(Tail(queue[k])) : Tail(queue[k])[j] = queue[k][j + 1]
    BY <1>1, HeadTailProperties
  <2>3. Head(queue[k]) = queue[k][1]
    BY <1>1
  <2>4. QED
    BY <1>2, <2>1, <2>2, <2>3
<1>4. /\ \A l \in Keys : Gone(l) \in Nat
      /\ \A l \in Keys : \A j \in 1..Len(queue[l]) : queue[l][j] = log[l][Gone(l) + j]
      /\ Len(log[k]) \in Nat
  BY <1>1, LenProperties DEF OrderInv, Rests
<1>5. /\ Gone(k)' = Gone(k) + 1
      /\ \A l \in Keys \ {k} : Gone(l)' = Gone(l)
  <2>1. Gone(k) = Len(log[k]) - Len(queue[k]) /\ Gone(k)' = Len(log[k]) - Len(queue'[k])
    BY DEF Gone
  <2>2. \A l \in Keys \ {k} : Gone(l)' = Gone(l)
    BY <1>2 DEF Gone
  <2>3. QED
    BY <1>3, <1>4, <2>1, <2>2
<1>6. h = log[k][Gone(k) + 1]
  <2>1. 1 \in 1..Len(queue[k])
    BY <1>3
  <2>2. QED
    BY <1>3, <1>4, <2>1
<1>7. Rests'
  <2> SUFFICES ASSUME NEW l \in Keys
               PROVE  /\ Gone(l)' \in Nat
                      /\ \A j \in 1..Len(queue'[l]) : queue'[l][j] = log[l][Gone(l)' + j]
    BY DEF Rests
  <2>1. CASE l # k
    BY <1>2, <1>4, <1>5, <2>1
  <2>2. CASE l = k
    <3>1. Gone(k)' \in Nat
      BY <1>4, <1>5
    <3>2. ASSUME NEW j \in 1..Len(queue'[k]) PROVE queue'[k][j] = log[k][Gone(k)' + j]
      <4>1. j + 1 \in 1..Len(queue[k]) /\ queue'[k][j] = queue[k][j + 1]
        BY <1>3
      <4>2. Gone(k)' + j = Gone(k) + (j + 1)
        BY <1>4, <1>5
      <4>3. QED
        BY <1>4, <4>1, <4>2
    <3>3. QED
      BY <2>2, <3>1, <3>2
  <2>3. QED
    BY <2>1, <2>2
<1>8. Persist
  BY <1>4, <1>5, PersistIf DEF OrderInv
<1>9. Taken(k, h)'
  <2>1. Gone(k) + 1 \in 1..Gone(k)' /\ log'[k][Gone(k) + 1] = h
    BY <1>4, <1>5, <1>6
  <2>2. QED
    BY <2>1 DEF Taken
<1>10. ASSUME NEW a, Taken(k, a) PROVE Before(k, a, h)'
  <2>1. PICK x \in 1..Gone(k) : log[k][x] = a
    BY <1>10 DEF Taken
  <2>2. /\ x \in 1..Gone(k)' /\ Gone(k) + 1 \in 1..Gone(k)' /\ x < Gone(k) + 1
        /\ log'[k][x] = a /\ log'[k][Gone(k) + 1] = h
    BY <1>4, <1>5, <1>6, <2>1
  <2>3. QED
    BY <2>2 DEF Before
<1>11. QED
  BY <1>7, <1>8, <1>9, <1>10

LEMMA PopOrder ==
  ASSUME QueueInv, OrderInv, NEW n \in Nodes, Pop(n) PROVE OrderInv'
<1>1. /\ key[n] \in Keys /\ hand[n] = None /\ key' = key /\ turn' = turn
      /\ handled' = handled /\ log' = log
  BY DEF Pop, QueueInv, ListenerOK
<1>2. CASE queue[key[n]] = <<>>
  <2>1. queue' = queue /\ hand' = hand
    BY <1>2 DEF Pop
  <2>2. QED
    BY <1>1, <2>1, ListsStay, OrderKept
<1>3. CASE queue[key[n]] # <<>>
  <2>1. PICK k, h : k = key[n] /\ h = Head(queue[k])
    OBVIOUS
  <2>2. /\ k \in Keys /\ queue[k] # <<>> /\ h \in Messages
        /\ queue' = [queue EXCEPT ![k] = Tail(@)] /\ hand' = [hand EXCEPT ![n] = h]
    BY <1>1, <1>3, <2>1, OffTheList DEF Pop
  <2>3. hand'[n] = h /\ key'[n] = k /\ \A q \in Nodes \ {n} : hand'[q] = hand[q]
    BY <1>1, <2>1, <2>2 DEF QueueInv, TypeOK
  <2>4. /\ Rests' /\ Persist /\ Taken(k, h)'
        /\ \A a : Taken(k, a) => Before(k, a, h)'
    BY <1>1, <2>1, <2>2, TakeOrder
  <2>5. \A i \in Consumers : ConsumerKeys[i] \in Keys
    BY KeysAreGiven DEF Consumers
  <2>6. GivenTaken' /\ Ordered'
    BY <1>1, <2>4, <2>5 DEF OrderInv, GivenTaken, Ordered, Persist
  <2>7. HandNext'
    <3> SUFFICES ASSUME NEW p \in Nodes, NEW m, m = hand'[p], m # None,
                        NEW l, l = key[p], NEW t, t = turn[p]
                 PROVE  /\ Taken(l, m)'
                        /\ \A i \in Consumers : t <= i /\ ConsumerKeys[i] = l =>
                             \A a \in 1..Len(handled[p][i]) : handled[p][i][a] # None =>
                               \A g : g = handled[p][i][a] => Before(l, g, m)'
      BY <1>1 DEF HandNext
    <3>1. CASE p = n
      <4>1. m = h /\ l = k
        BY <2>1, <2>3, <3>1
      <4>2. ASSUME NEW i \in Consumers, ConsumerKeys[i] = k,
                   NEW a \in 1..Len(handled[p][i]), NEW g, g = handled[p][i][a], g # None
            PROVE  Before(k, g, h)'
        BY <2>4, <4>2 DEF OrderInv, GivenTaken
      <4>3. QED
        BY <2>4, <4>1, <4>2
    <3>2. CASE p # n
      <4>1. hand[p] = m /\ l \in Keys
        BY <2>3, <3>2, KeysAreGiven, NoneIsNothing DEF QueueInv, TypeOK, ListenerOK
      <4>2. Taken(l, m)
        BY <4>1 DEF OrderInv, HandNext
      <4>3. ASSUME NEW i \in Consumers, t <= i, ConsumerKeys[i] = l,
                   NEW a \in 1..Len(handled[p][i]), NEW g, g = handled[p][i][a], g # None
            PROVE  Before(l, g, m)'
        BY <2>4, <4>1, <4>3 DEF OrderInv, HandNext, Persist
      <4>4. QED
        BY <2>4, <4>1, <4>2, <4>3 DEF Persist
    <3>3. QED
      BY <3>1, <3>2
  <2>8. QED
    BY <2>4, <2>6, <2>7 DEF OrderInv
<1>4. QED
  BY <1>2, <1>3

LEMMA ReplyOrder ==
  ASSUME QueueInv, QueueInv', OrderInv, NEW n \in Nodes, ReplyLost(n) PROVE OrderInv'
<1>1. PICK k, h : k = key[n] /\ h = Head(queue[k])
  OBVIOUS
<1>2. /\ k \in Keys /\ queue[k] # <<>> /\ queue' = [queue EXCEPT ![k] = Tail(@)]
      /\ hand' = hand /\ turn' = turn /\ handled' = handled /\ log' = log
  BY <1>1, ReplyLostIs
<1>3. Rests' /\ Persist
  BY <1>1, <1>2, TakeOrder
<1>4. \A p \in Nodes : hand'[p] # None => key'[p] = key[p]
  BY <1>2 DEF QueueInv, ListenerOK
<1>5. QED
  BY <1>2, <1>3, <1>4, OrderKept

LEMMA ConsumeOrder ==
  ASSUME QueueInv, OrderInv, NEW n \in Nodes, Consume(n) PROVE OrderInv'
<1>1. /\ queue' = queue /\ log' = log /\ key' = key
      /\ turn[n] \in Consumers /\ hand[n] \in Messages \cup {None}
  BY DEF Consume, QueueInv, TypeOK
<1>2. /\ \A p \in Nodes \ {n} : hand'[p] = hand[p] /\ turn'[p] = turn[p]
      /\ \/ turn'[n] = turn[n] + 1 /\ hand'[n] = hand[n]
         \/ hand'[n] = None
  BY DEF Consume, QueueInv, TypeOK
<1>3. \A p \in Nodes, i \in Consumers :
        \/ handled'[p][i] = handled[p][i]
        \/ /\ p = n /\ i = turn[n] /\ ConsumerKeys[i] = key[n]
           /\ handled'[p][i] = Append(handled[p][i], hand[n])
  <2>1. CASE handled' = handled
    BY <2>1
  <2>2. CASE /\ ConsumerKeys[turn[n]] = key[n]
             /\ handled' = [handled EXCEPT ![n][turn[n]] = Append(@, hand[n])]
    BY <1>1, <2>2 DEF QueueInv, TypeOK
  <2>3. QED
    BY <2>1, <2>2 DEF Consume
<1>4. Rests' /\ (\A k, a : Taken(k, a)' <=> Taken(k, a))
      /\ (\A k, a, b : Before(k, a, b)' <=> Before(k, a, b))
  BY <1>1, ListsStay DEF Taken, Before, Gone
\* What a consumer was given, it had before, or the listener held it.
<1>5. ASSUME NEW p \in Nodes, NEW i \in Consumers
      PROVE  /\ Len(handled[p][i]) \in Nat
             /\ \/ handled'[p][i] = handled[p][i]
                \/ /\ p = n /\ i = turn[n] /\ ConsumerKeys[i] = key[n]
                   /\ Len(handled'[p][i]) = Len(handled[p][i]) + 1
                   /\ \A j \in 1..Len(handled[p][i]) : handled'[p][i][j] = handled[p][i][j]
                   /\ handled'[p][i][Len(handled[p][i]) + 1] = hand[n]
  <2>1. handled[p][i] \in Seq(Messages \cup {None})
    <3>1. handled[p] \in [Consumers -> Seq(Messages \cup {None})]
      BY DEF QueueInv, TypeOK
    <3>2. QED
      BY <3>1
  <2>2. /\ Len(handled[p][i]) \in Nat
        /\ Len(Append(handled[p][i], hand[n])) = Len(handled[p][i]) + 1
        /\ \A j \in 1..Len(handled[p][i]) :
             Append(handled[p][i], hand[n])[j] = handled[p][i][j]
        /\ Append(handled[p][i], hand[n])[Len(handled[p][i]) + 1] = hand[n]
    BY <1>1, <2>1, AppendProperties, LenProperties
  <2>3. QED
    BY <1>3, <2>2
<1>6. GivenTaken'
  <2> SUFFICES ASSUME NEW p \in Nodes, NEW i \in Consumers,
                      NEW a \in 1..Len(handled'[p][i]), NEW g, g = handled'[p][i][a], g # None
               PROVE  Taken(ConsumerKeys[i], g)'
    BY DEF GivenTaken
  <2>1. CASE a \in 1..Len(handled[p][i]) /\ g = handled[p][i][a]
    BY <1>4, <2>1 DEF OrderInv, GivenTaken
  <2>2. CASE p = n /\ ConsumerKeys[i] = key[n] /\ g = hand[n]
    BY <1>4, <2>2 DEF OrderInv, HandNext
  <2>3. QED
    BY <1>5, <2>1, <2>2
<1>7. Ordered'
  <2> SUFFICES ASSUME NEW p \in Nodes, NEW i \in Consumers,
                      NEW a \in 1..Len(handled'[p][i]), NEW b \in 1..Len(handled'[p][i]), a < b,
                      NEW g, g = handled'[p][i][a], g # None,
                      NEW h, h = handled'[p][i][b], h # None
               PROVE  Before(ConsumerKeys[i], g, h)'
    BY DEF Ordered
  <2>1. CASE /\ a \in 1..Len(handled[p][i]) /\ g = handled[p][i][a]
             /\ b \in 1..Len(handled[p][i]) /\ h = handled[p][i][b]
    BY <1>4, <2>1 DEF OrderInv, Ordered
  <2>2. CASE /\ a \in 1..Len(handled[p][i]) /\ g = handled[p][i][a]
             /\ p = n /\ i = turn[n] /\ ConsumerKeys[i] = key[n] /\ h = hand[n]
    <3>1. turn[n] <= i
      BY <2>2 DEF Consumers
    <3>2. Before(key[n], g, h)
      BY <2>2, <3>1 DEF OrderInv, HandNext
    <3>3. QED
      BY <1>4, <2>2, <3>2
  <2>3. \/ handled'[p][i] = handled[p][i]
        \/ /\ p = n /\ i = turn[n] /\ ConsumerKeys[i] = key[n]
           /\ a \in 1..Len(handled[p][i]) /\ g = handled[p][i][a]
           /\ \/ b \in 1..Len(handled[p][i]) /\ h = handled[p][i][b]
              \/ h = hand[n]
    BY <1>5
  <2>4. QED
    BY <2>1, <2>2, <2>3
<1>8. HandNext'
  <2> SUFFICES ASSUME NEW p \in Nodes, NEW m, m = hand'[p], m # None,
                      NEW k, k = key[p]
               PROVE  /\ Taken(k, m)'
                      /\ \A i \in Consumers : turn'[p] <= i /\ ConsumerKeys[i] = k =>
                           \A a \in 1..Len(handled'[p][i]) : handled'[p][i][a] # None =>
                             \A g : g = handled'[p][i][a] => Before(k, g, m)'
    BY <1>1 DEF HandNext
  <2>1. hand[p] = m
    BY <1>2
  <2>2. Taken(k, m)'
    BY <1>4, <2>1 DEF OrderInv, HandNext
  <2>3. ASSUME NEW i \in Consumers, turn'[p] <= i, ConsumerKeys[i] = k,
               NEW a \in 1..Len(handled'[p][i]), NEW g, g = handled'[p][i][a], g # None
        PROVE  Before(k, g, m)'
    <3>1. turn[p] <= i /\ ~(p = n /\ i = turn[n])
      BY <1>1, <1>2, <2>1, <2>3 DEF Consumers
    <3>2. handled'[p][i] = handled[p][i]
      BY <1>3, <3>1
    <3>3. Before(k, g, m)
      BY <2>1, <2>3, <3>1, <3>2 DEF OrderInv, HandNext
    <3>4. QED
      BY <1>4, <3>3
  <2>4. QED
    BY <2>2, <2>3
<1>9. QED
  BY <1>4, <1>6, <1>7, <1>8 DEF OrderInv

\* The other steps of a listener, which holds nothing else after them.
LEMMA LoseOrder ==
  ASSUME QueueInv, OrderInv, NEW n \in Nodes, RestAndLose(n),
         UNCHANGED <<queue, handled, log>>
  PROVE  OrderInv'
<1>1. /\ hand'[n] = None
      /\ \A p \in Nodes \ {n} : hand'[p] = hand[p] /\ turn'[p] = turn[p] /\ key'[p] = key[p]
  BY DEF RestAndLose, Rest, QueueInv, TypeOK
<1>2. QED
  BY <1>1, ListsStay, OrderKept

LEMMA MoveOrder ==
  ASSUME QueueInv, OrderInv, NEW n \in Nodes, Moves(n) PROVE OrderInv'
<1>1. hand[n] = None
  BY DEF Moves, OnMessage, NextKey, Modified, AllKeysDone, KeyDone, QueueInv, ListenerOK
<1>2. \A p \in Nodes \ {n} : key'[p] = key[p]
  BY DEF Moves, OnMessage, NextKey, Modified, AllKeysDone, KeyDone, Rest, QueueInv, TypeOK
<1>3. queue' = queue /\ log' = log /\ handled' = handled /\ hand' = hand /\ turn' = turn
  BY MoveKeeps
<1>4. QED
  BY <1>1, <1>2, <1>3, ListsStay, OrderKept

LEMMA StillOrdered ==
  ASSUME QueueInv, OrderInv, handled' = handled, queue' = queue, log' = log,
         hand' = hand, turn' = turn, key' = key
  PROVE  OrderInv'
BY ListsStay, OrderKept

LEMMA NextOrder == QueueInv /\ QueueInv' /\ OrderInv /\ [Next]_vars => OrderInv'
<1> SUFFICES ASSUME QueueInv, QueueInv', OrderInv, [Next]_vars PROVE OrderInv'
  OBVIOUS
<1>1. CASE UNCHANGED vars
  BY <1>1, StillOrdered DEF vars, listening
<1>2. ASSUME NEW m \in Messages, NEW n \in Nodes, SendMessage(m, n) PROVE OrderInv'
  BY <1>2, StillOrdered DEF SendMessage, listening
<1>3. ASSUME NEW m \in Messages, NoteKey(m) PROVE OrderInv'
  BY <1>3, StillOrdered DEF NoteKey, listening
<1>4. ASSUME NEW m \in Messages, Push(m) \/ PushAgain(m) PROVE OrderInv'
  BY <1>4, PushIs, PushOrder
<1>5. ASSUME NEW n \in Nodes, Throw(n) \/ Crash(n) PROVE OrderInv'
  BY <1>5, LoseOrder DEF Throw, Crash
<1>6. QED
  BY <1>1, <1>2, <1>3, <1>4, <1>5, MoveOrder, PopOrder, ConsumeOrder, ReplyOrder
  DEF Next, Listen, Moves

LEMMA OrderHolds == Spec => []OrderInv
BY InitOrder, NextOrder, QueueInvHolds, PTL DEF Spec

\* A node hands a consumer the messages of its key in the order in which they
\* were pushed, over every fault and restart.
THEOREM HandledInTheirOrder == Spec => []HandledInOrder
<1>1. QueueInv /\ OrderInv => HandledInOrder
  <2> SUFFICES ASSUME QueueInv, OrderInv, NEW n \in Nodes, NEW i \in Consumers
               PROVE  InOrder(handled[n][i], log[ConsumerKeys[i]])
    BY Zenon DEF HandledInOrder
  <2> SUFFICES \A a, b \in 1..Len(handled[n][i]) :
                  a < b /\ handled[n][i][a] # None /\ handled[n][i][b] # None
                  => \E x, y \in 1..Len(log[ConsumerKeys[i]]) :
                        /\ x < y
                        /\ log[ConsumerKeys[i]][x] = handled[n][i][a]
                        /\ log[ConsumerKeys[i]][y] = handled[n][i][b]
    BY DEF InOrder
  <2> TAKE a, b \in 1..Len(handled[n][i])
  <2> HAVE a < b /\ handled[n][i][a] # None /\ handled[n][i][b] # None
  <2>1. PICK k \in Keys : k = ConsumerKeys[i]
    BY KeysAreGiven DEF Consumers
  <2>2. Before(k, handled[n][i][a], handled[n][i][b])
    BY <2>1 DEF OrderInv, Ordered
  <2>3. 1..Gone(k) \subseteq 1..Len(log[k])
    <3>1. log[k] \in Seq(Messages) /\ queue[k] \in Seq(Messages)
      BY DEF QueueInv, TypeOK
    <3>2. Len(log[k]) \in Nat /\ Len(queue[k]) \in Nat
      BY <3>1, LenProperties
    <3>3. Gone(k) \in Nat /\ Gone(k) = Len(log[k]) - Len(queue[k])
      BY DEF OrderInv, Rests, Gone
    <3>4. QED
      BY <3>2, <3>3, Within
  <2>4. QED
    BY <2>1, <2>2, <2>3 DEF Before
<1>2. QED
  BY <1>1, QueueInvHolds, OrderHolds, PTL

------------------------------------------------------------------------------
\* What is left of a run of the listener: the keys it has yet to visit, then
\* how often it pops, then the consumers.
ComesCloser(n) ==
  \/ pc'[n] = "idle"
  \/ todo'[n] \subseteq todo[n] /\ todo'[n] # todo[n]
  \/ /\ todo'[n] = todo[n]
     /\ \/ left'[n] < left[n]
        \/ /\ left'[n] = left[n]
           /\ \/ pc[n] = "pop" /\ pc'[n] = "keys"
              \/ pc[n] = "consume" /\ pc'[n] = "pop"
              \/ pc[n] = "consume" /\ pc'[n] = "consume" /\ turn'[n] = turn[n] + 1

\* The node's listener stays where it is.
Stays(n) ==
  /\ pc'[n] = pc[n] /\ todo'[n] = todo[n] /\ left'[n] = left[n]
  /\ key'[n] = key[n] /\ hand'[n] = hand[n] /\ turn'[n] = turn[n]

\* Every step of a run comes closer to its end, whatever is pushed, and
\* however many keys are added, while it works.
ComesToItsEnd == \A n \in Nodes : pc[n] # "idle" => Stays(n) \/ ComesCloser(n)

\* The listener has yet to pop so often from the list that holds m that m
\* will come.
Counted(n, m) ==
  /\ pc[n] \in {"pop", "consume"} /\ key[n] = KeyOf[m]
  /\ \E j \in 1..Len(queue[KeyOf[m]]) : j <= left[n] /\ queue[KeyOf[m]][j] = m

\* A run that has counted a message keeps it counted until some listener has
\* it, a fault loses it, or a fault ends the run.
CountedIsPopped ==
  \A n \in Nodes, m \in Messages : Counted(n, m) =>
    \/ Counted(n, m)'
    \/ \E q \in Nodes : hand'[q] = m
    \/ m \in lost'
    \/ pc'[n] = "idle" /\ faults' = faults + 1

LEMMA RestCloser ==
  ASSUME QueueInv, NEW p \in Nodes, Rest(p)
  PROVE  pc'[p] = "idle" /\ \A n \in Nodes \ {p} : Stays(n)
BY DEF QueueInv, TypeOK, Rest, Goto, Stays

\* Whoever acts, the other listeners stay, and its own run comes closer to its
\* end.
LEMMA ActorOnly ==
  ASSUME QueueInv, NEW p \in Nodes, Listen(p) \/ Throw(p) \/ ReplyLost(p) \/ Crash(p)
  PROVE  /\ \A n \in Nodes \ {p} : Stays(n)
         /\ pc[p] # "idle" => Stays(p) \/ ComesCloser(p)
<1>1. CASE Modified(p) \/ AllKeysDone(p) \/ Throw(p) \/ Crash(p)
  <2>1. Rest(p)
    BY <1>1 DEF Modified, AllKeysDone, Throw, Crash, RestAndLose
  <2>2. QED
    BY <2>1, RestCloser DEF ComesCloser
<1>2. CASE ReplyLost(p)
  <2>1. CASE Rest(p)
    BY <2>1, RestCloser DEF ComesCloser
  <2>2. CASE UNCHANGED listening
    BY <2>2 DEF listening, Stays
  <2>3. QED
    BY <1>2, <2>1, <2>2 DEF ReplyLost
<1>3. CASE OnMessage(p)
  BY <1>3 DEF OnMessage, Goto, QueueInv, TypeOK, Stays
<1>4. CASE NextKey(p)
  <2>1. PICK k \in todo[p] :
          /\ todo' = [todo EXCEPT ![p] = @ \ {k}]
          /\ key' = [key EXCEPT ![p] = k]
          /\ left' = [left EXCEPT ![p] = Len(queue[k])]
    BY <1>4 DEF NextKey
  <2>2. pc' = [pc EXCEPT ![p] = "pop"] /\ hand' = hand /\ turn' = turn
    BY <1>4 DEF NextKey, Goto
  <2>3. \A n \in Nodes \ {p} : Stays(n)
    BY <2>1, <2>2 DEF QueueInv, TypeOK, Stays
  <2>4. todo'[p] = todo[p] \ {k}
    BY <2>1 DEF QueueInv, TypeOK
  <2>5. QED
    BY <2>3, <2>4 DEF ComesCloser
<1>5. CASE Pop(p)
  <2>1. /\ pc' = [pc EXCEPT ![p] = "consume"] /\ left' = [left EXCEPT ![p] = @ - 1]
        /\ UNCHANGED <<todo, key, turn>>
        /\ \/ hand' = hand
           \/ hand' = [hand EXCEPT ![p] = Head(queue[key[p]])]
    BY <1>5 DEF Pop, Goto
  <2>2. \A n \in Nodes \ {p} : Stays(n)
    BY <2>1 DEF QueueInv, TypeOK, Stays
  <2>3. left'[p] = left[p] - 1 /\ left[p] \in Nat
    BY <2>1 DEF QueueInv, TypeOK
  <2>4. QED
    BY <2>1, <2>2, <2>3 DEF ComesCloser
<1>6. CASE KeyDone(p)
  <2>1. /\ pc[p] = "pop" /\ pc' = [pc EXCEPT ![p] = "keys"]
        /\ key' = [key EXCEPT ![p] = None] /\ UNCHANGED <<todo, left, hand, turn>>
    BY <1>6 DEF KeyDone, Goto
  <2>2. QED
    BY <2>1 DEF QueueInv, TypeOK, Stays, ComesCloser
<1>7. CASE Consume(p)
  <2>1. pc[p] = "consume" /\ UNCHANGED <<todo, left, key>>
    BY <1>7 DEF Consume
  <2>2. \/ turn' = [turn EXCEPT ![p] = @ + 1] /\ UNCHANGED <<pc, hand>>
        \/ /\ turn' = [turn EXCEPT ![p] = 1] /\ hand' = [hand EXCEPT ![p] = None]
           /\ pc' = [pc EXCEPT ![p] = "pop"]
    BY <1>7 DEF Consume, Goto
  <2>3. \A n \in Nodes \ {p} : Stays(n)
    BY <2>1, <2>2 DEF QueueInv, TypeOK, Stays
  <2>4. ComesCloser(p)
    BY <2>1, <2>2 DEF QueueInv, TypeOK, ComesCloser
  <2>5. QED
    BY <2>3, <2>4
<1>8. QED
  BY <1>1, <1>2, <1>3, <1>4, <1>5, <1>6, <1>7 DEF Listen

\* A sender moves no listener.
LEMMA SendersOnly ==
  ASSUME NEW m \in Messages,
         (\E n \in Nodes : SendMessage(m, n)) \/ NoteKey(m) \/ Push(m) \/ PushAgain(m)
  PROVE  UNCHANGED listening
BY DEF SendMessage, NoteKey, Push, PushAgain

LEMMA StepComesToItsEnd == QueueInv /\ [Next]_vars => ComesToItsEnd
<1> SUFFICES ASSUME QueueInv, [Next]_vars PROVE ComesToItsEnd
  OBVIOUS
<1>1. CASE UNCHANGED listening
  BY <1>1 DEF listening, ComesToItsEnd, Stays
<1>2. ASSUME NEW p \in Nodes, Listen(p) \/ Throw(p) \/ ReplyLost(p) \/ Crash(p)
      PROVE  ComesToItsEnd
  BY <1>2, ActorOnly DEF ComesToItsEnd
<1>3. QED
  BY <1>1, <1>2, SendersOnly DEF Next, vars

\* A run of the listener comes to its end: no step of it, nor of anybody else,
\* gives it more to do than it had, whatever is sent meanwhile.
THEOREM RunsComeToTheirEnd == Spec => [][ComesToItsEnd]_vars
BY QueueInvHolds, StepComesToItsEnd, PTL DEF Spec

\* What is appended to a list leaves its messages counted.
LEMMA AppendCounts ==
  ASSUME QueueInv, NEW e \in Messages, NEW n \in Nodes, NEW m \in Messages,
         Counted(n, m), Stays(n), queue' = [queue EXCEPT ![KeyOf[e]] = Append(@, e)]
  PROVE  Counted(n, m)'
<1> DEFINE l == KeyOf[m]
<1>1. KeyOf[e] \in Keys /\ l \in Keys /\ queue[l] \in Seq(Messages)
  BY KeysAreGiven DEF QueueInv, TypeOK
<1>2. PICK j \in 1..Len(queue[l]) : j <= left[n] /\ queue[l][j] = m
  BY DEF Counted
<1>3. /\ Len(Append(queue[l], e)) = Len(queue[l]) + 1 /\ Len(queue[l]) \in Nat
      /\ Append(queue[l], e)[j] = queue[l][j]
  BY <1>1, AppendProperties, LenProperties
<1>4. queue'[l] = queue[l] \/ queue'[l] = Append(queue[l], e)
  BY <1>1 DEF QueueInv, TypeOK
<1>5. j \in 1..Len(queue'[l]) /\ queue'[l][j] = m
  BY <1>2, <1>3, <1>4
<1>6. QED
  BY <1>2, <1>5 DEF Counted, Stays

\* The head is taken off a list: if it is not m, m is counted still, by the
\* listener that took the head too.
LEMMA TakeCounts ==
  ASSUME QueueInv, NEW n \in Nodes, NEW m \in Messages, Counted(n, m),
         NEW k \in Keys, queue[k] # <<>>, queue' = [queue EXCEPT ![k] = Tail(@)],
         pc'[n] \in {"pop", "consume"}, key'[n] = key[n],
         left'[n] = left[n] \/ (left'[n] = left[n] - 1 /\ key[n] = k)
  PROVE  Counted(n, m)' \/ m = Head(queue[k])
<1> DEFINE l == KeyOf[m]
<1>1. l \in Keys /\ key[n] = l /\ left[n] \in Nat /\ queue[k] \in Seq(Messages)
  BY KeysAreGiven DEF Counted, QueueInv, TypeOK
<1>2. PICK j \in 1..Len(queue[l]) : j <= left[n] /\ queue[l][j] = m
  BY DEF Counted
<1>3. CASE l # k
  <2>1. queue'[l] = queue[l] /\ left'[n] = left[n]
    BY <1>1, <1>3 DEF QueueInv, TypeOK
  <2>2. QED
    BY <1>1, <1>2, <2>1 DEF Counted
<1>4. CASE l = k
  <2>1. /\ Len(Tail(queue[k])) = Len(queue[k]) - 1
        /\ \A i \in 1..Len(Tail(queue[k])) : Tail(queue[k])[i] = queue[k][i + 1]
        /\ Len(queue[k]) \in Nat /\ Head(queue[k]) = queue[k][1]
    BY <1>1, HeadTailProperties, EmptySeq
  <2>2. queue'[k] = Tail(queue[k])
    BY DEF QueueInv, TypeOK
  <2>3. CASE j = 1
    BY <1>2, <1>4, <2>1, <2>3
  <2>4. CASE j # 1
    <3>1. /\ j \in 2..Len(queue[k]) /\ j - 1 \in 1..Len(Tail(queue[k]))
          /\ (j - 1) + 1 = j
      BY <1>4, <2>1, <2>4
    <3>2. Tail(queue[k])[j - 1] = m
      BY <1>2, <1>4, <2>1, <3>1
    <3>3. j - 1 <= left'[n]
      BY <1>1, <1>2, <3>1
    <3>4. QED
      BY <1>1, <1>4, <2>2, <3>1, <3>2, <3>3 DEF Counted
  <2>5. QED
    BY <2>3, <2>4
<1>5. QED
  BY <1>3, <1>4

\* The listener and the list stay.
LEMMA StillCounted ==
  ASSUME NEW n \in Nodes, NEW m \in Messages, Counted(n, m), Stays(n), queue' = queue
  PROVE  Counted(n, m)'
BY DEF Counted, Stays

LEMMA PopCounts ==
  ASSUME QueueInv, NEW p \in Nodes, Pop(p), NEW n \in Nodes, NEW m \in Messages,
         Counted(n, m)
  PROVE  Counted(n, m)' \/ hand'[p] = m
<1>1. /\ pc[p] = "pop" /\ pc' = [pc EXCEPT ![p] = "consume"]
      /\ left' = [left EXCEPT ![p] = @ - 1] /\ key' = key /\ key[p] \in Keys
  BY DEF Pop, Goto, QueueInv, ListenerOK
<1>2. /\ key'[n] = key[n] /\ pc'[n] \in {"pop", "consume"}
      /\ left'[n] = left[n] \/ (left'[n] = left[n] - 1 /\ key[n] = key[p])
  BY <1>1 DEF Counted, QueueInv, TypeOK
<1>3. CASE queue[key[p]] = <<>>
  <2>1. queue' = queue
    BY <1>3 DEF Pop
  <2>2. n # p
    <3>1. Len(<<>>) = 0
      OBVIOUS
    <3>2. QED
      BY <1>3, <3>1 DEF Counted
  <2>3. Stays(n)
    BY <2>2, ActorOnly DEF Listen
  <2>4. QED
    BY <2>1, <2>3, StillCounted
<1>4. CASE queue[key[p]] # <<>>
  <2>1. /\ queue' = [queue EXCEPT ![key[p]] = Tail(@)]
        /\ hand' = [hand EXCEPT ![p] = Head(queue[key[p]])]
    BY <1>4 DEF Pop
  <2>2. hand'[p] = Head(queue[key[p]])
    BY <2>1 DEF QueueInv, TypeOK
  <2>3. Counted(n, m)' \/ m = Head(queue[key[p]])
    BY <1>1, <1>2, <1>4, <2>1, TakeCounts
  <2>4. QED
    BY <2>2, <2>3
<1>5. QED
  BY <1>3, <1>4

LEMMA ReplyCounts ==
  ASSUME QueueInv, NEW p \in Nodes, ReplyLost(p), NEW n \in Nodes, NEW m \in Messages,
         Counted(n, m)
  PROVE  Counted(n, m)' \/ m \in lost' \/ (pc'[n] = "idle" /\ faults' = faults + 1)
<1>1. CASE n = p /\ Rest(p)
  BY <1>1, RestCloser DEF ReplyLost, Fault
<1>2. CASE ~(n = p /\ Rest(p))
  <2>1. Stays(n)
    <3>1. CASE n = p
      BY <1>2, <3>1 DEF ReplyLost, listening, Stays
    <3>2. CASE n # p
      BY <3>2, ActorOnly
    <3>3. QED
      BY <3>1, <3>2
  <2>2. Counted(n, m)' \/ m = Head(queue[key[p]])
    BY <2>1, ReplyLostIs, TakeCounts DEF Stays, Counted
  <2>3. QED
    BY <2>2, ReplyLostIs
<1>3. QED
  BY <1>1, <1>2

\* The other steps of a listener take nothing off its list.
LEMMA MoveCounts ==
  ASSUME QueueInv, NEW p \in Nodes, Moves(p) \/ Consume(p), NEW n \in Nodes,
         NEW m \in Messages, Counted(n, m)
  PROVE  Counted(n, m)'
<1>1. queue' = queue
  BY MoveKeeps DEF Consume
<1>2. CASE n # p
  <2>1. Stays(n)
    BY <1>2, ActorOnly DEF Moves, Listen
  <2>2. QED
    BY <1>1, <2>1, StillCounted
<1>3. CASE n = p
  <2>1. pc[p] \in {"pop", "consume"} /\ left[p] # 0
    <3>1. QueueInv => left[p] \in Nat
      BY DEF QueueInv, TypeOK
    <3>2. PICK j \in 1..Len(queue[KeyOf[m]]) : j <= left[p]
      BY <1>3 DEF Counted
    <3>3. QED
      BY <1>3, <3>1, <3>2 DEF Counted
  <2>2. Consume(p)
    BY <2>1 DEF Moves, OnMessage, NextKey, Modified, AllKeysDone, KeyDone
  <2>3. UNCHANGED <<left, key>> /\ pc'[p] \in {"pop", "consume"}
    BY <2>2 DEF Consume, Goto, QueueInv, TypeOK
  <2>4. QED
    BY <1>1, <1>3, <2>3 DEF Counted
<1>4. QED
  BY <1>2, <1>3

\* A fault of one listener is nothing to the others.
LEMMA LoseCounts ==
  ASSUME QueueInv, NEW p \in Nodes, Throw(p) \/ Crash(p), NEW n \in Nodes,
         NEW m \in Messages, Counted(n, m)
  PROVE  Counted(n, m)' \/ (pc'[n] = "idle" /\ faults' = faults + 1)
<1>1. Rest(p) /\ queue' = queue /\ faults' = faults + 1
  BY DEF Throw, Crash, RestAndLose, Fault
<1>2. QED
  BY <1>1, RestCloser, StillCounted

LEMMA StepCounts == QueueInv /\ [Next]_vars => CountedIsPopped
<1> SUFFICES ASSUME QueueInv, [Next]_vars, NEW n \in Nodes, NEW m \in Messages,
                    Counted(n, m)
             PROVE  \/ Counted(n, m)'
                    \/ \E q \in Nodes : hand'[q] = m
                    \/ m \in lost'
                    \/ pc'[n] = "idle" /\ faults' = faults + 1
  BY DEF CountedIsPopped
<1>1. CASE UNCHANGED listening /\ queue' = queue
  BY <1>1, StillCounted DEF listening, Stays
<1>2. ASSUME NEW e \in Messages, Push(e) \/ PushAgain(e) PROVE Counted(n, m)'
  <2>1. Pushed(e) /\ UNCHANGED listening
    BY <1>2, PushIs, SendersOnly
  <2>2. QED
    BY <2>1, AppendCounts DEF Pushed, listening, Stays
<1>3. ASSUME NEW e \in Messages, (\E q \in Nodes : SendMessage(e, q)) \/ NoteKey(e)
      PROVE  UNCHANGED listening /\ queue' = queue
  BY <1>3 DEF SendMessage, NoteKey
<1>4. QED
  BY <1>1, <1>2, <1>3, PopCounts, ReplyCounts, MoveCounts, LoseCounts
  DEF Next, Listen, Moves, vars

\* A message that a run has counted comes to a listener or is lost by a known
\* fault, unless a fault ends that run: pops by other nodes between the length
\* and the pops do not make a run stop short of it.
THEOREM WhatIsCountedIsPopped == Spec => [][CountedIsPopped]_vars
BY QueueInvHolds, StepCounts, PTL DEF Spec
==============================================================================
