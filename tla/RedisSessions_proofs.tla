------------------------- MODULE RedisSessions_proofs -------------------------
(***************************************************************************)
(* For any requests, ids and values: an attribute of a session is taken at *)
(* most as often as it was put there, unless a taker lost its flag, and a  *)
(* hash never stays without a time to live, unless its setter died.        *)
(***************************************************************************)
EXTENDS RedisSessions, TLAPS

USE NoValueIsNothing, RepeatsAreCounted

\* A request has an id when it uses one, and it was made by createSessionId.
CookiesAreIds ==
  /\ cookie \in ids \cup {NoValue}
  /\ \A r \in Requests :
       /\ sent[r] \in ids \cup {NoValue}
       /\ at[r] \notin {"out", "sent"} => sessionId[r] \in ids

\* Who has a put still to make has the value to itself: each of the two
\* stores puts it once, and once more for each reply that was lost.
Storing == {"store", "expire", "storeAgain"}
Stores(r, v) == at[r] \in Storing /\ value[r] = v

StoredTwice ==
  \A v \in Values : \A r \in Requests : Stores(r, v) =>
    /\ puts[v] <= repeats + (IF at[r] = "store" THEN 0 ELSE 1)
    /\ \A q \in Requests : Stores(q, v) => q = r
PutsAreFew == \A v \in Values : puts[v] <= repeats + 2

SessionInv == SessionTypeOK /\ CookiesAreIds /\ StoredTwice /\ PutsAreFew

------------------------------------------------------------------------------
LEMMA InitSessionInv == SessionInit => SessionInv
BY DEF SessionInit, SessionInv, SessionTypeOK, SessionPlaces, Flags, CookiesAreIds,
       StoredTwice, Stores, Storing, PutsAreFew, Setting

\* The id that createSessionId makes is its own.
LEMMA CreateIs ==
  ASSUME SessionInv, NEW r \in Requests, CreateSessionId(r)
  PROVE  /\ ids' \subseteq SessionIds /\ ids \subseteq ids'
         /\ \E i \in ids' \ ids : sessionId' = [sessionId EXCEPT ![r] = i]
BY DEF CreateSessionId, SessionInv, SessionTypeOK

LEMMA PutTypes ==
  ASSUME SessionInv, NEW i \in ids, NEW v \in Values \cup {NoValue}, PutIn(i, v), UNCHANGED ids
  PROVE  /\ hash' \in [SessionIds -> Values \cup {NoValue}]
         /\ expiry' \subseteq {j \in ids' : hash'[j] # NoValue}
         /\ died' \subseteq ids'
BY DEF PutIn, SessionInv, SessionTypeOK

\* A store leaves a value put as often as there are stores and lost replies.
LEMMA PutsAfter ==
  ASSUME SessionInv, NEW r \in Requests, Store(r)
  PROVE  /\ repeats' \in 0..MaxRepeats
         /\ value[r] \in Values =>
              /\ puts[value[r]] + 1 <= repeats' + 2
              /\ at'[r] # "expireAgain" => puts[value[r]] + 1 <= repeats' + 1
              /\ at'[r] = "store" => puts[value[r]] + 1 <= repeats'
<1> USE DEF SessionInv, SessionTypeOK, MoveTo, AskedAgain, SessionPlaces, Setting
<1>1. CASE UNCHANGED repeats
  <2>1. \/ at[r] = "store" /\ at'[r] = "expire"
        \/ at[r] = "storeAgain" /\ at'[r] = "expireAgain"
    BY <1>1 DEF Store, RepeatStore
  <2>2. value[r] \in Values =>
          /\ puts[value[r]] <= repeats + 1
          /\ at[r] = "store" => puts[value[r]] <= repeats
    BY DEF Store, StoredTwice, Stores, Storing
  <2>3. QED
    BY <1>1, <2>1, <2>2
<1>2. CASE RepeatStore
  <2>1. at'[r] \in {"store", "storeAgain"} /\ at'[r] = at[r]
    BY <1>2 DEF Store, RepeatStore
  <2>2. value[r] \in Values =>
          /\ puts[value[r]] <= repeats + 1
          /\ at[r] = "store" => puts[value[r]] <= repeats
    BY DEF Store, StoredTwice, Stores, Storing
  <2>3. QED
    BY <1>2, <2>1, <2>2 DEF RepeatStore
<1>3. QED
  BY <1>1, <1>2 DEF Store

\* Each step keeps the types and where ids come from.
LEMMA NextTypes == SessionInv /\ SessionNext => SessionTypeOK' /\ CookiesAreIds'
<1> SUFFICES ASSUME SessionInv, SessionNext PROVE SessionTypeOK' /\ CookiesAreIds'
  OBVIOUS
<1> USE DEF SessionInv, SessionTypeOK, CookiesAreIds, SessionPlaces, Setting, Flags, MoveTo,
            AskedAgain, history
<1>1. ASSUME NEW r \in Requests, Send(r) PROVE SessionTypeOK' /\ CookiesAreIds'
  BY <1>1 DEF Send
<1>2. ASSUME NEW r \in Requests, GetSession(r) PROVE SessionTypeOK' /\ CookiesAreIds'
  <2>1. CASE sent[r] = NoValue
    BY <1>2, <2>1, CreateIs DEF GetSession
  <2>2. CASE sent[r] # NoValue
    BY <1>2, <2>2 DEF GetSession
  <2>3. QED
    BY <2>1, <2>2
<1>3. ASSUME NEW r \in Requests, Respond(r) PROVE SessionTypeOK' /\ CookiesAreIds'
  BY <1>3 DEF Respond
<1>4. ASSUME NEW r \in Requests, Die(r) PROVE SessionTypeOK' /\ CookiesAreIds'
  BY <1>4 DEF Die
<1>5. ASSUME NEW r \in Requests, NEW v \in Values \cup {NoValue}, SetAttribute(r, v)
      PROVE  SessionTypeOK' /\ CookiesAreIds'
  BY <1>5 DEF SetAttribute
<1>6. ASSUME NEW r \in Requests, Expire(r) PROVE SessionTypeOK' /\ CookiesAreIds'
  BY <1>6 DEF Expire, Lives
<1>7. ASSUME NEW r \in Requests, Store(r) PROVE SessionTypeOK' /\ CookiesAreIds'
  <2>1. sessionId[r] \in ids /\ value[r] \in Values \cup {NoValue}
    BY <1>7 DEF Store
  <2>2. repeats' \in 0..MaxRepeats
    BY <1>7, PutsAfter
  <2>3. value[r] \in Values => puts[value[r]] + 1 <= 2 + MaxRepeats
    BY <1>7, <2>2, PutsAfter
  <2>4. puts' \in [Values -> 0..(2 + MaxRepeats)]
    BY <1>7, <2>1, <2>3 DEF Store, StoreValue, CountPut
  <2>5. /\ at' \in [Requests -> SessionPlaces]
        /\ \A q \in Requests : at'[q] \notin {"out", "sent"} => at[q] \notin {"out", "sent"}
    BY <1>7 DEF Store, RepeatStore
  <2>6. /\ hash' \in [SessionIds -> Values \cup {NoValue}]
        /\ expiry' \subseteq {j \in ids' : hash'[j] # NoValue}
        /\ died' \subseteq ids'
    <3>1. PutIn(sessionId[r], value[r]) /\ UNCHANGED ids
      BY <1>7 DEF Store, StoreValue
    <3>2. QED
      BY <3>1, <2>1, PutTypes
  <2>7. UNCHANGED <<cookie, ids, flag, sent, sessionId, value, taken, bared>>
    BY <1>7 DEF Store, StoreValue
  <2>8. QED
    BY <2>2, <2>4, <2>5, <2>6, <2>7
<1>8. ASSUME NEW r \in Requests, RemoveAttribute(r) \/ RemoveRead(r)
      PROVE  SessionTypeOK' /\ CookiesAreIds'
  <2>1. sessionId[r] \in ids
    BY <1>8 DEF RemoveAttribute, RemoveRead
  <2>2. QED
    BY <1>8, <2>1, PutTypes DEF RemoveAttribute, RemoveRead
<1>9. ASSUME NEW r \in Requests, Invalidate(r) PROVE SessionTypeOK' /\ CookiesAreIds'
  BY <1>9, CreateIs DEF Invalidate
<1>10. ASSUME NEW r \in Requests, TakeFlag(r) \/ Read(r)
       PROVE  SessionTypeOK' /\ CookiesAreIds'
  BY <1>10 DEF TakeFlag, Read, SetFlag
<1>11. ASSUME NEW r \in Requests, Unflag(r) PROVE SessionTypeOK' /\ CookiesAreIds'
  BY <1>11 DEF Unflag, SetFlag
<1>12. ASSUME NEW i \in SessionIds, HashExpires(i) PROVE SessionTypeOK' /\ CookiesAreIds'
  BY <1>12, PutTypes DEF HashExpires
<1>13. ASSUME NEW i \in SessionIds, FiveMinutes(i) PROVE SessionTypeOK' /\ CookiesAreIds'
  BY <1>13 DEF FiveMinutes, SetFlag, Taking
<1>14. QED
  BY <1>1, <1>2, <1>3, <1>4, <1>5, <1>6, <1>7, <1>8, <1>9, <1>10, <1>11, <1>12, <1>13
     DEF SessionNext

\* Nobody else stores the value: setAttribute is called once with each.
LEMMA NextStored == SessionInv /\ SessionNext => StoredTwice' /\ PutsAreFew'
<1> SUFFICES ASSUME SessionInv, SessionNext PROVE StoredTwice' /\ PutsAreFew'
  OBVIOUS
<1> USE DEF SessionInv, SessionTypeOK, StoredTwice, PutsAreFew, Stores, Storing, Setting,
            SessionPlaces, MoveTo, AskedAgain, history
<1>1. ASSUME NEW r \in Requests,
             Send(r) \/ GetSession(r) \/ Respond(r) \/ Die(r) \/ RemoveAttribute(r)
               \/ Invalidate(r) \/ TakeFlag(r) \/ Read(r) \/ RemoveRead(r) \/ Unflag(r)
      PROVE  StoredTwice' /\ PutsAreFew'
  <2>1. UNCHANGED <<puts, repeats>>
    BY <1>1 DEF Send, GetSession, Respond, Die, RemoveAttribute, Invalidate, TakeFlag, Read,
                RemoveRead, Unflag
  <2>2. \A q \in Requests : \A v \in Values : Stores(q, v)' => Stores(q, v) /\ at'[q] = at[q]
    BY <1>1 DEF Send, GetSession, Respond, Die, RemoveAttribute, Invalidate, TakeFlag, Read,
                RemoveRead, Unflag
  <2>3. QED
    BY <2>1, <2>2
<1>2. ASSUME NEW r \in Requests, NEW v \in Values \cup {NoValue}, SetAttribute(r, v)
      PROVE  StoredTwice' /\ PutsAreFew'
  BY <1>2 DEF SetAttribute
<1>3. ASSUME NEW r \in Requests, Expire(r) PROVE StoredTwice' /\ PutsAreFew'
  BY <1>3 DEF Expire
<1>4. ASSUME NEW r \in Requests, Store(r) PROVE StoredTwice' /\ PutsAreFew'
  <2>1. /\ repeats' \in {repeats, repeats + 1}
        /\ UNCHANGED <<value, sessionId>>
        /\ \A q \in Requests \ {r} : at'[q] = at[q]
    BY <1>4 DEF Store, StoreValue, RepeatStore
  <2>2. \A v \in Values \ {value[r]} : puts'[v] = puts[v]
    BY <1>4 DEF Store, StoreValue, CountPut
  <2>3. value[r] \in Values => puts'[value[r]] = puts[value[r]] + 1
    BY <1>4 DEF Store, StoreValue, CountPut
  <2>4. value[r] \in Values => Stores(r, value[r])
    BY <1>4 DEF Store
  <2>5. at'[r] \in Storing \cup {"expireAgain"}
    BY <1>4 DEF Store, RepeatStore
  <2>6. PutsAreFew'
    BY <2>1, <2>2, <2>3, <1>4, PutsAfter
  <2>7. ASSUME NEW v \in Values, NEW q \in Requests, Stores(q, v)' PROVE Stores(q, v)
    BY <2>1, <2>4, <2>7
  <2>8. ASSUME NEW v \in Values, NEW q \in Requests, Stores(q, v)'
        PROVE  puts'[v] <= repeats' + (IF at'[q] = "store" THEN 0 ELSE 1)
    <3>1. CASE q = r
      BY <3>1, <2>1, <2>3, <2>8, <1>4, PutsAfter
    <3>2. CASE q # r
      BY <3>2, <2>1, <2>2, <2>4, <2>7, <2>8
    <3>3. QED
      BY <3>1, <3>2
  <2>9. QED
    BY <2>6, <2>7, <2>8
<1>5. ASSUME NEW i \in SessionIds, HashExpires(i) \/ FiveMinutes(i)
      PROVE  StoredTwice' /\ PutsAreFew'
  BY <1>5 DEF HashExpires, FiveMinutes
<1>6. QED
  BY <1>1, <1>2, <1>3, <1>4, <1>5 DEF SessionNext

LEMMA NextSessionInv == SessionInv /\ [SessionNext]_sessionVars => SessionInv'
<1>1. CASE SessionNext
  BY <1>1, NextTypes, NextStored DEF SessionInv
<1>2. CASE UNCHANGED sessionVars
  BY <1>2 DEF SessionInv, SessionTypeOK, CookiesAreIds, StoredTwice, Stores, PutsAreFew,
             sessionVars
<1>3. QED
  BY <1>1, <1>2

LEMMA SessionInvHolds == SessionSpec => []SessionInv
BY InitSessionInv, NextSessionInv, PTL DEF SessionSpec

\* Of any browser: a request works under an id that createSessionId made,
\* and no value is put more than twice, by the two stores of Session, and
\* once for each store whose reply was lost.
THEOREM SessionTyping == SessionSpec => []SessionTypeOK
BY SessionInvHolds, PTL DEF SessionInv

------------------------------------------------------------------------------
LEMMA InitExpire == SessionInit => HashesExpire
BY DEF SessionInit, HashesExpire

\* A hash has an expiry, a setter that will give it one, or one that died.
LEMMA NextExpire == SessionInv /\ HashesExpire /\ [SessionNext]_sessionVars => HashesExpire'
<1> SUFFICES ASSUME SessionInv, HashesExpire, [SessionNext]_sessionVars PROVE HashesExpire'
  OBVIOUS
<1> USE DEF SessionInv, SessionTypeOK, CookiesAreIds, HashesExpire, SessionPlaces, Setting, MoveTo,
            AskedAgain, history
<1>1. ASSUME NEW r \in Requests,
             Send(r) \/ GetSession(r) \/ Respond(r) \/ Invalidate(r) \/ TakeFlag(r)
               \/ Read(r) \/ Unflag(r)
      PROVE  HashesExpire'
  BY <1>1 DEF Send, GetSession, Respond, Invalidate, CreateSessionId, TakeFlag, Read, Unflag
<1>2. ASSUME NEW r \in Requests, Die(r) PROVE HashesExpire'
  BY <1>2 DEF Die
<1>3. ASSUME NEW r \in Requests, NEW v \in Values \cup {NoValue}, SetAttribute(r, v)
      PROVE  HashesExpire'
  BY <1>3 DEF SetAttribute
<1>4. ASSUME NEW r \in Requests, Store(r) PROVE HashesExpire'
  BY <1>4 DEF Store, StoreValue, RepeatStore, PutIn
<1>5. ASSUME NEW r \in Requests, Expire(r) PROVE HashesExpire'
  BY <1>5 DEF Expire, Lives
<1>6. ASSUME NEW r \in Requests, RemoveAttribute(r) \/ RemoveRead(r) PROVE HashesExpire'
  BY <1>6 DEF RemoveAttribute, RemoveRead, PutIn
<1>7. ASSUME NEW i \in SessionIds, HashExpires(i) \/ FiveMinutes(i) PROVE HashesExpire'
  BY <1>7 DEF HashExpires, FiveMinutes, PutIn
<1>8. CASE UNCHANGED sessionVars
  BY <1>8 DEF sessionVars
<1>9. QED
  BY <1>1, <1>2, <1>3, <1>4, <1>5, <1>6, <1>7, <1>8 DEF SessionNext

\* Whatever removes, stores, takes and expires between its steps, a hash that
\* has no time to live has a request that will give it one, or one that died.
THEOREM HashesGoAway == SessionSpec => []HashesExpire
BY SessionInvHolds, InitExpire, NextExpire, PTL DEF SessionSpec

------------------------------------------------------------------------------
\* Where a value can be put or read again: a hash, a setter that has a store
\* to make, a taker that has still to remove it.
Home(v, i) ==
  \/ hash[i] = v
  \/ \E r \in Requests :
       at[r] \in Storing \cup {"remove"} /\ value[r] = v /\ sessionId[r] = i

\* A value is never in two sessions.
OneHome ==
  \A v \in Values : \A i \in SessionIds :
    /\ hash[i] = v => puts[v] > 0
    /\ Home(v, i) => \A j \in SessionIds : Home(v, j) => j = i

\* The flag keeps the takers of a session apart.
OneTaker ==
  \A r \in Requests : \A i \in SessionIds : Taking(r, i) =>
    /\ flag[i] = "fresh"
    /\ \A q \in Requests : Taking(q, i) => q = r

\* What can still be taken, once.
Left(v) ==
  \/ \E i \in SessionIds : hash[i] = v
  \/ \E r \in Requests : at[r] = "remove" /\ value[r] = v
One(p) == IF p THEN 1 ELSE 0

Accounted == \A v \in Values : taken[v] + One(Left(v)) <= puts[v]

TakenInv == OneHome /\ (bared = {} => OneTaker /\ Accounted)

LEMMA InitTaken == SessionInit => TakenInv
BY DEF SessionInit, TakenInv, OneHome, Home, OneTaker, Taking, Accounted, Left, One, Storing

\* The values of a session that has an id have their home there.
LEMMA NextHome == SessionInv /\ OneHome /\ SessionNext => OneHome'
<1> SUFFICES ASSUME SessionInv, OneHome, SessionNext PROVE OneHome'
  OBVIOUS
<1> USE DEF SessionInv, SessionTypeOK, CookiesAreIds, Storing, SessionPlaces, Setting, MoveTo,
            AskedAgain, history
\* No new home, unless of a value that had none.
<1> DEFINE NoNewHome == \A v \in Values : \A i \in SessionIds : Home(v, i)' => Home(v, i)
           AllPut == \A v \in Values : \A i \in SessionIds : hash'[i] = v => puts'[v] > 0
<1>1. NoNewHome /\ AllPut => OneHome'
  BY DEF OneHome
<1>2. ASSUME NEW r \in Requests,
             Send(r) \/ GetSession(r) \/ Respond(r) \/ Die(r) \/ Expire(r) \/ RemoveAttribute(r)
               \/ Invalidate(r) \/ TakeFlag(r) \/ Read(r) \/ RemoveRead(r) \/ Unflag(r)
      PROVE  NoNewHome /\ AllPut
  <2>1. CASE Send(r) \/ TakeFlag(r)
    BY <2>1 DEF Send, TakeFlag, Home, OneHome
  <2>2. CASE GetSession(r) \/ Invalidate(r)
    BY <2>2 DEF GetSession, Invalidate, CreateSessionId, Home, OneHome
  <2>3. CASE Respond(r) \/ Die(r)
    BY <2>3 DEF Respond, Die, Home, OneHome
  <2>4. CASE Expire(r)
    BY <2>4 DEF Expire, Home, OneHome
  <2>5. CASE RemoveAttribute(r) \/ RemoveRead(r)
    BY <2>5 DEF RemoveAttribute, RemoveRead, PutIn, Home, OneHome
  <2>6. CASE Read(r)
    BY <2>6 DEF Read, Home, OneHome
  <2>7. CASE Unflag(r)
    BY <2>7 DEF Unflag, Home, OneHome
  <2>8. QED
    BY <1>2, <2>1, <2>2, <2>3, <2>4, <2>5, <2>6, <2>7
<1>3. ASSUME NEW r \in Requests, Store(r) PROVE OneHome'
  <2>1. NoNewHome
    BY <1>3 DEF Store, StoreValue, RepeatStore, PutIn, Home
  <2>2. \A v \in Values : puts'[v] >= puts[v]
    BY <1>3 DEF Store, StoreValue, CountPut
  <2>3. AllPut
    <3>1. SUFFICES ASSUME NEW v \in Values, NEW i \in SessionIds, hash'[i] = v
                   PROVE  puts'[v] > 0
      OBVIOUS
    <3>2. CASE hash[i] = v
      BY <3>2, <2>2, NextTypes DEF OneHome
    <3>3. CASE hash[i] # v
      BY <3>1, <3>3, <1>3 DEF Store, StoreValue, PutIn, CountPut
    <3>4. QED
      BY <3>2, <3>3
  <2>4. QED
    BY <1>1, <2>1, <2>3
<1>4. ASSUME NEW r \in Requests, NEW v \in Values \cup {NoValue}, SetAttribute(r, v)
      PROVE  OneHome'
  <2>1. UNCHANGED <<hash, puts>>
    BY <1>4 DEF SetAttribute
  <2>2. \A u \in Values \ {v} : \A i \in SessionIds : Home(u, i)' => Home(u, i)
    BY <1>4 DEF SetAttribute, Home
  <2>3. ASSUME v \in Values PROVE \A i \in SessionIds : Home(v, i)' => i = sessionId[r]
    BY <1>4, <2>3 DEF SetAttribute, Home, OneHome
  <2>4. QED
    BY <2>1, <2>2, <2>3 DEF OneHome
<1>5. ASSUME NEW i \in SessionIds, HashExpires(i) \/ FiveMinutes(i)
      PROVE  NoNewHome /\ AllPut
  BY <1>5 DEF HashExpires, FiveMinutes, PutIn, Home, OneHome
<1>6. ASSUME NoNewHome, AllPut PROVE OneHome'
  BY <1>1, <1>6
<1> HIDE DEF NoNewHome, AllPut
<1>7. QED
  BY <1>2, <1>3, <1>4, <1>5, <1>6 DEF SessionNext

\* A taker comes when the flag is not fresh, and the flag stays fresh while
\* it is there.
LEMMA NextTaker ==
  SessionInv /\ OneTaker /\ SessionNext /\ bared' = {} => OneTaker'
<1> SUFFICES ASSUME SessionInv, OneTaker, SessionNext, bared' = {} PROVE OneTaker'
  OBVIOUS
<1> USE DEF SessionInv, SessionTypeOK, CookiesAreIds, OneTaker, Taking, SessionPlaces, Setting,
            MoveTo, AskedAgain, SetFlag, history
<1>1. ASSUME NEW r \in Requests,
             Send(r) \/ GetSession(r) \/ Respond(r) \/ Die(r) \/ Expire(r) \/ Store(r)
               \/ RemoveAttribute(r) \/ Invalidate(r) \/ Read(r) \/ RemoveRead(r)
      PROVE  OneTaker'
  <2>1. CASE Send(r) \/ Respond(r) \/ Die(r)
    BY <2>1 DEF Send, Respond, Die
  <2>2. CASE GetSession(r) \/ Invalidate(r)
    BY <2>2 DEF GetSession, Invalidate, CreateSessionId
  <2>3. CASE Expire(r) \/ Store(r) \/ RemoveAttribute(r)
    BY <2>3 DEF Expire, Store, StoreValue, RepeatStore, RemoveAttribute
  <2>4. CASE Read(r) \/ RemoveRead(r)
    BY <2>4 DEF Read, RemoveRead
  <2>5. QED
    BY <1>1, <2>1, <2>2, <2>3, <2>4
<1>2. ASSUME NEW r \in Requests, NEW v \in Values \cup {NoValue}, SetAttribute(r, v)
      PROVE  OneTaker'
  BY <1>2 DEF SetAttribute
<1>3. ASSUME NEW r \in Requests, TakeFlag(r) PROVE OneTaker'
  <2>1. /\ flag'[sessionId[r]] = "fresh"
        /\ \A j \in SessionIds \ {sessionId[r]} : flag'[j] = flag[j]
    BY <1>3 DEF TakeFlag
  <2>2. \A q \in Requests, j \in SessionIds : q # r /\ Taking(q, j)' => Taking(q, j)
    BY <1>3 DEF TakeFlag
  <2>3. \A j \in SessionIds : Taking(r, j)' => j = sessionId[r] /\ flag[j] # "fresh"
    BY <1>3 DEF TakeFlag
  <2>4. QED
    BY <2>1, <2>2, <2>3
<1>4. ASSUME NEW r \in Requests, Unflag(r) PROVE OneTaker'
  <2>1. \A j \in SessionIds \ {sessionId[r]} : flag'[j] = flag[j]
    BY <1>4 DEF Unflag
  <2>2. \A q \in Requests, j \in SessionIds : Taking(q, j)' => Taking(q, j) /\ q # r
    BY <1>4 DEF Unflag
  <2>3. \A q \in Requests \ {r} : ~Taking(q, sessionId[r])
    BY <1>4 DEF Unflag
  <2>4. QED
    BY <2>1, <2>2, <2>3
<1>5. ASSUME NEW i \in SessionIds, HashExpires(i) PROVE OneTaker'
  BY <1>5 DEF HashExpires
<1>6. ASSUME NEW i \in SessionIds, FiveMinutes(i) PROVE OneTaker'
  <2>1. \A r \in Requests : ~Taking(r, i)
    BY <1>6 DEF FiveMinutes
  <2>2. \A j \in SessionIds \ {i} : flag'[j] = flag[j]
    BY <1>6 DEF FiveMinutes
  <2>3. UNCHANGED <<at, sessionId>>
    BY <1>6 DEF FiveMinutes
  <2>4. QED
    BY <2>1, <2>2, <2>3
<1>7. QED
  BY <1>1, <1>2, <1>3, <1>4, <1>5, <1>6 DEF SessionNext

\* A step that leaves the counts alone and brings no value back keeps the
\* account.
LEMMA StillAccounted ==
  ASSUME SessionInv, Accounted, UNCHANGED <<puts, taken>>,
         \A v \in Values : Left(v)' => Left(v)
  PROVE  Accounted'
BY DEF SessionInv, SessionTypeOK, Accounted, One

\* So does a put, which leaves one value where it can be taken once more.
LEMMA PutAccounted ==
  ASSUME SessionInv, Accounted, NEW u \in Values \cup {NoValue}, CountPut(u), UNCHANGED taken,
         \A v \in Values \ {u} : Left(v)' => Left(v)
  PROVE  Accounted'
BY DEF SessionInv, SessionTypeOK, Accounted, One, CountPut

\* Each step keeps the account.
LEMMA NextAccounted ==
  SessionInv /\ OneHome /\ OneTaker /\ Accounted /\ SessionNext => Accounted'
<1> SUFFICES ASSUME SessionInv, OneHome, OneTaker, Accounted, SessionNext PROVE Accounted'
  OBVIOUS
<1> USE DEF SessionInv, SessionTypeOK, CookiesAreIds, SessionPlaces, Setting, MoveTo, AskedAgain,
            SetFlag, history
<1> DEFINE NoneCome == \A v \in Values : Left(v)' => Left(v)
<1>1. ASSUME NEW r \in Requests,
             Send(r) \/ GetSession(r) \/ Respond(r) \/ Die(r) \/ Expire(r) \/ RemoveAttribute(r)
               \/ Invalidate(r) \/ TakeFlag(r) \/ Read(r) \/ Unflag(r)
      PROVE  NoneCome /\ UNCHANGED <<puts, taken>>
  <2>1. CASE Send(r) \/ Respond(r) \/ Die(r)
    BY <2>1 DEF Send, Respond, Die, Left
  <2>2. CASE GetSession(r) \/ Invalidate(r)
    BY <2>2 DEF GetSession, Invalidate, Left
  <2>3. CASE Expire(r) \/ RemoveAttribute(r)
    BY <2>3 DEF Expire, RemoveAttribute, PutIn, Left
  <2>4. CASE TakeFlag(r) \/ Unflag(r)
    BY <2>4 DEF TakeFlag, Unflag, Left
  <2>5. CASE Read(r)
    BY <2>5 DEF Read, Left
  <2>6. QED
    BY <1>1, <2>1, <2>2, <2>3, <2>4, <2>5
<1>2. ASSUME NEW r \in Requests, NEW v \in Values \cup {NoValue}, SetAttribute(r, v)
      PROVE  NoneCome /\ UNCHANGED <<puts, taken>>
  BY <1>2 DEF SetAttribute, Left
<1>3. ASSUME NEW r \in Requests, Store(r) PROVE Accounted'
  <2>1. \A u \in Values \ {value[r]} : Left(u)' => Left(u)
    BY <1>3 DEF Store, StoreValue, RepeatStore, PutIn, Left
  <2>2. QED
    BY <1>3, <2>1, PutAccounted DEF Store, StoreValue
<1>4. ASSUME NEW r \in Requests, RemoveRead(r) PROVE Accounted'
  <2>1. \A v \in Values : Left(v)' => Left(v)
    BY <1>4 DEF RemoveRead, PutIn, Left
  <2>2. CASE UNCHANGED taken
    BY <1>4, <2>1, <2>2, StillAccounted DEF RemoveRead
  <2>3. CASE taken' # taken
    <3>1. /\ at'[r] = "unflag"
          /\ value[r] \in Values
          /\ taken' = [taken EXCEPT ![value[r]] = @ + 1]
      BY <1>4, <2>3 DEF RemoveRead
    \* No other taker and no hash has what it read.
    <3>2. Left(value[r]) /\ Home(value[r], sessionId[r]) /\ sessionId[r] \in SessionIds
      BY <1>4, <3>1 DEF RemoveRead, Left, Home
    <3>3. ASSUME NEW q \in Requests \ {r}, at[q] = "remove", value[q] = value[r] PROVE FALSE
      <4>1. Home(value[r], sessionId[q]) /\ sessionId[q] \in SessionIds
        BY <3>3 DEF Home
      <4>2. sessionId[q] = sessionId[r]
        BY <3>1, <3>2, <4>1 DEF OneHome
      <4>3. QED
        BY <1>4, <3>2, <3>3, <4>2 DEF RemoveRead, OneTaker, Taking
    <3>4. \A i \in SessionIds : hash'[i] # value[r]
      BY <1>4, <3>1, <3>2 DEF RemoveRead, PutIn, Home, OneHome
    <3>5. ~Left(value[r])'
      BY <1>4, <3>1, <3>3, <3>4 DEF RemoveRead, Left
    <3>6. QED
      BY <1>4, <2>1, <3>1, <3>2, <3>5 DEF RemoveRead, Accounted, One
  <2>4. QED
    BY <2>2, <2>3
<1>5. ASSUME NEW i \in SessionIds, HashExpires(i) \/ FiveMinutes(i)
      PROVE  NoneCome /\ UNCHANGED <<puts, taken>>
  BY <1>5 DEF HashExpires, FiveMinutes, PutIn, Left
<1>6. ASSUME NoneCome, UNCHANGED <<puts, taken>> PROVE Accounted'
  BY <1>6, StillAccounted
<1> HIDE DEF NoneCome
<1>7. QED
  BY <1>1, <1>2, <1>3, <1>4, <1>5, <1>6 DEF SessionNext

\* A flag that was lost stays known.
LEMMA BaredStays == SessionNext /\ bared' = {} => bared = {}
BY DEF SessionNext, Send, GetSession, Respond, Die, SetAttribute, Expire, Store, StoreValue,
       RemoveAttribute, Invalidate, TakeFlag, Read, RemoveRead, Unflag, HashExpires, FiveMinutes,
       history

LEMMA NextTaken == SessionInv /\ TakenInv /\ [SessionNext]_sessionVars => TakenInv'
<1>1. CASE SessionNext
  BY <1>1, NextHome, NextTaker, NextAccounted, BaredStays DEF TakenInv
<1>2. CASE UNCHANGED sessionVars
  BY <1>2 DEF TakenInv, OneHome, Home, OneTaker, Taking, Accounted, One, Left, sessionVars
<1>3. QED
  BY <1>1, <1>2

LEMMA TakenIs == SessionInv /\ TakenInv => TakenOnce
BY DEF SessionInv, SessionTypeOK, TakenInv, Accounted, One, TakenOnce

\* However many requests of a browser take an attribute, on however many
\* nodes, and whatever commands are repeated, a value is taken at most as often
\* as it was put, unless five minutes or a repeated del took a taker's flag.
THEOREM TakenAtMostOnce == SessionSpec => []TakenOnce
BY SessionInvHolds, InitTaken, NextTaken, TakenIs, PTL DEF SessionSpec
=============================================================================
