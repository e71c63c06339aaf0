---------------------------- MODULE RedisSessions ----------------------------
(***************************************************************************)
(* The sessions of devplat-auth.  SessionManager.getSession takes the id   *)
(* from the cookie of a request or makes one; Session and                  *)
(* RedisStorageHandler keep under that id a hash of attributes that        *)
(* expires a day after it was last set, and for each attribute the flag    *)
(* that getAttributeAndRemove takes with GETSET.  The key that says that   *)
(* an id exists is not here: nobody but existsSessionId, which nobody      *)
(* calls, asks for it.                                                     *)
(* JedisCluster sends a command again if its reply was lost: the call      *)
(* stays where it is, and others may come between the two.                 *)
(* The model follows one attribute of the sessions of one browser, whose   *)
(* requests are handled at the same time, on one node or on several.       *)
(***************************************************************************)
EXTENDS Naturals

CONSTANTS
  Requests,         \* those the browser makes, again and again
  SessionIds,       \* bound: the ids that createSessionId will make
  Values,           \* of the attribute; setAttribute is called once with each
  NoValue,          \* Java null
  MaxRepeats        \* bound: the stores whose reply is lost

ASSUME NoValueIsNothing == NoValue \notin Values \cup SessionIds
ASSUME RepeatsAreCounted == MaxRepeats \in Nat

VARIABLES
  cookie,           \* the session id in the browser, or NoValue
  ids,              \* those made so far
  hash,             \* the attribute in the hash of each id
  expiry,           \* the ids whose hash has a time to live
  flag,             \* of each id: none, from the last five minutes, or older
  at,               \* where each request is
  sent,             \* the cookie that came with it
  sessionId,        \* Session.id
  value,            \* the value it is storing or has read
  puts,             \* history: how often each value was put into a hash
  repeats,          \* history: the stores whose reply was lost
  taken,            \* history: how often each was read and removed
  bared,            \* history: the ids a taker of which lost its flag
  died              \* history: the ids that a setter left without an expiry

sessionVars == <<cookie, ids, hash, expiry, flag, at, sent, sessionId,
                 value, puts, repeats, taken, bared, died>>
history == <<puts, repeats, taken, bared, died>>

Flags == {"none", "fresh", "stale"}
Setting == {"store", "expire", "storeAgain", "expireAgain"}
SessionPlaces == Setting \cup {"out", "sent", "ready", "read", "remove",
                                "unflag", "unflagAgain"}

SessionTypeOK ==
  /\ cookie \in SessionIds \cup {NoValue}
  /\ ids \subseteq SessionIds
  /\ hash \in [SessionIds -> Values \cup {NoValue}]
  /\ expiry \subseteq {i \in ids : hash[i] # NoValue}
  /\ flag \in [SessionIds -> Flags]
  /\ at \in [Requests -> SessionPlaces]
  /\ sent \in [Requests -> SessionIds \cup {NoValue}]
  /\ sessionId \in [Requests -> ids \cup {NoValue}]
  /\ value \in [Requests -> Values \cup {NoValue}]
  /\ puts \in [Values -> 0..(2 + MaxRepeats)]
  /\ repeats \in 0..MaxRepeats
  /\ taken \in [Values -> Nat]
  /\ bared \subseteq ids
  /\ died \subseteq ids

SessionInit ==
  /\ cookie = NoValue
  /\ ids = {} /\ expiry = {}
  /\ hash = [i \in SessionIds |-> NoValue]
  /\ flag = [i \in SessionIds |-> "none"]
  /\ at = [r \in Requests |-> "out"]
  /\ sent = [r \in Requests |-> NoValue]
  /\ sessionId = [r \in Requests |-> NoValue]
  /\ value = [r \in Requests |-> NoValue]
  /\ puts = [v \in Values |-> 0]
  /\ taken = [v \in Values |-> 0]
  /\ repeats = 0
  /\ bared = {} /\ died = {}

MoveTo(r, where) == at' = [at EXCEPT ![r] = where]

\* A hash is gone with its last field, and its time to live with it.
PutIn(i, v) ==
  /\ hash' = [hash EXCEPT ![i] = v]
  /\ expiry' = IF v = NoValue THEN expiry \ {i} ELSE expiry
  /\ died' = IF v = NoValue THEN died \ {i} ELSE died

\* EXPIRE does nothing to a hash that is not there.
Lives(i) ==
  /\ expiry' = IF hash[i] = NoValue THEN expiry ELSE expiry \cup {i}
  /\ died' = died \ {i}

------------------------------------------------------------------------------
Send(r) ==
  /\ at[r] = "out"
  /\ MoveTo(r, "sent")
  /\ sent' = [sent EXCEPT ![r] = cookie]
  /\ UNCHANGED <<cookie, ids, hash, expiry, flag, sessionId, value, history>>

\* createSessionId() for r: a UUID that there was not before.
CreateSessionId(r) ==
  \E i \in SessionIds \ ids :
    /\ i = CHOOSE j \in SessionIds : j \notin ids
    /\ ids' = ids \cup {i}
    /\ sessionId' = [sessionId EXCEPT ![r] = i]

\* getSession(): the id of the cookie, invalidated since or not, or a new one.
GetSession(r) ==
  /\ at[r] = "sent"
  /\ IF sent[r] = NoValue
       THEN CreateSessionId(r)
       ELSE sessionId' = [sessionId EXCEPT ![r] = sent[r]] /\ UNCHANGED ids
  /\ MoveTo(r, "ready")
  /\ UNCHANGED <<cookie, hash, expiry, flag, sent, value, history>>

\* The response is sent, with a Set-Cookie if the id is not the one sent.
Respond(r) ==
  /\ at[r] = "ready"
  /\ cookie' = IF sessionId[r] = sent[r] THEN cookie ELSE sessionId[r]
  /\ MoveTo(r, "out")
  /\ sent' = [sent EXCEPT ![r] = NoValue]
  /\ sessionId' = [sessionId EXCEPT ![r] = NoValue]
  /\ UNCHANGED <<ids, hash, expiry, flag, value, history>>

------------------------------------------------------------------------------
\* Count a put of v, but not of null, which removes.
CountPut(v) ==
  puts' = IF v = NoValue THEN puts ELSE [puts EXCEPT ![v] = @ + 1]

\* The reply is lost: Redis has done what it was asked, and is asked again.
AskedAgain == UNCHANGED at

\* Session.setAttribute() begins.
SetAttribute(r, v) ==
  /\ at[r] = "ready"
  /\ v \in Values => puts[v] = 0 /\ \A q \in Requests : value[q] # v
  /\ value' = [value EXCEPT ![r] = v]
  /\ MoveTo(r, "store")
  /\ UNCHANGED <<cookie, ids, hash, expiry, flag, sent, sessionId, history>>

\* hset in the handler, or hdel if the value is null.
StoreValue(r) ==
  /\ PutIn(sessionId[r], value[r])
  /\ CountPut(value[r])
  /\ UNCHANGED <<cookie, ids, flag, sent, sessionId, value, taken, bared>>

RepeatStore ==
  /\ repeats < MaxRepeats
  /\ repeats' = repeats + 1
  /\ AskedAgain

\* Mutant: the second store begins over.
StoreOver(r) ==
  /\ at[r] \in {"store", "storeAgain"}
  /\ StoreValue(r)
  /\ \/ MoveTo(r, "expire") /\ UNCHANGED repeats
     \/ RepeatStore

\* Mutant: the second store leaves the time to live to the first.
StoreOnly(r) ==
  /\ at[r] \in {"store", "storeAgain"}
  /\ StoreValue(r)
  /\ \/ MoveTo(r, IF at[r] = "store" THEN "expire" ELSE "ready") /\ UNCHANGED repeats
     \/ RepeatStore

\* Session.setAttribute() has the handler store the value, and store it again.
Store(r) ==
  /\ at[r] \in {"store", "storeAgain"}
  /\ StoreValue(r)
  /\ \/ MoveTo(r, IF at[r] = "store" THEN "expire" ELSE "expireAgain") /\ UNCHANGED repeats
     \/ RepeatStore

\* And expire, after each.
Expire(r) ==
  /\ at[r] \in {"expire", "expireAgain"}
  /\ Lives(sessionId[r])
  /\ \/ at[r] = "expire" /\ MoveTo(r, "storeAgain") /\ UNCHANGED value
     \/ at[r] = "expireAgain" /\ MoveTo(r, "ready") /\ value' = [value EXCEPT ![r] = NoValue]
     \/ AskedAgain /\ UNCHANGED value
  /\ UNCHANGED <<cookie, ids, hash, flag, sent, sessionId, puts, repeats, taken, bared>>

RemoveAttribute(r) ==
  /\ at[r] = "ready"
  /\ PutIn(sessionId[r], NoValue)
  /\ UNCHANGED <<cookie, ids, flag, at, sent, sessionId, value, puts, repeats, taken, bared>>

\* invalidate(): the hash stays, because delete() serializes the name it is
\* given and there is no hash of that name; the request has a new id.
Invalidate(r) ==
  /\ at[r] = "ready"
  /\ CreateSessionId(r)
  /\ UNCHANGED <<cookie, hash, expiry, flag, at, sent, value, history>>

------------------------------------------------------------------------------
SetFlag(i, f) == flag' = [flag EXCEPT ![i] = f]

\* Mutant: the age of the flag is compared the other way round.
TakeFlagFresh(r) ==
  /\ at[r] = "ready"
  /\ SetFlag(sessionId[r], "fresh")
  /\ \/ flag[sessionId[r]] # "stale" /\ MoveTo(r, "read")
     \/ UNCHANGED at
  /\ UNCHANGED <<cookie, ids, hash, expiry, sent, sessionId, value, history>>

\* getAttributeAndRemove(): GETSET of the time.  Who gets one of the last
\* five minutes returns null, and has put the time forward: that may be the
\* taker itself, if JedisCluster repeats a GETSET whose reply was lost.
TakeFlag(r) ==
  /\ at[r] = "ready"
  /\ SetFlag(sessionId[r], "fresh")
  /\ \/ flag[sessionId[r]] # "fresh" /\ MoveTo(r, "read")
     \/ UNCHANGED at
  /\ UNCHANGED <<cookie, ids, hash, expiry, sent, sessionId, value, history>>

\* hget.
Read(r) ==
  /\ at[r] = "read"
  /\ value' = [value EXCEPT ![r] = hash[sessionId[r]]]
  /\ MoveTo(r, "remove")
  /\ UNCHANGED <<cookie, ids, hash, expiry, flag, sent, sessionId, history>>

\* hdel.  What it read is its own now, and it returns it, unless it dies.
RemoveRead(r) ==
  /\ at[r] = "remove"
  /\ PutIn(sessionId[r], NoValue)
  /\ \/ /\ MoveTo(r, "unflag")
        /\ taken' = IF value[r] = NoValue THEN taken ELSE [taken EXCEPT ![value[r]] = @ + 1]
     \/ AskedAgain /\ UNCHANGED taken
  /\ UNCHANGED <<cookie, ids, flag, sent, sessionId, value, puts, repeats, bared>>

\* Past its GETSET, and its flag there.
Taking(r, i) == at[r] \in {"read", "remove", "unflag"} /\ sessionId[r] = i

\* del of the flag, and the value is returned.  If the reply is lost another
\* may come to take before the del is repeated, and loses its flag.
Unflag(r) ==
  /\ at[r] \in {"unflag", "unflagAgain"}
  /\ SetFlag(sessionId[r], "none")
  /\ bared' = bared \cup {i \in {sessionId[r]} : \E q \in Requests \ {r} : Taking(q, i)}
  /\ \/ MoveTo(r, "ready") /\ value' = [value EXCEPT ![r] = NoValue]
     \/ MoveTo(r, "unflagAgain") /\ UNCHANGED value
  /\ UNCHANGED <<cookie, ids, hash, expiry, sent, sessionId, puts, repeats, taken, died>>

------------------------------------------------------------------------------
\* A call to Redis throws, or the node stops: there is no response.
Die(r) ==
  /\ at[r] # "out"
  /\ MoveTo(r, "out")
  /\ died' = died \cup {i \in {sessionId[r]} \ expiry : at[r] \in Setting /\ hash[i] # NoValue}
  /\ sent' = [sent EXCEPT ![r] = NoValue]
  /\ sessionId' = [sessionId EXCEPT ![r] = NoValue]
  /\ value' = [value EXCEPT ![r] = NoValue]
  /\ UNCHANGED <<cookie, ids, hash, expiry, flag, puts, repeats, taken, bared>>

HashExpires(i) ==
  /\ i \in expiry
  /\ PutIn(i, NoValue)
  /\ UNCHANGED <<cookie, ids, flag, at, sent, sessionId, value, puts, repeats, taken, bared>>

\* Five minutes go by without a GETSET, over the head of a taker or not.
FiveMinutes(i) ==
  /\ flag[i] = "fresh"
  /\ SetFlag(i, "stale")
  /\ bared' = bared \cup {j \in {i} : \E r \in Requests : Taking(r, j)}
  /\ UNCHANGED <<cookie, ids, hash, expiry, at, sent, sessionId, value,
                 puts, repeats, taken, died>>

SessionNext ==
  \/ \E r \in Requests :
       \/ Send(r) \/ GetSession(r) \/ Respond(r) \/ Die(r)
       \/ \E v \in Values \cup {NoValue} : SetAttribute(r, v)
       \/ Store(r) \/ Expire(r) \/ RemoveAttribute(r) \/ Invalidate(r)
       \/ TakeFlag(r) \/ Read(r) \/ RemoveRead(r) \/ Unflag(r)
  \/ \E i \in SessionIds : HashExpires(i) \/ FiveMinutes(i)

SessionSpec == SessionInit /\ [][SessionNext]_sessionVars

------------------------------------------------------------------------------
\* However many requests take an attribute, over removals, failed takers,
\* repeated commands and ids that go on after they were invalidated, none of
\* them gets a value more often than it was put there, unless a taker had its
\* flag taken from it: by the five minutes, or by the del that another repeats.
TakenOnce ==
  bared = {} => \A v \in Values : taken[v] <= puts[v]

\* What sessions leave goes away, invalidated ones too, which keep their
\* hash: a hash without a time to live has a request that will give it one,
\* though others remove and store between its steps, or had one that died.
HashesExpire ==
  \A i \in SessionIds : hash[i] # NoValue =>
    \/ i \in expiry \cup died
    \/ \E r \in Requests : at[r] \in Setting /\ sessionId[r] = i
==============================================================================
