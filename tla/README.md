# devplat: a verification project in TLA+

The repository is a family of Java web applications (`devplat-*`, package `org.cisiondata`), the libraries they share,
and the pages of a portal and of its administration. This directory holds TLA+ models of the parts with shared state,
TLC configurations that check them on small instances, and theorems about them that TLAPS checks for every value of
the constants. Paths below are relative to the repository; `AUTH` is
`devplat-auth/src/main/java/org/cisiondata/modules/auth`, `SHIRO` the same below `devplat-auth-shiro`, `REDIS` is
`devplat-redis/src/main/java/org/cisiondata`, `COMMON` is `devplat-common/src/main/java/org/cisiondata/utils`,
`PORTAL` is `devplat-0.0.1/src/main/webapp/WEB-INF/js/modules` and `ADMIN` the same below `devplat-admin-0.0.1`.

Contents: [1 Inventory](#1-inventory), [2 Modules](#2-modules), [3 Runs](#3-runs), [4 Fairness](#4-fairness), [5
Proofs](#5-proofs), [6 What the work showed](#6-what-the-work-showed), [7 Plan](#7-plan), [8 What is left
out](#8-what-is-left-out).

## 1 Inventory

Applications run as several JVMs behind a load balancer. They share a database and a Redis cluster, and nothing else;
within a JVM, servlet container threads, scheduler threads and message listeners share singleton beans. The
components, and what makes each of them hard:

**Distributed lock** (`REDIS/utils/redis/DistributedLock.java`, `DLock.java`, `DLockInterceptor.java`). State: one
Redis key per lock whose value is its expiry time, and the field `locked` of each lock object. Operations: `lock()`
(SETNX; GET; if the value is past, GETSET and compare), `unlock()` (DEL if `locked`), and a proxy that puts both
around methods annotated `@DLock`. It talks to Redis through `RedisClusterUtils`, which logs every exception and
returns 0 or null. Hard: four commands with other JVMs between any two, clocks that differ, owners that die or outlive
their lease, commands that were executed although the call threw. Correct when: at most one owner while everybody
keeps its time; a key never outlives a lease; an invocation ends and leaves no lock; the method runs exclusively.

**JDBC connection pool** (`COMMON/jdbc/ConnectionPool.java`, `WrapperConnection.java`). State: a Vector of wrappers,
each a connection and a busy flag; `maxConnections`. Operations: create, get, return, refresh, close. All but
`returnConnection` are synchronized, and `getConnection` sleeps with the monitor held. Hard: the unsynchronized return
against everything else, replacing broken connections, limits learnt late, the Vector changed while it is enumerated.
Correct when: no connection is with two threads, the limit holds, no connection is lost to the pool, a waiting thread
is served, close closes.

**Request handling and charging** (`AUTH/web/handler/UrlHandlerAdapter.java`,
`AUTH/service/impl/{Charging,ResultMQ,SensitiveWord}ServiceImpl.java`). State: an account's balance in the database,
the message queue, the list of `IRequestService` beans in whatever order the context lists them. Operations:
`handle()`: every `preHandle`, the controller, every `postHandle`, the answer. Hard: the balance is read and
overwritten in separate statements, concurrently with other requests and with the operators; each service may refuse
or fail when others have acted, and `handle()` does not look at what a `postHandle` answers. Correct when: no money is
made or lost, debts are bounded, what is delivered is logged.

**Access charging** (`SHIRO/service/impl/{CountCharging,MoneyCharging,AccessUser}ServiceImpl.java`, its mapper and
`UrlHandlerAdapter`). State: a count and a balance per account. Operations: an aspect around a query that takes the
rows from the count, and one that has the database subtract a price. Hard: the check precedes the query, the charge
follows it. Correct when: the count stays a count, a debt is bounded, a price is taken once and in full.

**Redis message queue** (`REDIS/modules/queue`: `RedisMQServiceImpl`, `RedisMQListener`, `ConsumerServiceImpl`).
State: a Redis list per routing key, a HashSet of keys per JVM. Operations: `sendMessage` (note the key, rpush), and a
listener that every two seconds reads each known list's length, pops as many messages and gives each to every consumer
bean. Hard: several nodes poll one list; senders change the set the listener walks; consumers throw; replies are lost,
commands are repeated by the client library; nodes restart and forget their keys. Correct when: nothing disappears
unnoticed, is handled more than once per push, or overtakes; everything is handled in the end.

**Redis sessions** (`AUTH/web/session`). State: a cookie in the browser; in Redis a hash of attributes per session id
with a time to live, and a flag per attribute that is read once. Operations: get a session, set and remove an
attribute (twice hset and expire), `getAttributeAndRemove` (GETSET of the flag, hget, hdel, del), `invalidate`. Hard:
requests of one browser are handled at the same time, on several nodes, and any of them may die between two commands;
any command may be repeated by the client library after it was executed. Correct when: a value is taken no more often
than it was stored; what a session leaves behind goes away.

**Query forms of the portal** (`PORTAL/lemon/LM*.js`, `qq`, `mobile`, `phoneuser`, `user/userIdCard.js`). State: the
mask `#background`, the button, the result area, the requests on their way. Operations: press, and the success or
error callback. Hard: the mask keeps the mouse from the button and not the keyboard; an answer can come late, in the
form of a failure, or without the data the callback reads, and then it throws before it lowers the mask. Correct when:
what is shown is the answer to the last query, and the page can be used again.

**Portal search** (`PORTAL/index/index.js`): a query of two services and one Next button for both; `scrollId`,
`searchToken` and the counts outlive the query. **Label search** (`PORTAL/appsearch/appsearch.js`): two requests per
submit that share three flags, and a label whose rows are read by page. Hard in both: answers in any order, a new
query while they are on their way. Correct when: the rows are of the query and label chosen last, Next is offered
while rows are left and continues them, "nothing found" is said only of nothing.

**Paged tables** (`PORTAL/log/log.js`; `ADMIN`: `admin/auser.js`, `admin/link/link.js`, three of
`admin/datainterface`, `sensitive/sensitive.js`): eight tables that count their page in a button or keep the number of
the last answer. **Dialogs of the administration** (`ADMIN`: `group.js`, `Roles.js`, `link.js`, `sensitive.js`,
`auser.js`, `resourceTree.js`): nine dialogs filled by a request. Hard: no button is disabled while a request is on
its way, and a dialog can be closed and opened for another row before it is filled. Correct when: Next follows what is
shown; what is saved under a row was loaded for it.

**JDBC statement helper** (`COMMON/jdbc/JDBCUtils.java`). Uses the pool; returns a connection before it closes the
statement. Correct when: a connection's next user does not share it with an open statement.

**Authentication, tokens, permission caches** (`AUTH/service/impl/{Auth,User,Resource}ServiceImpl.java`,
`AUTH/web/filter/UserAccessFilter.java`). Users and permissions read cache-aside; one token per account. Correct when:
a changed password is effective, a second login ends the first.

**User attribute store** (`AUTH/dao/UserIntegrationDAO.java`): users and attributes in separate rows.

**RabbitMQ listener** (`devplat-rabbitmq/.../ReceiveConfirmListener.java`): acknowledges, then handles.

**Quartz scheduling service** (`devplat-quartz/.../QuartzServiceImpl.java`): check, then schedule.

**Dynamic data source** (`devplat-spring/.../utils/ds`): a thread-local set and cleared by an aspect.

**WebSocket push** (`devplat-im/.../MessagePushHandler.java`): a static map of sessions, changed by container threads;
the callback of a new connection drains the push queue.

**Online sessions** (`SHIRO/session`): a cached session and a database copy written at intervals.

**Captcha** (`AUTH/web/jcaptcha`): a store of challenges.

The rest has no protocol of its own: generic DAO and MyBatis plugins, search clients (Elasticsearch 1, 2 and 5), Titan
graph storage (mostly third-party classes with changes), Kafka, MongoDB, Dubbo, Swagger and Cloud configuration,
utilities (files, Excel, dates, HTTP), near-duplicates of components above (`devplat-auth-shiro-proguard`,
`devplat-redis-utils`), and the pages of charts, maps and statistics.

`PROJECT.json` lists the components with their files, and under `hazards` what can go wrong, at its line.

## 2 Modules

Every module keeps the code's control (each guard, early return, error path and their order) and has one action per
step that another process can observe or interrupt: a Redis command, a database statement, a stretch of code under a
monitor. Payloads, SQL, JSON, logging and wording are abstracted. Definitions marked `Mutant:` are deliberate
mistakes, used to see that a property can fail; no specification refers to them.

| module | what it is | code |
|---|---|---|
| `LeaseLock` | abstract: at most one owner until somebody is late | |
| `DistributedLock` | one lock key, its clients, real time | `DistributedLock.java`, `RedisClusterUtils.java` |
| `DLockInterceptor` | extends it with the proxy of each thread | `DLockInterceptor.java` |
| `ConnectionLoans` | abstract: a connection is lent to one, until returned | |
| `ConnectionPool` | the pool, its monitor, its users | `ConnectionPool.java` |
| `RequestCharging` | requests of one account through `handle()` | `UrlHandlerAdapter.java`, three services |
| `PrepaidAccount` | abstract: a price is taken at once, once | |
| `AccessCharging` | count and money of one account | `devplat-auth-shiro` services |
| `RedisQueue` | lists, nodes, senders, listeners | `REDIS/modules/queue` |
| `RedisSessions` | the sessions of one browser | `AUTH/web/session` |
| `Browser` | the mask, and who gets past it | |
| `QueryForms` | 56 forms, each a record of what its handlers do | `PORTAL/{lemon,qq,mobile,phoneuser,user}` |
| `PortalSearch` | one query of two services | `index.js` |
| `LabelSearch` | two requests, three flags, rows by page | `appsearch.js` |
| `PagedTables` | eight tables and their four buttons | `log.js` and six of `ADMIN` |
| `AdminDialogs` | nine dialogs that a request fills | six of `ADMIN` |
| `FrontEnd` | composes the five: a tab has one page open | |
| `*_proofs` | the theorems of the module they extend | |
| other `MC*` | constant values and symmetry for TLC | |

**DistributedLock.** `now` is real time in milliseconds, `key` the value in Redis (`NoTime` is nil). A client's `pc`
follows `lock()`: `loop` (the while), `setnx`, `get`, `check` (the comparison with the clock, made together with the
GETSET that follows: time only passes, so a value that was past when compared is past when the command is executed),
`sleep`, `returned`. `stamp` is the clock reading that `expireTime` was made from, `timeout` and `lockTime` are the
locals, `locked` the field. A client's clock reading is any value within `Skew` of `now`. `SetnxThrows`, `GetThrows`,
`GetSetThrows` and `UnlockThrows` are the swallowed exceptions, with and without effect at the server. `Interrupted`
is the `InterruptedException`; `Crash` is the end of a JVM. A pass of the loop that takes longer than `AttemptMax`
after its clock reading, or an owner that has not unlocked `HoldMax` after its own, sets `late`: what the lock
promises, it promises while nobody is late. Not modelled: a command that is executed only after its call has thrown.

**DLockInterceptor** adds `invocation` per thread and reuses the lock's actions. It has the condition as the code has
it (`if (!locked) return method.invoke(...)`).

**ConnectionPool.** `pool` is the Vector or null, `conn` and `busy` the fields of each wrapper, `status` each
connection's state at the server, `monitor` the thread inside a synchronized method. `pc` of a thread is where it is
in get (`find`, `grow`, `refind`, `wait`, `test`), use (`using`), return (`match`, `clear`), refresh, close or create.
What a thread does with the monitor in hand is split only where `returnConnection`, which takes none, could see or
change something; the return's own Enumeration goes one element at a time (`MatchPasses`, `MatchFound`, `MatchNone`),
while the Vector may grow or shrink under it. New connections and wrappers are the next unused model values: which one
is of no consequence. `Break` is the database dropping a connection. `stolen` records that a refresh or close took a
connection that was busy, which both do after a wait of five seconds. As `ConnectionLoans`, a connection is lent while
a thread holds it (`held`) and closed when its `status` is; refresh, close and create are its maintenance.

**RequestCharging.** `services` is the list of beans in any order; `step` the index of a request in it; `pc` its stage
in `handle()`. `got` is the balance that `postHandle` read and will write back less the cost. `Charging` type, price
list and the comparison of `Integer` objects (`SameInteger`) are as the code has them. The controller is any member of
`Results`. `stale`, `raced`, `charged`, `credited` are history: what changed the balance between a request's read and
its write, and the ledger.

**AccessCharging.** `pc` of a worker is where it is in the count service (`counting`) or the money service
(`querying`, `charging`, `writing`); `got` and `cost` are locals. The abstraction function to `PrepaidAccount` reads
its stages from `pc`.

**RedisQueue.** `queue` are the lists, `routingKeys` the HashSets; `sender`, `noting` and `pushed` the progress of
each `sendMessage`; `pc`, `seen`, `todo`, `key`, `left`, `hand`, `turn` the listener's loops. The HashSet's iterator
may or may not notice a change (`NextKey`, `Modified`), and of two unsynchronized adds one may fail. `PushAgain` and
`ReplyLost` are JedisCluster repeating a command whose reply did not come. `handled` is what each consumer bean of
each node was given, `log` what was pushed: both history.

**RedisSessions** follows one attribute of the sessions of one browser. `cookie`, `ids`, `hash`, `expiry` and `flag`
are what the browser and Redis keep; the age of a flag is `fresh` (less than five minutes) or `stale`. `at` is where a
request is, between two Redis commands; `sent`, `sessionId` and `value` are its own. JedisCluster sends a command
again if its reply was lost: Redis has executed it, the call stays where it is, and others come in between
(`AskedAgain`; for the DEL of the flag the place `unflagAgain`, at which the flag may be another taker's). `puts`,
`repeats`, `taken`, `bared` (a taker's flag was taken from it, by five minutes or by such a DEL) and `died` are
history. `invalidate` leaves the hash, as the code does (section 6). Left out: the request's own copy of an attribute
that `getAttribute` reads, and the key that says an id exists, which only `existsSessionId` reads, and nobody calls
that.

**Browser, QueryForms.** The forms differ in whether a press wipes the area, checks its fields, masks, disables; and
in what the callback does of each of four kinds of answer (data; another code; code 1 without what the code reads; an
error): wipe, write on the area or on the table in it, unmask, enable. Each form is a record of these, translated from
its handler; the actions are the same for all. `Eager` handlers read the data of a failure, which has none, before
they look at the code, and throw; `Unsaid` ones put "not found" in one variable and append another, which is
undefined. Handlers whose button no page has (`lemonSubmit7`) and the look of the QQ page into a group (`searchQQA`)
are left out. `said`, `overlap` and `spoilt` are history: what the last query was answered, how queries came to
overlap, and whether something happened that the code does not get over.

**PortalSearch, LabelSearch.** The services are external: `scrollId` and `searchToken` name the page that a request
for them yields, and `Hits`, `FullDatada` and `FullLabels` say how many there are. The size of a page and the total
are compared as the code compares them (`MoreRows`). A request is told from another by `no`, the press it is of.
`mixed`, `missed`, `stuck`, `appMixed` and `appStuck` are history.

**PagedTables.** `Tables` says where each keeps its page, how it compares it with the last one (as number, as text, or
for equality) and whether answers are appended. The bounds of `PageCount` (1 to 99) are those within which
`TextAtLeast` is JavaScript's comparison of numerals. **AdminDialogs.** `Dialogs` says when each is shown and emptied,
what the second request is for, and what row the submit names: the one pressed last, the first one it was filled for,
or the one that was loaded (of `sensitive.js`, whose word is of the last press all the same: `last`); `filled` and
`ticked` are the rows whose data is in it.

**FrontEnd.** `site` is the kind of page that is open. The pages share the mask and the count of presses, and nothing
else: going to another page loads it anew.

## 3 Runs

Run one with `tlc -config <cfg> <module>`. All stop by themselves, without a depth limit.

| run | module, cfg | question |
|---|---|---|
| `interceptor` | `MCDLockInterceptor`, `DLockInterceptor` | exclusion, cover, expiry of the lock under its proxy; implements `LeaseLock`; an invocation ends |
| `interceptor_exclusion` | `MCDLockInterceptor`, `DLockInterceptor_exclusion` | are annotated methods exclusive? **No** |
| `pool` | `ConnectionPool`, `ConnectionPool_safety` | implements `ConnectionLoans`; limit, busy flags; a waiter obtains |
| `pool_close` | `ConnectionPool`, `ConnectionPool_close` | does close close every connection? **No** |
| `pool_refresh` | `ConnectionPool`, `ConnectionPool_refresh` | is a connection in use ever given twice? **Yes** |
| `charging` | `MCRequestCharging`, `RequestCharging_safety` | debt, exactness, fairness, logging |
| `charging_lost` | `MCRequestCharging`, `RequestCharging_lost` | are all charges kept? **No** |
| `access` | `MCAccessCharging`, `AccessCharging_safety` | count, debt; implements `PrepaidAccount` |
| `queue` | `MCRedisQueue`, `RedisQueue_safety` | nothing vanishes, is doubled or overtakes |
| `queue_liveness` | `MCRedisQueue`, `RedisQueue_liveness` | everything is handled |
| `sessions` | `MCRedisSessions`, `RedisSessions_safety` | a value is taken as often as it was stored at most; what is left expires |
| `frontend` | `MCFrontEnd`, `FrontEnd` | what is shown and saved was asked last; the page comes back |

What the properties say, and the bounds:

- **interceptor** (154 thousand states). Two threads, one redis call that throws. `Expire` = 3 with `AttemptMax` =
  `HoldMax` = `Skew` = 1 satisfies the assumption `LeaseMargin` with equality, so a value one smaller anywhere would
  break exclusion (the mutant `ExpireTimeShort` shows it). `MaxTime` = 4 lets a lease run out and be taken over.
  `MutualExclusion`, `OwnerIsCovered` and `LeaseSpec` hold while nobody is late; `KeyExpires` holds always and is what
  a crashed owner's rivals rely on. `InvocationEnds` needs `lock()` to give up and `finally` to run on each way out;
  `NothingOwnedOutside` relates the proxy to the lock. Two threads cannot show how a third, by losing its GETSET,
  shortens an owner's lease: the proofs cover that, for any number of threads and any lease.
- **pool** (275 thousand states). Three users, one of them also refreshing, closing and creating; at most three
  wrappers and three connections, which is enough for a broken connection to be replaced while another is returned and
  a third waits; the driver's limit (2) is below the configured one (3). `KeepsLoans` says what a user sees: the
  connection is nobody else's and not closed until it is returned. It does so for as long as refresh and close found
  every connection idle: both take a busy connection after a wait, on purpose. `BusyHasUser` says nothing while the
  pool is being closed: a close removes elements before the one a return is looking for, which the return then misses;
  the Vector is dropped when the close ends. It does hold over what refresh takes from others.
- **charging** (742 thousand states up to symmetry). Three requests: one that writes a stale balance, one whose write
  is undone, one that is refused after it was let in. One credit of an operator, two results with different costs.
  `OverdraftBounded` says that the second look at the balance bounds the debt by the cost of one result;
  `NeverOvercharged` that races among requests favour the account. Both are proved for any number of requests.
- **charging_lost**: two requests and no credit are enough.
- **access**. Three workers, counts and prices up to two, so that one worker's stale write spans two others' charges.
- **queue** (700 thousand states up to symmetry). Two nodes, two lists, two consumer beans, two messages of one key
  and one of another, one fault of any kind at any point. `HandledOnce` counts what a consumer was given on all nodes,
  what is in a hand and what is still in the list against the pushes; `HandledInOrder` is per node, as across nodes
  there is no order.
- **queue_liveness**. The queue with a message per key, no symmetry and one fault: the set of keys changes under the
  listener's iterator, and a run of the listener may die with the next key unvisited.
- **sessions** (870 thousand states up to symmetry). Two requests, each of which comes again and again, two ids, and a
  value; failures without a bound, any command repeated any number of times, but one store that is repeated
  (`MaxRepeats` = 1, as each is a put that is counted). `TakenOnce` speaks of the behaviours in which no taker has had
  its flag taken from it (`bared`): five minutes are the age at which the code gives the flag to another, and a DEL
  that is repeated takes the flag of whoever came in between. In both cases a value can be taken twice. `HashesExpire`
  excludes a hash whose setter died between hset and expire.
- **frontend** (110 thousand states). Three presses: one whose answer is late, one whose answer is not, one to see
  what they left. Two queries, of 5 and 4 rows at two to a page, so that the last page is full for one and not for the
  other; two labels, with and without a second page; lists of 2, 3 and 12 pages, the last of which is beyond one
  digit; two rows of a table. `LastAnswerShown`, `RowsAreOfQuery`, `RowsAreOfLabel`, `NextFollows` (for the tables
  that count) and `SavedIsOfRow` are stated for queries that did not overlap since the last that began alone. They are
  about what a page keeps from the queries *before*, and say nothing of answers that overtake one another: flags,
  tokens, counters, leftovers in an area or a dialog. `NothingOnlyOfNothing`, `OnlyKeysOverlap` and, for the tables
  that keep the last answer's number, `NextFollows` hold over any overlap.

Deadlock is checked in every run but `frontend`, where a page may stop: presses are bounded, and a mask that is up
with nothing on its way keeps every button from the mouse. In `RequestCharging` requests end (`Done`); all other
systems are reactive.

## 4 Fairness

- *DLockInterceptor*: weak fairness of each thread's step inside `invoke()`. The JVM schedules threads, `Thread.sleep`
  ends, and the annotated method is taken to end. Nothing is assumed of other threads, of Redis being free of faults,
  or of the lock being free.
- *ConnectionPool*: weak fairness, per thread, of its step inside `getConnection` or `returnConnection`; a user of a
  connection gives it back. Nobody has to call anything, and maintenance need not happen.
- *RedisQueue*: weak fairness of every listener (Spring's scheduler runs it every two seconds) and of the sender's own
  next statement. Faults need not stop for the property to hold: a message that a fault takes is named in it.

- *FrontEnd*: weak fairness of the answers on each kind of page: the browser calls one of the callbacks of each
  request, in the end. Nobody has to press a button. Under it `PageComesBack` says that the mask comes down and the
  button is enabled again, whatever the answers are and in whatever order they come, except for the ones named in it
  (`spoilt`, `stuck`, `appStuck`).

The other properties are safety properties of `Init /\ [][Next]_vars`.

## 5 Proofs

`tlapm <module>` checks them; there is nothing assumed but the modules' `ASSUME`s.

**`DistributedLock_proofs`** (any clients, lease, skew, faults; 599 obligations): `Typing`, `LockExcludes`,
`OwnerCovered`, `LeaseBounded`, `ImplementsLease`. Assumed: `TimesAreNaturals`, `NoTimeIsNoTime`, `SharesNest` (`Skew
<= AttemptMax <= HoldMax`) and `LeaseMargin` (`HoldMax + AttemptMax + 2 * Skew <= Expire + 1`), which is what the
lease must leave room for. Exclusion is not inductive. The invariant adds: `StampsArePast` (a live clock reading lies
in the past, give or take the skew), `Timely` (who is not late has not overstayed), `LockedReturned`, and the core,
`KeyCovers`: the value in Redis is at least an owner's own reading, less a skew and one pass of a rival, plus the
lease. A losing GETSET overwrites the owner's value by one that may be older, but only by as much as the loser's pass
may have lasted; with `LeaseMargin` that still covers the time the owner has, so nobody can see it expired
(`Covered`), so nobody can take it over (`AcquireAlone`). The same module then takes the proxy: `ProxyUsesLock` shows
that an invocation takes only the lock's own steps, so `ProxyKeepsLease` is the lock's exclusion and lease under the
proxy; `InvocationTyping`, `NothingIsLeftOwned`; and `MethodsAreUnlocked`, finding 1 for any number of threads: the
method never runs under the lock. The invariant says where `lock()` stands in each stage of an invocation.
`InvocationsDrawToTheirEnd` counts what is before a thread, the passes that its timeout still pays for and the stages
after them: the count is bounded, and each step of the thread, throwing or not, lowers it.

**`RequestCharging_proofs`** (any requests, price list, credits; 322 obligations): `Typing`, `DebtIsBounded`,
`BalanceIsExact`, `ChargesAreFair`, `DeliveryIsLogged`. The invariant says what a request at `write` carries: a
positive balance, which is the present one unless something was noted as having changed it since, and which is no less
than the ledger unless that something, or a write before, concerned a credit. From it a write keeps the debt below one
cost, is exact if nothing was noted, and errs in the account's favour. `DeliveryIsLogged` has its own: at index *i* of
the loop over the services, a message has been sent if `resultMQ` is among the first *i* - 1.

**`AccessCharging_proofs`** (any workers, amounts; 289 obligations): `Typing`, `CountStaysNatural`, `CountIsFair`,
`DebtIsBounded`, `ImplementsAccount`. The debt is bounded by the workers that are past the check: the invariant
subtracts one price for each that is *not*, and entering, leaving and charging move one worker between the two sets
(cardinality lemmas `JoinLeave`, `BoundSteps`).

**`ConnectionPool_proofs`** (any threads, wrappers, connections and sizes; 1905 obligations): `Typing`, `LimitHolds`,
`ConnectionsExclude`, `BusyIsUsed`, `WaitersAreServed`, `ImplementsLoans`. The invariant has five parts. `MonitorInv`:
the thread inside synchronized code is the one that holds the monitor, the Vector is there for it, and an index it
found in range before a sleep still is. `WrapperInv`: no connection is in two wrappers, and a wrapper that is pooled,
busy or in a thread's hands has one. `HeldIsOpened`: what a thread holds is a connection that was opened. `OwnerInv`,
while nothing is stolen: a thread between its search and its `setBusy(false)` has a busy wrapper that no other thread
has, with the connection it was given. `ReturnInv`, while nothing is being closed: the wrapper a return looks for is
not behind its Enumeration unless it has lost its connection to a refresh, and no wrapper is busy without a thread
whose return will find it. A return finds, by its connection, its own wrapper and no other (`ReturnFinds`), which is
why clearing the flag outside the monitor is harmless until a refresh changes the connection in between (run
`pool_refresh`). `WaitersAreServed`: whoever sleeps in `getConnection` waits for a free wrapper or for a thread that
needs no monitor. `ImplementsLoans` maps each step to one of `ConnectionLoans`; what it needs is that a connection is
closed only by a thread that holds it alone.

**`RedisQueue_proofs`** (any nodes, keys, messages, consumers, faults; 1867 obligations): `QueueTyping`,
`NoneVanishes`, `HandledAtMostOnce`, `HandledInTheirOrder`, `RunsComeToTheirEnd`, `WhatIsCountedIsPopped`. Assumed:
`KeysAreGiven` (there is a consumer, and each has a key), `NodesAreCounted` (finitely many), `NoneIsNothing`.
`QueueInv` says what a listener holds and that a list holds messages of its key. `Accounted`: a message that was
pushed is in its list, in a hand before the consumer's turn, given to the consumer, or lost to a noted fault.
`OnceInv`: pushes are at least the places in the list, the hands and what was given, which are counted as
cardinalities of finite sets of places; each step moves one place from one set to another. `OrderInv`: the list is the
rest of the log (`Rests`); what was given came out of the part that is gone (`GivenTaken`); what is in a hand comes
after all of it (`HandNext`); so what a node was given is ordered as the log is (`Ordered`). The last two are what
serving a key rests on: keys, pops and consumers that a run has before it only become fewer, and a message within the
length it read stays within it, whoever else pops, until it is popped.

**`RedisSessions_proofs`** (any requests, ids, values and repeats; 436 obligations): `SessionTyping`, `HashesGoAway`,
`TakenAtMostOnce`. `TakenOnce` relates counts of puts to counts of takes, and needs all of `TakenInv`: a value is in
one session (`OneHome`); while no taker has lost its flag (`bared`), one request of each session is between GETSET and
the end of the removal, under a fresh flag (`OneTaker`); so the values in the hash, in that request's hands, and taken
are no more than were put (`Accounted`).

**`QueryForms_proofs`** (any number of presses; 634 obligations): `FormTyping`, `MouseDoesNotOverlap`,
`AnswerIsOfLastPress`, `FormsWait`. The 56 forms are first shown to have one of a few shapes. `OneWaits`: while no key
was used, a request that waits has the mask up or the button disabled. `NoOlder`: the area holds nothing older than
the last press once that has been answered. `FormAlive`, for `FormsWait`: while the mask is up or the button disabled
a request is on its way, so that the last answer lifts both, or something is noted that no callback gets over.

**`FrontEnd_proofs`** (any queries, labels, lists, rows, sizes and presses; 1669 obligations): per page an invariant
and its properties: `LabelRowsHold` and `NothingHolds` from `LabelInv` (what the three flags say of the two requests
of a submit); `QueryRowsHold` and `NextIsOffered` from `PortalInv` (what the tokens and the counts know, and that one
request to elasticsearch waits at most); `NextFollowsRows` from `TableInv` (`InCalm` for the tables that count,
`InAnyOrder` for the others); `SavedHolds` from `DialogInv`. `TabIsItsPage` is the composition: a tab that has one
kind of page open satisfies that page's own specification, so these hold of the tab. `FrontTyping` is its type
invariant, and `NoPageIsDead` the tab's `FormsWait`: on each kind of page, what keeps the user out waits for an
answer.

Several of the pages' properties have premises, in which the history variables of the model stand for what the code
does not do: `Settled` (nothing of elasticsearch under way, not `mixed`, not `missed`), `appMixed`, `astray` and the
text comparison, `hasty`, `overlap`. The hazards in `PROJECT.json` say for each what it therefore does not cover.

Every invariant and refinement that a run checks is proved. Only model-checked is liveness: `InvocationEnds`,
`WaiterObtains`, `EveryMessageHandled` and `PageComesBack`, which are out of the prover's reach together with ENABLED.
Their safety halves are proved, for every value of the constants: what is left of an invocation or of a run becomes
less with every step (`InvocationsDrawToTheirEnd`, `RunsComeToTheirEnd`), what it has to serve is not passed over
(`WhatIsCountedIsPopped`), and whoever waits, waits for somebody who can go on (`WaitersAreServed`, `NoPageIsDead`).
What TLC adds is that fairness then takes the system there.

## 6 What the work showed

Four runs end in a counterexample; each is a finding with the line it contradicts.

1. `DLockInterceptor.java:21` has its condition the wrong way round: the annotated method runs when the lock was *not*
   acquired.
2. `ConnectionPool.java:349` removes from the Vector it enumerates: close leaves every other connection open.
3. `ConnectionPool.java:307` clears a flag without the monitor: a refresh in between leads to one connection in two
   threads.
4. `ChargingServiceImpl.java:130` overwrites a balance it read before: of two requests at a time one charge is lost.

Met while reading, and in the models, but too direct to need a run or with no line that promises otherwise:
`UrlHandlerAdapter.java:145` ignores the answer of `postHandle`, so that a request it refuses is answered with its
result, unpaid; `parseResultPrice` (`ChargingServiceImpl.java:280`) compares `Integer` objects by identity, so codes
above 127 are free; `findFreeConnection` hands out the connection it has just found dead and closed if a replacement
cannot be made (`ConnectionPool.java:260`; the comment at line 256 says it returns null); consumers are handed null
when another node has emptied the list (`RedisMQListener.java:26`).

*Sessions.* `RedisClusterUtils.delete(Object)` serializes the `byte[]` name it is handed, so
`RedisStorageHandler.invalidate` (line 61) deletes no hash: an invalidated session keeps its attributes for a day.
`Session.setAttribute` has the value stored twice, so a request that takes it in between leaves it there to be taken
again. A taker that is refused has put the flag's time forward: a flag that a dead taker left keeps blocking while
somebody asks more often than every five minutes. A DEL of the flag that the client repeats
(`RedisStorageHandler.java:99`) removes the flag of a taker that came in between, and a third then takes the same
value. `getAttributeAndRemove` and `invalidate` have no callers yet.

*Pages.* An answer of code 1 without data makes most callbacks throw before they lower the mask; `LMall.js:1175` and
`:1727` throw on a failure too. Of what they do not find `LMall.js:1703`, `:1738` and `:1772` show nothing, and
`LMTwice.js:158` nothing of what it finds. `index.js:52`: Next on the last page asks nothing and leaves the mask up;
tokens and totals are those of the query before until the new one is answered. `appsearch.js:90`: the first answer
with labels lowers the mask while the other request is on its way, and an empty query leaves it up. `LMTwice.js` is
loaded twice by `wlPhone.jsp`, without a mask: two requests per press. `link.js:71`, `accessControl.js:80`,
`accessInterface.js:26` and `sensitive.js` compare page numbers as text, so Next stops at page 2 of ten. `log.js` and
`auser.js` do not reset the page for a new list (`log.js:155`). `auser.js:405` appends a late answer to the next
one's. `Roles.js:196` asks for the ticks of the role pressed last, which may be another than the one whose users came;
`resourceTree.js:68` saves what is ticked, nothing, if that is pressed before the second answer. `qqQuery.js:70`: Next
with another radio button chosen leaves the mask up. These are in the models as the code has them, and delimit what
the properties promise.

*In what is not modelled.* `updateUserPassword` writes an empty object (`UserServiceImpl.java:59`);
`accessControl.js:181` leaves its submit enabled while the change is on its way, so that a second press changes the
count twice; `statisticsQuery.js` (portal, `.updataBtn`) binds a handler to the dialog's submit for each row that is
edited, and never unbinds one.

And what holds is worth as much: the lock's GETSET race, which looks suspicious because the loser writes too, is sound
within `LeaseMargin`; the balance's debt is bounded however many requests race; the queue doubles nothing that was
pushed once; the flags of the label search, three shared by two callbacks without a count, are right in every order of
answers.

## 7 Plan

Done: the lock and its proxy, the pool, both ways of charging, the Redis queue and sessions, and the pages with
requests that can overtake each other; proofs for all of them. What could follow, with the hazard each is about:

1. `JDBCUtils` over `ConnectionPool`: statements closed after their connection was returned (`JDBCUtils.java:95`); a
   connection opened and lost when its metadata fail (`ConnectionPool.java:192`).
2. `UserCache`: cache-aside reads of users against changes of the password (`UserServiceImpl.java:80`), the token of
   an account against two logins (`AuthServiceImpl.java:88`).
3. `ConfirmListener`: acknowledgement before handling, and the nack after it (`ReceiveConfirmListener.java:30`);
   abstract: delivery at most once.
4. `UserIntegrationDAO` (`:28`, users and attributes written one statement at a time), the Quartz service
   (`QuartzServiceImpl.java:52`, check then schedule), the dynamic data source (`DynamicDataSourceAspect.java:37`,
   nested calls), the push queue (`MessagePushHandler.java:56`, a map read while it is changed).

## 8 What is left out

- *Time* other than in the lock: the queue's two seconds, the pool's 250 ms and five seconds only order steps.
- *Commands after exceptions*: a Redis command is executed, if at all, before its call throws.
- *Redis itself*: lists, keys and scripts are linearizable; failover losing acknowledged writes is not modelled.
- *More than one lock, account or pool*: they share no state, so one of each is the general case.
- *The count service's and the money service's access-key lookup and caches*, and the generic update of both fields,
  which nothing calls.
- *The pages' wording and layout*, the services behind them, and pages that ask once and draw (charts, maps, force
  graphs). The forms of `multi.js`, `phoneidcard.js`, `datada.js` and the statistics have inputs or a second result
  area of their own and would each be a variant of `QueryForms` or `PortalSearch`.
- *Libraries kept in the repository* (jQuery, Bootstrap, file input, date picker, validation): three quarters of its
  JavaScript. What the pages use of them, `ajax` and the mask, is modelled as the pages see it.
- *Pure I/O and library configuration*, as said at the end of the inventory; near-duplicates of modelled classes.
