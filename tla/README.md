# QuantFabric: specifications, model checking and proofs

QuantFabric is a trading platform: desktop clients send orders through a chain
of C++ processes to a counter (the ATP gateway of a broker) and get their
reports back the same way. This directory holds TLA+ specifications of the
parts that decide whether an order is placed, how often, and what is known of
it afterwards; the TLC configurations that check them on small instances; and
TLAPS proofs for every instance. Paths are relative to the repository.

## 1. Inventory of the system

    vn.py / XMonitor -> XServer -> XWatcher -> XTrader <=> XRiskJudge   (shared memory)
                                      ^            |
       XQuant strategies (shared memory) ----------+
                                                   v  JSON lines over TCP
                                             atp_bridge.py -> ATP SDK -> counter

| part | state it keeps | operations | talks to | what is hard | what makes it correct |
|---|---|---|---|---|---|
| Risk engine (`XRiskJudge/RiskEngine.cpp`) | snapshots of funds and positions, reservations with running totals, pending orders, cancel and flow counters, locks, limits, three SQLite tables, bounded response queue | order and cancel checks, reports, snapshots, commands, restart | XTrader by shared memory, XWatcher by TCP | reports late, twice and out of order; failed writes; one thread produces into and drains the same queue | totals are the sums of the live reservations; nothing is admitted beyond the snapshot; counters and locks survive |
| XTrader engine (`XTrader/TraderEngine.cpp`) | request, report and monitor queues, channel of each strategy | route requests to the check or the gateway, responses to the gateway, reports to risk, strategy and monitor | everything local | no order may bypass the check; queues that are full | only checked orders reach the counter |
| ATP gateway (`XTrader/TraderAPI/ATP`) | submitted tokens, last status of every order, status before a cancel | insert, cancel, failure of both, login and recovery | bridge by TCP | two threads without a lock; writes to a dead socket; reconnection | one order per token; an end is final |
| ATP bridge (`bridges/atp/atp_bridge.py`) | intent journal on disk, contexts of orders | order, cancel and query commands, callbacks, resynchronization | SDK of the counter | crash between journal, request and first callback; session loss | a token is sent once; reports keep their token |
| Shared memory (`SHMServer`) | channel table, two rings per channel | join, handshake, poll, heartbeat | XTrader, XRiskJudge, XQuant | slots claimed by two clients, resets under a live client, a client timed out for ever | each message once and in order, answers reach the asker |
| XServer (`XServer/ServerEngine.cpp`, `HPPackServer.cpp`, `RuntimePolicy.cpp`) | connections and their logins, subscriptions, order references, snapshot file, the published policy | login, admission of orders and cancels, fan-out of reports, replay of the history, refresh of the policy | XWatcher, AuthAdminService, BusinessAdminService | connections that change while the service is asked, a replay that reorders the queue, failed or partial refresh | nothing passes without a login and a right of its own; only live orders can be cancelled |
| XWatcher | connections, process list | route by Colo and account, start and kill processes | XServer, local processes | connections change while iterated | each request to one trader |
| BusinessAdminService | versions of the business configuration and their rows | create, edit, validate, publish | database, XServer | concurrent READ COMMITTED transactions | a published version never changes, at most one is published |
| AuthAdminService | identities, sessions, grants (rules in memory, their stored copy, the administrators' table) | login, grant, revoke, authorize | database, XServer | a change in three transactions, by threads at once, and a restart between them | list, decisions and stored rules agree |
| XQuant, KLineGenerator | open bar per interval | ticks in, bars out, timer | market rings, strategies | ticks and timer go by two clocks, ends of windows and sections | every trade in one bar, windows in order |
| Utils queues | rings | push, pop | all | wrap-around, many producers | first in, first out, nothing twice |
| Others | see "Not modelled" | | | | |

## 2. Modules

| module | models | proved in |
|---|---|---|
| `CapacityLedger` | abstract: what the capacity check promises, without running totals | - |
| `RiskEngine` | every handler of the work thread of XRiskJudge, with its tables | `RiskEngineProofs` |
| `BridgeLink` | the TCP connection of gateway and bridge: lines in flight, breaks, greeting | - |
| `ATPGateWay` | both threads of the gateway in XTrader | - |
| `ATPBridge` | the bridge process, its journal, the session, and the counter as seen through the SDK | - |
| `OrderLoop` | the work thread of XTrader composed with gateway, bridge and the face of the risk engine | `OrderLoopProofs` |
| `BoundedFifo` | abstract: a queue of bounded length, first in, first out | - |
| `SPSCQueue` | the ring of every shared-memory channel, load by load and copy by copy | `SPSCQueueProofs` |
| `BusinessConfig` | the requests of BusinessAdminService on the versions of the configuration | - |
| `PublishedPolicy` | `BusinessConfig` with the policy refresh of XServer | `PublishedPolicyProofs` |
| `ShmChannel` | the channel table over the rings: starts, login, heartbeats, requests and answers, restarts of both ends | `ShmChannelProofs` |
| `AuthService` | the decisions of AuthAdminService and the requests that change them | `AuthServiceProofs` |
| `ServerEngine` | both threads of XServer composed with `AuthService` | `ServerEngineProofs` |
| `Bars` | the bars of a ticker in XQuant, the timer and the loop | `BarsProofs` |
| `MCRiskEngine`, `MCOrderLoop`, `MCSPSCQueue`, `MCPublishedPolicy`, `MCShmChannel`, `MCServerEngine`, `MCBars` | instances for TLC | - |

### RiskEngine

One iteration of `WorkThreadFunc` is three steps (`turn`): `PollRequest`,
`HandleResponse`, `PollCommand`. A request handler is one step: all its checks
in the order of `Check`, the reservation, and the push of the answers
(`Respond`), because no other thread of the process touches this state. The
environment is open: any message of the constant sets may arrive at any time.
`m_AccountFlowLimitedMap` is `flow` with `windowOpen` for its one-second window
(`WindowExpires`); `m_OrderReservationMap`, the two reserved totals, the two
pending maps and the counters carry the names of the code. The three SQLite
tables are `db...` variables; `DBResults` says whether a write may fail.
`Restart` reads them back as `LoadConfig` does. A full `m_RiskResponseQueue` in
`while(!Push(msg))` sets `blocked`, which nothing resets: the only consumer is
the spinning thread.

Abstractions: prices and volumes are naturals, so the 1e-8 tolerance of
`AccountCapacity` has no counterpart; one RiskID owns the database; reads of
SQLite succeed; texts are left out except where the code searches them
(`NameWithin`: which account names occur in the SQL of a DELETE). Assumed of the
environment and named in the module: a token belongs to orders of one ticker, a
reference to one order (`TokenTickerAssumption`, `RefTickerAssumption`).

### BridgeLink, ATPGateWay, ATPBridge, OrderLoop

`socket` is `"none"`, `"open"` or `"dead"`: after the peer is gone, writes still
succeed until `recv` returns, and what was in flight arrives up to some prefix.
The gateway's two threads are interleaved at every access of `m_OrderStatusMap`,
push and `SendLine` (`thread`: `mark`, `store`, `publish`); `undefined` is the
state after `ReqCancelOrder` dereferenced `end()`, and only a restart leaves it.
The bridge writes its journal in the step that reserves the token (fsync), and
asks the counter in the next, under a `client_seq_id` of its own (`Fresh`), which
every start of the bridge counts from 1 again; a callback is matched by that
number first and by the reference second (`ContextToken`), and the first that
matches binds the reference. Callbacks are lost while the session is down, and
with the session up a query or a recovery may still fail, once and for good
(`BridgeQueryFails`, `ResyncFails`; `missed` is history of it). The counter is
external: how its orders move (`Moves`, `CancelMoves`), that it knows every order
it accepted and that query rows carry no `client_seq_id` is taken from how the
bridge and its test use it.
The risk engine appears as the set of tokens it holds (`held`) and the answers
it may give; `joined` is `IsConnected` of the shared-memory channel, lost for
good when XRiskJudge restarts or times XTrader out. Whoever joins resets the
rings: of what lay between the two processes, the part either of them had not
yet put in a ring, or had already taken out of one, survives (`Prefixes`,
`Suffixes`).

Abstractions: one account; volumes, prices, funds and positions left out; the
queues are unbounded; the work thread may take from any of its queues next,
where the code drains them in turn (more behaviours, none fewer); the commands
that an old connection had delivered run before those of a new one, where the
bridge has a thread for each connection.

### BoundedFifo, SPSCQueue

`Push` and `Pop` are three steps each: the load of the other end's index with
its early return, the `memcpy`, the store of the own index. The load may return
any index the other end stored since the last one returned (`Loads`), which is
what acquire and release allow; the store makes the copy visible. During the
copy into a slot its content is `Torn`. The contents of the ring are the slots
between the two indices, and they implement `BoundedFifo` with the stores as
the points where a push and a pop take effect. `Reset` is the initial state
only: a reset under a live peer is in `ShmChannel`.

### BusinessConfig, PublishedPolicy

A request of the service is a transaction of PostgreSQL under READ COMMITTED.
It is cut where it reads: `CreateReads`, `EditReads`, `ValidateReads`,
`ValidateChecks`, `PublishReads` and `PublishChecks` keep in `request` what they
saw, and `...Commits` writes from it. Writing and committing are one step:
changed rows are flushed together at the end, nobody sees them before, and
another UPDATE of the same row waits for the commit. SQLAlchemy keeps the value
of an attribute read once and sends an UPDATE only for one that changed in the
session; so an edit, which assigns `"DRAFT"` to a draft, writes no status
(`EditCommits`), and a late validation writes `"VALIDATED"` over whatever is
there (`ValidateCommits`). UPDATEs are sent by ascending id and the partial
unique index is checked at each: `Conflict` says which sets of UPDATEs fail. A
consequence is that a draft older than the published version can not be
published; one has to copy it.

`PublishedPolicy` adds the fetch of XServer: the version is read
(`FetchReads`), its rows arrive later (`FetchReturns`) or not (`FetchFails`).

Abstractions: the rows of a version are one token of `Contents`, read at one
moment; `Valid` are those without an ERROR of `validation_issues`, `Parsable`
those `RuntimePolicy::Parse` accepts, and neither contains the other. The schema
is the one of the PostgreSQL migration: SQLite is the local preview and has no
such index. A restart of XServer is the initial state of the refresh.

### ShmChannel

A server in CS mode and its clients. A start of a client is cut where another
process can come between: it looks for a channel (`Starts`), writes its name
into it (`Takes`), resets the rings and sends its login (`LogsIn`), and pops
until the acknowledgement is there (`AwaitsAck`). The server visits a channel
in two steps, since a client may run between the pop and the reaction
(`ServerPops`, `ServerHandles`), drops it after the interval (`ServerDrops`),
and sends what its application answered (`ServerAnswers`, `ServerSends`). The
rings are the bounded FIFOs `SPSCQueue` implements. A client pushes requests
whenever it likes, however many are open (`Asks`), and each has a number that
its answer bears too; a request or an answer that finds a ring (`RingCap`) or a
queue inside a process (`QueueCap`) full is gone, as in the code, where the
result of `Push` is logged at most, and is noted in `dropped` while it is open.
The queue of answers of a client is full whenever its application lags, so
`HandleMsg` may lose any answer. A reset of a ring (`SPSCQueue.hpp:61-66`) is one
step here; in the code the other end may be inside a `Pop` or a `Push` of that
ring, and may set its index after the reset. `HandleMsg` keeps the quirk of the code
that the type of the next request is that of the message popped last. `Tick`
lets time pass only when nobody is behind its loop: heartbeats are compared with
the interval, not with stalls of a process. `owners`, `raced` and `outlived` are
history: who may use a channel, and by which of the two ways it came to be
shared; `waiting` and `mistyped` are the open requests of a client, and those of
them that went out as something else.

### AuthService, ServerEngine

A rule is in memory (`rules`), which decides, and a row of `casbin_rule`
(`saved`), which a start loads (`AuthRestart`), together with the development
data that every start in development mode puts back (`Bootstrap`). The rule of
an account grant is also a row of `account_grants` (`rows`), which
administrators see. A request for a grant changes the three in this order in
steps of their own (`ChangeRule`, `SaveBegins` and `SaveCommits`, `WriteRow`),
each of which may be the last (`Fails`, `AuthRestart`); the requests for
policies and role bindings end after the second (`AfterPolicy`), also when their
rule is the one of a grant. The handlers run in the threads of a pool, so
requests interleave (`call`), and a rule that changes, or a save that commits,
while another save runs is in what that one writes or not (`unsure`). A session
has a right by a rule for its user, or by the rule for `role:admin` if its user
or its OIDC token has that role (`Permitted`).

The library's enforcer is external: it may store a single rule when it changes
one, and `save_policy` reads the memory rule by rule and commits once. The
service is one process. Told apart are one right per user, the role
`role:admin` and its rule for every right, which are the two the code itself
creates. Who may send a request of an administrator is left open: any may come
at any time.

In `ServerEngine` the network thread changes connections and queues messages
while the work thread is in the middle of one: `Take` finds the session the
connection has at that moment and asks for it, `Decide` is the answer of the
service (a refusal at any time, since a timeout is one), and `HandleLogin`,
`HandleRequest` and `HandleReport` use it. Outside trading hours `Drain`,
`PushBack` and `Replay` are the history replay, which takes the queue apart.
Reports go to the snapshot file before they are handled; `Restart` reads the
references from it. `before`, `pushedBack`, `logins`, `grounds` and `overtaken`
are history.

Abstractions: the four fields a login writes under the lock of no one are
written in one step (between them a request of the same connection is refused);
where `OnClose` erased the entry first, the write through the old iterator is
lost or the process ends; what the published policy says of a request is open
(`policy`); what is relayed to desktops and watcher, the legacy permissions and
the tables of application states are left out.

### Bars

`WithTick` is `ProcessTick` for one interval with its cases in order, and
`ForceClosed` is `CloseKLine`, whose time moves on by a second with every bar it
closes (`CloseTimes`). `Turn` is one turn of `WorkThreadFunc`: the section by
the machine's clock, the tick if there is one, and the timer in one second of a
minute. Time passes in steps of its own (`Pass`), so the loop may stall at any
time. The feed is external: one tick for a slice, in order, stamped by a clock
that may be behind or ahead of the machine's, and possibly found twice. `own`,
`stamped` and `untimely` are history: of the volume stamped in a section, what
went into bars and what the loop found outside the section.

Abstractions: one ticker; of a bar the window and the volume; intervals below a
day; `SlicePerSec` at least 1 (with 0 the code counts by `SnapshotInterval`,
and no file of the repository configures that); sections begin and end where
windows do (`BarsAssumption`), as those of `XQuant.yml` do; the one section of
`runtime/config/XQuantStock.yml`, all day to 23:59:59, does not.

## 3. Runs

| run | question | instance | result |
|---|---|---|---|
| `risk_capacity` | Are the totals the sums of the live reservations, do both pending maps agree, is the ledger implemented? | 1 account, 2 tickers, 3 tokens, 7 reports, 2 fund values | holds |
| `risk_limits` | Do counters and locks survive commands, failed writes and restarts? | 1 account, 1 ticker, 2 tokens, failing writes | holds |
| `risk_full_queue` | Does every decision reach the queue? | queue of 4, burst of 10 | violated, finding |
| `order_loop` | Is a token at most one order of the counter? | 1 token requested twice, 2 references, one restart of each of two of the three processes | holds |
| `order_reserved` | Is only a checked order at the counter, and is it reserved while live? | 2 tokens, or 1 and its cancel; a break or a bridge restart; 1 number for each life of the bridge | holds |
| `order_outages` | Is an order that ended freed at last? (liveness) | 1 token; two of a break, a session loss and a failed query | holds |
| `spsc_queue` | Do the ends never copy at one slot, and is the ring a bounded FIFO? | 4 slots, 3 messages | holds |
| `published_policy` | Is one version published at a time, and does the newest in the end rule in XServer? | 3 versions, 3 contents, 2 overlapping requests | holds |
| `shm_channel` | Who shares a channel, whose answers does a client get, does a quiet client stay, is every request answered unless something was full? (liveness) | 2 clients, one starts twice, 2 channels, rings of 2, queues of 1, 2 requests, 1 restart of the server | holds |
| `server_engine` | Under whose login and right does a request pass, what can be cancelled, is every message handled (liveness), what do service and restart keep? | 1 desktop, 2 sessions of a user, 1 order, 2 threads of the service, queue of 2, at most 4 messages | holds |
| `bars` | Is every trade in one bar, are windows in order, is a section given out? | bars of 1 and 2 minutes of 5 seconds, 2 sections, 1 or 2 slices a second | holds |
| `order_cancel_race` | Is an end final for the clients? | no fault, 1 cancel | violated, finding |

Bounds. Two requests of a token are the least that can duplicate it and two
references the least that can show it; the faults are counted per kind and may
fall at every step, so one of each covers every pair of a fault and a place.
`MaxKinds` says how many kinds of them one behaviour may have: two, so that
every pair of a crash here and a crash there occurs, in either order; in
`order_reserved` one, for its two orders. `MaxSubjects` says how many tokens and
references its clients use: two orders, or one and its cancel. It has one
request of a token, since the code breaks the property for a repeated one
(section 4), and one number (`Numbers`), so that an order sent after the bridge
restarted has the number of the order sent before. The capacity instance has two orders that compete for
the same cash, one that competes for shares of each ticker, and a token-less
order; `MaxFlow`, `MaxTickerCancels` and `MaxOrderCancels` are above the limits
they are compared with. The queue has 4 slots instead of 4095: the engine only
compares its length with the capacity. The ring has 4 slots instead of 8192, so
that it fills with three messages, each distinct, and both indices cross the
end. Three versions are the least
with one published, one retired and one on its way, two requests the least that
overlap, and the three contents are one that validation rejects, one that the
parser rejects and one that both accept.

In `shm_channel` two clients are the least that race for a channel, two channels
the least that let the loser find another, and a second start of one client and
one restart of the server let every message of an earlier run meet a later one.
Rings of two and queues of one fill with two open requests, so that a request is
lost in the client's queue, in its ring and in the queue of the server, and an
answer in the queue of the server, in the ring and in the client's queue. Each
restart of the server, or second start of a client, takes one of the two requests
away (`Spare`): bursts are checked without restarts, and restarts with one
request. The interval is one tick and the margin another: the heartbeat is due one tick
before the server gives up, the closest case the code has. In `server_engine`
two sessions are the least that can be mixed up, a queue of two fills while a
replay holds a message, two turns of the replay let a login arrive between
them, and two threads are the least that meet at a rule; `MaxEvents` bounds
messages and twice the changes and restarts together, once a connection is
accepted, so up to four messages meet no change, and two meet one. Before that,
the service is on its own with up to three changes, enough for two requests that
overlap and a restart between their steps, or for a request for a policy
against one for the grant. In `bars` a minute has five seconds: the
timer's second, the seconds `CloseKLine` adds for two intervals, and the last
slice are still distinct; the time covers the end of the last section, the break
before it and its closing second, and the feed may be so late that a tick of one
window comes in the next one. Every bound is a named
constant in a guard. Deadlock is not checked for OrderLoop, ServerEngine and
Bars: requests, messages and time are bounded, so the system may come to rest.

Fairness (`FairSpec`, `order_outages`): weak fairness of the loops of the work
thread, the receive thread, the bridge, the risk engine and of the two
reconnections. Each of these is a `while(true)` that waits for none of the
others: `ReceiveLoop` retries every 500 ms, `serve_forever` accepts for ever,
the SDK recovers by itself. Clients, the market and faults have none. The
property is about an order whose reference is on disk, because without one the
bridge can only report token 0 (section 4), and is given up for as long as no
query was answered after one that failed.

Fairness (`FairSpec`, `published_policy`): `RunPublishedPolicyRefresh` loops for
ever, so a fetch begins again, and the client's timeout ends it. Strong fairness
of `FetchReturns` says that a policy that parses is not lost on the way every
time; requests of the service have no fairness.

Fairness (`FairSpec`, `shm_channel`): the loops of the server, of each client
that runs and of the server's application are `while(true)`; starts, ends,
requests and time have none. `Answered` is given up where a client ends, its
channel is shared or outlived the server, or the request went out as something
else or was lost with its answer in something full (`Due`).

Fairness (`FairSpec`, `server_engine`): weak fairness of the work thread, whose
loop never ends and whose calls of the service have a timeout. `Handled`
excepts the state `Stuck`, in which the thread that empties the queue waits for
room in it; the code reaches it when the queue fills during a replay.

What this code does not promise, and no property claims: the rows of a
published version do not change (an edit that began while it was a draft may
commit after the publication, though `database.py:33` calls published versions
immutable), and a published version stays until another is published (a
validation that began earlier makes it `"VALIDATED"` again). The model has both
behaviours; the properties are those that hold in spite of them.

## 4. Findings, and what the code does not keep

Found by runs that TLC must find violated:

1. `risk_full_queue`: each refusal pushes two messages and a loop pops one; when
   the queue is full the only consumer spins (`RiskEngine.cpp:433`).
2. `order_cancel_race`: the work thread publishes a status it read before the
   receive thread published the end (`ATPTradeGateWay.cpp:399`).

Exceptions that the properties above name, because the code needs them:

- After a DELETE for one account, every account whose name occurs in the SQL
  text is unlocked in memory (`RiskEngine.cpp:1107`): `LockedAdmitsNothing` is
  checked, and proved, for names none of which is inside another.
- The refusal of a repeated token is reported with that token and frees the
  reservation of the live order (`RiskEngine.cpp:560`): `LiveOrdersReserved` is
  checked for a token requested once.
- A crash of the bridge between the request and its first callback detaches the
  order from its token (`atp_bridge.py:340`); it is reported under token 0.
- Every start of the bridge counts `client_seq_id` from 1
  (`atp_session.py:36-43`), and callbacks are matched by it before the reference
  (`atp_bridge.py:336-337`). After a restart the callback of an old order can
  get the token of a new one: it then ends the reservation of the new order,
  and binds the old reference to the new token. `LiveOrdersReserved` is about
  orders whose number no older order has (`OwnNumber`), and `EndedIsFreed` about
  references that keep their token.
- A recovery whose login the counter refuses or leaves unanswered for ten
  seconds, or whose query fails (`atp_bridge.py:304-324`), and a query of the
  gateway that fails (`atp_bridge.py:409-421`) are reported and not repeated,
  though the session is up. What ended meanwhile is not freed before the next
  login: `EndedIsFreed` is given up while `missed` stays true.
- Two clients that find one channel empty at once share it
  (`SHMConnection.hpp:258`), and so does one that outlived its server with the
  next one in the channel (`SHMServer.hpp:304`).
- A request or an answer that finds a ring or a queue full is lost, and nobody
  sends it again (`SHMConnection.hpp:168-181` and `188`, `SHMServer.hpp:205-209`
  and `255-259`): `Answered` excepts those in `dropped`.
- After a second acknowledgement of a login a client's requests go out as
  acknowledgements, which the server does not hand on (`SHMConnection.hpp:183`).
- The replay lets logins overtake requests, and reports each other
  (`ServerEngine.cpp:1268`), and it can stop the server (`ServerEngine.cpp:1270`).
- A grant changed by a request that failed or died half way, or by two requests
  at once, is listed one way and decided another until it is changed again
  (`AuthAdminService/service.py:309`). So is one whose rule was changed by a
  request for a policy, which writes no row (`service.py:363-383`); a test of
  the service does so (`test_service.py:68-94`).
- Of two saves at once, the one that commits later can leave in `casbin_rule`
  what the other wrote, and a rule changed while the memory is read may be saved
  or not (`service.py:308`): such rules stay `unsaved`.
- A restart in development mode puts back the administrator's role and its rule,
  even if both were removed and saved (`service.py:82-83`).
- A loop of XQuant that misses the closing second after a section keeps its last
  bars from the strategies (`QuantEngine.cpp:324`).
- A tick stamped in a section but found by the loop before or after it, by the
  machine's clock, changes no bar (`QuantEngine.cpp:248`). Its trades are counted
  with the next tick of trading hours, after the last section with none:
  `SectionBarsGiven` counts them apart (`untimely`).

## 5. Proofs

`RiskEngineProofs` proves, for all constants that meet the named assumptions:

- `TotalsAreSums` (`[]ReservationsAccounted`) and `EngineImplementsLedger`
  (`ImplementsLedger`) from one inductive invariant, `CapacityInv`: the types of
  the capacity variables, `IdleEmpty` (a token that holds nothing has zero
  amounts, since `ReleaseOrderReservation` erases it) and the accounting itself.
  Sums are cardinalities of sets of units, so that they need no induction over
  data: `UnitsGrow` and the lemmas after it say what one changed reservation does
  to them. `CapacityCases` reduces `Next` to the five ways these variables change.
- `PendingMapsAgree` and `CancelCountsEndWithOrder` from `PendingInv`, which
  strengthens them with the ticker of a reference: without it a report could
  move an order between the lists.
- `TypeCorrect`, `CancelCountsSurvive`.
- `LockedAdmits` (`LockedAdmitsNothing`), under the assumption that no account's
  name is inside another's (`NameWithin[a] = {a}`), from `LocksInv`: the map in
  memory holds every lock of the table. A command reads the table back before it
  erases from the map, so without the assumption the erasure can take a lock that
  is still in the table.

`OrderLoopProofs` proves, for any number of tokens and references and any
bounds of the faults:

- `TypeCorrect`, from the types of every message that may be in a queue, on a
  line or in the hands of a thread.
- `TokenOnceAtCounter` (`OnceAtCounter`). Its invariant says where a token can
  be: the intents of the bridge are the tokens in the journal, a reference that
  is used has its token in the journal, and a token on its way from the journal
  to the counter has no order yet. The step that reserves a token therefore
  finds it free only if no order has it, whatever was lost before.
- `CheckedFirst` (`CheckedBeforeCounter`). Its invariant confines what may be on
  the way: each order line, positive answer and order at the counter belongs to
  a token the check passed or that does not need one; the queues between the
  processes only lose messages, so they stay inside these sets.
- `LiveReserved` (`LiveOrdersReserved`), for clients that use a token once
  (`MaxRequests <= 1`) and a risk engine that stays up (`Faults["risk"] = 0`),
  the two conditions section 4 gives. Its invariant, `ReservedInv`, has two
  halves. A token is at one place at a time (`OnePlace`): in a check, in its
  answer, on the line, in the command thread or at the counter. And while it
  is at one of them nothing says that its order ended (`Quiet`): no report,
  no line, no callback, no row of the counter, no copy a thread or a map keeps.
  So the report that frees a reservation is never about a live order, unless
  an older order has its number (`OwnNumber`), the third condition. Most
  steps bring a token to no new place (`FewerReserved`); the five that move it
  are proved apart (`Moved`). The bridge's references must be those of the
  counter's orders (`RefsOK`), or a callback would end another's order.

`SPSCQueueProofs` proves, for any number of slots and messages, `TypeCorrect`,
`NoDataRace` (`NoRace`) and `RingImplementsFifo` (`ImplementsFifo`) from
`RingInv`: an index seen late lies, in ring order, between what it may lag
behind and the index of the end that saw it, so an end that found room or a
message still has it; the slots between the indices hold whole messages. The
invariant is needed because `NoRace` speaks of the true indices and the ends
decide by the seen ones.

`PublishedPolicyProofs` proves, for any number of versions, requests and
contents, `TypeCorrect`, `OnePublished` (`AtMostOnePublished`), `DraftsStayOut`
(`NoDraftInForce`), `DraftsOnlyOnce` (`NeverBackToDraft`) and `OnlyNewerRetires`
(`RetiredByNewer`). The invariant `PolicyInv` adds to the types that the version
in force and the one being fetched are past the drafts: they were published
when they were read, and no step leads back (`StatusSteps`). `PublishResult`
says what the UPDATEs of a publication leave when the index accepts them.

`ShmChannelProofs` proves, for any number of clients and channels, any size of
the rings and any initial data, `ShmTypeOK` (`TypeOK`), `OneClientAlways`
(`OneClientPerChannel`) and `AnswersReachAskerAlways` (`AnswersReachAsker`) from
`ShmInv`: a name in the table and a client past its reset are among the owners
of the channel, and whatever is on its way between them and the server - in a
ring, in hand, in a queue of the server - is for an owner of the channel it
belongs to. Without the second part an answer that the server holds for an
earlier owner could still reach the next one. Two more invariants rest on it:

- `RequestsKeepTypeAlways` (`RequestsKeepType`) from `LoginInv`: a client in its
  first run, alone in its channel, has sent one login request, which is in the
  ring, in the hand of the server, or answered (`OneLogin`), so that after it no
  acknowledgement of the server can come (`LoggedIn`); and a channel without
  owners is empty and unconnected (`Untouched`), since the first owner starts
  from what is there.
- `LiveStaysConnectedAlways` (`LiveStaysConnected`) from `LiveInv`: a client
  that is up has not been idle for longer than the interval, and the server
  heard of it no longer ago than that, unless something is on its way to the
  server (`Heard`). The theorem assumes what makes it true: a ring takes the
  login and the acknowledgement (`RingCap >= 2`; it has 8192 slots,
  `SHMServer/Common.hpp:18`), and the client sends its heartbeat before the
  interval is over (`Margin >= 1`; it takes 50e9 cycles off,
  `SHMConnection.hpp:195`, from the 300e9 of `Common.hpp:21`). TLC finds the
  property violated without the margin.

`AuthServiceProofs` proves `GrantsAgreeAlways` (`GrantsAgree`) and
`RestartKeepsDecisionsAlways` (`RestartKeepsDecisions`) from `AuthInv`: a grant
agrees as long as the requests at it have done nothing (`Agreement`), a request
that is alone finds the rule as it left it (`RuleStands`), a request for a
policy that has changed the rule of a grant has marked it (`PolicyMarks`), and
what is not marked unsaved is stored (`SavedAgrees`).

`ServerEngineProofs` builds on them and proves, for any number of connections,
sessions, messages, restarts and changes: `ServerTypeOK`, `HandledOnceAlways`
(`HandledOnce`), `SubscribedByLoginAlways`, `ForwardedOnOwnLoginAlways`,
`ForwardedOnGroundsAlways` and `ServerGrantsAgree`. Its invariant `Flow` says
that the messages in queue, buffer and hand have distinct numbers not handled
yet (`Numbers`), that a login is in the queue before every message sent after
it (`Logins`), and that a request in hand carries the session its connection
still has, unless that was logged out (`Current`); `Grounded` adds that an
answer of the service is among the grounds of the request. `HandledOnce` and the
two properties of forwarding say nothing of where else a session or a number may
be, which is why they are not inductive.

`ReferencesFollowReportsAlways` (`ReferencesFollowReports`) needs `ReportInv`
beside `Flow`. For an order no report of which was overtaken, its reports are in
the order they were sent in the queue and in what the replay keeps back
(`Sorted`), what is in the log is older than both (`LogBefore`), and while the
replay takes the queue apart what it kept back is older than the rest
(`Behind`). While it pushes back this is not so, for reports arrive meanwhile:
`PushBackReports` shows that a report then goes behind a newer one only if it is
noted in `overtaken`. The log has what is handled, and what is in hand as its
last; so the report that is applied is the newest, and a start that reads the
log in its order (`Known`) finds the references the reports left.

`BarsProofs` proves `VolumeKeptAlways` (`VolumeKept`) from `BarsInv`: every open
bar of an interval ends one slice before the end of some window (`LastSlice`),
or nothing was traded in it yet, so a tick never meets a bar with volume whose
end is the window's own, the one case in which `ProcessTick` would drop it.
`CloseTimes` is defined by recursion over the intervals; that it is a function
into the naturals is proved from the least interval at which it would not be
(`SmallestNat`, from the well-foundedness of the naturals).

- `WindowsInOrderAlways` (`WindowsInOrder`) adds `OrderInv`: an open bar begins
  and ends with its window and lies behind the window given last. The property
  speaks only of what is given; without the bar it says nothing of what will be.
- `SectionBarsGivenAlways` (`SectionBarsGiven`) adds `OwnInv`, that what is
  stamped in a section and found in it is in bars given, dropped or open, and
  `SectionInv`: unless the loop missed the closing second, none of it was
  dropped, a bar that holds some of it lies in the section, and the machine's
  clock has not left the closing second after it (`OwnKept`); no bar is open further ahead than the next slice or the end of
  the minute (`Near`), and the timer is at most a second ahead of the clock
  (`TimerOK`). The theorem assumes `Regular`, what `XQuant.yml` configures:
  intervals of a minute and more (60 and 300), slices that fill the second (2),
  sections that end with a minute and lie further apart than the second in which
  their bars are closed (the closest are 10:15 and 10:30), and ticks stamped
  less than a minute ahead of the machine.

Every invariant above was checked with TLC on the instance of its component
before it was proved.

Only model-checked: `PolicyFollows`, `EndedIsFreed`, `Answered` and `Handled`.
They are liveness properties under weak fairness, and the prover has neither
`ENABLED` nor the fairness rules. Every safety and action property that a
passing run checks, and every refinement, is proved.

## 6. Not modelled, and the plan

Not modelled for good:

- the gateways of the other counters (`CTP`, `REM`, `YD`, `OES`, `Test`): the
  same plug-in contract as ATP over vendor APIs whose behaviour is not in the
  repository;
- XWatcher, XMarketCenter and the market bridge: they route and poll, and keep
  no state that outlives a message besides lists of processes;
- HistoryDataService, BacktestService and StrategyService: queries and
  sequential simulations that keep nothing between requests;
- the desktops (XMonitor, QtAdmin, VnpyMonitor, VnpyNative): user interfaces;
- `MPMCQueue`, which nothing uses, vendored code, images and scripts.

Left out of modelled components, and known: `TradeGateWay.hpp:207` spins until
the report queue takes a rejection, in the thread that empties this queue; the
results of `Push` are ignored when a report is
handed on (`TraderEngine.cpp:380`); a restart of XRiskJudge forgets the
reservations of live orders (`RiskEngine.cpp:37`).

Planned next:

1. `OrderLoop` with bounded queues, once an abstraction of the bridge keeps its
   state space small enough.
2. The routes of XWatcher between `ServerEngine` and `OrderLoop`.
3. The safety half of `EndedIsFreed` as a theorem of `OrderLoop`: while the
   reservation of an order that has ended is held, the terminal report, its
   callback, or the recovery that asks the counter for it is on its way.
