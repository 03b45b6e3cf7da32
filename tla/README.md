# A TLA+ model of the Vyuh HMI server

Vyuh HMI is an operator station for small plants: a Rust server polls PLCs over
Modbus TCP or OPC UA, keeps readings, alarms, batch records and an audit trail
in SQLite, and serves a Flutter app over REST and a WebSocket.  This directory
models the parts of the server in which several tasks meet, and the app's end
of the live feed, checks them with TLC on small instances and proves the most
important facts with TLAPS.

Paths are relative to the repository; `auth.rs` and the like are in
`server/src/`, the `.dart` files in `app/lib/`.

## 1. The system

### Components

| component | state | operations | talks to |
|---|---|---|---|
| polling loop (`protocol.rs`) | per task: connection, previous batch state, batch counter | connect, tick (read, save, broadcast, alarms, batches), write, reconnect | protocol clients, database, broadcast channel, device channel |
| alarm management (`db.rs`, `routes.rs`, `protocol.rs`) | table `alarms` | raise, auto-clear, acknowledge, shelve, un-shelve, list | polling loop, operators, audit trail |
| batch records (`db.rs`, `protocol.rs`) | table `batch_records` | create, find running, complete or abort | polling loop |
| device registry (`state.rs`, `routes.rs`, `main.rs`) | map id -> channel, task handle, config behind an `RwLock`; table `devices` | add, remove, connect, disconnect, start-up | polling tasks, operators |
| write path (`routes.rs`, `protocol.rs`, `modbus.rs`) | bounded channel of 32 commands per device, one-shot answers | post_write, write branch of the loop | registry lock, PLC, audit trail |
| authentication (`auth.rs`) | tables `users`, `audit_trail`; in memory: login attempts, sessions | login, logout, verify, three middlewares, signature, create user | every route |
| rate limiter (`rate_limit.rs`) | token bucket per client behind a mutex | check, cleanup | every route |
| live feed (`ws.rs`) | broadcast channel of 2000 messages, two tasks per socket | open, authenticate, send, close | polling loop, sessions, app |
| OPC UA client (`opcua_client.rs`) | session, cache filled by a subscription, staleness counter | connect, read with fall-back, write | polling loop |
| Modbus client (`modbus.rs`) | connection | connect, read, write | polling loop |
| history, export, discovery, configuration (`tsdb.rs`, `export.rs`, `discovery.rs`, `config.rs`) | none of their own | queries, formatting, port scan, parsing | |
| simulators (`simulator/modbus_sim.py`, `bin/opcua_sim.rs`) | batch reactor, registers | step | polling loop |
| app (`app/lib/`) | socket with reconnect, live values, token, inactivity timer; screens | connect, reconnect, log in and out | live feed, REST |

### What is hard about it

* Every `.await` is a point where tasks interleave.  Handlers that read a row
  and then update it, or look at the registry under the read lock and store
  under a later write lock, act on what may have changed.
* A handler's future is dropped when its client hangs up, at any `.await`.  A
  polling task is aborted at any `.await` by disconnect and remove.
* A crash keeps the tables and loses the counters, sessions and channels.
* PLCs go away and come back; a reply may be lost after a write was executed; a
  connection may be half open, so that one end or both never hear of its end.
* The OPC UA library calls back on a thread of its own while the client clears
  the cache that the callback fills.
* The broadcast channel drops what a slow socket has not read, a socket is
  subscribed only after it was authenticated, and the app reconnects with a
  token that may be dead.
* The registry lock, the bounded channel and the polling loop can wait for each
  other.
* Many database errors are swallowed (`.ok()`, `unwrap_or`).

`hazards` in PROJECT.json lists these places line by line with the properties
that watch them.

### What makes the components correct

* Alarms: rows stay consistent; clearing is justified by a value; values that
  stay safe or critical have their effect; the audit trail is true.
* Batches: one running batch per device, closed batches stay closed, and a
  completion that is seen closes its batch.
* Registry: nobody polls twice, no task or row is left behind, an added device
  survives a restart, and no request waits for ever.
* Writes: success means executed exactly once, the audit entry is true,
  read-only registers stay untouched, requests are answered.
* Authentication: the session store says what a client may expect of its token,
  only live tokens are served, lockouts are bounded in both directions.
* Rate limiter: burst plus rate in every window, an honest retry time.
* Protocol clients: a read returns what the registers have shown on this
  connection; a dead connection is noticed; the published value is the
  register's in the end.
* Live feed: the screen never goes back and gets the newest value in the end;
  no store is left with a connection; refused tokens and dead sockets are given
  up.

## 2. Modules

One module per component, each with an MC module for TLC.

| module | models | its steps |
|---|---|---|
| `Alarms` | alarm part of the polling loop, ack/shelve/list handlers, table `alarms` | one per SQL statement; `PollStep(d)` is the loop, `AckSelect`/`AckUpdate`, `ShelveSelect`/`ShelveUpdate`, `LogAudit` the handlers, `ListAlarms` un-shelves |
| `BatchTracking` | batch part of the polling loop, table `batch_records` | `ReadRegister`, `CreateBatch`, `GetRunningBatch`, `UpdateBatchStatus` |
| `DeviceRegistry` | registry, lock and its queue, tasks, table `devices`, start-up from `config.toml` and the table | each handler split where it waits for the lock or lets it go; of a write what it does with the lock (`WriteLookup`, `WriteSent`); `Restart`; `HangUp` |
| `WritePath` | a write from request to PLC and back | `Examine`, `Send`, `Answered`, `LogAudit` of the handler; `Tick`, `ReadReturns`, `ReadFails`, `Receive`, `WriteOk`, `WriteErr` of the loop; `PlcApplies`, `LinkBreaks` outside; `AdminLocks`, `AdminStops` |
| `RateLimiter` | token bucket | `Admit`, `Refuse`, `Cleanup`: the mutex makes each atomic |
| `Sessions` | accounts, throttle, tokens, session store, middleware | each lock scope and each statement of a handler |
| `PlcClients` | `ModbusClient` and `OpcUaClient` under the polling loop, the callback of the subscription, the PLC | each call split where it waits for the PLC or takes another lock: `BeginConnect`, `ConnectOk`; `Tick`, then `CacheReturns` or `PlcReads`, `ReplyReturns`; `WriteOk`; `DropConnection`; `CallbackInserts`, `CallbackCounts` |
| `LiveFeed` | `handle_socket`, `WebSocketService`, the life of a `DashboardStore`, log-in and log-out of `main.dart` | the server's handler of a socket and its two tasks (`Handle`), the app's service (`Service`), each split at its awaits |

Two more state what others rely on, without saying how it is done:

| module | promise | implemented by |
|---|---|---|
| `PlcLink` | the trait `PlcProtocol`: a read that succeeds returns, for each register, something it has shown since the connection was opened | `PlcClients` (`ImplementsLink`) for the registers the subscription monitors |
| `WriteQueue` | `post_write`: what is taken is executed at most once, in order, or lost, and "success" is told only of what was executed | `WritePath` (`ImplementsQueue`) |

The mapping of `PlcClients` shows each register through `variant_to_u16`; cache,
counts, callback and subscription are hidden, and both ways of reading are the
one action `Read`.  The mapping of `WritePath` joins the command at the poller
with the channel into one queue; the lock, the connection, the audit step and
lost replies are hidden, and a lost reply is `Execute` followed by
`Tell(w, "failure")`.  A write that is on its way when its task is aborted stays
in the queue until it is executed or the next write is lost with it.

Common conventions.

* A step ends where the code awaits something other tasks can change.
  Consecutive code without such an await is one step.
* A PLC is free: registers take any value of a small set at any time.  What
  holds, holds for every PLC and polling rate.
* History variables (in a block of their own in each VARIABLES list) are not
  state of the program.  They remember what a property needs: `failed` and
  `serial` say about which device a statement has failed or requests have
  overlapped, `hidden` that an alarm was once shelved or cleared, `credit` how
  many polls may still answer from a cache without connection, `lost` which
  stores a second log-in overwrote, `admitted`, `mark` and `refused` count requests,
  `delivered`, `loggedOut`, `stale` and `lockedFor` are the client's view of a
  session.
* Definitions marked "Wrong:" are the same code with a plausible slip.  No
  specification uses them; they show that each property notices a mistake.
* `Alarms` and `BatchTracking` take one polling task per device for granted.
  `DeviceRegistry` shows when that is so: as long as `config.toml` names the
  device once and the requests about it do not overlap.

Abstractions worth knowing.

* Alarms: priorities and texts are left out except critical/warning; a
  threshold is the record of `ALARM_THRESHOLDS`, its limits and scaling
  included.  An expiry is kept as the minutes that are left until it, and -1
  when it has passed, so the clock needs no bound.
* BatchTracking: a batch id is the pair device, counter.  `failed` becomes true
  with the first statement that returns an error of its own (not UNIQUE).
* DeviceRegistry: every device has a supported protocol.  `config.toml` is a list
  and may name a device twice; each start may find another list.  The table may
  fail to load, which counts as empty.  An aborted task stops in a step of its
  own.  The lock is tokio's: one queue, and a reader behind a waiting writer
  waits.  Of a write only its lookup and its wait for room are here.
* WritePath: one device.  The connection is up, cut or half open, and while it is
  half open a call does not return, until the operating system gives up or never.
* RateLimiter: the f64 tokens are naturals in a small enough unit (see the
  module's header).
* PlcClients: of the two counts only `sub_update_count > last_read_count` is
  kept, as nothing else is read of them.  A monitored item is either delivered
  or not (`Unmonitored`), and one notification carries every item that changed,
  the first one all of them, as OPC UA publishes per subscription.  Up to
  `MaxNotes` notifications wait for the callback.  A value is
  its type and its integral part.  A callback of a dropped session has ended
  when the loop connects again 5 s later.
* LiveFeed: one register; a poll broadcasts its newest value, changed or not.
  The messages on the wire are bounded, so a slow app makes the send task wait
  and its receiver lag, as TCP does.  The 10 s for the token may run out at any
  time.  A log-in and a log-out are one step each: the awaits of the stored
  preferences are not split.  The log-ins whose answers come before the next
  frame are one step together, as nothing the app does between two of them is
  different after the last.  The `connected` indicator is left out.  All error messages of the server are one, as the app treats them
  alike.  Which free socket or store is taken next has no meaning, so it is
  fixed (`Pick`).
* Sessions: passwords are right or wrong, hashes and signatures are unforgeable,
  and every token carries a session id (the code accepts tokens without one,
  but does not issue them).  Times are relative, so no clock is bounded.  Of the
  audit trail only `create_user` rows are kept, as nothing reads the others; the
  step that writes them is there for all.  Routes that only read take the same
  test as the signature route.

## 3. Runs

All passing runs check deadlock unless noted in the cfg.

| run | instance | what it shows |
|---|---|---|
| `Alarms_safe` | 2 operators, both threshold shapes, safe/warning/critical values, failing statements, crashes, 1 row, a cap of 1 minute | columns and audit entries agree with the state, shelvings end within the cap, clearing is justified |
| `Alarms_live` | 1 operator, 2 rows, fair polling | safe values get all alarms cleared unless operators bring cleared ones back, critical ones stay alarmed, check-then-insert duplicates nothing it can see |
| `Batch` | 1 device, codes idle, heating, another, complete, 3 batches, restarts, failing statements | one running batch until a statement fails, closed is closed, completion closes |
| `RateLimiter` | 1 client, bucket of 5 units, cost 3, rate 2, 9 ticks | the window bound, the retry time |
| `Registry` | 2 devices (1 in config.toml once, twice or not at all), 2 overlapping requests, writes, hang-ups, failing statements, restarts, at most 2 tasks before a request may spawn another | without overlap no double poller (`OnePollerIfSerial`), no task out of reach and no row of a removed device (`AgreeIfSerial`), and an added device comes back with the next start (`AddedSurvive`); every request ends unless a write waits for ever (`RequestsFinish`) |
| `WritePath` | 3 writes (1 read-only), channel of 1, cut and half-open connections, lost replies, hang-ups, a remove | it implements `WriteQueue`: at most once, in order, true answers; true audit; everybody answered if the PLC is reachable and the connection does not stay half open |
| `Sessions` | 2 requests at a time, an administrator and a name to create, 2 sessions, 2 attempts, lockout of 2 ticks, expiry of 1 | see `SessionsExact`, `ServedIsLive`, `GuessesBounded`, `LockoutEnds`, `CreationsTrue` |
| `Clients` | both protocols, 2 registers that show 1 or a null value, stale limit of 1, 2 notifications under way, half-open connections | both clients implement `PlcLink`; the cache is complete when it is read; after the connection is lost it answers one poll per notification that had come in and three more; what stays is shown in the end |
| `LiveFeed` | 2 stores, 2 sockets, 2 readings, a broadcast channel of 1, 1 message on the wire, half-open links, restarts, ended sessions, overlapping log-ins | only the store on the screen connects, but for one a second log-in overwrote (`OneStore`), it never goes back (`Forward`) and shows the newest value in the end (`Converges`), refused tokens (`RejectedEnds`) and dead sockets (`SocketsEnd`) are given up |

Three runs end with a counterexample; each is a place where the code does not do
what a comment or message in it says:

| run | property | in short |
|---|---|---|
| `Alarms_resurrect` | `ClearedIsNotShelved` | shelve reads, the poller clears, shelve updates by id: the cleared alarm is shelved and returns |
| `Batch_collide` | `StartIsRecorded` | the counter starts at 1 after a restart, the id is taken, the error is ignored |
| `WritePath_stuck` | `RemoveEnds` | a write waits for room in the channel with the registry lock held while the PLC is away, and a remove waits behind it |

### Bounds

Two actors suffice for the races: each handler reads once and writes once, so a
third can only repeat what the second does to the first.  One alarm row is
enough for the row properties (a statement touches one row), two for duplicates.
Three batches cover the first, the colliding and a later id.  A channel of one
is full after one command, which with two more writes gives every combination
of queued, waiting and sent.  Two attempts with two clients reach a count beyond
the limit.  A lockout of two ticks lets an attempt fall inside it.  Two
registers can be reported in different notifications, so a cache can be filled
in part, and a stale limit of one gives reads before, at and after the limit.
Two stores and two sockets are the old one, which awaits, times out or is closed
late, and the new one; with two readings there is an older one to go back to,
and a channel of one lags as soon as two are broadcast.  They are also the two
stores of overlapping log-ins.  A task from config.toml and one that a request
spawns are the two that may poll one device.  `MaxNotes`, `MaxAlarms`, `MaxBatches`, `MaxTasks`, `Sids`, `NewRoles`, `Mistyped`,
`Disableable`, `MaxReading` and `Wire` are bounds of the model only; the
theorems need none of them to be small.

### Fairness

* Polling loop (`Alarms`, `BatchTracking`, `WritePath`): weak fairness of a
  task's next step.  It is a tokio task woken by a timer and by replies.
* `DeviceRegistry` and `WritePath` have the queue of the lock in their state, so
  weak fairness of a handler's next step is enough.  A write that waits for room
  in its channel is not obliged to go on: `RequestsFinish` states that it does.
* `WritePath`: strong fairness of `Receive`, as `select!` picks at random between
  a tick and a command that are both ready.  A PLC executes or refuses what
  reaches it.  A half-open connection is not obliged to be given up.
* `PlcClients`: weak fairness of the loop and of a callback that has begun.
  Strong fairness of `Tick` for the same reason, and of `ConnectOk` and
  `PlcReads`: a PLC that is asked again and again answers some time.  Nothing obliges the server of a subscription to
  publish or a notification to be delivered: `Converges` holds without.
* `LiveFeed`: weak fairness of the handler of each socket and of the service of
  each store (tasks, timers and awaits that come back).  Nobody has to log in or
  out, no device has to be read, and trouble need not end: `Converges` and
  `RejectedEnds` state that a device goes on to be read (`Broadcasting`) and
  that restarts under a connected app, lost links, failed handshakes and slow
  tokens are over some time (`Calm`).  `SocketsEnd` holds without either.
* Nothing obliges a client to send, retry or hang up, a PLC to come back or an
  error to happen.  Liveness properties state such conditions themselves
  (`<>[]plc`, `<>[]StaysSafe`, `Broadcasting`, `Calm`).
* `RateLimiter` and `Sessions` have safety properties only and no fairness.

## 4. Proofs

TLAPS proves the following for every value of the constants; the run of the same
property is its small instance.  Together the theorems state every invariant,
every safety property of steps and both refinements that the passing runs check.

| module | theorems | assumptions besides types |
|---|---|---|
| `BatchTrackingProofs` | `BatchTypeCorrect`, `BatchInvariant`, `OneRunningBatch`, `FinishedBatchFinal` | none |
| `RateLimiterProofs` | `LimiterTypeCorrect`, `WindowIsBounded`, `RetryIsHonest` | an idle bucket is full before it is dropped (`CutoffAssumption`); the retry time earns a token (`RetryAssumption`): 300 s and 5 s at 20 per second |
| `SessionsProofs` | `SessionsTypeCorrect`, `SessionStoreExact`, `OnlyLiveServed`, `AuditedCreationsTrue`, `LockoutIsBounded`, `GuessesAreBounded` | finitely many requests at a time |
| `AlarmsProofs` | `AlarmsTypeCorrect`, `RowsStayConsistent`, `NoVisibleDuplicate`, `OnlySafeValuesClear` | none |
| `DeviceRegistryProofs` | `RegistryTypeCorrect`, `OnePollerWithoutOverlap`, `AgreementWithoutOverlap`, `AddedDevicesSurvive` | the table has finitely many rows |
| `WritePathProofs` | `WriteTypeCorrect`, `AuditTrailIsTrue`, `PathImplementsQueue` | none |
| `PlcClientsProofs` | `ClientsTypeCorrect`, `CacheIsComplete`, `LostConnectionIsNoticed`, `ClientsImplementLink` | none |
| `LiveFeedProofs` | `FeedTypeCorrect`, `OnlyOneStore`, `ScreenGoesForward` | none |

**One running batch.**  `AtMostOneRunning` is not inductive: nothing in
`create_batch` looks for a running batch.  `BatchInv` adds why it holds.  A task
whose counter is 1 collides with the first id of any device that has a record
(`IdTaken(d, 1)`), so it inserts only into an empty table; a task with a higher
counter has seen an idle or complete state since its last start, and closed the
batch then.  A failed statement ends that chain, so this part is under
`~failed`; the part about task-local state, on which `FinishedBatchFinal`
rests, is not.

The invariants of the next three (`AlarmInv`, `RegInv`, `WriteInv`) hold on the
instances of section 3, too: TLC went through all their states with them.

**Alarms.**  `NoDuplicateVisible` is not inductive for two reasons.  It speaks of
unresolved alarms only, and an update by id can make a row unresolved again
(`Alarms_resurrect`); `DuplicatePart` therefore says of any two alarms of a point,
in whatever state, that the older one was hidden once.  And between the check of
the poller and its insert operators go on: what makes the insert safe is that at
`raise` every row of the point has been hidden already, which no handler undoes,
and that no other task inserts for the device.  `PollPart` (the row found by
`get_active_alarm_id` is of the point being handled, at `raise` and `clear` the
value asks for it) gives `OnlySafeValuesClear`; `RequestPart` (the expiry a shelve
has computed is still within the cap, an acknowledgement to be logged is in the
table) gives `RowsStayConsistent`.  Only `DuplicatePart` is under `~DbMayFail`.

**Registry.**  `RegInv` keeps what holds under any overlap (`EntryPart` and
`RequestPart`: the task of an entry, or in the hands of a handler, polls its
device) apart from what needs the requests about a device one at a time
(`SerialPart(d)`); other devices do not matter.  That a device has one poller follows from
`Accounted`: a running task is registered or in the hands of the request that
spawned it.  Add and connect keep it because what they have found under the read
lock is still so under the write lock (`StillTrue`): this is what an overlapping
request breaks.  A row without an entry belongs to a remove that is deleting it,
and an entry without a row to an add that has still to save it or to config.toml
(`RowsPart`), unless a statement has failed.  A restart makes a task for each
entry of the list and each further row (`StartFacts`): one, for a device that
the list does not name twice.

**Write path.**  `WriteInv` follows a command from the handler to the PLC:
`NewPart` says that a write not yet sent is nowhere else, `OncePart` that a write
is in the channel, with the loop or executed, and in no two of these,
`LockPart` that nobody waits for the lock twice, `CmdPart` that the loop holds a
command only while it writes or replies, and `AnswerPart` that success, in whatever hands it is, is about a write that was
executed and may be written.  A write that an aborted task leaves on its way to
the PLC is with the loop in this sense.  `AuditTrailIsTrue` is a part of it, and
`PathImplementsQueue` follows step by step: the refined queue is the
channel behind the command that the loop is about to write, and a client is told
what its handler ends with.

**Window bound.**  `WindowBounded` speaks about admitted requests only.
`WindowPaid` adds what the client could still take: admitted plus available is
at most burst plus rate times length.  Admitting moves a cost from one term to
the other, time adds to both sides, and cleanup turns a bucket that is full
again into one that is full by default, which is where `CutoffAssumption` is
needed.

**Session store.**  `SessionsExact` speaks about tokens that were sent.  The
invariant adds what is true of a login before that: its id was never used
(`create_token`), nobody else has it, it is in the store before the answer is
sent, and it is not known outside, so no logout can name it.  `OnlyLiveServed`
adds that no statement changes an account's role, so the role in the token is
the role in the table.  `LockoutIsBounded` rests on `LockInv`: who has been
locked out for some ticks has an entry at least as old.  `GuessesBounded` is
inductive as it stands: a request that is let through finds fewer failures than
the limit, and all others together are one less than the requests; one that is
recorded moves from the one term to the other.  This is where the proof needs
cardinalities, and finitely many requests.

**Protocol clients.**  `ClientsInv` says what is true of everything a read may
return: a notification, a cache entry and a reply under way were held by their
register since the connection was opened (`ValuePart`).  That the cache never
carries an entry over rests on `LinkPart`: without a connection there is no
notification but the one in the hands of the callback, and by the time a new
connection begins the callback has ended, and cache and count are reset.
`CompletePart` says that a monitored register is missing from the cache only
until the first notification is inserted, and that nothing is counted before
that.  `ClientsImplementLink` follows step by step.  `LostConnectionIsNoticed`
adds `BlindPart`: what can still make a poll answer from the cache (a
notification that waits, one in the hands of the callback, a count not yet
consumed, a poll under way) is covered by the credit, and no step adds to it
once the connection is gone.

**Live feed.**  `TypeInv` adds to the types that a service has a socket exactly
while its connection is open, and that nothing is on its way before the answer
to the token or to a service that has closed.  With it `OneStore` is inductive:
a store begins to live only at a log-in, on the log-in screen, where none lives
but those that are lost already; and whoever leaves disposes the store of the
moment.  `Forward` speaks of two states, and rests on `OrderInv`: what is on
the wire and what the receiver has not read rise and are not newer than the
newest reading, nothing on the wire is newer than anything unread
(`OrderPart`), and neither holds anything older than what the store of that
socket shows (`ShownPart`).  A lagging receiver drops from the front and a new
socket begins empty, so neither disturbs it.  An auth error ends the sequence
and is left out of its order.

What stays with TLC is liveness, for which there is no backend: `SafeValueClears`
and `CriticalValueAlarms` of `Alarms`, `CompletionCloses` of `BatchTracking`,
`RequestsFinish` of `DeviceRegistry`, `AnsweredWhenReachable` of `WritePath`,
`Converges` of `PlcClients` and of `LiveFeed`, `RejectedEnds` and `SocketsEnd`.
They hold on the instances of section 3 under the fairness given there.

## 5. Seen while modelling

These follow from the modelled code, too, and have no run of their own.

* The warning limits never raise an alarm: the test is in the `else` of "has a
  critical limit" (`protocol.rs:159`), and every entry of `ALARM_THRESHOLDS` has
  one.
* Two overlapping adds of one device leave two tasks that poll it
  (`routes.rs:59` and `113`; `main.rs:79`: "avoid double-polling"); without
  overlap `OnePollerIfSerial` holds.
* `clear_alarm` also clears alarms that nobody acknowledged; `models.rs:108`
  describes the state as "condition gone, was acknowledged".
* Shelving hides an alarm but not the next one: `has_active_alarm` does not
  count shelved rows, so a value that stays critical raises another.
* `unshelve_expired` runs only when somebody lists alarms (README.md: "Time-based
  shelving with auto-unshelve").
* A batch that ends while the server is down stays `running` until the next
  edge, as the first poll of a task only notes the state.
* Nothing calls `RateLimiter::cleanup`; the server is started without
  `ConnectInfo`, so clients without `x-forwarded-for` share one bucket.
* With overlapping requests a removed device may still be polled by a detached
  task, and its row may be saved after it was deleted.
* A write that was executed leaves no audit entry if the client hangs up before
  the answer or the task is aborted.
* The lockout counts from the first failure: five failures spread over more than
  15 minutes lock nobody out.  Sessions that expired are never purged.
* `OpcUaClient` publishes 0 for a register that has no cache entry (its monitored
  item was refused, which is only logged, or it is outside 1028..1035) and for a
  null value (`opcua_client.rs:162`, `279`, `350`); on the screen and in the
  alarm checks this is a measurement.
* A Modbus call on a connection that is half open waits for ever
  (`modbus.rs:43`, `55`, no time-out around them): the device is not polled again
  although the loop "auto-reconnects" (`protocol.rs:70`), and its writes are not
  answered.
* An OPC UA write that is under way when its device is disconnected or removed
  goes on in its blocking thread (`opcua_client.rs:215`): the client has been told
  of a failure when the PLC executes it.
* A shelving whose SELECT came before the alarm was cleared re-shelves the cleared
  row (`Alarms_resurrect`), which then returns as active.  As `clear_alarm` takes
  the newest row of a point (`db.rs:272`), an operator who does so again and again
  keeps the older ones from being cleared.
* If the table of devices cannot be read at the start, it counts as empty
  (`db.rs:146`): its devices are not polled until they are added again, and come
  back with a later start ("survives restart", `routes.rs:124`).
* A device that `config.toml` names twice is polled by two tasks; only the rows of
  the table are compared with what is registered (`main.rs:79`).
* The log-in form can be submitted again while the answer is awaited
  (`login_screen.dart:309`; only the button tests `_isLoading`), and `mounted`
  holds until the next frame.  Two answers in between make two stores; the first
  is overwritten and not disposed, contrary to `main.dart:107`.  It stays
  connected, and when its token is refused `_onWsAuthFailed` throws out the user
  of the moment.
* A WebSocket whose link is half open keeps its two tasks for as long as nothing
  is broadcast, that is while no device can be read: there is no ping.
* The app does not notice a half-open link either: it never sends after its
  token, and keeps showing the last values.
* A socket looks at its session once.  A session that is revoked or expires goes
  on to be fed until the socket closes.
* A token that takes more than 10 s to arrive gives `auth_timeout`, which the app
  takes for a refusal: the user is logged out although the session is valid
  (`websocket_service.dart:34` names `session_revoked` and `auth_failed` only).
* `DashboardStore.init` goes on after a `dispose` and starts a periodic timer
  that nobody cancels; `AuthService.logout` goes on after up to 3 s and forgets
  the user of that moment, who may have logged in since.

## 6. Not modelled, and what comes next

Not modelled for good: CSV export, discovery, configuration, history queries
(they keep no state between calls), the app's screens and the presentation part
of its store, and the two simulators, which are test doubles: the PLC of the
modules is free to do what they do, and more.

What comes next, in order of importance:

1. The polling loop as a whole: an abstract register-to-table specification that
   `Alarms` and `BatchTracking` refine, reading through `PlcLink`, with the tasks
   of `DeviceRegistry` instead of one task per device.
2. `LiveFeed` composed with `Sessions`, and its log-in and log-out split at their
   awaits.
3. `BatchTracking` composed with the batch reactor of `simulator/modbus_sim.py`,
   to see which edges a real reactor and polling rate can hide: a reconnect takes
   5 s, the reactor's complete phase 3 s.
4. Proofs about these compositions, and of those parts of the liveness arguments
   that are safety.
