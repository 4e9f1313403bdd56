# TLA+ specifications of mikrotik-traffic-monitor

The monitor is one Go process with one SQLite database. It polls MikroTik routers
over the RouterOS API, shows the traffic live over WebSockets, stores it, sends
alerts, and reboots routers on a schedule. The code is small; what is hard about
it lies between its parts: goroutines that share tables under one mutex, channels
that drop what does not fit, handlers that read and write the database in
separate statements, a wall clock that decides about reboots, and a process that
may stop at any moment.

The modules in this directory model those parts from the source. TLC checks them
on small instances, and TLAPS proves nearly all of the safety properties for
every value of the constants.

## Inventory

| Component | Source | State | Operations | What is hard |
|---|---|---|---|---|
| Device poller | `internal/poller/manager.go`, `FetchCountersOn` and `BytesToBps` of `internal/mikrotik/client.go` | registry of workers and stop channels; `status`, `lastErr`, `prev`, `latest`, `stats` | `sync`, `ReloadDevice`, `runDevice`, `pollOnce`, `setStatus` | a stopped worker goes on until it looks at its channel; `sync` acts on a list read earlier; broadcasts follow the unlock |
| Sample pipeline | `manager.go` (`storeSample`, `SampleWriter`), `cmd/server/main.go` | three bounded channels, the batch buffer | send, fan-out, receive, flush | full channels, a batch that fails as a whole, a consumer that stands still |
| Alert engine | `internal/alerter/alerter.go` | copies of rules and interfaces; per rule `conditionSince` and `cooldownUntil` | `reload`, `evaluate`, `fire` | sending blocks the engine; rules are edited and deleted under it |
| Reboot scheduler | `internal/rebootsched` | `reboot_last_run_at`, the ticker | `Due`, `tick`, `RebootDevice` | midnight, crashes, a clock that is set, sequential slow reboots |
| Users and sessions | `internal/models/users.go`, `sessions.go`, `internal/auth` | tables `users`, `sessions` | login, logout, validation, password change, user management, pruner | statements of concurrent requests interleave without a transaction; expiry is kept as text |
| WebSocket hub | `internal/wshub/hub.go` | clients, their subscriptions and bounded queues | `HandleWS`, `readPump`, `writePump`, `Broadcast*` | subscriptions are written without the lock; a snapshot races with broadcasts |
| Device, interface, rule tables | `internal/models/devices.go`, `interfaces.go`, `rules.go` | the tables | CRUD, `SetMonitoredInterfaces`, `CopyDevice` | cascades, ignored errors, a copy that reads in several statements |
| Migrations, seed, secret | `internal/models/db.go`, `internal/crypto` | `schema_migrations`, `app_settings` | `bootstrapMigrations`, `migrate`, `repairSkippedMigrations`, `seed`, `resolveSecret` | a crash between statements, databases that earlier versions marked wrongly, an ignored error |
| Traffic history | `internal/models/samples.go` | `traffic_samples` | insert, history, hourly pruning | times lose their fraction and their zone |
| REST handlers | `internal/api` | none of their own | one per route | they call the database and the poller in some order |
| RouterOS client | `internal/mikrotik` | a connection | connect, fetch, reboot | no timeouts; replies that lack counts |
| Web client | `frontend/src` | the page's state | WebSocket hook, pages | reconnection, merging history with live samples |
| The rest | `natsort.go`, `notify_validate.go`, forms and styles, build files | none | text and presentation | nothing for a model checker |

How they interact: a poll worker offers samples to the pipeline and broadcasts
them and the status through the hub; the pipeline feeds the alert engine and the
database; handlers change tables and then call `ReloadDevice`; the reboot
scheduler uses the engine to notify and calls `ReloadDevice` as well; the hub
asks the poller for a snapshot when a client subscribes. What would make each
part correct is the list of properties below. `PROJECT.json` lists the hazards
with their lines.

## Modules

`M` is the component, `MCM` its instances for TLC, `M_proofs` its theorems. A
definition with a suffix, such as `Wipe_keepsPrev`, is a faulty form of the one
that follows it. It belongs to no specification; replacing the right one by it
breaks one of the properties.

**`Poller`.** One action per critical section of `Manager.mu` and per database
read. A worker goroutine and its stop channel are one identity. `workers` is
`Manager.workers`; `table` is `status` and `lastErr`; `prev` and `stats` keep the
address that the counters and figures were read from, which is what the
properties tell apart. `spc` is the position of `syncLoop` and of every handler
in `ReloadDevice` and `sync`; `pc` the position of a worker in `runDevice`.
`setStatus` is two actions, the locked half and the broadcast. A device has one
monitored interface, and error texts are reduced to "not established" and
"broken".

**`SamplePipeline`** and **`LossyQueue`.** The pipeline is the code: three
channels, the fan-out with the sample in its hand, the writer's buffer, the batch
insert. `LossyQueue` is the promise to a consumer: what it gets comes in order
and at most once, and anything may be lost. The property `ChannelsServe` says
that the pipeline implements it for each of the two consumers, with the channels
and the fan-out's hand together as the queue. A device may have several workers
at once, those that were stopped and not yet returned and the one that serves it.
`takenBy` and `newest`, which no guard reads, keep whose each sample is and the
newest that was cached of a device.

**`Alerter`.** The engine's loop as `Receive`, one `Judge...` or `Fire` per rule,
`Sent`, and the reload in its two parts. The tables it copies are edited at any
time between two steps. A firing is two steps, since the notification between
them may take long.

**`RebootSched`.** `Due` is the function of the code, over a calendar with days
of `DayLen` ticks and weeks of `Week` days. The ticker's channel holds one tick,
as Go's does. `Crash` and `Restart` keep the rows and nothing else; `Jump` sets
the wall clock. `tick` is `Tick` (the list is read and the due devices chosen),
then `Mark`, `RebootDevice` and `Notify` for each of them in turn.

**`Accounts`.** One action per SQL statement. A request is authenticated in two
reads, and its role is the one it had then. A password is the number of its
changes. `Expires` is what becomes of an expiry that is formatted in local time
and parsed as UTC: the lifetime, shifted by `Zone`, which may be any integer.

**`Hub`.** Three parties: the workers that change a table under the poller's
mutex and broadcast afterwards, under the hub's read lock; a client's two pumps;
and the page. `pub[d]` is the broadcast of a device's worker, with the clients it
has still to be offered to. `rpc` is the position of `readPump`: while it is
`fill` the subscription is written without the lock, so a broadcast may find
anything there (`Passes`), and the runtime may end the process at a map that is
read while it is written (`MapRace`). `batch` is the snapshot it is sending.
`page` is the dashboard or the page of a device; `dirty` says that a state was
set and that the array of ids is new after the render, so that the effect of
`useWebSocket` sends the subscription again. `rest` is the answer to the page's
own request, which may be older than what it shows. The page of a device takes
any device's status for its own (DeviceDetail.jsx:42), and no other's samples:
`Touches` and `Takes`. Values are versions. `told` is the last one broadcast,
`behind` names the entries whose message a full queue lost or a broadcast
overtook, and `aged` those in whose place an answer to the page's request put an
older version.

**`Startup`** and **`DeviceTables`**. `Startup` is `models.Open`: one action per
SQL statement, none of them in a transaction, and `Crash` between any two. The
schema is the set of its tables and of the columns that migrations add; `Files`
lists the statements of the files in `migrations/`. `Origins` are the databases
that may be there: a new one, one of before the marks, one of each version, and
those an early version marked without running them, which is what
`repairSkippedMigrations` is for. `config` and `flags` are the rows that the
migrations convert. A secret is a number or a configured value. `cut` records the
files that an end of the process left half way and that cannot be run again
(`HalfDone`); a statement that fails does not enter it. `DeviceTables` extends it
by the three tables and the requests that write them while the server is open;
its process is the one that `Startup` starts and ends. A password is the key it
was encrypted with. `CopyDevice` is taken statement by statement (`CopyCreate`,
`CopyList`, `CopyInterface`, ...), and each may fail; `SetMonitoredInterfaces` is
one action, as it has a transaction. The checks of `createRule` and `updateRule`
and the write are two actions. The checks do not compare the interface of a rule
with its device, nor does the table: `astray` records the rules that were saved
with another device's.

**`PollCycle`.** What one poll computes, which `Poller` leaves out: the strategy
`FetchCountersOn` settles on, the interfaces of a reply one after the other with
the lock taken for each, the map of baselines that the poll holds on to, the
delta. The baselines are maps with numbers, so that a worker may go on with one
that a reload has taken out of the manager. A reading keeps, beside the count,
what had passed and which run of the counter it was (`seen`, `era`, `real`); no
guard reads these. A sample is its bytes. The router's counters pass bytes, wrap
at `Width`, start anew, and go away with their interface.

**`LiveChart`.** A sample's two ways to the page of its device: at once, through
the hub, and through the batches into the table and out again with the history.
Time is in ticks, of which a second has `Sec`; `Text` drops what is below the
second and `Parsed` takes local time for UTC. `latestTs`, `history` and `tail`
are the page's, and `Chart` is the merge it draws.

The other modules stand on their own, each with what it needs of its neighbours:
the pipeline of its producers the order of their steps, the engine of the
pipeline a bounded channel that loses samples, the poller of the hub the last
status that was broadcast, the hub of the poller one broadcast per device at a
time.

## Runs

Runs that pass:

| Run | Question | Bounds |
|---|---|---|
| `Poller_safety` | Are channels closed once, does every worker stay within reach, are wiped tables empty, do broadcasts agree with the table, is a rate taken on one router? | one device, two worker identities, two addresses, one request, one failed read |
| `Poller_live` | Do stopped workers return, and is an enabled device served in the end? | one device that starts disabled, one request |
| `SamplePipeline_flow` | Do both consumers see a lossy queue; is every sample stored once, in order, and does nothing get stuck? | three workers, two of them of one device, three samples, capacities 2, 1 and 1, batches of 2, one fault |
| `Alerter_rules` | Does a rule fire only when due, does it fire, and do edits reach the engine? | one interface, deleted and created anew with another id, one rule, two texts, four points in time, two edits, one fault |
| `RebootSched_slots` | Is every slot served once, in order, in its window? | one device, two plans, days of five ticks, a window of four, one edit, fault, crash and jump each |
| `Accounts_requests` | Do users, passwords, admins and sessions stay consistent when requests cross? | two users, two handlers, three tokens, four requests, two changes, one fault, a lifetime of two, a server one west of UTC |
| `Hub_feed` | Is no closed channel sent to, does a connected page follow the newest state, do broadcasts end and lost clients leave? | one device, statuses and samples, one connection at a time, queues of one, two changes, one wipe or fault |
| `Store_requests` | Does the server get up with a complete schema, keep its settings and its key; do rules stay with their devices, and is a copy faithful? | eight databases, two ends of the process, one ignored or failed statement, two requests beside the starts, one configured secret |
| `PollCycle_rates` | Does a sample report what passed between its readings, and all of it? | two interfaces, two workers, counters modulo 3, three bytes, one reset, replies that have all counts or lack one |
| `LiveChart_merge` | Are live samples in order, does the chart read forward, is it never behind? | two seconds of two ticks, servers a second west of, at and a second east of UTC, a queue of two, one fault |

Why they are enough. In `Poller` one request is a reload of a device that is
being polled, while `sync` runs; this is where an old worker meets a new one, and
devices share nothing but the mutex. More generations of workers are covered by
the proofs. In `SamplePipeline` each channel can be full and each flush can come
from the length or from the ticker; three samples are one of a stopped worker
between two of its successor. In `Alerter` four points in time hold a duration of
two, or a duration of one, a firing, a cooldown and a second firing; the clock
stops at its bound while samples go on, so nothing ends there. The two edits are
an interface deleted and created again, or a rule changed twice between two
reloads; several interfaces are left to the theorems. In `RebootSched` a window
of four ticks survives a failed statement and a slow reboot and still wraps
around midnight; with one device, the reboots of other devices appear as the time
that passes within a step, at most `MaxBusy`. In `Accounts` two handlers are what
a race needs, and two sessions are there from the start; a lifetime of two,
shifted by one, tells a session that ends early from one that ends at once. In
`Hub` two changes are an old and a new version of one entry, or a status and a
sample that fill a queue of one; connections are independent of each other but
for the lock, and for any number of them there is the proof. In `Store` two ends
are a migration that is cut and a second start that is cut as well; two requests
are a copy and an edit of its source, or a validation and an edit of the
settings. In `PollCycle` three bytes bring a counter around, and two workers are
the stopped one and its successor; states that differ only in maps nobody refers
to are counted once (`VIEW Live`). In `LiveChart` four ticks hold rows within the
window and before it, two samples of one second, and a history shorter than the
live samples. Runs that end with their bounds (`SamplePipeline`, `Hub`, `Store`,
`PollCycle`, `LiveChart`) do not check for deadlock: all samples may be drained,
a page may be closed for good, a configured secret may be refused, a router may
be silent.

What the bounds leave out: `Hub_feed` has one device, so that a page never hears
of another. The page of a device may, before the hub has read its first
subscription, since a client without ids hears of all, and for as long as a later
one is read into the map; the theorem `PageIsCurrent` covers it. The hub has one
broadcast per device at a time, although a stopped worker and its successor may
each be between their unlock and their broadcast.

Every module has a type invariant. It is a theorem for all but `PollCycle`, and
two runs name it, so that a mistake in it shows before it is proved about.

Two runs end in a counterexample, each against a sentence of the repository:

| Run | Says | Shows |
|---|---|---|
| `Hub_storm` | useWebSocket.js:63, "Re-subscribe when the device ID list changes" | each answer makes the page render, and each render subscribes again, without end |
| `Startup_legacy` | db.go:151, "fixes DBs where legacy bootstrap marked 003+ as applied without running them" | where 003 is marked and was not run, and 004 is not marked, 004 fails on the missing `notify_channel` before the repair is reached, in this start and in every other; no end of the process is needed |

Passing properties state their exceptions, and some are worth knowing: where an
exception is a hazard of the code, the property does not speak about that hazard,
and `PROJECT.json` says so at it.

*Polling.* A worker that was in a poll when its device was disabled writes its
status back for ever (`NoGhost`). After one failed `GetDevice` a worker is gone
while its registry entry stays (manager.go:219), so that no other is started
until the next reload; `EnabledIsServed` is about runs without failed reads. A
stopped worker that is in the middle of a poll can cache a sample older than its
successor's. `CachedFirst` allows that and nothing else: the cache falls behind a
sample that was sent only if another worker of the device cached one since. Such
a worker can set the successor's baseline back as well, so that bytes are counted
twice, or, after a reset, report bytes that never passed (`SampleIsTrue`). An
update whose row cannot be read back reloads nothing (`RateSameHost`). The first
reply that has any count is taken for all interfaces (client.go:133): one that it
lacks is read as 0, and a later change of the strategy shows all it ever counted
as one sample. A batch whose insert fails is lost, and so is what the channels
hold when the process stops (`NothingForgotten` is about runs in which nothing
failed and no device was deleted).

*Alerts and reboots.* A rule for all interfaces has one state for all, so that a
quiet interface resets a busy one, though AlertRules.jsx:260 offers it as "All
monitored interfaces" (`InterfaceRulePrompt` is about rules of one interface). A
device disabled after a tick of the scheduler began is still rebooted by it
(`DisabledSkipped`). A reboot may leave after its window when an earlier one was
slow; after a crash between the mark and the reboot the slot is lost.

*Accounts.* A login that overlaps a password change keeps a session with the old
password, and the revocation's error is ignored (`OldSessionsRevoked`). Two
administrators removed at once leave none (`CountedAdminStays`). The "24h
lifetime" of src/README.md:43 holds only where the server's time is UTC: the
expiry is written in local time (sessions.go:46-49) and read as UTC
(db.go:263-264), so that a session lasts longer by the offset to the east and
shorter to the west. `SessionLifetime` states the lifetime that the code gives,
for any offset: accepted until then and not after, and not ended before but by
somebody.

*Start.* A first start that ends inside 001, after `devices`, is taken for a
database of an old version by the next: 001 and 002 are marked, `sessions` is
missing, and the server never opens. One that ends inside 003, 004 or 005 finds
its own column there and never opens either. A database on which 003 was marked
without being run and 004 was not marked never opens, with no end of the process
at all (`LegacyOpens`). `StartsAgain` states both exceptions. An end within the
repair's run of 004 leaves a schema or a rule half converted, and the repair,
which looks at one column, sees nothing to do (`OpenIsComplete`,
`UpgradeKeepsSettings`). The error of storing a new secret is passed over
(db.go:76), and no password can be read after the next start
(`PasswordsReadable`).

*Copies.* `CopyDevice` passes no channels, so that the copied rules notify
WhatsApp only, and are not validated. Interfaces saved anew between its two lists
turn the rule of one interface into a rule for all (`CopyIsFaithful` is about
copies that nothing disturbed; a later statement of the copy that fails leaves
the new device with a part of it). The server takes a rule with another device's
interface: createRule and updateRule (handlers.go:507-550),
`ValidateRuleNotifyChannels` and the inserts (rules.go:86-133) never compare the
two. Such a rule is what `RulesWithinDevice` excepts (`astray`). The pages offer
only the device's own, and a copy sets it right, as it looks the name up on the
new device. A rule that was validated may be saved after its channel was turned
off; no property is about that.

*Pages.* A page is never at rest: each answer to a subscription is a status, and
each status makes it subscribe again (`Hub_storm`). So what it promises is stated
for every state (`PageFollows`): the newest of each entry is shown, or waits in
the client's channel, or is being broadcast or read for a subscription. Excepted
are a message that a full queue dropped and a snapshot that a broadcast overtook
(`behind`); these are mended only by a later subscription or broadcast. An answer
to the page's own request may put an older version in place of a newer one, and
then the page is about to subscribe again, which mends it (`aged`): the very
subscriptions that `Hub_storm` finds to be endless. A page of a device may show
another device's status (DeviceDetail.jsx:42) that was let through before a
subscription was read, until the answer to it comes. Samples that arrive before
the history are in the chart twice, and so are those within the second of its
last row, though DeviceDetail.jsx:110 speaks of them as deduplicated
(`ChartReadsForward`). East of UTC the last row lies in the page's future, and
the chart stands still for as long as the offset (`NeverBehind`); west of it, it
repeats.

## Fairness

`Poller`: goroutines that can run do, and calls to the database and to routers
return (weak fairness per goroutine). `select` picks at random among its ready
branches, hence strong fairness of `PollStop`: a closed channel is not passed
over for ever. Handlers and failures get none. `EnabledIsServed` holds without
failed reads and fails with one. The client library has no timeout, so "calls
return" is an assumption about routers.

`SamplePipeline`: the fan-out and the writer run; the alert engine gets no
fairness, as it may stand in a notification.

`Alerter`: the engine's own steps are weakly fair, since notifications have
timeouts. The ticker competes with the samples in a `select`, hence strong
fairness of `ReloadRules`.

`Hub`: broadcasts and `readPump` are weakly fair; `readPump` has a deadline, so a
lost connection ends it. `writePump` gets no fairness, as a write has no deadline
and may hang. `Hub_feed` asks nothing of the page (`ServerSpec`); `Hub_storm` has
a page that renders and reads what it is sent (`FairSpec`).

`Startup` and `DeviceTables`: the statements of a start run until the process
ends, and the service manager starts it again
(`deploy/mikrotik-monitor.service:13`, `Restart=on-failure`). The ends of the
process are bounded by `MaxStops`, failed starts are not.

`Accounts`, `RebootSched`, `PollCycle` and `LiveChart` have no liveness
properties. That no slot is left out is stated as an invariant about windows that
have closed.

## Theorems

The theorems hold for any sets and bounds that satisfy the named assumptions of
the modules (`PollerAssumption`, `PipelineAssumption`, `AlerterAssumption`,
`SchedAssumption`, `AccountsAssumption`, `HubAssumption`, `StartupAssumption`,
`TablesAssumption`, `LiveChartAssumption`). They say that the special values are
apart from the others, that bounds, times and capacities are numbers, that the
sets one counts in are finite, and of the migrations that the last file is never
among those an early version marked without running. TLC evaluates them in every
run. Some theorems have hypotheses of their own, named below. A candidate for an
inductive invariant was checked by TLC on the instance of its run before it was
proved.

* `Poller_proofs`. `ChannelsClosedOnce` and `NoWorkerIsLost` come from one
  inductive invariant, `RegistryInv`. Neither is inductive alone: an identity may
  be given to a new goroutine only if the registry does not hold it, and a worker
  may be stopped for a device only if it is that device's worker. `EntryOK` adds
  what links the two: a running worker that the registry holds is held for its
  own device only. `AtMostOneWorker` follows. `TablesWiped` shows that every
  write to the tables of a device without a worker comes from a stopped one; it
  needs `NoOrphan`. `ClientsAreTold` (`FeedAgrees`) follows from `FeedInv`: once
  a device's worker has reported, the clients were shown what the table holds,
  unless it stands before the broadcast, which is then of what the table holds;
  before its first report the table is as it was wiped, so that the report
  changes it and is broadcast. `RatesOfOneHost` (`RateSameHost`) follows from
  `HostInv`: an edit has a reload to follow until it is done (`ReloadPending`);
  when none is to follow and no stopped worker wrote, the baseline and the live
  worker are of the host in the row (`SameHost`); and nothing polls a device
  before it was created, which reloads nothing (`Unborn`).
* `SamplePipeline_proofs`. The sequences of the pipeline form one line of
  numbers, from the table back to the producers (`Chain`), strictly increasing;
  `RowsInOrder` (`StoredOnce`) is its end. `CacheIsAhead` (`CachedFirst`) holds
  for any number of workers of a device. A sample in a channel, in the fan-out's
  hand or about to be sent is `Fine`: not newer than the newest that was cached,
  and not newer than the cache unless that is another worker's. It stays so,
  since a worker takes its samples in order and caches each before the next
  (`Own`, `CacheInv`): what it caches is newer than all of its own.
  `AllReceivedIsStored` is `NothingForgotten`, inductive as it is.
  `ChannelsImplementQueues` is the refinement: each consumer's channel, the
  fan-out's hand and the channel of samples, one after the other (`Line`), are a
  `LossyQueue`, action by action: an offer appends, a drop in the middle loses, a
  receipt takes the head.
* `Alerter_proofs`. `FiresOnlyWhenDue` from `DueInv`: what is remembered lies in
  the past, `conditionSince` is later than the last unmet sample and the last
  firing, and `cooldownUntil` is that of the last firing once its notification
  has ended. `InterfaceRulesFire` (`InterfaceRulePrompt`) is the other direction.
  The engine goes by ids and the property by names, so the invariant relates the
  two: an id that is used stays with its name, in the table and in the engine's
  copy (`NamesInv`); where the property has seen the condition met, the rule
  remembers it from as early (`OverInv`); a rule to be judged has the sample's
  interface (`TodoInv`); and a cooldown is that of a firing (`UntilInv`).
* `RebootSched_proofs`. `RebootedOnce`: `SlotsOnceInOrder` becomes inductive with
  `MarkedPast` (the mark of a device is not earlier than a slot it was marked
  for) and `WaitingIsNew` (a slot that waits in a tick is later than all of
  those, and not later than the tick). The argument does not mention the clock's
  direction, which is why setting the clock back does not reboot twice.
  `DueFindsTheCalendar` (`DueIsCalendar`) assumes that the window is not longer
  than a day, since `Due` looks at two days. `DisabledIsSkipped` needs that a
  change made after the tick began carries a moment not before it (`SkipInv`).
  `EverySlotIsServed` (`SlotServed`) assumes `EnoughTime`: the devices are
  finitely many, the window is at most a day, and at least `Limit`, which is one
  round, in which all devices are rebooted slowly, another for each failed
  statement, and a minute. `ServeInv` is a measure: the time until the scheduler
  looks again (`Ahead`) and what failures may still cost (`Spare`) end before the
  window of an unmarked slot does. It needs to know what a mark stands for
  (`LastInv`): a mark lies in the window of a slot that was served, and windows
  of one plan do not meet, so that it hides no other. The run is tighter than the
  hypothesis: there one device has one failure in a window of four.
* `Accounts_proofs`. `OldSessionsGone`: `OldSessionsRevoked` states its
  exceptions, a login that overlapped the change and a revocation that is under
  way or failed, and is inductive with `LoginSeen`: a login holds a password that
  the user has had. `LastAdminStays` (`CountedAdminStays`): what a handler knows
  of administrators, that there are so many or that there is another, stays true
  until another handler comes between (`Known`). `SessionLivesItsTime`
  (`SessionLifetime`), for every offset of the server's time from UTC: what the
  table holds as the expiry of a session is its birth, the lifetime and the
  offset (`Lifetimes`), and with that both what validation accepts and what the
  pruner deletes are decided.
* `Hub_proofs`. `ClosedIsNotSentTo`, from `FeedInv`: that no broadcast is about
  to send to a closed channel is not inductive; what is, is that the hub holds
  exactly the clients that `readPump` serves, that their channels are open, and
  that a broadcast has only such clients left. `Unregister` needs the lock alone,
  and so finds no broadcast to take a client from. `PageIsCurrent`
  (`PageFollows`) is the longest argument of the project. A table's entry holds
  what is about to be broadcast, or what was broadcast last, unless it was wiped
  (`StoredInv`). Of the connections at most the page's is up, its first
  subscription waits until it is served, and a batch exists only while one is
  read and sent (`LinkInv`). The subscriptions of a device's page, and what is
  answered to them, are of that device only (`OwnInv`), so that another's status
  gets into its channel only ahead of an answer. A sample under way is an older
  one than was told, or the one stored (`SampleInv`). Then, for each entry that
  concerns the page, one of the ways of the property holds (`CurrentInv`), which
  is shown for each step: an offer puts the broadcast at the end of the channel
  or the entry into `behind`, an answer replaces what a subscription has cleared,
  and a request that brings back an older version makes the page dirty.
* `DeviceTables_proofs`, which holds those of `Startup` as well.
  `PasswordsStayReadable`: an open server has the key that its rows were
  encrypted with, unless a new secret was not stored, and that key is never the
  empty one, which alone is replaced (`KeyInv`). `SchemaIsComplete` and
  `SettingsAreKept` come from `StartInv`, with one part for what of the file at
  hand has run and what is left of it (`LeftInv`), one for which tables and
  columns come with which file (`SchemaInv`), one for the converted rows
  (`SettingsInv`) and one for what is there once a stage of the start is over
  (`ReadyInv`); the files are cases of one argument about a file that ran to its
  end. `RulesStayWithin` (`RulesWithinDevice`): whether the interface of a rule
  is its device's own is the same in the hands of the request that has checked
  it, in what a copy has listed and in the row, because ids are not used again;
  the rows of which it is not are those of `astray` (`RuleInv`). `TypeCorrect`
  has the counters' bounds besides (`BoundsInv`).
* `LiveChart_proofs`. `LiveSamplesInOrder`: the tail ascends and ends at
  `latestTs` or before (`LiveInv`). `PageIsNeverBehind`: all that arrived is at
  `latestTs` or before, and that is in the tail or the history's last row
  (`ShownInv`). `ChartIsForward`: the samples on their way to the table, its rows
  and the history ascend (`WayInv`, `HistoryInv`), and what is in the tail came
  before the history or is later than the text of its last row (`MergeInv`); what
  is left is arithmetic of seconds.

Only model-checked:

* Liveness, and with it fairness and `ENABLED`: out of the prover's reach.
  `EnabledIsServed`, that stopped workers return, that broadcasts end, that lost
  clients leave, that a start gets up, that samples drain and that edits reach
  the engine are shown on the instances of the runs.
* `CopyIsFaithful`, whose statement counts the rules of both devices.
* `SampleIsTrue` and `SampleIsComplete` of `PollCycle`.

## Not modelled

* The hourly removal of rows older than the retention time, seven days unless the
  settings say otherwise: nothing that is modelled reads them, and it shares no
  state but the table.
* The formatting of messages and rates, the forms of tokens and recipients, the
  classification of interfaces, natural sorting: functions of text.
* Timeouts of router calls: the code has none (client.go:27). That calls return
  is the fairness assumed; a router that stops answering holds its worker, or the
  scheduler's reboot, for as long as the connection stands.
* The lists and tests among the REST handlers, retention settings, static files,
  forms, build and deployment: they keep no state of their own.
* The RouterOS protocol is an outcome that is chosen.

## Plan

The modules are complete. What is left are proofs, in this order:

1. `DeviceTables`: `CopyIsFaithful`. The counts of rules become lemmas about a
   set that gains or loses one; the copy's lists and its rows are related as long
   as nothing has disturbed either device.
2. `PollCycle`: `SampleIsTrue`, from what each baseline in each map stands for:
   the count, the run of the counter, and what had passed. The wrap of the
   counter is the one step that needs arithmetic modulo `Width`.
3. `PollCycle`: `SampleIsComplete`, from the same invariant.
