# A TLA+ model of industrial-hmi

industrial-hmi is an operator station for a production line: a simulated or
mirrored production model, presenters and an alarm store over it, GTK, Qt and
console front ends, and a set of back ends (TCP, HTTP, MQTT, serial, Modbus,
OPC-UA) that feed the model, command it, or update the firmware of a board. This
directory holds TLA+ modules of its services, back ends and operator pages, above all
of the parts whose correctness depends on the order in which threads, callbacks,
crashes or the two ends of a line take their steps; the TLC configurations that check
them; and TLAPS proofs of their safety properties.

Paths below are relative to the repository. `PROJECT.json` maps every definition
to its source lines and lists runs, mutants, findings, hazards and theorems.

## 1. The system: components, state, interaction

| Component | State | Operations | Who calls it |
|---|---|---|---|
| `core/SpscQueue.h` | ring, `head_`, `tail_` | `push`, `pop`, `size` | one producer thread, one consumer thread |
| `integration/OtaSession` | stage of one update, frame in flight, resend count, progress | `start`, `onFrame`, `onTick` | its `OtaAgent` only |
| `integration/OtaAgent` | `io_context`, thread, latches, published snapshot | `start`, `stop`, `frameSink`, `progress` | any thread; frames come from the serial thread |
| `presenter/AlertCenter` | active alarms, shelved alarms, history ring | `raise`, `clear`, `acknowledge`, `shelve`, `unshelve`, `tick`, `clearAll`, `clearHistory`, snapshots | presenters on any thread, operator, HTTP readers |
| `gtk/.../AlertsPanel` | queued refresh, history toggle | deferred `refresh` | signals of `AlertCenter`, GUI thread |
| `model/SimulatedModel` + `SystemStateMachine` | lifecycle state, work unit, equipment, pass rates, overrides, subscribers | commands, setters, `tickSimulation`, `initializeDemoData`, `clearCallbacks` | GUI, TCP, OPC-UA, ingest bridges |
| `presenter/DashboardPresenter` | previous state, cached view models | model callbacks, click handlers | the thread that caused the callback |
| `integration/modbus` | poll and drain threads, queue, register cache | `start`, `stop`, `pollOnce`, `drainOnce` | `ModbusBackend` |
| `IntegrationManager`, `IntegrationBootstrap` | list of back ends, start errors | build, `startAll`, `stopAll` | `main()`, before and after the front end |
| `TcpBackend`, `HttpBackend` | acceptor, one client; listener, request pool | `start`, `stop`, commands, routes | manager, clients |
| `MqttClient` | session, subscriptions, read chain, heartbeat | `start`, `stop`, `publish`, `subscribe` | manager, telemetry, ingest |
| `SerialBackend`, `FlashFrameParser`, `SerialFrameParser` | two buffers, write queue | `armRead`, `routeChunk`, `send` | manager, `OtaAgent` |
| `integration/opcua` | server and address space, client and monitored items, node map, ingest cache | `start`, `stop`, writes, methods, notifications | manager, model callbacks, remote clients |
| `ProductionTelemetryBridge`, `PrimaryToSecondaryBridge`, `MirrorModel` | subscriptions, the secondary's values | model callbacks, setters | the thread that changed the model |
| `historian` | batch, maintenance thread, three tiers in SQLite | enqueue, flush, demote, query | model callbacks, own thread, History page |
| `auth`, `UsersPresenter`, account dialogs | user table with schema version, session, journal, badge | migrate, seed, login, edit, delete, avatar, sign-out | GUI |
| `config`, `core/Bootstrap`, `core/i18n` | configuration, file, watcher thread, locale | load, validate, reload, save a field | start-up, watcher, settings page |
| `model/DatabaseManager`, `ModelContext`, `ProductsPresenter`, `ProductsPage` | products and recipes, I/O queue, filter, list, forms | asynchronous changes, reload, search, recipe save | GUI and I/O thread |
| `gtk/view`: `MainWindow`, `SettingsPage`, `ThemeManager`, `DashboardPage` | pages, timers, palette, layout, switches | settings, rebuild, reload, sign-out, rendering | GUI thread, idle callbacks |
| `ml`, `mcp`, `console`, `qt` views | mostly formatting | | |

How they interact. A command enters the model on the thread of whoever issues it,
and every callback (presenter, telemetry, historian) runs synchronously on that
same thread. The model copies the subscriber list and the value under its mutex and
calls after releasing it, so a callback can be overtaken. Presenters turn callbacks
into alarms in `AlertCenter`, whose signals queue a refresh for the GUI thread.
Modbus samples go through an `SpscQueue` from the poll to the drain thread and
through `ModbusIngestBridge` into the model. A firmware update is an `OtaSession`
driven by an `OtaAgent` over the serial back end. `main()` builds the back ends from the
configuration, starts them in order on the main thread and stops them in the same order;
each one runs its own thread in between. The window posts database work to the I/O thread
and gets its answers as idle callbacks; a language switch destroys and rebuilds the pages
while callbacks to the old ones are still queued.

What is hard, and the property that would catch it, is the list of hazards in
`PROJECT.json`. In short: unlocked state shared by the GUI and the network threads;
values copied before an unlock and used after it; presenters that are replaced
while the alarms they raised live on; caches that outlive what they describe;
stop/start races and self-joins; lost, late, repeated and torn frames; a queue at its
limit; crashes between two writes; transactions shared by two threads.

## 2. Modules

| Module | Models | Kind |
|---|---|---|
| `BoundedFifo` | what a queue promises | abstract |
| `SpscQueue` | `core/SpscQueue.h` | detailed, implements `BoundedFifo` |
| `OneUpdate` | what one firmware update promises | abstract |
| `OtaSession` | `OtaSession.cpp`: table, guards, calls | operators and session state |
| `OtaUpdate` | `OtaSession` composed with a line and the board | composition, implements `OneUpdate` |
| `OtaAgent` | `OtaAgent.cpp`, with `OneUpdate` as its session | composition |
| `AlertCenter` | `AlertCenter.h` and `AlertsPanel.h` | composition |
| `ModbusPollLoop` | poll loop, `BoundedFifo`, bridge, model fields | composition |
| `ProductionModel` | `SimulatedModel`, `SystemStateMachine`, `DashboardPresenter`, window rebuild | composition |
| `IntegrationBackend` | `IntegrationManager`, `IntegrationBootstrap`, what every back end's start and stop share | life cycle |
| `SocketServers` | `TcpBackend.cpp`, `HttpBackend.cpp` | extends the life cycle |
| `MqttClient` | `MqttClient.cpp`, subscriptions of `SensorIngestBridge` | extends the life cycle |
| `SerialBackend` | `SerialBackend.cpp`, `FlashFrameParser.cpp`, `SerialFrameParser.cpp` | extends the life cycle |
| `OpcUa` | `Open62541Server`, `Open62541Client`, `OpcUaBackend`, `FactoryNodeMap`, `OpcUaIngestBridge` | extends the life cycle |
| `ModbusClient` | `ModbusClient.cpp`, `ModbusPdu`, `ModbusBackend` | extends the life cycle |
| `Integration` | all back ends of a deployment under one manager | composition |
| `Access` | user store, migration, seeding, sign-in, account administration in both front ends, journal | component |
| `Historian` | `HistorianBridge`, `SqliteHistoryStore`, `HistorianMaintenance`, `HistoryPage` | component |
| `Stations` | notifications of the primary, telemetry and mirror bridges, `MirrorModel` | component |
| `Products` | `DatabaseManager`, `ModelContext`, `ProductsPresenter`, `ProductsPage` | component |
| `Configuration` | `ConfigManager`, `ConfigValidator`, `ConfigFileWatcher`, `Bootstrap`, `i18n` | component |
| `Dashboard` | `DashboardPage`, the view models and click handlers of `DashboardPresenter` | component |
| `Shell` | `MainWindow`, `SettingsPage`, `ThemeManager`, keys, sign-out | component |
| `Workbench` | the six components above, side by side | composition |
| `AlertCenterProofs`, `OtaAgentProofs`, `SpscQueueProofs`, `PlantProofs`, `OtaUpdateProofs`, `AccessProofs`, `IntegrationProofs`, `WorkbenchProofs` | theorems | proofs |
| `MC*` | instances for TLC | |

Some definitions belong to no specification: each is a plausible mistake in the
definition that follows it, says so in its comment, and `PROJECT.json` names the property
that finds it.

**SpscQueue.** A call is cut at its memory accesses. `PushCheck`/`PushRefused` are
the acquire load of `head_` in `emplaceImpl`, `PushWrite` the element, `PushPublish`
the release store; `PopCheck`/`PopEmpty`/`PopRead`/`PopPublish` likewise. An acquire
load may return any value stored since the last one this thread saw (`Loadable`),
which is what coherence allows; `IndexMod` is the number of values of `size_t`.

**OtaSession / OtaUpdate.** One operator per event of the Boost.SML table (`EvStart`,
`EvAck`, `EvInfo`, `EvNak`, `EvTimeout`), one for an event without a row
(`Unhandled`), and the three calls. Rows are tried in the table's order. `OnTick` is
a tick past its deadline; since the deadline may pass before or after the answer is
read, it is simply enabled whenever the code would act. `OtaUpdate` adds the line
(losing, damaging, overrunning) and the board. The board's firmware is not in the
repository: its actions are what `docs/protocols/uart-flash-v1.md` and the session's
expectations say, are marked external, and include giving up, rolling back, flash
errors and, in one run, frames the protocol does not have. Payload bytes and the
16-bit wrap of `seq` (an image of more than 16 MB) are left out.

**OtaAgent.** Caller actions (`StartLatch` .. `StopJoin`) are the steps of `start()`
and `stop()` between which another thread can act; `stopMutex` is `lock`. Handlers on
the agent thread are cut at the session call, `publishProgress`, `fireDoneIfTerminal`,
the `DoneFn`, and the re-arming of the tick. `owed`, `stopped` and `doneStopped` are
history variables: which `stop()` calls began after `start()` took effect, which
returned, whether the `DoneFn` called `stop()`.

**AlertCenter.** Each public mutator is one action, the critical section, after which
the thread owes the signals the code emits once the mutex is released; `EmitSignal`
is one of them. `Refresh` and `RenderShelved` are the panel's two reads.
`stale` is a history variable: which of the panel's lists differ from the store. A
call that finds nothing to do (an unknown key, an empty store) changes nothing and is
a stuttering step. `tick()` has one caller, the presenter's work-unit handler, which only
the auto-refresh timer drives; `SwitchTimer` is the operator switching that timer or the
tab, and `ticking` says whether it runs. The compact layout, which shows only a count, is left out, and the
test-and-set of `pendingRefresh_`, which the code performs from several threads
without a lock, is taken as one step.

**ModbusPollLoop.** The drain thread's `wait_for` is cut into its predicate
(`DrainCheck`) and the wait, because `notify_one()` is called without the mutex and
may fall between them. `Stop` .. `StopReturns` are `stop()`; `Start`, `SpawnPoll` are
`start()`. The bridge's per-register cache and the model's field are kept for each
register; `InitializeDemoData` and `SimulationTick` are what the model itself does to
those fields, `OtherWriter` what the operator's switch, a TCP command, an MQTT topic or an
OPC UA node does. `lastPushed` and `held` are history variables; `held` is the set of
fields the bridge was the last to write.

**ProductionModel.** A call is a sequence of steps in `todo[thread]`, cut wherever
another thread can intervene. State commands take no mutex in the code, so
`ProcessEvent`, `EnterState`, `AfterDispatch`, `CompareNotified` are four steps.
Notifications copy the value in one step and run the presenter's handler in another.
`Rebuild` is `MainWindow::rebuildPages`; `RepublishAll` is the Qt front end's
counterpart, which keeps the presenter. A callback that runs on a presenter which is
gone is undefined behaviour: it does what it did before, or nothing
(`OrphanDoesNothing`). `crossed`, `orphaned` and `abandoned` are history variables.

**IntegrationBackend and its extensions.** `mgr` is the program counter of the main
thread: building, `startAll()`, up, `stopAll()`, done. `running`, `thread` and `io` hold,
for each back end, the `running_` flag, its worker and its socket. `StopLatch` is the
`exchange(false)` at the head of every `stop()`, `Joined` the join and release,
`WorkerGivesUp` a worker that lowers its own flag. Each extension adds its part:

- *SocketServers*: the TCP worker serves one client at a time, so `Accept` needs a free
  loop and a silent client holds it; a broken accept ends serving while `running_` stays
  up. The HTTP listener thread passes "bound", "listening", "closing"; `httpReady` is the
  bounded ready poll of `start()`, which may give up first.
- *MqttClient*: `Dialled` and `ConnAck` run on the main thread; the worker then runs the
  handlers other threads posted (`RunPosted`), the heartbeat and the read chain, whose
  remaining-length field is read byte by byte. Bytes are classes of frames.
- *SerialBackend*: the device's stream arrives in chunks of any size. `consumeFrames` and
  `consumeLines` are the two parsers with their resynchronisation, over four classes of
  bytes; the reference is the parse of the whole stream at once. `Kept` is the line
  parser's discard of a buffer above `kMaxBufferBytes`. `send` posts, `Enqueue`
  and `writeNext` run on the worker; after a read error the io loop works off what it has
  and runs dry (`serialRunsDry`), while `running_` stays up and `send` still accepts.
- *OpcUa*: a model event in the node map is cut at its check of `running_`, the load of
  the server pointer and the write, on whichever thread changed the model (the TCP
  worker, the OPC-UA client's thread or a remote method).
- *ModbusClient*: requests with transaction ids that wrap, a slave that answers late or twice, and
  the rule which errors close the connection.

**Access.** The disk (users, schema version, columns, journal) survives a `Crash`; session,
window, dialogs and badge do not. `LadderStep` is one statement of the migration,
`seedDefaultUsersIfEmpty` one default account. Dialogs run nested main loops, so opening and submitting
one are two actions. A change of an account is two steps: the presenter's call writes the
table and owes the journal its row (`owed`), `RecordOwed` is the INSERT, and only a `Crash`
can come between. The journal is kept as what its successful rows add up to (`ledger`).
`stale` and `missed` are history variables: a failed re-read, and the accounts whose newest
change got no journal row.

**Historian.** One store operation holds the mutex for a transaction and is one action; a
sweep is two. Rows carry the samples they average. A chart is a query of `kChartLimit` rows
fed point by point to a widget that keeps `kTrendChartCapacity` of them (`addPoints`). `doubled` and `lost` record the samples
for which the code ignores a failed DELETE or COMMIT.

**Stations.** A setter is store, copy, then callbacks, each a step of the writer's thread;
so is the mirror's. `NotifyAgain` is a call that notifies without having written
(a changed status, a loaded recipe, a tick that left the rate alone, a start of
production). `undisturbed` records the signals for
which, since a call that started alone, no write has overlapped another call.

**Products.** `acts` of the operator, the I/O thread's queue, the statements of a recipe
transaction on the GUI thread (which share the connection with the I/O thread), and the
idle callbacks that bring results back. `orphaned` records a result for a page that was
rebuilt away, which is undefined behaviour and modelled as nothing being shown.

**Configuration.** The file has a body (absent, torn, or a document of language, palette
and validity) and a modification time. `pollOnce`, the reload with its listener, and the
read, write, remove and rename of a save are steps; `ProcessDies` may fall between them.

**Dashboard.** One line, its switch, the panel's buttons, confirmations, the role, and two
back-end threads whose view models queue as idles. Rendering a card sets the switch, whose
handler commands the model: the echo is part of `updateEquipmentCard`. A confirmed start
also runs the production cycle, which announces the line before and after (`Cycle`).

**Shell.** The window's runtime state (full screen, auto refresh, interval, log tail),
what the settings page shows, theme and palette, the timers that really run (`ticks`),
and the queue of idles of the settings signals. `strays` are timers of windows left behind
by a sign-out. `replaced` is a history variable: the page was rebuilt since the interval
was last chosen on it.

**Workbench** composes the last six. They share no variable; the only event common to them
is a rebuild of the window, which all but `Dashboard` have as an action of their own, with
what it does to their state (pages and timers in `Shell`, the page in `Products`, the
language in `Configuration`, the lost subscriptions in `Stations` and `Historian`).
`Dashboard` follows one page from its construction on. A behaviour therefore
moves one part (`focus`) and leaves the others at rest, which reaches in each part the
states it reaches in the full product.

## 3. What the runs check

| Run | Result | Shows |
|---|---|---|
| `spsc_queue` | holds | no two plain accesses to one slot (`NoSlotRace`); `size()` never underflows (`AdvisorySizeBounded`); the ring is a bounded FIFO (`ImplementsFifo`) |
| `ota_update` | holds | done means the board runs and keeps the target (`DoneMeansKept`); acknowledged bytes are in flash; the target's bank is never erased; CONFIRM follows a check of the version; an update is final once ended and always ends (`ImplementsOneUpdate`) |
| `ota_resend` | violated | finding 1 |
| `ota_agent` | holds | DoneFn once and with the right verdict; snapshot never ahead; `stop()` joins for every caller (`StopMeansStopped`); every `stop()` returns; a started update is reported or stopped |
| `alert_center` | holds | one row per key; state agrees with condition; an unacknowledged alarm leaves only by the operator's hand; the panel is current when nothing is pending; shelving ends while the refresh timer stays on (`ShelfExpires`) |
| `modbus_ingest` | holds | a clean stop loses nothing; `stop()` ends; the bridge converges to the device, and so does every field nobody else wrote after it (`FollowsDevice`) |
| `production` | holds | alarms and buttons agree with the model while one thread commands it (`AlarmsTellTheTruth`); quality alarms heal |
| `two_commanders` | violated | finding 2 |
| `access` | holds | nobody signs in on a half-migrated store (`SignInMeansMigrated`); the journal adds up to the user table, but for accounts whose newest change lost its row (`JournalTellsAccounts`); session and badge never keep rights that were withdrawn (`SnapshotsMatchStore`) |
| `integration` | holds | every subscription reaches the broker; chunk boundaries are invisible to the parsers, but for a line too long for the buffer, which spoils nothing after it (`ChunkingInvisible`); serial writes go out whole and in order; no OPC-UA write misses its node; Modbus answers belong to their requests; `stopAll()` leaves no worker but that of a broken MQTT connection; `startAll()` and `stopAll()` end except in three named waits |
| `workbench` | holds | no accepted sample is lost or counted twice and the last hour's chart has them all or the newest that fit (`HistoryComplete`); a call that starts alone brings mirror and broker to the primary's value, and late copies of it do no harm (`StationsAgreeWhenQuiet`); product list, recipes and answers are right when quiet (`ProductsAgree`); memory follows the file (`ConfigFollowsFile`); the dashboard tells the line and offers a role only what it may do; the settings page shows what is in force, the interval until a rebuild (`SettingsInForce`); the last palette picked is the one shown |
| `passive_view` | violated | finding 3 |

Where a property has an exemption, the exemption is a code path that breaks it and is
named in the comment: a failed DELETE or COMMIT (`HistoryComplete`), a write that overlaps
another call (`StationsAgreeWhenQuiet`), a page rebuilt under its callbacks
(`ProductsAgree`), a failed save or an edit before the watcher started
(`ConfigFollowsFile`), the three unbounded waits (`MainThreadAdvances`), the refresh timer
off (`ShelfExpires`), a field another source wrote last (`FollowsDevice`), a failed INSERT
or a crash before it (`JournalTellsAccounts`), a line above the buffer's size
(`ChunkingInvisible`), a rebuilt settings page (the interval in `SettingsInForce`), a stop
inside the `DoneFn` (`StopMeansStopped`), an ERROR that a rebuild met and crossed callbacks
(`AlarmsTellTheTruth`), a broken MQTT connection (`StopLeavesNoWorker`). What is exempt is
not shown; the hazards in `PROJECT.json` say which part of each is left open.

Each module also has a type invariant or the type part of one; those of `AlertCenter`,
`OtaAgent`, `SpscQueue`, `ModbusPollLoop`, `ProductionModel` (`ProductionTypeOK`), `OtaUpdate`
and `Access` are proved, the others' as far as a theorem needs them. Some definitions state what the code does not keep and no run
checks; they document the observations below: `StopMeansStoppedAlways`,
`LeavingErrorClears`, `NoWriteToDeletedServer`, `DayChartHasLastHour`, `LocaleFollowsConfig`, `OneTickSource`,
`StoppedBridgeIsMuted`. `PublishedSlotsWritten`, `OneConsumer`, `HeldFieldsShowCache` and
`ConfigAlwaysValid` are checked by no run because they are proved.

### Findings

1. **A resend is not always harmless** (`OtaSession.cpp:450`). INFO is exempt from the
   sequence check. If INFO_REQ is resent because its answer is late, both answers
   arrive; the second one finds the session in `beginning`, no row matches, and the
   update stops with `ProtocolError`. The protocol document (section 6) calls a
   resend harmless.
2. **Two commanders lose the fault alarm** (`SystemStateMachine.cpp:89`). The state
   machine says its callers serialise it; `SimulatedModel`'s command methods take no
   mutex. With a network client beside the GUI the machine can rest in ERROR with no
   alarm.
3. **The dashboard is not passive** (`DashboardPage.cpp:690`). Rendering a view model sets
   the switch, and the switch's handler cannot tell that from a click: it writes an audit
   row and commands the model. `src/gtk/view/README.md` says that everything in that
   folder only renders and forwards gestures. Two quick toggles can echo for ever.

### Observations no run states

Met while reading the code for the model; each is in a module as the code has it.

- *OtaAgent*: after a `stop()` inside the `DoneFn`, a `stop()` from outside returns without
  a join (`OtaAgent.cpp:166`; `OtaAgent.h:77-81` exempts only the first).
- *AlertCenter*: with auto-refresh off, or another tab than the dashboard in front, nothing
  calls `tick()` (`DashboardPresenter.cpp:235`, `MainWindow.cpp:1015-1032`) and a shelved
  alarm stays suppressed past its deadline.
- *Production*: a rebuild of the window in ERROR leaves the system-error alarm up for ever
  (`DashboardPresenter.h:235`); `startProduction()` in ERROR still runs the cycle
  (`SimulatedModel.h:105-109`); after a rebuild an unchanged Modbus register is never
  passed on again, and neither is one whose field the operator, TCP, MQTT or OPC UA
  overwrote: the cache holds the old sample (`ModbusIngestBridge.cpp:59`); `clearCallbacks()` on a language switch
  ends recording, telemetry and mirroring (`SimulatedModel.h:84-102`).
- *Back ends*: MQTT waits for its CONNACK without a bound, and `stop()` does nothing after
  the connection was lost; TCP serves one client at a time without a read timeout (against
  `TcpBackend.h:43`) and an accept error ends serving silently; an HTTP listener that comes
  up after the ready poll misses `stop()`; after a serial read error the io loop runs dry
  while `running_` stays up, so `send()` accepts what is never written, and a write error
  drops what was accepted; what is read from a line above 4096 bytes depends on how the port
  cut it (`SerialFrameParser.cpp:68-71`); a Modbus answer that
  does not decode keeps the connection, so one extra answer desynchronises it for good; a
  model event may write through a server that was just deleted (`OpcUaBackend.cpp:57`).
- *Access*: a crash between two ALTER TABLEs makes the store unopenable and the HMI then
  runs without sign-in (`main.cpp:151-158`); a crash while seeding leaves no
  administrator; an administrator may demote himself as the last one
  (`UsersPresenter.cpp:221-223`); the result of `record()` is ignored, and a crash between
  the table write and `record()` leaves a change the journal does not know.
- *Historian*: a failed COMMIT leaves the transaction open, a failed DELETE counts twice
  (`SqliteHistoryStore.cpp:375`); a batch is dropped whatever was accepted
  (`HistorianBridge.cpp:138`) and a stale one is flushed only by the next sample; a cut-off
  inside a bucket gives two rows for one minute; the 24-hour chart reads the minute tier
  and lacks the last hour; the page asks for 300 rows for a chart widget that keeps 60,
  where a comment says the two match (`HistoryPage.cpp:18-19`, `ui_sizes.h:28`).
- *Stations*: `stop()` does not mute an event under way (`PrimaryToSecondaryBridge.h:55-59`
  says it does); overlapping calls deliver in either order and may leave the mirror with
  the older value until the next call that starts alone.
- *Products*: a refused `post()` never calls back; an edit that falls inside a recipe
  transaction is rolled back with it though reported as stored
  (`DatabaseManager.h:191-251`); callbacks capture a page that a rebuild destroys;
  `ModelContext::stop` discards what its comment says it drains.
- *Configuration*: a crash between remove and rename leaves no file
  (`ConfigManager.cpp:854-855`); an edit within one timestamp, or before the watcher is
  built, is missed; a failed save leaves memory changed.
- *Shell*: with the light-only palette saved, the program starts dark, without the
  palette's colours and with the dark button locked (`SettingsPage.cpp:122-125`,
  `ThemeManager.h:172`); the interval shown falls back to the default after a rebuild while the timer
  keeps the chosen one, and the default cannot then be chosen back at once, since the spin
  button already shows it (`SettingsPage.cpp:99`, `291-307`);
  a sign-out leaves the old window's timers (`MainWindow.cpp:875-886`).

### Bounds, and why they are enough

- `spsc_queue`: two distinguishable items, `Capacity` 4 (usable depth 3), `IndexMod` 8:
  the indices wrap twice over the slots and once over their own range, and the queue is
  full, empty and partly filled with stale views on both sides.
- `ota_update`: an image of 11 bytes in chunks of 4 and words of 2 gives two full
  chunks and a short padded one; the empty image is the other size. Two resends, three
  frames per direction: enough for a duplicate to be in the line together with its
  original and the next frame. `seq` needs no bound: the session sends finitely many
  frames. Deadlock is not checked, because an update ends.
- `ota_agent`: two callers (the first and the other one), two frames, an image of one
  byte. Three concurrent stops add only copies of the waiting caller.
- `alert_center`: two keys and two threads, a history of one entry, a shelf of zero or one
  clock steps. One priority: the order of the rows matters only to the comparison
  of two snapshots.
- `modbus_ingest`: one checkpoint register and one equipment register, two values, a
  queue of two, so that one walk fills it and the next is dropped.
- `production`: one line, one checkpoint, a work unit of one operation; the GUI thread
  and one other. In this run the other thread sends supply levels and pass rates;
  `two_commanders` lets it send state commands.
- `access`: the three seeded accounts and one newcomer, two changes after seeding, one
  crash at any statement of the ladder or the seeding. Deadlock is not checked: the
  program may end.
- `integration`: six deployments that between them have all eight kinds and every pair
  that shares a thread or an event (TCP commands reaching OPC-UA, client and server);
  two TCP clients, one topic subscribed before the start and one later, two posts and one
  frame; every stream of four bytes over the four classes and three longer ones chosen
  for nested start bytes; headers of two bytes and payloads of at most one; two sends;
  four Modbus reads, one repeated answer, one answer that is late, and three transaction
  ids, so that the ids repeat. The line buffer holds three bytes, fewer than the streams
  have, so that lines are discarded and resynchronised.
- `workbench`: three samples, five clock steps with retentions of 2 and 3 and buckets of 2
  and 4, one failing statement, one exit: a sample can pass through all tiers and a
  crash fall before, between and after the sweeps; queries of three rows into a chart of two
  points, so that either limit can cut. Two writers, two signals, two writes.
  Two rows, three acts of the operator, a queue of two, one failing statement, one
  rebuild. Two edits, one save with one fault, two boots. Two gestures and two remote
  changes. Four settings requests and one new sign-in.

Neither `integration` nor `workbench` checks for deadlock: both end when the program
is closed or the bounds are used up.

### Fairness, and why the code justifies it

- `OtaUpdate`: weak fairness of `HostTick` only. The agent's timer re-arms itself; this
  is what `OtaAgent`'s `DoneOrStopped` shows. Nothing is assumed of line or board.
- `OtaAgent`: the agent thread runs, and a call that was begun is scheduled. The strong
  fairness on a tick ending the session is `OneUpdate`'s own promise (an update that is
  ticked for ever ends), which `ota_update` establishes.
- `AlertCenter`: emitted signals and the clock proceed. Strong fairness of `Tick`, which is
  enabled only while the refresh timer runs (`ticking`): a running GLib timer fires again
  and again, whatever else the GUI thread does. That it stays on is a hypothesis of
  `ShelfExpires`, not an assumption.
- `ModbusPollLoop`: the threads run and a begun `stop()` goes on. That a register's
  reads succeed and find room again and again is a hypothesis of `FollowsDevice`, not an
  assumption of the specification.
- `ProductionModel`: a begun call goes on; the refresh timer gets its turn (strong
  fairness), which holds while auto refresh is on and the dashboard tab is in front.
- `Integration`: the main thread's call in progress and each worker's loop are scheduled,
  and a Modbus read ends at its deadline. Nothing is assumed of brokers, clients, slaves
  or the operator, so the waits that depend on them are named in `MainThreadAdvances`.
- `Access` and `Workbench` state safety only and have no fairness.

## 4. What is proved

TLAPS checks these for every value of the constants that satisfies the named assumptions;
the bounds of the runs (`Max...`) are constants too, so the theorems hold for any of them.
Every theorem has the form `Spec => []P` (or `Spec => P` for a property of steps and for a
refinement): an inductive invariant that holds initially, is kept by each action, and
implies P. Boolean types are kept apart (`FlagsOK`): the prover with arithmetic is poor at
Boolean-valued variables. Where the inductive invariant of a module was not
obvious TLC checked it on the module's run first.

**What the assumptions ask beyond types.** `CapacityAssumption`: the capacity
is a power of two, at least two (the code asserts it), and `IndexMod` a greater multiple of
it, as 2^64 is. `ModbusConstants`: the placeholder `None`
is neither a value nor a sample. `StationsAssumption`: `"none"` is no signal.
`DeploymentsAssumption`: a deployment switches at least one back end on.
`ModbusAssumption`: the requests a slave may be late by and the answers that come twice are
together fewer than the transaction ids (2^16); with one id less TLC finds an answer taken
for that of another request. `ProductionConstants`: lines, checkpoints and the system error
have different alarm keys (`equipment-N`, `quality-N` and `system-error` in the code).
`HistorianAssumption`: raw rows are kept at least the hour of the shortest chart and minute
rows at least a day, as the defaults are (`config_defaults.h:204`); the validator
does not look at these two settings, and with a shorter one the chart has gaps.
`SerialAssumption`: a stream is a sequence of the bytes the parsers tell apart. The two
theorems about `ProductionModel` ask in addition that no other thread than the GUI commands
the state machine (`"state" \notin Remote`), which is what finding 2 shows to be necessary.

`AlertCenterProofs`
- `TypeInvariant`: inductive as it stands once the helper lemmas say what `Capped` and
  `Erased` return.
- `StateMatchesConditionHolds`: inductive together with `TypeOK`. One step per call, the
  shelved state carrying the condition through.
- `OneRowPerKeyHolds`: needs the lemma that removing a position from a list without
  duplicates removes exactly that key.
- `NothingVanishes`: an action property; for every other call the tracked keys do not
  shrink, or the one that leaves was acknowledged.
- `PanelIsCurrent`: not inductive, since signals are emitted after the mutex is released.
  `PanelInv` says that each list that is stale is *awaited*: by a refresh in the main
  loop's queue or by a signal some thread still has to emit. `CallSignals` shows that every
  call that changes what a list shows owes its signal, `SnapshotKept` that the others
  change no list.

`OtaAgentProofs`
- `TypeInvariant`: includes that `stopMutex` is held by exactly the caller between
  acquisition and the end of its join.
- `StopMeansStoppedHolds`: the goal is not inductive. `StopInv` adds why no thread can
  appear after a stop: a live thread with a cleared `running` (and no stop from the
  `DoneFn`) means that a caller holds the mutex to join it; a stop that is owed a join
  began after `running` was set, so nobody is about to set it again and a caller
  still in `start()` finds it cleared.
- `SnapshotFollows`: `SnapshotInv` adds where in a handler the snapshot may lag.
- `DoneOnce`: `DoneInv` ties the count of calls to the latch `doneFired`, and the latch to
  an ended session whose verdict is the one handed out; with `SnapshotInv` the snapshot
  is current when the `DoneFn` is called, and `OneUpdate` makes an ended session final.

`SpscQueueProofs`
- `RingInvariant`: `RingInv` goes round the ring through four indices, head as the producer
  last saw it, head, tail as the consumer last saw it, tail, and bounds the way by `Depth`.
  The lemmas about `Distance` replace modular by plain arithmetic.
- `SlotsNeverRace`, `SizeStaysBounded` follow from it: two indices less than `Capacity`
  apart are different slots, and what a stale load can see is still in order.
- `PublishedWritten`: the slots between head and tail hold items.
- `RingImplementsFifo`: the whole refinement. `PushPublish` is the abstract push,
  `PopPublish` the abstract pop, all other steps stutter; `ItemsInv` ties the element in
  hand to the slot it was written to or read from.

`PlantProofs` (`ModbusPollLoop` and `ProductionModel`)
- `HeldFieldsFollow`: a field the bridge wrote last shows the bridge's cache; `HeldInv` adds
  that the pass rates among them are marked as fed, which the simulation's walk spares.
- `OneConsumerAtATime`, `TypeInvariant`: `PhaseInv` says which of the two threads can be
  alive, and what it may hold, in each phase of `start()` and `stop()`.
- `StopLosesNothing`: `NothingLost` says of every register that the newest sample the queue
  accepted is the last one of it in the queue or, when the queue has none, the one in the
  drain thread's hand, or else the one in the bridge's cache.
- `PlantTyped`, `PlantAlarmsTrue`: the goal speaks of moments without a call, so the
  invariant has to follow every call through its remaining steps. `PlantInv` has six parts.
  `ListsOK`: which steps a thread's list can hold and in which order; only the GUI thread's
  has those of the state machine. `WiringOK`: nobody listens only between
  `clearCallbacks()` and `initialize()`, and only another thread can be in a callback
  of a presenter that is gone. `StateHeard`: the GUI thread's copies of the state are fresh,
  and observers, presenter and panel are behind only while it is about to tell them.
  `FaultAlarmOK`: the fault alarm is that of the state it was last decided by.
  `CopiesFresh` and `WrongIsAnnounced`: a line whose alarm is wrong is about to be announced
  by some thread, and a copy of a status under way is the status, unless the line was
  crossed. The lemmas say what taking, appending and replacing steps does to a list.

`OtaUpdateProofs`
- `UpdateInvariant`: `UpdateInv` has five parts. `TransferInv`: how far the transfer is in
  each state of the table. `WireInv`: what may be on the line given the frame in
  flight, and in which order. `BoardInv`: what the board runs, given what the session has
  heard. `FlashInv`: what is in flash while the session counts bytes, also when the frame in flight has been
  written and its ACK is lost.
- `DoneIsKept`, `AckedIsWritten`, `TargetKeptWhole`, `ConfirmsChecked` follow from it.
- `UpdateImplementsOneUpdate`: each step of session, line and board is a step of
  `OneUpdate` or a stutter (`PromiseSafety`). Its fairness half stays with TLC.

`AccessProofs`
- `TypeInvariant`: with `RowsInHand`, that an open dialog works on a row of the table.
- `SignInIsMigrated`: `MigrationInv` relates the stamped version to the columns that exist
  at every rung of the ladder, so a crash between two rungs is covered.
- `JournalIsAccounts`: one lemma per call shows that the table changes only for the account
  whose journal row is then owed; the INSERT brings the ledger to the table or, like a
  crash, puts the account into `missed`.
- `SnapshotsAreStore`: `AccountInv` adds `FreshIds` (ids at or above `nextId` were never
  used) and `SignedInSound`, of which the goal is the part that is shown.

`IntegrationProofs`
- `LifeInvariant`: `LifeInv` is about all back ends at once. `ListInv`: each is registered
  once and `startAll()`/`stopAll()` are at one of them. `FreshInv`: nothing of a back end
  exists before its `start()`. `StepInv`: where a `start()` of several steps stands.
  `WorkerInv`: a live worker belongs to a back end that can still be stopped, is being
  joined, or has lost its MQTT connection. The lemmas first reduce each of the 40-odd
  actions to what it may do to the life cycle of *its* back end.
- `StopLeavesNone` follows from `WorkerInv`.
- `NoWriteIsLost`: `NodesInv`, no callback is wired before the nodes are there.
- `AnswersDoMatch`: transaction ids wrap, so comparing them is not enough. `BacklogInv`
  counts: a read takes one answer away, so answers in the socket and requests still
  unanswered outnumber the reads only by the answers that came twice. From it `LagInv`
  bounds how many requests an answer is behind when a read gets to it, and two requests
  less than `TidMod` apart have different ids (`IdsDiffer`).
- `SubscriptionsReach`: `TopicsInv`, a topic of the table is with the broker or its
  SUBSCRIBE is posted.
- `SerialInOrder`: `SendInv`, line, queue and posted handlers laid end to end are what
  `send()` accepted.
- `ChunksAreInvisible`: `StreamInv`, frames delivered and the frame parser's buffer are what
  it makes of the bytes read so far at once; from each line start after which lines fit, so
  are readings and line buffer, and before it whatever was discarded. Its step is a fact about the
  algorithms: parsing `a \o b` is parsing `a`, then the rest it left followed by `b`, and
  joining the results (`FramesInPieces`, `LinesInPieces`; the two parsers are chained by the
  text the first passes on). A proof by induction is not available as such (see below); the
  lemmas take a shortest `a` for which the claim fails, which exists by `LeastNat`, and show
  that the parser's one step makes a shorter one. That the two recursive definitions define
  functions at all is proved in the same way (`Recursion`, `FramesDefined`,
  `LinesDefined`).

`WorkbenchProofs` (each component has its own invariant; `PartSteps` says that a step of
the workbench is a step of one of them)
- `ConfigFollows`: `FollowInv` extends the goal over the watcher's intermediate steps.
- `ConfigStaysValid`: memory is only ever replaced by a text that was validated.
- `DashboardTells`: `DashInv`, a switch that does not show the line has a view model coming,
  from the queue of the main loop or from a thread that has still to post it.
- `SettingsAreInForce`: `ForceInv` adds when the log switch exists and that a timer may
  already run before the start delay is over, but never twice; `IntervalStep` follows the
  interval through the pages.
- `PaletteIsShown`: `PaletteInv`, a layout or theme behind the configured palette has a
  callback waiting, and the last palette that waits is the configured one.
- `StationsAgree`: `SignalInv` follows every call under way for an undisturbed signal: each
  carries the primary's value or has still to copy it, and whom it has passed has that
  value; so whichever delivers last does no harm (`DoesNoHarm`) and the last to end leaves
  all of them settled.
- `ProductsDoAgree`: `TransactionInv` (order of a save's statements), `ListedInv` (the list
  is current, or the list or a reload is coming), `RollbackInv`, `AnswerInv` (operations
  are numbered, run and handed over in one order, and one without an answer is somewhere
  on its way).
- `HistoryIsComplete`: `HistoryInv` is about tables and disk alike, since a crash or a
  failed COMMIT puts the one in the other's place. `StoreOK`: a raw row is that of one
  sample and no two are of the same; a sample is behind at most one row of one tier unless
  a failed DELETE doubled it; what is behind a minute or an hour row is older than raw rows
  are kept. `StoreInv`: both are of the accepted samples not rolled back, the tables
  have all of them, and they differ only in an open transaction. `SamplesNew`: a
  sample that waits is in no table yet. The lemmas about `InOrder`, `RowsAt` and `Averages`
  say that enumerating a finite set of numbers in order names each exactly once, so a
  demotion keeps what it does not fold and folds each row into exactly one average; the
  chart follows from the third part of `StoreOK` and a count of the rows of the query.

### Only model-checked

- Liveness: `StopEnds`, `FollowsDevice`, `ShelfExpires`, `EveryStopReturns`,
  `DoneOrStopped`, `QualityAlarmHeals`, `MainThreadAdvances`, and the fairness half of
  `ImplementsOneUpdate`. Temporal reasoning with fairness and `ENABLED` is beyond the proof
  system's back ends.

Every invariant that a run checks is proved. Of the action and temporal properties
`NothingVanishesUnseen`, `ImplementsFifo` and the safety half of `ImplementsOneUpdate` are.
The library's induction theorems take an operator as a parameter that no back end can
instantiate; where an argument is an induction it goes through the least-number
principle instead, which is stated of a set.

## 5. What is not modelled, and why

The remaining components of `PROJECT.json` are listed there with reasons. Byte
formats (CRC, MQTT and Modbus packets, JSON), the SQL text, password hashing, image
preprocessing, logging, translation catalogues and drawing are data or library work: no
interleaving or failure changes what they compute. Telemetry formatters, the throughput
meter, the inspection and health presenters and the console and MCP loops are
sequential code over state that is modelled elsewhere. The Qt front end is modelled where
it differs in behaviour (account pages, sign-out, `RepublishAll`), not its widgets. The
destruction of `OtaAgent::Impl` on its own thread, and torn `std::map`s under data races,
are outside the value domain of the models.

## 6. Plan

1. Done: the queue, the firmware update and its agent, the alarm store, the Modbus path,
   the production model; the integration layer with all its back ends; accounts; the
   services and pages of the workbench.
2. Done: proofs of every safety property the runs check (section 4), among them the
   refinement of `BoundedFifo` and the safety half of that of `OneUpdate`.
3. Open: the presenters and front ends listed as not modelled, `clearCallbacks()` under the
   other subscribers, and a crash between the two file operations of a configuration save
   (the two hazards without a property).

## 7. Running it

    tlc -config MCAlertCenter.cfg MCAlertCenter
    tlapm AlertCenterProofs.tla

`PROJECT.json` names the module and the configuration of every run.
