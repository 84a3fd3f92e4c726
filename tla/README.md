# renderer-service-upnp: a verification development

TLA+ models of renderer-service-upnp, the TLC runs that check them on small
instances, and TLAPS proofs of their main invariants for all instances.

renderer-service-upnp is a D-Bus service that lets its clients control the UPnP
media renderers (DMRs) of the local network.  It is one process with one GLib
main loop and no threads.  Everything happens in *dispatches* of that loop: a
D-Bus message, a UPnP notification, the answer to a UPnP action, an HTTP
request, an idle, a timer.  A dispatch runs to its end, nested callbacks
included; what makes the program hard is the order of the dispatches.  So an
action of a module is one dispatch, with everything it changes.

Paths below are relative to `src/src/` of the repository.

## 1. Inventory

| Component | Sources | Modules | Status |
|---|---|---|---|
| Task processor and tasks | `task-processor.c`, `service-task.c`, `async.c`, `task.c` | `TaskProcessor`, `RequestBroker`, `TaskProcessorProofs`, `TaskProcessorSafety` | modelled |
| D-Bus service and lifecycle | `renderer-service-upnp.c` | `Lifecycle`, `LifecycleProofs`; requests and clients in `TaskProcessor` | modelled |
| Host service | `host-service.c`, end of `device.c` | `HostService`, `HostServiceProofs` | modelled |
| Discovery of renderers | `upnp.c` | `Renderer`, `RendererProofs` (`TaskProcessor` for the queue) | modelled |
| Device contexts and subscriptions | first third of `device.c` | `Renderer`, `RendererProofs` | modelled |
| Device properties | middle of `device.c` | `Properties`, `PropertiesProofs` | partly |
| Device commands | end of `device.c` | `Commands`, `CommandsProofs`; as asynchronous tasks in `TaskProcessor` | modelled |
| Settings | `settings.c` | `Lifecycle`, `LifecycleProofs` | modelled |
| Logging | `log.c` | `Lifecycle`, `LifecycleProofs` | modelled |
| Errors | `error.c` | none | constants |
| Test clients | `test/*.py` | none | users of the service |
| GLib, GUPnP, libsoup | external | assumptions, see 10 | external |

**Task processor and tasks.**  State: the table of queues, keyed by (source,
sink); for each its pending tasks, current task, process idle, `defer_remove`,
the `cancelled` flag of a construction; `running_tasks`, `quitting`.
Operations: add a queue, add a task, start, process (an idle), complete, cancel
a queue, remove the queues of a source or of a sink, quit, free.  The D-Bus
methods add client requests; `rsu_device_new` adds the three steps of a
construction; both kinds of task call back into the processor when they
complete.  *Hard*: cancellation of what is running, deferred removal, callbacks
that arrive late, cancelling from inside a task's own processing, a table that
changes while it is walked.  *Correct if*: every callback finds its queue and
task; `running_tasks` counts; nothing pending is forgotten; a client's requests
run in order; each request is answered once; nothing works on for a client that
is gone; the process does quit, and does not publish what it did not build.

**D-Bus service and lifecycle.**  State: the watched clients, the signal
handlers, the bus connection, the upnp object, the main loop, the quit idle and
its 1 s timer.  Operations: start-up, the bus and the name, the methods of the
manager and of the renderers, `Cancel`, `Release`, loss of a client,
SIGTERM/SIGINT, loss of the bus name, quit, freeing.  *Hard*: quitting in any
state of the queues, asked for several times and also before the bus was
acquired.  *Correct if*: the process quits when its last client goes (unless
`never-quit`) or when it is told to, and never with a request unanswered.

**Host service.**  State: one web server per interface with its port, counter
and table of hosted files; per file its owners, number, mapping and reference
count.  Operations: `HostFile`, `RemoveFile`, loss of a client, GET, HEAD, the
end of a response, deletion.  *Hard*: responses that outlive the file, clients
that share a file, servers closed and started again, a preferred context that
moves between two requests.  *Correct if*: a URL names one file as long as its
server runs, what is hosted stays mapped while it is sent, one client's hosting
does not depend on another's, and no server outlives its last file or the last
client.

**Discovery of renderers.**  State: the map of known renderers
(`server_udn_map`) and of those under construction (`server_uc_map`), the
resubscription timer of each device.  Operations: a renderer appears on or goes
from an interface, the construction ends, the timer fires, unsubscribe, delete.
It calls the device functions below, starts and cancels queues of the task
processor, and tells the D-Bus service of found and lost renderers.  *Hard*:
interfaces come and go at every point of an asynchronous construction whose end
is one more idle.  *Correct if*: what is known is what is on the network, and
what is on the network gets exposed.

**Device contexts and subscriptions.**  State: the array of contexts (one per
interface); per context and service a proxy, its subscription, its "subscribed"
flag, its retry timer, its callbacks.  Operations: append, delete and choose a
context, subscribe, switch, lose, renew and give up a subscription.  *Hard*:
flags, timers and handler connections of three services that are updated by
hand on each path.  *Correct if*: the service listens on the preferred context
and only there, a set flag tells the truth, and every event is handled once.

**Device properties.**  State: the cached D-Bus properties of the renderer and of
its player, the list of play speeds, the maximum volume, the rate.  Operations:
LastChange and sink events, the initial query, `Get`, `GetAll`, `Set`.  *Hard*: the
cache is filled by events, by the first query and by the answers to queries for
the position, in any order, and read by one dispatch for an answer that a later
one sends; the initial query may fail in part.  *Correct if*: the cache follows
the renderer, every change is signalled, so that a client that follows the
signals knows what is cached, and the two lists of speeds stay aligned; rates,
volumes and durations are converted within their width.

**Device commands.**  One UPnP action each, on the preferred context at the time
they run; seek and volume convert their arguments, PlayPause chooses by the
cache.  *Hard*: actions of several control points meet at the renderer in
another order than their answers; what the cache says is older than what the
renderer does; doubles, durations and 32 bits.  *Correct if*: what is read back
is what was asked for.

**Settings and logging.**  State: the key file, `never-quit`, log type and levels,
the file monitor, the delayed reload; the log's type, masks and flags, and the
mask of syslog.  Operations: copy of the system's file for the user, loading,
defaults, monitoring, reload, update of the log, trace.  *Hard*: edits while a
reload is due, files that come, go and lack keys, a mask that syslog does not
take.  *Correct if*: the settings end up as the file has them, and the log writes
what they ask for.

The hazards, each at its line with the properties that would catch it, are in
`PROJECT.json`.

## 2. Modules and plan

| Order | Module | What it states | State |
|---|---|---|---|
| 1 | `TaskProcessor` | queues, requests, constructions, shutdown | done |
| 2 | `TaskProcessorProofs` | where tasks are: its first inductive invariant | done |
| 3 | `HostService`, `HostServiceProofs` | web servers and files | done |
| 4 | `Renderer`, `RendererProofs` | a renderer's contexts, construction, subscriptions | done |
| 5 | `RequestBroker` | abstract: each client's requests to a sink are served one at a time, in order, given up as a whole, answered once; `TaskProcessor` implements it by a refinement mapping | done |
| 6 | `TaskProcessorSafety` | order, answers, wake-ups, chain ends: the second inductive invariant; the refinement of 5 | done |
| 7 | `Properties`, `PropertiesProofs` | the cache of player properties, LastChange, PropertiesChanged, play speeds | done |
| 8 | `Lifecycle`, `LifecycleProofs` | start-up, the bus, signals, settings and their reload, the log | done |
| 9 | `Commands`, `CommandsProofs` | the device commands, the values they convert, a renderer that executes them | done |
| 10 | `Loops` and further proofs | induction over the rounds of a loop; every safety property of a passing run has a theorem | done |
| 11 | `Construction` | composition of `TaskProcessor`'s construction queue with `Renderer`'s phases: each phase is a state of the queue | planned |

`TaskProcessor` and `Renderer` overlap in the construction of a device: the one
has its queue, the other what its steps do.  `TaskProcessor` and `Lifecycle`
overlap in the shutdown: the one has the queues, the other reduces them to the
number of running tasks.  `Properties` and `Commands` overlap in the cache of
Volume, PlaybackStatus and Position: the one has its readers, the other the
renderer behind it.

No module has a recursive operator: a loop over a list is a recursive function of
the number of rounds, over one operator for the round (`Take`, `Read`), so that
`Loops` can reason about it.  Every module but `RequestBroker` has an `MC` module that EXTENDS it with
the small sets of its configurations.  Definitions whose comment begins with
"Mutant" are deliberately wrong variants of the definition after them: no
specification uses them; each is the plausible bug against which one property
has been tried (`PROJECT.json`, "mutants").

## 3. TaskProcessor

A queue key is a pair: (client, sink) for client queues (`Routes`), (build,
`RSU_SINK`) for constructions (`ServiceKeys`).  A task is `<<key, n>>`, the n-th
put on the queue.  `status` says where each task is, in the terms of the code:
queued; with an action in flight; with its completion pending as an idle; stuck;
completed; dropped.

| Code | Model |
|---|---|
| `processor->task_queues`, `queue->tasks`, `current_task`, `idle_id`, `defer_remove`, `cancelled` | `queues`, `tasks`, `current`, `idle`, `defer`, `cancelled` |
| `running_tasks`, `quitting`, the `on_quit_cb` idle, the 1 s timer and the end of `main` | `running`, `quitting`, `onQuit`, `loop` |
| `g_context.watchers`, `task->invocation`, replies sent | `watchers`, `invocation`, `replies` |
| `prv_add_task` and the D-Bus methods; `Cancel`; `prv_remove_client`; `prv_lost_media_server`; signals and name loss | `AddTask`, `Cancel`, `RemoveClient`, `LoseDevice`, `Terminate` |
| `prv_task_queue_process_task` with each kind of process callback | `ProcessSync`, `ProcessAsync`, `BeginProtocolInfo`, `CompleteStep`, `FailDeclare` |
| UPnP callbacks, `rsu_async_task_complete`, `prv_task_queue_finally_cb` | `ActionCallback`, `AsyncTaskComplete`, `ServiceActionCallback`, `ChainEnd` |
| `rsu_task_queue_task_completed` | `TaskCompleted`, called by every action that completes a task |
| `prv_task_queue_cancel`, `g_hash_table_foreach` over it | `CancelQueues`, `Visited` |
| `prv_context_quit_cb`, `prv_context_mainloop_quit_cb` and clean-up | `ContextQuit`, `MainLoopQuit` |

Runs:

- **clients**: three routes (two clients of one renderer, one of which also talks
  to the manager) and one construction; one client has two requests for the
  renderer.  Clients and the renderer may go, requests may be cancelled, the
  construction may fail or lose its proxy, and the process may be told to quit
  at any moment.  Shows that no queue is stalled (`IdleFindsTask`, `NoLostWakeup`)
  or doomed for good (`DoomedQueueIsRemoved`), that requests are answered once
  (`AnsweredOnce`), that nothing works for a client that went
  (`NoWorkForTheGone`), that callbacks find their queue (`CallbackFindsQueue`,
  `RunningCount`), that nothing half-built is published (`ExposedOnlyIfBuilt`) and
  that a shutdown is not lost (`QuitNotForgotten`).
- **liveness**: under fair dispatching, with constructions that neither fail nor
  lose their proxy, requests are answered (`RequestsAnswered`), constructions end
  (`ConstructionEnds`), and the process quits after its last client
  (`ShutsDown`).
- **stuck**: a way in which it does not quit, see 9.

`RequestBroker` says what all this amounts to for a client, without queues: a
request is new, waiting, served or over; a route serves its requests one at a
time and in the order they were made (`Serve`, `Finish` demand `FirstInLine`);
what is given up is all that waits on a route (`Finish`, `Cancel`), and then what
is being served there has its answer now; each request that is over has been
answered once.  `ImplementsBroker` is the refinement, under the mapping `stage` of
`status`, checked by the run **clients** and proved in
`TaskProcessorSafety`.

## 4. HostService

`servers`, `port`, `counter` are the servers of the interfaces; a hosted file is
an entry `<<interface, file>>` with `owners`, `id`, `mapped` and `downloads`.  A
server gets any port of `Ports`, one that an earlier server had included, and
counts its files from 0.  `orphans` are responses whose file has been freed while
they were being sent: libsoup goes on with data that is no longer mapped, and its
callback gets the freed record.  History is in `starts` and `started` (which server
an interface has), `given` (the URLs that were returned, and by which server) and
`severed` (a file was freed while it was being sent).

`HostFile`/`HostFileFails` model `rsu_host_service_add` (the second one leaves the
server started and the counter incremented, as the code does), `RemoveFile` and
`LostClient` the two ways of `prv_remove_client`, `Get`, `HeadRequest` and `Finished`
the HTTP side.  `FinishedOrphan` is the end of a response whose file has been
freed: undefined behaviour; it passes unnoticed, ends the process, or takes a
reference of a file hosted since at the same address.

- **hosting**: two clients, one renderer whose preferred interface moves between
  two, two files, two server starts on one port; files may fail to be hosted.
  `UrlNamesFile`: over removal, renumbering and failure, as long as the server
  runs.  `MappedUntilSevered`: overlapping GET and HEAD requests, as long as no file
  was freed under a response.  `OthersUndisturbed`, `FilesHaveOwners`: what one
  client does leaves the other's files alone.  `ShutWhenDone`: no step takes a
  server's last file and leaves the server.  `NothingOutlivesClients`: what stays
  when `RemoveFile` looks on another interface than `HostFile` did, or when the
  first file of a server fails, goes with the last client.
- **idle_server**: see 9.

## 5. Renderer

Renderers share no state that these handlers read, so one stands for all.
`phase` says in which map it is and how far its construction is; `via` is the
context whose proxy the construction uses.  `contexts`, `subscribed`, `retry`,
`timer` are the fields of the device and of its contexts; `live`, `notify` and
`handlers` are what GUPnP and GObject hold for them: the subscription, the
callbacks of `add_notify`, the connected subscription-lost handlers.  A lost
subscription runs all connected handlers one after the other (`Handled`).

| Code | Model |
|---|---|
| `prv_server_available_cb` | `Available` |
| `prv_server_unavailable_cb` | `Unavailable` (`LoseContext`, `LoseLastContext`) |
| the steps of `rsu_device_new`, `prv_device_chain_end` | `BeginProtocolInfo`, `GetProtocolInfoCallback`, `Subscribe`, `Declare`, `ChainEnd` |
| `prv_subscribe_to_service_changes` | `ResubscribeTimer` |
| `prv_*_subscription_lost_cb`, `prv_re_enable_*_subscription` | `SubscriptionLost`, `RetryExpires` |
| `rsu_upnp_unsubscribe`, `rsu_upnp_delete` | `Unsubscribe`, `Delete` |

The queue is abstracted to the phase: `Completed` and `Cancelled` say what
`TaskProcessor` establishes of the completion and the cancellation of a
construction's task.

- **renderer_losses**: two interfaces, one preferred, everything that can go
  wrong: `SubscribedIsPreferred`, `SubscribedIsHeard`, `ContextsArePresent`,
  `TimerFindsContext`.
- **renderer_exposed**: three interfaces, prompt chain ends, a construction that
  keeps its proxy: `KnownIsPresent`, `SubscribedOrPending`, and,
  under fair dispatching, `PresentIsExposed`.
- **renderer_forgotten**: see 9.

## 6. Properties

The cache of one renderer.  `props` is the table of player properties with the
keys it has so far; `CanDo` stands for the five Can properties of transport
actions, which are always written together, and `PlaybackStatus` for the two
track properties that events handle alike.  `view` is what each client has learnt,
`reported` what the renderer said last.

| Code | Model |
|---|---|
| `props.player_props`, `props.synced`, `transport_play_speeds`, `max_volume`, `rate` | `props`, `synced`, `speeds`, `maxVolume`, `rate` |
| `prv_change_props` with a builder, `prv_emit_signal_properties_changed` | `Signal` |
| `prv_props_update`, "if (!synced)" | `SyncAnd`, `SyncOnce` |
| `prv_last_change_cb`, `prv_rc_last_change_cb` | `LastChange`, `RcLastChange` |
| `rsu_device_get_prop`, `rsu_device_get_all_props`, `prv_get_position_info_cb`, `rsu_async_task_complete` | `Get`, `GetPosition`, `GetAll`, `PositionArrives`, `PositionFails`, `SendAnswer` |
| `prv_get_rates_values`, `prv_set_rate` | `Read`, `Unread`, `RatesValues`, `SpeedProps`, `SetRate` |

Reading of the introspection data is part of the dispatch (the code waits for it
in `gupnp_service_info_get_introspection`), and may give nothing (`SpeedsFound`,
`MaximaFound`).  A RenderingControl event without a Volume leaves `device_volume`
uninitialised: `RcLastChange` then picks any value.

`FollowersKnow` is about a client that puts a signal before an answer that comes
later: `GetAll` reads the cache in one dispatch and sends the answer in an idle,
and a signal in between is newer than the answer behind it.  A client that lets
the answer win would go back to the older value; the protocol gives it no way to
tell.

- **cache**: one client, two events, two renderers with awkward speeds (invalid
  first, equal after rounding, published as 0): `FollowersKnow`,
  `ActionsAsReported`, `VolumeAsReported`, `RateAgrees` (the speed that is sent is
  allowed, and the one that was chosen), `RatesAreExtremes`.
- **unsignalled_rate**: see 9.

## 7. Lifecycle

The process from `rsu_log_init` to its end.  The queues are reduced to `running`,
of which a cancellation leaves any part (`SetQuitting`); `TaskProcessor` has the
rest.  The contents of a configuration file are a record of optional values, so
that a key may be missing or invalid; lists of log levels are sequences, read by
`ToLogLevel` as the code reads them.

| Code | Model |
|---|---|
| `main`, `prv_rsu_context_free` | `Start`, `StartFails`, `MainLoopQuit`, `ContextFree` |
| `prv_bus_acquired`, `prv_name_lost` | `BusAcquired`, `RegisterFails`, `NameLost` |
| `prv_quit_handler` | `Signal` |
| `prv_add_task`, `prv_remove_client`, the task processor's count | `Request`, `RemoveClient`, `StartTask`, `CompleteTask` |
| `prv_context_quit_cb` | `ContextQuit`, which crashes without an upnp object |
| `rsu_settings_new`, `prv_rsu_settings_reload` | `SettingsNew`, `Reload`, `ReadKeys`, `Found` |
| the monitor of the user's file and its timer | `MonitorEvent`, `SecondPasses`, `MonitorTimeout` |
| `rsu_log_update_type_level`, `rsu_log_trace`, `prv_rsu_log_handler` | `UpdateTypeLevel`, `FlagsOf`, `Written` |
| whoever edits the files | `EditLocal`, `EditSystem` |

- **settings**: one client, two tasks at once, a build that logs by GLib unless told
  otherwise (`LogType`, a configure option), three files: one that asks for
  syslog and for levels that are not compiled in, one that sets no key, one with
  a list that an invalid value and two single ones interrupt and a type of 2.
  `LogIsConfigured` compares what is written, and how, with what a file asks for,
  read as its comment says (`Wanted`), and not as the code reads it; after any
  sequence of reloads, because syslog keeps the mask before when it is given an
  empty one.  It speaks of the levels from 3=warning to 6=debug and of the types
  0=Syslog and 1=GLib: on the others code and file disagree, see 9.
  `SettingsFollowFile`: the last of several edits is not missed.  `ExitsOnceTold`:
  every order of signals, loss of the name and of the last client, with tasks
  running or not, posts the quit.

## 8. Commands

Clients, the device functions that their commands reach, and a renderer that
executes or refuses the actions, plays on by itself and obeys other control
points (`Do`, `Refuse`, `PlaysOn`, `ExecuteOther`: external).  A command whose
client cancels it may be executed yet: that, too, is `ExecuteOther`.  What the
renderer does is reported by events, one at a time, and by the answers to
`GetPositionInfo`; the cache is written by these.

| Code | Model |
|---|---|
| `prv_process_async_task`, `rsu_device_play` ... `rsu_device_goto_track`, `rsu_device_set_prop` | `Begun`, `Begin` |
| `rsu_device_play_pause` | `Toggle` |
| `prv_set_volume`, `prv_rc_last_change_cb` | `DesiredVolumes`, `Published`, `RcLastChange` |
| `prv_int64_to_duration`, `prv_duration_to_int64` | `Duration`, `ToInt64` |
| `prv_simple_call_cb`, `prv_get_position_info_cb`, `rsu_async_task_cancelled` | `Answer`, `PositionArrives`, `Cancel` |

Numbers keep their width: seconds are taken modulo `Word`, and a double has
`Precision` significant values (`Ulp`, `Nearest`: of two doubles that are equally
near, the even one), so that the quotient and the product of a volume round as in
the code.  A command for a renderer that is not found begins no action and is
answered by an idle; that path is in `TaskProcessor`.

- **commands**: two clients, and a session of commands for each of the three
  subjects.  `VolumeAsAsked`: what is published once the renderer has been heard is
  what a client asked for, up to a step of the renderer below and a rounding
  above.  `PositionAsSought`: a position comes back in whole seconds, across
  minutes, hours and the width of the counter.  `PlayPauseToggles`: the action
  that the cache chooses is the right one, if the renderer has been heard.

## 9. Where the code departs from its documents

Each of these is a run that TLC finds violated, and an entry of "findings".

| Run | Says | What happens |
|---|---|---|
| stuck | "It automatically shuts down when the last of its clients quits" (`doc/API.txt:5`) | a failing `prv_declare` cancels its own queue from inside its processing; the task has no action, is left as the current one, and `running_tasks` never reaches 0 |
| renderer_forgotten | "exposes a separate d-Bus object for each DMR" (`API.txt:87`) | a context found between a cancelled construction and its chain end goes to a device about to be deleted |
| idle_server | "only runs a web server when files are being hosted" (`API.txt:318`) | the server is started before it is known whether the file can be hosted (`host-service.c:453`); when it cannot, the server stays, until a later removal on that interface or the loss of a client |
| unsignalled_rate | "PropertiesChanged signals are emitted ... when org.mpris.MediaPlayer2.Player interface properties value change" (`API.txt:236`) | setting Rate changes the cache without a signal |

More that the models reach, each with a change of one configuration:

- `NotifiedOnce`, added to the invariants of `Renderer_losses.cfg`, fails, although
  "RSU receives multiple UPnP notifications" is a fixed bug (`ChangeLog:53`): the
  resubscription timer subscribes again a context that was subscribed meanwhile
  (`upnp.c:191`).
- `loop # "crashed"`, as an invariant of `Lifecycle_settings.cfg`, fails: a process
  told to quit before it has acquired the bus calls `rsu_upnp_unsubscribe` with no
  upnp object (`renderer-service-upnp.c:414`).
- `ShutsDown` fails with `ProxyMayDie = TRUE` and `DeclareMayFail = FALSE` in
  `TaskProcessor_stuck.cfg`: nobody cancels a construction that begins once the
  service is quitting and whose proxy then goes.  With `Builds = {b1, b2}` also one
  that began before: cancelling a construction removes its queue from the table
  that `g_hash_table_foreach` walks (`task-processor.c:233`), and the walk stops
  before the next queue.
- `PresentIsExposed` fails with `ProxyMayDie = TRUE` in `Renderer_exposed.cfg`: losing
  the context whose proxy runs `GetProtocolInfo`, while others remain, leaves the
  construction waiting (`upnp.c:248`).
- `VolumeIsHeard`, added to the invariants of `Renderer_losses.cfg`, fails: the
  lost-subscription handler of RenderingControl is connected to the AVTransport
  proxy (`device.c:541`), so that nobody notices when that subscription is lost.
- `VolumeWasReported`, in place of `VolumeAsReported` in `Properties_cache.cfg`,
  fails: an event for Mute alone puts an uninitialised value into Volume
  (`device.c:1403`).

And more that follow from the definitions themselves.

- Hosting.  `RemoveFile` looks on the interface preferred now, not on the one the
  file is hosted on (`device.c:2340`), and then reports an error and leaves the file
  (`MoveContext`).  A file removed, or lost with its client, during a download is
  unmapped under libsoup, and the callback of that response uses the freed record
  (`host-service.c:155`, `FinishedOrphan`).  A URL of a server that has been
  closed may name another file of the next one: that may get the same port and
  counts from 0 again (`host-service.c:358`, `:376`).  HEAD requests take references
  that nothing gives back (`HeadRequest`).
- Renderers.  Between the cancellation of a construction and its chain end the
  device still has the queue that the cancellation freed, and losing its last
  context then cancels it again (`upnp.c:261`, `UseQueue`).  A construction that was
  cancelled or is stuck may keep its resubscription timer without a context
  (`upnp.c:191`, excluded in `TimerFindsContext`).
- Properties.  An event that reports actions sets CanControl to FALSE
  (`ActionProps`, `device.c:1003`), the first query overwrites the actions that an
  earlier event reported (`SyncAnd`), and a renderer whose maximum volume was not
  found at the first query never gets one.
- Commands.  A volume set before the first query is sent as 0, and so is one that
  is not a double (`DesiredVolumes`); a client that writes back the volume it has
  read may lower it by a step, because quotient and product each round (hence the
  margin of `VolumeAsAsked`); a negative duration below an hour comes back
  positive, and one of 2^32 seconds wraps (`Duration`, `ToInt64`); two clients that
  call PlayPause at once send the same action.
- Settings.  The configuration file says "Log levels are: 1=critical, 2=error" and
  "2=File" (`renderer-service-upnp.conf.in:23` and `:19`, in the repository's root);
  in the code 1 is error and 2 critical (`ToLogLevel`), and a type of 2 is syslog
  (`ToLogType`).  When the last file goes, the settings return to their defaults
  and the log does not (`Reload`); the system's file is not monitored
  (`EditSystem`); a second SIGTERM is ignored (`Signal`).

The passing runs keep these apart by constants that name the circumstance:
`DeclareMayFail`, `ProxyMayDie`, `PromptIdles`.
A property that a circumstance breaks is checked without it; all other
properties are checked with it.

## 10. Assumptions, bounds, fairness

**External code.**  GLib dispatches one source at a time; an idle or a timer
that was removed does not run.  `g_hash_table_foreach` gives up once its callback
has removed an entry.  GUPnP answers every action, or reports its time-out, as
long as the proxy lives; disposing of a proxy drops its actions silently.  It
reports a renderer available and unavailable alternately per interface.
`remove_notify` removes one registration.  libsoup finishes each response once,
takes any port for `SOUP_ADDRESS_ANY_PORT`, and ends a server's responses when it
is stopped.

**Bounds.**  `MaxRequests` of each route: two on one queue show order, cancellation and the
hand-over from one task to the next, one on each other queue what queues do to
one another; three in the liveness run let a queue stay busy.
`MaxServers`, `MaxFiles`, `MaxMapped`: two starts of a server, a number used
after another was freed, two references to mappings at one time in all the files
together, responses that lost their file included; the one port in `Ports` makes
every server reuse it.  `MaxSubscriptions`: the
network is quiet once a context was subscribed to so often; two give the second
connection of each handler, at which losses and renewals interact, three let the
preferred context go back and forth.  `MaxEvents`: two, one for each side of the
first query or of an answer under way.  The run `cache` has one client, because
clients meet only in the cache: what others ask changes it as events do.  `MaxRunning`: two tasks, so that a
completion may or may not be the last.  In `commands` the numbers are small
stand-ins: a `Second` of 10 fractions, 4096 seconds (`Word`) for 2^32, a One of 32
fractions with 32 significant values (`Precision`) for the doubles, a maximum volume of 5, of
which no fraction but 0 and 1 is exact; and the commands come in `Sessions`, for what
is converted by one of them is read by none of the others.  The proofs need none
of these bounds to be small.  Two interfaces give a switch, three a
switch between contexts none of which is preferred.  There are no state or
action constraints.  Symmetry is used in `commands` (of clients) and in `hosting`
and `idle_server` (of clients, interfaces, files), which have no liveness
properties.

**Fairness.**  Weak fairness of each idle, of the 1 s timers, and of the
callbacks of actions whose proxy lives: the main loop dispatches each source
that stays ready, and GUPnP answers or times out.  None of clients, of the network,
of signals, or of the shutdown.  `Lifecycle` adds the monitor's event and its timer,
and takes from `TaskProcessor` that running tasks complete; nothing is assumed of
the bus or of who edits the files: `SettingsFollowFile` speaks of files that are
left alone at last.  In `Renderer` fairness is of the whole
construction: its steps exclude each other.

**PromptIdles.**  Chain-end idles have the default idle priority, network events a
higher one, so the code guarantees no order between them; `PromptIdles` is an
assumption of light load.  Without it `PresentIsExposed` fails
(renderer_forgotten).  It is assumed by `KnownIsPresent`, `SubscribedOrPending` and
`PresentIsExposed` alone, all of them in renderer_exposed.

## 11. What is proved

For all values of the constants that satisfy the modules' assumptions, and what
a theorem assumes besides.  Every safety property of a passing run has a theorem.

- **Loops**: what the other proofs need of loops.  The library's induction takes
  a predicate, which the provers cannot instantiate; `RoundsInduction` takes a set
  of numbers instead (a set with 0 and with each round the next has all rounds),
  and follows from the well-foundedness of `<`.  `LoopDefined`: the recursive
  function that a loop over a list means exists.

- **TaskProcessorProofs**: `IndInv` is invariant, hence `TypeOK`, `RunningCount`,
  `CallbackFindsQueue`, `IdleFindsTask`.  `RunningCount` is not inductive: a
  completion decrements `running`, so one must know that its task is the current
  one of its queue (`InFlightCurrent`), that a current task is in flight
  (`CurrentInFlight`), that queues hold only waiting tasks of their own key, once
  each (`QueueContents`), so that starting one makes it current in one queue, and
  that removal spares busy queues (`BusyQueueLive`).  Cardinalities are followed
  with the theorems on finite sets.
- **TaskProcessorSafety**: `AnsweredOnce`, `Sequential`, `NoLostWakeup`,
  `DoomedQueueIsRemoved`, `QuitNotForgotten`, `ExposedOnlyIfBuilt`, `NoWorkForTheGone`.
  Its `SafetyInv` holds on top of `IndInv` and has four parts that need one
  another only where the lemmas say so.  `OrderInv`: a queue holds all that waits
  (`QueuedIsHeld`), in the order it was made (`InOrder`), and nothing overtakes
  (`Succession`).  `AnswerInv`: the invocation is there until the one reply, of a
  client that is watched or on a queue that is doomed.  `WakeInv`: what wakes a
  queue, removes it, or carries the shutdown on.  `BuildInv`: how far a
  construction is; a cancelled one has no idle and runs nothing that could
  complete (`CancelledIsOver`), so that none of its steps resets the flag that its
  chain end reads.  The proof first says in elementary terms what the operators
  do to each task and queue (`Completion`, `Beginning`, `Cancellation`), then
  that each of these keeps each part, then which action is which.
  `ImplementsBroker` follows.  A completion is a `Finish`, which the broker
  allows only to the first in line; that is `FirstInLine`, from `OrderInv`.  Any
  cancellation, also the walk of `prv_cancel_all_queues` that stops half-way, is one
  step of the broker, because it answers a route as a whole or not at all; the
  steps of constructions and timers are stutters.
- **HostServiceProofs**: `TypeOK`, `UrlNamesFile`, `MappedUntilSevered`,
  `FilesHaveOwners`, `NothingOutlivesClients`, and the action properties `ShutWhenDone`
  and `OthersUndisturbed`, for any ports and however contexts move and files fail.
  A URL names its file because the numbers of a server grow with each file
  (`Numbered`) and the URLs that this server gave lie below its counter
  (`GivenBefore`), whatever URLs of earlier servers on the same port there are.  A
  mapping has a reference for each response, because until a file is freed under
  one there is no orphan that could take one (`Referenced`).
- **RendererProofs**: `TypeOK`, `ContextsArePresent`, `SubscribedIsPreferred`,
  `SubscribedIsHeard`.  The invariant adds that a set flag has a callback and a
  connected handler (`Registered`): a loss that runs no handler would leave the
  flag, a removal without a callback would go below zero; and that an unknown
  renderer has no contexts (`UnknownHasNone`) while one under construction has
  (`ConstructedHasSome`).  Its lemmas say what the preferred context is, what
  removing a context leaves of the array and that it moves the preferred one only
  if it removes it, and that a switch drops all that was subscribed.
  Three more invariants stand on that one.  `KnownIsPresent`, with prompt idles:
  until the shutdown the array is what is on the network, and a cancelled
  construction has none of it (`SeenAsPresent`).  `SubscribedOrPending`, for a
  renderer with AVTransport or ConnectionManager that reports no loss: a context is
  subscribed to in all its services or in none (`Whole`), so that the two flags
  that are looked at tell about all; from the last step of the construction on
  there is a subscription or the timer (`Followed`).
  `TimerFindsContext` assumes nothing: a step that arms the timer leaves a context,
  and one that takes the last context removes the timer or gives the construction
  up for good (`TimerStep`).
- **PropertiesProofs**: `FollowersKnow`, `ActionsAsReported`, `VolumeAsReported`,
  `TypeOK`, `RateAgrees`, `RatesAreExtremes`.
  For the first, what a follower has heard is cached (`HeardIsCached`), an answer
  on its way is current wherever the client has heard nothing newer
  (`AnswerIsCached`), and the answer to a GetAll lacks nothing that it has not heard
  (`AnswerIsWhole`).  `Told` says once what any signal does to all views.  For the
  next two, a reported volume implies the initial query (`VolumeComesSynced`).
  The others are about lists of speeds of any length.  `ReadSoFar` is the invariant
  of the loop of `prv_get_rates_values`: the strings and the numbers go side by side
  (`Aligned`), they are the valid speeds read so far (`Kept`), the extremes are
  among them or the first one (`Found`) and bound them (`Bound`).  The loop compares
  with a first speed that may be invalid, like "1/0", and skips the test of the
  maximum when the minimum moves; so `Bound` also has that the minimum never passes
  the maximum, and the comparison lemmas (`Below`, `Above`, `AtLeast`) allow one side
  to be infinite.  `HundredthsMonotone` carries the order over to what is published,
  `HundredthsRound` bounds the rounding.  `SpeedsCached` relates the cache to the
  result of the loop: nothing is cached before the query, which happens once.
- **LifecycleProofs**: `TypeOK`, `LogFollowsSettings`, `QuitIsPosted` (the safety half
  of `ExitsOnceTold`), and `LogIsConfigured`.  `LogIsUpdated` is what makes it
  inductive: syslog's mask is the log's unless that is empty.  That the loop of
  `prv_rsu_settings_to_log_level` yields what its comment says is `ToLogLevelIs`: by
  the rounds, either no value has stood alone yet and all levels were collected,
  or the first such value has ended it.
- **CommandsProofs**: `PositionAsSought` and `PlayPauseToggles`.  The first rests on
  `DurationAndBack`, that the two conversions lose the fraction of a second and
  nothing else below 2^32 seconds, and on `SoughtInv`: an action on its way, the
  renderer and an answer on its way agree about what was sought.  The second rests
  on `HeardInv`: with no event outstanding the cache has the renderer's state, and
  the last event on its way brings it; so what was chosen fits what the service
  could know (`ToggleInv`).
  `VolumeAsAsked` is the same with `VolumeHeard` and `VolumeSent`, and rests on
  `VolumeAndBack`, for any maximum and any binary double of more than one bit
  (`DoublesAssumption`): the product is off by at most half its spacing, which is at
  most the maximum times that of 1.0, because 1.0 is a power of two and so lies in
  the lower half of the numbers of its spacing (`UlpOfOne`); the quotient by half
  the spacing of 1.0.  Without that assumption the property is false: with a One
  of 57, 16 significant values and a maximum of 10, 54 comes back as 44, which is
  lower than the property allows.

Only model-checked: the liveness properties (`RequestsAnswered`, `ShutsDown`,
`ConstructionEnds`, `PresentIsExposed`, `SettingsFollowFile`, `ExitsOnceTold`), which
under fairness are beyond the prover, and the counterexamples of section 9.

## 12. What is not modelled

- The content of requests and answers: titles, URIs, metadata, and the property
  values other than those of `Properties` and `Commands`.
- The root and device tables, which the first query and SinkProtocolInfo events
  write without a signal.
- The list of servers that the manager returns, and the lookup of the renderer of
  a command: they read the map of known renderers.
- A construction still under way when the process exits is leaked by the code
  and ends with the process in the model.
- The texts of log messages, and the registration of errors.
- Parsing of introspection data and DIDL, GUPnP's own protocol: external.
