--------------------------- MODULE TaskProcessor ---------------------------
(***************************************************************************)
(* The task processor of renderer-service-upnp: the per-(source, sink)     *)
(* task queues of task-processor.c together with the two kinds of task     *)
(* that run on them,                                                       *)
(*   - client requests (task.c, async.c and the D-Bus entry points of      *)
(*     renderer-service-upnp.c), on AUTO_START queues keyed by (client,    *)
(*     sink);                                                              *)
(*   - the three steps that construct a device (service-task.c and         *)
(*     rsu_device_new of device.c), on AUTO_REMOVE queues keyed by         *)
(*     ("source-N", RSU_SINK) that end in a finally callback;              *)
(* and the shutdown protocol they take part in.                            *)
(*                                                                         *)
(* The program is single-threaded: every action is one dispatch of the     *)
(* GLib main loop (a D-Bus message, a UPnP callback, an idle, a timer),    *)
(* with every nested callback it makes.  The interleaving is that of the   *)
(* dispatches.  The initial state is the one in which the bus has been     *)
(* acquired and the upnp object created.                                   *)
(***************************************************************************)
EXTENDS Naturals, Sequences, FiniteSets, Functions

CONSTANTS
    Clients,        \* D-Bus unique names
    Devices,        \* object paths of renderers: the sinks of their requests
    RSU_SINK,       \* sink of the manager's requests and of constructions
    Routes,         \* the (client, sink) pairs on which requests are made
    NoTask,         \* current_task = NULL
    Builds,         \* device constructions: the sources "source-N"
    MaxRequests,    \* bound: how many requests are made on each route
    NeverQuit,      \* the never-quit setting
    DeclareMayFail, \* g_dbus_connection_register_object may fail
    ProxyMayDie     \* a context may be lost while an action runs on its proxy

ASSUME RoutesAssumption ==
    /\ Routes \subseteq Clients \X (Devices \cup {RSU_SINK})
    /\ IsFiniteSet(Routes)
    /\ RSU_SINK \notin Devices

ASSUME BuildsAssumption ==
    /\ IsFiniteSet(Builds)
    /\ Builds \cap Clients = {}

ASSUME ParametersAssumption ==
    /\ MaxRequests \in [Routes -> Nat]
    /\ NeverQuit \in BOOLEAN
    /\ DeclareMayFail \in BOOLEAN
    /\ ProxyMayDie \in BOOLEAN

(***************************************************************************)
(* Queue keys.  Service queues carry RSU_TASK_QUEUE_FLAG_AUTO_REMOVE and   *)
(* the finally callback, client queues RSU_TASK_QUEUE_FLAG_AUTO_START.     *)
(***************************************************************************)
ServiceKeys == Builds \X {RSU_SINK}

Keys == Routes \cup ServiceKeys

(***************************************************************************)
(* Tasks: <<key, n>> is the n-th task put on the queue of that key.        *)
(***************************************************************************)
Requests == UNION {{k} \X (1..MaxRequests[k]) : k \in Routes}

GET_PROTOCOL_INFO == 1
SUBSCRIBE == 2
DECLARE == 3

ServiceTasks == ServiceKeys \X (1..3)

Tasks == Requests \cup ServiceTasks

ASSUME NoTaskAssumption == NoTask \notin Tasks

VARIABLES
    queues,     \* the keys of processor->task_queues
    tasks,      \* queue->tasks
    current,    \* queue->current_task
    idle,       \* queues with idle_id # 0: a prv_task_queue_process_task idle
    defer,      \* queues with defer_remove set
    cancelled,  \* service queues with cancelled set (only finally reads it)
    finally,    \* service queues freed, their prv_task_queue_finally_cb pending
    exposed,    \* constructions whose chain end published the device
    running,    \* processor->running_tasks
    quitting,   \* processor->quitting
    onQuit,     \* an on_quit_cb idle is pending
    loop,       \* the main loop: "running", "stopping" (1 s timer), "stopped"
    watchers,   \* clients in g_context.watchers
    status,     \* what became of each task, see Status
    invocation, \* requests whose task->invocation is not NULL
    replies     \* number of D-Bus replies sent to each request

queueVars == <<queues, tasks, current, idle, defer>>
chainVars == <<cancelled, finally, exposed>>
processVars == <<running, quitting, onQuit, loop, watchers>>
taskVars == <<status, invocation, replies>>
vars == <<queueVars, chainVars, processVars, taskVars>>

(***************************************************************************)
(* "action": a UPnP action is in flight and its callback will come;        *)
(* "lost": it is in flight but its proxy is gone, so no callback will;     *)
(* "finishing": rsu_async_task_complete is pending as an idle;             *)
(* "stuck": a service task that failed, left as its queue's current task;  *)
(* "completed": went through rsu_task_queue_task_completed;                *)
(* "dropped": cancelled or deleted before it could complete.               *)
(***************************************************************************)
InAction == {"action", "lost"}
InFlight == InAction \cup {"finishing", "stuck"}
Status == {"new", "queued", "completed", "dropped"} \cup InFlight

Init ==
    /\ queues = {} /\ idle = {} /\ defer = {}
    /\ tasks = [k \in Keys |-> <<>>]
    /\ current = [k \in Keys |-> NoTask]
    /\ cancelled = {} /\ finally = {} /\ exposed = {}
    /\ running = 0 /\ quitting = FALSE /\ onQuit = FALSE
    /\ loop = "running" /\ watchers = {}
    /\ status = [t \in Tasks |-> "new"]
    /\ invocation = {}
    /\ replies = [r \in Requests |-> 0]

----------------------------------------------------------------------------
(***************************************************************************)
(* Replies.  rsu_task_complete, _fail, _cancel and _delete each answer the *)
(* invocation if it is still there and drop the pointer.                   *)
(***************************************************************************)
\* Mutant: the invocation pointer is not cleared after the reply.
AnswerKeepingInvocation(T) ==
    /\ invocation' = invocation
    /\ replies' = [r \in Requests |->
                      replies[r] + IF r \in T \cap invocation THEN 1 ELSE 0]

Answer(T) ==
    /\ invocation' = invocation \ T
    /\ replies' = [r \in Requests |->
                      replies[r] + IF r \in T \cap invocation THEN 1 ELSE 0]

(***************************************************************************)
(* rsu_task_queue_task_completed for task t, the current task of its       *)
(* queue.  rest is what the queue still holds, n the number of running     *)
(* tasks, t included, and armed the pending process idles at the call.     *)
(***************************************************************************)
\* Mutant: running_tasks is tested before it is decremented.
QuitBeforeDecrement(n) == quitting /\ n = 0

QuitNow(n) == quitting /\ n = 1

\* Mutant: pending tasks are looked at before defer_remove.
RemoveIfEmpty(k, rest) == rest = <<>> /\ k \in defer \cup ServiceKeys

\* Mutant: AUTO_REMOVE is ignored.
RemoveIfDoomed(k, rest) == k \in defer

\* The queue goes once its task has completed: it was doomed, or it is empty
\* and AUTO_REMOVE.
RemoveNow(k, rest) == k \in defer \/ (rest = <<>> /\ k \in ServiceKeys)

TaskCompleted(t, rest, n, armed) ==
    LET k == t[1]
        gone == ~QuitNow(n) /\ RemoveNow(k, rest)
        deleted == {t} \cup IF gone THEN Range(rest) ELSE {}
    IN  /\ running' = n - 1
        /\ current' = [current EXCEPT ![k] = NoTask]
        /\ tasks' = [tasks EXCEPT ![k] = IF gone THEN <<>> ELSE rest]
        /\ status' = [u \in Tasks |-> IF u = t THEN "completed"
                                      ELSE IF u \in deleted THEN "dropped"
                                      ELSE status[u]]
        /\ Answer(deleted)
        /\ \/ /\ QuitNow(n)
              /\ onQuit' = TRUE
              /\ idle' = armed
              /\ UNCHANGED <<queues, defer, finally>>
           \/ /\ gone
              /\ queues' = queues \ {k}
              /\ defer' = defer \ {k}
              /\ finally' = finally \cup ({k} \cap ServiceKeys)
              /\ idle' = armed
              /\ UNCHANGED onQuit
           \/ /\ ~QuitNow(n) /\ ~gone
              /\ idle' = armed \cup IF rest = <<>> THEN {} ELSE {k}
              /\ UNCHANGED <<queues, defer, finally, onQuit>>
        /\ UNCHANGED <<exposed, quitting, loop, watchers>>

(***************************************************************************)
(* prv_task_queue_cancel on every queue of S, of which those of R leave    *)
(* the table.  Pending tasks are cancelled and deleted.  Cancelling a      *)
(* running request answers it and turns its UPnP action into a pending     *)
(* completion; cancelling a running service task completes it on the spot  *)
(* if it has a p_action, and does nothing at all if it has none.           *)
(***************************************************************************)
\* Mutant: the last one of a queue is not reached.
PendingButLast(S) ==
    UNION {{tasks[k][i] : i \in 1..(Len(tasks[k]) - 1)} : k \in S}

Pending(S) == UNION {Range(tasks[k]) : k \in S}

Running(S) == {current[k] : k \in S} \ {NoTask}

\* The service queues whose current task cancelling completes.
Interrupted(S) ==
    {k \in S \cap ServiceKeys :
        current[k] # NoTask /\ status[current[k]] \in InAction}

\* Mutant: an AUTO_REMOVE queue goes whatever its current task is doing.
DiscardAll(S, quit) == S \cap ServiceKeys

\* The service queues of S that cancelling removes from the table, when
\* processor->quitting has the value quit.
Discarded(S, quit) ==
    {k \in S \cap ServiceKeys :
        \/ current[k] = NoTask
        \/ k \in Interrupted(S) /\ ~(quit /\ running = 1)}

CancelStatus(S) ==
    [t \in Tasks |->
        CASE t \in Pending(S) -> "dropped"
          [] t \in Running(S) /\ status[t] \in InAction ->
                IF t \in Requests THEN "finishing" ELSE "dropped"
          [] OTHER -> status[t]]

CancelQueues(S, R) ==
    /\ queues' = queues \ R
    /\ tasks' = [k \in Keys |-> IF k \in S THEN <<>> ELSE tasks[k]]
    /\ idle' = idle \ S
    /\ current' = [k \in Keys |-> IF k \in R \cup Interrupted(S)
                                  THEN NoTask ELSE current[k]]
    /\ running' = running - Cardinality(Interrupted(S))
    /\ cancelled' = cancelled \cup (S \cap ServiceKeys)
    /\ finally' = finally \cup (R \cap ServiceKeys)
    /\ status' = CancelStatus(S)
    /\ Answer(Pending(S) \cup Running(S))
    /\ UNCHANGED <<exposed, loop>>

(***************************************************************************)
(* rsu_task_processor_remove_queues_for_source and _for_sink: the queues K *)
(* that match and are not doomed yet are cancelled; the ones with a task   *)
(* in flight are doomed, the others go at once.                            *)
(***************************************************************************)
\* Mutant: a queue whose task is in flight is left alone.
IdleSourceQueues(source) ==
    {k \in queues \ defer : k[1] = source /\ current[k] = NoTask}

SourceQueues(source) == {k \in queues \ defer : k[1] = source}

SinkQueues(sink) == {k \in queues \ defer : k[2] = sink}

\* Mutant: removal is not deferred for a queue with a current task.
Everything(K) == K

Unoccupied(K) == {k \in K : current[k] = NoTask}

Doom(K) == defer' = (defer \cup K) \ Unoccupied(K)

(***************************************************************************)
(* rsu_task_processor_set_quitting, when the queues K have been cancelled  *)
(* and those of R removed in the same dispatch.  prv_cancel_all_queues     *)
(* walks the table with g_hash_table_foreach, which gives up as soon as    *)
(* the callback has removed an entry: it visits every queue, or a set of   *)
(* queues of which exactly the last one visited was removed.               *)
(***************************************************************************)
Visited(Q) ==
    {S \in SUBSET Q : \/ S = Q /\ Discarded(S, TRUE) = {}
                      \/ Cardinality(Discarded(S, TRUE)) = 1}

SetQuitting(K, R) ==
    /\ quitting' = TRUE
    /\ \E S \in IF running > 0 THEN Visited(queues \ R) ELSE {{}} :
          CancelQueues(K \cup S, R \cup Discarded(S, TRUE))
    /\ onQuit' = (onQuit \/ running' = 0)

----------------------------------------------------------------------------
\* Mutant: rsu_task_queue_add_task forgets to look at current_task.
AutoStartAnyway(k) == {k} \ defer

\* Mutant: only a new queue is started.
AutoStartNewQueue(k) == {k} \ queues

\* rsu_task_queue_add_task and rsu_task_queue_start: the queue k gets a
\* process idle unless it is doomed, busy, or has one already.
AutoStart(k) == IF current[k] = NoTask THEN {k} \ defer ELSE {}

(***************************************************************************)
(* The D-Bus entry points.  A request on route k reaches prv_add_task,     *)
(* which watches the client, finds or creates the queue and adds the task. *)
(***************************************************************************)
AddTask(k) ==
    /\ loop # "stopped"
    /\ \E n \in 1..MaxRequests[k] :
          LET t == <<k, n>> IN
          /\ status[t] = "new"
          /\ \A m \in 1..(n - 1) : status[<<k, m>>] # "new"
          /\ tasks' = [tasks EXCEPT ![k] = Append(@, t)]
          /\ status' = [status EXCEPT ![t] = "queued"]
          /\ invocation' = invocation \cup {t}
    /\ watchers' = watchers \cup {k[1]}
    /\ queues' = queues \cup {k}
    /\ idle' = idle \cup AutoStart(k)
    /\ UNCHANGED <<current, defer, chainVars, running, quitting, onQuit, loop,
                   replies>>

\* com.intel.UPnP.RendererDevice.Cancel
Cancel(k) ==
    /\ loop # "stopped"
    /\ k \in Routes /\ k[2] \in Devices
    /\ k \in queues
    /\ CancelQueues({k}, {})
    /\ UNCHANGED <<defer, quitting, onQuit, watchers>>

\* prv_remove_client: Manager.Release, or the client's bus name vanished.
RemoveClient(c) ==
    LET K == SourceQueues(c)
        last == watchers \ {c} = {} /\ ~NeverQuit
    IN  /\ loop # "stopped"
        /\ watchers' = watchers \ {c}
        /\ Doom(K)
        /\ \/ /\ ~last
              /\ CancelQueues(K, Unoccupied(K))
              /\ UNCHANGED <<quitting, onQuit>>
           \/ /\ last
              /\ SetQuitting(K, Unoccupied(K))

\* prv_lost_media_server: the last context of a renderer is gone.
LoseDevice(d) ==
    LET K == SinkQueues(d)
    IN  /\ loop # "stopped"
        /\ K # {}
        /\ Doom(K)
        /\ CancelQueues(K, Unoccupied(K))
        /\ UNCHANGED <<quitting, onQuit, watchers>>

\* SIGTERM or SIGINT, or the loss of the service's bus name.
Terminate ==
    /\ loop # "stopped"
    /\ SetQuitting({}, {})
    /\ UNCHANGED <<defer, watchers>>

----------------------------------------------------------------------------
(***************************************************************************)
(* The construction of a device: prv_server_available_cb and rsu_device_new*)
(* create the queue, put the three tasks on it and start it.               *)
(***************************************************************************)
StartBuild(k) ==
    /\ loop # "stopped"
    /\ \A t \in Tasks : t[1] = k => status[t] = "new"
    /\ queues' = queues \cup {k}
    /\ tasks' = [tasks EXCEPT ![k] = <<<<k, GET_PROTOCOL_INFO>>,
                                       <<k, SUBSCRIBE>>, <<k, DECLARE>>>>]
    /\ status' = [t \in Tasks |-> IF t[1] = k THEN "queued" ELSE status[t]]
    /\ idle' = idle \cup AutoStart(k)
    /\ UNCHANGED <<current, defer, chainVars, processVars, invocation, replies>>

\* prv_server_unavailable_cb: the last context went during construction.
CancelBuild(k) ==
    /\ loop # "stopped"
    /\ k \in queues
    /\ CancelQueues({k}, Discarded({k}, quitting))
    /\ onQuit' = (onQuit \/ (Interrupted({k}) # {} /\ QuitNow(running)))
    /\ UNCHANGED <<defer, quitting, watchers>>

\* prv_server_unavailable_cb with other contexts left: the proxy of the lost
\* context is disposed of, and with it, silently, the action in flight on it.
LoseProxy(t) ==
    /\ loop # "stopped"
    /\ ProxyMayDie
    /\ status[t] = "action"
    /\ status' = [status EXCEPT ![t] = "lost"]
    /\ UNCHANGED <<queueVars, chainVars, processVars, invocation, replies>>

----------------------------------------------------------------------------
(***************************************************************************)
(* prv_task_queue_process_task, the idle of queue k, and what the          *)
(* process callback does with the task.                                    *)
(***************************************************************************)
Ready(k) == loop # "stopped" /\ k \in idle

\* Mutant: running_tasks is not incremented.
BeginUncounted(k, s) ==
    /\ current' = [current EXCEPT ![k] = Head(tasks[k])]
    /\ tasks' = [tasks EXCEPT ![k] = Tail(@)]
    /\ idle' = idle \ {k}
    /\ running' = running
    /\ status' = [status EXCEPT ![Head(tasks[k])] = s]
    /\ UNCHANGED <<queues, defer, finally, exposed, quitting, onQuit, loop,
                   watchers, invocation, replies>>

Begin(k, s) ==
    /\ current' = [current EXCEPT ![k] = Head(tasks[k])]
    /\ tasks' = [tasks EXCEPT ![k] = Tail(@)]
    /\ idle' = idle \ {k}
    /\ running' = running + 1
    /\ status' = [status EXCEPT ![Head(tasks[k])] = s]
    /\ UNCHANGED <<queues, defer, finally, exposed, quitting, onQuit, loop,
                   watchers, invocation, replies>>

BeginAndComplete(k) ==
    TaskCompleted(Head(tasks[k]), Tail(tasks[k]), running + 1, idle \ {k})

\* prv_process_sync_task: GetVersion, GetServers, Raise, Quit.
ProcessSync(k) ==
    /\ Ready(k) /\ k \in Routes
    /\ BeginAndComplete(k)
    /\ UNCHANGED cancelled

\* prv_process_async_task: a UPnP action is started, or there is nothing to
\* wait for (device not found, cached property, file hosting) and only the
\* completion is left pending.
ProcessAsync(k) ==
    /\ Ready(k) /\ k \in Routes /\ k[2] \in Devices
    /\ \E s \in {"action", "finishing"} : Begin(k, s)
    /\ UNCHANGED cancelled

\* rsu_service_task_process_cb on the step at the head of a construction.
Step(k) == Head(tasks[k])[2]

\* prv_get_protocol_info starts an action.
BeginProtocolInfo(k) ==
    /\ Ready(k) /\ k \in ServiceKeys
    /\ Step(k) = GET_PROTOCOL_INFO
    /\ Begin(k, "action")
    /\ cancelled' = cancelled \ {k}

\* prv_subscribe and prv_declare return no action, nor does
\* prv_get_protocol_info when its proxy has gone: the task is complete.
CompleteStep(k) ==
    /\ Ready(k) /\ k \in ServiceKeys
    /\ Step(k) = GET_PROTOCOL_INFO => ProxyMayDie
    /\ BeginAndComplete(k)
    /\ cancelled' = cancelled \ {k}

\* prv_declare failed: rsu_task_processor_cancel_queue finds a current task
\* without p_action, and rsu_service_task_cancel_cb ignores it.
FailDeclare(k) ==
    /\ Ready(k) /\ k \in ServiceKeys
    /\ DeclareMayFail
    /\ Step(k) = DECLARE
    /\ Begin(k, "stuck")
    /\ cancelled' = cancelled \cup {k}

----------------------------------------------------------------------------
\* The callback of a request's UPnP action: the result is recorded, the
\* cancellable disconnected and rsu_async_task_complete left as an idle.
ActionCallback(r) ==
    /\ loop # "stopped"
    /\ status[r] = "action"
    /\ status' = [status EXCEPT ![r] = "finishing"]
    /\ UNCHANGED <<queueVars, chainVars, processVars, invocation, replies>>

\* rsu_async_task_complete and prv_async_task_complete.
AsyncTaskComplete(r) ==
    /\ loop # "stopped"
    /\ status[r] = "finishing"
    /\ TaskCompleted(r, tasks[r[1]], running, idle)
    /\ UNCHANGED cancelled

\* rsu_service_task_begin_action_cb
ServiceActionCallback(t) ==
    /\ loop # "stopped"
    /\ status[t] = "action"
    /\ TaskCompleted(t, tasks[t[1]], running, idle)
    /\ UNCHANGED cancelled

\* Mutant: the cancelled argument is ignored.
ChainEndAnyway(k) ==
    /\ loop # "stopped"
    /\ k \in finally
    /\ finally' = finally \ {k}
    /\ exposed' = exposed \cup {k}
    /\ UNCHANGED <<queueVars, cancelled, processVars, taskVars>>

\* prv_task_queue_finally_cb and prv_device_chain_end
ChainEnd(k) ==
    /\ loop # "stopped"
    /\ k \in finally
    /\ finally' = finally \ {k}
    /\ exposed' = exposed \cup ({k} \ cancelled)
    /\ UNCHANGED <<queueVars, cancelled, processVars, taskVars>>

----------------------------------------------------------------------------
\* prv_context_quit_cb
ContextQuit ==
    /\ loop # "stopped"
    /\ onQuit
    /\ onQuit' = FALSE
    /\ loop' = "stopping"
    /\ UNCHANGED <<queueVars, chainVars, running, quitting, watchers, taskVars>>

\* prv_context_mainloop_quit_cb; main then frees the context and with it the
\* processor, which deletes the pending tasks of every queue.  The tasks in
\* flight are not looked at again.
MainLoopQuit ==
    /\ loop = "stopping"
    /\ loop' = "stopped"
    /\ watchers' = {}
    /\ queues' = {}
    /\ tasks' = [k \in Keys |-> <<>>]
    /\ status' = [t \in Tasks |-> IF t \in Pending(queues) THEN "dropped"
                                  ELSE status[t]]
    /\ Answer(Pending(queues))
    /\ finally' = finally \cup (queues \cap ServiceKeys)
    /\ UNCHANGED <<current, idle, defer, cancelled, exposed, running, quitting,
                   onQuit>>

\* The process has exited.
Exited == loop = "stopped" /\ UNCHANGED vars

----------------------------------------------------------------------------
ClientStep ==
    \/ \E k \in Routes : AddTask(k) \/ Cancel(k)
    \/ \E c \in Clients : RemoveClient(c)

DeviceStep ==
    \/ \E d \in Devices : LoseDevice(d)
    \/ \E k \in ServiceKeys : StartBuild(k) \/ CancelBuild(k)
    \/ \E t \in Tasks : LoseProxy(t)

ProcessTask(k) ==
    \/ ProcessSync(k)
    \/ ProcessAsync(k)
    \/ BeginProtocolInfo(k)
    \/ CompleteStep(k)
    \/ FailDeclare(k)

CallbackStep ==
    \/ \E r \in Requests : ActionCallback(r) \/ AsyncTaskComplete(r)
    \/ \E t \in ServiceTasks : ServiceActionCallback(t)
    \/ \E k \in ServiceKeys : ChainEnd(k)

Next ==
    \/ ClientStep
    \/ DeviceStep
    \/ Terminate
    \/ \E k \in Keys : ProcessTask(k)
    \/ CallbackStep
    \/ ContextQuit
    \/ MainLoopQuit
    \/ Exited

(***************************************************************************)
(* The main loop dispatches every source that stays ready: idles, the 1 s  *)
(* timer, and the callbacks of UPnP actions, which GUPnP answers or times  *)
(* out as long as their proxy lives.  Nothing is assumed of clients,       *)
(* devices or signals.                                                     *)
(***************************************************************************)
Fairness ==
    /\ \A k \in Keys : WF_vars(ProcessTask(k))
    /\ \A r \in Requests : /\ WF_vars(ActionCallback(r))
                           /\ WF_vars(AsyncTaskComplete(r))
    /\ \A t \in ServiceTasks : WF_vars(ServiceActionCallback(t))
    /\ \A k \in ServiceKeys : WF_vars(ChainEnd(k))
    /\ WF_vars(ContextQuit)
    /\ WF_vars(MainLoopQuit)

Spec == Init /\ [][Next]_vars

FairSpec == Spec /\ Fairness

----------------------------------------------------------------------------
(***************************************************************************)
(* Invariants                                                              *)
(***************************************************************************)
TypeOK ==
    /\ queues \subseteq Keys /\ idle \subseteq Keys /\ defer \subseteq Keys
    /\ tasks \in [Keys -> Seq(Tasks)]
    /\ current \in [Keys -> Tasks \cup {NoTask}]
    /\ cancelled \subseteq ServiceKeys
    /\ finally \subseteq ServiceKeys
    /\ exposed \subseteq ServiceKeys
    /\ running \in Nat
    /\ quitting \in BOOLEAN /\ onQuit \in BOOLEAN
    /\ loop \in {"running", "stopping", "stopped"}
    /\ watchers \subseteq Clients
    /\ status \in [Tasks -> Status]
    /\ invocation \subseteq Requests
    /\ replies \in [Requests -> Nat]

\* running_tasks, which rsu_task_queue_task_completed decrements without
\* looking, is the number of queues that have a current task: no path
\* completes a task twice or removes a queue under its task, so the guint
\* never wraps and reaches 0 exactly when nothing runs.
RunningCount == running = Cardinality({k \in Keys : current[k] # NoTask})

\* A completion that is still to come (UPnP callback or idle) finds its queue
\* in the table with the task as its current task: g_hash_table_lookup in
\* rsu_task_queue_task_completed never returns NULL.
CallbackFindsQueue ==
    loop # "stopped" =>
        \A t \in Tasks : status[t] \in InFlight =>
            t[1] \in queues /\ current[t[1]] = t

\* When a process idle fires, its queue is still in the table, holds a task
\* and runs none: the unchecked lookup and tasks[0] of
\* prv_task_queue_process_task are safe.
IdleFindsTask ==
    loop # "stopped" =>
        \A k \in idle : /\ k \in queues \ defer
                        /\ tasks[k] # <<>>
                        /\ current[k] = NoTask

\* No queue holding tasks is forgotten: it runs a task, has its idle, or the
\* process is about to exit (the quit branch of task_completed restarts
\* nothing).
NoLostWakeup ==
    \A k \in queues : tasks[k] # <<>> =>
        \/ k \in idle
        \/ current[k] # NoTask
        \/ onQuit \/ loop # "running"

\* A queue whose removal was deferred still has the task it waits for, or
\* the process is about to exit: it is not left in the table for good, where
\* it would swallow the later requests of its client.
DoomedQueueIsRemoved ==
    loop # "stopped" =>
        \A k \in defer : /\ k \in queues
                         /\ current[k] # NoTask \/ onQuit \/ loop = "stopping"

\* Every request whose task is finished has had exactly one D-Bus reply, and
\* no request ever has two: complete, fail, cancel and delete share one
\* invocation pointer.
AnsweredOnce ==
    \A r \in Requests :
        /\ replies[r] <= 1
        /\ status[r] \in {"completed", "dropped"} => replies[r] = 1

\* "Only commands executed by a client on a specific server are now executed
\* sequentially" (ChangeLog): a request runs only once every earlier request
\* of the same client on the same sink is over.
Sequential ==
    \A k \in Routes : \A m, n \in 1..MaxRequests[k] :
        m < n /\ status[<<k, n>>] \in InFlight \cup {"completed"} =>
            status[<<k, m>>] \in {"completed", "dropped"}

\* "RSU executes commands of dead children" (fixed according to ChangeLog):
\* an unanswered request belongs to a watched client or sits on a doomed
\* queue, and no UPnP action is in flight for a request that was answered.
NoWorkForTheGone ==
    loop # "stopped" =>
        /\ \A r \in invocation : r[1][1] \in watchers \/ r[1] \in defer
        /\ \A r \in Requests : status[r] \in InAction => r \in invocation

\* A device is published only when all three construction steps completed:
\* a cancelled or failed construction never reaches the found_server branch
\* of prv_device_chain_end.
ExposedOnlyIfBuilt ==
    \A k \in exposed : \A n \in 1..3 : status[<<k, n>>] = "completed"

\* Once the processor is quitting, a running task, the quit idle or the 1 s
\* timer is there to carry the shutdown on.
QuitNotForgotten ==
    quitting => running > 0 \/ onQuit \/ loop # "running"

----------------------------------------------------------------------------
(***************************************************************************)
(* Refinement                                                              *)
(***************************************************************************)

\* Where a request stands for its client.
Stage == [s \in Status |->
             CASE s = "new" -> "new"
               [] s = "queued" -> "waiting"
               [] s \in InFlight -> "served"
               [] OTHER -> "over"]

stage == [r \in Requests |-> Stage[status[r]]]

Broker == INSTANCE RequestBroker WITH open <- loop # "stopped"

\* The queues serve the requests of a client on a sink one at a time and in
\* order, answer each of them once, and give up a route only as a whole:
\* process idles, deferred removals, cancellations from within a completion
\* and the interrupted walk of prv_cancel_all_queues can not be seen from
\* outside.
ImplementsBroker == Broker!Spec

----------------------------------------------------------------------------
(***************************************************************************)
(* Liveness                                                                *)
(***************************************************************************)

\* Every request is answered, unless the process exits first.
RequestsAnswered ==
    \A r \in Requests : r \in invocation ~> r \notin invocation \/ loop = "stopped"

\* "It automatically shuts down when the last of its clients quits or
\* releases its connection" (API.txt).
ShutsDown ==
    (watchers = {} /\ \E r \in Requests : status[r] # "new") ~> loop = "stopped"

\* Every construction that starts comes to its chain end.
ConstructionEnds ==
    \A k \in ServiceKeys :
        k \in queues ~> k \notin queues \cup finally \/ loop = "stopped"

============================================================================
