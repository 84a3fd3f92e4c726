------------------------------ MODULE Lifecycle ------------------------------
(***************************************************************************)
(* The process of renderer-service-upnp (the end of                        *)
(* renderer-service-upnp.c) with its settings (settings.c) and its log     *)
(* (log.c): how it starts on the bus, what makes it quit, in whatever      *)
(* order, and how it follows its configuration files while it runs.  The   *)
(* task processor is reduced to its number of running tasks; TaskProcessor *)
(* has the rest.  Each action is one dispatch of the main loop, or a step  *)
(* of somebody who edits the files.                                        *)
(*                                                                         *)
(* The contents of a file are a record of optional values: a set of at     *)
(* most one element each.  Log levels are the numbers 1..6 of the file,    *)
(* masks and flags of levels are sets of them.                             *)
(***************************************************************************)
EXTENDS Integers, Sequences, SequencesExt

CONSTANTS
    Clients,      \* D-Bus unique names
    Contents,     \* what a configuration file may say
    NoFile,       \* a file that is missing or that GKeyFile can not parse
    NeverQuit,    \* RSU_NEVER_QUIT, the default of never-quit
    LogType,      \* RSU_LOG_TYPE, the default of log-type: 0 or 1
    Compiled,     \* RSU_LOG_LEVEL, the levels compiled in, also the default
    MaxRunning    \* bound: tasks that run at once

SYSLOG == 0
GLIB == 1

Levels == 1..6

G_LOG_FLAG_RECURSION == -1
G_LOG_FLAG_FATAL == 0

Optional(x, S) == x \subseteq S /\ \A a, b \in x : a = b

ASSUME ContentsAssumption ==
    /\ NoFile \notin Contents
    /\ \A f \in Contents : /\ Optional(f.neverQuit, BOOLEAN)
                           /\ Optional(f.logType, Int)
                           /\ Optional(f.logLevel, Seq(Int))

ASSUME DefaultsAssumption ==
    /\ NeverQuit \in BOOLEAN
    /\ LogType \in {SYSLOG, GLIB}
    /\ Compiled \subseteq Levels
    /\ MaxRunning \in Nat

VARIABLES
    \* the process
    loop,       \* "running", "stopping" (1 s timer), "exited", "failed", "crashed"
    bus,        \* "connecting", "acquired" or "lost"
    upnp,       \* g_context.upnp # NULL
    owned,      \* g_context.owner_id # 0
    signals,    \* g_context.sig_id # 0: SIGTERM and SIGINT are watched
    watchers,   \* clients in g_context.watchers
    running,    \* processor->running_tasks
    quitting,   \* processor->quitting
    onQuit,     \* a prv_context_quit_cb idle is pending
    \* the files
    system,     \* the system's configuration file
    local,      \* the user's
    monitored,  \* settings->monitor # NULL
    notified,   \* an event of the monitor is to be dispatched
    \* the settings and the log
    timer,      \* ev_id: "none", "armed" or "due"
    keyfile,    \* settings->keyfile
    settings,   \* never_quit, log_type and log_level
    log,        \* s_log_context
    syslogMask  \* the mask of syslog

processVars == <<loop, bus, upnp, owned, signals, watchers, running, quitting,
                 onQuit>>
fileVars == <<system, local, monitored, notified>>
settingsVars == <<timer, keyfile, settings, log, syslogMask>>
vars == <<processVars, fileVars, settingsVars>>

----------------------------------------------------------------------------
(***************************************************************************)
(* Reading the settings                                                    *)
(***************************************************************************)
\* log_level_array
LogLevel(level) ==
    CASE level \in Levels -> {level}
      [] level = 7 -> {1, 2, 5}
      [] level = 8 -> Levels
      [] OTHER -> {}

\* Mutant: the loop goes on after a single value.
TakeWithoutBreak(taken, level) ==
    IF level \in Levels THEN [taken EXCEPT !.levels = @ \cup LogLevel(level)]
    ELSE IF level \in {0, 7, 8} THEN [taken EXCEPT !.levels = LogLevel(level)]
    ELSE taken

\* One round of the loop of prv_rsu_settings_to_log_level.
Take(taken, level) ==
    IF taken.break THEN taken
    ELSE IF level \in Levels
         THEN [taken EXCEPT !.levels = @ \cup LogLevel(level)]
    ELSE IF level \in {0, 7, 8}
         THEN [levels |-> LogLevel(level), break |-> TRUE]
    ELSE taken

\* prv_rsu_settings_to_log_level
ToLogLevel(list) ==
    LET taken[i \in 0..Len(list)] ==
            IF i = 0 THEN [levels |-> {}, break |-> FALSE]
            ELSE Take(taken[i - 1], list[i])
    IN  taken[Len(list)].levels

\* prv_rsu_settings_to_log_type
ToLogType(type) == IF type = GLIB THEN GLIB ELSE SYSLOG

\* prv_rsu_settings_init_default
Default == [neverQuit |-> NeverQuit, logType |-> LogType, logLevel |-> Compiled]

\* The element of x, if there is one.
Or(x, default) == IF x = {} THEN default ELSE CHOOSE a \in x : TRUE

\* prv_rsu_settings_read_keys: a key that is missing or invalid leaves the
\* setting as it is in s.
ReadKeys(s, f) ==
    [neverQuit |-> Or(f.neverQuit, s.neverQuit),
     logType   |-> IF f.logType = {} THEN s.logType
                   ELSE ToLogType(Or(f.logType, 0)),
     logLevel  |-> IF f.logLevel = {} THEN s.logLevel
                   ELSE ToLogLevel(Or(f.logLevel, <<>>))]

\* prv_rsu_log_get_mf: flags that are not empty get G_LOG_FLAG_RECURSION and
\* G_LOG_FLAG_FATAL, too.
FlagsOf(levels) ==
    IF levels = {} THEN {}
    ELSE levels \cup {G_LOG_FLAG_RECURSION, G_LOG_FLAG_FATAL}

\* rsu_log_update_type_level; setlogmask(0) leaves the mask of syslog alone.
UpdateTypeLevel(type, levels) ==
    LET mask == levels \cap Compiled
    IN  /\ log' = [type |-> type, mask |-> mask,
                   flags |-> FlagsOf(levels) \cap FlagsOf(Compiled)]
        /\ syslogMask' = IF mask = {} THEN syslogMask ELSE mask

\* The file that is read, if the user's is l: that one, or else the system's.
Found(l) == IF l # NoFile THEN l ELSE system

\* Mutant: the settings are not reset to their defaults.
ReloadOnTop(l) ==
    /\ keyfile' = Found(l)
    /\ settings' = IF Found(l) = NoFile THEN Default
                   ELSE ReadKeys(settings, Found(l))
    /\ IF Found(l) = NoFile THEN UNCHANGED <<log, syslogMask>>
       ELSE UpdateTypeLevel(settings'.logType, settings'.logLevel)

\* prv_rsu_settings_reload: without any file the log is left as it is.
Reload(l) ==
    /\ keyfile' = Found(l)
    /\ settings' = IF Found(l) = NoFile THEN Default
                   ELSE ReadKeys(Default, Found(l))
    /\ IF Found(l) = NoFile THEN UNCHANGED <<log, syslogMask>>
       ELSE UpdateTypeLevel(settings'.logType, settings'.logLevel)

\* prv_rsu_settings_check_local_keyfile: a user without a file gets a copy of
\* the system's, if it can be made.
CheckLocal == local' \in {local, IF local = NoFile THEN system ELSE local}

\* prv_rsu_settings_monitor_local_keyfile, which may fail.
MonitorLocal == monitored' \in BOOLEAN

\* rsu_settings_new
SettingsNew == CheckLocal /\ MonitorLocal /\ Reload(local')

\* rsu_settings_delete
SettingsDelete == keyfile' = NoFile /\ monitored' = FALSE /\ notified' = FALSE

\* rsu_log_finalize
LogFinalize ==
    /\ log' = [type |-> SYSLOG, mask |-> {}, flags |-> {}]
    /\ syslogMask' = Levels

----------------------------------------------------------------------------
(***************************************************************************)
(* The process                                                             *)
(***************************************************************************)
\* "starting" is the moment after rsu_log_init; setlogmask(0) has no effect.
Init ==
    /\ loop = "starting" /\ bus = "connecting" /\ upnp = FALSE
    /\ owned = FALSE /\ signals = FALSE
    /\ watchers = {} /\ running = 0 /\ quitting = FALSE /\ onQuit = FALSE
    /\ system \in Contents \cup {NoFile}
    /\ local \in Contents \cup {NoFile}
    /\ monitored = FALSE /\ notified = FALSE
    /\ timer = "none" /\ keyfile = NoFile /\ settings = Default
    /\ log = [type |-> LogType, mask |-> Compiled, flags |-> FlagsOf(Compiled)]
    /\ syslogMask = IF Compiled = {} THEN {5} ELSE Compiled

\* prv_rsu_context_free, and the end of main.
ContextFree ==
    /\ upnp' = FALSE /\ watchers' = {} /\ signals' = FALSE /\ owned' = FALSE
    /\ onQuit' = FALSE
    /\ SettingsDelete /\ LogFinalize
    /\ UNCHANGED <<bus, running, quitting, system, timer, settings>>

\* main, up to g_main_loop_run.
Start ==
    /\ loop = "starting" /\ loop' = "running"
    /\ SettingsNew
    /\ owned' = TRUE /\ signals' = TRUE
    /\ UNCHANGED <<bus, upnp, watchers, running, quitting, onQuit, system,
                   notified, timer>>

\* An introspection or the signals can not be set up.
StartFails ==
    /\ loop = "starting" /\ loop' = "failed"
    /\ CheckLocal
    /\ ContextFree

Dispatching == loop \in {"running", "stopping"}

\* Mutant: quitting waits for a task to complete, whether one runs or not.
SetQuittingLater(left) ==
    quitting' = TRUE /\ running' = left /\ onQuit' = onQuit

\* rsu_task_processor_set_quitting.  Cancelling the queues completes some of
\* the running tasks at once, so that some of them are left.
SetQuitting(left) ==
    quitting' = TRUE /\ running' = left /\ onQuit' = (onQuit \/ left = 0)

\* prv_bus_acquired
BusAcquired ==
    /\ Dispatching /\ owned /\ bus = "connecting"
    /\ bus' = "acquired" /\ upnp' = TRUE
    /\ UNCHANGED <<loop, owned, signals, watchers, running, quitting, onQuit,
                   fileVars, settingsVars>>

\* prv_bus_acquired, when the manager can not be registered.
RegisterFails ==
    /\ Dispatching /\ owned /\ bus = "connecting"
    /\ loop' = "failed"
    /\ ContextFree /\ UNCHANGED local

\* prv_name_lost: there is no bus, the name is taken, or the bus has gone.
NameLost ==
    /\ Dispatching /\ owned /\ bus # "lost"
    /\ bus' = "lost"
    /\ \E left \in 0..running : SetQuitting(left)
    /\ UNCHANGED <<loop, upnp, owned, signals, watchers, fileVars, settingsVars>>

\* prv_quit_handler: SIGTERM or SIGINT.  The watch goes with the first one.
Signal ==
    /\ Dispatching /\ signals
    /\ signals' = FALSE
    /\ \E left \in 0..running : SetQuitting(left)
    /\ UNCHANGED <<loop, bus, upnp, owned, watchers, fileVars, settingsVars>>

\* prv_add_task: the methods can be called once prv_bus_acquired has
\* registered the manager.
Request(c) ==
    /\ Dispatching /\ upnp
    /\ watchers' = watchers \cup {c}
    /\ UNCHANGED <<loop, bus, upnp, owned, signals, running, quitting, onQuit,
                   fileVars, settingsVars>>

\* prv_remove_client: Release, by anyone, or the loss of a watched client.
RemoveClient(c) ==
    /\ Dispatching /\ upnp
    /\ watchers' = watchers \ {c}
    /\ IF watchers \ {c} = {} /\ ~settings.neverQuit
       THEN \E left \in 0..running : SetQuitting(left)
       ELSE UNCHANGED <<running, quitting, onQuit>>
    /\ UNCHANGED <<loop, bus, upnp, owned, signals, fileVars, settingsVars>>

\* prv_task_queue_process_task: a request or a step of a construction runs.
StartTask ==
    /\ Dispatching /\ upnp
    /\ running < MaxRunning
    /\ running' = running + 1
    /\ UNCHANGED <<loop, bus, upnp, owned, signals, watchers, quitting, onQuit,
                   fileVars, settingsVars>>

\* rsu_task_queue_task_completed
CompleteTask ==
    /\ Dispatching /\ running > 0
    /\ running' = running - 1
    /\ onQuit' = (onQuit \/ (quitting /\ running = 1))
    /\ UNCHANGED <<loop, bus, upnp, owned, signals, watchers, quitting,
                   fileVars, settingsVars>>

\* prv_context_quit_cb: rsu_upnp_unsubscribe looks into the upnp object.
ContextQuit ==
    /\ Dispatching /\ onQuit
    /\ onQuit' = FALSE
    /\ owned' = FALSE
    /\ loop' = IF upnp THEN "stopping" ELSE "crashed"
    /\ UNCHANGED <<bus, upnp, signals, watchers, running, quitting, fileVars,
                   settingsVars>>

\* prv_context_mainloop_quit_cb
MainLoopQuit ==
    /\ loop = "stopping" /\ loop' = "exited"
    /\ ContextFree /\ UNCHANGED local

----------------------------------------------------------------------------
(***************************************************************************)
(* The files and what is noticed of them                                   *)
(***************************************************************************)
\* Somebody writes, removes or replaces one of the files; the monitor,
\* if there is one, notices what happens to the user's.
EditLocal ==
    /\ loop # "starting"
    /\ \E f \in Contents \cup {NoFile} : f # local /\ local' = f
    /\ notified' = monitored
    /\ UNCHANGED <<processVars, system, monitored, settingsVars>>

EditSystem ==
    /\ loop # "starting"
    /\ \E f \in Contents \cup {NoFile} : f # system /\ system' = f
    /\ UNCHANGED <<processVars, local, monitored, notified, settingsVars>>

\* Mutant: a pending timer is taken for enough.
ArmOnce == IF timer = "none" THEN "armed" ELSE timer

\* The timer of the monitor is set up anew.
Arm == "armed"

\* prv_rsu_settings_monitor_keyfile_cb
MonitorEvent ==
    /\ Dispatching /\ notified
    /\ notified' = FALSE
    /\ timer' = Arm
    /\ UNCHANGED <<processVars, system, local, monitored, keyfile, settings,
                   log, syslogMask>>

\* A second passes.
SecondPasses ==
    /\ Dispatching /\ timer = "armed"
    /\ timer' = "due"
    /\ UNCHANGED <<processVars, fileVars, keyfile, settings, log, syslogMask>>

\* prv_rsu_settings_monitor_timout_cb
MonitorTimeout ==
    /\ Dispatching /\ timer = "due"
    /\ Reload(local)
    /\ timer' = "none"
    /\ UNCHANGED <<processVars, fileVars>>

\* The process has gone.
Gone == loop \in {"exited", "failed", "crashed"} /\ UNCHANGED vars

Next ==
    \/ Start \/ StartFails \/ BusAcquired \/ RegisterFails
    \/ NameLost \/ Signal
    \/ \E c \in Clients : Request(c) \/ RemoveClient(c)
    \/ StartTask \/ CompleteTask \/ ContextQuit \/ MainLoopQuit
    \/ EditLocal \/ EditSystem
    \/ MonitorEvent \/ SecondPasses \/ MonitorTimeout
    \/ Gone

(***************************************************************************)
(* The main loop dispatches what stays ready, tasks that run complete (the *)
(* assumption of TaskProcessor), and a second passes at last.  Nothing is  *)
(* assumed of the bus, of clients, of signals and of who edits the files.  *)
(***************************************************************************)
Fairness ==
    /\ WF_vars(CompleteTask) /\ WF_vars(ContextQuit) /\ WF_vars(MainLoopQuit)
    /\ WF_vars(MonitorEvent) /\ WF_vars(SecondPasses) /\ WF_vars(MonitorTimeout)

Spec == Init /\ [][Next]_vars

FairSpec == Spec /\ Fairness

----------------------------------------------------------------------------
ProcessTypeOK ==
    /\ loop \in {"starting", "running", "stopping", "exited", "failed", "crashed"}
    /\ bus \in {"connecting", "acquired", "lost"}
    /\ upnp \in BOOLEAN /\ owned \in BOOLEAN /\ signals \in BOOLEAN
    /\ watchers \subseteq Clients
    /\ running \in 0..MaxRunning
    /\ quitting \in BOOLEAN /\ onQuit \in BOOLEAN

FilesTypeOK ==
    /\ system \in Contents \cup {NoFile} /\ local \in Contents \cup {NoFile}
    /\ monitored \in BOOLEAN /\ notified \in BOOLEAN
    /\ timer \in {"none", "armed", "due"}

SettingsTypeOK ==
    /\ keyfile \in Contents \cup {NoFile}
    /\ settings.neverQuit \in BOOLEAN /\ settings.logType \in {SYSLOG, GLIB}
    /\ log.type \in {SYSLOG, GLIB}
    /\ log.mask \subseteq Levels
    /\ log.flags \subseteq Levels \cup {G_LOG_FLAG_RECURSION, G_LOG_FLAG_FATAL}
    /\ syslogMask \subseteq Levels

TypeOK == ProcessTypeOK /\ FilesTypeOK /\ SettingsTypeOK

\* rsu_log_trace and prv_rsu_log_handler: what becomes of a message of a level,
\* but for G_LOG_LEVEL_ERROR, which GLib makes fatal and nothing here logs.
Written(level) ==
    \/ log.type = SYSLOG /\ log.mask # {} /\ level \in syslogMask
    \/ log.type = GLIB /\ log.flags # {} /\ level \in log.flags

\* What the file asks for: "Take all valid values, even duplicated ones, and
\* skip all others.  Priority is single value (0,7,8) over multi value (1..6).
\* Priority for single values is first found" (settings.c).
Wanted(f) ==
    IF f.logLevel = {} THEN Compiled
    ELSE LET list == Or(f.logLevel, <<>>)
             single == {i \in DOMAIN list : list[i] \in {0, 7, 8}}
             first == CHOOSE i \in single : \A j \in single : i <= j
         IN  IF single = {} THEN Range(list) \cap Levels
             ELSE LogLevel(list[first])

\* The log does what the settings say, from the moment a file is loaded:
\* whichever of the two ways of logging was in use, and although setlogmask
\* ignores an empty mask.
LogFollowsSettings ==
    keyfile # NoFile =>
        \A level \in 2..6 :
            Written(level) <=> level \in settings.logLevel \cap Compiled

\* "This log level is a subset of the log level defined at compile time"
\* (the configuration file): a message is written if and only if its level is
\* compiled in and asked for by the file that was loaded last, and it is written
\* the way the file asks for, however often the files have changed or gone before.
\* This is about the numbers and ways that the code and the file's own comments
\* name alike: the levels 3=warning to 6=debug, 0=Syslog and 1=GLib.  (The
\* comments say 1=critical, 2=error and 2=File, the code has 1 for error and 2
\* for critical, and takes 2 for syslog.)
LogIsConfigured ==
    keyfile # NoFile =>
        /\ \A level \in 3..6 :
               Written(level) <=> level \in Wanted(keyfile) \cap Compiled
        /\ \A type \in keyfile.logType \cap {SYSLOG, GLIB} : log.type = type

\* Once the files are left alone, a process that goes on, and that could set
\* up its monitor, ends up with the settings of the user's file, if it can be
\* read: a change that comes while the timer of an earlier one runs is not
\* missed, and a key that was taken out of the file goes back to its default.
SettingsFollowFile ==
    <>[][FALSE]_<<local, system>> =>
        <>[](monitored /\ local # NoFile /\ Dispatching =>
                 keyfile = local /\ settings = ReadKeys(Default, local))

\* A process that is told to quit, by a signal, by the loss of its name or by
\* its last client, exits, if it has got its upnp object by then and if no new
\* tasks start for ever: the quit idle is posted at once when nothing runs and
\* by the last task when something does, whatever comes in between.
ExitsOnceTold ==
    <>[][running' <= running]_running =>
        (quitting /\ upnp ~> loop = "exited")

\* The safety half of it: as long as a process that is to quit has not begun
\* to, a task runs that will make it, or the quit idle is posted.
QuitIsPosted ==
    loop = "running" /\ quitting => running > 0 \/ onQuit

=============================================================================
