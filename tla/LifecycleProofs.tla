-------------------------- MODULE LifecycleProofs --------------------------
(***************************************************************************)
(* Invariants of Lifecycle, for any contents of the files, any clients and *)
(* any number of running tasks.                                            *)
(***************************************************************************)
EXTENDS Lifecycle, Loops

\* The settings are those of the key file, read on top of the defaults.
SettingsAreRead ==
    settings = IF keyfile = NoFile THEN settings
               ELSE ReadKeys(Default, keyfile)

\* Once a file is loaded the log has its levels, and syslog its mask unless
\* that is empty.
LogIsUpdated ==
    keyfile # NoFile =>
        /\ log.type = settings.logType
        /\ log.mask = settings.logLevel \cap Compiled
        /\ log.flags = FlagsOf(settings.logLevel) \cap FlagsOf(Compiled)
        /\ log.mask # {} => syslogMask = log.mask

\* Nobody asks a process to quit that has not yet begun to dispatch.
StartsFresh == loop = "starting" => ~quitting

ProcessInv == ProcessTypeOK /\ StartsFresh /\ QuitIsPosted

SettingsInv == SettingsTypeOK /\ SettingsAreRead /\ LogIsUpdated

IndInv == ProcessInv /\ FilesTypeOK /\ SettingsInv

----------------------------------------------------------------------------
\* The key that is there, or else the default.
LEMMA OrType ==
    ASSUME NEW S, NEW x, Optional(x, S), NEW default \in S
    PROVE  Or(x, default) \in S
BY DEF Optional, Or

LEMMA ReadKeysType ==
    ASSUME NEW f \in Contents
    PROVE  /\ ReadKeys(Default, f).neverQuit \in BOOLEAN
           /\ ReadKeys(Default, f).logType \in {SYSLOG, GLIB}
<1>1. Optional(f.neverQuit, BOOLEAN) /\ NeverQuit \in BOOLEAN
  BY ContentsAssumption, DefaultsAssumption
<1>2. Or(f.neverQuit, NeverQuit) \in BOOLEAN
  BY <1>1, OrType
<1>. QED
  BY <1>2, DefaultsAssumption DEF ReadKeys, Default, ToLogType

LEMMA FlagsType ==
    FlagsOf(Compiled) \subseteq Levels \cup {G_LOG_FLAG_RECURSION, G_LOG_FLAG_FATAL}
BY DefaultsAssumption DEF FlagsOf

----------------------------------------------------------------------------
\* Whatever is found when the files are read, what is said of the settings and
\* of the log holds afterwards.
LEMMA ReloadPreserves ==
    ASSUME SettingsInv, FilesTypeOK, NEW l \in Contents \cup {NoFile}, Reload(l)
    PROVE  SettingsInv'
<1>. DEFINE f == Found(l)
<1>1. f \in Contents \cup {NoFile} /\ keyfile' = f
  BY DEF FilesTypeOK, Found, Reload
<1>2. CASE f = NoFile
  <2>1. settings' = Default /\ UNCHANGED <<log, syslogMask>> /\ keyfile' = NoFile
    BY <1>2 DEF Reload
  <2>2. Default.neverQuit \in BOOLEAN /\ Default.logType \in {SYSLOG, GLIB}
    BY DefaultsAssumption DEF Default
  <2>3. SettingsTypeOK'
    BY <2>1, <2>2 DEF SettingsInv, SettingsTypeOK
  <2>. QED
    BY <2>1, <2>3 DEF SettingsInv, SettingsAreRead, LogIsUpdated
<1>3. CASE f # NoFile
  <2>1. /\ settings' = ReadKeys(Default, f) /\ keyfile' = f
        /\ UpdateTypeLevel(settings'.logType, settings'.logLevel)
    BY <1>3 DEF Reload
  <2>2. /\ settings'.neverQuit \in BOOLEAN
        /\ settings'.logType \in {SYSLOG, GLIB}
    BY <1>1, <1>3, <2>1, ReadKeysType
  <2>3. /\ log'.type = settings'.logType
        /\ log'.mask = settings'.logLevel \cap Compiled
        /\ log'.flags = FlagsOf(settings'.logLevel) \cap FlagsOf(Compiled)
        /\ syslogMask' = IF log'.mask = {} THEN syslogMask ELSE log'.mask
    BY <2>1 DEF UpdateTypeLevel
  <2>4. /\ log'.mask \subseteq Levels
        /\ log'.flags \subseteq
               Levels \cup {G_LOG_FLAG_RECURSION, G_LOG_FLAG_FATAL}
    BY <2>3, FlagsType, DefaultsAssumption
  <2>5. syslogMask' \subseteq Levels
    BY <2>3, <2>4 DEF SettingsInv, SettingsTypeOK
  <2>6. SettingsAreRead' /\ LogIsUpdated'
    BY <1>3, <2>1, <2>3 DEF SettingsAreRead, LogIsUpdated
  <2>. QED
    BY <1>1, <2>2, <2>3, <2>4, <2>5, <2>6 DEF SettingsInv, SettingsTypeOK
<1>. QED
  BY <1>2, <1>3

\* What leaves the settings and the log alone preserves what is said of them.
LEMMA SettingsKept ==
    ASSUME SettingsInv, UNCHANGED <<keyfile, settings, log, syslogMask>>
    PROVE  SettingsInv'
BY DEF SettingsInv, SettingsTypeOK, SettingsAreRead, LogIsUpdated

LEMMA FilesKept ==
    ASSUME FilesTypeOK, UNCHANGED <<fileVars, timer>>
    PROVE  FilesTypeOK'
BY DEF FilesTypeOK, fileVars

LEMMA ProcessKept ==
    ASSUME ProcessInv, UNCHANGED processVars
    PROVE  ProcessInv'
BY DEF ProcessInv, ProcessTypeOK, StartsFresh, QuitIsPosted, processVars

\* Whoever asks to quit, and however many tasks are left: the quit idle is
\* posted unless one of them runs.
LEMMA SetQuittingPosts ==
    ASSUME ProcessInv, NEW left \in 0..running, SetQuitting(left)
    PROVE  /\ running' \in 0..MaxRunning
           /\ quitting' \in BOOLEAN /\ onQuit' \in BOOLEAN
           /\ running' > 0 \/ onQuit'
<1>1. running \in 0..MaxRunning /\ MaxRunning \in Nat /\ onQuit \in BOOLEAN
  BY DefaultsAssumption DEF ProcessInv, ProcessTypeOK
<1>2. quitting' = TRUE /\ running' = left /\ onQuit' = (onQuit \/ left = 0)
  BY DEF SetQuitting
<1>3. CASE left = 0
  <2>1. onQuit' = TRUE
    BY <1>2, <1>3
  <2>. QED
    BY <1>1, <1>2, <2>1
<1>4. CASE left # 0
  <2>1. onQuit' = onQuit
    BY <1>1, <1>2, <1>4
  <2>. QED
    BY <1>1, <1>2, <1>4, <2>1
<1>. QED
  BY <1>3, <1>4

LEMMA ContextFreePreserves ==
    ASSUME IndInv, ContextFree, loop' \in {"failed", "exited"},
           local' \in Contents \cup {NoFile}
    PROVE  IndInv'
<1>1. ProcessInv'
  BY DEF IndInv, ProcessInv, ProcessTypeOK, StartsFresh, QuitIsPosted, ContextFree
<1>2. FilesTypeOK'
  BY DEF IndInv, FilesTypeOK, ContextFree, SettingsDelete
<1>3. SettingsInv'
  <2>1. /\ keyfile' = NoFile /\ settings' = settings
        /\ log'.type = SYSLOG /\ log'.mask = {} /\ log'.flags = {}
        /\ syslogMask' = Levels
    BY DEF ContextFree, SettingsDelete, LogFinalize
  <2>. QED
    BY <2>1 DEF IndInv, SettingsInv, SettingsTypeOK, SettingsAreRead, LogIsUpdated
<1>. QED
  BY <1>1, <1>2, <1>3 DEF IndInv

LEMMA InitIndInv == Init => IndInv
<1>. SUFFICES ASSUME Init PROVE IndInv
  OBVIOUS
<1>1. ProcessInv
  <2>1. running \in 0..MaxRunning
    BY DefaultsAssumption DEF Init
  <2>2. ProcessTypeOK
    BY <2>1 DEF Init, ProcessTypeOK
  <2>. QED
    BY <2>2 DEF Init, ProcessInv, StartsFresh, QuitIsPosted
<1>2. FilesTypeOK
  BY DEF Init, FilesTypeOK
<1>3. SettingsInv
  <2>1. /\ log.type = LogType /\ log.mask = Compiled
        /\ log.flags = FlagsOf(Compiled)
        /\ settings.neverQuit = NeverQuit /\ settings.logType = LogType
        /\ keyfile = NoFile
    BY DEF Init, Default
  <2>2. syslogMask \subseteq Levels
    BY DefaultsAssumption DEF Init, Levels
  <2>. QED
    BY <2>1, <2>2, DefaultsAssumption, FlagsType
       DEF SettingsInv, SettingsTypeOK, SettingsAreRead, LogIsUpdated
<1>. QED
  BY <1>1, <1>2, <1>3 DEF IndInv

----------------------------------------------------------------------------
\* The steps of the process alone.
LEMMA ProcessStepPreserves ==
    ASSUME ProcessInv,
           \/ BusAcquired \/ NameLost \/ Signal \/ StartTask \/ CompleteTask
           \/ ContextQuit \/ \E c \in Clients : Request(c) \/ RemoveClient(c)
    PROVE  ProcessInv' /\ UNCHANGED <<fileVars, settingsVars>>
<1>. USE DefaultsAssumption
<1>1. CASE BusAcquired
  BY <1>1 DEF BusAcquired, ProcessInv, ProcessTypeOK, StartsFresh, QuitIsPosted
<1>2. CASE NameLost
  <2>1. PICK left \in 0..running : SetQuitting(left)
    BY <1>2 DEF NameLost
  <2>2. /\ loop \in {"running", "stopping"} /\ bus' = "lost"
        /\ UNCHANGED <<loop, upnp, owned, signals, watchers, fileVars,
                       settingsVars>>
    BY <1>2 DEF NameLost, Dispatching
  <2>. QED
    BY <2>1, <2>2, SetQuittingPosts
       DEF ProcessInv, ProcessTypeOK, StartsFresh, QuitIsPosted
<1>3. CASE Signal
  <2>1. PICK left \in 0..running : SetQuitting(left)
    BY <1>3 DEF Signal
  <2>2. /\ loop \in {"running", "stopping"} /\ signals' = FALSE
        /\ UNCHANGED <<loop, bus, upnp, owned, watchers, fileVars, settingsVars>>
    BY <1>3 DEF Signal, Dispatching
  <2>. QED
    BY <2>1, <2>2, SetQuittingPosts
       DEF ProcessInv, ProcessTypeOK, StartsFresh, QuitIsPosted
<1>4. CASE StartTask
  BY <1>4 DEF StartTask, ProcessInv, ProcessTypeOK, StartsFresh, QuitIsPosted
<1>5. CASE CompleteTask
  BY <1>5 DEF CompleteTask, ProcessInv, ProcessTypeOK, StartsFresh, QuitIsPosted
<1>6. CASE ContextQuit
  <2>1. /\ loop' \in {"stopping", "crashed"}
        /\ onQuit' = FALSE /\ owned' = FALSE
        /\ UNCHANGED <<bus, upnp, signals, watchers, running, quitting,
                       fileVars, settingsVars>>
    BY <1>6 DEF ContextQuit
  <2>. QED
    BY <2>1 DEF ProcessInv, ProcessTypeOK, StartsFresh, QuitIsPosted
<1>7. ASSUME NEW c \in Clients, Request(c)
      PROVE  ProcessInv' /\ UNCHANGED <<fileVars, settingsVars>>
  BY <1>7 DEF Request, ProcessInv, ProcessTypeOK, StartsFresh, QuitIsPosted
<1>8. ASSUME NEW c \in Clients, RemoveClient(c)
      PROVE  ProcessInv' /\ UNCHANGED <<fileVars, settingsVars>>
  <2>1. /\ loop \in {"running", "stopping"} /\ watchers' = watchers \ {c}
        /\ UNCHANGED <<loop, bus, upnp, owned, signals, fileVars, settingsVars>>
    BY <1>8 DEF RemoveClient, Dispatching
  <2>2. CASE UNCHANGED <<running, quitting, onQuit>>
    BY <2>1, <2>2 DEF ProcessInv, ProcessTypeOK, StartsFresh, QuitIsPosted
  <2>3. CASE \E left \in 0..running : SetQuitting(left)
    <3>1. PICK left \in 0..running : SetQuitting(left)
      BY <2>3
    <3>. QED
      BY <2>1, <3>1, SetQuittingPosts
         DEF ProcessInv, ProcessTypeOK, StartsFresh, QuitIsPosted
  <2>. QED
    BY <1>8, <2>2, <2>3 DEF RemoveClient
<1>. QED
  BY <1>1, <1>2, <1>3, <1>4, <1>5, <1>6, <1>7, <1>8

LEMMA NextIndInv == IndInv /\ [Next]_vars => IndInv'
<1>. SUFFICES ASSUME IndInv, [Next]_vars PROVE IndInv'
  OBVIOUS
<1>1. CASE \/ BusAcquired \/ NameLost \/ Signal \/ StartTask \/ CompleteTask
           \/ ContextQuit \/ \E c \in Clients : Request(c) \/ RemoveClient(c)
  <2>1. ProcessInv' /\ UNCHANGED <<fileVars, settingsVars>>
    BY <1>1, ProcessStepPreserves DEF IndInv
  <2>. QED
    BY <2>1, FilesKept, SettingsKept DEF IndInv, settingsVars
<1>2. CASE Start
  <2>1. /\ local' \in Contents \cup {NoFile} /\ monitored' \in BOOLEAN
        /\ Reload(local')
    BY <1>2 DEF Start, SettingsNew, CheckLocal, MonitorLocal, IndInv, FilesTypeOK
  <2>2. ProcessInv'
    BY <1>2 DEF Start, IndInv, ProcessInv, ProcessTypeOK, StartsFresh, QuitIsPosted
  <2>3. FilesTypeOK'
    BY <1>2, <2>1 DEF Start, IndInv, FilesTypeOK
  <2>. QED
    BY <2>1, <2>2, <2>3, ReloadPreserves DEF IndInv
<1>3. CASE StartFails
  BY <1>3, ContextFreePreserves DEF StartFails, CheckLocal, IndInv, FilesTypeOK
<1>4. CASE RegisterFails
  BY <1>4, ContextFreePreserves DEF RegisterFails, IndInv, FilesTypeOK
<1>5. CASE MainLoopQuit
  BY <1>5, ContextFreePreserves DEF MainLoopQuit, IndInv, FilesTypeOK
<1>6. CASE EditLocal \/ EditSystem
  <2>1. FilesTypeOK' /\ UNCHANGED <<processVars, settingsVars>>
    BY <1>6 DEF EditLocal, EditSystem, IndInv, FilesTypeOK, settingsVars
  <2>. QED
    BY <2>1, ProcessKept, SettingsKept DEF IndInv, settingsVars
<1>7. CASE MonitorEvent \/ SecondPasses
  <2>1. /\ FilesTypeOK'
        /\ UNCHANGED <<processVars, keyfile, settings, log, syslogMask>>
    BY <1>7 DEF MonitorEvent, SecondPasses, Arm, fileVars, IndInv, FilesTypeOK
  <2>. QED
    BY <2>1, ProcessKept, SettingsKept DEF IndInv
<1>8. CASE MonitorTimeout
  <2>1. local \in Contents \cup {NoFile} /\ Reload(local)
    BY <1>8 DEF MonitorTimeout, IndInv, FilesTypeOK
  <2>2. FilesTypeOK' /\ UNCHANGED processVars
    BY <1>8 DEF MonitorTimeout, fileVars, IndInv, FilesTypeOK
  <2>. QED
    BY <2>1, <2>2, ReloadPreserves, ProcessKept DEF IndInv
<1>9. CASE UNCHANGED vars
  BY <1>9, ProcessKept, FilesKept, SettingsKept DEF vars, settingsVars, IndInv
<1>. QED
  BY <1>1, <1>2, <1>3, <1>4, <1>5, <1>6, <1>7, <1>8, <1>9 DEF Next, Gone

----------------------------------------------------------------------------
(***************************************************************************)
(* Theorems                                                                *)
(***************************************************************************)

\* The inductive invariant: the types, the settings as they are read from the
\* file, the log as it follows from them, and the quit that is posted.
THEOREM SpecIndInv == Spec => []IndInv
<1>. QED
  BY InitIndInv, NextIndInv, PTL DEF Spec

\* Every variable keeps its type.
THEOREM SpecTypeOK == Spec => []TypeOK
<1>1. IndInv => TypeOK
  BY DEF IndInv, ProcessInv, SettingsInv, TypeOK
<1>. QED
  BY SpecIndInv, <1>1, PTL

\* The settings that a file makes for itself are those that the log follows:
\* each message is written or not as the settings say, through any sequence of
\* reloads between syslog, GLib and empty masks (rsu_log_update_type_level).
THEOREM SpecLogFollowsSettings == Spec => []LogFollowsSettings
<1>1. IndInv => LogFollowsSettings
  <2>. SUFFICES ASSUME IndInv, keyfile # NoFile, NEW level \in 2..6
                PROVE  Written(level) <=> level \in settings.logLevel \cap Compiled
    BY DEF LogFollowsSettings
  <2>1. /\ log.type \in {SYSLOG, GLIB}
        /\ log.mask = settings.logLevel \cap Compiled
        /\ log.flags = FlagsOf(settings.logLevel) \cap FlagsOf(Compiled)
        /\ log.mask # {} => syslogMask = log.mask
    BY DEF IndInv, SettingsInv, SettingsTypeOK, LogIsUpdated
  <2>2. \A S : level \in FlagsOf(S) <=> level \in S
    BY DEF FlagsOf, G_LOG_FLAG_RECURSION, G_LOG_FLAG_FATAL
  <2>3. CASE log.type = SYSLOG
    BY <2>1, <2>3 DEF Written, SYSLOG, GLIB
  <2>4. CASE log.type = GLIB
    BY <2>1, <2>2, <2>4 DEF Written, SYSLOG, GLIB
  <2>. QED
    BY <2>1, <2>3, <2>4
<1>. QED
  BY SpecIndInv, <1>1, PTL

----------------------------------------------------------------------------
(***************************************************************************)
(* The loop over a list of levels.                                         *)
(***************************************************************************)
Takes == [levels : SUBSET Levels, break : BOOLEAN]

LEMMA TakeType ==
    ASSUME NEW taken \in Takes, NEW level \in Int
    PROVE  Take(taken, level) \in Takes
<1>1. LogLevel(level) \subseteq Levels
  BY DEF LogLevel, Levels
<1>2. taken.levels \cup LogLevel(level) \subseteq Levels
  BY <1>1 DEF Takes
<1>. QED
  BY <1>1, <1>2 DEF Take, Takes

\* What ToLogLevel computes, round by round.
LEMMA ToLogLevelRounds ==
    ASSUME NEW list \in Seq(Int)
    PROVE  \E taken :
              /\ taken[0] = [levels |-> {}, break |-> FALSE]
              /\ \A i \in 1..Len(list) : taken[i] = Take(taken[i - 1], list[i])
              /\ ToLogLevel(list) = taken[Len(list)].levels
<1>. DEFINE none == [levels |-> {}, break |-> FALSE]
            step == [p \in Takes \X Int |-> Take(p[1], p[2])]
            Rounds(f) == f = [i \in 0..Len(list) |->
                                IF i = 0 THEN none ELSE Take(f[i - 1], list[i])]
            taken == CHOOSE f : Rounds(f)
<1>1. /\ Len(list) \in Nat /\ none \in Takes
      /\ \A i \in 1..Len(list) : list[i] \in Int
  BY DEF Takes
<1>2. step \in [Takes \X Int -> Takes]
  BY TakeType
<1>3. ToLogLevel(list) = taken[Len(list)].levels
  BY DEF ToLogLevel
<1>. HIDE DEF none
<1>4. PICK f \in [0..Len(list) -> Takes] :
         /\ f[0] = none
         /\ \A i \in 1..Len(list) : f[i] = step[<<f[i - 1], list[i]>>]
  <2>1. IsLoop(Takes, Int, step, none, list)
    BY <1>1, <1>2 DEF IsLoop
  <2>2. HasRun(Takes, step, none, list)
    BY <2>1, LoopDefined
  <2>. QED
    BY <2>2 DEF HasRun
<1>5. \A i \in 1..Len(list) : f[i] = Take(f[i - 1], list[i])
  <2>. TAKE i \in 1..Len(list)
  <2>1. f[i - 1] \in Takes /\ list[i] \in Int
    BY <1>1
  <2>2. step[<<f[i - 1], list[i]>>] = Take(f[i - 1], list[i])
    BY <2>1
  <2>. QED
    BY <1>4, <2>2
<1>. HIDE DEF step
<1>6. \A i \in 0..Len(list) :
         f[i] = IF i = 0 THEN none ELSE Take(f[i - 1], list[i])
  BY <1>1, <1>4, <1>5
<1>7. Rounds(f)
  BY <1>6
<1>8. Rounds(taken)
  BY <1>7
<1>. HIDE DEF taken
<1>9. /\ taken[0] = none
      /\ \A i \in 1..Len(list) : taken[i] = Take(taken[i - 1], list[i])
  BY <1>1, <1>8
<1>. QED
  BY <1>3, <1>9 DEF none

\* The places of the values that stand alone.
Singles(list) == {i \in DOMAIN list : list[i] \in {0, 7, 8}}

\* prv_rsu_settings_to_log_level yields the first value that stands alone, if
\* there is one, and else all the levels of the list.
LEMMA ToLogLevelIs ==
    ASSUME NEW list \in Seq(Int)
    PROVE  /\ Singles(list) = {} => ToLogLevel(list) = Range(list) \cap Levels
           /\ \A first \in Singles(list) :
                 (\A j \in Singles(list) : first <= j)
                    => ToLogLevel(list) = LogLevel(list[first])
<1>. DEFINE len == Len(list)
<1>1. PICK taken :
              /\ taken[0] = [levels |-> {}, break |-> FALSE]
              /\ \A i \in 1..len : taken[i] = Take(taken[i - 1], list[i])
              /\ ToLogLevel(list) = taken[len].levels
  BY ToLogLevelRounds
<1>2. len \in Nat /\ DOMAIN list = 1..len /\ \A i \in 1..len : list[i] \in Int
  OBVIOUS
<1>. HIDE DEF len
<1>3. \A i \in 1..len : i \in Singles(list) <=> list[i] \in {0, 7, 8}
  BY <1>2 DEF Singles
<1>. DEFINE Seen(n) == {list[i] : i \in 1..n} \cap Levels
            Multi(n) == /\ \A i \in 1..n : i \notin Singles(list)
                        /\ taken[n] = [levels |-> Seen(n), break |-> FALSE]
            Broken(n, i) == /\ i \in Singles(list)
                            /\ \A j \in Singles(list) : i <= j
                            /\ taken[n] = [levels |-> LogLevel(list[i]),
                                           break |-> TRUE]
            Single(n) == \E i \in 1..n : Broken(n, i)
            Read == {n \in 0..len : Multi(n) \/ Single(n)}
<1>4. 0 \in Read
  <2>1. Seen(0) = {} /\ 1..0 = {}
    OBVIOUS
  <2>2. Multi(0)
    BY <1>1, <2>1
  <2>. QED
    BY <1>2, <2>2
<1>5. ASSUME NEW n \in 0..(len - 1), n \in Read
      PROVE  n + 1 \in Read
  <2>. DEFINE level == list[n + 1]
  <2>1. /\ n \in Nat /\ n + 1 \in 1..len /\ level \in Int
        /\ taken[n + 1] = Take(taken[n], level)
        /\ \A i \in 1..(n + 1) : i \in 1..n \/ i = n + 1
        /\ \A i \in 1..n : i \in 1..(n + 1)
    BY <1>1, <1>2
  <2>. HIDE DEF level
  <2>2. CASE Single(n)
    <3>1. PICK i \in 1..n : Broken(n, i)
      BY <2>2
    <3>2. taken[n + 1] = taken[n]
      BY <2>1, <3>1 DEF Take
    <3>3. Broken(n + 1, i)
      BY <3>1, <3>2
    <3>. HIDE DEF Broken, Multi
    <3>. QED
      BY <2>1, <3>3
  <2>3. CASE Multi(n) /\ level \in {0, 7, 8}
    <3>1. taken[n + 1] = [levels |-> LogLevel(level), break |-> TRUE]
      BY <2>1, <2>3 DEF Take, Levels
    <3>2. n + 1 \in Singles(list) /\ \A j \in Singles(list) : n + 1 <= j
      <4>1. Singles(list) \subseteq 1..len
        BY <1>2 DEF Singles
      <4>. QED
        BY <1>2, <1>3, <2>1, <2>3, <4>1 DEF level
    <3>3. Broken(n + 1, n + 1)
      BY <3>1, <3>2 DEF level
    <3>. HIDE DEF Broken, Multi
    <3>. QED
      BY <2>1, <3>3
  <2>4. CASE Multi(n) /\ level \notin {0, 7, 8}
    <3>1. \A i \in 1..(n + 1) : i \notin Singles(list)
      BY <1>3, <2>1, <2>4 DEF level
    <3>2. Seen(n + 1) = Seen(n) \cup ({level} \cap Levels)
      BY <2>1 DEF level
    <3>3. taken[n + 1] = [levels |-> Seen(n + 1), break |-> FALSE]
      <4>1. CASE level \in Levels
        <5>1. LogLevel(level) = {level}
          BY <4>1 DEF LogLevel, Levels
        <5>. HIDE DEF Seen
        <5>2. Seen(n + 1) = Seen(n) \cup {level}
          BY <3>2, <4>1
        <5>3. Take([levels |-> Seen(n), break |-> FALSE], level)
                 = [levels |-> Seen(n) \cup {level}, break |-> FALSE]
          BY <4>1, <5>1 DEF Take
        <5>. QED
          BY <2>1, <2>4, <5>2, <5>3
      <4>2. CASE level \notin Levels
        <5>1. Seen(n + 1) = Seen(n)
          BY <3>2, <4>2
        <5>. HIDE DEF Seen
        <5>. QED
          BY <2>1, <2>4, <4>2, <5>1 DEF Take
      <4>. QED
        BY <4>1, <4>2
    <3>. QED
      BY <2>1, <3>1, <3>3
  <2>. QED
    BY <1>5, <2>2, <2>3, <2>4
<1>6. len \in Read
  <2>. HIDE DEF Read
  <2>1. 0..len \subseteq Read
    BY <1>2, <1>4, <1>5, RoundsInduction
  <2>. QED
    BY <1>2, <2>1
<1>7. CASE Multi(len)
  <2>1. Singles(list) = {}
    BY <1>2, <1>7 DEF Singles
  <2>2. Seen(len) = Range(list) \cap Levels
    BY <1>2 DEF Range
  <2>. QED
    BY <1>1, <1>7, <2>1, <2>2
<1>8. CASE Single(len)
  <2>1. PICK i \in 1..len : Broken(len, i)
    BY <1>8
  <2>2. \A first \in Singles(list) :
           (\A j \in Singles(list) : first <= j) => first = i
    <3>1. Singles(list) \subseteq 1..len
      BY <1>2 DEF Singles
    <3>. QED
      BY <1>2, <2>1, <3>1
  <2>3. ToLogLevel(list) = LogLevel(list[i])
    BY <1>1, <2>1
  <2>4. Singles(list) # {}
    BY <2>1
  <2>. QED
    BY <2>2, <2>3, <2>4
<1>. QED
  BY <1>6, <1>7, <1>8

\* What is read from a file is what the file asks for.
LEMMA ReadIsWanted ==
    ASSUME NEW f \in Contents
    PROVE  ReadKeys(Default, f).logLevel = Wanted(f)
<1>. DEFINE list == Or(f.logLevel, <<>>)
<1>1. CASE f.logLevel = {}
  BY <1>1 DEF ReadKeys, Wanted, Default
<1>2. CASE f.logLevel # {}
  <2>1. list \in Seq(Int)
    <3>1. Optional(f.logLevel, Seq(Int)) /\ <<>> \in Seq(Int)
      BY ContentsAssumption
    <3>. QED
      BY <3>1, OrType
  <2>2. ReadKeys(Default, f).logLevel = ToLogLevel(list)
    BY <1>2 DEF ReadKeys
  <2>. DEFINE first == CHOOSE i \in Singles(list) :
                          \A j \in Singles(list) : i <= j
  <2>3. Wanted(f) = IF Singles(list) = {} THEN Range(list) \cap Levels
                    ELSE LogLevel(list[first])
    BY <1>2 DEF Wanted, Singles
  <2>. HIDE DEF list
  <2>4. Singles(list) # {} =>
           first \in Singles(list) /\ \A j \in Singles(list) : first <= j
    <3>1. Singles(list) \in SUBSET Nat
      BY <2>1 DEF Singles
    <3>. QED
      BY <3>1, LeastExists
  <2>. HIDE DEF first
  <2>. QED
    BY <2>1, <2>2, <2>3, <2>4, ToLogLevelIs
<1>. QED
  BY <1>1, <1>2

\* What is written, and where, is what the file asks for in the levels and ways
\* that the code and the file's comments name alike, and the loop of
\* prv_rsu_settings_to_log_level does what its comment says: whatever lists the
\* files have, in whatever order they come and go.
THEOREM SpecLogIsConfigured == Spec => []LogIsConfigured
<1>1. IndInv /\ LogFollowsSettings => LogIsConfigured
  <2>. SUFFICES ASSUME IndInv, LogFollowsSettings, keyfile # NoFile
                PROVE  LogIsConfigured
    BY DEF LogIsConfigured
  <2>1. keyfile \in Contents /\ settings = ReadKeys(Default, keyfile)
    BY DEF IndInv, SettingsInv, SettingsTypeOK, SettingsAreRead
  <2>2. settings.logLevel = Wanted(keyfile)
    BY <2>1, ReadIsWanted
  <2>3. ASSUME NEW level \in 3..6
        PROVE  Written(level) <=> level \in Wanted(keyfile) \cap Compiled
    BY <2>2 DEF LogFollowsSettings
  <2>4. ASSUME NEW type \in keyfile.logType \cap {SYSLOG, GLIB}
        PROVE  log.type = type
    <3>1. Or(keyfile.logType, 0) = type
      BY <2>1, ContentsAssumption DEF Optional, Or
    <3>2. settings.logType = ToLogType(type)
      BY <2>1, <3>1 DEF ReadKeys
    <3>. QED
      BY <3>2 DEF IndInv, SettingsInv, LogIsUpdated, ToLogType
  <2>. QED
    BY <2>3, <2>4 DEF LogIsConfigured
<1>. QED
  BY SpecIndInv, SpecLogFollowsSettings, <1>1, PTL

\* No request to quit is forgotten, whoever makes it and whatever runs: the
\* safety half of ExitsOnceTold, for any number of tasks.
THEOREM SpecQuitIsPosted == Spec => []QuitIsPosted
<1>1. IndInv => QuitIsPosted
  BY DEF IndInv, ProcessInv
<1>. QED
  BY SpecIndInv, <1>1, PTL

=============================================================================
