------------------------------ MODULE Commands ------------------------------
(***************************************************************************)
(* What clients command and what the renderer does: the device commands at *)
(* the end of device.c, with the values they convert, the renderer that    *)
(* executes UPnP actions (external), and the way back of what it reports.  *)
(* A client has one command at a time under way on a renderer, the         *)
(* commands of several clients meet at the renderer in any order, and so   *)
(* do their answers.  Events are moderated: the renderer sends one when    *)
(* the last one has arrived.                                               *)
(*                                                                         *)
(* Doubles are counted in fractions of a One and have Precision            *)
(* significant values; positions are in fractions of a Second.             *)
(***************************************************************************)
EXTENDS Integers

CONSTANTS
    Clients,         \* D-Bus clients that command the renderer
    Sessions,        \* sets of commands that clients give together
    MaxVolume,       \* the maximum of the renderer's Volume
    NotADouble,      \* an argument of another type
    NotImplemented,  \* what a renderer without positions reports as one
    Word,            \* 2^32: the values of an unsigned int
    Second,          \* 1000000
    One,             \* 1.0, as a number of the smallest fractions modelled
    Precision        \* 2^53: the values of the significand of a double

ASSUME NumbersAssumption ==
    /\ MaxVolume \in Nat \ {0} /\ Word \in Nat \ {0} /\ Second \in Nat \ {0}
    /\ One \in Nat \ {0} /\ Precision \in Nat \ {0}
    /\ NotADouble \notin Int

\* A duration, "-01:00:05", is a sign and three numbers.
Durations == [minus : BOOLEAN, h : Nat, m : Nat, s : Nat]

ASSUME NotImplementedAssumption == NotImplemented \notin Durations

TransportStates == {"STOPPED", "PLAYING", "PAUSED_PLAYBACK", "TRANSITIONING"}

\* A command is a method of the Player interface or a Set or Get of a property.
ASSUME SessionsAssumption ==
    \A session \in Sessions : \A ask \in session :
        \/ ask.op \in {"Play", "Pause", "PlayPause", "Stop", "Next",
                       "Previous", "OpenUri", "GotoTrack", "GetPosition",
                       "GetOther", "SameVolume"}
        \/ ask.op \in {"Seek", "SetPosition"} /\ ask.arg \in Int
        \/ ask.op = "SetVolume" /\ (ask.arg \in Int \/ ask.arg = NotADouble)

VARIABLES
    \* the renderer
    transport,    \* TransportState
    volume,       \* Volume
    position,     \* RelativeTimePosition, a duration or NOT_IMPLEMENTED
    asks,         \* the commands of this session
    \* its events: what has changed, and what is on its way
    avChanged, avEvent,
    rcChanged, rcEvent,
    \* device->props.player_props, missing or a set of one value each
    status, cachedVolume, cachedPosition,
    synced, maxVolume,
    pending,      \* the command of each client
    \* what the properties speak about
    asked,        \* the double that made the volume what it is, if one did
    sought,       \* the position that a client sought last, if nothing moved it
    known         \* sought, when the cached position was read

rendererVars == <<transport, volume, position>>
avVars == <<avChanged, avEvent>>
rcVars == <<rcChanged, rcEvent>>
deviceVars == <<status, cachedVolume, cachedPosition, synced, maxVolume>>
ghostVars == <<asked, sought, known>>
vars == <<rendererVars, asks, avVars, rcVars, deviceVars, pending,
          ghostVars>>

----------------------------------------------------------------------------
(***************************************************************************)
(* Durations: "-01:00:05" is the sign and the three numbers.               *)
(***************************************************************************)
Zero == [minus |-> FALSE, h |-> 0, m |-> 0, s |-> 0]

\* Mutant: the minutes are not taken modulo 60.
DurationWithAllMinutes(pos) ==
    LET seconds == ((IF pos < 0 THEN -pos ELSE pos) \div Second) % Word
    IN  [minus |-> pos < 0, h |-> seconds \div 3600, m |-> seconds \div 60,
         s |-> seconds % 60]

\* A number of seconds in hours, minutes and seconds.
Sexagesimal(minus, n) ==
    [minus |-> minus, h |-> n \div 3600, m |-> (n \div 60) % 60, s |-> n % 60]

\* prv_int64_to_duration: the seconds are an unsigned int.
Duration(pos) ==
    Sexagesimal(pos < 0, ((IF pos < 0 THEN -pos ELSE pos) \div Second) % Word)

\* prv_duration_to_int64: atoi makes 0 of "-00", each product is an unsigned
\* int, and what is not in three parts is 0.
ToInt64(d) ==
    LET hours == IF d.minus THEN -d.h ELSE d.h
    IN  IF d = NotImplemented THEN 0
        ELSE (d.s + ((d.m * 60) % Word) + ((hours * 3600) % Word)) * Second

(***************************************************************************)
(* Doubles                                                                 *)
(***************************************************************************)
\* 2^n, by doubling.
PowerOfTwo(n) ==
    LET power[i \in 0..n] == IF i = 0 THEN 1 ELSE 2 * power[i - 1]
    IN  power[n]

\* An IEEE 754 double has a binary significand and exponent.
ASSUME DoublesAssumption ==
    /\ \E k \in 0..One : One = PowerOfTwo(k)
    /\ \E p \in 1..Precision : Precision = PowerOfTwo(p)

\* The distance of the doubles next to x, in the smallest fractions.
Ulp(x) ==
    LET Fits(e) == x < Precision * PowerOfTwo(e)
    IN  PowerOfTwo(CHOOSE e \in 0..x : Fits(e) /\ \A f \in 0..(e - 1) : ~Fits(f))

\* The double nearest to num / den; of two, the one of an even significand.
Nearest(num, den) ==
    LET ulp == Ulp(num \div den)
        up  == (2 * num + den * ulp) \div (2 * den * ulp)
        Tie == 2 * num + den * ulp = up * (2 * den * ulp)
    IN  (IF Tie /\ up % 2 = 1 THEN up - 1 ELSE up) * ulp

\* prv_rc_last_change_cb: (double) device_volume / (double) max_volume
Published(n, max) == Nearest(n * One, max)

\* Mutant: the volume is rounded up.
RoundedUp(x) == (x + One - 1) \div One

\* (guint) volume, of a volume that is not negative.
Truncated(x) == x \div One

\* prv_set_volume: g_variant_get_double returns 0 for what is not a double;
\* the conversion of a negative double to guint is undefined.
DesiredVolumes(v) ==
    IF v = NotADouble THEN {0}
    ELSE IF v < 0 /\ maxVolume > 0 THEN 0..(MaxVolume + 1)
    ELSE {Truncated(Nearest(v * maxVolume, 1))}

----------------------------------------------------------------------------
(***************************************************************************)
(* UPnP actions: what they are sent with, and for the properties the       *)
(* position or the volume that a client asked for, if it can be had.       *)
(***************************************************************************)
\* prv_simple_command and rsu_device_play
Simple(name) ==
    [name |-> name, target |-> Zero, pos |-> {}, desired |-> 0, value |-> {}]

\* rsu_device_open_uri
OpenUri == Simple("SetAVTransportURI")

\* prv_device_set_position
SeekTo(unit, pos) ==
    [name |-> unit, target |-> Duration(pos),
     pos |-> IF pos \in 0..(Word * Second - 1) THEN {pos} ELSE {},
     desired |-> 0, value |-> {}]

\* prv_set_volume
SetVolume(v) ==
    {[Simple("SetVolume") EXCEPT !.desired = n,
                                 !.value = IF maxVolume > 0 /\ v \in 0..One
                                           THEN {v} ELSE {}] :
        n \in DesiredVolumes(v)}

\* Mutant: the other way round.
ToggleInverted == IF status = {"Playing"} THEN "Play" ELSE "Pause"

\* rsu_device_play_pause
Toggle == IF status = {"Playing"} THEN "Pause" ELSE "Play"

\* prv_process_async_task: the action that each command begins, by way of its
\* function in upnp.c, on a renderer that is found. Where it is not found these
\* functions begin nothing and answer from an idle: TaskProcessor has that path.
Begun(ask) ==
    CASE ask.op \in {"Play", "Pause", "Stop", "Next", "Previous"} ->
             {Simple(ask.op)}
      [] ask.op = "PlayPause" -> {Simple(Toggle)}
      [] ask.op = "OpenUri" -> {OpenUri}
      [] ask.op = "GotoTrack" -> {Simple("TRACK_NR")}
      [] ask.op = "Seek" -> {SeekTo("REL_TIME", ask.arg)}
      [] ask.op = "SetPosition" -> {SeekTo("ABS_TIME", ask.arg)}
      [] ask.op = "SetVolume" -> SetVolume(ask.arg)
      [] ask.op = "SameVolume" -> UNION {SetVolume(v) : v \in cachedVolume}
      [] ask.op = "GetPosition" -> {Simple("GetPositionInfo")}
      [] OTHER -> {}

----------------------------------------------------------------------------
NoCommand == [stage |-> "idle"]

Init ==
    /\ asks \in Sessions
    /\ transport = "STOPPED" /\ volume \in {0, MaxVolume}
    /\ position \in {Zero, NotImplemented}
    /\ avChanged = FALSE /\ avEvent = {transport}
    /\ rcChanged = FALSE /\ rcEvent = {volume}
    /\ status = {} /\ cachedVolume = {} /\ cachedPosition = {}
    /\ synced = FALSE /\ maxVolume = 0
    /\ pending = [c \in Clients |-> NoCommand]
    /\ asked = {} /\ sought = {} /\ known = {}

(***************************************************************************)
(* The renderer (external)                                                 *)
(***************************************************************************)
Transport(state) ==
    /\ transport' = state /\ avChanged' = (avChanged \/ state # transport)
    /\ UNCHANGED <<volume, position, rcChanged, asked, sought>>

\* The renderer goes to the position d, because p was asked for.
Position(d, p) ==
    /\ position' = d /\ sought' = p
    /\ UNCHANGED <<transport, volume, avChanged, rcChanged, asked>>

Volume(n, v) ==
    /\ volume' = n /\ rcChanged' = (rcChanged \/ n # volume) /\ asked' = v
    /\ UNCHANGED <<transport, position, avChanged, sought>>

\* The renderer executes an action with success.
Do(a) ==
    \/ a.name = "Play" /\ \E s \in {"PLAYING", "TRANSITIONING"} : Transport(s)
    \/ a.name = "Pause" /\ transport = "PLAYING" /\ Transport("PAUSED_PLAYBACK")
    \/ a.name = "Stop" /\ Transport("STOPPED")
    \/ /\ a.name \in {"Next", "Previous", "SetAVTransportURI", "TRACK_NR"}
       /\ \E d \in {Zero, position} : Position(d, {})
    \/ /\ a.name \in {"REL_TIME", "ABS_TIME"} /\ position # NotImplemented
       /\ Position(a.target, a.pos)
    \/ a.name = "SetVolume" /\ a.desired <= MaxVolume /\ Volume(a.desired, a.value)
    \/ a.name = "SetVolume" /\ a.desired > MaxVolume /\ Volume(MaxVolume, {})
    \/ a.name = "GetPositionInfo" /\ Position(position, sought)

\* It executes the action of a client, which may have an answer that matters,
\* or refuses it.
Execute(c) ==
    /\ pending[c].stage = "sent"
    /\ Do(pending[c].action)
    /\ pending' = [pending EXCEPT ![c] =
           IF @.op = "GetPosition"
           THEN [stage |-> "done", reply |-> {position}, sought |-> sought]
           ELSE [stage |-> "done", reply |-> {}, sought |-> {}]]
    /\ UNCHANGED <<asks, avEvent, rcEvent, deviceVars, known>>

Refuse(c) ==
    /\ pending[c].stage = "sent"
    /\ pending' = [pending EXCEPT ![c] =
                      [stage |-> "done", reply |-> {}, sought |-> {}]]
    /\ UNCHANGED <<rendererVars, asks, avVars, rcVars, deviceVars, ghostVars>>

\* It executes an action of another control point, or one whose client has
\* cancelled it.
ExecuteOther ==
    /\ \E ask \in asks : \E a \in Begun(ask) :
           Do([a EXCEPT !.pos = {}, !.value = {}])
    /\ UNCHANGED <<asks, avEvent, rcEvent, deviceVars, pending, known>>

\* What it does by itself: it begins to play, and it comes to the end.
PlaysOn ==
    /\ \/ transport = "TRANSITIONING" /\ transport' = "PLAYING"
          /\ UNCHANGED <<position, sought>>
       \/ transport = "PLAYING" /\ transport' = "STOPPED"
          /\ position' \in {Zero, position} /\ sought' = {}
    /\ avChanged' = TRUE
    /\ UNCHANGED <<volume, asks, avEvent, rcVars, deviceVars, pending,
                   asked, known>>

\* It reports what has changed.
Notify ==
    /\ \/ /\ avChanged /\ avEvent = {}
          /\ avEvent' = {transport} /\ avChanged' = FALSE /\ UNCHANGED rcVars
       \/ /\ rcChanged /\ rcEvent = {}
          /\ rcEvent' = {volume} /\ rcChanged' = FALSE /\ UNCHANGED avVars
    /\ UNCHANGED <<rendererVars, asks, deviceVars, pending, ghostVars>>

----------------------------------------------------------------------------
(***************************************************************************)
(* The service                                                             *)
(***************************************************************************)
\* prv_props_update, once: the maximum may not be found.
SyncOnce ==
    /\ synced' = TRUE
    /\ IF synced THEN UNCHANGED maxVolume ELSE maxVolume' \in {0, MaxVolume}

\* prv_map_transport_state
MapTransportState(state) ==
    CASE state = "PLAYING" -> "Playing"
      [] state \in {"PAUSED_PLAYBACK", "PAUSED_RECORDING"} -> "Paused"
      [] OTHER -> "Stopped"

\* prv_last_change_cb
LastChange ==
    /\ avEvent # {} /\ avEvent' = {}
    /\ status' = {MapTransportState(state) : state \in avEvent}
    /\ UNCHANGED <<rendererVars, asks, avChanged, rcVars, cachedVolume,
                   cachedPosition, synced, maxVolume, pending, ghostVars>>

\* prv_rc_last_change_cb, for an event with a Volume.
RcLastChange ==
    /\ rcEvent # {} /\ rcEvent' = {}
    /\ SyncOnce
    /\ cachedVolume' = IF maxVolume' = 0 THEN cachedVolume
                       ELSE {Published(n, maxVolume') : n \in rcEvent}
    /\ UNCHANGED <<rendererVars, asks, avVars, rcChanged, status,
                   cachedPosition, pending, ghostVars>>

\* A client's command is processed and its action begins; the last field is
\* what the renderer was doing, if the service could know it.
Begin(c, ask) ==
    /\ pending[c].stage = "idle" /\ ask \in asks
    /\ \E a \in Begun(ask) :
           pending' = [pending EXCEPT ![c] =
               [stage |-> "sent", op |-> ask.op, action |-> a,
                saw |-> IF ask.op # "PlayPause" \/ avChanged \/ avEvent # {}
                        THEN {} ELSE {transport}]]
    /\ UNCHANGED <<rendererVars, asks, avVars, rcVars, deviceVars, ghostVars>>

\* rsu_device_get_prop, for other properties than Position: their values are
\* the subject of Properties.
GetOther(c) ==
    /\ pending[c].stage = "idle" /\ \E ask \in asks : ask.op = "GetOther"
    /\ SyncOnce
    /\ UNCHANGED <<rendererVars, asks, avVars, rcVars, status, cachedVolume,
                   cachedPosition, pending, ghostVars>>

\* prv_add_reltime
PositionArrives(c) ==
    /\ cachedPosition' = {ToInt64(d) : d \in pending[c].reply}
    /\ known' = pending[c].sought

\* prv_simple_call_cb and prv_get_position_info_cb; what follows until the
\* client has its answer is the subject of TaskProcessor.
Answer(c) ==
    /\ pending[c].stage = "done"
    /\ pending' = [pending EXCEPT ![c] = NoCommand]
    /\ IF pending[c].reply # {} THEN PositionArrives(c)
       ELSE UNCHANGED <<cachedPosition, known>>
    /\ UNCHANGED <<rendererVars, asks, avVars, rcVars, status, cachedVolume,
                   synced, maxVolume, asked, sought>>

\* rsu_async_task_cancelled: the answer will not be looked at, but the action
\* may be executed yet (ExecuteOther).
Cancel(c) ==
    /\ pending[c].stage # "idle"
    /\ pending' = [pending EXCEPT ![c] = NoCommand]
    /\ UNCHANGED <<rendererVars, asks, avVars, rcVars, deviceVars, ghostVars>>

Next ==
    \/ \E c \in Clients :
           \/ \E ask \in asks : Begin(c, ask)
           \/ GetOther(c) \/ Answer(c) \/ Cancel(c)
           \/ Execute(c) \/ Refuse(c)
    \/ ExecuteOther \/ PlaysOn \/ Notify
    \/ LastChange \/ RcLastChange

Spec == Init /\ [][Next]_vars

----------------------------------------------------------------------------
\* What is published of the volume, once the renderer has been heard, is less
\* than a step of the renderer's below what the client asked for that set it
\* last, and above it by no more than doubles are apart: through the product
\* with the maximum, the conversion to guint, the event and the quotient, for
\* any double from 0 to 1, also when a client writes back what it has read.
VolumeAsAsked ==
    \A v \in asked, w \in cachedVolume :
        ~rcChanged /\ rcEvent = {} =>
            /\ w <= v + Ulp(One)
            /\ (v - w) * MaxVolume < One + MaxVolume * Ulp(One)

\* A position that a client sought, up to 2^32 seconds, comes back from the
\* renderer in whole seconds, whatever clients cancelled, sought or read at the
\* same time.
PositionAsSought ==
    \A p \in known : cachedPosition = {p - (p % Second)}

\* PlayPause pauses what is playing and plays what is not, as long as the
\* service has heard of what the renderer does and nothing else changes that
\* while the action is on its way.
PlayPauseToggles ==
    [][\A c \in Clients :
           Execute(c) /\ pending[c].op = "PlayPause"
                      /\ pending[c].saw = {transport}
           => (transport' \in {"PLAYING", "TRANSITIONING"}
                   <=> transport # "PLAYING")]_vars

=============================================================================
