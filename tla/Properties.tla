----------------------------- MODULE Properties -----------------------------
(***************************************************************************)
(* The cached org.mpris.MediaPlayer2.Player properties of one renderer     *)
(* (the middle of device.c): they are filled by the events and the         *)
(* introspection data of the renderer, changed by clients, told to all     *)
(* clients in PropertiesChanged signals and to one in the answer to Get or *)
(* GetAll.  Each action is one dispatch of the main loop.                  *)
(*                                                                         *)
(* "CanDo" stands for CanPlay, CanPause, CanSeek, CanGoNext and            *)
(* CanGoPrevious, which are always written together, as the set of those   *)
(* that are TRUE; "PlaybackStatus" for itself, NumberOfTracks and          *)
(* CurrentTrack; the url of a track for its length, too.  Rates are        *)
(* rational numbers <<numerator, denominator>>, volumes pairs of a volume  *)
(* of the renderer and its maximum.                                        *)
(***************************************************************************)
EXTENDS Integers, Sequences, SequencesExt

CONSTANTS
    Clients,      \* D-Bus clients that follow the properties
    SpeedLists,   \* TransportPlaySpeed lists a renderer may allow
    MaxVolume,    \* the maximum of the renderer's Volume
    Actions,      \* the transport actions the code knows
    Events,       \* what an event of AVTransport may report
    Positions,    \* answers to GetPositionInfo
    AskedRates,   \* rates that clients set, in hundredths
    MaxEvents     \* bound: events of the renderer

ASSUME SpeedsAssumption ==
    \A list \in SpeedLists : list \in Seq(Int \X Nat) /\ list # <<>>

ASSUME VolumeAssumption == MaxVolume \in Nat \ {0} /\ MaxEvents \in Nat

\* Values that may be missing are sets of at most one element.
Optional(x, S) == x \subseteq S /\ \A a, b \in x : a = b

\* The state is one of those that prv_map_transport_state names; a title is
\* a CurrentTrackMetaData, which may not parse.
ASSUME EventsAssumption ==
    \A e \in Events :
        /\ Optional(e.actions, SUBSET Actions)
        /\ Optional(e.speed, Int \X Nat)
        /\ Optional(e.state, {"Playing", "Paused", "Stopped"})
        /\ e.parses \in BOOLEAN

VARIABLES
    allowed,    \* the allowed TransportPlaySpeed values of this renderer
    props,      \* device->props.player_props: a function on the keys it has
    synced,     \* device->props.synced
    speeds,     \* device->transport_play_speeds, <<>> for NULL
    maxVolume,  \* device->max_volume
    rate,       \* device->rate
    request,    \* the request of each client
    following,  \* clients that listen to PropertiesChanged
    view,       \* what each client has learnt from signals and answers
    complete,   \* clients that have the answer to a GetAll
    reported,   \* what the renderer reported last
    events      \* how many events there were

deviceVars == <<synced, speeds, maxVolume, rate>>
clientVars == <<request, following, complete>>
vars == <<allowed, props, deviceVars, clientVars, view, reported, events>>

Names == {"CanDo", "CanControl", "PlaybackStatus", "Rate", "Volume",
          "Position", "Metadata", "TransportPlaySpeeds", "MinimumRate",
          "MaximumRate"}

\* The function f with the values of g where g has any.
Updated(f, g) ==
    [p \in DOMAIN f \cup DOMAIN g |-> IF p \in DOMAIN g THEN g[p] ELSE f[p]]

Nothing == [p \in {} |-> {}]
Only(p, value) == [q \in {p} |-> value]

Idle == [stage |-> "idle", all |-> FALSE, result |-> Nothing]

Init ==
    /\ allowed \in SpeedLists
    /\ props = Nothing /\ synced = FALSE /\ speeds = <<>> /\ maxVolume = 0
    /\ rate = <<1, 1>>
    /\ request = [c \in Clients |-> Idle]
    /\ following = {} /\ complete = {}
    /\ view = [c \in Clients |-> Nothing]
    /\ reported = [actions |-> {}, volume |-> {}, uninitialized |-> FALSE]
    /\ events = 0

\* Mutant: the status is cached, but not put into the signal.
SignalAllButStatus(changes) ==
    /\ props' = Updated(props, changes)
    /\ view' = [c \in Clients |->
                   IF c \in following
                   THEN Updated(view[c],
                            [p \in DOMAIN changes \ {"PlaybackStatus"} |->
                                changes[p]])
                   ELSE view[c]]

\* prv_change_props for each of the changes, and the PropertiesChanged signal
\* of prv_emit_signal_properties_changed.
Signal(changes) ==
    /\ props' = Updated(props, changes)
    /\ view' = [c \in Clients |->
                   IF c \in following THEN Updated(view[c], changes)
                   ELSE view[c]]

----------------------------------------------------------------------------
(***************************************************************************)
(* Play speeds: strings like "2" and "1/3".                                *)
(***************************************************************************)
\* prv_rational_is_invalid
Invalid(s) == s[1] = 0 \/ s[2] = 0

\* prv_rational_to_double with its precision of 0.01, in hundredths: half a
\* hundredth is rounded away from zero.
Hundredths(s) ==
    LET Rounded(n) == (200 * n + s[2]) \div (2 * s[2])
    IN  IF Invalid(s) THEN 0
        ELSE IF s[1] > 0 THEN Rounded(s[1]) ELSE -Rounded(-s[1])

\* Mutant: numerators and denominators are not multiplied crosswise.
CompareParallel(a, b) == a[1] * a[2] - b[1] * b[2]

\* prv_compare_rationals: the sign of the result is that of a - b.
Compare(a, b) == a[1] * b[2] - b[1] * a[2]

\* Mutant: an invalid speed is added before it is seen to be invalid.
ReadUnchecked(e, s) ==
    IF Invalid(s) THEN [e EXCEPT !.speeds = Append(@, s)]
    ELSE [speeds |-> Append(e.speeds, s),
          published |-> Append(e.published, Hundredths(s)),
          min |-> IF Compare(e.min, s) > 0 THEN s ELSE e.min,
          max |-> IF Compare(e.min, s) <= 0 /\ Compare(e.max, s) < 0
                  THEN s ELSE e.max]

\* A round of the loop of prv_get_rates_values: the entries of
\* transport_play_speeds and of TransportPlaySpeeds, and the extremes so far.
Read(e, s) ==
    IF Invalid(s) THEN e
    ELSE [speeds |-> Append(e.speeds, s),
          published |-> Append(e.published, Hundredths(s)),
          min |-> IF Compare(e.min, s) > 0 THEN s ELSE e.min,
          max |-> IF Compare(e.min, s) <= 0 /\ Compare(e.max, s) < 0
                  THEN s ELSE e.max]

\* Both extremes start as the first value, valid or not.
Unread(list) ==
    [speeds |-> <<>>, published |-> <<>>, min |-> Head(list), max |-> Head(list)]

\* What the loop makes of a list that is not empty.
RatesValues(list) ==
    LET read[i \in 0..Len(list)] ==
            IF i = 0 THEN Unread(list) ELSE Read(read[i - 1], list[i])
    IN  read[Len(list)]

\* The entries of transport_play_speeds.
Valid(list) == IF list = <<>> THEN <<>> ELSE RatesValues(list).speeds

\* The properties that come from the list of allowed speeds; an extreme rate
\* of zero is left out.
SpeedProps(list) ==
    LET values == RatesValues(list)
        Extreme(p, s) == IF Hundredths(s) = 0 THEN Nothing
                         ELSE Only(p, Hundredths(s))
    IN  IF list = <<>> THEN Nothing
        ELSE Updated(Only("TransportPlaySpeeds", values.published),
                 Updated(Extreme("MinimumRate", values.min),
                         Extreme("MaximumRate", values.max)))

(***************************************************************************)
(* The initial query of the renderer's introspection data.                 *)
(***************************************************************************)
\* prv_get_av_service_states_values: the allowed speeds, if they can be had.
SpeedsFound == {<<>>, allowed}

\* Mutant: -1 stands for a maximum that is not found.
MaximaOrMinusOne == {-1, MaxVolume}

\* prv_get_rc_service_states_values: the maximum of Volume, likewise.
MaximaFound == {0, MaxVolume}

\* prv_add_all_actions
AllActions == [p \in {"CanDo", "CanControl"} |->
                  IF p = "CanDo" THEN Actions ELSE TRUE]

\* prv_props_update when list and max are found, with the further changes that
\* the same dispatch signals.
SyncAnd(list, max, changes) ==
    /\ synced' = TRUE
    /\ speeds' = Valid(list)
    /\ maxVolume' = max
    /\ Signal(Updated(Updated(SpeedProps(list), AllActions), changes))

\* The report of actions that a sync does not make void.
ActionsSinceSync == IF synced' = synced THEN reported.actions ELSE {}

\* Mutant: the introspection data are queried every time.
SyncAlways ==
    /\ SyncAnd(allowed, MaxVolume, Nothing)
    /\ reported' = [reported EXCEPT !.actions = ActionsSinceSync]

\* "if (!device->props.synced) prv_props_update(device, task)"
SyncOnce ==
    /\ \/ synced /\ UNCHANGED <<props, synced, speeds, maxVolume, view>>
       \/ ~synced /\ \E list \in SpeedsFound, max \in MaximaFound :
                         SyncAnd(list, max, Nothing)
    /\ reported' = [reported EXCEPT !.actions = ActionsSinceSync]

----------------------------------------------------------------------------
(***************************************************************************)
(* Events of the renderer.                                                 *)
(***************************************************************************)
\* prv_map_transport_speed: a rate that cannot be read counts as 1.
ReportedRate(s) == IF s[2] = 0 THEN <<1, 1>> ELSE s

\* prv_add_actions
ActionProps(A) == [p \in {"CanDo", "CanControl"} |->
                      IF p = "CanDo" THEN A ELSE FALSE]

\* The Metadata of an event: prv_add_track_meta_data makes them anew from
\* the title and the url of the event, or leaves them alone if the title does
\* not parse; an url alone is merged into them (prv_merge_meta_data).
MetadataProps(title, url, parses) ==
    LET Known == IF "Metadata" \in DOMAIN props THEN props["Metadata"]
                 ELSE [title |-> {}, url |-> {}]
    IN  IF title # {}
        THEN IF parses THEN Only("Metadata", [title |-> title, url |-> url])
             ELSE Nothing
        ELSE IF url # {} THEN Only("Metadata", [Known EXCEPT !.url = url])
             ELSE Nothing

\* The value of an optional value that is there.
The(S) == CHOOSE x \in S : TRUE

\* What prv_last_change_cb changes.
EventProps(e) ==
    LET changed == (IF e.actions = {} THEN {} ELSE {"CanDo", "CanControl"})
                   \cup (IF e.speed = {} THEN {} ELSE {"Rate"})
                   \cup (IF e.state = {} THEN {} ELSE {"PlaybackStatus"})
    IN  Updated(MetadataProps(e.title, e.url, e.parses),
            [p \in changed |->
                CASE p = "Rate" -> ReportedRate(The(e.speed))
                  [] p = "PlaybackStatus" -> The(e.state)
                  [] OTHER -> ActionProps(The(e.actions))[p]])

\* prv_last_change_cb
LastChange ==
    /\ events < MaxEvents /\ events' = events + 1
    /\ \E e \in Events :
          /\ e.speed \subseteq Range(allowed)
          /\ Signal(EventProps(e))
          /\ rate' = IF e.speed = {} THEN rate ELSE The(e.speed)
          /\ reported' = IF e.actions = {} THEN reported
                         ELSE [reported EXCEPT !.actions = e.actions]
    /\ UNCHANGED <<allowed, synced, speeds, maxVolume, clientVars>>

\* The change of prv_rc_last_change_cb, once the renderer's maximum is known.
VolumeProps(volume, max) ==
    IF max = 0 THEN Nothing ELSE Only("Volume", <<volume, max>>)

\* Mutant: an event does not query the maximum.
VolumeChangedUnsynced(volume) ==
    /\ Signal(VolumeProps(volume, maxVolume))
    /\ UNCHANGED <<synced, speeds, maxVolume>>

\* What prv_rc_last_change_cb does with the value of device_volume.
VolumeChanged(volume) ==
    \/ /\ synced
       /\ Signal(VolumeProps(volume, maxVolume))
       /\ UNCHANGED <<synced, speeds, maxVolume>>
    \/ /\ ~synced
       /\ \E list \in SpeedsFound, max \in MaximaFound :
             SyncAnd(list, max, VolumeProps(volume, max))

\* prv_rc_last_change_cb: an event without a Volume, like one for a change of
\* Mute, leaves device_volume uninitialized.
RcLastChange ==
    /\ events < MaxEvents /\ events' = events + 1
    /\ \/ \E volume \in 0..MaxVolume :
              /\ VolumeChanged(volume)
              /\ reported' = [actions |-> ActionsSinceSync, volume |-> {volume},
                              uninitialized |-> FALSE]
       \/ \E garbage \in 0..(MaxVolume + 1) :
              /\ VolumeChanged(garbage)
              /\ reported' = [actions |-> ActionsSinceSync,
                              volume |-> reported.volume,
                              uninitialized |-> TRUE]
    /\ UNCHANGED <<allowed, rate, clientVars>>

----------------------------------------------------------------------------
(***************************************************************************)
(* Requests of clients, one at a time each (TaskProcessor).                *)
(***************************************************************************)
\* A client connects to the PropertiesChanged signal, before it asks.
Follow(c) ==
    /\ request[c] = Idle /\ c \notin following
    /\ following' = following \cup {c}
    /\ UNCHANGED <<allowed, props, deviceVars, request, complete, view, reported, events>>

Ask(c, all) ==
    request' = [request EXCEPT ![c] =
                   [stage |-> "asking", all |-> all, result |-> Nothing]]

\* An idle will send the result as the answer; an empty one is an error.
Answer(c, all, result) ==
    request' = [request EXCEPT ![c] =
                   [stage |-> "answered", all |-> all, result |-> result]]

\* rsu_device_get_all_props: the position is queried first.
GetAll(c) ==
    /\ request[c] = Idle
    /\ SyncOnce
    /\ Ask(c, TRUE)
    /\ UNCHANGED <<allowed, rate, following, complete, events>>

\* rsu_device_get_prop: the position is queried, without a sync; other
\* properties are answered from the cache.
GetPosition(c) ==
    /\ request[c] = Idle
    /\ Ask(c, FALSE)
    /\ UNCHANGED <<allowed, props, deviceVars, following, complete, view, reported, events>>

Get(c, p) ==
    /\ request[c] = Idle
    /\ SyncOnce
    /\ Answer(c, FALSE,
              IF p \in DOMAIN props' THEN Only(p, props'[p]) ELSE Nothing)
    /\ UNCHANGED <<allowed, rate, following, complete, events>>

\* prv_get_position_info_cb: the position is cached and signalled, then
\* prv_complete_get_prop or prv_complete_get_props reads the cache.
PositionArrives(c) ==
    /\ request[c].stage = "asking"
    /\ \E position \in Positions : Signal(Only("Position", position))
    /\ Answer(c, request[c].all,
              IF request[c].all THEN props'
              ELSE Only("Position", props'["Position"]))
    /\ UNCHANGED <<allowed, deviceVars, following, complete, reported, events>>

\* The failure of GetPositionInfo fails the whole request.
PositionFails(c) ==
    /\ request[c].stage = "asking"
    /\ Answer(c, request[c].all, Nothing)
    /\ UNCHANGED <<allowed, props, deviceVars, following, complete, view, reported, events>>

\* rsu_async_task_complete, an idle: the answer is sent.  The client keeps
\* what it has heard from signals, which were sent before.
SendAnswer(c) ==
    /\ request[c].stage = "answered"
    /\ view' = IF c \in following
               THEN [view EXCEPT ![c] = Updated(request[c].result, @)]
               ELSE view
    /\ complete' = IF c \in following /\ request[c].all
                      /\ request[c].result # Nothing
                   THEN complete \cup {c} ELSE complete
    /\ request' = [request EXCEPT ![c] = Idle]
    /\ UNCHANGED <<allowed, props, deviceVars, following, reported, events>>

\* prv_get_rate_value_from_double: the first published speed that is the
\* asked one up to 0.01.  In doubles a difference of exactly 0.01 may count
\* as more.
Near(asked, i) == asked - props["TransportPlaySpeeds"][i] \in -1..1

Matching(asked) ==
    {i \in DOMAIN props["TransportPlaySpeeds"] :
        /\ Near(asked, i)
        /\ \A j \in 1..(i - 1) :
              props["TransportPlaySpeeds"][j]
                  \notin {asked, props["TransportPlaySpeeds"][i]}}

\* The string that goes with the i-th published speed.
SpeedAt(i) == speeds[i]

\* prv_set_rate: the renderer is told with the next Play, clients are not
\* told at all (prv_change_props has no builder).
SetRate(asked) ==
    /\ "TransportPlaySpeeds" \in DOMAIN props
    /\ \E i \in Matching(asked) :
          /\ rate' = SpeedAt(i)
          /\ props' = Updated(props,
                         Only("Rate", <<props["TransportPlaySpeeds"][i], 100>>))
    /\ UNCHANGED <<allowed, synced, speeds, maxVolume, clientVars, view, reported, events>>

Next ==
    \/ LastChange
    \/ RcLastChange
    \/ \E asked \in AskedRates : SetRate(asked)
    \/ \E c \in Clients :
          \/ Follow(c)
          \/ GetAll(c)
          \/ GetPosition(c)
          \/ \E p \in Names : Get(c, p)
          \/ PositionArrives(c)
          \/ PositionFails(c)
          \/ SendAnswer(c)

Spec == Init /\ [][Next]_vars

----------------------------------------------------------------------------
\* Every variable keeps its type.
TypeOK ==
    /\ allowed \in SpeedLists
    /\ DOMAIN props \subseteq Names
    /\ synced \in BOOLEAN
    /\ speeds \in Seq(Int \X Nat)
    /\ maxVolume \in {0, MaxVolume}
    /\ rate \in Int \X Nat
    /\ \A c \in Clients : /\ request[c].stage \in {"idle", "asking", "answered"}
                          /\ DOMAIN view[c] \subseteq Names
    /\ following \subseteq Clients /\ complete \subseteq Clients

\* Whether client c knows the property p as the service has it cached.
Knows(c, p) ==
    /\ p \in DOMAIN view[c] <=> p \in DOMAIN props
    /\ p \in DOMAIN props => view[c][p] = props[p]

\* "PropertiesChanged signals are emitted ... when org.mpris.MediaPlayer2.Player
\* interface properties value change" (API.txt): a client that listens and has
\* the answer to one GetAll knows every property as it is cached, whatever
\* changed between its request, the reading of the cache and the answer.
\* Rate is the exception, see RateIsKnown.
FollowersKnow ==
    \A c \in complete : \A p \in Names \ {"Rate"} : Knows(c, p)

\* The same for Rate.  prv_set_rate changes it without a signal.
RateIsKnown == \A c \in complete : Knows(c, "Rate")

\* The speed that the next Play will send is one of the "allowed play speed
\* values supported by the renderer" (API.txt) or the initial 1, and it is the
\* cached Rate, up to the rounding of prv_rational_to_double: the two parallel
\* lists of speeds, one published and one kept as strings, stay aligned
\* whatever invalid speeds the renderer lists, and events change both rates.
RateAgrees ==
    /\ rate \in Range(allowed) \cup {<<1, 1>>}
    /\ "Rate" \in DOMAIN props =>
          LET a == props["Rate"]
              b == ReportedRate(rate)
              difference == a[1] * b[2] - b[1] * a[2]
          IN  /\ 200 * difference <= a[2] * b[2]
              /\ -200 * difference <= a[2] * b[2]

\* MinimumRate and MaximumRate, where they are published, are the extremes of
\* the published speeds.
RatesAreExtremes ==
    /\ "MinimumRate" \in DOMAIN props =>
          /\ props["MinimumRate"] \in Range(props["TransportPlaySpeeds"])
          /\ \A r \in Range(props["TransportPlaySpeeds"]) : props["MinimumRate"] <= r
    /\ "MaximumRate" \in DOMAIN props =>
          /\ props["MaximumRate"] \in Range(props["TransportPlaySpeeds"])
          /\ \A r \in Range(props["TransportPlaySpeeds"]) : props["MaximumRate"] >= r

\* Once the renderer has reported its actions after the initial query, which
\* sets them all, CanPlay and the others say what it reported last.
ActionsAsReported ==
    \A A \in reported.actions : "CanDo" \in DOMAIN props /\ props["CanDo"] = A

\* If the maximum is known and the last RenderingControl event had a Volume,
\* the cached Volume is that one, also if the event came before any request.
VolumeAsReported ==
    \A v \in reported.volume :
        maxVolume # 0 /\ ~reported.uninitialized =>
            "Volume" \in DOMAIN props /\ props["Volume"] = <<v, MaxVolume>>

\* The same whatever the last event had in it.
VolumeWasReported ==
    \A v \in reported.volume :
        maxVolume # 0 =>
            "Volume" \in DOMAIN props /\ props["Volume"] = <<v, MaxVolume>>

=============================================================================
