--------------------------- MODULE CommandsProofs ---------------------------
(***************************************************************************)
(* Proofs about the device commands, for any number of clients, any        *)
(* positions and any doubles: what is sought is what is read, PlayPause    *)
(* toggles, and the volume comes back as it was asked for.                 *)
(***************************************************************************)
EXTENDS Commands, Loops

----------------------------------------------------------------------------
(***************************************************************************)
(* Durations                                                               *)
(***************************************************************************)
LEMMA DivMod ==
    ASSUME NEW p \in Nat, NEW d \in Nat \ {0}
    PROVE  /\ p \div d \in Nat /\ p % d \in 0..(d - 1)
           /\ p = d * (p \div d) + (p % d)
OBVIOUS

LEMMA DivBound ==
    ASSUME NEW p \in Nat, NEW d \in Nat \ {0}, NEW w \in Nat, p < w * d
    PROVE  p \div d < w
<1>1. /\ p \div d \in Nat /\ p % d \in 0..(d - 1)
      /\ p = d * (p \div d) + (p % d)
  BY DivMod
<1>2. SUFFICES ASSUME p \div d >= w PROVE FALSE
  BY <1>1
<1>3. d * (p \div d) >= d * w
  BY <1>1, <1>2
<1>. QED
  BY <1>1, <1>3

\* Seconds, minutes and hours make up the number of seconds, and none of the
\* three is more than it.
LEMMA SumOfParts ==
    ASSUME NEW n \in Nat
    PROVE  /\ (n % 60) + ((n \div 60) % 60) * 60 + (n \div 3600) * 3600 = n
           /\ n % 60 \in Nat /\ (n \div 60) % 60 \in Nat /\ n \div 3600 \in Nat
           /\ ((n \div 60) % 60) * 60 <= n /\ (n \div 3600) * 3600 <= n
OBVIOUS

LEMMA SmallMod ==
    ASSUME NEW n \in Nat, NEW w \in Nat \ {0}, n < w
    PROVE  n % w = n
OBVIOUS

\* The positions whose seconds an unsigned int can hold.
Seekable == 0..(Word * Second - 1)

\* There and back, prv_int64_to_duration and prv_duration_to_int64 lose the
\* fraction of a second and nothing else.
LEMMA DurationAndBack ==
    ASSUME NEW p \in Seekable
    PROVE  ToInt64(Duration(p)) = p - (p % Second)
<1>. DEFINE n == p \div Second
<1>1. /\ Word \in Nat \ {0} /\ Second \in Nat \ {0} /\ p \in Nat
      /\ p < Word * Second
  BY NumbersAssumption DEF Seekable
<1>2. n \in Nat /\ p = Second * n + (p % Second)
  BY <1>1, DivMod
<1>3. n < Word
  BY <1>1, DivBound
<1>5. ((IF p < 0 THEN -p ELSE p) \div Second) = n /\ ~(p < 0)
  BY <1>1
<1>. HIDE DEF n
<1>4. /\ (n % 60) + ((n \div 60) % 60) * 60 + (n \div 3600) * 3600 = n
      /\ n % 60 \in Nat /\ (n \div 60) % 60 \in Nat /\ n \div 3600 \in Nat
      /\ ((n \div 60) % 60) * 60 <= n /\ (n \div 3600) * 3600 <= n
  BY <1>2, SumOfParts
<1>6. Duration(p) = [minus |-> FALSE, h |-> n \div 3600,
                     m |-> (n \div 60) % 60, s |-> n % 60]
  <2>1. n % Word = n
    BY <1>1, <1>2, <1>3, SmallMod
  <2>2. (p < 0) = FALSE
    BY <1>5
  <2>3. ((IF p < 0 THEN -p ELSE p) \div Second) % Word = n
    BY <1>5, <2>1
  <2>4. Duration(p) = Sexagesimal(FALSE, n)
    BY <2>2, <2>3, Zenon DEF Duration
  <2>. QED
    BY <2>4 DEF Sexagesimal
<1>7. Duration(p) # NotImplemented
  <2>1. Duration(p) \in Durations
    BY <1>4, <1>6 DEF Durations
  <2>. QED
    BY <2>1, NotImplementedAssumption
<1>8. /\ (((n \div 60) % 60) * 60) % Word = ((n \div 60) % 60) * 60
      /\ ((n \div 3600) * 3600) % Word = (n \div 3600) * 3600
  <2>1. /\ ((n \div 60) % 60) * 60 \in Nat /\ ((n \div 60) % 60) * 60 < Word
        /\ (n \div 3600) * 3600 \in Nat /\ (n \div 3600) * 3600 < Word
    BY <1>1, <1>2, <1>3, <1>4
  <2>. QED
    BY <1>1, <2>1, SmallMod
<1>9. ToInt64(Duration(p)) = n * Second
  <2>1. ToInt64(Duration(p)) =
           ((n % 60) + ((n \div 60) % 60) * 60 + (n \div 3600) * 3600) * Second
    BY <1>6, <1>7, <1>8 DEF ToInt64
  <2>. QED
    BY <1>4, <2>1
<1>. QED
  BY <1>1, <1>2, <1>9, DivMod

----------------------------------------------------------------------------
(***************************************************************************)
(* The invariant                                                           *)
(***************************************************************************)
\* An action that seeks has the duration of the position that was asked for.
Targeted(a) == \A p \in a.pos : p \in Seekable /\ a.target = Duration(p)

IsAction(a) ==
    a = [name |-> a.name, target |-> a.target, pos |-> a.pos,
         desired |-> a.desired, value |-> a.value]

\* What was sought is where the renderer is, what it answers, and what is read.
SoughtInv ==
    /\ \A p \in sought : p \in Seekable /\ position = Duration(p)
    /\ \A c \in Clients : pending[c].stage = "sent" => Targeted(pending[c].action)
    /\ \A c \in Clients : pending[c].stage = "done" =>
          \A p \in pending[c].sought :
              p \in Seekable /\ pending[c].reply = {Duration(p)}
    /\ PositionAsSought

\* When no event is outstanding the cache has the state of the renderer, and
\* the last event that is on its way brings it.
HeardInv ==
    /\ ~avChanged /\ avEvent = {} => status = {MapTransportState(transport)}
    /\ ~avChanged /\ avEvent # {} => avEvent = {transport}

\* The action that PlayPause has chosen is right for what the service knew.
ToggleInv ==
    \A c \in Clients :
        pending[c].stage = "sent" /\ pending[c].op = "PlayPause" =>
            \A t \in pending[c].saw :
                pending[c].action.name = IF t = "PLAYING" THEN "Pause" ELSE "Play"

IndInv ==
    /\ pending = [c \in Clients |-> pending[c]]
    /\ SoughtInv /\ HeardInv /\ ToggleInv

LEMMA InitIndInv == Init => IndInv
<1>. SUFFICES ASSUME Init PROVE IndInv
  OBVIOUS
<1>1. \A c \in Clients : pending[c].stage = "idle"
  BY DEF Init, NoCommand
<1>2. SoughtInv
  BY <1>1 DEF Init, SoughtInv, PositionAsSought
<1>. QED
  BY <1>1, <1>2 DEF Init, IndInv, HeardInv, ToggleInv

\* The actions of commands.
LEMMA BegunActions ==
    ASSUME NEW ask, NEW a \in Begun(ask)
    PROVE  /\ IsAction(a) /\ Targeted(a)
           /\ ask.op = "PlayPause" => a.name = Toggle
<1>1. ASSUME NEW name
      PROVE  IsAction(Simple(name)) /\ Targeted(Simple(name))
  BY DEF Simple, IsAction, Targeted
<1>2. ASSUME NEW unit, NEW pos
      PROVE  IsAction(SeekTo(unit, pos)) /\ Targeted(SeekTo(unit, pos))
  <2>1. /\ SeekTo(unit, pos).target = Duration(pos)
        /\ SeekTo(unit, pos).pos = IF pos \in Seekable THEN {pos} ELSE {}
    BY DEF SeekTo, Seekable
  <2>2. IsAction(SeekTo(unit, pos))
    BY DEF IsAction, SeekTo
  <2>. QED
    BY <2>1, <2>2 DEF Targeted
<1>3. ASSUME NEW v, NEW b \in SetVolume(v)
      PROVE  IsAction(b) /\ Targeted(b)
  BY <1>3 DEF SetVolume, Simple, IsAction, Targeted
<1>4. CASE ask.op \in {"Play", "Pause", "Stop", "Next", "Previous"}
  BY <1>1, <1>4 DEF Begun
<1>5. CASE ask.op = "PlayPause"
  <2>1. a = Simple(Toggle)
    BY <1>5 DEF Begun
  <2>. QED
    BY <1>1, <2>1 DEF Simple
<1>6. CASE ask.op = "OpenUri"
  BY <1>1, <1>6 DEF Begun, OpenUri
<1>7. CASE ask.op = "GotoTrack"
  BY <1>1, <1>7 DEF Begun
<1>8. CASE ask.op = "Seek"
  BY <1>2, <1>8 DEF Begun
<1>9. CASE ask.op = "SetPosition"
  BY <1>2, <1>9 DEF Begun
<1>10. CASE ask.op = "SetVolume"
  BY <1>3, <1>10 DEF Begun
<1>11. CASE ask.op = "SameVolume"
  BY <1>3, <1>11 DEF Begun
<1>12. CASE ask.op = "GetPosition"
  BY <1>1, <1>12 DEF Begun
<1>. QED
  BY <1>4, <1>5, <1>6, <1>7, <1>8, <1>9, <1>10, <1>11, <1>12 DEF Begun

\* An action that is executed takes the renderer where it says, and an event
\* is owed when that changes its state.
LEMMA DoEffect ==
    ASSUME NEW a, Targeted(a), Do(a), \A p \in sought : p \in Seekable /\ position = Duration(p)
    PROVE  /\ \A p \in sought' : p \in Seekable /\ position' = Duration(p)
           /\ a.name = "GetPositionInfo" => position' = position /\ sought' = sought
           /\ avChanged' <=> avChanged \/ transport' # transport
           /\ a.name = "Play" => transport' \in {"PLAYING", "TRANSITIONING"}
           /\ a.name = "Pause" => transport' = "PAUSED_PLAYBACK"
<1>1. ASSUME NEW state, Transport(state)
      PROVE  /\ transport' = state /\ avChanged' = (avChanged \/ state # transport)
             /\ UNCHANGED <<position, sought>>
  BY <1>1 DEF Transport
<1>2. ASSUME NEW d, NEW q, Position(d, q)
      PROVE  position' = d /\ sought' = q /\ UNCHANGED <<transport, avChanged>>
  BY <1>2 DEF Position
<1>3. ASSUME NEW n, NEW v, Volume(n, v)
      PROVE  UNCHANGED <<position, sought, transport, avChanged>>
  BY <1>3 DEF Volume
<1>4. CASE a.name = "Play" /\ \E s \in {"PLAYING", "TRANSITIONING"} : Transport(s)
  BY <1>1, <1>4
<1>5. CASE a.name = "Pause" /\ Transport("PAUSED_PLAYBACK")
  BY <1>1, <1>5
<1>6. CASE a.name = "Stop" /\ Transport("STOPPED")
  BY <1>1, <1>6
<1>7. CASE /\ a.name \in {"Next", "Previous", "SetAVTransportURI", "TRACK_NR"}
           /\ \E d \in {Zero, position} : Position(d, {})
  BY <1>2, <1>7
<1>8. CASE a.name \in {"REL_TIME", "ABS_TIME"} /\ Position(a.target, a.pos)
  BY <1>2, <1>8 DEF Targeted
<1>9. CASE /\ a.name = "SetVolume"
           /\ Volume(a.desired, a.value) \/ Volume(MaxVolume, {})
  BY <1>3, <1>9
<1>10. CASE a.name = "GetPositionInfo" /\ Position(position, sought)
  BY <1>2, <1>10
<1>. QED
  BY <1>4, <1>5, <1>6, <1>7, <1>8, <1>9, <1>10 DEF Do

LEMMA Updated ==
    ASSUME NEW c \in Clients, NEW r, pending = [d \in Clients |-> pending[d]],
           pending' = [pending EXCEPT ![c] = r]
    PROVE  /\ pending' = [d \in Clients |-> pending'[d]]
           /\ pending'[c] = r
           /\ \A d \in Clients : d # c => pending'[d] = pending[d]
OBVIOUS

\* A command that is over leaves nothing to be shown.
LEMMA OverIndInv ==
    ASSUME IndInv, NEW c \in Clients, pending' = [pending EXCEPT ![c] = NoCommand],
           UNCHANGED <<rendererVars, avVars, status, sought>>, PositionAsSought'
    PROVE  IndInv'
<1>1. /\ pending' = [d \in Clients |-> pending'[d]]
      /\ pending'[c] = NoCommand
      /\ \A d \in Clients : d # c => pending'[d] = pending[d]
  BY Updated DEF IndInv
<1>2. pending'[c].stage = "idle"
  BY <1>1 DEF NoCommand
<1>3. SoughtInv'
  BY <1>1, <1>2 DEF IndInv, SoughtInv, rendererVars
<1>4. HeardInv'
  BY DEF IndInv, HeardInv, rendererVars, avVars
<1>5. ToggleInv'
  BY <1>1, <1>2 DEF IndInv, ToggleInv
<1>. QED
  BY <1>1, <1>3, <1>4, <1>5 DEF IndInv

LEMMA BeginIndInv ==
    ASSUME IndInv, NEW c \in Clients, NEW ask \in asks, Begin(c, ask)
    PROVE  IndInv'
<1>1. PICK a \in Begun(ask) :
          pending' = [pending EXCEPT ![c] =
               [stage |-> "sent", op |-> ask.op, action |-> a,
                saw |-> IF ask.op # "PlayPause" \/ avChanged \/ avEvent # {}
                        THEN {} ELSE {transport}]]
  BY DEF Begin
<1>. DEFINE saw == IF ask.op # "PlayPause" \/ avChanged \/ avEvent # {}
                   THEN {} ELSE {transport}
<1>2. Targeted(a) /\ (ask.op = "PlayPause" => a.name = Toggle)
  BY BegunActions
<1>3. \A t \in saw : /\ ask.op = "PlayPause" /\ ~avChanged /\ avEvent = {}
                     /\ t = transport
  OBVIOUS
<1>. HIDE DEF saw
<1>4. /\ pending' = [d \in Clients |-> pending'[d]]
      /\ pending'[c] = [stage |-> "sent", op |-> ask.op, action |-> a, saw |-> saw]
      /\ \A d \in Clients : d # c => pending'[d] = pending[d]
  BY <1>1, Updated DEF IndInv, saw
<1>5. UNCHANGED <<rendererVars, avVars, status, cachedPosition, sought, known>>
  BY DEF Begin, deviceVars, ghostVars
<1>6. SoughtInv'
  BY <1>2, <1>4, <1>5 DEF IndInv, SoughtInv, PositionAsSought, Targeted,
     rendererVars
<1>7. HeardInv'
  BY <1>5 DEF IndInv, HeardInv, rendererVars, avVars
<1>8. ASSUME NEW t \in saw
      PROVE  a.name = IF t = "PLAYING" THEN "Pause" ELSE "Play"
  <2>1. status = {MapTransportState(t)} /\ a.name = Toggle
    BY <1>2, <1>3, <1>8 DEF IndInv, HeardInv
  <2>. QED
    BY <2>1 DEF Toggle, MapTransportState
<1>9. ToggleInv'
  BY <1>4, <1>8 DEF IndInv, ToggleInv
<1>. QED
  BY <1>4, <1>6, <1>7, <1>9 DEF IndInv

LEMMA RefuseIndInv ==
    ASSUME IndInv, NEW c \in Clients, Refuse(c)
    PROVE  IndInv'
<1>1. /\ pending' = [d \in Clients |-> pending'[d]]
      /\ pending'[c] = [stage |-> "done", reply |-> {}, sought |-> {}]
      /\ \A d \in Clients : d # c => pending'[d] = pending[d]
  BY Updated DEF IndInv, Refuse
<1>2. UNCHANGED <<rendererVars, avVars, status, cachedPosition, sought, known>>
  BY DEF Refuse, deviceVars, ghostVars
<1>3. SoughtInv'
  BY <1>1, <1>2 DEF IndInv, SoughtInv, PositionAsSought, rendererVars
<1>4. HeardInv'
  BY <1>2 DEF IndInv, HeardInv, rendererVars, avVars
<1>5. ToggleInv'
  BY <1>1 DEF IndInv, ToggleInv
<1>. QED
  BY <1>1, <1>3, <1>4, <1>5 DEF IndInv

LEMMA ExecuteIndInv ==
    ASSUME IndInv, NEW c \in Clients, Execute(c)
    PROVE  IndInv'
<1>. DEFINE a == pending[c].action
            r == IF pending[c].op = "GetPosition"
                 THEN [stage |-> "done", reply |-> {position}, sought |-> sought]
                 ELSE [stage |-> "done", reply |-> {}, sought |-> {}]
<1>1. Targeted(a) /\ Do(a)
  BY DEF IndInv, SoughtInv, Execute
<1>2. /\ \A p \in sought' : p \in Seekable /\ position' = Duration(p)
      /\ avChanged' <=> avChanged \/ transport' # transport
  BY <1>1, DoEffect DEF IndInv, SoughtInv
<1>3. /\ pending' = [d \in Clients |-> pending'[d]]
      /\ pending'[c] = r
      /\ \A d \in Clients : d # c => pending'[d] = pending[d]
  BY Updated DEF IndInv, Execute
<1>4. UNCHANGED <<avEvent, status, cachedPosition, known>>
  BY DEF Execute, deviceVars
<1>5. /\ r.stage = "done"
      /\ \A p \in r.sought : p \in Seekable /\ r.reply = {Duration(p)}
  BY DEF IndInv, SoughtInv
<1>. HIDE DEF a, r
<1>6. SoughtInv'
  BY <1>2, <1>3, <1>4, <1>5 DEF IndInv, SoughtInv, PositionAsSought
<1>7. HeardInv'
  BY <1>2, <1>4 DEF IndInv, HeardInv
<1>8. ToggleInv'
  BY <1>3, <1>5 DEF IndInv, ToggleInv
<1>. QED
  BY <1>3, <1>6, <1>7, <1>8 DEF IndInv

LEMMA ExecuteOtherIndInv ==
    ASSUME IndInv, ExecuteOther
    PROVE  IndInv'
<1>0. PICK ask \in asks :
          \E b \in Begun(ask) : Do([b EXCEPT !.pos = {}, !.value = {}])
  BY Zenon DEF ExecuteOther
<1>1. PICK b \in Begun(ask) : Do([b EXCEPT !.pos = {}, !.value = {}])
  BY <1>0, Zenon
<1>. DEFINE a == [b EXCEPT !.pos = {}, !.value = {}]
<1>2. Targeted(a)
  BY BegunActions DEF IsAction, Targeted
<1>3. /\ \A p \in sought' : p \in Seekable /\ position' = Duration(p)
      /\ avChanged' <=> avChanged \/ transport' # transport
  BY <1>1, <1>2, DoEffect DEF IndInv, SoughtInv
<1>4. UNCHANGED <<avEvent, status, cachedPosition, known, pending>>
  BY DEF ExecuteOther, deviceVars
<1>5. SoughtInv'
  BY <1>3, <1>4 DEF IndInv, SoughtInv, PositionAsSought
<1>6. HeardInv'
  BY <1>3, <1>4 DEF IndInv, HeardInv
<1>7. ToggleInv'
  BY <1>4 DEF IndInv, ToggleInv
<1>. QED
  BY <1>4, <1>5, <1>6, <1>7 DEF IndInv

LEMMA AnswerIndInv ==
    ASSUME IndInv, NEW c \in Clients, Answer(c)
    PROVE  IndInv'
<1>1. CASE pending[c].reply = {}
  BY <1>1, OverIndInv DEF Answer, IndInv, SoughtInv, PositionAsSought
<1>2. CASE pending[c].reply # {}
  <2>1. ASSUME NEW p \in pending[c].sought
        PROVE  cachedPosition' = {p - (p % Second)}
    <3>1. p \in Seekable /\ pending[c].reply = {Duration(p)}
      BY <2>1 DEF Answer, IndInv, SoughtInv
    <3>2. cachedPosition' = {ToInt64(Duration(p))}
      BY <1>2, <3>1 DEF Answer, PositionArrives
    <3>. QED
      BY <3>1, <3>2, DurationAndBack
  <2>2. PositionAsSought'
    BY <1>2, <2>1 DEF Answer, PositionArrives, PositionAsSought
  <2>. QED
    BY <2>2, OverIndInv DEF Answer
<1>. QED
  BY <1>1, <1>2

\* Every step keeps the invariant.
LEMMA NextIndInv == IndInv /\ [Next]_vars => IndInv'
<1>. SUFFICES ASSUME IndInv, [Next]_vars PROVE IndInv'
  OBVIOUS
<1>1. ASSUME NEW c \in Clients, NEW ask \in asks, Begin(c, ask) PROVE IndInv'
  BY <1>1, BeginIndInv
<1>2. ASSUME NEW c \in Clients, GetOther(c) PROVE IndInv'
  BY <1>2 DEF GetOther, IndInv, SoughtInv, HeardInv, ToggleInv, PositionAsSought,
     rendererVars, avVars, ghostVars
<1>3. ASSUME NEW c \in Clients, Answer(c) PROVE IndInv'
  BY <1>3, AnswerIndInv
<1>4. ASSUME NEW c \in Clients, Cancel(c) PROVE IndInv'
  BY <1>4, OverIndInv DEF Cancel, IndInv, SoughtInv, PositionAsSought,
     deviceVars, ghostVars
<1>5. ASSUME NEW c \in Clients, Execute(c) PROVE IndInv'
  BY <1>5, ExecuteIndInv
<1>6. ASSUME NEW c \in Clients, Refuse(c) PROVE IndInv'
  BY <1>6, RefuseIndInv
<1>7. CASE ExecuteOther
  BY <1>7, ExecuteOtherIndInv
<1>8. CASE PlaysOn
  BY <1>8 DEF PlaysOn, IndInv, SoughtInv, HeardInv, ToggleInv, PositionAsSought,
     deviceVars
<1>9. CASE Notify
  BY <1>9 DEF Notify, IndInv, SoughtInv, HeardInv, ToggleInv, PositionAsSought,
     rendererVars, avVars, deviceVars, ghostVars
<1>10. CASE LastChange
  <2>1. ~avChanged => status' = {MapTransportState(transport)}
    BY <1>10 DEF LastChange, IndInv, HeardInv
  <2>. QED
    BY <1>10, <2>1 DEF LastChange, IndInv, SoughtInv, HeardInv, ToggleInv,
       PositionAsSought, rendererVars, ghostVars
<1>11. CASE RcLastChange
  BY <1>11 DEF RcLastChange, IndInv, SoughtInv, HeardInv, ToggleInv,
     PositionAsSought, rendererVars, avVars, ghostVars
<1>12. CASE UNCHANGED vars
  BY <1>12 DEF vars, IndInv, SoughtInv, HeardInv, ToggleInv, PositionAsSought,
     rendererVars, avVars, deviceVars, ghostVars
<1>. QED
  BY <1>1, <1>2, <1>3, <1>4, <1>5, <1>6, <1>7, <1>8, <1>9, <1>10, <1>11,
     <1>12 DEF Next

----------------------------------------------------------------------------
THEOREM SpecIndInv == Spec => []IndInv
BY InitIndInv, NextIndInv, PTL DEF Spec

\* Whatever clients, however many, seek, read and cancel at the same time, the
\* position that is published after a seek is the one that was sought, in
\* whole seconds: prv_device_set_position and prv_get_position_info_cb agree.
THEOREM SpecPositionAsSought == Spec => []PositionAsSought
<1>1. IndInv => PositionAsSought
  BY DEF IndInv, SoughtInv
<1>. QED
  BY <1>1, SpecIndInv, PTL

\* PlayPause pauses what plays and plays what does not, when rsu_device_play_pause
\* could know what the renderer does and that did not change on the way.
THEOREM SpecPlayPauseToggles == Spec => PlayPauseToggles
<1>1. ASSUME IndInv, NEW c \in Clients, Execute(c), pending[c].op = "PlayPause",
             pending[c].saw = {transport}
      PROVE  transport' \in {"PLAYING", "TRANSITIONING"} <=> transport # "PLAYING"
  <2>. DEFINE a == pending[c].action
  <2>1. Targeted(a) /\ Do(a)
    BY <1>1 DEF IndInv, SoughtInv, Execute
  <2>2. a.name = IF transport = "PLAYING" THEN "Pause" ELSE "Play"
    BY <1>1 DEF IndInv, ToggleInv, Execute
  <2>3. /\ a.name = "Play" => transport' \in {"PLAYING", "TRANSITIONING"}
        /\ a.name = "Pause" => transport' = "PAUSED_PLAYBACK"
    BY <1>1, <2>1, DoEffect DEF IndInv, SoughtInv
  <2>. QED
    BY <2>2, <2>3
<1>2. IndInv /\ [Next]_vars =>
          [\A c \in Clients :
               Execute(c) /\ pending[c].op = "PlayPause"
                          /\ pending[c].saw = {transport}
               => (transport' \in {"PLAYING", "TRANSITIONING"}
                       <=> transport # "PLAYING")]_vars
  BY <1>1
<1>. QED
  BY <1>2, SpecIndInv, PTL DEF Spec, PlayPauseToggles

----------------------------------------------------------------------------
(***************************************************************************)
(* Powers of two                                                           *)
(***************************************************************************)
Powers(f, n) ==
    f \in [0..n -> Nat] /\ f[0] = 1 /\ \A i \in 1..n : f[i] = 2 * f[i - 1]

LEMMA PowersExist ==
    ASSUME NEW n \in Nat
    PROVE  \E f : Powers(f, n)
<1>. DEFINE list == [i \in 1..n |-> 0]
            step == [p \in Nat \X {0} |-> 2 * p[1]]
<1>1. list \in Seq({0}) /\ Len(list) = n /\ \A i \in 1..n : list[i] = 0
  OBVIOUS
<1>2. step \in [Nat \X {0} -> Nat] /\ \A m \in Nat : step[<<m, 0>>] = 2 * m
  OBVIOUS
<1>. HIDE DEF list, step
<1>3. IsLoop(Nat, {0}, step, 1, list)
  BY <1>1, <1>2 DEF IsLoop
<1>4. HasRun(Nat, step, 1, list)
  BY <1>3, LoopDefined
<1>5. PICK f \in [0..n -> Nat] :
         f[0] = 1 /\ \A i \in 1..n : f[i] = step[<<f[i - 1], list[i]>>]
  BY <1>1, <1>4 DEF HasRun
<1>6. \A i \in 1..n : f[i] = 2 * f[i - 1]
  <2>. TAKE i \in 1..n
  <2>1. f[i - 1] \in Nat
    OBVIOUS
  <2>. QED
    BY <1>1, <1>2, <1>5, <2>1
<1>. QED
  BY <1>5, <1>6 DEF Powers

LEMMA PowerIs ==
    ASSUME NEW n \in Nat
    PROVE  \E f : Powers(f, n) /\ PowerOfTwo(n) = f[n]
<1>. DEFINE Doubles(f) == f = [i \in 0..n |-> IF i = 0 THEN 1 ELSE 2 * f[i - 1]]
            power == CHOOSE f : Doubles(f)
<1>1. PowerOfTwo(n) = power[n]
  BY DEF PowerOfTwo
<1>2. PICK f : Powers(f, n)
  BY PowersExist
<1>3. Doubles(f)
  <2>1. \A i \in 0..n : f[i] = IF i = 0 THEN 1 ELSE 2 * f[i - 1]
    BY <1>2 DEF Powers
  <2>. QED
    BY <1>2, <2>1 DEF Powers
<1>4. Doubles(power)
  BY <1>3
<1>. HIDE DEF power
<1>5. Powers(power, n)
  <2>1. /\ power[0] = 1 /\ DOMAIN power = 0..n
        /\ \A i \in 1..n : power[i] = 2 * power[i - 1]
    BY <1>4
  <2>2. power = f
    <3>. DEFINE Same == {i \in 0..n : power[i] = f[i]}
    <3>1. 0 \in Same
      BY <1>2, <2>1 DEF Powers
    <3>2. ASSUME NEW i \in 0..(n - 1), i \in Same PROVE i + 1 \in Same
      <4>1. i + 1 \in 1..n /\ (i + 1) - 1 = i
        OBVIOUS
      <4>. QED
        BY <1>2, <2>1, <3>2, <4>1 DEF Powers
    <3>3. 0..n \subseteq Same
      <4>. HIDE DEF Same
      <4>. QED
        BY <3>1, <3>2, RoundsInduction
    <3>4. \A i \in 0..n : power[i] = f[i]
      BY <3>3
    <3>5. power = [i \in 0..n |-> power[i]] /\ f = [i \in 0..n |-> f[i]]
      BY <1>2, <1>4 DEF Powers
    <3>. QED
      BY <3>4, <3>5
  <2>. QED
    BY <1>2, <2>2
<1>. QED
  BY <1>1, <1>5

LEMMA PowersAgree ==
    ASSUME NEW n \in Nat, NEW m \in 0..n, NEW f, Powers(f, n)
    PROVE  f[m] = PowerOfTwo(m)
<1>1. PICK g : Powers(g, m) /\ PowerOfTwo(m) = g[m]
  BY PowerIs
<1>. DEFINE Same == {i \in 0..m : f[i] = g[i]}
<1>2. 0 \in Same
  BY <1>1 DEF Powers
<1>3. ASSUME NEW i \in 0..(m - 1), i \in Same PROVE i + 1 \in Same
  <2>1. i + 1 \in 1..m /\ i + 1 \in 1..n /\ (i + 1) - 1 = i
    OBVIOUS
  <2>. QED
    BY <1>1, <1>3, <2>1 DEF Powers
<1>4. m \in Same
  <2>. HIDE DEF Same
  <2>1. 0..m \subseteq Same
    BY <1>2, <1>3, RoundsInduction
  <2>. QED
    BY <2>1
<1>. QED
  BY <1>1, <1>4

LEMMA PowerZero == PowerOfTwo(0) = 1
  BY PowerIs DEF Powers

LEMMA PowerType ==
    ASSUME NEW n \in Nat
    PROVE  PowerOfTwo(n) \in Nat
<1>1. PICK f : Powers(f, n) /\ PowerOfTwo(n) = f[n]
  BY PowerIs
<1>. QED
  BY <1>1 DEF Powers

LEMMA PowerNext ==
    ASSUME NEW n \in Nat
    PROVE  PowerOfTwo(n + 1) = 2 * PowerOfTwo(n)
<1>1. PICK f : Powers(f, n + 1) /\ PowerOfTwo(n + 1) = f[n + 1]
  BY PowerIs
<1>2. f[n] = PowerOfTwo(n)
  BY <1>1, PowersAgree
<1>3. f[n + 1] = 2 * f[(n + 1) - 1]
  BY <1>1 DEF Powers
<1>. QED
  BY <1>1, <1>2, <1>3

LEMMA PowerAbove ==
    ASSUME NEW n \in Nat
    PROVE  PowerOfTwo(n) > n
<1>. DEFINE S == {i \in 0..n : PowerOfTwo(i) > i}
<1>1. 0 \in S
  BY PowerZero
<1>2. ASSUME NEW i \in 0..(n - 1), i \in S PROVE i + 1 \in S
  BY <1>2, PowerNext, PowerType
<1>. HIDE DEF S
<1>3. 0..n \subseteq S
  BY <1>1, <1>2, RoundsInduction
<1>. QED
  BY <1>3 DEF S

LEMMA PowerGrows ==
    ASSUME NEW n \in Nat, NEW m \in 0..n
    PROVE  PowerOfTwo(m) <= PowerOfTwo(n)
<1>. DEFINE S == {i \in 0..(n - m) : PowerOfTwo(m) <= PowerOfTwo(m + i)}
<1>1. 0 \in S
  BY PowerType
<1>2. ASSUME NEW i \in 0..(n - m - 1), i \in S PROVE i + 1 \in S
  <2>1. m + i \in Nat /\ (m + i) + 1 = m + (i + 1) /\ i + 1 \in 0..(n - m)
    OBVIOUS
  <2>2. PowerOfTwo(m + (i + 1)) = 2 * PowerOfTwo(m + i) /\ PowerOfTwo(m + i) \in Nat
    BY <2>1, PowerNext, PowerType
  <2>3. PowerOfTwo(m) \in Nat
    BY PowerType
  <2>. QED
    BY <1>2, <2>1, <2>2, <2>3
<1>3. n - m \in S
  <2>. HIDE DEF S
  <2>1. n - m \in Nat
    OBVIOUS
  <2>2. 0..(n - m) \subseteq S
    BY <1>1, <1>2, <2>1, RoundsInduction
  <2>. QED
    BY <2>1, <2>2
<1>. QED
  BY <1>3

LEMMA PowerProduct ==
    ASSUME NEW n \in Nat, NEW m \in Nat
    PROVE  PowerOfTwo(n) * PowerOfTwo(m) = PowerOfTwo(n + m)
<1>. DEFINE S == {i \in 0..m : PowerOfTwo(n) * PowerOfTwo(i) = PowerOfTwo(n + i)}
<1>1. 0 \in S
  BY PowerZero, PowerType
<1>2. ASSUME NEW i \in 0..(m - 1), i \in S PROVE i + 1 \in S
  <2>1. n + i \in Nat /\ (n + i) + 1 = n + (i + 1) /\ i + 1 \in 0..m /\ i \in Nat
    OBVIOUS
  <2>2. /\ PowerOfTwo(n + (i + 1)) = 2 * PowerOfTwo(n + i)
        /\ PowerOfTwo(i + 1) = 2 * PowerOfTwo(i)
    BY <2>1, PowerNext
  <2>3. PowerOfTwo(n) \in Nat /\ PowerOfTwo(i) \in Nat
    BY <2>1, PowerType
  <2>. QED
    BY <1>2, <2>1, <2>2, <2>3
<1>3. m \in S
  <2>. HIDE DEF S
  <2>1. 0..m \subseteq S
    BY <1>1, <1>2, RoundsInduction
  <2>. QED
    BY <2>1
<1>. QED
  BY <1>3

----------------------------------------------------------------------------
(***************************************************************************)
(* Doubles                                                                 *)
(***************************************************************************)
\* Ulp(x) is the first power of two that is large enough.
LEMMA UlpIs ==
    ASSUME NEW x \in Nat
    PROVE  \E e \in Nat : /\ Ulp(x) = PowerOfTwo(e) /\ x < Precision * PowerOfTwo(e)
                          /\ \A f \in 0..(e - 1) : ~(x < Precision * PowerOfTwo(f))
<1>. DEFINE Fits(e) == x < Precision * PowerOfTwo(e)
            S == {e \in 0..x : Fits(e)}
            First(e) == e \in 0..x /\ Fits(e) /\ \A f \in 0..(e - 1) : ~Fits(f)
<1>1. Fits(x)
  <2>1. PowerOfTwo(x) \in Nat /\ x < PowerOfTwo(x) /\ Precision \in Nat \ {0}
    BY PowerAbove, PowerType, NumbersAssumption
  <2>. QED
    BY <2>1
<1>. HIDE DEF Fits
<1>2. PICK e \in S : \A f \in S : e <= f
  <2>1. S \in SUBSET Nat /\ x \in S
    BY <1>1
  <2>. HIDE DEF S
  <2>. QED
    BY <2>1, LeastExists
<1>3. First(e)
  BY <1>2
<1>. DEFINE g == CHOOSE g \in 0..x : Fits(g) /\ \A f \in 0..(g - 1) : ~Fits(f)
<1>4. First(g)
  BY <1>3
<1>5. Ulp(x) = PowerOfTwo(g)
  BY DEF Ulp, Fits
<1>. HIDE DEF g
<1>. QED
  BY <1>4, <1>5 DEF Fits

\* It is no larger than it must be: either 1, or half of it is too small.
LEMMA UlpFacts ==
    ASSUME NEW x \in Nat
    PROVE  /\ Ulp(x) \in Nat \ {0} /\ x < Precision * Ulp(x)
           /\ Ulp(x) = 1 \/ Precision * Ulp(x) <= 2 * x
<1>1. PICK e \in Nat :
         /\ Ulp(x) = PowerOfTwo(e) /\ x < Precision * PowerOfTwo(e)
         /\ \A f \in 0..(e - 1) : ~(x < Precision * PowerOfTwo(f))
  BY UlpIs
<1>2. PowerOfTwo(e) \in Nat /\ PowerOfTwo(e) > e /\ Precision \in Nat \ {0}
  BY PowerType, PowerAbove, NumbersAssumption
<1>3. CASE e = 0
  BY <1>1, <1>2, <1>3, PowerZero
<1>4. CASE e # 0
  <2>1. e - 1 \in 0..(e - 1) /\ e - 1 \in Nat /\ (e - 1) + 1 = e
    BY <1>4
  <2>2. /\ PowerOfTwo(e) = 2 * PowerOfTwo(e - 1) /\ PowerOfTwo(e - 1) \in Nat
    BY <2>1, PowerNext, PowerType
  <2>3. ~(x < Precision * PowerOfTwo(e - 1))
    BY <1>1, <2>1
  <2>4. Precision * PowerOfTwo(e) = 2 * (Precision * PowerOfTwo(e - 1))
    BY <1>2, <2>2
  <2>5. Precision * PowerOfTwo(e - 1) \in Nat
    BY <1>2, <2>2
  <2>. QED
    BY <1>1, <1>2, <2>3, <2>4, <2>5
<1>. QED
  BY <1>3, <1>4

\* Where the spacing of y is large enough for x, that of x is no larger.
LEMMA UlpOrder ==
    ASSUME NEW x \in Nat, NEW y \in Nat, x < Precision * Ulp(y)
    PROVE  Ulp(x) <= Ulp(y)
<1>1. PICK e \in Nat :
         /\ Ulp(x) = PowerOfTwo(e)
         /\ \A f \in 0..(e - 1) : ~(x < Precision * PowerOfTwo(f))
  BY UlpIs
<1>2. PICK d \in Nat : Ulp(y) = PowerOfTwo(d)
  BY UlpIs
<1>3. ~(d \in 0..(e - 1))
  BY <1>1, <1>2
<1>4. e \in 0..d
  BY <1>3
<1>. QED
  BY <1>1, <1>2, <1>4, PowerGrows

\* 1.0 is a power of two, the first one with its spacing.
LEMMA UlpOfOne == 2 * One <= Precision * Ulp(One)
<1>1. PICK k \in Nat : One = PowerOfTwo(k)
  BY DoublesAssumption, NumbersAssumption
<1>2. PICK p \in Nat : Precision = PowerOfTwo(p)
  BY DoublesAssumption, NumbersAssumption
<1>3. One \in Nat
  BY NumbersAssumption
<1>4. PICK e \in Nat : Ulp(One) = PowerOfTwo(e) /\ One < Precision * PowerOfTwo(e)
  BY <1>3, UlpIs
<1>5. PowerOfTwo(k) < PowerOfTwo(p + e) /\ p + e \in Nat
  BY <1>1, <1>2, <1>4, PowerProduct
<1>6. k + 1 \in 0..(p + e)
  <2>. SUFFICES ASSUME p + e <= k PROVE FALSE
    BY <1>5
  <2>1. PowerOfTwo(p + e) <= PowerOfTwo(k)
    BY <1>5, PowerGrows
  <2>2. PowerOfTwo(p + e) \in Nat /\ PowerOfTwo(k) \in Nat
    BY <1>5, PowerType
  <2>. QED
    BY <1>5, <2>1, <2>2
<1>7. PowerOfTwo(k + 1) <= PowerOfTwo(p + e)
  BY <1>5, <1>6, PowerGrows
<1>. QED
  BY <1>1, <1>2, <1>4, <1>7, PowerNext, PowerProduct

LEMMA PrecisionTwo == Precision \in Nat /\ Precision >= 2
<1>1. PICK p \in 1..Precision : Precision = PowerOfTwo(p)
  BY DoublesAssumption
<1>2. Precision \in Nat /\ p \in Nat /\ PowerOfTwo(p) > p
  BY <1>1, PowerAbove, NumbersAssumption
<1>. QED
  BY <1>1, <1>2

\* The nearest double is half a spacing off at most.
LEMMA NearestRounds ==
    ASSUME NEW num \in Nat, NEW den \in Nat \ {0}
    PROVE  /\ Nearest(num, den) \in Nat
           /\ 2 * (Nearest(num, den) * den) <= 2 * num + den * Ulp(num \div den)
           /\ 2 * num - den * Ulp(num \div den) <= 2 * (Nearest(num, den) * den)
<1>. DEFINE u == Ulp(num \div den)
            up == (2 * num + den * u) \div (2 * den * u)
            Tie == 2 * num + den * u = up * (2 * den * u)
            q == IF Tie /\ up % 2 = 1 THEN up - 1 ELSE up
<1>1. num \div den \in Nat
  OBVIOUS
<1>2. u \in Nat \ {0}
  BY <1>1, UlpFacts
<1>3. Nearest(num, den) = q * u
  BY DEF Nearest
<1>. HIDE DEF u
<1>. DEFINE d == den * u
<1>4. d \in Nat \ {0} /\ 2 * den * u = 2 * d
  BY <1>2
<1>. HIDE DEF d
<1>5. /\ up \in Nat /\ up * (2 * d) <= 2 * num + d
      /\ 2 * num + d < (up + 1) * (2 * d)
  <2>1. up = (2 * num + d) \div (2 * d)
    BY <1>4 DEF d
  <2>. HIDE DEF up
  <2>. QED
    BY <1>4, <2>1
<1>6. Tie <=> 2 * num + d = up * (2 * d)
  BY <1>4 DEF d
<1>. HIDE DEF up, Tie
\* Of a tie, the lower one is a whole spacing below the upper one.
<1>7. /\ q \in Nat /\ q * (2 * d) <= 2 * num + d
      /\ 2 * num - d <= q * (2 * d)
  <2>1. (up + 1) * (2 * d) = up * (2 * d) + 2 * d
    BY <1>4, <1>5
  <2>2. CASE Tie /\ up % 2 = 1
    <3>1. q = up - 1 /\ up # 0
      BY <2>2
    <3>2. (up - 1) * (2 * d) = up * (2 * d) - 2 * d
      BY <1>4, <1>5
    <3>3. q \in Nat /\ q * (2 * d) = up * (2 * d) - 2 * d
      BY <1>5, <3>1, <3>2
    <3>. HIDE DEF q
    <3>. QED
      BY <1>4, <1>5, <1>6, <2>2, <3>3
  <2>3. CASE ~(Tie /\ up % 2 = 1)
    <3>1. q = up
      BY <2>3
    <3>. HIDE DEF q
    <3>. QED
      BY <1>4, <1>5, <2>1, <3>1
  <2>. QED
    BY <2>2, <2>3
<1>. HIDE DEF q
<1>8. q * (2 * d) = 2 * ((q * u) * den) /\ q * u \in Nat
  BY <1>2, <1>7 DEF d
<1>. QED
  BY <1>3, <1>7, <1>8 DEF u, d

----------------------------------------------------------------------------
\* The way there and back of a volume: prv_set_volume multiplies and truncates,
\* prv_rc_last_change_cb divides.
LEMMA VolumeAndBack ==
    ASSUME NEW v \in 0..One, NEW n, n = Truncated(Nearest(v * MaxVolume, 1))
    PROVE  LET w == Published(n, MaxVolume)
           IN  /\ n \in Nat /\ w \in Nat /\ w <= v + Ulp(One)
               /\ (v - w) * MaxVolume < One + MaxVolume * Ulp(One)
<1>. DEFINE M == MaxVolume
            U == Ulp(One)
            u == Ulp((v * M) \div 1)
            N == Nearest(v * M, 1)
            t == Ulp((n * One) \div M)
            w == Nearest(n * One, M)
<1>1. /\ M \in Nat \ {0} /\ One \in Nat \ {0} /\ v \in Nat /\ v <= One
      /\ v * M \in Nat /\ (v * M) \div 1 = v * M
  <2>1. MaxVolume \in Nat \ {0} /\ One \in Nat \ {0}
    BY NumbersAssumption
  <2>. QED
    BY <2>1
<1>2. U \in Nat \ {0} /\ One < Precision * U /\ 2 * One <= Precision * U
  BY <1>1, UlpFacts, UlpOfOne
<1>3. /\ u \in Nat \ {0}
      /\ u = 1 \/ Precision * u <= 2 * (v * M)
  BY <1>1, UlpFacts
<1>4. /\ N \in Nat /\ 2 * N <= 2 * (v * M) + u /\ 2 * (v * M) - u <= 2 * N
  <2>1. /\ N \in Nat /\ 2 * (N * 1) <= 2 * (v * M) + 1 * u
        /\ 2 * (v * M) - 1 * u <= 2 * (N * 1)
    BY <1>1, NearestRounds
  <2>. QED
    BY <1>1, <1>3, <2>1
<1>. HIDE DEF N
<1>5. n \in Nat /\ n * One <= N /\ N < n * One + One
  <2>1. n = N \div One
    BY DEF Truncated, N
  <2>. QED
    BY <1>1, <1>4, <2>1
<1>6. /\ n * One \in Nat /\ (n * One) \div M \in Nat
      /\ ((n * One) \div M) * M <= n * One
  BY <1>1, <1>5
<1>7. /\ t \in Nat \ {0} /\ w \in Nat
      /\ 2 * (w * M) <= 2 * (n * One) + M * t
      /\ 2 * (n * One) - M * t <= 2 * (w * M)
  BY <1>1, <1>6, UlpFacts, NearestRounds
<1>8. w = Published(n, MaxVolume)
  BY DEF Published
<1>9. Precision \in Nat /\ Precision >= 2
  BY PrecisionTwo
<1>. DEFINE x == (n * One) \div M
<1>. HIDE DEF U, u, w
\* The product's spacing is at most M times that of 1.0.
<1>10. u <= M * U
  <2>1. CASE u = 1
    BY <1>1, <1>2, <2>1
  <2>2. CASE Precision * u <= 2 * (v * M)
    <3>1. 2 * (v * M) <= M * (2 * One)
      BY <1>1
    <3>2. M * (2 * One) <= M * (Precision * U)
      BY <1>1, <1>2, <1>9
    <3>3. M * (Precision * U) = Precision * (M * U)
      BY <1>1, <1>2, <1>9
    <3>4. M * U \in Nat /\ Precision * u <= Precision * (M * U)
      BY <1>1, <1>2, <1>3, <1>9, <2>2, <3>1, <3>2, <3>3
    <3>. QED
      BY <1>3, <1>9, <3>4
  <2>. QED
    BY <1>3, <2>1, <2>2
\* The quotient's is at most that of 1.0.
<1>11. t <= U
  <2>1. 2 * (x * M) <= 2 * (v * M) + M * U
    BY <1>1, <1>2, <1>3, <1>4, <1>5, <1>6, <1>10
  <2>2. 2 * x <= 2 * v + U
    <3>1. 2 * (x * M) = (2 * x) * M /\ 2 * (v * M) + M * U = (2 * v + U) * M
      BY <1>1, <1>2, <1>6
    <3>. HIDE DEF x
    <3>2. x \in Nat
      BY <1>6 DEF x
    <3>. QED
      BY <1>1, <1>2, <2>1, <3>1, <3>2
  <2>3. 2 * U <= Precision * U
    BY <1>2, <1>9
  <2>4. x < Precision * U
    <3>. HIDE DEF x
    <3>1. x \in Nat /\ Precision * U \in Nat
      BY <1>2, <1>6, <1>9 DEF x
    <3>. QED
      BY <1>1, <1>2, <2>2, <2>3, <3>1
  <2>. QED
    BY <1>1, <1>6, <2>4, UlpOrder DEF U
<1>. HIDE DEF t, x
<1>12. M * t <= M * U /\ M * t \in Nat /\ M * U \in Nat
  BY <1>1, <1>2, <1>7, <1>11
<1>13. w <= v + U
  <2>1. 2 * (w * M) <= 2 * (v * M) + u + M * t
    BY <1>1, <1>3, <1>4, <1>5, <1>6, <1>7, <1>12
  <2>2. w * M <= v * M + M * U
    BY <1>1, <1>3, <1>7, <1>10, <1>12, <2>1
  <2>3. w * M <= (v + U) * M
    BY <1>1, <1>2, <2>2
  <2>. QED
    BY <1>1, <1>2, <1>7, <2>3
<1>14. (v - w) * M < One + M * U
  <2>1. 2 * (v * M) - u - 2 * One - M * t < 2 * (w * M)
    BY <1>1, <1>3, <1>4, <1>5, <1>6, <1>7, <1>12
  <2>2. v * M - w * M < One + M * U
    BY <1>1, <1>3, <1>7, <1>10, <1>12, <2>1
  <2>3. (v - w) * M = v * M - w * M
    BY <1>1, <1>7
  <2>. QED
    BY <2>2, <2>3
<1>. QED
  BY <1>5, <1>7, <1>8, <1>13, <1>14 DEF U

----------------------------------------------------------------------------
(***************************************************************************)
(* The volume                                                              *)
(***************************************************************************)
\* What prv_set_volume makes of a double from 0 to 1.
IsDesired(n, v) == v \in 0..One /\ n = Truncated(Nearest(v * MaxVolume, 1))

\* When no event is outstanding the cache has the volume of the renderer, if
\* its maximum is known, and the last event on its way brings it; the first
\* one comes before anything is cached.
VolumeHeard ==
    /\ maxVolume \in {0, MaxVolume}
    /\ ~synced => rcEvent # {} /\ cachedVolume = {}
    /\ maxVolume = 0 => cachedVolume = {}
    /\ ~rcChanged /\ rcEvent # {} => rcEvent = {volume}
    /\ ~rcChanged /\ rcEvent = {} /\ maxVolume # 0 =>
          cachedVolume = {Published(volume, MaxVolume)}

\* An action has the volume that was asked for, and so has the renderer.
VolumeSent ==
    \A c \in Clients : pending[c].stage = "sent" =>
        \A v \in pending[c].action.value : IsDesired(pending[c].action.desired, v)

VolumeDone == \A v \in asked : IsDesired(volume, v)

\* The inductive invariant for VolumeAsAsked.
VolumeInv ==
    /\ pending = [c \in Clients |-> pending[c]]
    /\ VolumeHeard /\ VolumeSent /\ VolumeDone

LEMMA InitVolumeInv == Init => VolumeInv
<1>. SUFFICES ASSUME Init PROVE VolumeInv
  OBVIOUS
<1>1. \A c \in Clients : pending[c].stage = "idle"
  BY DEF Init, NoCommand
<1>2. VolumeHeard
  BY DEF Init, VolumeHeard
<1>. QED
  BY <1>1, <1>2 DEF Init, VolumeInv, VolumeSent, VolumeDone

LEMMA VolumeInvImplies == VolumeInv => VolumeAsAsked
<1>. SUFFICES ASSUME VolumeInv, NEW v \in asked, NEW w \in cachedVolume,
                     ~rcChanged, rcEvent = {}
              PROVE  /\ w <= v + Ulp(One)
                     /\ (v - w) * MaxVolume < One + MaxVolume * Ulp(One)
  BY DEF VolumeAsAsked
<1>1. v \in 0..One /\ volume = Truncated(Nearest(v * MaxVolume, 1))
  BY DEF VolumeInv, VolumeDone, IsDesired
<1>2. w = Published(volume, MaxVolume)
  BY DEF VolumeInv, VolumeHeard
<1>. QED
  BY <1>1, <1>2, VolumeAndBack

\* A command that sends a double with it sends the volume that it makes.
LEMMA BegunVolumes ==
    ASSUME maxVolume \in {0, MaxVolume}, NEW ask, NEW a \in Begun(ask),
           NEW v \in a.value
    PROVE  IsDesired(a.desired, v)
<1>1. ASSUME NEW x, a \in SetVolume(x)
      PROVE  IsDesired(a.desired, v)
  <2>1. PICK n \in DesiredVolumes(x) :
           a = [Simple("SetVolume") EXCEPT !.desired = n,
                                           !.value = IF maxVolume > 0 /\ x \in 0..One
                                                     THEN {x} ELSE {}]
    BY <1>1 DEF SetVolume
  <2>2. /\ a.desired = n
        /\ a.value = IF maxVolume > 0 /\ x \in 0..One THEN {x} ELSE {}
    BY <2>1 DEF Simple
  <2>3. v = x /\ maxVolume > 0 /\ x \in 0..One
    BY <2>2
  <2>4. maxVolume = MaxVolume /\ x # NotADouble /\ ~(x < 0)
    <3>1. MaxVolume \in Nat \ {0} /\ NotADouble \notin Int
      BY NumbersAssumption
    <3>. QED
      BY <2>3, <3>1
  <2>5. n = Truncated(Nearest(x * MaxVolume, 1))
    BY <2>4 DEF DesiredVolumes
  <2>. QED
    BY <2>2, <2>3, <2>5 DEF IsDesired
<1>2. \A name : Simple(name).value = {}
  BY DEF Simple
<1>3. \A unit, pos : SeekTo(unit, pos).value = {}
  BY DEF SeekTo
<1>4. CASE ask.op = "SetVolume"
  BY <1>1, <1>4 DEF Begun
<1>5. CASE ask.op = "SameVolume"
  BY <1>1, <1>5 DEF Begun
<1>6. CASE ask.op \notin {"SetVolume", "SameVolume"}
  BY <1>2, <1>3, <1>6 DEF Begun, OpenUri
<1>. QED
  BY <1>4, <1>5, <1>6

\* An action sets the volume and what was asked for together, and an event is
\* owed when the volume changes.
LEMMA DoVolume ==
    ASSUME VolumeDone, NEW a, Do(a), \A v \in a.value : IsDesired(a.desired, v)
    PROVE  VolumeDone' /\ (rcChanged' <=> rcChanged \/ volume' # volume)
<1>1. ASSUME NEW state, Transport(state)
      PROVE  UNCHANGED <<volume, rcChanged, asked>>
  BY <1>1 DEF Transport
<1>2. ASSUME NEW d, NEW q, Position(d, q)
      PROVE  UNCHANGED <<volume, rcChanged, asked>>
  BY <1>2 DEF Position
<1>3. \/ UNCHANGED <<volume, rcChanged, asked>>
      \/ Volume(a.desired, a.value)
      \/ Volume(MaxVolume, {})
  BY <1>1, <1>2 DEF Do
<1>4. CASE UNCHANGED <<volume, rcChanged, asked>>
  BY <1>4 DEF VolumeDone
<1>5. ASSUME NEW n, NEW value, Volume(n, value)
      PROVE  /\ volume' = n /\ asked' = value
             /\ rcChanged' = (rcChanged \/ n # volume)
  BY <1>5 DEF Volume
<1>6. CASE Volume(a.desired, a.value)
  <2>1. VolumeDone'
    BY <1>5, <1>6 DEF VolumeDone
  <2>. QED
    BY <1>5, <1>6, <2>1
<1>7. CASE Volume(MaxVolume, {})
  <2>1. VolumeDone'
    BY <1>5, <1>7 DEF VolumeDone
  <2>. QED
    BY <1>5, <1>7, <2>1
<1>. QED
  BY <1>3, <1>4, <1>6, <1>7

\* What the renderer executes keeps what was heard of it.
LEMMA ExecutedHeard ==
    ASSUME VolumeHeard, rcChanged' <=> rcChanged \/ volume' # volume,
           UNCHANGED <<rcEvent, cachedVolume, synced, maxVolume>>
    PROVE  VolumeHeard'
  BY DEF VolumeHeard

\* A client whose command is not one that was just sent.
LEMMA OthersSent ==
    ASSUME VolumeInv, NEW c \in Clients, NEW r,
           pending' = [pending EXCEPT ![c] = r],
           r.stage = "sent" => \A v \in r.action.value : IsDesired(r.action.desired, v)
    PROVE  VolumeSent' /\ pending' = [d \in Clients |-> pending'[d]]
<1>1. /\ pending' = [d \in Clients |-> pending'[d]]
      /\ pending'[c] = r
      /\ \A d \in Clients : d # c => pending'[d] = pending[d]
  BY Updated DEF VolumeInv
<1>. QED
  BY <1>1 DEF VolumeInv, VolumeSent

LEMMA ClientVolumeInv ==
    ASSUME VolumeInv, NEW c \in Clients,
           Answer(c) \/ Cancel(c) \/ Refuse(c) \/ \E ask \in asks : Begin(c, ask)
    PROVE  VolumeInv'
<1>1. UNCHANGED <<volume, rcVars, cachedVolume, synced, maxVolume, asked>>
  BY DEF Answer, Cancel, Refuse, Begin, rendererVars, deviceVars, ghostVars
<1>2. VolumeHeard' /\ VolumeDone'
  BY <1>1 DEF VolumeInv, VolumeHeard, VolumeDone, rcVars
<1>3. VolumeSent' /\ pending' = [d \in Clients |-> pending'[d]]
  <2>1. CASE Answer(c) \/ Cancel(c)
    <3>1. pending' = [pending EXCEPT ![c] = NoCommand] /\ NoCommand.stage # "sent"
      BY <2>1 DEF Answer, Cancel, NoCommand
    <3>. QED
      BY <3>1, OthersSent
  <2>2. CASE Refuse(c)
    <3>. DEFINE r == [stage |-> "done", reply |-> {}, sought |-> {}]
    <3>1. pending' = [pending EXCEPT ![c] = r] /\ r.stage # "sent"
      BY <2>2 DEF Refuse
    <3>. HIDE DEF r
    <3>. QED
      BY <3>1, OthersSent
  <2>3. CASE \E ask \in asks : Begin(c, ask)
    <3>1. PICK ask \in asks : \E a \in Begun(ask) : \E saw :
             pending' = [pending EXCEPT ![c] =
                 [stage |-> "sent", op |-> ask.op, action |-> a, saw |-> saw]]
      BY <2>3 DEF Begin
    <3>2. PICK a \in Begun(ask) : \E saw :
             pending' = [pending EXCEPT ![c] =
                 [stage |-> "sent", op |-> ask.op, action |-> a, saw |-> saw]]
      BY <3>1
    <3>3. PICK saw :
             pending' = [pending EXCEPT ![c] =
                 [stage |-> "sent", op |-> ask.op, action |-> a, saw |-> saw]]
      BY <3>2
    <3>. DEFINE r == [stage |-> "sent", op |-> ask.op, action |-> a, saw |-> saw]
    <3>4. \A v \in a.value : IsDesired(a.desired, v)
      BY BegunVolumes DEF VolumeInv, VolumeHeard
    <3>5. pending' = [pending EXCEPT ![c] = r] /\ r.action = a
      BY <3>3
    <3>. HIDE DEF r
    <3>. QED
      BY <3>4, <3>5, OthersSent
  <2>. QED
    BY <2>1, <2>2, <2>3
<1>. QED
  BY <1>2, <1>3 DEF VolumeInv

LEMMA ExecuteVolumeInv ==
    ASSUME VolumeInv, NEW c \in Clients, Execute(c)
    PROVE  VolumeInv'
<1>. DEFINE a == pending[c].action
            r == IF pending[c].op = "GetPosition"
                 THEN [stage |-> "done", reply |-> {position}, sought |-> sought]
                 ELSE [stage |-> "done", reply |-> {}, sought |-> {}]
<1>1. Do(a) /\ \A v \in a.value : IsDesired(a.desired, v)
  BY DEF VolumeInv, VolumeSent, Execute
<1>2. VolumeDone' /\ (rcChanged' <=> rcChanged \/ volume' # volume)
  BY <1>1, DoVolume DEF VolumeInv
<1>3. VolumeHeard'
  BY <1>2, ExecutedHeard DEF VolumeInv, Execute, deviceVars
<1>4. pending' = [pending EXCEPT ![c] = r] /\ r.stage # "sent"
  BY DEF Execute, VolumeInv
<1>. HIDE DEF r
<1>5. VolumeSent' /\ pending' = [d \in Clients |-> pending'[d]]
  BY <1>4, OthersSent
<1>. QED
  BY <1>2, <1>3, <1>5 DEF VolumeInv

LEMMA ExecuteOtherVolumeInv ==
    ASSUME VolumeInv, ExecuteOther
    PROVE  VolumeInv'
<1>0. PICK ask \in asks :
          \E b \in Begun(ask) : Do([b EXCEPT !.pos = {}, !.value = {}])
  BY Zenon DEF ExecuteOther
<1>1. PICK b \in Begun(ask) : Do([b EXCEPT !.pos = {}, !.value = {}])
  BY <1>0, Zenon
<1>. DEFINE a == [b EXCEPT !.pos = {}, !.value = {}]
<1>2. a.value = {}
  BY BegunActions DEF IsAction
<1>. HIDE DEF a
<1>3. VolumeDone' /\ (rcChanged' <=> rcChanged \/ volume' # volume)
  BY <1>1, <1>2, DoVolume DEF VolumeInv, a
<1>4. VolumeHeard'
  BY <1>3, ExecutedHeard DEF VolumeInv, ExecuteOther, deviceVars
<1>. QED
  BY <1>3, <1>4 DEF VolumeInv, VolumeSent, ExecuteOther

\* The event, and the maximum that its first handling queries, bring the volume
\* of the renderer into the cache.
LEMMA RcLastChangeVolumeInv ==
    ASSUME VolumeInv, RcLastChange
    PROVE  VolumeInv'
<1>1. /\ rcEvent # {} /\ rcEvent' = {} /\ synced' = TRUE
      /\ cachedVolume' = IF maxVolume' = 0 THEN cachedVolume
                         ELSE {Published(n, maxVolume') : n \in rcEvent}
      /\ UNCHANGED <<volume, rcChanged, pending, asked>>
  BY DEF RcLastChange, SyncOnce, rendererVars, ghostVars
<1>2. /\ maxVolume' \in {0, MaxVolume}
      /\ maxVolume' = 0 => cachedVolume = {}
  BY DEF RcLastChange, SyncOnce, VolumeInv, VolumeHeard
<1>3. ~rcChanged => rcEvent = {volume}
  BY <1>1 DEF VolumeInv, VolumeHeard
<1>4. VolumeHeard'
  BY <1>1, <1>2, <1>3 DEF VolumeHeard
<1>. QED
  BY <1>1, <1>4 DEF VolumeInv, VolumeSent, VolumeDone

LEMMA OthersVolumeInv ==
    ASSUME VolumeInv, VolumeHeard', UNCHANGED <<volume, pending, asked>>
    PROVE  VolumeInv'
  BY DEF VolumeInv, VolumeSent, VolumeDone

LEMMA NextVolumeInv == VolumeInv /\ [Next]_vars => VolumeInv'
<1>. SUFFICES ASSUME VolumeInv, [Next]_vars PROVE VolumeInv'
  OBVIOUS
<1>1. ASSUME NEW c \in Clients,
             Answer(c) \/ Cancel(c) \/ Refuse(c) \/ \E ask \in asks : Begin(c, ask)
      PROVE  VolumeInv'
  BY <1>1, ClientVolumeInv
<1>2. ASSUME NEW c \in Clients, GetOther(c) PROVE VolumeInv'
  <2>1. VolumeHeard'
    BY <1>2 DEF GetOther, SyncOnce, VolumeInv, VolumeHeard, rendererVars, rcVars
  <2>. QED
    BY <1>2, <2>1, OthersVolumeInv DEF GetOther, rendererVars, ghostVars
<1>3. ASSUME NEW c \in Clients, Execute(c) PROVE VolumeInv'
  BY <1>3, ExecuteVolumeInv
<1>4. CASE ExecuteOther
  BY <1>4, ExecuteOtherVolumeInv
<1>5. CASE PlaysOn
  <2>1. VolumeHeard'
    BY <1>5 DEF PlaysOn, VolumeInv, VolumeHeard, rcVars, deviceVars
  <2>. QED
    BY <1>5, <2>1, OthersVolumeInv DEF PlaysOn
<1>6. CASE Notify
  <2>1. VolumeHeard'
    BY <1>6 DEF Notify, VolumeInv, VolumeHeard, rcVars, deviceVars, rendererVars
  <2>. QED
    BY <1>6, <2>1, OthersVolumeInv DEF Notify, rendererVars, ghostVars
<1>7. CASE LastChange
  <2>1. VolumeHeard'
    BY <1>7 DEF LastChange, VolumeInv, VolumeHeard, rcVars, rendererVars
  <2>. QED
    BY <1>7, <2>1, OthersVolumeInv DEF LastChange, rendererVars, ghostVars
<1>8. CASE RcLastChange
  BY <1>8, RcLastChangeVolumeInv
<1>9. CASE UNCHANGED vars
  <2>1. VolumeHeard'
    BY <1>9 DEF vars, VolumeInv, VolumeHeard, rcVars, rendererVars, deviceVars
  <2>. QED
    BY <1>9, <2>1, OthersVolumeInv DEF vars, rendererVars, ghostVars
<1>. QED
  BY <1>1, <1>2, <1>3, <1>4, <1>5, <1>6, <1>7, <1>8, <1>9 DEF Next

LEMMA SpecVolumeInv == Spec => []VolumeInv
BY InitVolumeInv, NextVolumeInv, PTL DEF Spec

\* What is published of the volume is less than a step of the renderer's below
\* what was asked for, for any precision of the doubles and any maximum: the
\* product and the conversion to guint of prv_set_volume and the quotient of
\* prv_rc_last_change_cb, whoever commands and reports in between.
THEOREM SpecVolumeAsAsked == Spec => []VolumeAsAsked
BY SpecVolumeInv, VolumeInvImplies, PTL

=============================================================================
