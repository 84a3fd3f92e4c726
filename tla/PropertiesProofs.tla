-------------------------- MODULE PropertiesProofs --------------------------
(***************************************************************************)
(* Proofs about the cached properties: for any number of clients, events   *)
(* and requests, and any lists of play speeds.                             *)
(***************************************************************************)
EXTENDS Properties, Loops

----------------------------------------------------------------------------
(***************************************************************************)
(* What followers know.                                                    *)
(***************************************************************************)

\* A client that does not listen has learnt nothing yet.
DeafKnowNothing == \A c \in Clients \ following : DOMAIN view[c] = {}

\* What a follower knows, and what an answer on its way adds to it, is what is
\* cached.
HeardIsCached ==
    \A c \in following : \A p \in DOMAIN view[c] :
        p # "Rate" => p \in DOMAIN props /\ view[c][p] = props[p]

AnswerIsCached ==
    \A c \in following : \A p \in DOMAIN request[c].result :
        request[c].stage = "answered" /\ p # "Rate" /\ p \notin DOMAIN view[c]
            => p \in DOMAIN props /\ request[c].result[p] = props[p]

\* The answer to a GetAll, with what the client has heard, lacks no property.
AnswerIsWhole ==
    \A c \in following : \A p \in DOMAIN props :
        /\ request[c].stage = "answered" /\ request[c].all
        /\ request[c].result # Nothing
        /\ p # "Rate"
        => p \in DOMAIN view[c] \/ p \in DOMAIN request[c].result

CompleteLackNothing ==
    \A c \in complete : \A p \in DOMAIN props : p # "Rate" => p \in DOMAIN view[c]

\* The inductive invariant for FollowersKnow.
KnowInv ==
    /\ DOMAIN view = Clients /\ DOMAIN request = Clients
    /\ following \subseteq Clients /\ complete \subseteq following
    /\ DeafKnowNothing
    /\ HeardIsCached
    /\ AnswerIsCached
    /\ AnswerIsWhole
    /\ CompleteLackNothing

LEMMA InitKnowInv == Init => KnowInv
  BY DEF Init, Idle, Nothing, KnowInv, DeafKnowNothing, HeardIsCached,
         AnswerIsCached, AnswerIsWhole, CompleteLackNothing

LEMMA KnowInvImplies == KnowInv => FollowersKnow
  BY DEF KnowInv, HeardIsCached, CompleteLackNothing, FollowersKnow, Knows

\* What a signal does: the properties in K change, and followers hear of them.
Told(K) ==
    /\ DOMAIN props' = DOMAIN props \cup K
    /\ \A p \in DOMAIN props \ K : props'[p] = props[p]
    /\ DOMAIN view' = Clients
    /\ \A c \in Clients \ following : view'[c] = view[c]
    /\ \A c \in following :
          /\ DOMAIN view'[c] = DOMAIN view[c] \cup K
          /\ \A p \in K : view'[c][p] = props'[p]
          /\ \A p \in DOMAIN view[c] \ K : view'[c][p] = view[c][p]

LEMMA SignalTells ==
    ASSUME KnowInv, NEW changes, Signal(changes)
    PROVE  Told(DOMAIN changes)
  BY DEF KnowInv, Signal, Updated, Told

LEMMA SilenceTells ==
    ASSUME KnowInv, UNCHANGED <<props, view>>
    PROVE  Told({})
  BY DEF KnowInv, Told

LEMMA SyncOnceTells ==
    ASSUME KnowInv, SyncOnce
    PROVE  \E K : Told(K)
<1>1. CASE UNCHANGED <<props, view>>
  BY <1>1, SilenceTells
<1>2. CASE \E list \in SpeedsFound, max \in MaximaFound :
               SyncAnd(list, max, Nothing)
  <2>1. PICK list \in SpeedsFound, max \in MaximaFound :
            SyncAnd(list, max, Nothing)
    BY <1>2
  <2>2. PICK changes : Signal(changes)
    BY <2>1 DEF SyncAnd
  <2> QED BY <2>2, SignalTells
<1> QED BY <1>1, <1>2 DEF SyncOnce

\* The request of a client is as before, is not answered, or is answered from
\* the cache.
AnsweredFromCache(c) ==
    /\ \A p \in DOMAIN request'[c].result :
          p \in DOMAIN props' /\ request'[c].result[p] = props'[p]
    /\ request'[c].all /\ request'[c].result # Nothing =>
          DOMAIN props' \subseteq DOMAIN request'[c].result

FromCache(c) ==
    \/ request'[c] = request[c]
    \/ request'[c].stage # "answered"
    \/ AnsweredFromCache(c)

\* Signals, and the reading of the cache in the same dispatch, preserve the
\* invariant.
LEMMA TellingPreserves ==
    ASSUME KnowInv, NEW K, Told(K), UNCHANGED <<following, complete>>,
           DOMAIN request' = Clients, \A c \in following : FromCache(c)
    PROVE  KnowInv'
<1>1. following \subseteq Clients /\ complete \subseteq following
  BY DEF KnowInv
<1>2. DeafKnowNothing'
  BY DEF KnowInv, DeafKnowNothing, Told
<1>3. HeardIsCached'
  <2> SUFFICES ASSUME NEW c \in following, NEW p \in DOMAIN view'[c], p # "Rate"
               PROVE  p \in DOMAIN props' /\ view'[c][p] = props'[p]
    BY DEF HeardIsCached
  <2>1. CASE p \in K
    BY <2>1 DEF Told
  <2>2. CASE p \notin K
    <3>1. p \in DOMAIN view[c] /\ view'[c][p] = view[c][p]
      BY <2>2 DEF Told
    <3>2. p \in DOMAIN props /\ view[c][p] = props[p]
      BY <3>1 DEF KnowInv, HeardIsCached
    <3> QED BY <2>2, <3>1, <3>2 DEF Told
  <2> QED BY <2>1, <2>2
<1>4. AnswerIsCached'
  <2> SUFFICES ASSUME NEW c \in following, NEW p \in DOMAIN request'[c].result,
                      request'[c].stage = "answered", p # "Rate",
                      p \notin DOMAIN view'[c]
               PROVE  p \in DOMAIN props' /\ request'[c].result[p] = props'[p]
    BY DEF AnswerIsCached
  <2>1. p \notin K /\ p \notin DOMAIN view[c]
    BY DEF Told
  <2>2. CASE request'[c] = request[c]
    <3>1. p \in DOMAIN props /\ request[c].result[p] = props[p]
      BY <2>1, <2>2 DEF KnowInv, AnswerIsCached
    <3> QED BY <2>1, <2>2, <3>1 DEF Told
  <2>3. CASE AnsweredFromCache(c)
    BY <2>3 DEF AnsweredFromCache
  <2> QED BY <2>2, <2>3 DEF FromCache
<1>5. AnswerIsWhole'
  <2> SUFFICES ASSUME NEW c \in following, NEW p \in DOMAIN props',
                      request'[c].stage = "answered", request'[c].all,
                      request'[c].result # Nothing, p # "Rate"
               PROVE  p \in DOMAIN view'[c] \/ p \in DOMAIN request'[c].result
    BY DEF AnswerIsWhole, Nothing
  <2>1. CASE p \in K
    BY <2>1 DEF Told
  <2>2. CASE p \notin K /\ request'[c] = request[c]
    <3>1. p \in DOMAIN props
      BY <2>2 DEF Told
    <3>2. p \in DOMAIN view[c] \/ p \in DOMAIN request[c].result
      BY <2>2, <3>1 DEF KnowInv, AnswerIsWhole
    <3> QED BY <2>2, <3>2 DEF Told
  <2>3. CASE AnsweredFromCache(c)
    BY <2>3 DEF AnsweredFromCache
  <2> QED BY <2>1, <2>2, <2>3 DEF FromCache
<1>6. CompleteLackNothing'
  BY <1>1 DEF KnowInv, CompleteLackNothing, Told
<1>7. DOMAIN view' = Clients
  BY DEF Told
<1> QED BY <1>1, <1>2, <1>3, <1>4, <1>5, <1>6, <1>7 DEF KnowInv

----------------------------------------------------------------------------
LEMMA EventsPreserve ==
    ASSUME KnowInv, LastChange \/ RcLastChange
    PROVE  KnowInv'
<1>1. /\ UNCHANGED clientVars
      /\ \E changes : Signal(changes)
  <2>1. CASE LastChange
    BY <2>1 DEF LastChange
  <2>2. CASE RcLastChange
    <3>1. PICK volume : VolumeChanged(volume)
      BY <2>2 DEF RcLastChange
    <3>2. \E changes : Signal(changes)
      BY <3>1 DEF VolumeChanged, SyncAnd
    <3> QED BY <2>2, <3>2 DEF RcLastChange
  <2> QED BY <2>1, <2>2
<1>2. PICK changes : Signal(changes)
  BY <1>1
<1>3. Told(DOMAIN changes)
  BY <1>2, SignalTells
<1>4. DOMAIN request' = Clients /\ \A c \in following : FromCache(c)
  BY <1>1 DEF clientVars, KnowInv, FromCache
<1> QED BY <1>1, <1>3, <1>4, TellingPreserves DEF clientVars

LEMMA QuestionsPreserve ==
    ASSUME KnowInv, NEW c \in Clients, GetAll(c) \/ GetPosition(c)
    PROVE  KnowInv'
<1>1. \E K : Told(K)
  BY SyncOnceTells, SilenceTells DEF GetAll, GetPosition
<1>2. UNCHANGED <<following, complete>> /\ \E all : Ask(c, all)
  BY DEF GetAll, GetPosition
<1>3. DOMAIN request' = Clients /\ \A d \in following : FromCache(d)
  BY <1>2 DEF Ask, KnowInv, FromCache
<1> QED BY <1>1, <1>2, <1>3, TellingPreserves

LEMMA GetPreserves ==
    ASSUME KnowInv, NEW c \in Clients, NEW p \in Names, Get(c, p)
    PROVE  KnowInv'
<1>1. \E K : Told(K)
  BY SyncOnceTells DEF Get
<1>2. UNCHANGED <<following, complete>>
  BY DEF Get
<1>3. DOMAIN request' = Clients /\ \A d \in following : FromCache(d)
  BY DEF Get, Answer, Only, Nothing, KnowInv, FromCache, AnsweredFromCache
<1> QED BY <1>1, <1>2, <1>3, TellingPreserves

LEMMA PositionPreserves ==
    ASSUME KnowInv, NEW c \in Clients, PositionArrives(c) \/ PositionFails(c)
    PROVE  KnowInv'
<1>1. UNCHANGED <<following, complete>>
  BY DEF PositionArrives, PositionFails
<1>2. CASE PositionArrives(c)
  <2>1. PICK position \in Positions : Signal(Only("Position", position))
    BY <1>2 DEF PositionArrives
  <2>2. Told(DOMAIN Only("Position", position))
    BY <2>1, SignalTells
  <2>3. "Position" \in DOMAIN props'
    BY <2>2 DEF Told, Only
  <2>4. DOMAIN request' = Clients /\ \A d \in following : FromCache(d)
    BY <1>2, <2>3
       DEF PositionArrives, Answer, Only, KnowInv, FromCache, AnsweredFromCache
  <2> QED BY <1>1, <2>2, <2>4, TellingPreserves
<1>3. CASE PositionFails(c)
  <2>1. Told({})
    BY <1>3, SilenceTells DEF PositionFails
  <2>2. DOMAIN request' = Clients /\ \A d \in following : FromCache(d)
    BY <1>3
       DEF PositionFails, Answer, Nothing, KnowInv, FromCache, AnsweredFromCache
  <2> QED BY <1>1, <2>1, <2>2, TellingPreserves
<1> QED BY <1>2, <1>3

\* A client follows while no request of it is on its way.
LEMMA FollowPreserves ==
    ASSUME KnowInv, NEW c \in Clients, Follow(c)
    PROVE  KnowInv'
<1> USE DEF Follow, KnowInv
<1>1. request[c].stage = "idle" /\ DOMAIN view[c] = {}
  BY DEF Idle, DeafKnowNothing
<1>2. DeafKnowNothing' /\ HeardIsCached'
  BY <1>1 DEF DeafKnowNothing, HeardIsCached
<1>3. AnswerIsCached' /\ AnswerIsWhole'
  BY <1>1 DEF AnswerIsCached, AnswerIsWhole
<1>4. CompleteLackNothing'
  BY DEF CompleteLackNothing
<1> QED BY <1>2, <1>3, <1>4

\* prv_set_rate touches Rate only.
LEMMA SetRatePreserves ==
    ASSUME KnowInv, NEW asked \in AskedRates, SetRate(asked)
    PROVE  KnowInv'
<1>1. /\ UNCHANGED <<clientVars, view>>
      /\ \A p : p # "Rate" => /\ p \in DOMAIN props' <=> p \in DOMAIN props
                              /\ p \in DOMAIN props => props'[p] = props[p]
  BY DEF SetRate, Updated, Only
<1> QED
  BY <1>1 DEF clientVars, KnowInv, DeafKnowNothing, HeardIsCached,
              AnswerIsCached, AnswerIsWhole, CompleteLackNothing

LEMMA SendAnswerPreserves ==
    ASSUME KnowInv, NEW c \in Clients, SendAnswer(c)
    PROVE  KnowInv'
<1> USE DEF KnowInv
<1>1. /\ DOMAIN view' = Clients /\ DOMAIN request' = Clients
      /\ request'[c].stage = "idle"
      /\ UNCHANGED <<props, following>>
      /\ \A d \in Clients \ {c} : view'[d] = view[d] /\ request'[d] = request[d]
      /\ c \notin following => view'[c] = view[c]
  BY DEF SendAnswer, Idle
<1>2. c \in following =>
         /\ DOMAIN view'[c] = DOMAIN request[c].result \cup DOMAIN view[c]
         /\ \A p \in DOMAIN view[c] : view'[c][p] = view[c][p]
         /\ \A p \in DOMAIN request[c].result \ DOMAIN view[c] :
                view'[c][p] = request[c].result[p]
  BY DEF SendAnswer, Updated
<1>3. request[c].stage = "answered"
  BY DEF SendAnswer
<1>4. DeafKnowNothing'
  BY <1>1 DEF DeafKnowNothing
<1>5. HeardIsCached'
  <2> SUFFICES ASSUME NEW d \in following, NEW p \in DOMAIN view'[d], p # "Rate"
               PROVE  p \in DOMAIN props /\ view'[d][p] = props[p]
    BY <1>1 DEF HeardIsCached
  <2>1. CASE d # c
    BY <1>1, <2>1 DEF HeardIsCached
  <2>2. CASE d = c /\ p \in DOMAIN view[c]
    BY <1>2, <2>2 DEF HeardIsCached
  <2>3. CASE d = c /\ p \notin DOMAIN view[c]
    BY <1>2, <1>3, <2>3 DEF AnswerIsCached
  <2> QED BY <2>1, <2>2, <2>3
<1>6. AnswerIsCached' /\ AnswerIsWhole'
  BY <1>1 DEF AnswerIsCached, AnswerIsWhole, Nothing
<1>7. complete' \subseteq following
  BY DEF SendAnswer
<1>8. CompleteLackNothing'
  <2> SUFFICES ASSUME NEW d \in complete', NEW p \in DOMAIN props, p # "Rate"
               PROVE  p \in DOMAIN view'[d]
    BY <1>1 DEF CompleteLackNothing
  <2>1. CASE d \in complete
    BY <1>1, <1>2, <2>1 DEF CompleteLackNothing
  <2>2. CASE d \notin complete
    <3>1. d = c /\ c \in following /\ request[c].all /\ request[c].result # Nothing
      BY <2>2 DEF SendAnswer
    <3> QED BY <1>2, <1>3, <3>1 DEF AnswerIsWhole
  <2> QED BY <2>1, <2>2
<1> QED BY <1>1, <1>4, <1>5, <1>6, <1>7, <1>8

LEMMA NextKnowInv == KnowInv /\ [Next]_vars => KnowInv'
<1> SUFFICES ASSUME KnowInv, [Next]_vars PROVE KnowInv' OBVIOUS
<1>1. CASE LastChange \/ RcLastChange
  BY <1>1, EventsPreserve
<1>2. CASE \E asked \in AskedRates : SetRate(asked)
  BY <1>2, SetRatePreserves
<1>3. ASSUME NEW c \in Clients, Follow(c) PROVE KnowInv'
  BY <1>3, FollowPreserves
<1>4. ASSUME NEW c \in Clients, GetAll(c) \/ GetPosition(c) PROVE KnowInv'
  BY <1>4, QuestionsPreserve
<1>5. ASSUME NEW c \in Clients, NEW p \in Names, Get(c, p) PROVE KnowInv'
  BY <1>5, GetPreserves
<1>6. ASSUME NEW c \in Clients, PositionArrives(c) \/ PositionFails(c)
      PROVE  KnowInv'
  BY <1>6, PositionPreserves
<1>7. ASSUME NEW c \in Clients, SendAnswer(c) PROVE KnowInv'
  BY <1>7, SendAnswerPreserves
<1>8. CASE UNCHANGED vars
  BY <1>8 DEF vars, deviceVars, clientVars, KnowInv, DeafKnowNothing,
              HeardIsCached, AnswerIsCached, AnswerIsWhole, CompleteLackNothing
<1> QED BY <1>1, <1>2, <1>3, <1>4, <1>5, <1>6, <1>7, <1>8 DEF Next

\* A client that listens to the signals and has the answer to one GetAll
\* knows every property but Rate as prv_props_update, the events and the
\* queries of the position have left it in the cache.
THEOREM FollowersAlwaysKnow == Spec => []FollowersKnow
<1>1. Spec => []KnowInv
  BY InitKnowInv, NextKnowInv, PTL DEF Spec
<1> QED BY <1>1, KnowInvImplies, PTL

----------------------------------------------------------------------------
(***************************************************************************)
(* The cache says what the renderer reported.                              *)
(***************************************************************************)
ReportTypes ==
    /\ reported \in [actions : SUBSET SUBSET Actions, volume : SUBSET Nat,
                     uninitialized : BOOLEAN]
    /\ synced \in BOOLEAN
    /\ maxVolume \in {0, MaxVolume}

\* Each RenderingControl event is followed by the initial query, if there was
\* none before it.
VolumeComesSynced == ~synced => reported.volume = {}

\* The inductive invariant for ActionsAsReported and VolumeAsReported.
ReportInv ==
    /\ ReportTypes
    /\ VolumeComesSynced
    /\ ActionsAsReported
    /\ VolumeAsReported

LEMMA InitReportInv == Init => ReportInv
<1> SUFFICES ASSUME Init PROVE ReportInv OBVIOUS
<1>1. /\ reported.actions = {} /\ reported.volume = {}
      /\ reported \in [actions : SUBSET SUBSET Actions, volume : SUBSET Nat,
                       uninitialized : BOOLEAN]
  BY DEF Init
<1>2. ReportTypes
  BY <1>1 DEF Init, ReportTypes
<1>3. VolumeComesSynced /\ ActionsAsReported /\ VolumeAsReported
  BY <1>1 DEF VolumeComesSynced, ActionsAsReported, VolumeAsReported
<1> QED BY <1>2, <1>3 DEF ReportInv

\* An AVTransport event changes the actions to those it reports, and no volume.
LEMMA EventPropsFacts ==
    ASSUME NEW e \in Events
    PROVE  /\ "Volume" \notin DOMAIN EventProps(e)
           /\ e.actions = {} => "CanDo" \notin DOMAIN EventProps(e)
           /\ \A A \in e.actions : /\ "CanDo" \in DOMAIN EventProps(e)
                                   /\ EventProps(e)["CanDo"] = A
<1>1. DOMAIN MetadataProps(e.title, e.url, e.parses) \subseteq {"Metadata"}
  BY DEF MetadataProps, Only, Nothing
<1>2. \A A \in e.actions : The(e.actions) = A
  BY EventsAssumption DEF Optional, The
<1>3. \A A : ActionProps(A)["CanDo"] = A
  BY DEF ActionProps
<1> QED BY <1>1, <1>2, <1>3 DEF EventProps, Updated

LEMMA LastChangeReport ==
    ASSUME ReportInv, LastChange
    PROVE  ReportInv'
<1>1. PICK e \in Events :
          /\ Signal(EventProps(e))
          /\ reported' = IF e.actions = {} THEN reported
                         ELSE [reported EXCEPT !.actions = e.actions]
  BY DEF LastChange
<1>2. UNCHANGED <<synced, maxVolume>>
  BY DEF LastChange
<1>3. e.actions \subseteq SUBSET Actions
  BY EventsAssumption DEF Optional
<1>4. ReportTypes' /\ VolumeComesSynced'
  BY <1>1, <1>2, <1>3 DEF ReportInv, ReportTypes, VolumeComesSynced
<1>5. ActionsAsReported'
  <2>1. CASE e.actions = {}
    BY <1>1, <2>1, EventPropsFacts
       DEF ReportInv, ActionsAsReported, Signal, Updated
  <2>2. CASE e.actions # {}
    BY <1>1, <2>2, EventPropsFacts
       DEF ReportInv, ReportTypes, ActionsAsReported, Signal, Updated
  <2> QED BY <2>1, <2>2
<1>6. VolumeAsReported'
  <2>1. /\ reported'.volume = reported.volume
        /\ reported'.uninitialized = reported.uninitialized
    BY <1>1 DEF ReportInv, ReportTypes
  <2>2. /\ "Volume" \in DOMAIN props' <=> "Volume" \in DOMAIN props
        /\ "Volume" \in DOMAIN props => props'["Volume"] = props["Volume"]
    BY <1>1, EventPropsFacts DEF Signal, Updated
  <2> QED BY <1>2, <2>1, <2>2 DEF ReportInv, VolumeAsReported
<1> QED BY <1>4, <1>5, <1>6 DEF ReportInv

\* What prv_rc_last_change_cb leaves, whether it queries the maximum or not.
LEMMA VolumeChangedFacts ==
    ASSUME ReportInv, NEW volume \in Nat, VolumeChanged(volume)
    PROVE  /\ synced' = TRUE /\ maxVolume' \in {0, MaxVolume}
           /\ maxVolume' # 0 => /\ "Volume" \in DOMAIN props'
                                /\ props'["Volume"] = <<volume, maxVolume'>>
           /\ synced => /\ "CanDo" \in DOMAIN props => "CanDo" \in DOMAIN props'
                        /\ "CanDo" \in DOMAIN props =>
                               props'["CanDo"] = props["CanDo"]
<1>1. CASE synced
  BY <1>1 DEF VolumeChanged, VolumeProps, Only, Nothing, Signal, Updated,
              ReportInv, ReportTypes
<1>2. CASE ~synced
  <2>1. PICK list \in SpeedsFound, max \in MaximaFound :
            SyncAnd(list, max, VolumeProps(volume, max))
    BY <1>2 DEF VolumeChanged
  <2>2. maxVolume' = max /\ max \in {0, MaxVolume} /\ synced' = TRUE
    BY <2>1 DEF SyncAnd, MaximaFound
  <2>3. max # 0 => /\ "Volume" \in DOMAIN props'
                   /\ props'["Volume"] = <<volume, max>>
    <3>1. PICK earlier : Signal(Updated(earlier, VolumeProps(volume, max)))
      BY <2>1 DEF SyncAnd
    <3> QED BY <3>1 DEF VolumeProps, Only, Signal, Updated
  <2> QED BY <1>2, <2>2, <2>3
<1> QED BY <1>1, <1>2

LEMMA RcLastChangeReport ==
    ASSUME ReportInv, RcLastChange
    PROVE  ReportInv'
<1>1. PICK volume \in Nat :
          /\ VolumeChanged(volume)
          /\ reported'.actions = ActionsSinceSync
          /\ \/ reported'.volume = {volume}
             \/ reported'.uninitialized
          /\ reported' \in [actions : SUBSET SUBSET Actions, volume : SUBSET Nat,
                            uninitialized : BOOLEAN]
  <2>1. ActionsSinceSync \in SUBSET SUBSET Actions
    BY DEF ReportInv, ReportTypes, ActionsSinceSync
  <2>2. \A n : n \in 0..MaxVolume \/ n \in 0..(MaxVolume + 1) => n \in Nat
    BY VolumeAssumption
  <2>3. CASE \E n \in 0..MaxVolume :
                 /\ VolumeChanged(n)
                 /\ reported' = [actions |-> ActionsSinceSync, volume |-> {n},
                                 uninitialized |-> FALSE]
    <3>1. PICK n \in 0..MaxVolume :
              /\ VolumeChanged(n)
              /\ reported' = [actions |-> ActionsSinceSync, volume |-> {n},
                              uninitialized |-> FALSE]
      BY <2>3
    <3> QED BY <2>1, <2>2, <3>1
  <2>4. CASE \E garbage \in 0..(MaxVolume + 1) :
                 /\ VolumeChanged(garbage)
                 /\ reported' = [actions |-> ActionsSinceSync,
                                 volume |-> reported.volume,
                                 uninitialized |-> TRUE]
    <3>1. PICK garbage \in 0..(MaxVolume + 1) :
              /\ VolumeChanged(garbage)
              /\ reported' = [actions |-> ActionsSinceSync,
                              volume |-> reported.volume, uninitialized |-> TRUE]
      BY <2>4
    <3>2. reported.volume \in SUBSET Nat
      BY DEF ReportInv, ReportTypes
    <3> QED BY <2>1, <2>2, <3>1, <3>2
  <2> QED BY <2>3, <2>4 DEF RcLastChange
<1>2. /\ synced' = TRUE /\ maxVolume' \in {0, MaxVolume}
      /\ maxVolume' # 0 => /\ "Volume" \in DOMAIN props'
                           /\ props'["Volume"] = <<volume, maxVolume'>>
  BY <1>1, VolumeChangedFacts
<1>3. ReportTypes' /\ VolumeComesSynced'
  BY <1>1, <1>2 DEF ReportTypes, VolumeComesSynced
<1>4. ActionsAsReported'
  <2>1. CASE synced
    BY <1>1, <2>1, VolumeChangedFacts
       DEF ReportInv, ActionsAsReported, ActionsSinceSync
  <2>2. CASE ~synced
    BY <1>1, <1>2, <2>2 DEF ActionsAsReported, ActionsSinceSync
  <2> QED BY <2>1, <2>2
<1>5. VolumeAsReported'
  BY <1>1, <1>2 DEF VolumeAsReported
<1> QED BY <1>3, <1>4, <1>5 DEF ReportInv

\* The first query makes the reports before it void, the others do nothing.
LEMMA SyncOnceReport ==
    ASSUME ReportInv, SyncOnce
    PROVE  ReportInv'
<1>1. CASE synced
  BY <1>1 DEF SyncOnce, ActionsSinceSync, ReportInv, ReportTypes,
              VolumeComesSynced, ActionsAsReported, VolumeAsReported
<1>2. CASE ~synced
  <2>1. PICK list \in SpeedsFound, max \in MaximaFound :
            SyncAnd(list, max, Nothing)
    BY <1>2 DEF SyncOnce
  <2>2. synced' = TRUE /\ maxVolume' \in {0, MaxVolume}
    BY <2>1 DEF SyncAnd, MaximaFound
  <2>3. reported' = [reported EXCEPT !.actions = {}]
    BY <1>2, <2>2 DEF SyncOnce, ActionsSinceSync
  <2>4. reported'.volume = {}
    BY <1>2, <2>3 DEF ReportInv, ReportTypes, VolumeComesSynced
  <2> QED BY <2>2, <2>3, <2>4
          DEF ReportInv, ReportTypes, VolumeComesSynced, ActionsAsReported,
              VolumeAsReported
<1> QED BY <1>1, <1>2

\* All other steps leave the actions and the volume alone.
LEMMA OthersReport ==
    ASSUME ReportInv, UNCHANGED <<synced, maxVolume, reported>>,
           \A p \in {"CanDo", "Volume"} :
               /\ p \in DOMAIN props' <=> p \in DOMAIN props
               /\ p \in DOMAIN props => props'[p] = props[p]
    PROVE  ReportInv'
  BY DEF ReportInv, ReportTypes, VolumeComesSynced, ActionsAsReported,
         VolumeAsReported

LEMMA NextReportInv == ReportInv /\ [Next]_vars => ReportInv'
<1> SUFFICES ASSUME ReportInv, [Next]_vars PROVE ReportInv' OBVIOUS
<1>1. CASE LastChange
  BY <1>1, LastChangeReport
<1>2. CASE RcLastChange
  BY <1>2, RcLastChangeReport
<1>3. ASSUME NEW asked \in AskedRates, SetRate(asked) PROVE ReportInv'
  BY <1>3, OthersReport DEF SetRate, Updated, Only
<1>4. ASSUME NEW c \in Clients, Follow(c) PROVE ReportInv'
  BY <1>4, OthersReport DEF Follow, deviceVars
<1>5. ASSUME NEW c \in Clients, GetAll(c) PROVE ReportInv'
  BY <1>5, SyncOnceReport DEF GetAll
<1>6. ASSUME NEW c \in Clients, NEW p \in Names, Get(c, p) PROVE ReportInv'
  BY <1>6, SyncOnceReport DEF Get
<1>7. ASSUME NEW c \in Clients, PositionArrives(c) PROVE ReportInv'
  BY <1>7, OthersReport DEF PositionArrives, deviceVars, Signal, Updated, Only
<1>8. ASSUME NEW c \in Clients, GetPosition(c) \/ PositionFails(c) \/ SendAnswer(c)
      PROVE  ReportInv'
  BY <1>8, OthersReport DEF GetPosition, PositionFails, SendAnswer, deviceVars
<1>9. CASE UNCHANGED vars
  BY <1>9, OthersReport DEF vars, deviceVars
<1> QED BY <1>1, <1>2, <1>3, <1>4, <1>5, <1>6, <1>7, <1>8, <1>9 DEF Next

LEMMA SpecReportInv == Spec => []ReportInv
  BY InitReportInv, NextReportInv, PTL DEF Spec

\* CanPlay and the others, as prv_add_all_actions and prv_add_actions write
\* them, say what the renderer reported last since the initial query.
THEOREM ActionsAlwaysAsReported == Spec => []ActionsAsReported
<1>1. ReportInv => ActionsAsReported
  BY DEF ReportInv
<1> QED BY SpecReportInv, <1>1, PTL

\* The cached Volume is the one that prv_rc_last_change_cb read last, for
\* events that have one and a maximum that is known.
THEOREM VolumeAlwaysAsReported == Spec => []VolumeAsReported
<1>1. ReportInv => VolumeAsReported
  BY DEF ReportInv
<1> QED BY SpecReportInv, <1>1, PTL

----------------------------------------------------------------------------
(***************************************************************************)
(* Play speeds and their order.                                            *)
(***************************************************************************)
Speeds == Int \X Nat
Fractions == {s \in Speeds : ~Invalid(s)}

LEMMA FractionsAre ==
    ASSUME NEW s \in Fractions
    PROVE  /\ s = <<s[1], s[2]>> /\ s[1] \in Int \ {0} /\ s[2] \in Nat \ {0}
           /\ ~Invalid(s)
  BY DEF Fractions, Speeds, Invalid

\* An invalid extreme, like "1/0", compares as infinite: what is below it is
\* below all that is not below it.
LEMMA Below ==
    ASSUME NEW m \in Speeds, NEW s \in Fractions, NEW t \in Fractions,
           Compare(m, s) > 0, Compare(m, t) <= 0
    PROVE  Compare(s, t) <= 0
<1>1. m[1] \in Int /\ m[2] \in Nat
  BY DEF Speeds
<1>2. /\ m[1] * s[2] > s[1] * m[2] /\ m[1] * t[2] <= t[1] * m[2]
  BY <1>1, FractionsAre DEF Compare
<1>3. s[1] * t[2] <= t[1] * s[2]
  BY <1>1, <1>2, FractionsAre
<1>. QED
  BY <1>3, FractionsAre DEF Compare

LEMMA Above ==
    ASSUME NEW m \in Speeds, NEW s \in Fractions, NEW t \in Fractions,
           Compare(m, s) < 0, Compare(m, t) >= 0
    PROVE  Compare(s, t) >= 0
<1>1. m[1] \in Int /\ m[2] \in Nat
  BY DEF Speeds
<1>2. /\ m[1] * s[2] < s[1] * m[2] /\ m[1] * t[2] >= t[1] * m[2]
  BY <1>1, FractionsAre DEF Compare
<1>3. s[1] * t[2] >= t[1] * s[2]
  BY <1>1, <1>2, FractionsAre
<1>. QED
  BY <1>3, FractionsAre DEF Compare

LEMMA AtLeast ==
    ASSUME NEW m \in Speeds, NEW s \in Fractions, NEW t \in Fractions,
           Compare(m, s) >= 0, Compare(s, t) > 0
    PROVE  Compare(m, t) >= 0
<1>1. m[1] \in Int /\ m[2] \in Nat
  BY DEF Speeds
<1>2. m[1] * s[2] >= s[1] * m[2] /\ s[1] * t[2] > t[1] * s[2]
  BY <1>1, FractionsAre DEF Compare
<1>3. m[1] * t[2] >= t[1] * m[2]
  BY <1>1, <1>2, FractionsAre
<1>. QED
  BY <1>1, <1>3, FractionsAre DEF Compare

LEMMA CompareType ==
    ASSUME NEW a \in Speeds, NEW b \in Speeds
    PROVE  Compare(a, b) \in Int
  BY DEF Compare, Speeds

LEMMA CompareReflexive ==
    ASSUME NEW a \in Speeds
    PROVE  Compare(a, a) = 0
  BY DEF Compare, Speeds

LEMMA CompareReversed ==
    ASSUME NEW a \in Speeds, NEW b \in Speeds
    PROVE  Compare(a, b) = -Compare(b, a)
  BY DEF Compare, Speeds

----------------------------------------------------------------------------
\* The division of prv_rational_to_double rounds to the next integer.
LEMMA DivisionRounds ==
    ASSUME NEW n \in Int, NEW d \in Nat \ {0}
    PROVE  LET q == (200 * n + d) \div (2 * d)
           IN  /\ q \in Int
               /\ 2 * (q * d) <= 200 * n + d /\ 200 * n - d < 2 * (q * d)
OBVIOUS

\* prv_rational_to_double is half a hundredth off at most, and keeps the sign.
LEMMA HundredthsRound ==
    ASSUME NEW s \in Fractions
    PROVE  /\ Hundredths(s) \in Int
           /\ 2 * (Hundredths(s) * s[2]) <= 200 * s[1] + s[2]
           /\ 200 * s[1] - s[2] <= 2 * (Hundredths(s) * s[2])
           /\ s[1] > 0 => /\ Hundredths(s) >= 0
                          /\ 200 * s[1] - s[2] < 2 * (Hundredths(s) * s[2])
           /\ s[1] < 0 => /\ Hundredths(s) <= 0
                          /\ 2 * (Hundredths(s) * s[2]) < 200 * s[1] + s[2]
<1>1. s[1] \in Int \ {0} /\ s[2] \in Nat \ {0} /\ ~Invalid(s)
  BY FractionsAre
<1>2. CASE s[1] > 0
  <2>. DEFINE q == (200 * s[1] + s[2]) \div (2 * s[2])
  <2>1. Hundredths(s) = q
    BY <1>1, <1>2 DEF Hundredths
  <2>2. /\ q \in Int
        /\ 2 * (q * s[2]) <= 200 * s[1] + s[2]
        /\ 200 * s[1] - s[2] < 2 * (q * s[2])
    BY <1>1, DivisionRounds
  <2>. HIDE DEF q
  <2>3. q >= 0
    BY <1>1, <1>2, <2>2
  <2>. QED
    BY <1>1, <1>2, <2>1, <2>2, <2>3
<1>3. CASE s[1] < 0
  <2>. DEFINE q == (200 * (-s[1]) + s[2]) \div (2 * s[2])
  <2>1. Hundredths(s) = -q
    BY <1>1, <1>3 DEF Hundredths
  <2>2. /\ q \in Int
        /\ 2 * (q * s[2]) <= 200 * (-s[1]) + s[2]
        /\ 200 * (-s[1]) - s[2] < 2 * (q * s[2])
    <3>1. -s[1] \in Int
      BY <1>1
    <3>. QED
      BY <1>1, <3>1, DivisionRounds
  <2>. HIDE DEF q
  <2>3. q >= 0
    BY <1>1, <1>3, <2>2
  <2>4. (-q) * s[2] = -(q * s[2])
    BY <1>1, <2>2
  <2>. QED
    BY <1>1, <1>3, <2>1, <2>2, <2>3, <2>4
<1>. QED
  BY <1>1, <1>2, <1>3

LEMMA HundredthsType ==
    ASSUME NEW s \in Speeds
    PROVE  Hundredths(s) \in Int /\ (Invalid(s) => Hundredths(s) = 0)
  BY HundredthsRound DEF Fractions, Hundredths

\* Rounding keeps the order.
LEMMA Rounded ==
    ASSUME NEW a1 \in Int, NEW a2 \in Nat \ {0}, NEW p \in Int,
           NEW b1 \in Int, NEW b2 \in Nat \ {0}, NEW q \in Int,
           2 * (p * a2) <= 200 * a1 + a2, 200 * b1 - b2 < 2 * (q * b2),
           a1 * b2 <= b1 * a2
    PROVE  p <= q
<1>. SUFFICES ASSUME p >= q + 1 PROVE FALSE
  OBVIOUS
<1>1. (2 * (p * a2)) * b2 <= (200 * a1 + a2) * b2
  OBVIOUS
<1>2. (200 * b1 - b2) * a2 < (2 * (q * b2)) * a2
  OBVIOUS
<1>3. (q + 1) * (a2 * b2) <= p * (a2 * b2)
  <2>1. a2 * b2 \in Nat
    OBVIOUS
  <2>. QED
    BY <2>1
<1>. QED
  BY <1>1, <1>2, <1>3

LEMMA HundredthsMonotone ==
    ASSUME NEW a \in Fractions, NEW b \in Fractions, Compare(a, b) <= 0
    PROVE  Hundredths(a) <= Hundredths(b)
<1>1. /\ a[1] \in Int \ {0} /\ a[2] \in Nat \ {0}
      /\ b[1] \in Int \ {0} /\ b[2] \in Nat \ {0}
  BY FractionsAre
<1>2. a[1] * b[2] <= b[1] * a[2]
  BY <1>1 DEF Compare
<1>3. Hundredths(a) \in Int /\ Hundredths(b) \in Int
  BY HundredthsRound
<1>4. CASE b[1] > 0
  BY <1>1, <1>2, <1>3, <1>4, HundredthsRound, Rounded
<1>5. CASE a[1] < 0 /\ b[1] < 0
  <2>1. (-b[1]) * a[2] <= (-a[1]) * b[2]
    BY <1>1, <1>2
  <2>2. /\ 2 * ((-Hundredths(b)) * b[2]) <= 200 * (-b[1]) + b[2]
        /\ 200 * (-a[1]) - a[2] < 2 * ((-Hundredths(a)) * a[2])
    <3>1. /\ (-Hundredths(b)) * b[2] = -(Hundredths(b) * b[2])
          /\ (-Hundredths(a)) * a[2] = -(Hundredths(a) * a[2])
      BY <1>1, <1>3
    <3>. QED
      BY <1>1, <1>3, <1>5, <3>1, HundredthsRound
  <2>3. -Hundredths(b) <= -Hundredths(a)
    BY <1>1, <1>3, <2>1, <2>2, Rounded
  <2>. QED
    BY <1>3, <2>3
<1>6. CASE a[1] > 0 /\ b[1] < 0
  BY <1>1, <1>2, <1>6
<1>. QED
  BY <1>1, <1>4, <1>5, <1>6

----------------------------------------------------------------------------
(***************************************************************************)
(* The loop of prv_get_rates_values.                                       *)
(***************************************************************************)
Values == [speeds : Seq(Speeds), published : Seq(Int), min : Speeds, max : Speeds]

LEMMA ReadType ==
    ASSUME NEW e \in Values, NEW s \in Speeds
    PROVE  Read(e, s) \in Values
<1>1. CASE Invalid(s)
  BY <1>1 DEF Read
<1>2. CASE ~Invalid(s)
  <2>1. Append(e.speeds, s) \in Seq(Speeds)
    BY DEF Values
  <2>2. Append(e.published, Hundredths(s)) \in Seq(Int)
    BY HundredthsType DEF Values
  <2>. QED
    BY <1>2, <2>1, <2>2 DEF Read, Values
<1>. QED
  BY <1>1, <1>2

\* The two lists go side by side: what is published is the speed in hundredths.
Aligned(e) ==
    /\ Len(e.published) = Len(e.speeds)
    /\ \A i \in 1..Len(e.speeds) : e.published[i] = Hundredths(e.speeds[i])

\* The speeds that are kept are the valid ones of those in S, which were read.
Kept(e, S) == Range(e.speeds) = S \cap Fractions

\* The extremes are valid speeds that were read, or the first.
Found(e, first, S) == {e.min, e.max} \subseteq {first} \cup (S \cap Fractions)

\* They bound what was read, and the lower one is not above the upper one.
Bound(e, S) ==
    /\ \A s \in S \cap Fractions : Compare(e.min, s) <= 0 /\ Compare(e.max, s) >= 0
    /\ \A t \in Fractions : Compare(e.min, t) > 0 => Compare(e.max, t) >= 0

ReadSoFar(e, first, S) ==
    e \in Values /\ Aligned(e) /\ Kept(e, S) /\ Found(e, first, S) /\ Bound(e, S)

LEMMA ReadKeeps ==
    ASSUME NEW e, NEW first \in Speeds, NEW S \in SUBSET Speeds, NEW s \in Speeds,
           ReadSoFar(e, first, S)
    PROVE  ReadSoFar(Read(e, s), first, S \cup {s})
<1>. DEFINE r == Read(e, s)
<1>1. e \in Values /\ r \in Values
  BY ReadType DEF ReadSoFar
<1>2. CASE Invalid(s)
  <2>1. r = e /\ (S \cup {s}) \cap Fractions = S \cap Fractions
    BY <1>2 DEF Read, Fractions
  <2>. QED
    BY <2>1 DEF ReadSoFar, Kept, Found, Bound
<1>3. CASE ~Invalid(s)
  <2>1. /\ s \in Fractions
        /\ (S \cup {s}) \cap Fractions = (S \cap Fractions) \cup {s}
    BY <1>3 DEF Fractions
  <2>2. /\ r.speeds = Append(e.speeds, s)
        /\ r.published = Append(e.published, Hundredths(s))
        /\ r.min = IF Compare(e.min, s) > 0 THEN s ELSE e.min
        /\ r.max = IF Compare(e.min, s) <= 0 /\ Compare(e.max, s) < 0
                   THEN s ELSE e.max
    BY <1>3 DEF Read
  <2>3. /\ e.speeds \in Seq(Speeds) /\ e.published \in Seq(Int)
        /\ e.min \in Speeds /\ e.max \in Speeds
    BY <1>1 DEF Values
  <2>. HIDE DEF r
  <2>4. Aligned(r)
    <3>1. /\ Len(r.speeds) = Len(e.speeds) + 1
          /\ Len(r.published) = Len(e.published) + 1
          /\ r.speeds[Len(e.speeds) + 1] = s
          /\ r.published[Len(e.published) + 1] = Hundredths(s)
          /\ \A i \in 1..Len(e.speeds) : r.speeds[i] = e.speeds[i]
          /\ \A i \in 1..Len(e.published) : r.published[i] = e.published[i]
      BY <2>2, <2>3, HundredthsType
    <3>. QED
      BY <2>3, <3>1 DEF ReadSoFar, Aligned
  <2>5. Kept(r, S \cup {s})
    <3>1. Range(r.speeds) = Range(e.speeds) \cup {s}
      <4>. DEFINE n == Len(e.speeds)
      <4>1. /\ n \in Nat /\ DOMAIN e.speeds = 1..n
            /\ DOMAIN r.speeds = 1..(n + 1) /\ r.speeds[n + 1] = s
            /\ \A i \in 1..n : r.speeds[i] = e.speeds[i]
        BY <2>2, <2>3
      <4>. HIDE DEF n
      <4>2. 1..(n + 1) = 1..n \cup {n + 1}
        BY <4>1
      <4>. QED
        BY <4>1, <4>2 DEF Range
    <3>. QED
      BY <2>1, <3>1 DEF ReadSoFar, Kept
  <2>6. Found(r, first, S \cup {s})
    BY <2>1, <2>2 DEF ReadSoFar, Found
  <2>. DEFINE V == S \cap Fractions
  <2>7. /\ \A t \in V : Compare(e.min, t) <= 0 /\ Compare(e.max, t) >= 0
        /\ \A t \in Fractions : Compare(e.min, t) > 0 => Compare(e.max, t) >= 0
        /\ \A t \in Fractions : t \in Speeds
    BY DEF ReadSoFar, Bound, Fractions
  <2>8. /\ Compare(e.min, s) \in Int /\ Compare(e.max, s) \in Int
        /\ Compare(s, s) = 0
    BY <2>3, CompareType, CompareReflexive
  <2>9. Bound(r, S \cup {s})
    <3>1. CASE Compare(e.min, s) > 0
      <4>1. r.min = s /\ r.max = e.max
        BY <2>2, <2>8, <3>1
      <4>2. \A t \in V : Compare(s, t) <= 0
        BY <2>1, <2>3, <2>7, <3>1, Below
      <4>3. Compare(e.max, s) >= 0
        BY <2>1, <2>7, <3>1
      <4>4. \A t \in Fractions : Compare(s, t) > 0 => Compare(e.max, t) >= 0
        BY <2>1, <2>3, <4>3, AtLeast
      <4>. QED
        BY <2>1, <2>7, <2>8, <4>1, <4>2, <4>3, <4>4 DEF Bound
    <3>2. CASE Compare(e.min, s) <= 0 /\ Compare(e.max, s) < 0
      <4>1. r.min = e.min /\ r.max = s
        BY <2>2, <2>8, <3>2
      <4>2. \A t \in V : Compare(s, t) >= 0
        BY <2>1, <2>3, <2>7, <3>2, Above
      <4>3. \A t \in Fractions : Compare(e.min, t) > 0 => Compare(s, t) >= 0
        <5>. SUFFICES ASSUME NEW t \in Fractions, Compare(e.min, t) > 0
                      PROVE  Compare(s, t) >= 0
          OBVIOUS
        <5>1. Compare(t, s) <= 0
          BY <2>1, <2>3, <3>2, Below
        <5>. QED
          BY <2>1, <2>7, <5>1, CompareType, CompareReversed
      <4>. QED
        BY <2>1, <2>7, <2>8, <3>2, <4>1, <4>2, <4>3 DEF Bound
    <3>3. CASE Compare(e.min, s) <= 0 /\ ~(Compare(e.max, s) < 0)
      <4>1. r.min = e.min /\ r.max = e.max
        BY <2>2, <2>8, <3>3
      <4>2. Compare(e.max, s) >= 0
        BY <2>8, <3>3
      <4>. QED
        BY <2>1, <2>7, <3>3, <4>1, <4>2 DEF Bound
    <3>. QED
      BY <2>8, <3>1, <3>2, <3>3
  <2>. QED
    BY <1>1, <2>4, <2>5, <2>6, <2>9 DEF r, ReadSoFar
<1>. QED
  BY <1>2, <1>3

LEMMA RatesValuesRounds ==
    ASSUME NEW list \in Seq(Speeds), list # <<>>
    PROVE  \E read :
              /\ read[0] = Unread(list)
              /\ \A i \in 1..Len(list) : read[i] = Read(read[i - 1], list[i])
              /\ RatesValues(list) = read[Len(list)]
<1>. DEFINE none == Unread(list)
            step == [p \in Values \X Speeds |-> Read(p[1], p[2])]
            Rounds(f) == f = [i \in 0..Len(list) |->
                                IF i = 0 THEN none ELSE Read(f[i - 1], list[i])]
            read == CHOOSE f : Rounds(f)
<1>1. /\ Len(list) \in Nat /\ none \in Values
      /\ \A i \in 1..Len(list) : list[i] \in Speeds
  <2>1. Head(list) \in Speeds
    OBVIOUS
  <2>2. <<>> \in Seq(Speeds) /\ <<>> \in Seq(Int)
    OBVIOUS
  <2>. QED
    BY <2>1, <2>2 DEF Unread, Values
<1>2. step \in [Values \X Speeds -> Values]
  BY ReadType
<1>3. RatesValues(list) = read[Len(list)]
  BY DEF RatesValues
<1>. HIDE DEF none
<1>4. PICK f \in [0..Len(list) -> Values] :
         /\ f[0] = none
         /\ \A i \in 1..Len(list) : f[i] = step[<<f[i - 1], list[i]>>]
  <2>1. IsLoop(Values, Speeds, step, none, list)
    BY <1>1, <1>2 DEF IsLoop
  <2>2. HasRun(Values, step, none, list)
    BY <2>1, LoopDefined
  <2>. QED
    BY <2>2 DEF HasRun
<1>5. \A i \in 1..Len(list) : f[i] = Read(f[i - 1], list[i])
  <2>. TAKE i \in 1..Len(list)
  <2>1. f[i - 1] \in Values /\ list[i] \in Speeds
    BY <1>1
  <2>2. step[<<f[i - 1], list[i]>>] = Read(f[i - 1], list[i])
    BY <2>1
  <2>. QED
    BY <1>4, <2>2
<1>. HIDE DEF step
<1>6. \A i \in 0..Len(list) :
         f[i] = IF i = 0 THEN none ELSE Read(f[i - 1], list[i])
  BY <1>1, <1>4, <1>5
<1>7. Rounds(f)
  BY <1>6
<1>8. Rounds(read)
  BY <1>7
<1>. HIDE DEF read
<1>9. /\ read[0] = none
      /\ \A i \in 1..Len(list) : read[i] = Read(read[i - 1], list[i])
  BY <1>1, <1>8
<1>. QED
  BY <1>3, <1>9 DEF none

\* What prv_get_rates_values makes of any list.
LEMMA RatesValuesAre ==
    ASSUME NEW list \in Seq(Speeds), list # <<>>
    PROVE  ReadSoFar(RatesValues(list), Head(list), Range(list))
<1>. DEFINE len == Len(list)
            Seen(n) == {list[i] : i \in 1..n}
<1>1. PICK read :
         /\ read[0] = Unread(list)
         /\ \A i \in 1..len : read[i] = Read(read[i - 1], list[i])
         /\ RatesValues(list) = read[len]
  BY RatesValuesRounds
<1>2. /\ len \in Nat \ {0} /\ DOMAIN list = 1..len
      /\ \A i \in 1..len : list[i] \in Speeds
      /\ Head(list) \in Speeds
  OBVIOUS
<1>3. Seen(len) = Range(list)
  BY <1>2 DEF Range
<1>. HIDE DEF len
<1>. DEFINE Done == {n \in 0..len : ReadSoFar(read[n], Head(list), Seen(n))}
<1>4. 0 \in Done
  <2>1. Seen(0) = {}
    OBVIOUS
  <2>2. Unread(list) \in Values
    <3>1. <<>> \in Seq(Speeds) /\ <<>> \in Seq(Int)
      OBVIOUS
    <3>. QED
      BY <1>2, <3>1 DEF Unread, Values
  <2>3. Aligned(Unread(list)) /\ Kept(Unread(list), {})
    BY DEF Unread, Aligned, Kept, Range
  <2>4. Found(Unread(list), Head(list), {}) /\ Bound(Unread(list), {})
    <3>1. \A t \in Fractions : Compare(Head(list), t) \in Int
      BY <1>2, CompareType DEF Fractions
    <3>. QED
      BY <3>1 DEF Unread, Found, Bound
  <2>. QED
    <3>1. ReadSoFar(Unread(list), Head(list), {})
      BY <2>2, <2>3, <2>4 DEF ReadSoFar
    <3>. HIDE DEF Seen
    <3>2. ReadSoFar(read[0], Head(list), Seen(0))
      BY <1>1, <2>1, <3>1
    <3>. QED
      BY <1>2, <3>2
<1>5. ASSUME NEW n \in 0..(len - 1), n \in Done
      PROVE  n + 1 \in Done
  <2>1. /\ n \in Nat /\ n + 1 \in 1..len /\ (n + 1) - 1 = n
        /\ Seen(n) \in SUBSET Speeds
    BY <1>2
  <2>2. Seen(n + 1) = Seen(n) \cup {list[n + 1]}
    <3>1. 1..(n + 1) = 1..n \cup {n + 1}
      BY <2>1
    <3>. QED
      BY <3>1
  <2>3. read[n + 1] = Read(read[n], list[n + 1])
    BY <1>1, <2>1
  <2>4. ReadSoFar(read[n], Head(list), Seen(n))
    BY <1>5
  <2>. HIDE DEF Seen
  <2>5. ReadSoFar(read[n + 1], Head(list), Seen(n + 1))
    BY <1>2, <2>1, <2>2, <2>3, <2>4, ReadKeeps
  <2>. QED
    BY <2>1, <2>5
<1>6. len \in Done
  <2>. HIDE DEF Done
  <2>1. 0..len \subseteq Done
    BY <1>2, <1>4, <1>5, RoundsInduction
  <2>. QED
    BY <1>2, <2>1
<1>. QED
  BY <1>1, <1>3, <1>6

----------------------------------------------------------------------------
(***************************************************************************)
(* The cached speeds and rates.                                            *)
(***************************************************************************)
SpeedNames == {"TransportPlaySpeeds", "MinimumRate", "MaximumRate"}

CacheTypes ==
    /\ TypeOK
    /\ DOMAIN request = Clients /\ DOMAIN view = Clients
    /\ \A c \in Clients : DOMAIN request[c].result \subseteq Names

\* What is cached of the speeds is what the loop over allowed made of them,
\* and the strings beside it are of the same round.
IsExtreme(p, extreme) ==
    p \in DOMAIN props =>
        /\ "TransportPlaySpeeds" \in DOMAIN props
        /\ props[p] = Hundredths(extreme) /\ Hundredths(extreme) # 0

SpeedsCached ==
    /\ ~synced => DOMAIN props \cap SpeedNames = {}
    /\ "TransportPlaySpeeds" \in DOMAIN props =>
          /\ speeds = RatesValues(allowed).speeds
          /\ props["TransportPlaySpeeds"] = RatesValues(allowed).published
    /\ IsExtreme("MinimumRate", RatesValues(allowed).min)
    /\ IsExtreme("MaximumRate", RatesValues(allowed).max)

\* The inductive invariant for TypeOK, RateAgrees and RatesAreExtremes.
RatesInv == CacheTypes /\ SpeedsCached /\ RateAgrees

LEMMA AllowedIs ==
    ASSUME TypeOK
    PROVE  allowed \in Seq(Speeds) /\ allowed # <<>>
  BY SpeedsAssumption DEF TypeOK, Speeds

LEMMA RatesInvImplies == RatesInv => TypeOK /\ RateAgrees /\ RatesAreExtremes
<1>. SUFFICES ASSUME RatesInv PROVE RatesAreExtremes
  BY DEF RatesInv, CacheTypes
<1>. DEFINE V == RatesValues(allowed)
<1>1. allowed \in Seq(Speeds) /\ allowed # <<>> /\ SpeedsCached
  BY AllowedIs DEF RatesInv, CacheTypes
<1>2. ReadSoFar(V, Head(allowed), Range(allowed))
  BY <1>1, RatesValuesAre
<1>3. Head(allowed) \in Range(allowed) /\ Range(allowed) \subseteq Speeds
  <2>1. 1 \in DOMAIN allowed /\ Head(allowed) = allowed[1]
    BY <1>1
  <2>. QED
    BY <1>1, <2>1 DEF Range
<1>. HIDE DEF V
<1>4. /\ V.speeds \in Seq(Speeds) /\ V.published \in Seq(Int)
      /\ Range(V.speeds) = Range(allowed) \cap Fractions
  BY <1>2 DEF ReadSoFar, Values, Kept
<1>5. /\ \A r \in Range(V.published) :
            \E s \in Range(allowed) \cap Fractions : r = Hundredths(s)
      /\ \A s \in Range(allowed) \cap Fractions : Hundredths(s) \in Range(V.published)
  <2>1. /\ DOMAIN V.speeds = 1..Len(V.speeds)
        /\ DOMAIN V.published = 1..Len(V.speeds)
        /\ \A i \in 1..Len(V.speeds) : V.published[i] = Hundredths(V.speeds[i])
    BY <1>2, <1>4 DEF ReadSoFar, Aligned
  <2>. QED
    BY <1>4, <2>1 DEF Range
<1>6. ASSUME NEW s \in {V.min, V.max}, Hundredths(s) # 0
      PROVE  s \in Range(allowed) \cap Fractions
  <2>1. s \in Range(allowed)
    BY <1>2, <1>3, <1>6 DEF ReadSoFar, Found
  <2>. QED
    BY <1>3, <1>6, <2>1, HundredthsType DEF Fractions
<1>7. ASSUME "MinimumRate" \in DOMAIN props
      PROVE  /\ props["MinimumRate"] \in Range(V.published)
             /\ \A r \in Range(V.published) : props["MinimumRate"] <= r
  <2>1. props["MinimumRate"] = Hundredths(V.min) /\ V.min \in Range(allowed) \cap Fractions
    BY <1>1, <1>6, <1>7 DEF SpeedsCached, IsExtreme, V
  <2>2. \A s \in Range(allowed) \cap Fractions : Hundredths(V.min) <= Hundredths(s)
    BY <1>2, <2>1, HundredthsMonotone DEF ReadSoFar, Bound
  <2>. QED
    BY <1>5, <2>1, <2>2
<1>8. ASSUME "MaximumRate" \in DOMAIN props
      PROVE  /\ props["MaximumRate"] \in Range(V.published)
             /\ \A r \in Range(V.published) : props["MaximumRate"] >= r
  <2>1. props["MaximumRate"] = Hundredths(V.max) /\ V.max \in Range(allowed) \cap Fractions
    BY <1>1, <1>6, <1>8 DEF SpeedsCached, IsExtreme, V
  <2>2. ASSUME NEW s \in Range(allowed) \cap Fractions
        PROVE  Hundredths(V.max) >= Hundredths(s)
    <3>1. Compare(V.max, s) >= 0 /\ V.max \in Speeds /\ s \in Speeds
      BY <1>2, <2>1 DEF ReadSoFar, Bound, Fractions
    <3>2. Compare(s, V.max) <= 0
      BY <3>1, CompareType, CompareReversed
    <3>. QED
      BY <2>1, <3>2, HundredthsMonotone, HundredthsRound
  <2>. QED
    BY <1>5, <2>1, <2>2
<1>9. "MinimumRate" \in DOMAIN props \/ "MaximumRate" \in DOMAIN props
         => props["TransportPlaySpeeds"] = V.published
  BY <1>1 DEF SpeedsCached, IsExtreme, V
<1>. QED
  BY <1>7, <1>8, <1>9 DEF RatesAreExtremes

LEMMA InitRatesInv == Init => RatesInv
<1>. SUFFICES ASSUME Init PROVE RatesInv
  OBVIOUS
<1>1. DOMAIN props = {} /\ rate = <<1, 1>> /\ allowed \in SpeedLists
  BY DEF Init, Nothing
<1>2. CacheTypes
  <2>1. speeds \in Seq(Int \X Nat) /\ rate \in Int \X Nat
    BY <1>1 DEF Init
  <2>2. /\ DOMAIN request = Clients /\ DOMAIN view = Clients
        /\ \A c \in Clients :
              /\ request[c].stage = "idle" /\ DOMAIN request[c].result = {}
              /\ DOMAIN view[c] = {}
    BY DEF Init, Idle, Nothing
  <2>3. synced = FALSE /\ maxVolume = 0 /\ following = {} /\ complete = {}
    BY DEF Init
  <2>. QED
    BY <1>1, <2>1, <2>2, <2>3 DEF CacheTypes, TypeOK
<1>3. SpeedsCached /\ RateAgrees
  BY <1>1 DEF SpeedsCached, IsExtreme, RateAgrees
<1>. QED
  BY <1>2, <1>3 DEF RatesInv

\* What prv_props_update makes of the speeds.
LEMMA SpeedPropsFacts ==
    ASSUME NEW list, list # <<>>
    PROVE  LET values == RatesValues(list)
               new == SpeedProps(list)
           IN  /\ DOMAIN new \subseteq SpeedNames
               /\ "TransportPlaySpeeds" \in DOMAIN new
               /\ new["TransportPlaySpeeds"] = values.published
               /\ "MinimumRate" \in DOMAIN new =>
                     /\ new["MinimumRate"] = Hundredths(values.min)
                     /\ Hundredths(values.min) # 0
               /\ "MaximumRate" \in DOMAIN new =>
                     /\ new["MaximumRate"] = Hundredths(values.max)
                     /\ Hundredths(values.max) # 0
  BY DEF SpeedProps, SpeedNames, Updated, Only, Nothing

LEMMA SpeedsStay ==
    ASSUME SpeedsCached, UNCHANGED <<allowed, synced, speeds>>,
           \A p \in SpeedNames :
               /\ p \in DOMAIN props' <=> p \in DOMAIN props
               /\ p \in DOMAIN props => props'[p] = props[p]
    PROVE  SpeedsCached'
  BY DEF SpeedsCached, IsExtreme, SpeedNames

LEMMA RateStays ==
    ASSUME RateAgrees, UNCHANGED <<allowed, rate>>,
           "Rate" \in DOMAIN props' <=> "Rate" \in DOMAIN props,
           "Rate" \in DOMAIN props => props'["Rate"] = props["Rate"]
    PROVE  RateAgrees'
  BY DEF RateAgrees

LEMMA SignalFacts ==
    ASSUME CacheTypes, NEW changes, Signal(changes), DOMAIN changes \subseteq Names
    PROVE  /\ DOMAIN props' = DOMAIN props \cup DOMAIN changes
           /\ DOMAIN props' \subseteq Names
           /\ \A p \in DOMAIN props \ DOMAIN changes : props'[p] = props[p]
           /\ \A p \in DOMAIN changes : props'[p] = changes[p]
           /\ DOMAIN view' = Clients
           /\ \A c \in Clients : DOMAIN view'[c] \subseteq Names
  BY DEF CacheTypes, TypeOK, Signal, Updated

\* Other changes than those of the speeds and the rate.
Others == Names \ (SpeedNames \cup {"Rate"})

\* What a signal leaves in order, by itself or with the initial query.
Synced ==
    /\ DOMAIN props' \subseteq Names
    /\ DOMAIN view' = Clients
    /\ \A c \in Clients : DOMAIN view'[c] \subseteq Names
    /\ synced' \in BOOLEAN /\ speeds' \in Seq(Speeds) /\ maxVolume' \in {0, MaxVolume}
    /\ SpeedsCached' /\ RateAgrees'

LEMMA SyncAndCaches ==
    ASSUME RatesInv, ~synced, NEW list \in SpeedsFound, NEW max \in MaximaFound,
           NEW changes, DOMAIN changes \subseteq Others,
           SyncAnd(list, max, changes), UNCHANGED <<allowed, rate>>
    PROVE  Synced
<1>. DEFINE all == Updated(Updated(SpeedProps(list), AllActions), changes)
            given == SpeedProps(list)
<1>1. /\ synced' = TRUE /\ speeds' = Valid(list) /\ maxVolume' = max
      /\ Signal(all)
  BY DEF SyncAnd
<1>2. CacheTypes /\ SpeedsCached /\ RateAgrees /\ DOMAIN props \cap SpeedNames = {}
  BY DEF RatesInv, SpeedsCached
<1>3. /\ list # <<>> => list = allowed
      /\ list = <<>> => DOMAIN given = {}
      /\ DOMAIN given \subseteq SpeedNames
  BY SpeedPropsFacts DEF SpeedsFound, SpeedProps, Nothing
<1>4. /\ DOMAIN all \cap (SpeedNames \cup {"Rate"}) = DOMAIN given
      /\ DOMAIN all \subseteq Names
      /\ \A p \in DOMAIN given : all[p] = given[p]
  <2>1. /\ DOMAIN AllActions = {"CanDo", "CanControl"}
        /\ DOMAIN AllActions \cap (SpeedNames \cup {"Rate"}) = {}
        /\ DOMAIN AllActions \subseteq Names /\ SpeedNames \subseteq Names
        /\ "Rate" \notin SpeedNames
    BY DEF AllActions, SpeedNames, Names
  <2>. QED
    BY <1>3, <2>1 DEF Updated, Others
<1>. HIDE DEF all
<1>5. /\ DOMAIN props' = DOMAIN props \cup DOMAIN all
      /\ DOMAIN props' \subseteq Names
      /\ \A p \in DOMAIN props \ DOMAIN all : props'[p] = props[p]
      /\ \A p \in DOMAIN all : props'[p] = all[p]
      /\ DOMAIN view' = Clients
      /\ \A c \in Clients : DOMAIN view'[c] \subseteq Names
  BY <1>1, <1>2, <1>4, SignalFacts
<1>. HIDE DEF given
<1>6. DOMAIN props' \cap SpeedNames = DOMAIN given
  BY <1>2, <1>3, <1>4, <1>5
<1>7. \A p \in DOMAIN given : props'[p] = given[p]
  BY <1>4, <1>5
<1>8. SpeedsCached'
  <2>1. CASE list = <<>>
    <3>1. DOMAIN props' \cap SpeedNames = {}
      BY <1>3, <1>6, <2>1
    <3>. QED
      BY <1>1, <3>1 DEF SpeedsCached, IsExtreme, SpeedNames
  <2>2. CASE list # <<>>
    <3>. DEFINE values == RatesValues(allowed)
    <3>1. /\ "TransportPlaySpeeds" \in DOMAIN given
          /\ given["TransportPlaySpeeds"] = values.published
          /\ "MinimumRate" \in DOMAIN given =>
                /\ given["MinimumRate"] = Hundredths(values.min)
                /\ Hundredths(values.min) # 0
          /\ "MaximumRate" \in DOMAIN given =>
                /\ given["MaximumRate"] = Hundredths(values.max)
                /\ Hundredths(values.max) # 0
      BY <1>3, <2>2, SpeedPropsFacts DEF given
    <3>2. speeds' = values.speeds
      BY <1>1, <1>3, <2>2 DEF Valid
    <3>. QED
      BY <1>1, <1>6, <1>7, <3>1, <3>2 DEF SpeedsCached, IsExtreme, SpeedNames
  <2>. QED
    BY <2>1, <2>2
<1>9. RateAgrees'
  <2>1. "Rate" \notin DOMAIN all
    BY <1>3, <1>4 DEF SpeedNames
  <2>. QED
    BY <1>2, <1>5, <2>1, RateStays
<1>10. speeds' \in Seq(Speeds) /\ maxVolume' \in {0, MaxVolume}
  <2>1. CASE list = <<>>
    BY <1>1, <2>1 DEF Valid, MaximaFound
  <2>2. CASE list # <<>>
    <3>1. ReadSoFar(RatesValues(allowed), Head(allowed), Range(allowed))
      BY <1>2, AllowedIs, RatesValuesAre DEF CacheTypes
    <3>. QED
      BY <1>1, <1>3, <2>2, <3>1 DEF Valid, ReadSoFar, Values, MaximaFound
  <2>. QED
    BY <2>1, <2>2
<1>. QED
  BY <1>1, <1>5, <1>8, <1>9, <1>10 DEF Synced

LEMMA SignalCaches ==
    ASSUME RatesInv, NEW changes, DOMAIN changes \subseteq Others, Signal(changes),
           UNCHANGED <<allowed, deviceVars>>
    PROVE  Synced
<1>1. /\ CacheTypes /\ SpeedsCached /\ RateAgrees
      /\ DOMAIN changes \subseteq Names
      /\ DOMAIN changes \cap (SpeedNames \cup {"Rate"}) = {}
  BY DEF RatesInv, Others
<1>2. SpeedsCached' /\ RateAgrees'
  BY <1>1, SignalFacts, SpeedsStay, RateStays DEF deviceVars
<1>. QED
  BY <1>1, <1>2, SignalFacts DEF Synced, deviceVars, CacheTypes, TypeOK, Speeds

LEMMA SyncOnceCaches ==
    ASSUME RatesInv, SyncOnce, UNCHANGED <<allowed, rate>>
    PROVE  Synced
<1>1. CASE UNCHANGED <<props, synced, speeds, maxVolume, view>>
  <2>1. SpeedsCached' /\ RateAgrees'
    BY <1>1, SpeedsStay, RateStays DEF RatesInv
  <2>. QED
    BY <1>1, <2>1 DEF Synced, RatesInv, CacheTypes, TypeOK, Speeds
<1>2. CASE /\ ~synced
           /\ \E list \in SpeedsFound, max \in MaximaFound :
                 SyncAnd(list, max, Nothing)
  <2>1. DOMAIN Nothing \subseteq Others
    BY DEF Nothing
  <2>. QED
    BY <1>2, <2>1, SyncAndCaches
<1>. QED
  BY <1>1, <1>2 DEF SyncOnce

LEMMA VolumeChangedCaches ==
    ASSUME RatesInv, NEW volume, VolumeChanged(volume), UNCHANGED <<allowed, rate>>
    PROVE  Synced
<1>1. \A max : DOMAIN VolumeProps(volume, max) \subseteq Others
  BY DEF VolumeProps, Only, Nothing, Others, Names, SpeedNames
<1>2. CASE synced
  BY <1>1, <1>2, SignalCaches DEF VolumeChanged, deviceVars
<1>3. CASE ~synced
  BY <1>1, <1>3, SyncAndCaches DEF VolumeChanged
<1>. QED
  BY <1>2, <1>3

\* The requests and the listeners keep their types as well.
ClientTypes ==
    /\ DOMAIN request = Clients
    /\ \A c \in Clients : /\ request[c].stage \in {"idle", "asking", "answered"}
                          /\ DOMAIN request[c].result \subseteq Names
    /\ following \subseteq Clients /\ complete \subseteq Clients

LEMMA ClientsTyped == CacheTypes => ClientTypes
  BY DEF CacheTypes, TypeOK, ClientTypes

LEMMA SyncedPreserves ==
    ASSUME RatesInv, Synced, ClientTypes', UNCHANGED <<allowed, rate>>
    PROVE  RatesInv'
<1>1. TypeOK'
  BY DEF RatesInv, CacheTypes, TypeOK, Synced, ClientTypes, Speeds
<1>. QED
  BY <1>1 DEF RatesInv, CacheTypes, Synced, ClientTypes

LEMMA RequestTypes ==
    ASSUME CacheTypes, NEW c \in Clients, NEW all, NEW result,
           DOMAIN result \subseteq Names,
           UNCHANGED <<following, complete>>,
           Answer(c, all, result) \/ Ask(c, all)
    PROVE  ClientTypes'
<1>1. ClientTypes
  BY ClientsTyped
<1>2. /\ DOMAIN request' = Clients
      /\ request'[c].stage \in {"asking", "answered"}
      /\ DOMAIN request'[c].result \subseteq Names
      /\ \A d \in Clients \ {c} : request'[d] = request[d]
  BY <1>1 DEF ClientTypes, Answer, Ask, Nothing
<1>. QED
  BY <1>1, <1>2 DEF ClientTypes

\* An event of AVTransport changes the speed and the cached Rate together.
LEMMA RateOfEvents ==
    ASSUME RatesInv, NEW e \in Events, e.speed \subseteq Range(allowed),
           Signal(EventProps(e)), UNCHANGED allowed,
           rate' = IF e.speed = {} THEN rate ELSE The(e.speed)
    PROVE  /\ RateAgrees' /\ rate' \in Speeds
           /\ DOMAIN EventProps(e) \subseteq Others \cup {"Rate"}
<1>. DEFINE changes == EventProps(e)
<1>1. CacheTypes /\ RateAgrees /\ rate \in Speeds
  BY DEF RatesInv, CacheTypes, TypeOK, Speeds
<1>2. DOMAIN changes \subseteq Others \cup {"Rate"}
  BY DEF EventProps, MetadataProps, Updated, Only, Nothing, Others, Names, SpeedNames
<1>3. /\ "Rate" \in DOMAIN changes <=> e.speed # {}
      /\ "Rate" \in DOMAIN changes => changes["Rate"] = ReportedRate(The(e.speed))
  BY DEF EventProps, MetadataProps, Updated, Only, Nothing
<1>. HIDE DEF changes
<1>4. /\ "Rate" \in DOMAIN props' <=> "Rate" \in DOMAIN props \/ e.speed # {}
      /\ e.speed # {} => props'["Rate"] = ReportedRate(The(e.speed))
      /\ e.speed = {} /\ "Rate" \in DOMAIN props => props'["Rate"] = props["Rate"]
  BY <1>3 DEF Signal, Updated, changes
<1>5. CASE e.speed = {}
  <2>1. rate' = rate
    BY <1>5
  <2>. QED
    BY <1>1, <1>2, <1>4, <1>5, <2>1, RateStays DEF changes
<1>6. CASE e.speed # {}
  <2>1. rate' \in e.speed
    BY <1>6 DEF The
  <2>2. rate' \in Range(allowed) /\ rate' \in Speeds
    <3>1. allowed \in Seq(Speeds)
      BY <1>1, AllowedIs DEF CacheTypes
    <3>2. Range(allowed) \subseteq Speeds
      BY <3>1 DEF Range
    <3>. QED
      BY <2>1, <3>2
  <2>. DEFINE b == ReportedRate(rate')
  <2>3. props'["Rate"] = b
    BY <1>4, <1>6
  <2>4. b[1] \in Int /\ b[2] \in Nat
    BY <2>2 DEF ReportedRate, Speeds
  <2>5. b[1] * b[2] - b[1] * b[2] = 0 /\ b[2] * b[2] \in Nat
    BY <2>4
  <2>. HIDE DEF b
  <2>6. RateAgrees'
    <3>1. /\ 200 * (b[1] * b[2] - b[1] * b[2]) <= b[2] * b[2]
          /\ -200 * (b[1] * b[2] - b[1] * b[2]) <= b[2] * b[2]
      BY <2>5
    <3>. QED
      BY <2>2, <2>3, <3>1 DEF RateAgrees, b
  <2>. QED
    BY <1>2, <2>2, <2>6 DEF changes
<1>. QED
  BY <1>5, <1>6

LEMMA LastChangeRates ==
    ASSUME RatesInv, LastChange
    PROVE  RatesInv'
<1>1. PICK e \in Events :
         /\ e.speed \subseteq Range(allowed)
         /\ Signal(EventProps(e))
         /\ rate' = IF e.speed = {} THEN rate ELSE The(e.speed)
  BY DEF LastChange
<1>2. /\ RateAgrees' /\ rate' \in Speeds
      /\ DOMAIN EventProps(e) \subseteq Others \cup {"Rate"}
  BY <1>1, RateOfEvents DEF LastChange
<1>3. CacheTypes /\ SpeedsCached
  BY DEF RatesInv
<1>4. /\ DOMAIN EventProps(e) \subseteq Names
      /\ DOMAIN EventProps(e) \cap SpeedNames = {}
  BY <1>2 DEF Others, Names, SpeedNames
<1>5. SpeedsCached'
  BY <1>1, <1>3, <1>4, SignalFacts, SpeedsStay DEF LastChange
<1>6. CacheTypes'
  <2>1. /\ DOMAIN props' \subseteq Names /\ DOMAIN view' = Clients
        /\ \A c \in Clients : DOMAIN view'[c] \subseteq Names
    BY <1>1, <1>3, <1>4, SignalFacts
  <2>2. UNCHANGED <<allowed, synced, speeds, maxVolume, request, following, complete>>
    BY DEF LastChange, clientVars
  <2>. QED
    BY <1>2, <1>3, <2>1, <2>2 DEF CacheTypes, TypeOK, Speeds
<1>. QED
  BY <1>2, <1>5, <1>6 DEF RatesInv

LEMMA RcLastChangeRates ==
    ASSUME RatesInv, RcLastChange
    PROVE  RatesInv'
<1>1. PICK volume : VolumeChanged(volume)
  BY DEF RcLastChange
<1>2. UNCHANGED <<allowed, rate, clientVars>>
  BY DEF RcLastChange
<1>3. ClientTypes'
  BY <1>2, ClientsTyped DEF RatesInv, ClientTypes, clientVars
<1>. QED
  BY <1>1, <1>2, <1>3, VolumeChangedCaches, SyncedPreserves

LEMMA GetRates ==
    ASSUME RatesInv, NEW c \in Clients, NEW p \in Names, Get(c, p) \/ GetAll(c)
    PROVE  RatesInv'
<1>1. SyncOnce /\ UNCHANGED <<allowed, rate, following, complete>>
  BY DEF Get, GetAll
<1>2. Synced
  BY <1>1, SyncOnceCaches
<1>3. ClientTypes'
  <2>1. CacheTypes
    BY DEF RatesInv
  <2>2. CASE GetAll(c)
    <3>1. Ask(c, TRUE) /\ DOMAIN Nothing \subseteq Names
      BY <2>2 DEF GetAll, Nothing
    <3>. QED
      BY <1>1, <2>1, <3>1, RequestTypes
  <2>3. CASE Get(c, p)
    <3>. DEFINE result == IF p \in DOMAIN props' THEN Only(p, props'[p]) ELSE Nothing
    <3>1. DOMAIN result \subseteq Names /\ Answer(c, FALSE, result)
      BY <2>3 DEF Get, Only, Nothing
    <3>. QED
      BY <1>1, <2>1, <3>1, RequestTypes
  <2>. QED
    BY <2>2, <2>3
<1>. QED
  BY <1>1, <1>2, <1>3, SyncedPreserves

LEMMA PositionRates ==
    ASSUME RatesInv, NEW c \in Clients,
           GetPosition(c) \/ PositionArrives(c) \/ PositionFails(c)
    PROVE  RatesInv'
<1>1. UNCHANGED <<allowed, deviceVars, following, complete>>
  BY DEF GetPosition, PositionArrives, PositionFails
<1>2. CASE PositionArrives(c)
  <2>1. PICK position \in Positions : Signal(Only("Position", position))
    BY <1>2 DEF PositionArrives
  <2>2. DOMAIN Only("Position", position) \subseteq Others
    BY DEF Only, Others, Names, SpeedNames
  <2>3. Synced
    BY <1>1, <2>1, <2>2, SignalCaches
  <2>4. ClientTypes'
    <3>1. CacheTypes /\ DOMAIN props' \subseteq Names
      BY <2>3 DEF RatesInv, Synced
    <3>2. PICK result : /\ DOMAIN result \subseteq Names
                        /\ Answer(c, request[c].all, result)
      BY <1>2, <3>1 DEF PositionArrives, Only, Names
    <3>. QED
      BY <1>1, <3>1, <3>2, RequestTypes
  <2>. QED
    BY <1>1, <2>3, <2>4, SyncedPreserves DEF deviceVars
<1>3. CASE GetPosition(c) \/ PositionFails(c)
  <2>1. UNCHANGED <<props, view>>
    BY <1>3 DEF GetPosition, PositionFails
  <2>2. Synced
    <3>1. SpeedsCached' /\ RateAgrees'
      BY <1>1, <2>1, SpeedsStay, RateStays DEF RatesInv, deviceVars
    <3>. QED
      BY <1>1, <2>1, <3>1 DEF Synced, RatesInv, CacheTypes, TypeOK, Speeds, deviceVars
  <2>3. ClientTypes'
    <3>1. DOMAIN Nothing \subseteq Names /\ CacheTypes
      BY DEF Nothing, RatesInv
    <3>2. Answer(c, request[c].all, Nothing) \/ Ask(c, FALSE)
      BY <1>3 DEF GetPosition, PositionFails
    <3>. QED
      BY <1>1, <3>1, <3>2, RequestTypes
  <2>. QED
    BY <1>1, <2>2, <2>3, SyncedPreserves DEF deviceVars
<1>. QED
  BY <1>2, <1>3

LEMMA ClientRates ==
    ASSUME RatesInv, NEW c \in Clients, Follow(c) \/ SendAnswer(c)
    PROVE  RatesInv'
<1>1. UNCHANGED <<allowed, props, deviceVars>>
  BY DEF Follow, SendAnswer
<1>2. SpeedsCached' /\ RateAgrees'
  BY <1>1, SpeedsStay, RateStays DEF RatesInv, deviceVars
<1>3. /\ DOMAIN view' = Clients
      /\ \A d \in Clients : DOMAIN view'[d] \subseteq Names
  BY DEF Follow, SendAnswer, RatesInv, CacheTypes, TypeOK, Updated
<1>4. ClientTypes'
  <2>1. ClientTypes
    BY ClientsTyped DEF RatesInv
  <2>2. CASE Follow(c)
    BY <2>1, <2>2 DEF Follow, ClientTypes
  <2>3. CASE SendAnswer(c)
    <3>1. following' = following /\ complete' \subseteq complete \cup {c}
      BY <2>3 DEF SendAnswer
    <3>2. /\ DOMAIN request' = Clients
          /\ request'[c].stage = "idle" /\ DOMAIN request'[c].result = {}
          /\ \A d \in Clients \ {c} : request'[d] = request[d]
      BY <2>1, <2>3 DEF SendAnswer, ClientTypes, Idle, Nothing
    <3>. QED
      BY <2>1, <3>1, <3>2 DEF ClientTypes
  <2>. QED
    BY <2>2, <2>3
<1>. QED
  BY <1>1, <1>2, <1>3, <1>4, SyncedPreserves
     DEF Synced, RatesInv, CacheTypes, TypeOK, Speeds, deviceVars

\* prv_set_rate takes the string and the number at the same place.
LEMMA SetRateRates ==
    ASSUME RatesInv, NEW asked \in AskedRates, SetRate(asked)
    PROVE  RatesInv'
<1>. DEFINE V == RatesValues(allowed)
<1>1. /\ CacheTypes /\ SpeedsCached /\ "TransportPlaySpeeds" \in DOMAIN props
      /\ UNCHANGED <<allowed, synced, speeds, maxVolume, clientVars, view>>
  BY DEF RatesInv, SetRate
<1>2. PICK i \in Matching(asked) :
         /\ rate' = SpeedAt(i)
         /\ props' = Updated(props,
                        Only("Rate", <<props["TransportPlaySpeeds"][i], 100>>))
  BY DEF SetRate
<1>3. speeds = V.speeds /\ props["TransportPlaySpeeds"] = V.published
  BY <1>1 DEF SpeedsCached
<1>4. ReadSoFar(V, Head(allowed), Range(allowed))
  BY <1>1, AllowedIs, RatesValuesAre DEF CacheTypes
<1>. HIDE DEF V
<1>. DEFINE s == V.speeds[i]
<1>5. /\ i \in 1..Len(V.speeds)
      /\ s \in Range(allowed) \cap Fractions
      /\ V.published[i] = Hundredths(s)
  <2>1. V.speeds \in Seq(Speeds) /\ V.published \in Seq(Int)
    BY <1>4 DEF ReadSoFar, Values
  <2>2. i \in 1..Len(V.speeds)
    BY <1>3, <1>4, <2>1 DEF Matching, ReadSoFar, Aligned
  <2>3. s \in Range(V.speeds)
    BY <2>1, <2>2 DEF Range
  <2>. QED
    BY <1>4, <2>2, <2>3 DEF ReadSoFar, Aligned, Kept
<1>6. rate' = s /\ SpeedsCached'
  <2>1. /\ rate' = s
        /\ \A p \in SpeedNames : p \in DOMAIN props' <=> p \in DOMAIN props
        /\ \A p \in SpeedNames : p \in DOMAIN props => props'[p] = props[p]
    BY <1>2, <1>3 DEF SpeedAt, Updated, Only, SpeedNames
  <2>. QED
    BY <1>1, <2>1, SpeedsStay
<1>. HIDE DEF s
<1>7. props'["Rate"] = <<Hundredths(s), 100>>
  BY <1>2, <1>3, <1>5 DEF Updated, Only
<1>8. RateAgrees'
  <2>1. /\ s[1] \in Int /\ s[2] \in Nat \ {0} /\ ReportedRate(s) = s
        /\ Hundredths(s) \in Int
        /\ 2 * (Hundredths(s) * s[2]) <= 200 * s[1] + s[2]
        /\ 200 * s[1] - s[2] <= 2 * (Hundredths(s) * s[2])
    BY <1>5, FractionsAre, HundredthsRound DEF ReportedRate
  <2>2. /\ 200 * (Hundredths(s) * s[2] - s[1] * 100) <= 100 * s[2]
        /\ -200 * (Hundredths(s) * s[2] - s[1] * 100) <= 100 * s[2]
    BY <2>1
  <2>. QED
    BY <1>1, <1>5, <1>6, <1>7, <2>1, <2>2 DEF RateAgrees
<1>9. CacheTypes'
  <2>1. DOMAIN props' \subseteq Names
    BY <1>1, <1>2 DEF Updated, Only, Names, CacheTypes, TypeOK
  <2>2. rate' \in Int \X Nat
    BY <1>5, <1>6 DEF Fractions, Speeds
  <2>. QED
    BY <1>1, <2>1, <2>2 DEF CacheTypes, TypeOK, clientVars
<1>. QED
  BY <1>6, <1>8, <1>9 DEF RatesInv

LEMMA NextRatesInv == RatesInv /\ [Next]_vars => RatesInv'
<1>. SUFFICES ASSUME RatesInv, [Next]_vars PROVE RatesInv'
  OBVIOUS
<1>1. CASE LastChange
  BY <1>1, LastChangeRates
<1>2. CASE RcLastChange
  BY <1>2, RcLastChangeRates
<1>3. ASSUME NEW asked \in AskedRates, SetRate(asked) PROVE RatesInv'
  BY <1>3, SetRateRates
<1>4. ASSUME NEW c \in Clients, Follow(c) \/ SendAnswer(c) PROVE RatesInv'
  BY <1>4, ClientRates
<1>5. ASSUME NEW c \in Clients, GetAll(c) PROVE RatesInv'
  <2>1. "Rate" \in Names
    BY DEF Names
  <2>. QED
    BY <1>5, <2>1, GetRates
<1>6. ASSUME NEW c \in Clients, NEW p \in Names, Get(c, p) PROVE RatesInv'
  BY <1>6, GetRates
<1>7. ASSUME NEW c \in Clients,
             GetPosition(c) \/ PositionArrives(c) \/ PositionFails(c)
      PROVE  RatesInv'
  BY <1>7, PositionRates
<1>8. CASE UNCHANGED vars
  <2>1. SpeedsCached' /\ RateAgrees'
    BY <1>8, SpeedsStay, RateStays DEF RatesInv, vars, deviceVars
  <2>. QED
    BY <1>8, <2>1 DEF RatesInv, CacheTypes, TypeOK, vars, deviceVars, clientVars
<1>. QED
  BY <1>1, <1>2, <1>3, <1>4, <1>5, <1>6, <1>7, <1>8 DEF Next

LEMMA SpecRatesInv == Spec => []RatesInv
  BY InitRatesInv, NextRatesInv, PTL DEF Spec

\* Every variable keeps its type: the names of the properties in the cache, in
\* the answers and with the clients, and what prv_props_update leaves.
THEOREM SpecTypeOK == Spec => []TypeOK
  BY SpecRatesInv, RatesInvImplies, PTL

\* The speed that the next Play sends is an allowed one or 1, and the cached
\* Rate up to rounding, for any list of speeds: what prv_get_rates_values
\* publishes and the strings it keeps stay side by side.
THEOREM SpecRateAgrees == Spec => []RateAgrees
  BY SpecRatesInv, RatesInvImplies, PTL

\* MinimumRate and MaximumRate bound the published speeds and are among them,
\* for any list, its first speed valid or not (prv_get_rates_values).
THEOREM SpecRatesAreExtremes == Spec => []RatesAreExtremes
  BY SpecRatesInv, RatesInvImplies, PTL

=============================================================================
