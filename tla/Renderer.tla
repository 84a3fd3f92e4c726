------------------------------ MODULE Renderer ------------------------------
(***************************************************************************)
(* One renderer as renderer-service-upnp sees it: found and lost on each   *)
(* network interface (upnp.c), constructed step by step on a task queue    *)
(* (rsu_device_new of device.c; the queue itself is that of                *)
(* TaskProcessor), and listened to through the services of its preferred   *)
(* context (the subscription part of device.c).  Renderers share no state  *)
(* that these handlers read, so one of them stands for all.                *)
(*                                                                         *)
(* Each action is one dispatch of the main loop.                           *)
(***************************************************************************)
EXTENDS Naturals, Sequences, FiniteSets, SequencesExt

CONSTANTS
    Ips,              \* addresses of the interfaces a renderer is seen on
    Loopback,         \* those that rsu_device_get_context prefers
    Services,         \* services of the renderer, out of "cm", "av" and "rc"
    NoIp,             \* the context a construction runs on is gone
    PromptIdles,      \* chain-end idles run before the next network event
                      \* or timer
    LossesHappen,     \* GUPnP may report that a subscription was lost
    DeclareMayFail,   \* g_dbus_connection_register_object may fail
    ProxyMayDie,      \* a context may be lost while others remain and the
                      \* construction needs its proxy
    MaxSubscriptions  \* bound: the network is quiet once a context has been
                      \* subscribed to this often

ASSUME RendererAssumption ==
    /\ IsFiniteSet(Ips) /\ Loopback \subseteq Ips /\ NoIp \notin Ips
    /\ Services \subseteq {"cm", "av", "rc"}
    /\ PromptIdles \in BOOLEAN /\ LossesHappen \in BOOLEAN
    /\ DeclareMayFail \in BOOLEAN /\ ProxyMayDie \in BOOLEAN
    /\ MaxSubscriptions \in Nat

\* The service proxies of the contexts.
Proxies == Ips \X Services

VARIABLES
    present,    \* interfaces on which GUPnP has reported the renderer
    phase,      \* where the renderer is known, see Phases
    via,        \* the context whose proxy the construction uses
    contexts,   \* device->contexts
    subscribed, \* proxies whose subscribed_cm, _av or _rc flag is set
    retry,      \* proxies whose timeout_id_cm, _av or _rc is set
    live,       \* proxies that GUPnP is subscribed to
    notify,     \* number of notify callbacks registered with each proxy
    handlers,   \* number of times each context was subscribed to: as many
                \* subscription-lost handlers of each service are connected
    timer,      \* device->timeout_id
    shutdown    \* "no", "quitting" (processor->quitting is set), or
                \* "unsubscribed" (prv_context_quit_cb has run)

listenVars == <<subscribed, retry, live, notify, handlers>>
vars == <<present, phase, via, contexts, listenVars, timer, shutdown>>

(***************************************************************************)
(* "unknown": in neither map of upnp.c; "known": in server_udn_map, and    *)
(* exposed on D-Bus.  The others are in server_uc_map, with a queue that   *)
(* waits to start a step ("info", "subscribe", "declare"), waits for       *)
(* GetProtocolInfo ("calling", or "lost" when no answer can come), failed  *)
(* to declare the object ("stuck"), or was not started again because its   *)
(* task was the last one of a process that quits ("halted"); or with a     *)
(* queue that is gone and a chain-end idle still to run ("ending",         *)
(* "cancelled").                                                           *)
(***************************************************************************)
Queued == {"info", "calling", "lost", "subscribe", "declare", "stuck",
           "halted"}
ChainEnding == {"ending", "cancelled"}
Stopped == {"crashed", "deleted"}
Phases == {"unknown", "known"} \cup Queued \cup ChainEnding \cup Stopped

Init ==
    /\ present = {} /\ phase = "unknown" /\ via = NoIp /\ contexts = <<>>
    /\ subscribed = {} /\ retry = {} /\ live = {}
    /\ notify = [p \in Proxies |-> 0]
    /\ handlers = [i \in Ips |-> 0]
    /\ timer = FALSE /\ shutdown = "no"

----------------------------------------------------------------------------
(***************************************************************************)
(* Contexts.                                                               *)
(***************************************************************************)
LoopbackAt(cs) == {n \in DOMAIN cs : cs[n] \in Loopback}

\* rsu_device_get_context: the first loopback context, or the first one.
Preferred(cs) ==
    IF LoopbackAt(cs) = {} THEN cs[1]
    ELSE cs[CHOOSE n \in LoopbackAt(cs) : \A k \in LoopbackAt(cs) : n <= k]

\* g_ptr_array_remove_index of the context of interface i.
Without(cs, i) == RemoveAt(cs, CHOOSE n \in DOMAIN cs : cs[n] = i)

\* prv_device_get_subscribed_context, as a set: the first context that has a
\* flag set, if there is one.
SubscribedContext(cs) ==
    LET at == {n \in DOMAIN cs : \E s \in Services : <<cs[n], s>> \in subscribed}
    IN  {cs[n] : n \in {m \in at : \A k \in at : m <= k}}

(***************************************************************************)
(* Subscriptions.  prv_rsu_context_unsubscribe on the contexts off, then   *)
(* rsu_device_subscribe_to_service_changes when the preferred context is   *)
(* the one in on.  Unsubscribing touches a service only if its flag is     *)
(* set, but removes every retry timer.                                     *)
(***************************************************************************)
\* Mutant: the flags are not looked at.
DroppedAnyway(off) == off \X Services

\* What prv_rsu_context_unsubscribe ends on the contexts off.
Dropped(off) == {p \in subscribed : p[1] \in off}

Switch(off, on) ==
    LET added == on \X Services
    IN  /\ subscribed' = (subscribed \ Dropped(off)) \cup added
        /\ live' = (live \ Dropped(off)) \cup added
        /\ notify' = [p \in Proxies |->
                        (notify[p] + IF p \in added THEN 1 ELSE 0)
                        - IF p \in Dropped(off) THEN 1 ELSE 0]
        /\ handlers' = [i \in Ips |-> handlers[i] + IF i \in on THEN 1 ELSE 0]
        /\ retry' = {p \in retry : p[1] \notin off}

\* Mutant: the context listened to so far is not unsubscribed.
SubscribeAnother(cs) ==
    IF SubscribedContext(cs) = {Preferred(cs)} THEN UNCHANGED listenVars
    ELSE Switch({}, {Preferred(cs)})

\* prv_device_subscribe_context
SubscribeContext(cs) ==
    IF SubscribedContext(cs) = {Preferred(cs)} THEN UNCHANGED listenVars
    ELSE Switch(SubscribedContext(cs), {Preferred(cs)})

\* prv_rsu_context_delete on the contexts of the interfaces I: their proxies
\* go, and all that hangs on them.
DeleteContexts(I) ==
    /\ subscribed' = {p \in subscribed : p[1] \notin I}
    /\ retry' = {p \in retry : p[1] \notin I}
    /\ live' = {p \in live : p[1] \notin I}
    /\ notify' = [p \in Proxies |-> IF p[1] \in I THEN 0 ELSE notify[p]]
    /\ handlers' = [i \in Ips |-> IF i \in I THEN 0 ELSE handlers[i]]

\* Mutant: the resubscription timer is not removed.
DeleteContextsOnly ==
    /\ contexts' = <<>>
    /\ DeleteContexts(Ips)
    /\ UNCHANGED timer

\* rsu_device_delete
DeleteDevice ==
    /\ contexts' = <<>>
    /\ DeleteContexts(Ips)
    /\ timer' = FALSE

----------------------------------------------------------------------------
(***************************************************************************)
(* Network events.                                                         *)
(***************************************************************************)
Running == phase \notin Stopped

Quiet == PromptIdles => phase \notin ChainEnding

Bounded == \A i \in Ips : handlers[i] < MaxSubscriptions

\* Mutant: a context found during the construction is ignored.
AppendIfKnown(i) ==
    IF phase = "known"
    THEN contexts' = Append(contexts, i) /\ SubscribeContext(contexts')
    ELSE UNCHANGED <<contexts, listenVars>>

\* rsu_device_append_new_context
AppendContext(i) ==
    /\ contexts' = Append(contexts, i)
    /\ SubscribeContext(contexts')

\* prv_server_available_cb
Available(i) ==
    /\ Running /\ Quiet /\ Bounded
    /\ i \notin present
    /\ present' = present \cup {i}
    /\ \/ /\ phase = "unknown"
          /\ phase' = "info"
          /\ via' = i
          /\ contexts' = <<i>>
          /\ UNCHANGED listenVars
       \/ /\ phase # "unknown"
          /\ i \notin Range(contexts)
          /\ AppendContext(i)
          /\ UNCHANGED <<phase, via>>
    /\ UNCHANGED <<timer, shutdown>>

\* Mutant: the timer is armed for known renderers only.
ResubscribeIfKnown(i) ==
    phase = "known" /\ \E s \in {"av", "cm"} : <<i, s>> \in subscribed

\* Losing context i arms the resubscription timer.
Resubscribe(i) == \E s \in {"av", "cm"} : <<i, s>> \in subscribed

\* What follows the completion of a task when phase "to" would: a process
\* that quits goes no further once its last task has completed.
Completed(to) == IF shutdown = "no" THEN {to} ELSE {to, "halted"}

\* Mutant: a task that waits for its action is left to itself.
CancelledUnlessRunning == IF phase = "calling" THEN {"stuck"} ELSE {"cancelled"}

\* rsu_task_processor_cancel_queue: a failed step is ignored, a task in
\* action completes, any other queue goes.  One that is gone already was
\* freed with its key.
Cancelled ==
    CASE phase = "stuck" -> {"stuck"}
      [] phase \in {"calling", "lost"} -> Completed("cancelled")
      [] phase \in Queued \ {"stuck", "calling", "lost"} -> {"cancelled"}
      [] phase \in ChainEnding -> {"crashed"}

\* The context i is removed from the array, and others remain.
LoseContext(i) ==
    /\ contexts' = Without(contexts, i)
    /\ contexts' # <<>>
    /\ ~ProxyMayDie => ~(via = i /\ phase \in {"info", "calling"})
    /\ phase' = IF phase = "calling" /\ via = i THEN "lost" ELSE phase
    /\ timer' = (timer \/ Resubscribe(i))
    /\ DeleteContexts({i})

\* The context i was the last one: the device is deleted or its construction
\* cancelled.
LoseLastContext(i) ==
    /\ contexts = <<i>>
    /\ \/ /\ phase = "known"
          /\ phase' = "unknown"
          /\ DeleteDevice
       \/ /\ phase # "known"
          /\ phase' \in Cancelled
          /\ contexts' = <<>>
          /\ DeleteContexts({i})
          /\ UNCHANGED timer

\* Mutant: a renderer under construction keeps the context.
UnavailableIfKnown(i) ==
    /\ Running /\ Quiet /\ Bounded
    /\ i \in present
    /\ present' = present \ {i}
    /\ \/ /\ phase = "known" /\ i \in Range(contexts)
          /\ LoseContext(i) \/ LoseLastContext(i)
          /\ via' = IF via = i THEN NoIp ELSE via
       \/ /\ phase # "known" \/ i \notin Range(contexts)
          /\ UNCHANGED <<phase, via, contexts, listenVars, timer>>
    /\ UNCHANGED shutdown

\* prv_server_unavailable_cb
Unavailable(i) ==
    /\ Running /\ Quiet /\ Bounded
    /\ i \in present
    /\ present' = present \ {i}
    /\ \/ /\ phase # "unknown" /\ i \in Range(contexts)
          /\ LoseContext(i) \/ LoseLastContext(i)
          /\ via' = IF via = i THEN NoIp ELSE via
       \/ /\ phase = "unknown" \/ i \notin Range(contexts)
          /\ UNCHANGED <<phase, via, contexts, listenVars, timer>>
    /\ UNCHANGED shutdown

----------------------------------------------------------------------------
(***************************************************************************)
(* The construction.                                                       *)
(***************************************************************************)
Step(from, to) ==
    /\ phase = from
    /\ phase' \in to
    /\ UNCHANGED <<present, via, timer, shutdown>>

\* prv_get_protocol_info starts its action, unless there is no proxy.
BeginProtocolInfo ==
    /\ Step("info", IF via # NoIp /\ "cm" \in Services
                    THEN {"calling"} ELSE Completed("subscribe"))
    /\ UNCHANGED <<contexts, listenVars>>

\* prv_get_protocol_info_cb: success or failure, the construction goes on.
GetProtocolInfoCallback ==
    /\ Step("calling", Completed("subscribe"))
    /\ UNCHANGED <<contexts, listenVars>>

\* prv_subscribe
Subscribe ==
    /\ Step("subscribe", Completed("declare"))
    /\ SubscribeContext(contexts)
    /\ UNCHANGED contexts

\* prv_declare
Declare ==
    /\ Step("declare", Completed("ending")
                       \cup IF DeclareMayFail THEN {"stuck"} ELSE {})
    /\ UNCHANGED <<contexts, listenVars>>

\* prv_device_chain_end
ChainEnd ==
    \/ /\ Step("ending", {"known"})
       /\ UNCHANGED <<contexts, listenVars>>
    \/ /\ phase = "cancelled"
       /\ phase' = "unknown"
       /\ DeleteDevice
       /\ UNCHANGED <<present, via, shutdown>>

----------------------------------------------------------------------------
(***************************************************************************)
(* Lost subscriptions.                                                     *)
(***************************************************************************)
\* prv_subscribe_to_service_changes, one second after the context that was
\* listened to went.  Without contexts the code reads one that was freed.
ResubscribeTimer ==
    /\ Running /\ Quiet
    /\ timer
    /\ timer' = FALSE
    /\ \/ /\ contexts # <<>>
          /\ Switch({}, {Preferred(contexts)})
          /\ UNCHANGED phase
       \/ /\ contexts = <<>>
          /\ phase' \in {phase, "crashed"}
          /\ UNCHANGED listenVars
    /\ UNCHANGED <<present, via, contexts, shutdown>>

(***************************************************************************)
(* The n subscription-lost handlers of proxy p run one after the other.    *)
(* One that finds no retry timer subscribes again and arms it; one that    *)
(* finds it removes it and gives up: the notify callback and the flag go.  *)
(***************************************************************************)
Odd(n) == n % 2 = 1

GiveUps(p, n) == IF p \in retry THEN (n + 1) \div 2 ELSE n \div 2

Armed(p, n) == IF Odd(n) THEN p \notin retry ELSE p \in retry

AtMost(a, b) == IF a < b THEN a ELSE b

\* Mutant: the flag survives giving up.
HandledKeepingFlag(P, n, lost) ==
    /\ subscribed' = subscribed
    /\ retry' = {p \in Proxies : IF p \in P THEN Armed(p, n) ELSE p \in retry}
    /\ live' = (live \ lost) \cup {p \in P : n > GiveUps(p, n)}
    /\ notify' = [p \in Proxies |->
                    notify[p] - IF p \in P THEN AtMost(GiveUps(p, n), notify[p])
                                ELSE 0]
    /\ UNCHANGED handlers

Handled(P, n, lost) ==
    /\ subscribed' = subscribed \ {p \in P : GiveUps(p, n) > 0}
    /\ retry' = {p \in Proxies : IF p \in P THEN Armed(p, n) ELSE p \in retry}
    /\ live' = (live \ lost) \cup {p \in P : n > GiveUps(p, n)}
    /\ notify' = [p \in Proxies |->
                    notify[p] - IF p \in P THEN AtMost(GiveUps(p, n), notify[p])
                                ELSE 0]
    /\ UNCHANGED handlers

\* The proxies whose handlers run when the subscription of p is lost: those
\* of "rc" are connected to the proxy of "av".
HandledBy(p) ==
    CASE p[2] = "cm" -> {p}
      [] p[2] = "av" -> {p[1]} \X ({"av", "rc"} \cap Services)
      [] p[2] = "rc" -> {}

\* The subscription-lost signal of GUPnP.
SubscriptionLost(p) ==
    /\ Running /\ LossesHappen
    /\ p \in live
    /\ Handled(HandledBy(p), handlers[p[1]], {p})
    /\ UNCHANGED <<present, phase, via, contexts, timer, shutdown>>

\* prv_re_enable_{cm,av,rc}_subscription, ten seconds after a renewal.
RetryExpires(p) ==
    /\ Running
    /\ p \in retry
    /\ retry' = retry \ {p}
    /\ UNCHANGED <<present, phase, via, contexts, subscribed, live, notify,
                   handlers, timer, shutdown>>

----------------------------------------------------------------------------
\* rsu_task_processor_set_quitting cancels the queue of a construction, or
\* does not reach it (TaskProcessor says when).
SetQuitting ==
    /\ Running
    /\ shutdown = "no"
    /\ shutdown' = "quitting"
    /\ phase' \in {phase} \cup
          CASE phase \in {"calling", "lost"} -> {"cancelled", "halted"}
            [] phase \in Queued \ {"calling", "lost"} -> Cancelled
            [] OTHER -> {}
    /\ UNCHANGED <<present, via, contexts, listenVars, timer>>

\* prv_context_quit_cb and rsu_upnp_unsubscribe
Unsubscribe ==
    /\ Running
    /\ shutdown = "quitting"
    /\ shutdown' = "unsubscribed"
    /\ IF phase = "known" THEN Switch(Range(contexts), {})
                          ELSE UNCHANGED listenVars
    /\ UNCHANGED <<present, phase, via, contexts, timer>>

\* rsu_upnp_delete (a construction still under way is leaked).
Delete ==
    /\ Running
    /\ shutdown = "unsubscribed"
    /\ phase' = "deleted"
    /\ DeleteDevice
    /\ UNCHANGED <<present, via, shutdown>>

Exited == ~Running /\ UNCHANGED vars

Construct ==
    \/ BeginProtocolInfo
    \/ GetProtocolInfoCallback
    \/ Subscribe
    \/ Declare
    \/ ChainEnd

Next ==
    \/ \E i \in Ips : Available(i) \/ Unavailable(i)
    \/ Construct
    \/ ResubscribeTimer
    \/ \E p \in Proxies : SubscriptionLost(p) \/ RetryExpires(p)
    \/ SetQuitting
    \/ Unsubscribe
    \/ Delete
    \/ Exited

(***************************************************************************)
(* Idles, timers and the answers to actions whose proxy lives come sooner  *)
(* or later.  Nothing is assumed of the network or of the shutdown.        *)
(***************************************************************************)
Fairness == WF_vars(Construct) /\ WF_vars(ResubscribeTimer)

Spec == Init /\ [][Next]_vars

FairSpec == Spec /\ Fairness

----------------------------------------------------------------------------
TypeOK ==
    /\ present \subseteq Ips
    /\ phase \in Phases
    /\ via \in Ips \cup {NoIp}
    /\ contexts \in Seq(Ips)
    /\ subscribed \subseteq Proxies /\ retry \subseteq Proxies
    /\ live \subseteq Proxies
    /\ notify \in [Proxies -> Nat]
    /\ handlers \in [Ips -> Nat]
    /\ timer \in BOOLEAN
    /\ shutdown \in {"no", "quitting", "unsubscribed"}

\* The service listens on the preferred context only: whenever contexts come
\* and go, also while a resubscription is pending, no other context is left
\* with a subscription that nobody would cancel.
SubscribedIsPreferred ==
    \A p \in subscribed : contexts # <<>> /\ p[1] = Preferred(contexts)

\* A flag that says "subscribed" tells the truth for ConnectionManager and
\* AVTransport: GUPnP is subscribed and the callback registered, after any
\* number of losses, renewals and switches of context.
SubscribedIsHeard ==
    \A p \in subscribed : p[2] # "rc" => p \in live /\ notify[p] >= 1

\* The same for RenderingControl, whose changes of volume clients learn by
\* PropertiesChanged ("emitted ... when ... properties value change", API.txt).
VolumeIsHeard ==
    \A p \in subscribed : p[2] = "rc" => p \in live /\ notify[p] >= 1

\* No context outlives the renderer's presence on its interface, and none is
\* there twice: requests are never sent to where it is no more.
ContextsArePresent ==
    /\ Range(contexts) \subseteq present
    /\ \A m, n \in DOMAIN contexts : contexts[m] = contexts[n] => m = n

\* What the service knows is what the network shows: a renderer with no
\* context is unknown or being cancelled, any other one has a context for
\* each interface it is present on (until the process quits).
KnownIsPresent ==
    Running /\ shutdown = "no" =>
        /\ Range(contexts) = present
        /\ phase = "unknown" => present = {}
        /\ phase = "known" => present # {}

\* A known renderer is listened to, or will be within a second.
SubscribedOrPending ==
    phase = "known" /\ shutdown # "unsubscribed" => subscribed # {} \/ timer

\* The resubscription timer takes the preferred context of its device without
\* asking whether there is one (upnp.c:191).  Whenever it is armed there is, however
\* contexts come and go in that second: a renderer that is known, or whose
\* construction goes on, never has the timer and no context, and a device that
\* was deleted leaves no timer behind.  (A construction that was cancelled, is
\* stuck or was halted may: then the timer reads a context that was freed.)
TimerFindsContext ==
    timer /\ phase \notin {"cancelled", "stuck", "halted", "crashed"}
        => contexts # <<>>

\* "Fixed bug: RSU receives multiple UPnP notifications" (ChangeLog): one
\* callback is registered with each proxy.
NotifiedOnce == \A p \in Proxies : notify[p] <= 1

\* "Renderer-service-upnp exposes a separate d-Bus object for each DMR it
\* detects on the LAN" (API.txt).
PresentIsExposed ==
    present # {} ~> (phase = "known" \/ present = {} \/ shutdown # "no")

============================================================================
