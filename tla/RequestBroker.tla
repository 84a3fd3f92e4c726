---------------------------- MODULE RequestBroker ----------------------------
(***************************************************************************)
(* What the clients of renderer-service-upnp may expect of their requests, *)
(* whatever the queues behind it look like: the requests that a client     *)
(* makes of one renderer (a route) are served one at a time, in the order  *)
(* they were made; what is cancelled is the whole route; every request     *)
(* that is over has been answered, once.  TaskProcessor implements this    *)
(* specification (Broker in that module).                                  *)
(***************************************************************************)
EXTENDS Naturals

CONSTANTS
    Routes,   \* whom a request can come from and go to
    Requests  \* <<k, n>> is the n-th request made on the route k

VARIABLES
    open,    \* the service runs
    stage,   \* "new", "waiting", "served" or "over", of each request
    replies  \* how often each request has been answered

vars == <<open, stage, replies>>

Init ==
    /\ open = TRUE
    /\ stage = [r \in Requests |-> "new"]
    /\ replies = [r \in Requests |-> 0]

\* All that was asked before r on its route is over.
FirstInLine(r) ==
    \A n \in 1..(r[2] - 1) : stage[<<r[1], n>>] = "over"

Submit(r) ==
    /\ open /\ stage[r] = "new"
    /\ \A n \in 1..(r[2] - 1) : stage[<<r[1], n>>] # "new"
    /\ stage' = [stage EXCEPT ![r] = "waiting"]
    /\ UNCHANGED <<open, replies>>

Serve(r) ==
    /\ open /\ stage[r] = "waiting" /\ FirstInLine(r)
    /\ stage' = [stage EXCEPT ![r] = "served"]
    /\ UNCHANGED <<open, replies>>

\* The requests of R are over, and answered unless they have been before.
Over(R) ==
    /\ stage' = [r \in Requests |-> IF r \in R THEN "over" ELSE stage[r]]
    /\ replies' = [r \in Requests |->
                      IF r \in R /\ replies[r] = 0 THEN 1 ELSE replies[r]]

Waiting(k) == {r \in Requests : r[1] = k /\ stage[r] = "waiting"}

\* A request is over; those that wait behind it may be given up with it.
Finish(r) ==
    /\ open /\ stage[r] \in {"waiting", "served"} /\ FirstInLine(r)
    /\ Over({r}) \/ Over({r} \cup Waiting(r[1]))
    /\ UNCHANGED open

\* Routes are cancelled, each as a whole: if anything changes for a request,
\* then all that waits on its route is given up, and what is being served
\* there is answered now, to be over later.
Cancelled(k) ==
    \A r \in Requests : r[1] = k =>
        /\ stage'[r] = IF stage[r] = "waiting" THEN "over" ELSE stage[r]
        /\ replies'[r] = IF stage[r] \in {"waiting", "served"} THEN 1
                         ELSE replies[r]

Kept(r) == stage'[r] = stage[r] /\ replies'[r] = replies[r]

Cancel ==
    /\ open
    /\ DOMAIN stage' = Requests /\ DOMAIN replies' = Requests
    /\ \A r \in Requests : Kept(r) \/ Cancelled(r[1])
    /\ UNCHANGED open

\* The service goes; what is being served is not looked at again.
Close ==
    /\ open /\ open' = FALSE
    /\ Over(UNION {Waiting(k) : k \in Routes})

Next ==
    \/ Cancel
    \/ \E r \in Requests : Submit(r) \/ Serve(r) \/ Finish(r)
    \/ Close

Spec == Init /\ [][Next]_vars

=============================================================================
