------------------------ MODULE TaskProcessorSafety ------------------------
(***************************************************************************)
(* What the queues promise to the requests, the constructions and the      *)
(* shutdown: order, answers, wake-ups, chain ends; and that they implement *)
(* RequestBroker.  The invariants here rest on IndInv of                   *)
(* TaskProcessorProofs, which says where tasks are.                        *)
(***************************************************************************)
EXTENDS TaskProcessorProofs

\* A task that waits is on the queue of its key.
QueuedIsHeld ==
    \A t \in Tasks : status[t] = "queued" => t \in Range(tasks[t[1]])

\* The queue of a route is in the order in which its requests were made.
InOrder ==
    \A k \in Routes : \A i, j \in 1..Len(tasks[k]) :
        i < j => tasks[k][i][2] < tasks[k][j][2]

\* Nothing overtakes on a route: requests are made in turn; behind one that
\* waits everything waits; behind one that runs nothing has run.
Succession ==
    \A k \in Routes : \A m, n \in 1..MaxRequests[k] :
        m < n =>
            /\ status[<<k, m>>] = "new" => status[<<k, n>>] = "new"
            /\ status[<<k, m>>] = "queued" =>
                  status[<<k, n>>] \in {"new", "queued"}
            /\ status[<<k, m>>] \in InFlight =>
                  status[<<k, n>>] \in {"new", "queued", "dropped"}

\* The invocation of a request is there until the reply, and then no more.
Invoked ==
    \A r \in Requests :
        /\ r \in invocation => /\ replies[r] = 0
                               /\ status[r] \in {"queued"} \cup InFlight
        /\ r \notin invocation =>
              /\ status[r] \notin {"queued"} \cup InAction
              /\ replies[r] = IF status[r] = "new" THEN 0 ELSE 1

\* Nobody who has gone is served, other than by a queue that is doomed.
Watched ==
    loop # "stopped" =>
        \A r \in invocation : r[1][1] \in watchers \/ r[1] \in defer

\* Only the queues of clients are doomed.
RoutesDoomed == defer \subseteq Routes

\* A construction goes on as long as it is not cancelled: its queue has no
\* idle once it is, and runs nothing that could complete.
CancelledIsOver ==
    \A k \in cancelled :
        /\ k \notin idle
        /\ current[k] # NoTask => status[current[k]] \notin InAction

\* What is heard of a construction has begun.
BuildBegun ==
    \A k \in (queues \cap ServiceKeys) \cup cancelled \cup finally \cup exposed :
        \A n \in 1..3 : status[<<k, n>>] # "new"

\* A step of a construction that is not cancelled is to come, under way or
\* completed; at the chain end all of them are completed.
BuildComplete ==
    \A k \in ServiceKeys \ cancelled : \A n \in 1..3 :
        /\ k \in queues => status[<<k, n>>] # "dropped"
        /\ k \in finally /\ loop # "stopped" => status[<<k, n>>] = "completed"

\* Completing later, as an idle, is for requests.
ServiceSteps == \A t \in ServiceTasks : status[t] # "finishing"

OrderInv == QueuedIsHeld /\ InOrder /\ Succession

AnswerInv == Invoked /\ Watched

WakeInv ==
    RoutesDoomed /\ NoLostWakeup /\ DoomedQueueIsRemoved /\ QuitNotForgotten

BuildInv ==
    /\ CancelledIsOver /\ BuildBegun /\ BuildComplete /\ ServiceSteps
    /\ ExposedOnlyIfBuilt

SafetyInv == OrderInv /\ AnswerInv /\ WakeInv /\ BuildInv

----------------------------------------------------------------------------
(***************************************************************************)
(* Queues as sets                                                          *)
(***************************************************************************)

\* A request is its route and its number there.
LEMMA RequestShape ==
    ASSUME NEW r \in Requests
    PROVE  /\ r = <<r[1], r[2]>> /\ r \in Tasks
           /\ r[1] \in Routes /\ r[1] \in Keys /\ r[1] \notin ServiceKeys
           /\ r[2] \in 1..MaxRequests[r[1]] /\ r[2] \in Nat
           /\ MaxRequests[r[1]] \in Nat
           /\ \A m \in 1..MaxRequests[r[1]] : <<r[1], m>> \in Requests
<1>1. PICK k \in Routes : r \in {k} \X (1..MaxRequests[k])
  BY DEF Requests
<1>2. k \notin ServiceKeys /\ MaxRequests[k] \in Nat
  BY RoutesAssumption, BuildsAssumption, ParametersAssumption DEF ServiceKeys
<1>3. \A m \in 1..MaxRequests[k] : <<k, m>> \in Requests
  BY DEF Requests
<1>. QED
  BY <1>1, <1>2, <1>3 DEF Tasks, Keys

LEMMA RequestOnRoute ==
    ASSUME NEW k \in Routes, NEW n \in 1..MaxRequests[k]
    PROVE  <<k, n>> \in Requests /\ <<k, n>> \in Tasks /\ n \in Nat
BY ParametersAssumption DEF Requests, Tasks

LEMMA StepShape ==
    ASSUME NEW t \in ServiceTasks
    PROVE  /\ t = <<t[1], t[2]>> /\ t \in Tasks /\ t \notin Requests
           /\ t[1] \in ServiceKeys /\ t[1] \in Keys /\ t[1] \notin Routes
           /\ t[2] \in 1..3
<1>1. t = <<t[1], t[2]>> /\ t \in Tasks /\ t[1] \in ServiceKeys /\ t[2] \in 1..3
  BY DEF ServiceTasks, Tasks
<1>2. t[1] \notin Routes
  BY <1>1, RoutesAssumption, BuildsAssumption DEF ServiceKeys
<1>. QED
  BY <1>1, <1>2, TaskShape DEF Keys

LEMMA HeadAndTail ==
    ASSUME NEW S, NEW s \in Seq(S), s # <<>>
    PROVE  Range(s) = {Head(s)} \cup Range(Tail(s))
<1>1. /\ Len(s) \in Nat /\ Len(s) > 0 /\ Head(s) = s[1]
      /\ DOMAIN s = 1..Len(s) /\ DOMAIN Tail(s) = 1..(Len(s) - 1)
      /\ \A i \in 1..(Len(s) - 1) : Tail(s)[i] = s[i + 1]
  OBVIOUS
<1>2. \A x \in Range(s) : x = Head(s) \/ x \in Range(Tail(s))
  <2>. SUFFICES ASSUME NEW i \in 1..Len(s), i # 1
                PROVE  s[i] \in Range(Tail(s))
    BY <1>1 DEF Range
  <2>1. i - 1 \in 1..(Len(s) - 1) /\ Tail(s)[i - 1] = s[i]
    BY <1>1
  <2>. QED
    BY <1>1, <2>1 DEF Range
<1>3. \A x \in Range(Tail(s)) : x \in Range(s)
  BY <1>1 DEF Range
<1>4. Head(s) \in Range(s)
  BY <1>1 DEF Range
<1>. QED
  BY <1>2, <1>3, <1>4

\* A queue holds the tasks of its key that wait.
LEMMA Held ==
    ASSUME IndInv, QueuedIsHeld
    PROVE  /\ \A k \in Keys : Range(tasks[k]) =
                 {u \in Tasks : u[1] = k /\ status[u] = "queued"}
           /\ \A S \in SUBSET Keys : Pending(S) =
                 {u \in Tasks : u[1] \in S /\ status[u] = "queued"}
<1>1. ASSUME NEW k \in Keys
      PROVE  Range(tasks[k]) = {u \in Tasks : u[1] = k /\ status[u] = "queued"}
  <2>1. tasks[k] \in Seq(Tasks)
    BY DEF IndInv, TypeOK
  <2>2. \A u \in Range(tasks[k]) : u \in Tasks /\ u[1] = k /\ status[u] = "queued"
    BY <2>1 DEF Range, IndInv, QueueContents
  <2>. QED
    BY <2>2 DEF QueuedIsHeld
<1>2. ASSUME NEW S \in SUBSET Keys
      PROVE  Pending(S) = {u \in Tasks : u[1] \in S /\ status[u] = "queued"}
  BY <1>1 DEF Pending
<1>. QED
  BY <1>1, <1>2

\* The tasks that run on the queues of S.
LEMMA Runs ==
    ASSUME IndInv, NEW S \in SUBSET Keys
    PROVE  Running(S) = {u \in Tasks : u[1] \in S /\ status[u] \in InFlight}
<1>1. \A u \in Running(S) : u \in Tasks /\ u[1] \in S /\ status[u] \in InFlight
  BY DEF Running, IndInv, TypeOK, CurrentInFlight
<1>2. \A u \in Tasks : u[1] \in S /\ status[u] \in InFlight => u \in Running(S)
  BY TaskShape DEF Running, IndInv, InFlightCurrent
<1>. QED
  BY <1>1, <1>2

----------------------------------------------------------------------------
(***************************************************************************)
(* What the operators of TaskProcessor do to each task and each queue      *)
(***************************************************************************)
Waiting(k) == {u \in Tasks : u[1] = k /\ status[u] = "queued"}

\* t is the task that the queue k runs, or is to run next.
First(k, t) ==
    \/ status[t] \in InFlight
    \/ /\ status[t] = "queued" /\ current[k] = NoTask
       /\ tasks[k] # <<>> /\ t = Head(tasks[k])

\* What the queue k holds behind t.
Behind(k, t) == IF status[t] \in InFlight THEN tasks[k] ELSE Tail(tasks[k])

\* t completes on the queue k, which goes with all that it holds if gone.
Completion(k, t, gone) ==
    /\ loop # "stopped" /\ k \in queues /\ k \in Keys
    /\ t \in Tasks /\ t[1] = k /\ First(k, t)
    /\ gone => k \in defer \cup ServiceKeys
    /\ gone /\ k \notin defer => Waiting(k) \subseteq {t}
    /\ \A u \in Tasks : status'[u] =
          IF u = t THEN "completed"
          ELSE IF gone /\ u \in Waiting(k) THEN "dropped" ELSE status[u]
    /\ Answer({t} \cup IF gone THEN Waiting(k) ELSE {})
    /\ \A q \in Keys : q # k => tasks'[q] = tasks[q]
    /\ \A q \in Keys : current'[q] = IF q = k THEN NoTask ELSE current[q]
    /\ tasks'[k] = IF gone THEN <<>> ELSE Behind(k, t)
    /\ queues' = IF gone THEN queues \ {k} ELSE queues
    /\ defer' = IF gone THEN defer \ {k} ELSE defer
    /\ finally' = finally \cup IF gone THEN {k} \cap ServiceKeys ELSE {}
    /\ UNCHANGED <<exposed, quitting, loop, watchers>>

\* What it does for the wake-ups.
CompletionWakes(k, gone) ==
    /\ running' \in Nat
    /\ onQuit \/ (quitting /\ running' = 0) => onQuit'
    /\ \A q \in Keys : q # k => (q \in idle' <=> q \in idle)
    /\ gone \/ onQuit' \/ (k \notin defer /\ (tasks'[k] # <<>> => k \in idle'))

LEMMA TaskCompletedEffect ==
    ASSUME IndInv, loop # "stopped",
           NEW k \in queues, NEW t \in Tasks, t[1] = k,
           First(k, t),
           NEW rest \in Seq(Tasks), Range(rest) = Waiting(k) \ {t},
           rest = Behind(k, t),
           NEW n \in Nat \ {0}, NEW armed,
           armed = idle \ {k},
           TaskCompleted(t, rest, n, armed)
    PROVE  \E gone \in BOOLEAN : Completion(k, t, gone) /\ CompletionWakes(k, gone)
<1>. DEFINE gone == ~QuitNow(n) /\ RemoveNow(k, rest)
            deleted == {t} \cup IF gone THEN Range(rest) ELSE {}
<1>. k \in Keys
  BY DEF IndInv, TypeOK
<1>1. /\ running' = n - 1
      /\ current' = [current EXCEPT ![k] = NoTask]
      /\ tasks' = [tasks EXCEPT ![k] = IF gone THEN <<>> ELSE rest]
      /\ status' = [u \in Tasks |-> IF u = t THEN "completed"
                                    ELSE IF u \in deleted THEN "dropped"
                                    ELSE status[u]]
      /\ Answer(deleted)
      /\ queues' = IF gone THEN queues \ {k} ELSE queues
      /\ defer' = IF gone THEN defer \ {k} ELSE defer
      /\ finally' = finally \cup IF gone THEN {k} \cap ServiceKeys ELSE {}
      /\ UNCHANGED <<exposed, quitting, loop, watchers>>
  BY DEF TaskCompleted
<1>2. /\ QuitNow(n) => onQuit' = TRUE /\ idle' = armed
      /\ ~QuitNow(n) => onQuit' = onQuit
      /\ gone => idle' = armed
      /\ ~QuitNow(n) /\ ~gone =>
            idle' = armed \cup IF rest = <<>> THEN {} ELSE {k}
  BY DEF TaskCompleted
<1>3. gone \in BOOLEAN
  OBVIOUS
<1>4. gone => k \in defer \/ (rest = <<>> /\ k \in ServiceKeys)
  BY DEF RemoveNow
<1>5. ~gone => QuitNow(n) \/ k \notin defer
  BY DEF RemoveNow
<1>6. QuitNow(n) <=> quitting /\ n = 1
  BY DEF QuitNow
<1>. HIDE DEF gone
<1>7. rest = <<>> => Waiting(k) \subseteq {t}
  <2>1. Range(<<>>) = {}
    BY DEF Range
  <2>. QED
    BY <2>1
<1>8. {t} \cup (IF gone THEN Waiting(k) ELSE {}) = deleted
  BY DEF Waiting
<1>9. \A u \in Tasks : status'[u] =
         IF u = t THEN "completed"
         ELSE IF gone /\ u \in Waiting(k) THEN "dropped" ELSE status[u]
  BY <1>1
<1>10. /\ \A q \in Keys : q # k => tasks'[q] = tasks[q]
       /\ \A q \in Keys : current'[q] = IF q = k THEN NoTask ELSE current[q]
       /\ tasks'[k] = IF gone THEN <<>> ELSE rest
  BY <1>1 DEF IndInv, TypeOK
<1>. HIDE DEF deleted
<1>11. Completion(k, t, gone)
  <2>1. Answer({t} \cup IF gone THEN Waiting(k) ELSE {})
    BY <1>1, <1>8
  <2>2. /\ gone => k \in defer \cup ServiceKeys
        /\ gone /\ k \notin defer => Waiting(k) \subseteq {t}
    BY <1>4, <1>7
  <2>3. tasks'[k] = IF gone THEN <<>> ELSE Behind(k, t)
    BY <1>10
  <2>. QED
    BY <1>1, <1>9, <1>10, <2>1, <2>2, <2>3 DEF Completion
<1>12. CompletionWakes(k, gone)
  <2>1. running' \in Nat /\ (quitting /\ running' = 0 => QuitNow(n))
    BY <1>1, <1>6
  <2>2. onQuit \/ (quitting /\ running' = 0) => onQuit'
    BY <1>2, <2>1
  <2>3. \A q \in Keys : q # k => (q \in idle' <=> q \in idle)
    BY <1>2, <1>3
  <2>4. gone \/ onQuit' \/ (k \notin defer /\ (tasks'[k] # <<>> => k \in idle'))
    BY <1>2, <1>5, <1>10
  <2>. QED
    BY <2>1, <2>2, <2>3, <2>4 DEF CompletionWakes
<1>. QED
  BY <1>3, <1>11, <1>12

\* A task in flight completes.
LEMMA CallbackEffect ==
    ASSUME IndInv, QueuedIsHeld, loop # "stopped",
           NEW t \in Tasks, status[t] \in InFlight,
           TaskCompleted(t, tasks[t[1]], running, idle)
    PROVE  \E gone \in BOOLEAN :
              Completion(t[1], t, gone) /\ CompletionWakes(t[1], gone)
<1>. DEFINE k == t[1]
<1>1. k \in Keys /\ t # NoTask /\ current[k] = t
  BY TaskShape DEF IndInv, InFlightCurrent
<1>2. k \in Busy /\ k \in queues /\ k \notin idle
  BY <1>1 DEF Busy, IndInv, BusyQueueLive, IdleFindsTask
<1>3. running \in Nat \ {0}
  <2>1. Cardinality(Busy \ {k}) = Cardinality(Busy) - 1
        /\ Cardinality(Busy \ {k}) \in Nat
    BY <1>1, <1>2, BusyStep
  <2>2. running = Cardinality(Busy) /\ running \in Nat
    BY DEF IndInv, TypeOK, RunningCount, Busy
  <2>. QED
    BY <2>1, <2>2
<1>4. tasks[k] \in Seq(Tasks) /\ Range(tasks[k]) = Waiting(k) \ {t}
  <2>1. t \notin Waiting(k)
    BY DEF Waiting, InFlight, InAction
  <2>. QED
    BY <1>1, <2>1, Held DEF IndInv, TypeOK, Waiting
<1>5. idle = idle \ {k}
  BY <1>2
<1>6. First(k, t) /\ tasks[k] = Behind(k, t)
  BY DEF First, Behind
<1>. QED
  BY <1>2, <1>3, <1>4, <1>5, <1>6, TaskCompletedEffect

\* The head of a queue completes at once.
LEMMA BeginAndCompleteEffect ==
    ASSUME IndInv, QueuedIsHeld, NEW k \in Keys, Ready(k), BeginAndComplete(k)
    PROVE  \E gone \in BOOLEAN : /\ Completion(k, Head(tasks[k]), gone)
                                 /\ CompletionWakes(k, gone)
<1>. DEFINE t == Head(tasks[k])
            rest == Tail(tasks[k])
<1>1. /\ k \in queues /\ t \in Tasks /\ t[1] = k /\ status[t] = "queued"
      /\ rest \in Seq(Tasks) /\ tasks[k] \in Seq(Tasks) /\ tasks[k] # <<>>
      /\ \A i \in 1..Len(rest) : rest[i] # t
      /\ First(k, t) /\ rest = Behind(k, t)
  BY HeadOfReadyQueue DEF First, Behind, InFlight, InAction
<1>2. Range(rest) = Waiting(k) \ {t}
  <2>1. Waiting(k) = {t} \cup Range(rest)
    BY <1>1, HeadAndTail, Held DEF Waiting
  <2>2. t \notin Range(rest)
    BY <1>1 DEF Range
  <2>. QED
    BY <2>1, <2>2
<1>3. running + 1 \in Nat \ {0}
  BY DEF IndInv, TypeOK
<1>4. loop # "stopped" /\ TaskCompleted(t, rest, running + 1, idle \ {k})
  BY DEF Ready, BeginAndComplete
<1>. HIDE DEF t, rest
<1>5. \E gone \in BOOLEAN : Completion(k, t, gone) /\ CompletionWakes(k, gone)
  BY <1>1, <1>2, <1>3, <1>4, TaskCompletedEffect DEF t, rest
<1>. QED
  BY <1>5 DEF t

\* The head t of the queue k becomes its current task, in flight.
Beginning(k, t, s) ==
    /\ loop # "stopped" /\ k \in queues /\ k \in Keys
    /\ t \in Tasks /\ t[1] = k /\ First(k, t) /\ status[t] = "queued"
    /\ s \in InFlight
    /\ \A u \in Tasks : status'[u] = IF u = t THEN s ELSE status[u]
    /\ \A q \in Keys : tasks'[q] = IF q = k THEN Behind(k, t) ELSE tasks[q]
    /\ \A q \in Keys : current'[q] = IF q = k THEN t ELSE current[q]
    /\ idle' = idle \ {k} /\ running' = running + 1
    /\ UNCHANGED <<queues, defer, finally, exposed, quitting, onQuit, loop,
                   watchers, invocation, replies>>

LEMMA BeginEffect ==
    ASSUME IndInv, NEW k \in Keys, Ready(k), NEW s \in InFlight, Begin(k, s)
    PROVE  Beginning(k, Head(tasks[k]), s)
<1>. DEFINE t == Head(tasks[k])
<1>1. /\ k \in queues /\ t \in Tasks /\ t[1] = k /\ status[t] = "queued"
      /\ First(k, t) /\ Tail(tasks[k]) = Behind(k, t)
  BY HeadOfReadyQueue DEF First, Behind, InFlight, InAction
<1>2. \A u \in Tasks : status'[u] = IF u = t THEN s ELSE status[u]
  BY <1>1 DEF Begin, IndInv, TypeOK
<1>3. \A q \in Keys : /\ tasks'[q] = IF q = k THEN Behind(k, t) ELSE tasks[q]
                      /\ current'[q] = IF q = k THEN t ELSE current[q]
  BY <1>1 DEF Begin, IndInv, TypeOK
<1>4. /\ loop # "stopped" /\ idle' = idle \ {k} /\ running' = running + 1
      /\ UNCHANGED <<queues, defer, finally, exposed, quitting, onQuit, loop,
                     watchers, invocation, replies>>
  BY DEF Begin, Ready
<1>. QED
  BY <1>1, <1>2, <1>3, <1>4 DEF Beginning

\* The queues of S are cancelled, and those of R removed.
Cancellation(S, R) ==
    /\ loop # "stopped" /\ S \subseteq queues /\ R \subseteq S
    /\ \A u \in Tasks : status'[u] =
          IF u[1] \in S /\ status[u] = "queued" THEN "dropped"
          ELSE IF u[1] \in S /\ status[u] \in InAction
               THEN IF u \in Requests THEN "finishing" ELSE "dropped"
          ELSE status[u]
    /\ Answer({u \in Tasks : /\ u[1] \in S
                             /\ status[u] \in {"queued"} \cup InFlight})
    /\ \A q \in Keys : tasks'[q] = IF q \in S THEN <<>> ELSE tasks[q]
    /\ \A q \in Keys : current'[q] = IF q \in R \cup Interrupted(S) THEN NoTask
                                     ELSE current[q]
    /\ queues' = queues \ R /\ idle' = idle \ S
    /\ cancelled' = cancelled \cup (S \cap ServiceKeys)
    /\ finally' = finally \cup (R \cap ServiceKeys)
    /\ UNCHANGED <<exposed, loop>>

LEMMA CancelQueuesEffect ==
    ASSUME IndInv, QueuedIsHeld, loop # "stopped",
           NEW S \in SUBSET queues, NEW R \in SUBSET S, CancelQueues(S, R)
    PROVE  Cancellation(S, R)
<1>1. S \subseteq Keys
  BY DEF IndInv, TypeOK
<1>2. /\ Pending(S) = {u \in Tasks : u[1] \in S /\ status[u] = "queued"}
      /\ Running(S) = {u \in Tasks : u[1] \in S /\ status[u] \in InFlight}
  BY <1>1, Held, Runs
<1>3. \A u \in Tasks : status'[u] =
         IF u[1] \in S /\ status[u] = "queued" THEN "dropped"
         ELSE IF u[1] \in S /\ status[u] \in InAction
              THEN IF u \in Requests THEN "finishing" ELSE "dropped"
         ELSE status[u]
  <2>. SUFFICES ASSUME NEW u \in Tasks
                PROVE  status'[u] =
                          IF u[1] \in S /\ status[u] = "queued" THEN "dropped"
                          ELSE IF u[1] \in S /\ status[u] \in InAction
                               THEN IF u \in Requests THEN "finishing"
                                    ELSE "dropped"
                          ELSE status[u]
    OBVIOUS
  <2>1. status'[u] =
           CASE u \in Pending(S) -> "dropped"
             [] u \in Running(S) /\ status[u] \in InAction ->
                   IF u \in Requests THEN "finishing" ELSE "dropped"
             [] OTHER -> status[u]
    BY DEF CancelQueues, CancelStatus
  <2>2. u \in Pending(S) <=> u[1] \in S /\ status[u] = "queued"
    BY <1>2
  <2>3. u \in Running(S) /\ status[u] \in InAction
           <=> u[1] \in S /\ status[u] \in InAction
    BY <1>2 DEF InFlight
  <2>4. "queued" \notin InAction
    BY DEF InAction
  <2>. QED
    BY <2>1, <2>2, <2>3, <2>4
<1>4. Pending(S) \cup Running(S) =
         {u \in Tasks : u[1] \in S /\ status[u] \in {"queued"} \cup InFlight}
  BY <1>2
<1>5. Answer({u \in Tasks : /\ u[1] \in S
                            /\ status[u] \in {"queued"} \cup InFlight})
  BY <1>4 DEF CancelQueues
<1>6. \A q \in Keys :
         /\ tasks'[q] = IF q \in S THEN <<>> ELSE tasks[q]
         /\ current'[q] = IF q \in R \cup Interrupted(S) THEN NoTask
                          ELSE current[q]
  BY DEF CancelQueues
<1>. QED
  BY <1>3, <1>5, <1>6 DEF CancelQueues, Cancellation

----------------------------------------------------------------------------
(***************************************************************************)
(* Order: what is behind what on a route                                   *)
(***************************************************************************)

\* Whatever was asked before the task that a queue runs, or runs next, is over.
LEMMA FirstInLine ==
    ASSUME IndInv, OrderInv, NEW t \in Requests, First(t[1], t)
    PROVE  \A m \in 1..(t[2] - 1) : status[<<t[1], m>>] \in {"completed", "dropped"}
<1>. DEFINE k == t[1]
<1>1. /\ t = <<k, t[2]>> /\ k \in Routes /\ k \in Keys
      /\ t[2] \in 1..MaxRequests[k] /\ t[2] \in Nat /\ MaxRequests[k] \in Nat
      /\ \A m \in 1..MaxRequests[k] : <<k, m>> \in Tasks
  BY RequestShape, RequestOnRoute
<1>. SUFFICES ASSUME NEW m \in 1..(t[2] - 1)
              PROVE  status[<<k, m>>] \in {"completed", "dropped"}
  OBVIOUS
<1>2. m \in 1..MaxRequests[k] /\ m < t[2] /\ <<k, m>> \in Tasks
  BY <1>1
<1>3. status[t] \in {"queued"} \cup InFlight
  BY DEF First
<1>4. /\ status[<<k, m>>] = "new" => status[t] = "new"
      /\ status[<<k, m>>] \in InFlight =>
            status[t] \in {"new", "queued", "dropped"}
      /\ status[<<k, m>>] = "queued" => status[t] \in {"new", "queued"}
  BY <1>1, <1>2 DEF OrderInv, Succession
<1>5. status[<<k, m>>] # "new"
  BY <1>3, <1>4 DEF InFlight, InAction
<1>6. CASE status[t] \in InFlight
  <2>1. status[<<k, m>>] \notin InFlight \cup {"queued"}
    BY <1>4, <1>6 DEF InFlight, InAction
  <2>. QED
    BY <1>2, <1>5, <2>1 DEF IndInv, TypeOK, Status
<1>7. CASE /\ status[t] = "queued" /\ current[k] = NoTask
           /\ tasks[k] # <<>> /\ t = Head(tasks[k])
  <2>1. status[<<k, m>>] \notin InFlight
    BY <1>2, <1>7, TaskShape DEF IndInv, InFlightCurrent
  <2>2. status[<<k, m>>] # "queued"
    <3>. SUFFICES ASSUME status[<<k, m>>] = "queued" PROVE FALSE
      OBVIOUS
    <3>1. tasks[k] \in Seq(Tasks)
      BY <1>1 DEF IndInv, TypeOK
    <3>2. PICK i \in 1..Len(tasks[k]) : tasks[k][i] = <<k, m>>
      BY <1>2, <3>1 DEF OrderInv, QueuedIsHeld, Range
    <3>3. t = tasks[k][1] /\ 1 \in 1..Len(tasks[k])
      BY <1>7, <3>1
    <3>4. i # 1
      BY <1>1, <1>2, <3>2, <3>3
    <3>5. tasks[k][1][2] < tasks[k][i][2]
      BY <1>1, <3>3, <3>4 DEF OrderInv, InOrder
    <3>. QED
      BY <1>1, <1>2, <3>2, <3>3, <3>5
  <2>. QED
    BY <1>2, <1>5, <2>1, <2>2 DEF IndInv, TypeOK, Status
<1>. QED
  BY <1>6, <1>7 DEF First

LEMMA TailInOrder ==
    ASSUME NEW s \in Seq(Tasks), s # <<>>,
           \A i, j \in 1..Len(s) : i < j => s[i][2] < s[j][2]
    PROVE  \A i, j \in 1..Len(Tail(s)) : i < j => Tail(s)[i][2] < Tail(s)[j][2]
<1>1. /\ Len(s) \in Nat /\ Len(Tail(s)) = Len(s) - 1
      /\ \A i \in 1..Len(Tail(s)) : Tail(s)[i] = s[i + 1] /\ i + 1 \in 1..Len(s)
  OBVIOUS
<1>. SUFFICES ASSUME NEW i \in 1..Len(Tail(s)), NEW j \in 1..Len(Tail(s)), i < j
              PROVE  Tail(s)[i][2] < Tail(s)[j][2]
  OBVIOUS
<1>2. i + 1 < j + 1
  BY <1>1
<1>3. s[i + 1][2] < s[j + 1][2]
  BY <1>1, <1>2
<1>. QED
  BY <1>1, <1>3

\* What is behind t: the tasks that wait, but for t, in their order.
LEMMA BehindFirst ==
    ASSUME IndInv, OrderInv, NEW t \in Tasks, First(t[1], t)
    PROVE  /\ Range(Behind(t[1], t)) = Waiting(t[1]) \ {t}
           /\ t[1] \in Routes =>
                 \A i, j \in 1..Len(Behind(t[1], t)) :
                    i < j => Behind(t[1], t)[i][2] < Behind(t[1], t)[j][2]
<1>. DEFINE k == t[1]
<1>1. k \in Keys /\ tasks[k] \in Seq(Tasks) /\ Range(tasks[k]) = Waiting(k)
  BY TaskShape, Held DEF IndInv, TypeOK, OrderInv, Waiting
<1>2. k \in Routes =>
         \A i, j \in 1..Len(tasks[k]) : i < j => tasks[k][i][2] < tasks[k][j][2]
  BY DEF OrderInv, InOrder
<1>3. CASE status[t] \in InFlight
  <2>1. Behind(k, t) = tasks[k] /\ t \notin Waiting(k)
    BY <1>3 DEF Behind, Waiting, InFlight, InAction
  <2>. QED
    BY <1>1, <1>2, <2>1
<1>4. CASE /\ status[t] = "queued" /\ current[k] = NoTask
           /\ tasks[k] # <<>> /\ t = Head(tasks[k])
  <2>1. Behind(k, t) = Tail(tasks[k])
    BY <1>4 DEF Behind, InFlight, InAction
  <2>2. Range(tasks[k]) = {t} \cup Range(Tail(tasks[k]))
    BY <1>1, <1>4, HeadAndTail
  <2>3. t \notin Range(Tail(tasks[k]))
    <3>. DEFINE s == tasks[k]
    <3>1. \A i, j \in 1..Len(s) : s[i] = s[j] => i = j
      BY <1>1 DEF IndInv, QueueContents
    <3>2. t = s[1] /\ 1 \in 1..Len(s)
      BY <1>1, <1>4
    <3>. HIDE DEF s
    <3>3. s \in Seq(Tasks) /\ s # <<>>
      BY <1>1, <1>4 DEF s
    <3>4. /\ DOMAIN Tail(s) = 1..Len(Tail(s))
          /\ \A i \in 1..Len(Tail(s)) :
                Tail(s)[i] = s[i + 1] /\ i + 1 \in 1..Len(s) /\ i + 1 # 1
      BY <3>3
    <3>5. t \notin Range(Tail(s))
      BY <3>1, <3>2, <3>4 DEF Range
    <3>. QED
      BY <3>5 DEF s
  <2>4. k \in Routes => \A i, j \in 1..Len(Tail(tasks[k])) :
           i < j => Tail(tasks[k])[i][2] < Tail(tasks[k])[j][2]
    BY <1>1, <1>2, <1>4, TailInOrder
  <2>. QED
    BY <1>1, <2>1, <2>2, <2>3, <2>4
<1>. QED
  BY <1>3, <1>4 DEF First

LEMMA CompletionKeepsOrder ==
    ASSUME IndInv, OrderInv, NEW k, NEW t, NEW gone \in BOOLEAN,
           Completion(k, t, gone)
    PROVE  OrderInv'
<1>1. /\ k \in Keys /\ t \in Tasks /\ t[1] = k /\ First(k, t)
      /\ \A u \in Tasks : status'[u] =
            IF u = t THEN "completed"
            ELSE IF gone /\ u \in Waiting(k) THEN "dropped" ELSE status[u]
      /\ \A q \in Keys : q # k => tasks'[q] = tasks[q]
      /\ tasks'[k] = IF gone THEN <<>> ELSE Behind(k, t)
  BY DEF Completion
<1>2. QueuedIsHeld'
  <2>. SUFFICES ASSUME NEW u \in Tasks, status'[u] = "queued"
                PROVE  u \in Range(tasks'[u[1]])
    BY DEF QueuedIsHeld
  <2>1. u # t /\ status[u] = "queued" /\ ~(gone /\ u \in Waiting(k))
    BY <1>1
  <2>2. CASE u[1] = k
    <3>1. u \in Waiting(k) /\ ~gone
      BY <2>1, <2>2 DEF Waiting
    <3>. QED
      BY <1>1, <2>1, <2>2, <3>1, BehindFirst
  <2>3. CASE u[1] # k
    BY <1>1, <2>1, <2>3, TaskShape DEF OrderInv, QueuedIsHeld
  <2>. QED
    BY <2>2, <2>3
<1>3. InOrder'
  <2>. SUFFICES ASSUME NEW q \in Routes
                PROVE  \A i, j \in 1..Len(tasks'[q]) :
                          i < j => tasks'[q][i][2] < tasks'[q][j][2]
    BY DEF InOrder
  <2>1. CASE q # k
    BY <1>1, <2>1 DEF Keys, OrderInv, InOrder
  <2>2. CASE q = k /\ gone
    BY <1>1, <2>2
  <2>3. CASE q = k /\ ~gone
    BY <1>1, <2>3, BehindFirst
  <2>. QED
    BY <2>1, <2>2, <2>3
<1>4. Succession'
  <2>. SUFFICES ASSUME NEW q \in Routes,
                       NEW m \in 1..MaxRequests[q], NEW n \in 1..MaxRequests[q],
                       m < n
                PROVE  /\ status'[<<q, m>>] = "new" => status'[<<q, n>>] = "new"
                       /\ status'[<<q, m>>] = "queued" =>
                             status'[<<q, n>>] \in {"new", "queued"}
                       /\ status'[<<q, m>>] \in InFlight =>
                             status'[<<q, n>>] \in {"new", "queued", "dropped"}
    BY DEF Succession
  <2>. DEFINE a == <<q, m>>
              b == <<q, n>>
  <2>1. a \in Tasks /\ b \in Tasks /\ b \in Requests /\ a[1] = q /\ b[1] = q
        /\ b[2] = n /\ m \in 1..(n - 1)
    BY RequestOnRoute
  <2>2. /\ status[a] = "new" => status[b] = "new"
        /\ status[a] = "queued" => status[b] \in {"new", "queued"}
        /\ status[a] \in InFlight => status[b] \in {"new", "queued", "dropped"}
    BY DEF OrderInv, Succession
  <2>3. b = t => status[a] \in {"completed", "dropped"}
    BY <1>1, <2>1, FirstInLine
  <2>4. gone /\ status[a] = "queued" /\ b \in Waiting(k) => a \in Waiting(k)
    BY <2>1 DEF Waiting
  <2>5. b \in Waiting(k) => status[b] = "queued"
    BY DEF Waiting
  <2>6. status[t] \notin {"new"}
    BY <1>1 DEF First, InFlight, InAction
  <2>. HIDE DEF a, b
  <2>7. status'[a] = "new" => status'[b] = "new"
    BY <1>1, <2>1, <2>2, <2>5, <2>6
  <2>8. status'[a] = "queued" => status'[b] \in {"new", "queued"}
    BY <1>1, <2>1, <2>2, <2>3, <2>4
  <2>9. status'[a] \in InFlight => status'[b] \in {"new", "queued", "dropped"}
    BY <1>1, <2>1, <2>2, <2>3 DEF InFlight, InAction
  <2>. QED
    BY <2>7, <2>8, <2>9 DEF a, b
<1>. QED
  BY <1>2, <1>3, <1>4 DEF OrderInv

LEMMA BeginningKeepsOrder ==
    ASSUME IndInv, OrderInv, NEW k, NEW t, NEW s, Beginning(k, t, s)
    PROVE  OrderInv'
<1>1. /\ k \in Keys /\ t \in Tasks /\ t[1] = k /\ First(k, t)
      /\ status[t] = "queued" /\ s \in InFlight
      /\ \A u \in Tasks : status'[u] = IF u = t THEN s ELSE status[u]
      /\ \A q \in Keys : tasks'[q] = IF q = k THEN Behind(k, t) ELSE tasks[q]
  BY DEF Beginning
<1>2. QueuedIsHeld'
  <2>. SUFFICES ASSUME NEW u \in Tasks, status'[u] = "queued"
                PROVE  u \in Range(tasks'[u[1]])
    BY DEF QueuedIsHeld
  <2>1. u # t /\ status[u] = "queued"
    BY <1>1 DEF InFlight, InAction
  <2>2. CASE u[1] = k
    BY <1>1, <2>1, <2>2, BehindFirst DEF Waiting
  <2>3. CASE u[1] # k
    BY <1>1, <2>1, <2>3, TaskShape DEF OrderInv, QueuedIsHeld
  <2>. QED
    BY <2>2, <2>3
<1>3. InOrder'
  <2>. SUFFICES ASSUME NEW q \in Routes
                PROVE  \A i, j \in 1..Len(tasks'[q]) :
                          i < j => tasks'[q][i][2] < tasks'[q][j][2]
    BY DEF InOrder
  <2>1. CASE q # k
    BY <1>1, <2>1 DEF Keys, OrderInv, InOrder
  <2>2. CASE q = k
    BY <1>1, <2>2, BehindFirst
  <2>. QED
    BY <2>1, <2>2
<1>4. Succession'
  <2>. SUFFICES ASSUME NEW q \in Routes,
                       NEW m \in 1..MaxRequests[q], NEW n \in 1..MaxRequests[q],
                       m < n
                PROVE  /\ status'[<<q, m>>] = "new" => status'[<<q, n>>] = "new"
                       /\ status'[<<q, m>>] = "queued" =>
                             status'[<<q, n>>] \in {"new", "queued"}
                       /\ status'[<<q, m>>] \in InFlight =>
                             status'[<<q, n>>] \in {"new", "queued", "dropped"}
    BY DEF Succession
  <2>. DEFINE a == <<q, m>>
              b == <<q, n>>
  <2>1. a \in Tasks /\ b \in Tasks /\ b \in Requests /\ a[1] = q /\ b[1] = q
        /\ b[2] = n /\ m \in 1..(n - 1)
    BY RequestOnRoute
  <2>2. /\ status[a] = "new" => status[b] = "new"
        /\ status[a] = "queued" => status[b] \in {"new", "queued"}
        /\ status[a] \in InFlight => status[b] \in {"new", "queued", "dropped"}
    BY DEF OrderInv, Succession
  <2>3. b = t => status[a] \in {"completed", "dropped"}
    BY <1>1, <2>1, FirstInLine
  <2>4. s \notin {"new", "queued", "completed", "dropped"}
    BY <1>1 DEF InFlight, InAction
  <2>. HIDE DEF a, b
  <2>5. status'[a] = "new" => status'[b] = "new"
    BY <1>1, <2>1, <2>2, <2>4
  <2>6. status'[a] = "queued" => status'[b] \in {"new", "queued"}
    BY <1>1, <2>1, <2>2, <2>3, <2>4
  <2>7. status'[a] \in InFlight => status'[b] \in {"new", "queued", "dropped"}
    <3>1. CASE b = t
      BY <1>1, <2>1, <2>3, <2>4, <3>1 DEF InFlight, InAction
    <3>2. CASE b # t
      BY <1>1, <2>1, <2>2, <3>2
    <3>. QED
      BY <3>1, <3>2
  <2>. QED
    BY <2>5, <2>6, <2>7 DEF a, b
<1>. QED
  BY <1>2, <1>3, <1>4 DEF OrderInv

LEMMA CancellationKeepsOrder ==
    ASSUME IndInv, OrderInv, NEW S, NEW R, Cancellation(S, R)
    PROVE  OrderInv'
<1>1. /\ \A u \in Tasks : status'[u] =
            IF u[1] \in S /\ status[u] = "queued" THEN "dropped"
            ELSE IF u[1] \in S /\ status[u] \in InAction
                 THEN IF u \in Requests THEN "finishing" ELSE "dropped"
            ELSE status[u]
      /\ \A q \in Keys : tasks'[q] = IF q \in S THEN <<>> ELSE tasks[q]
  BY DEF Cancellation
<1>2. QueuedIsHeld'
  BY <1>1, TaskShape DEF OrderInv, QueuedIsHeld
<1>3. InOrder'
  BY <1>1 DEF OrderInv, InOrder, Keys
<1>4. Succession'
  <2>. SUFFICES ASSUME NEW q \in Routes,
                       NEW m \in 1..MaxRequests[q], NEW n \in 1..MaxRequests[q],
                       m < n
                PROVE  /\ status'[<<q, m>>] = "new" => status'[<<q, n>>] = "new"
                       /\ status'[<<q, m>>] = "queued" =>
                             status'[<<q, n>>] \in {"new", "queued"}
                       /\ status'[<<q, m>>] \in InFlight =>
                             status'[<<q, n>>] \in {"new", "queued", "dropped"}
    BY DEF Succession
  <2>. DEFINE a == <<q, m>>
              b == <<q, n>>
  <2>1. a \in Tasks /\ b \in Tasks /\ a[1] = q /\ b[1] = q
    BY RequestOnRoute
  <2>2. /\ status[a] = "new" => status[b] = "new"
        /\ status[a] = "queued" => status[b] \in {"new", "queued"}
        /\ status[a] \in InFlight => status[b] \in {"new", "queued", "dropped"}
    BY DEF OrderInv, Succession
  <2>3. "new" \notin InAction /\ "queued" \notin InAction /\ "dropped" \notin InAction
    BY DEF InAction
  <2>. HIDE DEF a, b
  <2>4. /\ status'[a] = "new" => status[a] = "new"
        /\ status'[a] = "queued" => status[a] = "queued" /\ q \notin S
        /\ status'[a] \in InFlight => status[a] \in InFlight
    BY <1>1, <2>1 DEF InFlight, InAction
  <2>5. /\ status[b] = "new" => status'[b] = "new"
        /\ status[b] = "queued" => status'[b] \in {"queued", "dropped"}
        /\ status[b] = "queued" /\ q \notin S => status'[b] = "queued"
        /\ status[b] = "dropped" => status'[b] = "dropped"
    BY <1>1, <2>1, <2>3
  <2>. QED
    BY <2>2, <2>4, <2>5 DEF a, b
<1>. QED
  BY <1>2, <1>3, <1>4 DEF OrderInv

LEMMA AddTaskKeepsOrder ==
    ASSUME IndInv, OrderInv, NEW k \in Routes, AddTask(k)
    PROVE  OrderInv'
<1>1. PICK j \in 1..MaxRequests[k] :
         /\ status[<<k, j>>] = "new"
         /\ \A m \in 1..(j - 1) : status[<<k, m>>] # "new"
         /\ tasks' = [tasks EXCEPT ![k] = Append(@, <<k, j>>)]
         /\ status' = [status EXCEPT ![<<k, j>>] = "queued"]
  BY DEF AddTask
<1>. DEFINE t == <<k, j>>
            s == tasks[k]
            now == Append(s, t)
<1>2. /\ k \in Keys /\ t \in Tasks /\ t \in Requests /\ j \in Nat
      /\ s \in Seq(Tasks)
  BY RequestOnRoute DEF Keys, IndInv, TypeOK
<1>3. t[1] = k /\ t[2] = j
  OBVIOUS
<1>4. /\ status[t] = "new"
      /\ \A u \in Tasks : status'[u] = IF u = t THEN "queued" ELSE status[u]
      /\ \A q \in Keys : tasks'[q] = IF q = k THEN now ELSE tasks[q]
  BY <1>1, <1>2 DEF IndInv, TypeOK
<1>5. \A i \in 1..Len(s) : /\ s[i] \in Tasks /\ s[i][1] = k
                           /\ status[s[i]] = "queued"
  BY <1>2 DEF IndInv, QueueContents
<1>6. \A i \in 1..Len(s) : s[i][2] < j
  <2>. SUFFICES ASSUME NEW i \in 1..Len(s)
                PROVE  s[i][2] < j
    OBVIOUS
  <2>1. s[i] \in Requests
    BY <1>5, TaskShape
  <2>2. /\ s[i] = <<k, s[i][2]>> /\ s[i][2] \in 1..MaxRequests[k]
        /\ s[i][2] \in Nat
    BY <1>5, <2>1, RequestShape
  <2>3. s[i][2] # j
    BY <1>4, <1>5, <2>2
  <2>4. ~(j < s[i][2])
    BY <1>1, <1>5, <2>2 DEF OrderInv, Succession
  <2>. QED
    BY <1>2, <2>2, <2>3, <2>4
<1>. HIDE DEF t, s
<1>7. /\ Len(s) \in Nat /\ Len(now) = Len(s) + 1
      /\ \A i \in 1..Len(s) : now[i] = s[i]
      /\ now[Len(s) + 1] = t
      /\ DOMAIN now = 1..(Len(s) + 1) /\ DOMAIN s = 1..Len(s)
  BY <1>2, AppendProperties
<1>. HIDE DEF now
<1>8. QueuedIsHeld'
  <2>. SUFFICES ASSUME NEW u \in Tasks, status'[u] = "queued"
                PROVE  u \in Range(tasks'[u[1]])
    BY DEF QueuedIsHeld
  <2>1. CASE u = t
    <3>1. Len(s) + 1 \in DOMAIN now
      BY <1>7
    <3>2. t \in Range(now)
      BY <1>7, <3>1 DEF Range
    <3>. QED
      BY <1>2, <1>3, <1>4, <2>1, <3>2
  <2>2. CASE u # t /\ u[1] = k
    <3>1. u \in Range(s)
      BY <1>4, <2>2 DEF OrderInv, QueuedIsHeld, s
    <3>2. u \in Range(now)
      BY <1>7, <3>1 DEF Range
    <3>. QED
      BY <1>2, <1>4, <2>2, <3>2
  <2>3. CASE u # t /\ u[1] # k
    BY <1>4, <2>3, TaskShape DEF OrderInv, QueuedIsHeld
  <2>. QED
    BY <2>1, <2>2, <2>3
<1>9. InOrder'
  <2>. SUFFICES ASSUME NEW q \in Routes,
                       NEW i \in 1..Len(tasks'[q]), NEW l \in 1..Len(tasks'[q]),
                       i < l
                PROVE  tasks'[q][i][2] < tasks'[q][l][2]
    BY DEF InOrder
  <2>1. CASE q # k
    BY <1>4, <2>1 DEF Keys, OrderInv, InOrder
  <2>2. CASE q = k
    <3>1. tasks'[q] = now /\ i \in 1..Len(s)
          /\ (l \in 1..Len(s) \/ l = Len(s) + 1)
      BY <1>2, <1>4, <1>7, <2>2
    <3>2. l \in 1..Len(s) => s[i][2] < s[l][2]
      BY <2>2, <3>1 DEF OrderInv, InOrder, s
    <3>. QED
      BY <1>3, <1>6, <1>7, <3>1, <3>2
  <2>. QED
    BY <2>1, <2>2
<1>10. Succession'
  <2>. SUFFICES ASSUME NEW q \in Routes,
                       NEW m \in 1..MaxRequests[q], NEW n \in 1..MaxRequests[q],
                       m < n
                PROVE  /\ status'[<<q, m>>] = "new" => status'[<<q, n>>] = "new"
                       /\ status'[<<q, m>>] = "queued" =>
                             status'[<<q, n>>] \in {"new", "queued"}
                       /\ status'[<<q, m>>] \in InFlight =>
                             status'[<<q, n>>] \in {"new", "queued", "dropped"}
    BY DEF Succession
  <2>. DEFINE a == <<q, m>>
              b == <<q, n>>
  <2>1. a \in Tasks /\ b \in Tasks
    BY RequestOnRoute
  <2>2. /\ status[a] = "new" => status[b] = "new"
        /\ status[a] = "queued" => status[b] \in {"new", "queued"}
        /\ status[a] \in InFlight => status[b] \in {"new", "queued", "dropped"}
    BY DEF OrderInv, Succession
  <2>3. b = t => status[a] # "new"
    <3>. SUFFICES ASSUME b = t PROVE status[a] # "new"
      OBVIOUS
    <3>1. q = k /\ n = j
      BY DEF t
    <3>2. m \in 1..(j - 1)
      BY <1>2, <3>1
    <3>. QED
      BY <1>1, <3>1, <3>2
  <2>. HIDE DEF a, b
  <2>4. a = t => status[b] = "new"
    BY <1>4, <2>2
  <2>5. "queued" \notin InFlight /\ "new" \notin InFlight
    BY DEF InFlight, InAction
  <2>. QED
    BY <1>4, <2>1, <2>2, <2>3, <2>4, <2>5 DEF a, b
<1>. QED
  BY <1>8, <1>9, <1>10 DEF OrderInv

\* What only concerns constructions leaves the order of routes alone.
LEMMA StartBuildKeepsOrder ==
    ASSUME IndInv, OrderInv, NEW k \in ServiceKeys, StartBuild(k)
    PROVE  OrderInv'
<1>. DEFINE steps == <<<<k, GET_PROTOCOL_INFO>>, <<k, SUBSCRIBE>>, <<k, DECLARE>>>>
<1>1. /\ tasks' = [tasks EXCEPT ![k] = steps]
      /\ status' = [t \in Tasks |-> IF t[1] = k THEN "queued" ELSE status[t]]
  BY DEF StartBuild
<1>2. k \in Keys /\ \A q \in Routes : q # k /\ q \in Keys
  BY RoutesAssumption, BuildsAssumption DEF Keys, ServiceKeys
<1>3. \A q \in Keys : tasks'[q] = IF q = k THEN steps ELSE tasks[q]
  BY <1>1 DEF IndInv, TypeOK
<1>4. QueuedIsHeld'
  <2>. SUFFICES ASSUME NEW u \in Tasks, status'[u] = "queued"
                PROVE  u \in Range(tasks'[u[1]])
    BY DEF QueuedIsHeld
  <2>1. CASE u[1] = k
    <3>1. u \in ServiceTasks
      BY <2>1, TaskShape
    <3>2. u = <<k, u[2]>> /\ u[2] \in 1..3
      BY <2>1, <3>1, StepShape
    <3>3. steps[u[2]] = u /\ u[2] \in DOMAIN steps
      BY <3>2 DEF GET_PROTOCOL_INFO, SUBSCRIBE, DECLARE
    <3>. QED
      BY <1>2, <1>3, <2>1, <3>3 DEF Range
  <2>2. CASE u[1] # k
    BY <1>1, <1>3, <2>2, TaskShape DEF OrderInv, QueuedIsHeld
  <2>. QED
    BY <2>1, <2>2
<1>5. InOrder'
  BY <1>2, <1>3 DEF OrderInv, InOrder
<1>6. Succession'
  <2>1. \A q \in Routes : \A n \in 1..MaxRequests[q] :
           status'[<<q, n>>] = status[<<q, n>>]
    BY <1>1, <1>2, RequestOnRoute
  <2>. QED
    BY <2>1 DEF OrderInv, Succession
<1>. QED
  BY <1>4, <1>5, <1>6 DEF OrderInv

LEMMA MainLoopQuitKeepsOrder ==
    ASSUME IndInv, OrderInv, MainLoopQuit
    PROVE  OrderInv'
<1>1. /\ tasks' = [k \in Keys |-> <<>>]
      /\ status' = [t \in Tasks |-> IF t \in Pending(queues) THEN "dropped"
                                    ELSE status[t]]
  BY DEF MainLoopQuit
<1>2. \A t \in Tasks : t \in Pending(queues) <=> status[t] = "queued"
  <2>1. queues \subseteq Keys
    BY DEF IndInv, TypeOK
  <2>2. Range(<<>>) = {}
    BY DEF Range
  <2>3. \A t \in Tasks : status[t] = "queued" => t[1] \in queues
    BY <2>2, TaskShape DEF OrderInv, QueuedIsHeld, IndInv, QueueContents
  <2>. QED
    BY <2>1, <2>3, Held DEF OrderInv
<1>3. \A t \in Tasks : status'[t] = IF status[t] = "queued" THEN "dropped"
                                    ELSE status[t]
  BY <1>1, <1>2
<1>4. QueuedIsHeld'
  BY <1>3 DEF QueuedIsHeld
<1>5. InOrder'
  BY <1>1 DEF InOrder, Keys
<1>6. Succession'
  <2>. SUFFICES ASSUME NEW q \in Routes,
                       NEW m \in 1..MaxRequests[q], NEW n \in 1..MaxRequests[q],
                       m < n
                PROVE  /\ status'[<<q, m>>] = "new" => status'[<<q, n>>] = "new"
                       /\ status'[<<q, m>>] = "queued" =>
                             status'[<<q, n>>] \in {"new", "queued"}
                       /\ status'[<<q, m>>] \in InFlight =>
                             status'[<<q, n>>] \in {"new", "queued", "dropped"}
    BY DEF Succession
  <2>1. <<q, m>> \in Tasks /\ <<q, n>> \in Tasks
    BY RequestOnRoute
  <2>. QED
    BY <1>3, <2>1 DEF OrderInv, Succession, InFlight, InAction
<1>. QED
  BY <1>4, <1>5, <1>6 DEF OrderInv

\* A task in flight stays so.
LEMMA FlightKeepsOrder ==
    ASSUME IndInv, OrderInv, UNCHANGED tasks,
           \A u \in Tasks : \/ status'[u] = status[u]
                            \/ status[u] \in InFlight /\ status'[u] \in InFlight
    PROVE  OrderInv'
<1>1. QueuedIsHeld'
  BY DEF OrderInv, QueuedIsHeld, InFlight, InAction
<1>2. InOrder'
  BY DEF OrderInv, InOrder
<1>3. Succession'
  <2>. SUFFICES ASSUME NEW q \in Routes,
                       NEW m \in 1..MaxRequests[q], NEW n \in 1..MaxRequests[q],
                       m < n
                PROVE  /\ status'[<<q, m>>] = "new" => status'[<<q, n>>] = "new"
                       /\ status'[<<q, m>>] = "queued" =>
                             status'[<<q, n>>] \in {"new", "queued"}
                       /\ status'[<<q, m>>] \in InFlight =>
                             status'[<<q, n>>] \in {"new", "queued", "dropped"}
    BY DEF Succession
  <2>1. <<q, m>> \in Tasks /\ <<q, n>> \in Tasks
    BY RequestOnRoute
  <2>2. /\ status[<<q, m>>] = "new" => status[<<q, n>>] = "new"
        /\ status[<<q, m>>] = "queued" => status[<<q, n>>] \in {"new", "queued"}
        /\ status[<<q, m>>] \in InFlight =>
              status[<<q, n>>] \in {"new", "queued", "dropped"}
    BY DEF OrderInv, Succession
  <2>. QED
    BY <2>1, <2>2 DEF InFlight, InAction
<1>. QED
  BY <1>1, <1>2, <1>3 DEF OrderInv

----------------------------------------------------------------------------
(***************************************************************************)
(* Answers: who is owed a reply, and who is there to get it                *)
(***************************************************************************)

\* A task that goes on, or that begins.
GoesOn(r) ==
    \/ status'[r] = status[r]
    \/ status[r] = "queued" /\ status'[r] \in InFlight
    \/ status[r] \in InAction /\ status'[r] \in InFlight

LEMMA AnswerKeepsInvoked ==
    ASSUME TypeOK, Invoked, NEW T, Answer(T),
           \A r \in Requests :
              /\ r \in T => /\ status[r] # "new"
                            /\ status'[r] \notin {"new", "queued"} \cup InAction
              /\ r \in T /\ r \in invocation' => FALSE
              /\ r \notin T => GoesOn(r)
    PROVE  Invoked'
<1>1. /\ invocation' = invocation \ T
      /\ \A r \in Requests : replies'[r] =
            replies[r] + IF r \in T \cap invocation THEN 1 ELSE 0
  BY DEF Answer
<1>. SUFFICES ASSUME NEW r \in Requests
              PROVE  /\ r \in invocation' =>
                           /\ replies'[r] = 0
                           /\ status'[r] \in {"queued"} \cup InFlight
                     /\ r \notin invocation' =>
                           /\ status'[r] \notin {"queued"} \cup InAction
                           /\ replies'[r] = IF status'[r] = "new" THEN 0 ELSE 1
  BY DEF Invoked
<1>2. /\ replies[r] \in Nat
      /\ r \in invocation => /\ replies[r] = 0
                             /\ status[r] \in {"queued"} \cup InFlight
      /\ r \notin invocation =>
            /\ status[r] \notin {"queued"} \cup InAction
            /\ replies[r] = IF status[r] = "new" THEN 0 ELSE 1
  BY DEF TypeOK, Invoked
<1>3. CASE r \in T
  BY <1>1, <1>2, <1>3
<1>4. CASE r \notin T
  <2>1. replies'[r] = replies[r] /\ (r \in invocation' <=> r \in invocation)
    BY <1>1, <1>2, <1>4
  <2>2. CASE status'[r] = status[r]
    BY <1>2, <2>1, <2>2
  <2>3. CASE status[r] \in {"queued"} \cup InAction /\ status'[r] \in InFlight
    BY <1>2, <2>1, <2>3
  <2>. QED
    BY <1>4, <2>2, <2>3 DEF GoesOn
<1>. QED
  BY <1>3, <1>4

LEMMA NoAnswerKeepsInvoked ==
    ASSUME Invoked, UNCHANGED <<invocation, replies>>,
           \A r \in Requests : GoesOn(r)
    PROVE  Invoked'
BY DEF Invoked, GoesOn, InFlight

\* A request that is owed a reply is on a queue of the table.
LEMMA InvokedOnQueue ==
    ASSUME IndInv, OrderInv, AnswerInv, loop # "stopped",
           NEW r \in Requests, r \in invocation
    PROVE  /\ r \in Tasks /\ r[1] \in queues
           /\ status[r] \in {"queued"} \cup InFlight
<1>1. r \in Tasks /\ r[1] \in Keys /\ r # NoTask
  BY RequestShape, TaskShape
<1>2. status[r] \in {"queued"} \cup InFlight
  BY DEF AnswerInv, Invoked
<1>3. CASE status[r] = "queued"
  <2>1. Range(<<>>) = {}
    BY DEF Range
  <2>. QED
    BY <1>1, <1>3, <2>1 DEF OrderInv, QueuedIsHeld, IndInv, QueueContents
<1>4. CASE status[r] \in InFlight
  BY <1>1, <1>4 DEF IndInv, InFlightCurrent, BusyQueueLive
<1>. QED
  BY <1>1, <1>2, <1>3, <1>4

LEMMA CompletionKeepsAnswers ==
    ASSUME IndInv, OrderInv, AnswerInv, NEW k, NEW t, NEW gone \in BOOLEAN,
           Completion(k, t, gone)
    PROVE  AnswerInv'
<1>. DEFINE T == {t} \cup IF gone THEN Waiting(k) ELSE {}
<1>1. /\ t \in Tasks /\ First(k, t) /\ t[1] = k
      /\ \A u \in Tasks : status'[u] =
            IF u = t THEN "completed"
            ELSE IF gone /\ u \in Waiting(k) THEN "dropped" ELSE status[u]
      /\ Answer(T)
      /\ defer' = IF gone THEN defer \ {k} ELSE defer
      /\ loop # "stopped" /\ UNCHANGED <<loop, watchers>>
  BY DEF Completion
<1>2. invocation' = invocation \ T
  BY <1>1 DEF Answer
<1>3. \A u \in Tasks : u \in T => /\ status[u] \in {"queued"} \cup InFlight
                                  /\ status'[u] \in {"completed", "dropped"}
  BY <1>1 DEF First, Waiting
<1>4. \A u \in Tasks : u \notin T => status'[u] = status[u]
  BY <1>1
<1>. HIDE DEF T
<1>5. Invoked'
  <2>1. \A r \in Requests :
           /\ r \in T => /\ status[r] # "new"
                         /\ status'[r] \notin {"new", "queued"} \cup InAction
           /\ r \in T /\ r \in invocation' => FALSE
           /\ r \notin T => GoesOn(r)
    BY <1>2, <1>3, <1>4 DEF Tasks, GoesOn, InFlight, InAction
  <2>. QED
    BY <1>1, <2>1, AnswerKeepsInvoked DEF IndInv, AnswerInv
<1>6. Watched'
  <2>. SUFFICES ASSUME NEW r \in invocation'
                PROVE  r[1][1] \in watchers' \/ r[1] \in defer'
    BY DEF Watched
  <2>1. r \in invocation /\ r \notin T /\ r \in Requests
    BY <1>2 DEF IndInv, TypeOK
  <2>2. r[1][1] \in watchers \/ r[1] \in defer
    BY <1>1, <2>1 DEF AnswerInv, Watched
  <2>3. CASE gone /\ r[1] = k
    <3>1. r \in Tasks /\ status[r] \in {"queued"} \cup InFlight
      BY <1>1, <2>1, InvokedOnQueue
    <3>2. status[r] # "queued"
      BY <2>1, <2>3, <3>1 DEF T, Waiting
    <3>3. current[k] = r /\ r # NoTask
      BY <2>3, <3>1, <3>2, TaskShape DEF IndInv, InFlightCurrent
    <3>4. r = t
      BY <1>1, <3>3 DEF First, IndInv, InFlightCurrent
    <3>. QED
      BY <2>1, <3>4 DEF T
  <2>4. CASE ~(gone /\ r[1] = k)
    BY <1>1, <2>2, <2>4
  <2>. QED
    BY <2>3, <2>4
<1>. QED
  BY <1>5, <1>6 DEF AnswerInv

LEMMA BeginningKeepsAnswers ==
    ASSUME IndInv, AnswerInv, NEW k, NEW t, NEW s, Beginning(k, t, s)
    PROVE  AnswerInv'
<1>1. /\ t \in Tasks /\ status[t] = "queued" /\ s \in InFlight
      /\ \A u \in Tasks : status'[u] = IF u = t THEN s ELSE status[u]
      /\ UNCHANGED <<invocation, replies, defer, loop, watchers>>
  BY DEF Beginning
<1>2. \A r \in Requests : GoesOn(r)
  BY <1>1 DEF GoesOn, Tasks
<1>. QED
  BY <1>1, <1>2, NoAnswerKeepsInvoked DEF AnswerInv, Watched

\* Who leaves, leaves no queue behind that is not cancelled.
LEMMA CancellationKeepsAnswers ==
    ASSUME IndInv, OrderInv, AnswerInv, NEW S, NEW R, Cancellation(S, R),
           defer \subseteq defer',
           \A k \in queues \ defer : k[1] \in watchers \ watchers' => k \in S
    PROVE  AnswerInv'
<1>. DEFINE T == {u \in Tasks : /\ u[1] \in S
                                /\ status[u] \in {"queued"} \cup InFlight}
<1>1. /\ \A u \in Tasks : status'[u] =
            IF u[1] \in S /\ status[u] = "queued" THEN "dropped"
            ELSE IF u[1] \in S /\ status[u] \in InAction
                 THEN IF u \in Requests THEN "finishing" ELSE "dropped"
            ELSE status[u]
      /\ Answer(T)
      /\ loop # "stopped" /\ UNCHANGED loop
  BY DEF Cancellation
<1>2. invocation' = invocation \ T
  BY <1>1 DEF Answer
<1>3. Invoked'
  <2>1. \A r \in Requests :
           /\ r \in T => /\ status[r] # "new"
                         /\ status'[r] \notin {"new", "queued"} \cup InAction
           /\ r \notin T => status'[r] = status[r]
    BY <1>1 DEF Tasks, InFlight, InAction
  <2>2. \A r \in Requests :
           /\ r \in T /\ r \in invocation' => FALSE
           /\ r \notin T => GoesOn(r)
    BY <1>2, <2>1 DEF GoesOn
  <2>. HIDE DEF T
  <2>. QED
    BY <1>1, <2>1, <2>2, AnswerKeepsInvoked DEF IndInv, AnswerInv
<1>4. Watched'
  <2>. SUFFICES ASSUME NEW r \in invocation'
                PROVE  r[1][1] \in watchers' \/ r[1] \in defer'
    BY DEF Watched
  <2>1. r \in invocation /\ r \notin T /\ r \in Requests
    BY <1>2 DEF IndInv, TypeOK
  <2>2. r[1][1] \in watchers \/ r[1] \in defer
    BY <1>1, <2>1 DEF AnswerInv, Watched
  <2>3. r \in Tasks /\ r[1] \in queues /\ status[r] \in {"queued"} \cup InFlight
    BY <1>1, <2>1, InvokedOnQueue
  <2>4. r[1] \notin S
    BY <2>1, <2>3
  <2>. QED
    BY <2>2, <2>3, <2>4
<1>. QED
  BY <1>3, <1>4 DEF AnswerInv

LEMMA AddTaskKeepsAnswers ==
    ASSUME IndInv, AnswerInv, NEW k \in Routes, AddTask(k)
    PROVE  AnswerInv'
<1>1. PICK j \in 1..MaxRequests[k] :
         /\ status[<<k, j>>] = "new"
         /\ status' = [status EXCEPT ![<<k, j>>] = "queued"]
         /\ invocation' = invocation \cup {<<k, j>>}
  BY DEF AddTask
<1>. DEFINE t == <<k, j>>
<1>2. t \in Tasks /\ t \in Requests /\ t[1] = k
  BY RequestOnRoute
<1>3. /\ status[t] = "new" /\ invocation' = invocation \cup {t}
      /\ \A u \in Tasks : status'[u] = IF u = t THEN "queued" ELSE status[u]
      /\ watchers' = watchers \cup {k[1]}
      /\ UNCHANGED <<defer, loop, replies>>
  BY <1>1, <1>2 DEF AddTask, IndInv, TypeOK
<1>. HIDE DEF t
<1>4. Invoked'
  <2>1. replies[t] = 0
    BY <1>2, <1>3 DEF AnswerInv, Invoked, InFlight, InAction
  <2>. QED
    BY <1>2, <1>3, <2>1 DEF AnswerInv, Invoked, Tasks
<1>5. Watched'
  BY <1>2, <1>3 DEF AnswerInv, Watched
<1>. QED
  BY <1>4, <1>5 DEF AnswerInv

LEMMA StartBuildKeepsAnswers ==
    ASSUME IndInv, AnswerInv, NEW k \in ServiceKeys, StartBuild(k)
    PROVE  AnswerInv'
<1>1. /\ status' = [t \in Tasks |-> IF t[1] = k THEN "queued" ELSE status[t]]
      /\ UNCHANGED <<invocation, replies, defer, loop, watchers>>
  BY DEF StartBuild, processVars
<1>2. \A r \in Requests : GoesOn(r)
  BY <1>1, RequestShape DEF GoesOn
<1>. QED
  BY <1>1, <1>2, NoAnswerKeepsInvoked DEF AnswerInv, Watched

LEMMA MainLoopQuitKeepsAnswers ==
    ASSUME IndInv, OrderInv, AnswerInv, MainLoopQuit
    PROVE  AnswerInv'
<1>1. /\ loop' = "stopped" /\ Answer(Pending(queues))
      /\ status' = [t \in Tasks |-> IF t \in Pending(queues) THEN "dropped"
                                    ELSE status[t]]
  BY DEF MainLoopQuit
<1>2. \A t \in Pending(queues) : status[t] = "queued"
  BY PendingElements DEF IndInv, TypeOK
<1>3. \A r \in Requests :
         /\ r \in Pending(queues) =>
               /\ status[r] # "new"
               /\ status'[r] \notin {"new", "queued"} \cup InAction
         /\ r \notin Pending(queues) => GoesOn(r)
  BY <1>1, <1>2 DEF GoesOn, Tasks, InAction
<1>4. \A r \in Requests : r \in Pending(queues) /\ r \in invocation' => FALSE
  BY <1>1 DEF Answer
<1>. QED
  BY <1>1, <1>3, <1>4, AnswerKeepsInvoked DEF IndInv, AnswerInv, Watched

LEMMA FlightKeepsAnswers ==
    ASSUME AnswerInv, UNCHANGED <<invocation, replies, watchers, defer>>,
           \A r \in Requests : GoesOn(r),
           loop' = "stopped" \/ loop # "stopped"
    PROVE  AnswerInv'
BY NoAnswerKeepsInvoked DEF AnswerInv, Watched

----------------------------------------------------------------------------
(***************************************************************************)
(* Wake-ups: queues that hold tasks, doomed queues, the shutdown           *)
(***************************************************************************)
LEMMA RoutesAreNoServices == \A k \in Routes : k \in Keys /\ k \notin ServiceKeys
BY RoutesAssumption, BuildsAssumption DEF Keys, ServiceKeys

LEMMA CompletionKeepsWakes ==
    ASSUME IndInv, WakeInv, NEW k, NEW t, NEW gone \in BOOLEAN,
           Completion(k, t, gone), CompletionWakes(k, gone)
    PROVE  WakeInv'
<1>1. /\ k \in Keys /\ k \in queues /\ loop # "stopped"
      /\ \A q \in Keys : q # k => tasks'[q] = tasks[q]
      /\ \A q \in Keys : current'[q] = IF q = k THEN NoTask ELSE current[q]
      /\ tasks'[k] = IF gone THEN <<>> ELSE Behind(k, t)
      /\ queues' = IF gone THEN queues \ {k} ELSE queues
      /\ defer' = IF gone THEN defer \ {k} ELSE defer
      /\ UNCHANGED <<quitting, loop>>
  BY DEF Completion
<1>2. /\ running' \in Nat
      /\ onQuit => onQuit'
      /\ quitting /\ running' = 0 => onQuit'
      /\ \A q \in Keys : q # k => (q \in idle' <=> q \in idle)
      /\ gone \/ onQuit' \/ (k \notin defer /\ (tasks'[k] # <<>> => k \in idle'))
  BY DEF CompletionWakes
<1>3. queues \subseteq Keys /\ defer \subseteq Keys
  BY DEF IndInv, TypeOK
<1>4. RoutesDoomed'
  BY <1>1 DEF WakeInv, RoutesDoomed
<1>5. NoLostWakeup'
  <2>. SUFFICES ASSUME NEW q \in queues', tasks'[q] # <<>>
                PROVE  \/ q \in idle' \/ current'[q] # NoTask
                       \/ onQuit' \/ loop' # "running"
    BY DEF NoLostWakeup
  <2>1. CASE q = k
    BY <1>1, <1>2, <2>1
  <2>2. CASE q # k
    <3>1. q \in queues /\ q \in Keys /\ tasks[q] # <<>>
      BY <1>1, <1>3, <2>2
    <3>2. q \in idle \/ current[q] # NoTask \/ onQuit \/ loop # "running"
      BY <3>1 DEF WakeInv, NoLostWakeup
    <3>. QED
      BY <1>1, <1>2, <2>2, <3>1, <3>2
  <2>. QED
    BY <2>1, <2>2
<1>6. DoomedQueueIsRemoved'
  <2>. SUFFICES ASSUME NEW q \in defer'
                PROVE  /\ q \in queues'
                       /\ current'[q] # NoTask \/ onQuit' \/ loop' = "stopping"
    BY DEF DoomedQueueIsRemoved
  <2>1. /\ q \in defer /\ q \in Keys /\ q \in queues
        /\ current[q] # NoTask \/ onQuit \/ loop = "stopping"
    BY <1>1, <1>3 DEF WakeInv, DoomedQueueIsRemoved
  <2>2. CASE q = k
    BY <1>1, <1>2, <2>1, <2>2
  <2>3. CASE q # k
    BY <1>1, <1>2, <2>1, <2>3
  <2>. QED
    BY <2>2, <2>3
<1>7. QuitNotForgotten'
  BY <1>1, <1>2 DEF QuitNotForgotten
<1>. QED
  BY <1>4, <1>5, <1>6, <1>7 DEF WakeInv

LEMMA BeginningKeepsWakes ==
    ASSUME IndInv, WakeInv, NEW k, NEW t, NEW s, Beginning(k, t, s)
    PROVE  WakeInv'
<1>1. /\ k \in Keys /\ t \in Tasks
      /\ \A q \in Keys : tasks'[q] = IF q = k THEN Behind(k, t) ELSE tasks[q]
      /\ \A q \in Keys : current'[q] = IF q = k THEN t ELSE current[q]
      /\ idle' = idle \ {k} /\ running' = running + 1
      /\ UNCHANGED <<queues, defer, quitting, onQuit, loop>>
  BY DEF Beginning
<1>2. /\ queues \subseteq Keys /\ defer \subseteq Keys /\ running \in Nat
      /\ t # NoTask
  BY <1>1, TaskShape DEF IndInv, TypeOK
<1>3. RoutesDoomed'
  BY <1>1 DEF WakeInv, RoutesDoomed
<1>4. NoLostWakeup'
  BY <1>1, <1>2 DEF WakeInv, NoLostWakeup
<1>5. DoomedQueueIsRemoved'
  BY <1>1, <1>2 DEF WakeInv, DoomedQueueIsRemoved
<1>6. QuitNotForgotten'
  BY <1>1, <1>2 DEF QuitNotForgotten
<1>. QED
  BY <1>3, <1>4, <1>5, <1>6 DEF WakeInv

\* What is doomed runs a task and stays in the table; who asks to quit leaves
\* something that will.
LEMMA CancellationKeepsWakes ==
    ASSUME IndInv, WakeInv, NEW S, NEW R, Cancellation(S, R),
           defer' \subseteq defer \cup {k \in queues : current[k] # NoTask},
           defer' \subseteq Routes, defer' \cap R = {},
           onQuit => onQuit',
           quitting' => running' > 0 \/ onQuit' \/ loop # "running"
    PROVE  WakeInv'
<1>1. /\ \A q \in Keys : tasks'[q] = IF q \in S THEN <<>> ELSE tasks[q]
      /\ \A q \in Keys : current'[q] = IF q \in R \cup Interrupted(S) THEN NoTask
                                       ELSE current[q]
      /\ R \subseteq S /\ loop # "stopped"
      /\ queues' = queues \ R /\ idle' = idle \ S
      /\ UNCHANGED loop
  BY DEF Cancellation
<1>2. /\ queues \subseteq Keys /\ Interrupted(S) \subseteq S \cap ServiceKeys
  BY DEF IndInv, TypeOK, Interrupted
<1>3. RoutesDoomed'
  BY DEF RoutesDoomed
<1>4. NoLostWakeup'
  <2>. SUFFICES ASSUME NEW q \in queues', tasks'[q] # <<>>
                PROVE  \/ q \in idle' \/ current'[q] # NoTask
                       \/ onQuit' \/ loop' # "running"
    BY DEF NoLostWakeup
  <2>1. q \in queues /\ q \in Keys /\ q \notin S /\ tasks[q] # <<>>
    BY <1>1, <1>2
  <2>2. q \in idle \/ current[q] # NoTask \/ onQuit \/ loop # "running"
    BY <2>1 DEF WakeInv, NoLostWakeup
  <2>. QED
    BY <1>1, <1>2, <2>1, <2>2
<1>5. DoomedQueueIsRemoved'
  <2>. SUFFICES ASSUME NEW q \in defer'
                PROVE  /\ q \in queues'
                       /\ current'[q] # NoTask \/ onQuit' \/ loop' = "stopping"
    BY DEF DoomedQueueIsRemoved
  <2>1. /\ q \in queues /\ q \in Keys
        /\ current[q] # NoTask \/ onQuit \/ loop = "stopping"
    BY <1>1, <1>2 DEF WakeInv, DoomedQueueIsRemoved
  <2>2. q \notin R \cup Interrupted(S)
    BY <1>2, RoutesAreNoServices
  <2>. QED
    BY <1>1, <2>1, <2>2
<1>6. QuitNotForgotten'
  BY <1>1 DEF QuitNotForgotten
<1>. QED
  BY <1>3, <1>4, <1>5, <1>6 DEF WakeInv

LEMMA AddTaskKeepsWakes ==
    ASSUME IndInv, WakeInv, NEW k \in Routes, AddTask(k)
    PROVE  WakeInv'
<1>1. /\ loop # "stopped" /\ k \in Keys
      /\ \A q \in Keys : q # k => tasks'[q] = tasks[q]
      /\ queues' = queues \cup {k}
      /\ idle' = idle \cup AutoStart(k)
      /\ UNCHANGED <<current, defer, running, quitting, onQuit, loop>>
  BY RoutesAreNoServices DEF AddTask, IndInv, TypeOK
<1>2. queues \subseteq Keys
  BY DEF IndInv, TypeOK
<1>3. RoutesDoomed' /\ QuitNotForgotten'
  BY <1>1 DEF WakeInv, RoutesDoomed, QuitNotForgotten
<1>4. DoomedQueueIsRemoved'
  BY <1>1 DEF WakeInv, DoomedQueueIsRemoved
<1>5. NoLostWakeup'
  <2>. SUFFICES ASSUME NEW q \in queues', tasks'[q] # <<>>
                PROVE  \/ q \in idle' \/ current'[q] # NoTask
                       \/ onQuit' \/ loop' # "running"
    BY DEF NoLostWakeup
  <2>1. CASE q # k
    BY <1>1, <1>2, <2>1 DEF WakeInv, NoLostWakeup
  <2>2. CASE q = k /\ current[k] = NoTask /\ k \in defer
    BY <1>1, <2>2 DEF WakeInv, DoomedQueueIsRemoved
  <2>3. CASE q = k /\ current[k] = NoTask /\ k \notin defer
    BY <1>1, <2>3 DEF AutoStart
  <2>4. CASE q = k /\ current[k] # NoTask
    BY <1>1, <2>4
  <2>. QED
    BY <2>1, <2>2, <2>3, <2>4
<1>. QED
  BY <1>3, <1>4, <1>5 DEF WakeInv

LEMMA StartBuildKeepsWakes ==
    ASSUME IndInv, WakeInv, NEW k \in ServiceKeys, StartBuild(k)
    PROVE  WakeInv'
<1>1. /\ k \in Keys
      /\ \A q \in Keys : q # k => tasks'[q] = tasks[q]
      /\ queues' = queues \cup {k}
      /\ idle' = idle \cup AutoStart(k)
      /\ UNCHANGED <<current, defer, running, quitting, onQuit, loop>>
  BY DEF StartBuild, processVars, Keys, IndInv, TypeOK
<1>2. queues \subseteq Keys /\ k \notin defer
  BY RoutesAreNoServices DEF IndInv, TypeOK, WakeInv, RoutesDoomed
<1>3. RoutesDoomed' /\ QuitNotForgotten'
  BY <1>1 DEF WakeInv, RoutesDoomed, QuitNotForgotten
<1>4. DoomedQueueIsRemoved'
  BY <1>1 DEF WakeInv, DoomedQueueIsRemoved
<1>5. NoLostWakeup'
  <2>. SUFFICES ASSUME NEW q \in queues', tasks'[q] # <<>>
                PROVE  \/ q \in idle' \/ current'[q] # NoTask
                       \/ onQuit' \/ loop' # "running"
    BY DEF NoLostWakeup
  <2>1. CASE q # k
    BY <1>1, <1>2, <2>1 DEF WakeInv, NoLostWakeup
  <2>2. CASE q = k
    BY <1>1, <1>2, <2>2 DEF AutoStart
  <2>. QED
    BY <2>1, <2>2
<1>. QED
  BY <1>3, <1>4, <1>5 DEF WakeInv

\* Once the loop stops, nothing is left in the table; as long as it does not,
\* nothing changes.
LEMMA QuietKeepsWakes ==
    ASSUME WakeInv, UNCHANGED <<tasks, current, idle, defer, running, quitting>>,
           \/ UNCHANGED <<queues, onQuit, loop>>
           \/ loop' = "stopping" /\ loop # "stopped" /\ UNCHANGED queues
    PROVE  WakeInv'
<1>1. RoutesDoomed' /\ QuitNotForgotten'
  BY DEF WakeInv, RoutesDoomed, QuitNotForgotten
<1>2. NoLostWakeup'
  BY DEF WakeInv, NoLostWakeup
<1>3. DoomedQueueIsRemoved'
  BY DEF WakeInv, DoomedQueueIsRemoved
<1>. QED
  BY <1>1, <1>2, <1>3 DEF WakeInv

LEMMA MainLoopQuitKeepsWakes ==
    ASSUME WakeInv, MainLoopQuit
    PROVE  WakeInv'
<1>1. loop' = "stopped" /\ queues' = {} /\ defer' = defer
  BY DEF MainLoopQuit
<1>. QED
  BY <1>1 DEF WakeInv, RoutesDoomed, NoLostWakeup, DoomedQueueIsRemoved,
              QuitNotForgotten

----------------------------------------------------------------------------
(***************************************************************************)
(* Constructions: what is published has been built                         *)
(***************************************************************************)
LEMMA BuildSteps ==
    ASSUME NEW k \in ServiceKeys, NEW n \in 1..3
    PROVE  <<k, n>> \in Tasks /\ <<k, n>> \in ServiceTasks /\ k \in Keys
BY DEF Tasks, ServiceTasks, Keys

\* What begins, goes on or ends in a step that leaves alone whatever belongs
\* to cancelled constructions: the parts of BuildInv that only look at the
\* tasks of a construction that has begun.
LEMMA StatusKeepsBuilds ==
    ASSUME IndInv, BuildInv,
           \A u \in Tasks : status[u] # "new" => status'[u] # "new",
           \A u \in Tasks : status[u] = "completed" => status'[u] = "completed",
           \A u \in ServiceTasks : status'[u] # "finishing",
           (queues' \cap ServiceKeys) \cup cancelled' \cup finally' \cup exposed'
               \subseteq (queues \cap ServiceKeys) \cup cancelled \cup finally
                         \cup exposed,
           exposed' = exposed
    PROVE  BuildBegun' /\ ServiceSteps' /\ ExposedOnlyIfBuilt'
<1>1. cancelled \subseteq ServiceKeys /\ finally \subseteq ServiceKeys
      /\ exposed \subseteq ServiceKeys
  BY DEF IndInv, TypeOK
<1>2. BuildBegun'
  <2>. SUFFICES ASSUME NEW k \in (queues' \cap ServiceKeys) \cup cancelled'
                                 \cup finally' \cup exposed',
                       NEW n \in 1..3
                PROVE  status'[<<k, n>>] # "new"
    BY DEF BuildBegun
  <2>1. k \in (queues \cap ServiceKeys) \cup cancelled \cup finally \cup exposed
    OBVIOUS
  <2>2. k \in ServiceKeys /\ status[<<k, n>>] # "new"
    BY <1>1, <2>1 DEF BuildInv, BuildBegun
  <2>. QED
    BY <2>2, BuildSteps
<1>3. ServiceSteps'
  BY DEF ServiceSteps
<1>4. ExposedOnlyIfBuilt'
  <2>. SUFFICES ASSUME NEW k \in exposed, NEW n \in 1..3
                PROVE  status'[<<k, n>>] = "completed"
    BY DEF ExposedOnlyIfBuilt
  <2>1. k \in ServiceKeys /\ status[<<k, n>>] = "completed"
    BY <1>1 DEF BuildInv, ExposedOnlyIfBuilt
  <2>. QED
    BY <2>1, BuildSteps
<1>. QED
  BY <1>2, <1>3, <1>4

LEMMA CompletionKeepsBuilds ==
    ASSUME IndInv, BuildInv, RoutesDoomed,
           NEW k, NEW t, NEW gone \in BOOLEAN,
           Completion(k, t, gone), CompletionWakes(k, gone),
           k \notin cancelled, UNCHANGED cancelled
    PROVE  BuildInv'
<1>1. /\ k \in Keys /\ k \in queues /\ t \in Tasks /\ t[1] = k /\ First(k, t)
      /\ loop # "stopped"
      /\ gone => k \in defer \cup ServiceKeys
      /\ gone /\ k \notin defer => Waiting(k) \subseteq {t}
      /\ \A u \in Tasks : status'[u] =
            IF u = t THEN "completed"
            ELSE IF gone /\ u \in Waiting(k) THEN "dropped" ELSE status[u]
      /\ \A q \in Keys : current'[q] = IF q = k THEN NoTask ELSE current[q]
      /\ queues' = IF gone THEN queues \ {k} ELSE queues
      /\ finally' = finally \cup IF gone THEN {k} \cap ServiceKeys ELSE {}
      /\ UNCHANGED <<exposed, loop>>
  BY DEF Completion
<1>2. \A q \in Keys : q # k => (q \in idle' <=> q \in idle)
  BY DEF CompletionWakes
<1>3. \A u \in Waiting(k) : status[u] = "queued" /\ u[1] = k
  BY DEF Waiting
<1>4. \A u \in Tasks : u[1] # k => status'[u] = status[u]
  BY <1>1, <1>3
<1>5. /\ cancelled \subseteq ServiceKeys /\ finally \subseteq ServiceKeys
      /\ \A q \in ServiceKeys : q \in Keys
  BY DEF IndInv, TypeOK, Keys
<1>6. CancelledIsOver'
  <2>. SUFFICES ASSUME NEW q \in cancelled
                PROVE  /\ q \notin idle'
                       /\ current'[q] # NoTask =>
                             status'[current'[q]] \notin InAction
    BY DEF CancelledIsOver
  <2>1. q \in Keys /\ q # k
    BY <1>5
  <2>2. /\ q \notin idle
        /\ current[q] # NoTask => status[current[q]] \notin InAction
    BY DEF BuildInv, CancelledIsOver
  <2>3. current[q] # NoTask => current[q] \in Tasks /\ current[q][1] = q
    BY <2>1 DEF IndInv, TypeOK, CurrentInFlight
  <2>. QED
    BY <1>1, <1>2, <1>4, <2>1, <2>2, <2>3
<1>7. BuildBegun' /\ ServiceSteps' /\ ExposedOnlyIfBuilt'
  <2>1. /\ \A u \in Tasks : status[u] # "new" => status'[u] # "new"
        /\ \A u \in Tasks : status[u] = "completed" => status'[u] = "completed"
    BY <1>1, <1>3
  <2>2. \A u \in ServiceTasks : status'[u] # "finishing"
    BY <1>1 DEF BuildInv, ServiceSteps, Tasks
  <2>3. (queues' \cap ServiceKeys) \cup cancelled' \cup finally' \cup exposed'
           \subseteq (queues \cap ServiceKeys) \cup cancelled \cup finally
                     \cup exposed
    BY <1>1
  <2>. QED
    BY <1>1, <2>1, <2>2, <2>3, StatusKeepsBuilds
<1>8. BuildComplete'
  <2>. SUFFICES ASSUME NEW q \in ServiceKeys \ cancelled, NEW n \in 1..3
                PROVE  /\ q \in queues' => status'[<<q, n>>] # "dropped"
                       /\ q \in finally' => status'[<<q, n>>] = "completed"
    BY DEF BuildComplete
  <2>. DEFINE u == <<q, n>>
  <2>1. u \in Tasks /\ u[1] = q
    BY BuildSteps
  <2>2. /\ q \in queues => status[u] # "dropped"
        /\ q \in finally => status[u] = "completed"
        /\ q \in queues => status[u] # "new"
    BY <1>1 DEF BuildInv, BuildComplete, BuildBegun
  <2>. HIDE DEF u
  <2>3. q \in queues' => status'[u] # "dropped"
    BY <1>1, <1>3, <2>1, <2>2
  <2>4. q \in finally => status'[u] = "completed"
    BY <1>1, <1>3, <2>1, <2>2
  <2>5. ASSUME q = k, gone
        PROVE  status'[u] = "completed"
    <3>1. Waiting(k) \subseteq {t}
      BY <1>1, <2>5, RoutesAreNoServices DEF RoutesDoomed
    <3>2. CASE status[u] = "queued"
      BY <1>1, <2>1, <2>5, <3>1, <3>2 DEF Waiting
    <3>3. CASE status[u] \in InFlight
      <4>1. current[k] = u /\ u # NoTask
        BY <2>1, <2>5, <3>3, TaskShape DEF IndInv, InFlightCurrent
      <4>2. u = t
        BY <1>1, <4>1 DEF First, IndInv, InFlightCurrent
      <4>. QED
        BY <1>1, <4>2
    <3>4. CASE status[u] = "completed"
      BY <1>1, <1>3, <2>1, <3>4
    <3>5. status[u] \in {"queued", "completed"} \cup InFlight
      BY <1>1, <2>1, <2>2, <2>5 DEF IndInv, TypeOK, Status
    <3>. QED
      BY <3>2, <3>3, <3>4, <3>5
  <2>. QED
    BY <1>1, <2>3, <2>4, <2>5 DEF u
<1>. QED
  BY <1>6, <1>7, <1>8 DEF BuildInv

LEMMA BeginningKeepsBuilds ==
    ASSUME IndInv, BuildInv, NEW k, NEW t, NEW s, Beginning(k, t, s),
           k \notin cancelled,
           k \in ServiceKeys => s # "finishing",
           \/ UNCHANGED cancelled
           \/ k \in ServiceKeys /\ s = "stuck" /\ cancelled' = cancelled \cup {k}
    PROVE  BuildInv'
<1>1. /\ k \in Keys /\ k \in queues /\ t \in Tasks /\ t[1] = k
      /\ status[t] = "queued" /\ s \in InFlight
      /\ \A u \in Tasks : status'[u] = IF u = t THEN s ELSE status[u]
      /\ \A q \in Keys : current'[q] = IF q = k THEN t ELSE current[q]
      /\ idle' = idle \ {k}
      /\ UNCHANGED <<queues, finally, exposed, loop>>
  BY DEF Beginning
<1>2. /\ cancelled \subseteq ServiceKeys /\ finally \subseteq ServiceKeys
      /\ \A q \in ServiceKeys : q \in Keys
  BY DEF IndInv, TypeOK, Keys
<1>3. s \notin {"new", "queued", "completed", "dropped"}
  BY <1>1 DEF InFlight, InAction
<1>4. CancelledIsOver'
  <2>. SUFFICES ASSUME NEW q \in cancelled'
                PROVE  /\ q \notin idle'
                       /\ current'[q] # NoTask =>
                             status'[current'[q]] \notin InAction
    BY DEF CancelledIsOver
  <2>1. CASE q = k
    <3>1. s = "stuck" /\ status'[current'[k]] = s
      BY <1>1, <2>1
    <3>. QED
      BY <1>1, <2>1, <3>1 DEF InAction
  <2>2. CASE q # k
    <3>1. q \in cancelled /\ q \in Keys
      BY <1>2, <2>2
    <3>2. /\ q \notin idle
          /\ current[q] # NoTask => status[current[q]] \notin InAction
      BY <3>1 DEF BuildInv, CancelledIsOver
    <3>3. current[q] # NoTask => current[q] \in Tasks /\ current[q][1] = q
      BY <3>1 DEF IndInv, TypeOK, CurrentInFlight
    <3>. QED
      BY <1>1, <2>2, <3>1, <3>2, <3>3
  <2>. QED
    BY <2>1, <2>2
<1>5. BuildBegun' /\ ServiceSteps' /\ ExposedOnlyIfBuilt'
  <2>1. /\ \A u \in Tasks : status[u] # "new" => status'[u] # "new"
        /\ \A u \in Tasks : status[u] = "completed" => status'[u] = "completed"
    BY <1>1, <1>3
  <2>2. \A u \in ServiceTasks : status'[u] # "finishing"
    BY <1>1, StepShape DEF BuildInv, ServiceSteps
  <2>3. (queues' \cap ServiceKeys) \cup cancelled' \cup finally' \cup exposed'
           \subseteq (queues \cap ServiceKeys) \cup cancelled \cup finally
                     \cup exposed
    BY <1>1
  <2>. QED
    BY <1>1, <2>1, <2>2, <2>3, StatusKeepsBuilds
<1>6. BuildComplete'
  <2>. SUFFICES ASSUME NEW q \in ServiceKeys \ cancelled, NEW n \in 1..3
                PROVE  /\ q \in queues => status'[<<q, n>>] # "dropped"
                       /\ q \in finally /\ loop # "stopped" =>
                             status'[<<q, n>>] = "completed"
    BY <1>1 DEF BuildComplete
  <2>1. <<q, n>> \in Tasks
    BY BuildSteps
  <2>. QED
    BY <1>1, <1>3, <2>1 DEF BuildInv, BuildComplete
<1>. QED
  BY <1>4, <1>5, <1>6 DEF BuildInv

LEMMA CancellationKeepsBuilds ==
    ASSUME IndInv, BuildInv, NEW S, NEW R, Cancellation(S, R)
    PROVE  BuildInv'
<1>1. /\ loop # "stopped" /\ S \subseteq queues /\ R \subseteq S
      /\ \A u \in Tasks : status'[u] =
            IF u[1] \in S /\ status[u] = "queued" THEN "dropped"
            ELSE IF u[1] \in S /\ status[u] \in InAction
                 THEN IF u \in Requests THEN "finishing" ELSE "dropped"
            ELSE status[u]
      /\ \A q \in Keys : current'[q] = IF q \in R \cup Interrupted(S) THEN NoTask
                                       ELSE current[q]
      /\ queues' = queues \ R /\ idle' = idle \ S
      /\ cancelled' = cancelled \cup (S \cap ServiceKeys)
      /\ finally' = finally \cup (R \cap ServiceKeys)
      /\ UNCHANGED <<exposed, loop>>
  BY DEF Cancellation
<1>2. /\ cancelled \subseteq ServiceKeys /\ \A q \in ServiceKeys : q \in Keys
  BY DEF IndInv, TypeOK, Keys
<1>3. /\ "new" \notin InAction /\ "completed" \notin InAction
      /\ "finishing" \notin InAction /\ "dropped" \notin InAction
  BY DEF InAction
<1>4. CancelledIsOver'
  <2>. SUFFICES ASSUME NEW q \in cancelled'
                PROVE  /\ q \notin idle'
                       /\ current'[q] # NoTask =>
                             status'[current'[q]] \notin InAction
    BY DEF CancelledIsOver
  <2>1. q \in Keys /\ q \in ServiceKeys
    BY <1>1, <1>2
  <2>2. current[q] # NoTask => current[q] \in Tasks /\ current[q][1] = q
    BY <2>1 DEF IndInv, TypeOK, CurrentInFlight
  <2>3. CASE q \in S
    <3>1. q \notin idle'
      BY <1>1, <2>3
    <3>2. status[current[q]] \notin InAction \/ current[q] = NoTask
             \/ q \in Interrupted(S)
      BY <2>1, <2>3 DEF Interrupted
    <3>. QED
      BY <1>1, <1>3, <2>1, <2>2, <3>1, <3>2
  <2>4. CASE q \notin S
    <3>1. q \in cancelled
      BY <1>1, <2>4
    <3>2. /\ q \notin idle
          /\ current[q] # NoTask => status[current[q]] \notin InAction
      BY <3>1 DEF BuildInv, CancelledIsOver
    <3>. QED
      BY <1>1, <1>3, <2>1, <2>2, <2>4, <3>2
  <2>. QED
    BY <2>3, <2>4
<1>5. BuildBegun' /\ ServiceSteps' /\ ExposedOnlyIfBuilt'
  <2>1. /\ \A u \in Tasks : status[u] # "new" => status'[u] # "new"
        /\ \A u \in Tasks : status[u] = "completed" => status'[u] = "completed"
    BY <1>1, <1>3
  <2>2. \A u \in ServiceTasks : status'[u] # "finishing"
    BY <1>1, StepShape DEF BuildInv, ServiceSteps
  <2>3. (queues' \cap ServiceKeys) \cup cancelled' \cup finally' \cup exposed'
           \subseteq (queues \cap ServiceKeys) \cup cancelled \cup finally
                     \cup exposed
    BY <1>1
  <2>. QED
    BY <1>1, <2>1, <2>2, <2>3, StatusKeepsBuilds
<1>6. BuildComplete'
  <2>. SUFFICES ASSUME NEW q \in ServiceKeys \ cancelled', NEW n \in 1..3
                PROVE  /\ q \in queues' => status'[<<q, n>>] # "dropped"
                       /\ q \in finally' => status'[<<q, n>>] = "completed"
    BY DEF BuildComplete
  <2>1. <<q, n>> \in Tasks /\ <<q, n>>[1] = q
    BY BuildSteps
  <2>2. q \notin S /\ q \notin cancelled
    BY <1>1
  <2>3. status'[<<q, n>>] = status[<<q, n>>]
    BY <1>1, <2>1, <2>2
  <2>4. /\ q \in queues => status[<<q, n>>] # "dropped"
        /\ q \in finally => status[<<q, n>>] = "completed"
    BY <1>1, <2>2 DEF BuildInv, BuildComplete
  <2>. QED
    BY <1>1, <2>2, <2>3, <2>4
<1>. QED
  BY <1>4, <1>5, <1>6 DEF BuildInv

LEMMA AddTaskKeepsBuilds ==
    ASSUME IndInv, BuildInv, NEW k \in Routes, AddTask(k)
    PROVE  BuildInv'
<1>1. PICK j \in 1..MaxRequests[k] :
         status' = [status EXCEPT ![<<k, j>>] = "queued"]
  BY DEF AddTask
<1>2. /\ queues' = queues \cup {k} /\ idle' = idle \cup AutoStart(k)
      /\ UNCHANGED <<current, cancelled, finally, exposed, loop>>
  BY DEF AddTask, chainVars
<1>3. /\ k \notin ServiceKeys /\ <<k, j>> \in Requests
      /\ \A u \in ServiceTasks : status'[u] = status[u]
      /\ \A u \in Tasks : u # <<k, j>> => status'[u] = status[u]
      /\ \A u \in Tasks : u = <<k, j>> => status'[u] = "queued"
  BY <1>1, RoutesAreNoServices, RequestOnRoute, StepShape DEF IndInv, TypeOK, Tasks
<1>4. cancelled \subseteq ServiceKeys /\ finally \subseteq ServiceKeys
      /\ exposed \subseteq ServiceKeys
  BY DEF IndInv, TypeOK
<1>5. CancelledIsOver'
  <2>. SUFFICES ASSUME NEW q \in cancelled
                PROVE  /\ q \notin idle'
                       /\ current[q] # NoTask => status'[current[q]] \notin InAction
    BY <1>2 DEF CancelledIsOver
  <2>1. q \in ServiceKeys /\ q \in Keys
    BY <1>4 DEF Keys
  <2>2. /\ q \notin idle
        /\ current[q] # NoTask => status[current[q]] \notin InAction
    BY DEF BuildInv, CancelledIsOver
  <2>3. current[q] # NoTask => current[q] \in ServiceTasks
    BY <2>1, TaskShape DEF IndInv, TypeOK, CurrentInFlight
  <2>. QED
    BY <1>2, <1>3, <2>1, <2>2, <2>3 DEF AutoStart
<1>6. \A q \in ServiceKeys : \A n \in 1..3 : status'[<<q, n>>] = status[<<q, n>>]
  BY <1>3, BuildSteps
<1>7. BuildBegun' /\ BuildComplete' /\ ServiceSteps' /\ ExposedOnlyIfBuilt'
  BY <1>2, <1>3, <1>4, <1>6
     DEF BuildInv, BuildBegun, BuildComplete, ServiceSteps, ExposedOnlyIfBuilt
<1>. QED
  BY <1>5, <1>7 DEF BuildInv

LEMMA StartBuildKeepsBuilds ==
    ASSUME IndInv, BuildInv, NEW k \in ServiceKeys, StartBuild(k)
    PROVE  BuildInv'
<1>1. /\ \A t \in Tasks : t[1] = k => status[t] = "new"
      /\ status' = [t \in Tasks |-> IF t[1] = k THEN "queued" ELSE status[t]]
      /\ queues' = queues \cup {k} /\ idle' = idle \cup AutoStart(k)
      /\ UNCHANGED <<current, cancelled, finally, exposed, loop>>
  BY DEF StartBuild, chainVars, processVars
<1>2. cancelled \subseteq ServiceKeys /\ finally \subseteq ServiceKeys
      /\ exposed \subseteq ServiceKeys
  BY DEF IndInv, TypeOK
<1>3. k \notin queues \cup cancelled \cup finally \cup exposed
  <2>1. 1 \in 1..3
    OBVIOUS
  <2>2. <<k, 1>> \in Tasks /\ <<k, 1>>[1] = k
    BY <2>1, BuildSteps
  <2>3. status[<<k, 1>>] = "new"
    BY <1>1, <2>2
  <2>4. k \in (queues \cap ServiceKeys) \cup cancelled \cup finally \cup exposed =>
           status[<<k, 1>>] # "new"
    BY <2>1 DEF BuildInv, BuildBegun
  <2>. QED
    BY <2>3, <2>4
<1>4. \A q \in ServiceKeys : \A n \in 1..3 :
         status'[<<q, n>>] = IF q = k THEN "queued" ELSE status[<<q, n>>]
  BY <1>1, BuildSteps
<1>5. CancelledIsOver'
  <2>. SUFFICES ASSUME NEW q \in cancelled
                PROVE  /\ q \notin idle'
                       /\ current[q] # NoTask => status'[current[q]] \notin InAction
    BY <1>1 DEF CancelledIsOver
  <2>1. q \in Keys /\ q # k
    BY <1>2, <1>3 DEF Keys
  <2>2. /\ q \notin idle
        /\ current[q] # NoTask => status[current[q]] \notin InAction
    BY DEF BuildInv, CancelledIsOver
  <2>3. current[q] # NoTask => current[q] \in Tasks /\ current[q][1] = q
    BY <2>1 DEF IndInv, TypeOK, CurrentInFlight
  <2>. QED
    BY <1>1, <2>1, <2>2, <2>3 DEF AutoStart
<1>6. BuildBegun'
  <2>. SUFFICES ASSUME NEW q \in (queues' \cap ServiceKeys) \cup cancelled
                                 \cup finally \cup exposed,
                       NEW n \in 1..3
                PROVE  status'[<<q, n>>] # "new"
    BY <1>1 DEF BuildBegun
  <2>1. q \in ServiceKeys
    BY <1>2
  <2>2. q # k => status[<<q, n>>] # "new"
    BY <1>1, <2>1 DEF BuildInv, BuildBegun
  <2>. QED
    BY <1>4, <2>1, <2>2
<1>7. BuildComplete'
  <2>. SUFFICES ASSUME NEW q \in ServiceKeys \ cancelled, NEW n \in 1..3
                PROVE  /\ q \in queues' => status'[<<q, n>>] # "dropped"
                       /\ q \in finally /\ loop # "stopped" =>
                             status'[<<q, n>>] = "completed"
    BY <1>1 DEF BuildComplete
  <2>1. /\ q \in queues => status[<<q, n>>] # "dropped"
        /\ q \in finally /\ loop # "stopped" => status[<<q, n>>] = "completed"
    BY DEF BuildInv, BuildComplete
  <2>2. status'[<<q, n>>] = IF q = k THEN "queued" ELSE status[<<q, n>>]
    BY <1>4
  <2>3. (q \in queues' => q = k \/ q \in queues) /\ (q \in finally => q # k)
    BY <1>1, <1>3
  <2>. QED
    BY <2>1, <2>2, <2>3
<1>8. ServiceSteps'
  BY <1>1, StepShape DEF BuildInv, ServiceSteps
<1>9. ExposedOnlyIfBuilt'
  <2>. SUFFICES ASSUME NEW q \in exposed, NEW n \in 1..3
                PROVE  status'[<<q, n>>] = "completed"
    BY <1>1 DEF ExposedOnlyIfBuilt
  <2>1. q \in ServiceKeys /\ q # k /\ status[<<q, n>>] = "completed"
    BY <1>2, <1>3 DEF BuildInv, ExposedOnlyIfBuilt
  <2>. QED
    BY <1>4, <2>1
<1>. QED
  BY <1>5, <1>6, <1>7, <1>8, <1>9 DEF BuildInv

\* An action under way is lost, or, a request's, comes back.
LEMMA FlightKeepsBuilds ==
    ASSUME IndInv, BuildInv, UNCHANGED <<queues, current, idle, chainVars, loop>>,
           \A u \in Tasks :
              \/ status'[u] = status[u]
              \/ /\ status[u] \in InAction /\ status'[u] \in InFlight
                 /\ status'[u] = "finishing" => u \in Requests
    PROVE  BuildInv'
<1>1. UNCHANGED <<cancelled, finally, exposed>>
  BY DEF chainVars
<1>2. CancelledIsOver'
  <2>1. \A q \in cancelled : current[q] # NoTask => current[q] \in Tasks
    BY DEF IndInv, TypeOK, Keys
  <2>. QED
    BY <1>1, <2>1 DEF BuildInv, CancelledIsOver
<1>3. BuildBegun' /\ ServiceSteps' /\ ExposedOnlyIfBuilt'
  <2>1. /\ \A u \in Tasks : status[u] # "new" => status'[u] # "new"
        /\ \A u \in Tasks : status[u] = "completed" => status'[u] = "completed"
    BY DEF InFlight, InAction
  <2>2. \A u \in ServiceTasks : status'[u] # "finishing"
    BY StepShape DEF BuildInv, ServiceSteps
  <2>. QED
    BY <1>1, <2>1, <2>2, StatusKeepsBuilds
<1>4. BuildComplete'
  <2>. SUFFICES ASSUME NEW q \in ServiceKeys \ cancelled, NEW n \in 1..3
                PROVE  /\ q \in queues => status'[<<q, n>>] # "dropped"
                       /\ q \in finally /\ loop # "stopped" =>
                             status'[<<q, n>>] = "completed"
    BY <1>1 DEF BuildComplete
  <2>1. <<q, n>> \in Tasks
    BY BuildSteps
  <2>. QED
    BY <2>1 DEF BuildInv, BuildComplete, InFlight, InAction
<1>. QED
  BY <1>2, <1>3, <1>4 DEF BuildInv

LEMMA ChainEndKeepsBuilds ==
    ASSUME IndInv, BuildInv, NEW k \in ServiceKeys, ChainEnd(k)
    PROVE  BuildInv'
<1>1. /\ loop # "stopped" /\ k \in finally
      /\ finally' = finally \ {k} /\ exposed' = exposed \cup ({k} \ cancelled)
      /\ UNCHANGED <<queues, current, idle, cancelled, status, loop>>
  BY DEF ChainEnd, queueVars, taskVars, processVars
<1>. QED
  BY <1>1 DEF BuildInv, CancelledIsOver, BuildBegun, BuildComplete, ServiceSteps,
              ExposedOnlyIfBuilt

LEMMA MainLoopQuitKeepsBuilds ==
    ASSUME IndInv, BuildInv, MainLoopQuit
    PROVE  BuildInv'
<1>1. /\ loop' = "stopped" /\ queues' = {}
      /\ status' = [t \in Tasks |-> IF t \in Pending(queues) THEN "dropped"
                                    ELSE status[t]]
      /\ finally' = finally \cup (queues \cap ServiceKeys)
      /\ UNCHANGED <<current, idle, cancelled, exposed>>
  BY DEF MainLoopQuit
<1>2. \A t \in Pending(queues) : status[t] = "queued"
  BY PendingElements DEF IndInv, TypeOK
<1>3. CancelledIsOver'
  <2>1. \A q \in cancelled : current[q] # NoTask => current[q] \in Tasks
    BY DEF IndInv, TypeOK, Keys
  <2>. QED
    BY <1>1, <2>1 DEF BuildInv, CancelledIsOver, InAction
<1>4. BuildBegun' /\ ServiceSteps' /\ ExposedOnlyIfBuilt'
  <2>1. /\ \A u \in Tasks : status[u] # "new" => status'[u] # "new"
        /\ \A u \in Tasks : status[u] = "completed" => status'[u] = "completed"
    BY <1>1, <1>2
  <2>2. \A u \in ServiceTasks : status'[u] # "finishing"
    BY <1>1, StepShape DEF BuildInv, ServiceSteps
  <2>. QED
    BY <1>1, <2>1, <2>2, StatusKeepsBuilds
<1>5. BuildComplete'
  BY <1>1 DEF BuildComplete
<1>. QED
  BY <1>3, <1>4, <1>5 DEF BuildInv

----------------------------------------------------------------------------
(***************************************************************************)
(* The invariant                                                           *)
(***************************************************************************)
LEMMA InitSafetyInv == Init => SafetyInv
<1>. SUFFICES ASSUME Init PROVE SafetyInv
  OBVIOUS
<1>1. OrderInv
  BY RequestOnRoute
     DEF Init, OrderInv, QueuedIsHeld, InOrder, Succession, Keys, InFlight, InAction
<1>2. AnswerInv
  BY RequestShape DEF Init, AnswerInv, Invoked, Watched, InAction
<1>3. WakeInv
  BY DEF Init, WakeInv, RoutesDoomed, NoLostWakeup, DoomedQueueIsRemoved,
         QuitNotForgotten
<1>4. BuildInv
  BY StepShape
     DEF Init, BuildInv, CancelledIsOver, BuildBegun, BuildComplete,
         ServiceSteps, ExposedOnlyIfBuilt
<1>. QED
  BY <1>1, <1>2, <1>3, <1>4 DEF SafetyInv

\* A task completes, of a construction that is not cancelled if of one.
LEMMA CompletionKeepsSafety ==
    ASSUME IndInv, SafetyInv, NEW k, NEW t, NEW gone \in BOOLEAN,
           Completion(k, t, gone), CompletionWakes(k, gone),
           k \notin cancelled, UNCHANGED cancelled
    PROVE  SafetyInv'
<1>1. OrderInv'
  BY CompletionKeepsOrder DEF SafetyInv
<1>2. AnswerInv'
  BY CompletionKeepsAnswers DEF SafetyInv
<1>3. WakeInv'
  BY CompletionKeepsWakes DEF SafetyInv
<1>4. BuildInv'
  BY CompletionKeepsBuilds DEF SafetyInv, WakeInv
<1>. QED
  BY <1>1, <1>2, <1>3, <1>4 DEF SafetyInv

\* The head of a queue that is ready begins and is not yet complete.
LEMMA BeginKeepsSafety ==
    ASSUME IndInv, SafetyInv, NEW k \in Keys, Ready(k), NEW s \in InFlight,
           Begin(k, s),
           k \in ServiceKeys => s # "finishing",
           \/ UNCHANGED cancelled
           \/ k \in ServiceKeys /\ s = "stuck" /\ cancelled' = cancelled \cup {k}
    PROVE  SafetyInv'
<1>1. Beginning(k, Head(tasks[k]), s)
  BY BeginEffect
<1>2. k \notin cancelled
  BY DEF Ready, SafetyInv, BuildInv, CancelledIsOver
<1>3. OrderInv'
  BY <1>1, BeginningKeepsOrder DEF SafetyInv
<1>4. AnswerInv'
  BY <1>1, BeginningKeepsAnswers DEF SafetyInv
<1>5. WakeInv'
  BY <1>1, BeginningKeepsWakes DEF SafetyInv
<1>6. BuildInv'
  BY <1>1, <1>2, BeginningKeepsBuilds DEF SafetyInv
<1>. QED
  BY <1>3, <1>4, <1>5, <1>6 DEF SafetyInv

\* Queues are cancelled, some of them removed, some of them doomed.
LEMMA CancellationKeepsSafety ==
    ASSUME IndInv, SafetyInv, NEW S, NEW R, Cancellation(S, R),
           defer \subseteq defer',
           defer' \subseteq defer \cup {k \in queues : current[k] # NoTask},
           defer' \subseteq Routes, defer' \cap R = {},
           \A k \in queues \ defer : k[1] \in watchers \ watchers' => k \in S,
           onQuit => onQuit',
           quitting' => running' > 0 \/ onQuit' \/ loop # "running"
    PROVE  SafetyInv'
<1>1. OrderInv'
  BY CancellationKeepsOrder DEF SafetyInv
<1>2. AnswerInv'
  BY CancellationKeepsAnswers DEF SafetyInv
<1>3. WakeInv'
  BY CancellationKeepsWakes DEF SafetyInv
<1>4. BuildInv'
  BY CancellationKeepsBuilds DEF SafetyInv
<1>. QED
  BY <1>1, <1>2, <1>3, <1>4 DEF SafetyInv

\* The queues of K are doomed, but for those that go at once.
LEMMA DoomEffect ==
    ASSUME RoutesDoomed, NEW K \in SUBSET (queues \ defer), K \subseteq Routes,
           Doom(K)
    PROVE  /\ defer \subseteq defer' /\ defer' \subseteq Routes
           /\ defer' \subseteq defer \cup {k \in queues : current[k] # NoTask}
           /\ defer' \cap Unoccupied(K) = {}
           /\ Unoccupied(K) \in SUBSET K
           /\ \A k \in Unoccupied(K) : current[k] = NoTask
BY DEF RoutesDoomed, Doom, Unoccupied

\* Only constructions are interrupted.
LEMMA NothingInterrupted ==
    ASSUME NEW S, S \cap ServiceKeys = {}
    PROVE  Interrupted(S) = {} /\ Cardinality(Interrupted(S)) = 0
BY FS_EmptySet DEF Interrupted

\* rsu_task_processor_set_quitting, after the queues K were cancelled.
LEMMA SetQuittingKeepsSafety ==
    ASSUME IndInv, SafetyInv, IndInv', loop # "stopped",
           NEW K \in SUBSET queues, NEW R \in SUBSET K, R \subseteq Routes,
           defer \subseteq defer', defer' \subseteq Routes,
           defer' \subseteq defer \cup {k \in queues : current[k] # NoTask},
           defer' \cap R = {},
           \A k \in queues \ defer : k[1] \in watchers \ watchers' => k \in K,
           SetQuitting(K, R)
    PROVE  SafetyInv'
<1>1. PICK S \in IF running > 0 THEN Visited(queues \ R) ELSE {{}} :
         CancelQueues(K \cup S, R \cup Discarded(S, TRUE))
  BY DEF SetQuitting
<1>. DEFINE A == K \cup S
            D == R \cup Discarded(S, TRUE)
<1>2. A \in SUBSET queues /\ D \in SUBSET A
  BY <1>1 DEF Visited, Discarded
<1>3. Cancellation(A, D)
  BY <1>1, <1>2, CancelQueuesEffect DEF SafetyInv, OrderInv
<1>4. defer' \cap D = {}
  BY RoutesAreNoServices DEF Discarded
<1>5. /\ onQuit => onQuit'
      /\ quitting' => running' > 0 \/ onQuit' \/ loop # "running"
  <2>1. running' \in Nat /\ (onQuit' <=> onQuit \/ running' = 0)
    BY DEF SetQuitting, IndInv, TypeOK
  <2>. QED
    BY <2>1
<1>6. \A k \in queues \ defer : k[1] \in watchers \ watchers' => k \in A
  OBVIOUS
<1>. HIDE DEF A, D
<1>. QED
  BY <1>3, <1>4, <1>5, <1>6, CancellationKeepsSafety

LEMMA CancelKeepsSafety ==
    ASSUME IndInv, SafetyInv, NEW k \in Routes, Cancel(k)
    PROVE  SafetyInv'
<1>1. /\ loop # "stopped" /\ {k} \in SUBSET queues /\ CancelQueues({k}, {})
      /\ UNCHANGED <<defer, quitting, onQuit, watchers>>
  BY DEF Cancel
<1>2. Cancellation({k}, {})
  BY <1>1, CancelQueuesEffect DEF SafetyInv, OrderInv
<1>3. running' = running
  <2>1. Cardinality(Interrupted({k})) = 0
    BY NothingInterrupted, RoutesAreNoServices
  <2>. QED
    BY <1>1, <2>1 DEF CancelQueues, IndInv, TypeOK
<1>4. quitting' => running' > 0 \/ onQuit' \/ loop # "running"
  BY <1>1, <1>3 DEF SafetyInv, WakeInv, QuitNotForgotten
<1>5. defer \subseteq Routes
  BY DEF SafetyInv, WakeInv, RoutesDoomed
<1>. QED
  BY <1>1, <1>2, <1>4, <1>5, CancellationKeepsSafety

\* The queues of a client or of a renderer that has gone, the shutdown aside.
LEMMA LossKeepsSafety ==
    ASSUME IndInv, SafetyInv, loop # "stopped",
           NEW K \in SUBSET (queues \ defer), K \subseteq Routes, Doom(K),
           CancelQueues(K, Unoccupied(K)), UNCHANGED <<quitting, onQuit>>,
           \A k \in queues \ defer : k[1] \in watchers \ watchers' => k \in K
    PROVE  SafetyInv'
<1>. DEFINE R == Unoccupied(K)
<1>1. /\ defer \subseteq defer' /\ defer' \subseteq Routes
      /\ defer' \subseteq defer \cup {k \in queues : current[k] # NoTask}
      /\ defer' \cap R = {} /\ R \in SUBSET K
  BY DoomEffect DEF SafetyInv, WakeInv
<1>. HIDE DEF R
<1>2. Cancellation(K, R)
  BY <1>1, CancelQueuesEffect DEF SafetyInv, OrderInv, R
<1>3. running' = running
  <2>1. Cardinality(Interrupted(K)) = 0
    BY NothingInterrupted, RoutesAreNoServices
  <2>. QED
    BY <2>1 DEF CancelQueues, IndInv, TypeOK
<1>4. quitting' => running' > 0 \/ onQuit' \/ loop # "running"
  BY <1>3 DEF SafetyInv, WakeInv, QuitNotForgotten
<1>. QED
  BY <1>1, <1>2, <1>4, CancellationKeepsSafety

LEMMA RemoveClientKeepsSafety ==
    ASSUME IndInv, SafetyInv, IndInv', NEW c \in Clients, RemoveClient(c)
    PROVE  SafetyInv'
<1>. DEFINE K == SourceQueues(c)
            last == watchers \ {c} = {} /\ ~NeverQuit
<1>1. /\ loop # "stopped" /\ watchers' = watchers \ {c} /\ Doom(K)
      /\ \/ ~last /\ CancelQueues(K, Unoccupied(K))
            /\ UNCHANGED <<quitting, onQuit>>
         \/ last /\ SetQuitting(K, Unoccupied(K))
  BY DEF RemoveClient
<1>2. /\ K \in SUBSET (queues \ defer)
      /\ \A k \in queues \ defer : k[1] \in watchers \ watchers' => k \in K
  BY <1>1 DEF SourceQueues
<1>3. K \subseteq Routes
  BY BuildsAssumption DEF SourceQueues, IndInv, TypeOK, Keys, ServiceKeys
<1>. HIDE DEF K, last
<1>4. CASE CancelQueues(K, Unoccupied(K)) /\ UNCHANGED <<quitting, onQuit>>
  BY <1>1, <1>2, <1>3, <1>4, LossKeepsSafety
<1>5. CASE SetQuitting(K, Unoccupied(K))
  <2>1. /\ defer \subseteq defer' /\ defer' \subseteq Routes
        /\ defer' \subseteq defer \cup {k \in queues : current[k] # NoTask}
        /\ defer' \cap Unoccupied(K) = {} /\ Unoccupied(K) \in SUBSET K
    BY <1>1, <1>2, <1>3, DoomEffect DEF SafetyInv, WakeInv
  <2>. QED
    BY <1>1, <1>2, <1>3, <1>5, <2>1, SetQuittingKeepsSafety
<1>. QED
  BY <1>1, <1>4, <1>5

LEMMA LoseDeviceKeepsSafety ==
    ASSUME IndInv, SafetyInv, NEW d \in Devices, LoseDevice(d)
    PROVE  SafetyInv'
<1>. DEFINE K == SinkQueues(d)
<1>1. /\ loop # "stopped" /\ Doom(K) /\ CancelQueues(K, Unoccupied(K))
      /\ UNCHANGED <<quitting, onQuit, watchers>>
  BY DEF LoseDevice
<1>2. /\ K \in SUBSET (queues \ defer)
      /\ \A k \in queues \ defer : k[1] \in watchers \ watchers' => k \in K
  BY <1>1 DEF SinkQueues
<1>3. K \subseteq Routes
  BY RoutesAssumption DEF SinkQueues, IndInv, TypeOK, Keys, ServiceKeys
<1>. HIDE DEF K
<1>. QED
  BY <1>1, <1>2, <1>3, LossKeepsSafety

LEMMA TerminateKeepsSafety ==
    ASSUME IndInv, SafetyInv, IndInv', Terminate
    PROVE  SafetyInv'
<1>1. /\ loop # "stopped" /\ SetQuitting({}, {}) /\ UNCHANGED <<defer, watchers>>
  BY DEF Terminate
<1>2. defer \subseteq Routes
  BY DEF SafetyInv, WakeInv, RoutesDoomed
<1>. QED
  BY <1>1, <1>2, SetQuittingKeepsSafety

LEMMA CancelBuildKeepsSafety ==
    ASSUME IndInv, SafetyInv, IndInv', NEW k \in ServiceKeys, CancelBuild(k)
    PROVE  SafetyInv'
<1>. DEFINE R == Discarded({k}, quitting)
            I == Interrupted({k})
<1>1. /\ loop # "stopped" /\ {k} \in SUBSET queues /\ CancelQueues({k}, R)
      /\ onQuit' = (onQuit \/ (I # {} /\ QuitNow(running)))
      /\ UNCHANGED <<defer, quitting, watchers>>
  BY DEF CancelBuild
<1>2. R \in SUBSET {k} /\ I \subseteq {k}
  BY DEF Discarded, Interrupted
<1>3. running' = running - Cardinality(I)
  BY <1>1 DEF CancelQueues
<1>. HIDE DEF R, I
<1>4. Cancellation({k}, R)
  BY <1>1, <1>2, CancelQueuesEffect DEF SafetyInv, OrderInv
<1>5. quitting' => running' > 0 \/ onQuit' \/ loop # "running"
  <2>1. running \in Nat /\ running' \in Nat
    BY DEF IndInv, TypeOK
  <2>2. CASE I = {}
    <3>1. running' = running
      BY <1>3, <2>1, <2>2, FS_EmptySet
    <3>. QED
      BY <1>1, <3>1 DEF SafetyInv, WakeInv, QuitNotForgotten
  <2>3. CASE I = {k}
    <3>1. running' = running - 1
      BY <1>3, <2>3, FS_Singleton
    <3>2. I # {}
      BY <2>3
    <3>3. running = 1 => (quitting => onQuit')
      BY <1>1, <3>2 DEF QuitNow
    <3>. QED
      BY <1>1, <2>1, <3>1, <3>3
  <2>. QED
    BY <1>2, <2>2, <2>3
<1>6. defer \subseteq Routes /\ defer \cap R = {}
  BY <1>2, RoutesAreNoServices DEF SafetyInv, WakeInv, RoutesDoomed
<1>7. onQuit => onQuit'
  BY <1>1
<1>. QED
  BY <1>1, <1>4, <1>5, <1>6, <1>7, CancellationKeepsSafety

\* An action loses its proxy, or comes back.
LEMMA FlightKeepsSafety ==
    ASSUME IndInv, SafetyInv, loop # "stopped",
           NEW t \in Tasks, status[t] = "action", NEW s \in InFlight,
           status' = [status EXCEPT ![t] = s], s = "finishing" => t \in Requests,
           UNCHANGED <<queueVars, chainVars, processVars, invocation, replies>>
    PROVE  SafetyInv'
<1>1. UNCHANGED <<queues, tasks, current, idle, defer, cancelled, finally,
                  exposed, running, quitting, onQuit, loop, watchers, invocation,
                  replies>>
  BY DEF queueVars, chainVars, processVars
<1>2. \A u \in Tasks : status'[u] = IF u = t THEN s ELSE status[u]
  BY DEF IndInv, TypeOK
<1>3. "action" \in InAction /\ "action" \in InFlight
  BY DEF InFlight, InAction
<1>4. OrderInv'
  BY <1>1, <1>2, <1>3, FlightKeepsOrder DEF SafetyInv
<1>5. AnswerInv'
  <2>1. \A r \in Requests : GoesOn(r)
    BY <1>2, <1>3, RequestShape DEF GoesOn
  <2>. QED
    BY <1>1, <2>1, FlightKeepsAnswers DEF SafetyInv
<1>6. WakeInv'
  BY <1>1, QuietKeepsWakes DEF SafetyInv
<1>7. BuildInv'
  <2>1. UNCHANGED chainVars
    OBVIOUS
  <2>. QED
    BY <1>1, <1>2, <1>3, <2>1, FlightKeepsBuilds DEF SafetyInv
<1>. QED
  BY <1>4, <1>5, <1>6, <1>7 DEF SafetyInv

\* The task of a process idle completes at once.
LEMMA BeginAndCompleteKeepsSafety ==
    ASSUME IndInv, SafetyInv, NEW k \in Keys, Ready(k), BeginAndComplete(k),
           cancelled' = cancelled \ ({k} \cap ServiceKeys)
    PROVE  SafetyInv'
<1>1. PICK gone \in BOOLEAN : /\ Completion(k, Head(tasks[k]), gone)
                              /\ CompletionWakes(k, gone)
  BY BeginAndCompleteEffect DEF SafetyInv, OrderInv
<1>2. k \notin cancelled
  BY DEF Ready, SafetyInv, BuildInv, CancelledIsOver
<1>3. UNCHANGED cancelled
  BY <1>2
<1>. QED
  BY <1>1, <1>2, <1>3, CompletionKeepsSafety

\* The callback or the idle of a task completes it.
LEMMA CallbackKeepsSafety ==
    ASSUME IndInv, SafetyInv, loop # "stopped", NEW t \in Tasks,
           status[t] \in InFlight, t[1] \in ServiceKeys => status[t] \in InAction,
           TaskCompleted(t, tasks[t[1]], running, idle), UNCHANGED cancelled
    PROVE  SafetyInv'
<1>1. PICK gone \in BOOLEAN : Completion(t[1], t, gone) /\ CompletionWakes(t[1], gone)
  BY CallbackEffect DEF SafetyInv, OrderInv
<1>2. current[t[1]] = t /\ t # NoTask /\ cancelled \subseteq ServiceKeys
  BY TaskShape DEF IndInv, TypeOK, InFlightCurrent
<1>3. t[1] \notin cancelled
  BY <1>2 DEF SafetyInv, BuildInv, CancelledIsOver
<1>. QED
  BY <1>1, <1>3, CompletionKeepsSafety

LEMMA ChainEndKeepsSafety ==
    ASSUME IndInv, SafetyInv, NEW k \in ServiceKeys, ChainEnd(k)
    PROVE  SafetyInv'
<1>1. /\ loop # "stopped"
      /\ UNCHANGED <<queues, tasks, current, idle, defer, running, quitting,
                     onQuit, loop, watchers, status, invocation, replies>>
  BY DEF ChainEnd, queueVars, processVars, taskVars
<1>2. OrderInv'
  BY <1>1, FlightKeepsOrder DEF SafetyInv
<1>3. AnswerInv'
  BY <1>1, FlightKeepsAnswers DEF SafetyInv, GoesOn
<1>4. WakeInv'
  BY <1>1, QuietKeepsWakes DEF SafetyInv
<1>5. BuildInv'
  BY ChainEndKeepsBuilds DEF SafetyInv
<1>. QED
  BY <1>2, <1>3, <1>4, <1>5 DEF SafetyInv

\* prv_context_quit_cb only leaves the timer behind.
LEMMA ContextQuitKeepsSafety ==
    ASSUME SafetyInv, IndInv, ContextQuit
    PROVE  SafetyInv'
<1>1. /\ loop # "stopped" /\ loop' = "stopping"
      /\ UNCHANGED <<queues, tasks, current, idle, defer, cancelled, finally,
                     exposed, running, quitting, watchers, status, invocation,
                     replies>>
  BY DEF ContextQuit, queueVars, chainVars, taskVars
<1>2. OrderInv'
  BY <1>1, FlightKeepsOrder DEF SafetyInv
<1>3. AnswerInv'
  BY <1>1, FlightKeepsAnswers DEF SafetyInv, GoesOn
<1>4. WakeInv'
  BY <1>1, QuietKeepsWakes DEF SafetyInv
<1>5. BuildInv'
  BY <1>1 DEF SafetyInv, BuildInv, CancelledIsOver, BuildBegun, BuildComplete,
              ServiceSteps, ExposedOnlyIfBuilt
<1>. QED
  BY <1>2, <1>3, <1>4, <1>5 DEF SafetyInv

LEMMA NextSafetyInv == IndInv /\ SafetyInv /\ [Next]_vars => SafetyInv'
<1>. SUFFICES ASSUME IndInv, SafetyInv, [Next]_vars
              PROVE  SafetyInv'
  OBVIOUS
<1>0. IndInv'
  BY NextIndInv
<1>1. ASSUME NEW k \in Routes, AddTask(k)
      PROVE  SafetyInv'
  BY <1>1, AddTaskKeepsOrder, AddTaskKeepsAnswers, AddTaskKeepsWakes,
     AddTaskKeepsBuilds DEF SafetyInv
<1>2. ASSUME NEW k \in Routes, Cancel(k)
      PROVE  SafetyInv'
  BY <1>2, CancelKeepsSafety
<1>3. ASSUME NEW c \in Clients, RemoveClient(c)
      PROVE  SafetyInv'
  BY <1>0, <1>3, RemoveClientKeepsSafety
<1>4. ASSUME NEW d \in Devices, LoseDevice(d)
      PROVE  SafetyInv'
  BY <1>4, LoseDeviceKeepsSafety
<1>5. ASSUME NEW k \in ServiceKeys, StartBuild(k)
      PROVE  SafetyInv'
  BY <1>5, StartBuildKeepsOrder, StartBuildKeepsAnswers, StartBuildKeepsWakes,
     StartBuildKeepsBuilds DEF SafetyInv
<1>6. ASSUME NEW k \in ServiceKeys, CancelBuild(k)
      PROVE  SafetyInv'
  BY <1>0, <1>6, CancelBuildKeepsSafety
<1>7. ASSUME NEW t \in Tasks, LoseProxy(t)
      PROVE  SafetyInv'
  BY <1>7, FlightKeepsSafety DEF LoseProxy, InFlight, InAction
<1>8. CASE Terminate
  BY <1>0, <1>8, TerminateKeepsSafety
<1>9. ASSUME NEW k \in Keys, ProcessTask(k)
      PROVE  SafetyInv'
  <2>1. CASE ProcessSync(k)
    <3>1. Ready(k) /\ BeginAndComplete(k) /\ UNCHANGED cancelled /\ k \notin ServiceKeys
      BY <2>1, RoutesAreNoServices DEF ProcessSync
    <3>. QED
      BY <3>1, BeginAndCompleteKeepsSafety
  <2>2. CASE ProcessAsync(k)
    <3>1. PICK s \in {"action", "finishing"} : Begin(k, s)
      BY <2>2 DEF ProcessAsync
    <3>2. Ready(k) /\ UNCHANGED cancelled /\ k \notin ServiceKeys
      BY <2>2, RoutesAreNoServices DEF ProcessAsync
    <3>3. s \in InFlight
      BY DEF InFlight, InAction
    <3>. QED
      BY <3>1, <3>2, <3>3, BeginKeepsSafety
  <2>3. CASE BeginProtocolInfo(k)
    <3>1. Ready(k) /\ Begin(k, "action") /\ cancelled' = cancelled \ {k}
      BY <2>3 DEF BeginProtocolInfo
    <3>2. k \notin cancelled
      BY <3>1 DEF Ready, SafetyInv, BuildInv, CancelledIsOver
    <3>3. UNCHANGED cancelled /\ "action" \in InFlight
      BY <3>1, <3>2 DEF InFlight, InAction
    <3>. QED
      BY <3>1, <3>3, BeginKeepsSafety
  <2>4. CASE CompleteStep(k)
    <3>1. /\ Ready(k) /\ BeginAndComplete(k) /\ k \in ServiceKeys
          /\ cancelled' = cancelled \ {k}
      BY <2>4 DEF CompleteStep
    <3>2. {k} \cap ServiceKeys = {k}
      BY <3>1
    <3>. QED
      BY <3>1, <3>2, BeginAndCompleteKeepsSafety
  <2>5. CASE FailDeclare(k)
    <3>1. /\ Ready(k) /\ Begin(k, "stuck") /\ k \in ServiceKeys
          /\ cancelled' = cancelled \cup {k}
      BY <2>5 DEF FailDeclare
    <3>2. "stuck" \in InFlight
      BY DEF InFlight
    <3>. QED
      BY <3>1, <3>2, BeginKeepsSafety
  <2>. QED
    BY <1>9, <2>1, <2>2, <2>3, <2>4, <2>5 DEF ProcessTask
<1>10. ASSUME NEW r \in Requests, ActionCallback(r)
       PROVE  SafetyInv'
  BY <1>10, RequestShape, FlightKeepsSafety DEF ActionCallback, InFlight
<1>11. ASSUME NEW r \in Requests, AsyncTaskComplete(r)
       PROVE  SafetyInv'
  BY <1>11, RequestShape, CallbackKeepsSafety DEF AsyncTaskComplete, InFlight
<1>12. ASSUME NEW t \in ServiceTasks, ServiceActionCallback(t)
       PROVE  SafetyInv'
  BY <1>12, StepShape, CallbackKeepsSafety
     DEF ServiceActionCallback, InFlight, InAction
<1>13. ASSUME NEW k \in ServiceKeys, ChainEnd(k)
       PROVE  SafetyInv'
  BY <1>13, ChainEndKeepsSafety
<1>14. CASE ContextQuit
  BY <1>14, ContextQuitKeepsSafety
<1>15. CASE MainLoopQuit
  BY <1>15, MainLoopQuitKeepsOrder, MainLoopQuitKeepsAnswers,
     MainLoopQuitKeepsWakes, MainLoopQuitKeepsBuilds DEF SafetyInv
<1>16. CASE UNCHANGED vars
  BY <1>16 DEF vars, queueVars, chainVars, processVars, taskVars, SafetyInv,
       OrderInv, QueuedIsHeld, InOrder, Succession, AnswerInv, Invoked, Watched,
       WakeInv, RoutesDoomed, NoLostWakeup, DoomedQueueIsRemoved,
       QuitNotForgotten, BuildInv, CancelledIsOver, BuildBegun, BuildComplete,
       ServiceSteps, ExposedOnlyIfBuilt
<1>. QED
  BY <1>1, <1>2, <1>3, <1>4, <1>5, <1>6, <1>7, <1>8, <1>9, <1>10, <1>11,
     <1>12, <1>13, <1>14, <1>15, <1>16
     DEF Next, ClientStep, DeviceStep, CallbackStep, Exited

----------------------------------------------------------------------------
\* Both invariants hold in every reachable state.
THEOREM SpecSafetyInv == Spec => [](IndInv /\ SafetyInv)
<1>1. Init => IndInv /\ SafetyInv
  BY InitIndInv, InitSafetyInv
<1>2. IndInv /\ SafetyInv /\ [Next]_vars => (IndInv /\ SafetyInv)'
  BY NextIndInv, NextSafetyInv
<1>. QED
  BY <1>1, <1>2, PTL DEF Spec

\* A request gets one D-Bus reply, when it is over, and never a second:
\* complete, fail, cancel and delete share the invocation.
THEOREM SpecAnsweredOnce == Spec => []AnsweredOnce
<1>1. SafetyInv => AnsweredOnce
  BY DEF SafetyInv, AnswerInv, Invoked, AnsweredOnce, InFlight, InAction
<1>. QED
  BY <1>1, SpecSafetyInv, PTL

\* The requests of a client on a sink are served in turn: one runs only once
\* the ones before it are over.
THEOREM SpecSequential == Spec => []Sequential
<1>1. IndInv /\ SafetyInv => Sequential
  <2>. SUFFICES ASSUME IndInv, SafetyInv, NEW k \in Routes,
                       NEW m \in 1..MaxRequests[k], NEW n \in 1..MaxRequests[k],
                       m < n, status[<<k, n>>] \in InFlight \cup {"completed"}
                PROVE  status[<<k, m>>] \in {"completed", "dropped"}
    BY DEF Sequential
  <2>1. status[<<k, m>>] \in Status
    BY RequestOnRoute DEF IndInv, TypeOK
  <2>2. /\ status[<<k, m>>] = "new" => status[<<k, n>>] = "new"
        /\ status[<<k, m>>] = "queued" => status[<<k, n>>] \in {"new", "queued"}
        /\ status[<<k, m>>] \in InFlight =>
              status[<<k, n>>] \in {"new", "queued", "dropped"}
    BY DEF SafetyInv, OrderInv, Succession
  <2>. QED
    BY <2>1, <2>2 DEF Status, InFlight, InAction
<1>. QED
  BY <1>1, SpecSafetyInv, PTL

\* A queue of the table that holds tasks runs one, has its process idle, or
\* the process is about to exit.
THEOREM SpecNoLostWakeup == Spec => []NoLostWakeup
<1>1. SafetyInv => NoLostWakeup
  BY DEF SafetyInv, WakeInv
<1>. QED
  BY <1>1, SpecSafetyInv, PTL

\* A queue whose removal was deferred waits for a task, or for the exit.
THEOREM SpecDoomedQueueIsRemoved == Spec => []DoomedQueueIsRemoved
<1>1. SafetyInv => DoomedQueueIsRemoved
  BY DEF SafetyInv, WakeInv
<1>. QED
  BY <1>1, SpecSafetyInv, PTL

\* A processor that is quitting has something that carries the shutdown on.
THEOREM SpecQuitNotForgotten == Spec => []QuitNotForgotten
<1>1. SafetyInv => QuitNotForgotten
  BY DEF SafetyInv, WakeInv
<1>. QED
  BY <1>1, SpecSafetyInv, PTL

\* A device is published only when its three construction steps completed.
THEOREM SpecExposedOnlyIfBuilt == Spec => []ExposedOnlyIfBuilt
<1>1. SafetyInv => ExposedOnlyIfBuilt
  BY DEF SafetyInv, BuildInv
<1>. QED
  BY <1>1, SpecSafetyInv, PTL

\* What waits for an answer belongs to a client that is watched, or to a
\* queue that is doomed; and no action runs for a request that is answered.
THEOREM SpecNoWorkForTheGone == Spec => []NoWorkForTheGone
<1>1. SafetyInv => NoWorkForTheGone
  BY DEF SafetyInv, AnswerInv, Invoked, Watched, NoWorkForTheGone
<1>. QED
  BY <1>1, SpecSafetyInv, PTL

----------------------------------------------------------------------------
(***************************************************************************)
(* The task processor implements RequestBroker: every step of the queues   *)
(* is a step that the broker allows, or one that its clients do not see.   *)
(***************************************************************************)
LEMMA StageOf ==
    ASSUME NEW s \in Status
    PROVE  /\ Stage[s] = "new" <=> s = "new"
           /\ Stage[s] = "waiting" <=> s = "queued"
           /\ Stage[s] = "served" <=> s \in InFlight
           /\ Stage[s] = "over" <=> s \in {"completed", "dropped"}
           /\ Stage[s] \in {"new", "waiting", "served", "over"}
BY DEF Stage, Status, InFlight, InAction

\* What a client can not see.
LEMMA Unseen ==
    ASSUME IndInv, IndInv', UNCHANGED replies,
           loop' = "stopped" <=> loop = "stopped",
           \A r \in Requests : Stage[status'[r]] = Stage[status[r]]
    PROVE  UNCHANGED Broker!vars
<1>1. stage' = stage
  BY DEF stage
<1>2. (loop # "stopped")' = (loop # "stopped")
  OBVIOUS
<1>. QED
  BY <1>1, <1>2 DEF Broker!vars

\* The replies to the tasks of T, of which none is new.
LEMMA AnswerOnce ==
    ASSUME IndInv, AnswerInv, NEW T, Answer(T)
    PROVE  /\ DOMAIN replies' = Requests
           /\ \A r \in Requests : r \notin T => replies'[r] = replies[r]
           /\ \A r \in Requests : r \in T /\ status[r] # "new" => replies'[r] = 1
           /\ \A r \in Requests : status[r] \in {"queued"} => replies[r] = 0
           /\ \A r \in Requests : status[r] # "new" => replies[r] \in {0, 1}
<1>1. replies \in [Requests -> Nat]
  BY DEF IndInv, TypeOK
<1>2. replies' = [r \in Requests |->
                     replies[r] + IF r \in T \cap invocation THEN 1 ELSE 0]
  BY DEF Answer
<1>3. \A r \in Requests :
         /\ r \in invocation => replies[r] = 0
         /\ r \notin invocation =>
               /\ status[r] # "queued"
               /\ replies[r] = IF status[r] = "new" THEN 0 ELSE 1
  BY DEF AnswerInv, Invoked
<1>. QED
  BY <1>1, <1>2, <1>3

\* Before a task that a queue runs, or runs next, all is over on its route.
LEMMA FirstIsServed ==
    ASSUME IndInv, OrderInv, NEW t \in Requests, First(t[1], t)
    PROVE  Broker!FirstInLine(t) /\ stage[t] \in {"waiting", "served"}
<1>1. ASSUME NEW m \in 1..(t[2] - 1)
      PROVE  stage[<<t[1], m>>] = "over"
  <2>1. <<t[1], m>> \in Requests
    <3>1. m \in 1..MaxRequests[t[1]]
      BY RequestShape
    <3>. QED
      BY <3>1, RequestShape
  <2>2. status[<<t[1], m>>] \in {"completed", "dropped"}
    BY FirstInLine
  <2>. QED
    BY <2>1, <2>2, StageOf DEF stage, Status
<1>2. status[t] \in {"queued"} \cup InFlight
  BY DEF First
<1>3. stage[t] \in {"waiting", "served"}
  BY <1>2, StageOf DEF stage, Status
<1>. QED
  BY <1>1, <1>3 DEF Broker!FirstInLine

----------------------------------------------------------------------------
(***************************************************************************)
(* The steps of the queues as steps of the broker                          *)
(***************************************************************************)
LEMMA SubmitStep ==
    ASSUME IndInv, IndInv', NEW k \in Routes, AddTask(k)
    PROVE  Broker!Next
<1>1. PICK j \in 1..MaxRequests[k] :
         /\ status[<<k, j>>] = "new"
         /\ \A m \in 1..(j - 1) : status[<<k, m>>] # "new"
         /\ status' = [status EXCEPT ![<<k, j>>] = "queued"]
  BY DEF AddTask
<1>2. loop # "stopped" /\ UNCHANGED <<loop, replies>>
  BY DEF AddTask
<1>. DEFINE t == <<k, j>>
<1>3. t \in Requests /\ t \in Tasks /\ j \in Nat /\ t[1] = k /\ t[2] = j
  BY RequestOnRoute
<1>4. \A u \in Requests : status'[u] = IF u = t THEN "queued" ELSE status[u]
  BY <1>1, <1>3, RequestShape DEF IndInv, TypeOK
<1>5. stage' = [stage EXCEPT ![t] = "waiting"]
  <2>1. Stage["queued"] = "waiting"
    BY StageOf DEF Status
  <2>. QED
    BY <1>3, <1>4, <2>1 DEF stage
<1>6. stage[t] = "new"
  BY <1>1, <1>3, StageOf DEF stage, Status
<1>7. \A m \in 1..(j - 1) : stage[<<k, m>>] # "new"
  <2>. SUFFICES ASSUME NEW m \in 1..(j - 1)
                PROVE  stage[<<k, m>>] # "new"
    OBVIOUS
  <2>1. m \in 1..MaxRequests[k]
    BY <1>3, RequestShape
  <2>2. <<k, m>> \in Requests /\ <<k, m>> \in Tasks /\ status[<<k, m>>] # "new"
    BY <1>1, <2>1, RequestOnRoute
  <2>3. status[<<k, m>>] \in Status
    BY <2>2 DEF IndInv, TypeOK
  <2>. QED
    BY <2>2, <2>3, StageOf DEF stage
<1>. HIDE DEF t
<1>8. Broker!Submit(t)
  BY <1>2, <1>3, <1>5, <1>6, <1>7 DEF Broker!Submit
<1>. QED
  BY <1>3, <1>8 DEF Broker!Next

LEMMA ServeStep ==
    ASSUME IndInv, IndInv', OrderInv, NEW k \in Keys, Ready(k), NEW s \in InFlight,
           Begin(k, s)
    PROVE  Broker!Next \/ UNCHANGED Broker!vars
<1>. DEFINE t == Head(tasks[k])
<1>1. Beginning(k, t, s)
  BY BeginEffect
<1>. HIDE DEF t
<1>2. /\ loop # "stopped" /\ UNCHANGED <<loop, replies>>
      /\ t \in Tasks /\ t[1] = k /\ First(k, t) /\ status[t] = "queued"
      /\ \A u \in Tasks : status'[u] = IF u = t THEN s ELSE status[u]
  BY <1>1 DEF Beginning
<1>3. CASE t \in Requests
  <2>1. Broker!FirstInLine(t)
    BY <1>2, <1>3, FirstIsServed
  <2>2. stage[t] = "waiting" /\ Stage[s] = "served"
    BY <1>2, <1>3, StageOf DEF stage, Status
  <2>3. stage' = [stage EXCEPT ![t] = "served"]
    BY <1>2, <1>3, <2>2, RequestShape DEF stage
  <2>4. Broker!Serve(t)
    BY <1>2, <2>1, <2>2, <2>3 DEF Broker!Serve
  <2>. QED
    BY <1>3, <2>4 DEF Broker!Next
<1>4. CASE t \notin Requests
  BY <1>2, <1>4, RequestShape, Unseen
<1>. QED
  BY <1>3, <1>4

LEMMA FinishStep ==
    ASSUME IndInv, IndInv', OrderInv, AnswerInv, NEW k, NEW t, NEW gone \in BOOLEAN,
           Completion(k, t, gone)
    PROVE  Broker!Next \/ UNCHANGED Broker!vars
<1>. DEFINE T == {t} \cup IF gone THEN Waiting(k) ELSE {}
<1>1. /\ loop # "stopped" /\ UNCHANGED loop
      /\ t \in Tasks /\ t[1] = k /\ First(k, t)
      /\ \A u \in Tasks : status'[u] =
            IF u = t THEN "completed"
            ELSE IF gone /\ u \in Waiting(k) THEN "dropped" ELSE status[u]
      /\ Answer(T)
  BY DEF Completion
<1>2. \A u \in T : u \in Tasks /\ u[1] = k /\ status[u] \in {"queued"} \cup InFlight
  BY <1>1 DEF Waiting, First
<1>3. \A u \in Tasks : /\ u \in T => status'[u] \in {"completed", "dropped"}
                       /\ u \notin T => status'[u] = status[u]
  BY <1>1
<1>4. CASE t \in Requests
  <2>1. Broker!FirstInLine(t) /\ stage[t] \in {"waiting", "served"}
    BY <1>1, <1>4, FirstIsServed
  <2>2. \A u \in T : u \in Requests
    BY <1>1, <1>2, <1>4, TaskShape
  <2>. DEFINE B == {t} \cup Broker!Waiting(t[1])
  <2>3. T = {t} \/ T = B
    <3>1. \A r \in Requests : stage[r] = "waiting" <=> status[r] = "queued"
      BY RequestShape, StageOf DEF stage, IndInv, TypeOK
    <3>2. gone => T = B
      BY <1>1, <2>2, <3>1, RequestShape DEF Waiting, Broker!Waiting
    <3>. QED
      BY <3>2
  <2>. HIDE DEF T, B
  <2>4. stage' = [r \in Requests |-> IF r \in T THEN "over" ELSE stage[r]]
    <3>1. \A r \in Requests : Stage[status'[r]] = IF r \in T THEN "over"
                                                  ELSE Stage[status[r]]
      BY <1>3, RequestShape, StageOf DEF Status
    <3>. QED
      BY <3>1 DEF stage
  <2>5. replies' = [r \in Requests |-> IF r \in T /\ replies[r] = 0 THEN 1
                                       ELSE replies[r]]
    <3>1. \A r \in T : status[r] # "new"
      BY <1>2 DEF InFlight, InAction
    <3>2. /\ DOMAIN replies' = Requests
          /\ \A r \in Requests : r \notin T => replies'[r] = replies[r]
          /\ \A r \in Requests : r \in T => replies'[r] = 1 /\ replies[r] \in {0, 1}
      BY <1>1, <3>1, AnswerOnce
    <3>3. replies' \in [Requests -> Nat]
      BY DEF IndInv, TypeOK
    <3>. QED
      BY <3>2, <3>3
  <2>6. Broker!Over(T)
    BY <2>4, <2>5 DEF Broker!Over
  <2>7. Broker!Over({t}) \/ Broker!Over({t} \cup Broker!Waiting(t[1]))
    BY <2>3, <2>6 DEF B
  <2>8. Broker!Finish(t)
    BY <1>1, <2>1, <2>7 DEF Broker!Finish
  <2>. QED
    BY <1>4, <2>8 DEF Broker!Next
<1>5. CASE t \notin Requests
  <2>1. \A r \in Requests : r \notin T
    BY <1>1, <1>2, <1>5, TaskShape
  <2>2. \A r \in Requests : status'[r] = status[r]
    BY <1>3, <2>1, RequestShape
  <2>3. UNCHANGED replies
    <3>1. /\ \A r \in Requests : replies'[r] = replies[r]
      BY <1>1, <2>1, AnswerOnce
    <3>2. replies \in [Requests -> Nat] /\ replies' \in [Requests -> Nat]
      BY DEF IndInv, TypeOK
    <3>. QED
      BY <3>1, <3>2
  <2>. QED
    BY <1>1, <2>2, <2>3, Unseen
<1>. QED
  BY <1>4, <1>5

LEMMA CancelStep ==
    ASSUME IndInv, IndInv', AnswerInv, NEW S, NEW R, Cancellation(S, R)
    PROVE  Broker!Next
<1>. DEFINE T == {u \in Tasks : u[1] \in S /\ status[u] \in {"queued"} \cup InFlight}
<1>1. /\ loop # "stopped" /\ UNCHANGED loop /\ Answer(T)
      /\ \A u \in Tasks : status'[u] =
            IF u[1] \in S /\ status[u] = "queued" THEN "dropped"
            ELSE IF u[1] \in S /\ status[u] \in InAction
                 THEN IF u \in Requests THEN "finishing" ELSE "dropped"
            ELSE status[u]
  BY DEF Cancellation
<1>2. /\ DOMAIN stage' = Requests
      /\ \A r \in Requests : /\ stage[r] = Stage[status[r]]
                             /\ stage'[r] = Stage[status'[r]]
                             /\ status[r] \in Status
                             /\ r \in Tasks
  BY RequestShape DEF stage, IndInv, TypeOK
<1>3. /\ DOMAIN replies' = Requests
      /\ \A r \in Requests : r \notin T => replies'[r] = replies[r]
      /\ \A r \in Requests : r \in T => replies'[r] = 1
  <2>1. \A r \in Requests : r \in T => status[r] # "new"
    BY DEF InFlight, InAction
  <2>. HIDE DEF T
  <2>. QED
    BY <1>1, <2>1, AnswerOnce
<1>4. ASSUME NEW r \in Requests, r[1] \notin S
      PROVE  Broker!Kept(r)
  BY <1>1, <1>2, <1>3, <1>4 DEF Broker!Kept
<1>5. ASSUME NEW k \in S
      PROVE  Broker!Cancelled(k)
  <2>. SUFFICES ASSUME NEW r \in Requests, r[1] = k
                PROVE  /\ stage'[r] = IF stage[r] = "waiting" THEN "over"
                                      ELSE stage[r]
                       /\ replies'[r] = IF stage[r] \in {"waiting", "served"} THEN 1
                                        ELSE replies[r]
    BY DEF Broker!Cancelled
  <2>1. /\ stage[r] = "waiting" <=> status[r] = "queued"
        /\ stage[r] = "served" <=> status[r] \in InFlight
    BY <1>2, StageOf
  <2>2. r \in T <=> stage[r] \in {"waiting", "served"}
    BY <1>2, <2>1
  <2>3. status'[r] = IF status[r] = "queued" THEN "dropped"
                     ELSE IF status[r] \in InAction THEN "finishing"
                     ELSE status[r]
    BY <1>1, <1>2
  <2>4. CASE status[r] = "queued"
    <3>1. stage'[r] = "over"
      BY <1>2, <2>3, <2>4, StageOf DEF Status
    <3>. QED
      BY <1>3, <2>1, <2>2, <2>4, <3>1
  <2>5. CASE status[r] \in InAction
    <3>1. stage'[r] = "served" /\ stage[r] = "served"
      BY <1>2, <2>3, <2>5, StageOf DEF Status, InFlight, InAction
    <3>. QED
      BY <1>3, <2>2, <3>1
  <2>6. CASE status[r] \notin {"queued"} \cup InAction
    <3>1. stage'[r] = stage[r] /\ stage[r] # "waiting"
      BY <1>2, <2>1, <2>3, <2>6
    <3>. QED
      BY <1>3, <2>2, <3>1
  <2>. QED
    BY <2>4, <2>5, <2>6
<1>6. \A r \in Requests : Broker!Kept(r) \/ Broker!Cancelled(r[1])
  BY <1>4, <1>5
<1>7. Broker!Cancel
  BY <1>1, <1>2, <1>3, <1>6 DEF Broker!Cancel
<1>. QED
  BY <1>7 DEF Broker!Next

LEMMA CloseStep ==
    ASSUME IndInv, IndInv', OrderInv, AnswerInv, MainLoopQuit
    PROVE  Broker!Next
<1>. DEFINE T == Pending(queues)
            W == UNION {Broker!Waiting(k) : k \in Routes}
<1>1. /\ loop = "stopping" /\ loop' = "stopped" /\ Answer(T)
      /\ status' = [t \in Tasks |-> IF t \in T THEN "dropped" ELSE status[t]]
  BY DEF MainLoopQuit
<1>2. \A u \in Tasks : u \in T <=> status[u] = "queued"
  <2>1. T = {u \in Tasks : u[1] \in queues /\ status[u] = "queued"}
    BY Held DEF OrderInv, IndInv, TypeOK
  <2>2. ASSUME NEW u \in Tasks, status[u] = "queued"
        PROVE  u[1] \in queues
    <3>1. u[1] \in Keys /\ u \in Range(tasks[u[1]])
      BY <2>2, TaskShape DEF OrderInv, QueuedIsHeld
    <3>2. Range(<<>>) = {}
      BY DEF Range
    <3>. QED
      BY <3>1, <3>2 DEF IndInv, QueueContents
  <2>. QED
    BY <2>1, <2>2
<1>3. \A r \in Requests : /\ r \in Tasks /\ status[r] \in Status
                          /\ stage[r] = Stage[status[r]]
                          /\ stage[r] = "waiting" <=> status[r] = "queued"
  BY RequestShape, StageOf DEF stage, IndInv, TypeOK
<1>4. \A r \in Requests : r \in T <=> r \in W
  BY <1>2, <1>3, RequestShape DEF Broker!Waiting
<1>5. stage' = [r \in Requests |-> IF r \in W THEN "over" ELSE stage[r]]
  <2>1. Stage["dropped"] = "over"
    BY StageOf DEF Status
  <2>2. \A r \in Requests : Stage[status'[r]] = IF r \in W THEN "over"
                                                ELSE stage[r]
    BY <1>1, <1>3, <1>4, <2>1
  <2>. QED
    BY <2>2 DEF stage
<1>6. replies' = [r \in Requests |-> IF r \in W /\ replies[r] = 0 THEN 1
                                     ELSE replies[r]]
  <2>1. /\ DOMAIN replies' = Requests
        /\ \A r \in Requests : r \notin T => replies'[r] = replies[r]
        /\ \A r \in Requests : r \in T /\ status[r] # "new" => replies'[r] = 1
        /\ \A r \in Requests : status[r] = "queued" => replies[r] = 0
    BY <1>1, AnswerOnce
  <2>2. \A r \in Requests : r \in T => replies'[r] = 1 /\ replies[r] = 0
    BY <1>2, <1>3, <2>1
  <2>3. replies' \in [Requests -> Nat]
    BY DEF IndInv, TypeOK
  <2>. HIDE DEF T, W
  <2>4. \A r \in Requests : replies'[r] = IF r \in W /\ replies[r] = 0 THEN 1
                                          ELSE replies[r]
    BY <1>4, <2>1, <2>2
  <2>. QED
    BY <2>3, <2>4
<1>. HIDE DEF T, W
<1>7. Broker!Over(W)
  BY <1>5, <1>6 DEF Broker!Over
<1>8. (loop # "stopped") /\ (loop # "stopped")' = FALSE
  BY <1>1
<1>9. Broker!Close
  BY <1>7, <1>8 DEF Broker!Close, W
<1>. QED
  BY <1>9 DEF Broker!Next

\* Every way to cancel queues.
LEMMA SetQuittingCancels ==
    ASSUME IndInv, OrderInv, loop # "stopped",
           NEW K \in SUBSET queues, NEW R \in SUBSET K, SetQuitting(K, R)
    PROVE  \E S, D : Cancellation(S, D)
<1>1. PICK S \in IF running > 0 THEN Visited(queues \ R) ELSE {{}} :
         CancelQueues(K \cup S, R \cup Discarded(S, TRUE))
  BY DEF SetQuitting
<1>2. /\ K \cup S \in SUBSET queues
      /\ R \cup Discarded(S, TRUE) \in SUBSET (K \cup S)
  BY <1>1 DEF Visited, Discarded
<1>. QED
  BY <1>1, <1>2, CancelQueuesEffect DEF OrderInv

LEMMA Cancels ==
    ASSUME IndInv, OrderInv,
           \/ \E k \in Routes : Cancel(k)
           \/ \E c \in Clients : RemoveClient(c)
           \/ \E d \in Devices : LoseDevice(d)
           \/ \E k \in ServiceKeys : CancelBuild(k)
           \/ Terminate
    PROVE  \E S, D : Cancellation(S, D)
<1>1. ASSUME NEW k \in Routes, Cancel(k)
      PROVE  \E S, D : Cancellation(S, D)
  <2>1. loop # "stopped" /\ {k} \in SUBSET queues /\ CancelQueues({k}, {})
    BY <1>1 DEF Cancel
  <2>. QED
    BY <2>1, CancelQueuesEffect DEF OrderInv
<1>2. ASSUME NEW c \in Clients, RemoveClient(c)
      PROVE  \E S, D : Cancellation(S, D)
  <2>. DEFINE K == SourceQueues(c)
  <2>1. /\ loop # "stopped" /\ K \in SUBSET queues /\ Unoccupied(K) \in SUBSET K
        /\ CancelQueues(K, Unoccupied(K)) \/ SetQuitting(K, Unoccupied(K))
    BY <1>2 DEF RemoveClient, SourceQueues, Unoccupied
  <2>. HIDE DEF K
  <2>. QED
    BY <2>1, CancelQueuesEffect, SetQuittingCancels DEF OrderInv
<1>3. ASSUME NEW d \in Devices, LoseDevice(d)
      PROVE  \E S, D : Cancellation(S, D)
  <2>. DEFINE K == SinkQueues(d)
  <2>1. /\ loop # "stopped" /\ K \in SUBSET queues /\ Unoccupied(K) \in SUBSET K
        /\ CancelQueues(K, Unoccupied(K))
    BY <1>3 DEF LoseDevice, SinkQueues, Unoccupied
  <2>. HIDE DEF K
  <2>. QED
    BY <2>1, CancelQueuesEffect DEF OrderInv
<1>4. ASSUME NEW k \in ServiceKeys, CancelBuild(k)
      PROVE  \E S, D : Cancellation(S, D)
  <2>1. /\ loop # "stopped" /\ {k} \in SUBSET queues
        /\ Discarded({k}, quitting) \in SUBSET {k}
        /\ CancelQueues({k}, Discarded({k}, quitting))
    BY <1>4 DEF CancelBuild, Discarded
  <2>. QED
    BY <2>1, CancelQueuesEffect DEF OrderInv
<1>5. CASE Terminate
  <2>1. loop # "stopped" /\ SetQuitting({}, {})
    BY <1>5 DEF Terminate
  <2>. QED
    BY <2>1, SetQuittingCancels
<1>. QED
  BY <1>1, <1>2, <1>3, <1>4, <1>5

----------------------------------------------------------------------------
(***************************************************************************)
(* The refinement                                                          *)
(***************************************************************************)
LEMMA InitBroker == Init => Broker!Init
<1>. SUFFICES ASSUME Init PROVE Broker!Init
  OBVIOUS
<1>1. stage = [r \in Requests |-> "new"]
  <2>1. \A r \in Requests : status[r] = "new"
    BY RequestShape DEF Init
  <2>2. Stage["new"] = "new"
    BY StageOf DEF Status
  <2>. QED
    BY <2>1, <2>2 DEF stage
<1>2. (loop # "stopped") = TRUE /\ replies = [r \in Requests |-> 0]
  BY DEF Init
<1>. QED
  BY <1>1, <1>2 DEF Broker!Init

LEMMA NextBroker ==
    ASSUME IndInv, IndInv', SafetyInv, [Next]_vars
    PROVE  Broker!Next \/ UNCHANGED Broker!vars
<1>. USE DEF SafetyInv
<1>1. ASSUME NEW k \in Routes, AddTask(k)
      PROVE  Broker!Next
  BY <1>1, SubmitStep
<1>2. ASSUME NEW S, NEW D, Cancellation(S, D)
      PROVE  Broker!Next
  BY <1>2, CancelStep
<1>3. ASSUME NEW k \in ServiceKeys, StartBuild(k)
      PROVE  UNCHANGED Broker!vars
  <2>1. /\ status' = [t \in Tasks |-> IF t[1] = k THEN "queued" ELSE status[t]]
        /\ UNCHANGED <<loop, replies>>
    BY <1>3 DEF StartBuild, processVars
  <2>2. \A r \in Requests : status'[r] = status[r]
    BY <2>1, RequestShape
  <2>. QED
    BY <2>1, <2>2, Unseen
<1>4. ASSUME NEW t \in Tasks, NEW s \in InFlight, status[t] \in InFlight,
             status' = [status EXCEPT ![t] = s], UNCHANGED <<loop, replies>>
      PROVE  UNCHANGED Broker!vars
  <2>1. \A r \in Requests : status'[r] = IF r = t THEN s ELSE status[r]
    BY <1>4, RequestShape DEF IndInv, TypeOK
  <2>2. Stage[s] = "served" /\ Stage[status[t]] = "served"
    BY <1>4, StageOf DEF Status
  <2>3. \A r \in Requests : Stage[status'[r]] = Stage[status[r]]
    BY <2>1, <2>2
  <2>. QED
    BY <1>4, <2>3, Unseen
<1>5. ASSUME NEW t \in Tasks, LoseProxy(t)
      PROVE  UNCHANGED Broker!vars
  BY <1>4, <1>5 DEF LoseProxy, processVars, InFlight, InAction
<1>6. ASSUME NEW r \in Requests, ActionCallback(r)
      PROVE  UNCHANGED Broker!vars
  BY <1>4, <1>6, RequestShape DEF ActionCallback, processVars, InFlight, InAction
<1>7. ASSUME NEW k \in Keys, ProcessTask(k)
      PROVE  Broker!Next \/ UNCHANGED Broker!vars
  <2>1. ASSUME Ready(k), BeginAndComplete(k)
        PROVE  Broker!Next \/ UNCHANGED Broker!vars
    <3>1. PICK gone \in BOOLEAN : Completion(k, Head(tasks[k]), gone)
      BY <2>1, BeginAndCompleteEffect DEF OrderInv
    <3>. QED
      BY <3>1, FinishStep
  <2>2. ASSUME Ready(k), NEW s \in InFlight, Begin(k, s)
        PROVE  Broker!Next \/ UNCHANGED Broker!vars
    BY <2>2, ServeStep
  <2>3. {"action", "finishing", "stuck"} \subseteq InFlight
    BY DEF InFlight, InAction
  <2>. QED
    BY <1>7, <2>1, <2>2, <2>3
       DEF ProcessTask, ProcessSync, ProcessAsync, BeginProtocolInfo,
           CompleteStep, FailDeclare
<1>8. ASSUME NEW t \in Tasks, loop # "stopped", status[t] \in InFlight,
             TaskCompleted(t, tasks[t[1]], running, idle)
      PROVE  Broker!Next \/ UNCHANGED Broker!vars
  <2>1. PICK gone \in BOOLEAN : Completion(t[1], t, gone)
    BY <1>8, CallbackEffect DEF OrderInv
  <2>. QED
    BY <2>1, FinishStep
<1>9. ASSUME NEW r \in Requests, AsyncTaskComplete(r)
      PROVE  Broker!Next \/ UNCHANGED Broker!vars
  BY <1>8, <1>9, RequestShape DEF AsyncTaskComplete, InFlight
<1>10. ASSUME NEW t \in ServiceTasks, ServiceActionCallback(t)
       PROVE  Broker!Next \/ UNCHANGED Broker!vars
  BY <1>8, <1>10, StepShape DEF ServiceActionCallback, InFlight, InAction
<1>11. ASSUME NEW k \in ServiceKeys, ChainEnd(k)
       PROVE  UNCHANGED Broker!vars
  BY <1>11, Unseen DEF ChainEnd, processVars, taskVars
<1>12. CASE ContextQuit
  BY <1>12, Unseen DEF ContextQuit, taskVars
<1>13. CASE MainLoopQuit
  BY <1>13, CloseStep
<1>14. CASE UNCHANGED vars
  BY <1>14, Unseen DEF vars, processVars, taskVars
<1>. QED
  <2>1. CASE \/ \E k \in Routes : Cancel(k)
             \/ \E c \in Clients : RemoveClient(c)
             \/ \E d \in Devices : LoseDevice(d)
             \/ \E k \in ServiceKeys : CancelBuild(k)
             \/ Terminate
    BY <1>2, <2>1, Cancels
  <2>. QED
    BY <1>1, <1>3, <1>5, <1>6, <1>7, <1>9, <1>10, <1>11, <1>12, <1>13, <1>14,
       <2>1
       DEF Next, ClientStep, DeviceStep, CallbackStep, Exited

\* Whatever clients, renderers, constructions and signals do, the service is
\* a broker to its clients: requests of a route are served in turn, given up
\* as a whole and answered once.
THEOREM SpecImplementsBroker == Spec => ImplementsBroker
<1>1. IndInv /\ SafetyInv /\ (IndInv /\ SafetyInv)' /\ [Next]_vars =>
         [Broker!Next]_(Broker!vars)
  BY NextBroker
<1>. QED
  BY <1>1, InitBroker, SpecSafetyInv, PTL DEF Spec, ImplementsBroker, Broker!Spec

=============================================================================
