------------------------ MODULE TaskProcessorProofs ------------------------
(***************************************************************************)
(* Proofs about the task processor, for any number of clients, renderers,  *)
(* constructions and requests.                                             *)
(***************************************************************************)
EXTENDS TaskProcessor, FiniteSetTheorems, SequenceTheorems, TLAPS

(***************************************************************************)
(* The inductive invariant behind RunningCount, CallbackFindsQueue and     *)
(* IdleFindsTask.                                                          *)
(***************************************************************************)

\* What a queue holds: tasks of its own key, waiting, each once; and nothing
\* when it is not in the table.
QueueContents ==
    \A k \in Keys :
        /\ \A i \in 1..Len(tasks[k]) :
              tasks[k][i][1] = k /\ status[tasks[k][i]] = "queued"
        /\ \A i, j \in 1..Len(tasks[k]) :
              tasks[k][i] = tasks[k][j] => i = j
        /\ k \notin queues => tasks[k] = <<>>

\* A current task is in flight, on the queue of its key.
CurrentInFlight ==
    \A k \in Keys : current[k] # NoTask =>
        current[k][1] = k /\ status[current[k]] \in InFlight

\* A task in flight is the current task of its queue, even after the exit.
InFlightCurrent ==
    \A t \in Tasks : status[t] \in InFlight => current[t[1]] = t

\* A queue with a current task is in the table while the loop runs.
BusyQueueLive ==
    loop # "stopped" => \A k \in Keys : current[k] # NoTask => k \in queues

IndInv ==
    /\ TypeOK
    /\ QueueContents
    /\ CurrentInFlight
    /\ InFlightCurrent
    /\ BusyQueueLive
    /\ IdleFindsTask
    /\ RunningCount

----------------------------------------------------------------------------
(***************************************************************************)
(* Constants                                                               *)
(***************************************************************************)

\* Only finitely many queues can exist, so that they can be counted.
LEMMA KeysFinite == IsFiniteSet(Keys)
<1>1. IsFiniteSet({RSU_SINK})
  BY FS_Singleton
<1>2. IsFiniteSet(ServiceKeys)
  BY <1>1, FS_Product, BuildsAssumption DEF ServiceKeys
<1>. QED
  BY <1>2, FS_Union, RoutesAssumption DEF Keys

\* A task is its key and its number.
LEMMA TaskShape ==
    ASSUME NEW t \in Tasks
    PROVE  /\ t[1] \in Keys
           /\ t # NoTask
           /\ t \in Requests <=> t[1] \in Routes
           /\ t \in ServiceTasks <=> t[1] \in ServiceKeys
<1>1. \A k \in Routes : k \notin ServiceKeys
  BY RoutesAssumption, BuildsAssumption DEF ServiceKeys
<1>. QED
  BY <1>1, NoTaskAssumption DEF Tasks, Requests, ServiceTasks, Keys

----------------------------------------------------------------------------
(***************************************************************************)
(* Counting the running tasks                                              *)
(***************************************************************************)
Busy == {k \in Keys : current[k] # NoTask}

LEMMA BusyFinite ==
    /\ IsFiniteSet(Busy)
    /\ Cardinality(Busy) \in Nat
BY KeysFinite, FS_Subset, FS_CardinalityType DEF Busy

\* Taking a queue from the busy ones, or adding one, moves the count by one.
LEMMA BusyStep ==
    ASSUME NEW k \in Keys
    PROVE  /\ Cardinality(Busy \ {k}) \in Nat
           /\ k \in Busy =>
                 Cardinality(Busy \ {k}) = Cardinality(Busy) - 1
           /\ k \notin Busy =>
                 /\ Cardinality(Busy \cup {k}) = Cardinality(Busy) + 1
                 /\ Busy \ {k} = Busy
<1>1. IsFiniteSet(Busy \ {k})
  BY BusyFinite, FS_Subset
<1>. QED
  BY <1>1, BusyFinite, FS_CardinalityType, FS_RemoveElement, FS_AddElement

----------------------------------------------------------------------------
(***************************************************************************)
(* The elements of a queue                                                 *)
(***************************************************************************)
LEMMA PendingElements ==
    ASSUME TypeOK, QueueContents, NEW S \in SUBSET Keys, NEW t
    PROVE  t \in Pending(S) => /\ t \in Tasks
                               /\ t[1] \in S
                               /\ status[t] = "queued"
<1>. SUFFICES ASSUME t \in Pending(S)
              PROVE  t \in Tasks /\ t[1] \in S /\ status[t] = "queued"
  OBVIOUS
<1>1. PICK k \in S : t \in Range(tasks[k])
  BY DEF Pending
<1>2. tasks[k] \in Seq(Tasks) /\ k \in Keys
  BY DEF TypeOK
<1>3. PICK i \in 1..Len(tasks[k]) : t = tasks[k][i]
  BY <1>1, <1>2 DEF Range
<1>. QED
  BY <1>2, <1>3 DEF QueueContents

----------------------------------------------------------------------------
(***************************************************************************)
(* rsu_task_queue_task_completed preserves the invariant.  t is the task   *)
(* that completes, whether it was the current task of its queue already    *)
(* or has just been taken from its head; nothing else of its queue runs.   *)
(***************************************************************************)
LEMMA TaskCompletedPreserves ==
    ASSUME IndInv, loop # "stopped",
           NEW k \in queues, NEW t \in Tasks, t[1] = k,
           NEW rest \in Seq(Tasks), NEW n \in Nat, NEW armed,
           \A i \in 1..Len(rest) : /\ rest[i][1] = k
                                   /\ rest[i] # t
                                   /\ status[rest[i]] = "queued",
           \A i, j \in 1..Len(rest) : rest[i] = rest[j] => i = j,
           n = Cardinality(Busy \ {k}) + 1,
           armed = idle \ {k},
           \A u \in Tasks : u[1] = k /\ status[u] \in InFlight => u = t,
           cancelled' \subseteq ServiceKeys,
           TaskCompleted(t, rest, n, armed)
    PROVE  IndInv'
<1>. DEFINE gone == ~QuitNow(n) /\ RemoveNow(k, rest)
            deleted == {t} \cup IF gone THEN Range(rest) ELSE {}
<1>. k \in Keys
  BY DEF IndInv, TypeOK
<1>1. /\ running' = n - 1
      /\ current' = [current EXCEPT ![k] = NoTask]
      /\ tasks' = [tasks EXCEPT ![k] = IF gone THEN <<>> ELSE rest]
      /\ status' = [u \in Tasks |-> IF u = t THEN "completed"
                                    ELSE IF u \in deleted THEN "dropped"
                                    ELSE status[u]]
      /\ invocation' = invocation \ deleted
      /\ replies' = [r \in Requests |-> replies[r] +
                        IF r \in deleted \cap invocation THEN 1 ELSE 0]
      /\ queues' = IF gone THEN queues \ {k} ELSE queues
      /\ defer' \subseteq defer
      /\ finally' \subseteq finally \cup ServiceKeys
      /\ onQuit' \in {onQuit, TRUE}
      /\ idle' = armed \/ (idle' = armed \cup {k} /\ k \notin defer
                           /\ ~gone /\ rest # <<>>)
      /\ UNCHANGED <<exposed, quitting, loop, watchers>>
  BY DEF TaskCompleted, Answer, RemoveNow
<1>. HIDE DEF gone
<1>2. \A u \in Range(rest) : u \in Tasks /\ u[1] = k /\ u # t
                             /\ status[u] = "queued"
  BY DEF Range
<1>3. \A u \in Tasks : u[1] # k => status'[u] = status[u]
  BY <1>1, <1>2
<1>3a. running' = Cardinality(Busy \ {k}) /\ running' \in Nat
  <2>1. Cardinality(Busy \ {k}) \in Nat
    BY BusyStep
  <2>. QED
    BY <1>1, <2>1
<1>4. TypeOK'
  <2>1. tasks' \in [Keys -> Seq(Tasks)]
    <3>1. <<>> \in Seq(Tasks)
      OBVIOUS
    <3>. QED
      BY <1>1, <3>1 DEF IndInv, TypeOK
  <2>2. status' \in [Tasks -> Status]
    BY <1>1 DEF IndInv, TypeOK, Status
  <2>3. replies' \in [Requests -> Nat]
    BY <1>1 DEF IndInv, TypeOK
  <2>4. running' \in Nat
    BY <1>3a
  <2>5. finally' \subseteq ServiceKeys /\ onQuit' \in BOOLEAN
    BY <1>1 DEF IndInv, TypeOK
  <2>6. current' \in [Keys -> Tasks \cup {NoTask}]
    BY <1>1 DEF IndInv, TypeOK
  <2>. QED
    BY <1>1, <2>1, <2>2, <2>3, <2>4, <2>5, <2>6 DEF IndInv, TypeOK
<1>5. QueueContents'
  <2>. SUFFICES ASSUME NEW q \in Keys
                PROVE  /\ \A i \in 1..Len(tasks'[q]) :
                             /\ tasks'[q][i][1] = q
                             /\ status'[tasks'[q][i]] = "queued"
                       /\ \A i, j \in 1..Len(tasks'[q]) :
                             tasks'[q][i] = tasks'[q][j] => i = j
                       /\ q \notin queues' => tasks'[q] = <<>>
    BY DEF QueueContents
  <2>1. CASE q # k
    <3>1. tasks'[q] = tasks[q] /\ (q \notin queues' => q \notin queues)
      BY <1>1, <2>1 DEF IndInv, TypeOK
    <3>2. tasks[q] \in Seq(Tasks)
      BY DEF IndInv, TypeOK
    <3>. QED
      BY <1>3, <2>1, <3>1, <3>2 DEF IndInv, QueueContents
  <2>2. CASE q = k /\ gone
    BY <1>1, <2>2 DEF IndInv, TypeOK
  <2>3. CASE q = k /\ ~gone
    <3>1. tasks'[q] = rest /\ q \in queues'
      BY <1>1, <2>3 DEF IndInv, TypeOK
    <3>2. \A i \in 1..Len(rest) : status'[rest[i]] = "queued"
      BY <1>1, <2>3
    <3>. QED
      BY <2>3, <3>1, <3>2
  <2>. QED
    BY <2>1, <2>2, <2>3
<1>6. \A q \in Keys : current'[q] = IF q = k THEN NoTask ELSE current[q]
  BY <1>1 DEF IndInv, TypeOK
<1>7. CurrentInFlight'
  BY <1>3, <1>6 DEF IndInv, TypeOK, CurrentInFlight
<1>8. InFlightCurrent'
  <2>. SUFFICES ASSUME NEW u \in Tasks, status'[u] \in InFlight
                PROVE  current'[u[1]] = u
    BY DEF InFlightCurrent
  <2>1. u # t /\ status[u] = status'[u]
    BY <1>1 DEF InFlight, InAction
  <2>2. u[1] # k
    BY <2>1
  <2>. QED
    BY <1>6, <2>1, <2>2, TaskShape DEF IndInv, InFlightCurrent
<1>9. BusyQueueLive'
  BY <1>1, <1>6 DEF IndInv, BusyQueueLive
<1>10. IdleFindsTask'
  <2>. SUFFICES ASSUME NEW q \in idle'
                PROVE  /\ q \in queues' \ defer'
                       /\ tasks'[q] # <<>>
                       /\ current'[q] = NoTask
    BY DEF IdleFindsTask
  <2>1. CASE q # k
    <3>1. q \in idle
      BY <1>1, <2>1
    <3>. QED
      BY <1>1, <1>6, <2>1, <3>1 DEF IndInv, TypeOK, IdleFindsTask
  <2>2. CASE q = k
    BY <1>1, <1>6, <2>2 DEF IndInv, TypeOK
  <2>. QED
    BY <2>1, <2>2
<1>11. RunningCount'
  <2>1. Busy' = Busy \ {k}
    BY <1>6 DEF Busy
  <2>. QED
    BY <1>3a, <2>1 DEF RunningCount, Busy
<1>. QED
  BY <1>4, <1>5, <1>7, <1>8, <1>9, <1>10, <1>11 DEF IndInv

----------------------------------------------------------------------------
(***************************************************************************)
(* Cancelling the queues of S and removing those of R preserves the        *)
(* invariant when no queue is removed under a task that goes on running.   *)
(***************************************************************************)
LEMMA CancelQueuesPreserves ==
    ASSUME IndInv, loop # "stopped",
           NEW S \in SUBSET queues, NEW R \in SUBSET S,
           \A k \in R : current[k] = NoTask \/ k \in Interrupted(S),
           defer' \in SUBSET (defer \cup S),
           quitting' \in BOOLEAN, onQuit' \in BOOLEAN,
           watchers' \in SUBSET Clients,
           CancelQueues(S, R)
    PROVE  IndInv'
<1>. DEFINE I == Interrupted(S)
<1>1. S \subseteq Keys /\ R \subseteq Keys
  BY DEF IndInv, TypeOK
<1>2. /\ queues' = queues \ R
      /\ tasks' = [k \in Keys |-> IF k \in S THEN <<>> ELSE tasks[k]]
      /\ idle' = idle \ S
      /\ current' = [k \in Keys |-> IF k \in R \cup I
                                    THEN NoTask ELSE current[k]]
      /\ running' = running - Cardinality(I)
      /\ cancelled' = cancelled \cup (S \cap ServiceKeys)
      /\ finally' = finally \cup (R \cap ServiceKeys)
      /\ status' = CancelStatus(S)
      /\ Answer(Pending(S) \cup Running(S))
      /\ UNCHANGED <<exposed, loop>>
  BY DEF CancelQueues
<1>3. \A t \in Tasks :
         \/ status'[t] = status[t] /\ t \notin Pending(S)
         \/ status'[t] = "dropped" /\ t \in Pending(S)
         \/ /\ status'[t] = "finishing" /\ t \in Requests
            /\ status[t] \in InAction /\ t \in Running(S)
         \/ /\ status'[t] = "dropped" /\ t \notin Requests
            /\ status[t] \in InAction /\ t \in Running(S)
  BY <1>2 DEF CancelStatus
<1>4. \A t \in Pending(S) : t \in Tasks /\ t[1] \in S /\ status[t] = "queued"
  BY <1>1, PendingElements DEF IndInv
<1>5. \A t \in Running(S) : t \in Tasks /\ t[1] \in S /\ current[t[1]] = t
                            /\ status[t] \in InFlight
  BY <1>1 DEF Running, IndInv, TypeOK, CurrentInFlight
<1>6. I \subseteq S /\ I \subseteq Busy
  BY <1>1 DEF Interrupted, Busy
<1>7. \A k \in Keys : current'[k] = IF k \in R \cup I
                                    THEN NoTask ELSE current[k]
  BY <1>2
<1>8. Busy' = Busy \ I
  <2>1. \A k \in R \ I : k \notin Busy
    BY DEF Busy
  <2>. QED
    BY <1>7, <2>1 DEF Busy
<1>9. running' = Cardinality(Busy') /\ running' \in Nat
  <2>1. IsFiniteSet(Busy) /\ Cardinality(Busy) \in Nat
    BY BusyFinite
  <2>2. IsFiniteSet(I) /\ IsFiniteSet(Busy \ I)
    BY <1>6, <2>1, FS_Subset
  <2>3. Cardinality(I) \in Nat /\ Cardinality(Busy \ I) \in Nat
    BY <2>2, FS_CardinalityType
  <2>4. Cardinality(Busy \ I) = Cardinality(Busy) - Cardinality(I)
    <3>1. Busy \cap I = I
      BY <1>6
    <3>. QED
      BY <2>1, <3>1, FS_Difference
  <2>5. running = Cardinality(Busy)
    BY DEF IndInv, RunningCount, Busy
  <2>. QED
    BY <1>2, <1>8, <2>3, <2>4, <2>5
<1>10. TypeOK'
  <2>1. tasks' \in [Keys -> Seq(Tasks)]
    <3>1. <<>> \in Seq(Tasks)
      OBVIOUS
    <3>. QED
      BY <1>2, <3>1 DEF IndInv, TypeOK
  <2>2. status' \in [Tasks -> Status]
    <3>1. \A t \in Tasks : status'[t] \in Status
      BY <1>3 DEF IndInv, TypeOK, Status, InFlight
    <3>. QED
      BY <1>2, <3>1 DEF CancelStatus
  <2>3. replies' \in [Requests -> Nat] /\ invocation' \subseteq Requests
    BY <1>2 DEF Answer, IndInv, TypeOK
  <2>4. current' \in [Keys -> Tasks \cup {NoTask}]
    BY <1>2 DEF IndInv, TypeOK
  <2>. QED
    BY <1>1, <1>2, <1>9, <2>1, <2>2, <2>3, <2>4 DEF IndInv, TypeOK
<1>11. QueueContents'
  <2>. SUFFICES ASSUME NEW q \in Keys
                PROVE  /\ \A i \in 1..Len(tasks'[q]) :
                             /\ tasks'[q][i][1] = q
                             /\ status'[tasks'[q][i]] = "queued"
                       /\ \A i, j \in 1..Len(tasks'[q]) :
                             tasks'[q][i] = tasks'[q][j] => i = j
                       /\ q \notin queues' => tasks'[q] = <<>>
    BY DEF QueueContents
  <2>1. CASE q \in S
    BY <1>2, <2>1
  <2>2. CASE q \notin S
    <3>1. tasks'[q] = tasks[q] /\ tasks[q] \in Seq(Tasks)
      BY <1>2, <2>2 DEF IndInv, TypeOK
    <3>2. q \notin queues' => q \notin queues
      BY <1>2, <2>2
    <3>3. \A i \in 1..Len(tasks[q]) :
             /\ tasks[q][i] \in Tasks
             /\ tasks[q][i][1] = q
             /\ status[tasks[q][i]] = "queued"
      BY <3>1 DEF IndInv, QueueContents
    <3>4. \A i \in 1..Len(tasks[q]) : status'[tasks[q][i]] = "queued"
      BY <1>3, <1>4, <2>2, <3>3 DEF InAction
    <3>. QED
      BY <3>1, <3>2, <3>3, <3>4 DEF IndInv, QueueContents
  <2>. QED
    BY <2>1, <2>2
<1>12. CurrentInFlight'
  <2>. SUFFICES ASSUME NEW q \in Keys, current'[q] # NoTask
                PROVE  /\ current'[q][1] = q
                       /\ status'[current'[q]] \in InFlight
    BY DEF CurrentInFlight
  <2>1. current'[q] = current[q] /\ q \notin I
    BY <1>7
  <2>2. /\ current[q] \in Tasks
        /\ current[q][1] = q
        /\ status[current[q]] \in InFlight
    BY <2>1 DEF IndInv, TypeOK, CurrentInFlight
  <2>3. current[q] \notin Pending(S)
    BY <1>4, <2>2 DEF InFlight, InAction
  <2>4. current[q] \notin Requests /\ status[current[q]] \in InAction
           => current[q] \notin Running(S)
    <3>. SUFFICES ASSUME current[q] \notin Requests,
                         status[current[q]] \in InAction,
                         current[q] \in Running(S)
                  PROVE  FALSE
      OBVIOUS
    <3>1. q \in S /\ q \in ServiceKeys
      BY <1>5, <2>2, TaskShape DEF Tasks
    <3>. QED
      BY <2>1, <3>1 DEF Interrupted
  <2>. QED
    BY <1>3, <2>1, <2>2, <2>3, <2>4 DEF InFlight
<1>13. InFlightCurrent'
  <2>. SUFFICES ASSUME NEW u \in Tasks, status'[u] \in InFlight
                PROVE  current'[u[1]] = u
    BY DEF InFlightCurrent
  <2>1. status[u] \in InFlight
    BY <1>3 DEF InFlight, InAction
  <2>2. current[u[1]] = u /\ u[1] \in Keys /\ u # NoTask
    BY <2>1, TaskShape DEF IndInv, InFlightCurrent
  <2>3. u[1] \notin I
    <3>. SUFFICES ASSUME u[1] \in I
                  PROVE  FALSE
      OBVIOUS
    <3>1. u[1] \in S /\ status[u] \in InAction /\ u \notin Requests
      BY <2>2, TaskShape, RoutesAssumption, BuildsAssumption
         DEF Interrupted, ServiceKeys
    <3>2. u \in Running(S)
      BY <2>2, <3>1 DEF Running
    <3>3. status'[u] = "dropped"
      BY <1>2, <3>1, <3>2 DEF CancelStatus
    <3>. QED
      BY <3>3 DEF InFlight, InAction
  <2>4. u[1] \notin R
    BY <2>2, <2>3
  <2>. QED
    BY <1>7, <2>2, <2>3, <2>4
<1>14. BusyQueueLive'
  BY <1>2, <1>7 DEF IndInv, BusyQueueLive
<1>15. IdleFindsTask'
  <2>. SUFFICES ASSUME NEW q \in idle'
                PROVE  /\ q \in queues' \ defer'
                       /\ tasks'[q] # <<>>
                       /\ current'[q] = NoTask
    BY DEF IdleFindsTask
  <2>1. q \in idle /\ q \notin S /\ q \in Keys
    BY <1>2 DEF IndInv, TypeOK
  <2>2. q \in queues \ defer /\ tasks[q] # <<>> /\ current[q] = NoTask
    BY <2>1 DEF IndInv, IdleFindsTask
  <2>. QED
    BY <1>2, <1>7, <2>1, <2>2
<1>16. RunningCount'
  BY <1>9 DEF RunningCount, Busy
<1>. QED
  BY <1>10, <1>11, <1>12, <1>13, <1>14, <1>15, <1>16 DEF IndInv

----------------------------------------------------------------------------
(***************************************************************************)
(* The steps of the process idle and of the callbacks                      *)
(***************************************************************************)

\* What prv_task_queue_process_task takes from a queue whose idle fires.
LEMMA HeadOfReadyQueue ==
    ASSUME IndInv, NEW k \in Keys, Ready(k)
    PROVE  /\ k \in queues /\ current[k] = NoTask /\ k \notin Busy
           /\ tasks[k] \in Seq(Tasks) /\ tasks[k] # <<>>
           /\ Head(tasks[k]) \in Tasks
           /\ Head(tasks[k])[1] = k
           /\ status[Head(tasks[k])] = "queued"
           /\ Tail(tasks[k]) \in Seq(Tasks)
           /\ \A i \in 1..Len(Tail(tasks[k])) :
                 /\ Tail(tasks[k])[i][1] = k
                 /\ Tail(tasks[k])[i] # Head(tasks[k])
                 /\ status[Tail(tasks[k])[i]] = "queued"
           /\ \A i, j \in 1..Len(Tail(tasks[k])) :
                 Tail(tasks[k])[i] = Tail(tasks[k])[j] => i = j
<1>. DEFINE s == tasks[k]
<1>1. k \in queues /\ s # <<>> /\ current[k] = NoTask
  BY DEF Ready, IndInv, IdleFindsTask
<1>2. s \in Seq(Tasks)
  BY DEF IndInv, TypeOK
<1>3. /\ \A i \in 1..Len(s) : s[i][1] = k /\ status[s[i]] = "queued"
      /\ \A i, j \in 1..Len(s) : s[i] = s[j] => i = j
  BY DEF IndInv, QueueContents
<1>. HIDE DEF s
<1>4. /\ Head(s) = s[1] /\ 1 \in 1..Len(s)
      /\ Tail(s) \in Seq(Tasks)
      /\ \A i \in 1..Len(Tail(s)) : Tail(s)[i] = s[i + 1] /\ i + 1 \in 1..Len(s)
  BY <1>1, <1>2
<1>5. s[1] \in Tasks
  BY <1>2, <1>4
<1>6. \A i \in 1..Len(Tail(s)) : i + 1 # 1
  OBVIOUS
<1>7. \A i \in 1..Len(Tail(s)) : /\ Tail(s)[i][1] = k
                                 /\ Tail(s)[i] # Head(s)
                                 /\ status[Tail(s)[i]] = "queued"
  BY <1>3, <1>4, <1>6
<1>8. \A i, j \in 1..Len(Tail(s)) : Tail(s)[i] = Tail(s)[j] => i = j
  <2>. SUFFICES ASSUME NEW i \in 1..Len(Tail(s)), NEW j \in 1..Len(Tail(s)),
                       Tail(s)[i] = Tail(s)[j]
                PROVE  i = j
    OBVIOUS
  <2>1. s[i + 1] = s[j + 1]
    BY <1>4
  <2>2. i + 1 = j + 1
    BY <1>3, <1>4, <2>1
  <2>. QED
    BY <2>2
<1>. QED
  BY <1>1, <1>2, <1>3, <1>4, <1>5, <1>7, <1>8 DEF s, Busy

\* The head of a queue becomes its current task, in flight.
LEMMA BeginPreserves ==
    ASSUME IndInv, NEW k \in Keys, Ready(k), NEW s \in InFlight, Begin(k, s),
           cancelled' \subseteq ServiceKeys
    PROVE  IndInv'
<1>. DEFINE t == Head(tasks[k])
            rest == Tail(tasks[k])
<1>1. /\ k \in queues /\ current[k] = NoTask /\ k \notin Busy
      /\ t \in Tasks /\ t[1] = k /\ status[t] = "queued"
      /\ rest \in Seq(Tasks)
      /\ \A i \in 1..Len(rest) : /\ rest[i][1] = k
                                 /\ rest[i] # t
                                 /\ status[rest[i]] = "queued"
      /\ \A i, j \in 1..Len(rest) : rest[i] = rest[j] => i = j
  BY HeadOfReadyQueue
<1>2. /\ current' = [current EXCEPT ![k] = t]
      /\ tasks' = [tasks EXCEPT ![k] = rest]
      /\ idle' = idle \ {k}
      /\ running' = running + 1
      /\ status' = [status EXCEPT ![t] = s]
      /\ UNCHANGED <<queues, defer, finally, exposed, quitting, onQuit, loop,
                     watchers, invocation, replies>>
  BY DEF Begin
<1>. HIDE DEF t, rest
<1>3. t # NoTask
  BY <1>1, TaskShape
<1>4. \A u \in Tasks : status'[u] = IF u = t THEN s ELSE status[u]
  BY <1>2 DEF IndInv, TypeOK
<1>5. \A q \in Keys : /\ current'[q] = IF q = k THEN t ELSE current[q]
                      /\ tasks'[q] = IF q = k THEN rest ELSE tasks[q]
  BY <1>2 DEF IndInv, TypeOK
<1>6. running' = Cardinality(Busy') /\ running' \in Nat
  <2>1. Busy' = Busy \cup {k}
    BY <1>3, <1>5 DEF Busy
  <2>2. Cardinality(Busy \cup {k}) = Cardinality(Busy) + 1
    BY <1>1, BusyStep
  <2>3. running = Cardinality(Busy) /\ running \in Nat
    BY DEF IndInv, TypeOK, RunningCount, Busy
  <2>. QED
    BY <1>2, <2>1, <2>2, <2>3
<1>7. TypeOK'
  <2>1. tasks' \in [Keys -> Seq(Tasks)]
    BY <1>1, <1>2 DEF IndInv, TypeOK
  <2>2. status' \in [Tasks -> Status]
    BY <1>2 DEF IndInv, TypeOK, Status
  <2>3. current' \in [Keys -> Tasks \cup {NoTask}]
    BY <1>1, <1>2 DEF IndInv, TypeOK
  <2>. QED
    BY <1>2, <1>6, <2>1, <2>2, <2>3 DEF IndInv, TypeOK
<1>8. QueueContents'
  <2>. SUFFICES ASSUME NEW q \in Keys
                PROVE  /\ \A i \in 1..Len(tasks'[q]) :
                             /\ tasks'[q][i][1] = q
                             /\ status'[tasks'[q][i]] = "queued"
                       /\ \A i, j \in 1..Len(tasks'[q]) :
                             tasks'[q][i] = tasks'[q][j] => i = j
                       /\ q \notin queues' => tasks'[q] = <<>>
    BY DEF QueueContents
  <2>1. CASE q = k
    <3>1. \A i \in 1..Len(rest) : status'[rest[i]] = "queued"
      BY <1>1, <1>4
    <3>. QED
      BY <1>1, <1>2, <1>5, <2>1, <3>1
  <2>2. CASE q # k
    <3>1. tasks'[q] = tasks[q] /\ tasks[q] \in Seq(Tasks)
      BY <1>5, <2>2 DEF IndInv, TypeOK
    <3>2. \A i \in 1..Len(tasks[q]) :
             /\ tasks[q][i] \in Tasks
             /\ tasks[q][i] # t
             /\ status'[tasks[q][i]] = "queued"
      BY <1>1, <1>4, <2>2, <3>1 DEF IndInv, QueueContents
    <3>. QED
      BY <1>2, <3>1, <3>2 DEF IndInv, QueueContents
  <2>. QED
    BY <2>1, <2>2
<1>9. CurrentInFlight'
  <2>. SUFFICES ASSUME NEW q \in Keys, current'[q] # NoTask
                PROVE  /\ current'[q][1] = q
                       /\ status'[current'[q]] \in InFlight
    BY DEF CurrentInFlight
  <2>1. CASE q = k
    BY <1>1, <1>4, <1>5, <2>1
  <2>2. CASE q # k
    <3>1. current'[q] = current[q] /\ current[q] \in Tasks
      BY <1>5, <2>2 DEF IndInv, TypeOK
    <3>2. current[q][1] = q /\ status[current[q]] \in InFlight
      BY <3>1 DEF IndInv, CurrentInFlight
    <3>3. current[q] # t
      BY <1>1, <2>2, <3>2
    <3>. QED
      BY <1>4, <3>1, <3>2, <3>3
  <2>. QED
    BY <2>1, <2>2
<1>10. InFlightCurrent'
  <2>. SUFFICES ASSUME NEW u \in Tasks, status'[u] \in InFlight
                PROVE  current'[u[1]] = u
    BY DEF InFlightCurrent
  <2>1. CASE u = t
    BY <1>1, <1>5, <2>1
  <2>2. CASE u # t
    <3>1. current[u[1]] = u /\ u # NoTask /\ u[1] \in Keys
      BY <1>4, <2>2, TaskShape DEF IndInv, InFlightCurrent
    <3>2. u[1] # k
      BY <1>1, <3>1
    <3>. QED
      BY <1>5, <3>1, <3>2
  <2>. QED
    BY <2>1, <2>2
<1>11. BusyQueueLive'
  BY <1>1, <1>2, <1>5 DEF IndInv, BusyQueueLive
<1>12. IdleFindsTask'
  BY <1>2, <1>5 DEF IndInv, TypeOK, IdleFindsTask
<1>13. RunningCount'
  BY <1>6 DEF RunningCount, Busy
<1>. QED
  BY <1>7, <1>8, <1>9, <1>10, <1>11, <1>12, <1>13 DEF IndInv

\* The head of a queue is processed to its end within the dispatch.
LEMMA BeginAndCompletePreserves ==
    ASSUME IndInv, NEW k \in Keys, Ready(k), BeginAndComplete(k),
           cancelled' \subseteq ServiceKeys
    PROVE  IndInv'
<1>1. /\ k \in queues /\ current[k] = NoTask /\ k \notin Busy
      /\ Head(tasks[k]) \in Tasks /\ Head(tasks[k])[1] = k
      /\ Tail(tasks[k]) \in Seq(Tasks)
      /\ \A i \in 1..Len(Tail(tasks[k])) :
            /\ Tail(tasks[k])[i][1] = k
            /\ Tail(tasks[k])[i] # Head(tasks[k])
            /\ status[Tail(tasks[k])[i]] = "queued"
      /\ \A i, j \in 1..Len(Tail(tasks[k])) :
            Tail(tasks[k])[i] = Tail(tasks[k])[j] => i = j
  BY HeadOfReadyQueue
<1>2. running + 1 = Cardinality(Busy \ {k}) + 1 /\ running + 1 \in Nat
  <2>1. Busy \ {k} = Busy
    BY <1>1
  <2>2. running = Cardinality(Busy) /\ running \in Nat
    BY DEF IndInv, TypeOK, RunningCount, Busy
  <2>3. Cardinality(Busy \ {k}) = Cardinality(Busy)
    BY <2>1, Zenon
  <2>. QED
    BY <2>2, <2>3
<1>3. \A u \in Tasks : u[1] = k /\ status[u] \in InFlight
                          => u = Head(tasks[k])
  BY <1>1, TaskShape DEF IndInv, InFlightCurrent
<1>4. TaskCompleted(Head(tasks[k]), Tail(tasks[k]), running + 1, idle \ {k})
  BY DEF BeginAndComplete
<1>5. loop # "stopped"
  BY DEF Ready
<1>. QED
  BY <1>1, <1>2, <1>3, <1>4, <1>5, TaskCompletedPreserves

\* A task in flight completes.
LEMMA CallbackPreserves ==
    ASSUME IndInv, loop # "stopped",
           NEW t \in Tasks, status[t] \in InFlight,
           TaskCompleted(t, tasks[t[1]], running, idle),
           UNCHANGED cancelled
    PROVE  IndInv'
<1>. DEFINE k == t[1]
<1>1. k \in Keys /\ t # NoTask /\ current[k] = t
  BY TaskShape DEF IndInv, InFlightCurrent
<1>2. k \in Busy /\ k \in queues /\ k \notin idle
  BY <1>1 DEF Busy, IndInv, BusyQueueLive, IdleFindsTask
<1>3. running = Cardinality(Busy \ {k}) + 1 /\ running \in Nat
  <2>1. Cardinality(Busy \ {k}) = Cardinality(Busy) - 1
    BY <1>1, <1>2, BusyStep
  <2>2. running = Cardinality(Busy) /\ running \in Nat
    BY DEF IndInv, TypeOK, RunningCount, Busy
  <2>. QED
    BY <2>1, <2>2
<1>4. tasks[k] \in Seq(Tasks)
  BY <1>1 DEF IndInv, TypeOK
<1>5. \A i \in 1..Len(tasks[k]) : /\ tasks[k][i][1] = k
                                  /\ tasks[k][i] # t
                                  /\ status[tasks[k][i]] = "queued"
  BY <1>1 DEF IndInv, QueueContents, InFlight, InAction
<1>6. \A i, j \in 1..Len(tasks[k]) : tasks[k][i] = tasks[k][j] => i = j
  BY <1>1 DEF IndInv, QueueContents
<1>7. \A u \in Tasks : u[1] = k /\ status[u] \in InFlight => u = t
  BY <1>1 DEF IndInv, InFlightCurrent
<1>8. idle = idle \ {k}
  BY <1>2
<1>9. cancelled' \subseteq ServiceKeys
  BY DEF IndInv, TypeOK
<1>. QED
  BY <1>2, <1>3, <1>4, <1>5, <1>6, <1>7, <1>8, <1>9, TaskCompletedPreserves

----------------------------------------------------------------------------
(***************************************************************************)
(* Shutdown                                                                *)
(***************************************************************************)
LEMMA SetQuittingPreserves ==
    ASSUME IndInv, loop # "stopped",
           NEW K \in SUBSET queues, NEW R \in SUBSET K,
           \A k \in R : current[k] = NoTask,
           defer' \in SUBSET (defer \cup K),
           watchers' \in SUBSET Clients,
           SetQuitting(K, R)
    PROVE  IndInv'
<1>1. PICK S \in IF running > 0 THEN Visited(queues \ R) ELSE {{}} :
         CancelQueues(K \cup S, R \cup Discarded(S, TRUE))
  BY DEF SetQuitting
<1>2. S \subseteq queues
  BY <1>1 DEF Visited
<1>3. quitting' \in BOOLEAN /\ onQuit' \in BOOLEAN
  BY DEF SetQuitting, IndInv, TypeOK
<1>4. Discarded(S, TRUE) \subseteq S
  BY DEF Discarded
<1>5. \A k \in R \cup Discarded(S, TRUE) :
         current[k] = NoTask \/ k \in Interrupted(K \cup S)
  BY DEF Discarded, Interrupted
<1>6. defer' \in SUBSET (defer \cup (K \cup S))
  OBVIOUS
<1>. QED
  BY <1>1, <1>2, <1>3, <1>4, <1>5, <1>6, CancelQueuesPreserves

----------------------------------------------------------------------------
(***************************************************************************)
(* The other steps, one lemma per action that does more than change one    *)
(* variable                                                                *)
(***************************************************************************)
LEMMA AddTaskPreserves ==
    ASSUME IndInv, NEW k \in Routes, AddTask(k)
    PROVE  IndInv'
<1>1. PICK n \in 1..MaxRequests[k] :
         /\ status[<<k, n>>] = "new"
         /\ tasks' = [tasks EXCEPT ![k] = Append(@, <<k, n>>)]
         /\ status' = [status EXCEPT ![<<k, n>>] = "queued"]
         /\ invocation' = invocation \cup {<<k, n>>}
  BY DEF AddTask
<1>. DEFINE t == <<k, n>>
<1>2. /\ loop # "stopped"
      /\ watchers' = watchers \cup {k[1]}
      /\ queues' = queues \cup {k}
      /\ idle' = idle \cup AutoStart(k)
      /\ UNCHANGED <<current, defer, chainVars, running, quitting, onQuit, loop,
                     replies>>
  BY DEF AddTask
<1>3. k \in Keys /\ t \in Requests /\ t \in Tasks /\ k[1] \in Clients
  BY RoutesAssumption DEF Keys, Requests, Tasks
<1>4. t[1] = k
  OBVIOUS
<1>5. status[t] = "new"
  BY <1>1
<1>6. \A u \in Tasks : status'[u] = IF u = t THEN "queued" ELSE status[u]
  BY <1>1, <1>3 DEF IndInv, TypeOK
<1>7. tasks[k] \in Seq(Tasks)
  BY <1>3 DEF IndInv, TypeOK
<1>8. \A q \in Keys : tasks'[q] = IF q = k THEN Append(tasks[k], t)
                                  ELSE tasks[q]
  BY <1>1 DEF IndInv, TypeOK
<1>9. tasks' = [tasks EXCEPT ![k] = Append(@, t)]
  BY <1>1
<1>10. status' = [status EXCEPT ![t] = "queued"]
       /\ invocation' = invocation \cup {t}
  BY <1>1
<1>. HIDE DEF t
<1>11. TypeOK'
  <2>1. tasks' \in [Keys -> Seq(Tasks)]
    BY <1>3, <1>7, <1>9 DEF IndInv, TypeOK
  <2>2. status' \in [Tasks -> Status]
    BY <1>10 DEF IndInv, TypeOK, Status
  <2>3. idle' \subseteq Keys
    BY <1>2, <1>3 DEF IndInv, TypeOK, AutoStart
  <2>. QED
    BY <1>2, <1>3, <1>10, <2>1, <2>2, <2>3 DEF IndInv, TypeOK, chainVars
<1>12. \A q \in Keys : \A i \in 1..Len(tasks[q]) :
          tasks[q][i] \in Tasks /\ tasks[q][i] # t
  BY <1>5 DEF IndInv, TypeOK, QueueContents
<1>13. QueueContents'
  <2>. SUFFICES ASSUME NEW q \in Keys
                PROVE  /\ \A i \in 1..Len(tasks'[q]) :
                             /\ tasks'[q][i][1] = q
                             /\ status'[tasks'[q][i]] = "queued"
                       /\ \A i, j \in 1..Len(tasks'[q]) :
                             tasks'[q][i] = tasks'[q][j] => i = j
                       /\ q \notin queues' => tasks'[q] = <<>>
    BY DEF QueueContents
  <2>0. /\ \A i \in 1..Len(tasks[q]) : /\ tasks[q][i][1] = q
                                       /\ status'[tasks[q][i]] = "queued"
        /\ \A i, j \in 1..Len(tasks[q]) : tasks[q][i] = tasks[q][j] => i = j
        /\ q \notin queues => tasks[q] = <<>>
    BY <1>6, <1>12 DEF IndInv, QueueContents
  <2>1. CASE q = k
    <3>. DEFINE l == Len(tasks[k])
                now == Append(tasks[k], t)
    <3>1. tasks'[q] = now /\ q \in queues'
      BY <1>2, <1>3, <1>8, <2>1
    <3>2. /\ Len(now) = l + 1
          /\ \A i \in 1..l : now[i] = tasks[k][i]
          /\ now[l + 1] = t
      BY <1>3, <1>7, AppendProperties
    <3>3. l \in Nat
      BY <1>7
    <3>. HIDE DEF l, now
    <3>4. \A i \in 1..Len(now) : i \in 1..l \/ i = l + 1
      BY <3>2, <3>3
    <3>5. status'[t] = "queued"
      BY <1>3, <1>6
    <3>6. \A i \in 1..l : /\ tasks[k][i] # t
                          /\ tasks[k][i][1] = k
                          /\ status'[tasks[k][i]] = "queued"
      BY <1>3, <1>12, <2>0, <2>1 DEF l
    <3>7. \A i, j \in 1..l : tasks[k][i] = tasks[k][j] => i = j
      BY <2>0, <2>1 DEF l
    <3>8. \A i \in 1..Len(now) : now[i][1] = k /\ status'[now[i]] = "queued"
      BY <1>4, <3>2, <3>4, <3>5, <3>6
    <3>9. \A i, j \in 1..Len(now) : now[i] = now[j] => i = j
      BY <3>2, <3>4, <3>6, <3>7
    <3>. QED
      BY <2>1, <3>1, <3>8, <3>9
  <2>2. CASE q # k
    <3>1. tasks'[q] = tasks[q] /\ (q \notin queues' => q \notin queues)
      BY <1>2, <1>8, <2>2
    <3>. QED
      BY <2>0, <3>1
  <2>. QED
    BY <2>1, <2>2
<1>14. CurrentInFlight'
  <2>. SUFFICES ASSUME NEW q \in Keys, current[q] # NoTask
                PROVE  current[q][1] = q /\ status'[current[q]] \in InFlight
    BY <1>2 DEF CurrentInFlight
  <2>1. /\ current[q] \in Tasks /\ current[q][1] = q
        /\ status[current[q]] \in InFlight
    BY DEF IndInv, TypeOK, CurrentInFlight
  <2>2. current[q] # t
    BY <1>5, <2>1 DEF InFlight, InAction
  <2>. QED
    BY <1>6, <2>1, <2>2
<1>15. InFlightCurrent'
  BY <1>2, <1>6 DEF IndInv, InFlightCurrent, InFlight, InAction
<1>16. BusyQueueLive'
  BY <1>2 DEF IndInv, BusyQueueLive
<1>17. IdleFindsTask'
  <2>. SUFFICES ASSUME NEW q \in idle'
                PROVE  /\ q \in queues' \ defer'
                       /\ tasks'[q] # <<>>
                       /\ current'[q] = NoTask
    BY DEF IdleFindsTask
  <2>1. CASE q = k
    <3>1. current[k] = NoTask /\ k \notin defer
      BY <1>2, <2>1 DEF AutoStart, IndInv, IdleFindsTask
    <3>2. tasks'[k] # <<>>
      <4>1. tasks'[k] = Append(tasks[k], t)
        BY <1>3, <1>8
      <4>. QED
        BY <1>3, <1>7, <4>1, AppendProperties
    <3>. QED
      BY <1>2, <2>1, <3>1, <3>2
  <2>2. CASE q # k
    <3>1. q \in idle /\ q \in Keys
      BY <1>2, <2>2 DEF AutoStart, IndInv, TypeOK
    <3>. QED
      BY <1>2, <1>8, <2>2, <3>1 DEF IndInv, IdleFindsTask
  <2>. QED
    BY <2>1, <2>2
<1>18. RunningCount'
  BY <1>2 DEF IndInv, RunningCount
<1>. QED
  BY <1>11, <1>13, <1>14, <1>15, <1>16, <1>17, <1>18 DEF IndInv

LEMMA StartBuildPreserves ==
    ASSUME IndInv, NEW k \in ServiceKeys, StartBuild(k)
    PROVE  IndInv'
<1>. DEFINE steps == <<<<k, GET_PROTOCOL_INFO>>, <<k, SUBSCRIBE>>, <<k, DECLARE>>>>
<1>1. /\ loop # "stopped"
      /\ \A t \in Tasks : t[1] = k => status[t] = "new"
      /\ queues' = queues \cup {k}
      /\ tasks' = [tasks EXCEPT ![k] = steps]
      /\ status' = [t \in Tasks |-> IF t[1] = k THEN "queued" ELSE status[t]]
      /\ idle' = idle \cup AutoStart(k)
      /\ UNCHANGED <<current, defer, chainVars, processVars, invocation, replies>>
  BY DEF StartBuild
<1>2. k \in Keys
  BY DEF Keys
<1>3. /\ steps \in Seq(Tasks) /\ steps # <<>> /\ Len(steps) = 3
      /\ \A i \in 1..3 : steps[i][1] = k /\ steps[i] \in Tasks
      /\ \A i, j \in 1..3 : steps[i] = steps[j] => i = j
  BY DEF GET_PROTOCOL_INFO, SUBSCRIBE, DECLARE, Tasks, ServiceTasks
<1>. HIDE DEF steps
<1>4. current[k] = NoTask
  <2>. SUFFICES ASSUME current[k] # NoTask
                PROVE  FALSE
    OBVIOUS
  <2>1. current[k] \in Tasks /\ current[k][1] = k
        /\ status[current[k]] \in InFlight
    BY <1>2 DEF IndInv, TypeOK, CurrentInFlight
  <2>. QED
    BY <1>1, <2>1 DEF InFlight, InAction
<1>5. \A q \in Keys : tasks'[q] = IF q = k THEN steps ELSE tasks[q]
  BY <1>1 DEF IndInv, TypeOK
<1>6. TypeOK'
  <2>1. tasks' \in [Keys -> Seq(Tasks)]
    BY <1>1, <1>3 DEF IndInv, TypeOK
  <2>2. status' \in [Tasks -> Status]
    BY <1>1 DEF IndInv, TypeOK, Status
  <2>3. idle' \subseteq Keys
    BY <1>1, <1>2 DEF IndInv, TypeOK, AutoStart
  <2>. QED
    BY <1>1, <1>2, <2>1, <2>2, <2>3 DEF IndInv, TypeOK, chainVars, processVars
<1>7. QueueContents'
  <2>. SUFFICES ASSUME NEW q \in Keys
                PROVE  /\ \A i \in 1..Len(tasks'[q]) :
                             /\ tasks'[q][i][1] = q
                             /\ status'[tasks'[q][i]] = "queued"
                       /\ \A i, j \in 1..Len(tasks'[q]) :
                             tasks'[q][i] = tasks'[q][j] => i = j
                       /\ q \notin queues' => tasks'[q] = <<>>
    BY DEF QueueContents
  <2>1. CASE q = k
    <3>1. tasks'[q] = steps /\ q \in queues'
      BY <1>1, <1>5, <2>1
    <3>2. \A i \in 1..3 : status'[steps[i]] = "queued"
      BY <1>1, <1>3
    <3>3. \A i \in 1..Len(tasks'[q]) : /\ tasks'[q][i][1] = q
                                       /\ status'[tasks'[q][i]] = "queued"
      BY <1>3, <2>1, <3>1, <3>2
    <3>4. \A i, j \in 1..Len(tasks'[q]) : tasks'[q][i] = tasks'[q][j] => i = j
      BY <1>3, <3>1
    <3>. QED
      BY <3>1, <3>3, <3>4
  <2>2. CASE q # k
    <3>1. tasks'[q] = tasks[q] /\ tasks[q] \in Seq(Tasks)
      BY <1>5, <2>2 DEF IndInv, TypeOK
    <3>2. \A i \in 1..Len(tasks[q]) :
             /\ tasks[q][i] \in Tasks
             /\ tasks[q][i][1] = q
             /\ status[tasks[q][i]] = "queued"
      BY <3>1 DEF IndInv, QueueContents
    <3>3. \A i \in 1..Len(tasks[q]) : status'[tasks[q][i]] = "queued"
      BY <1>1, <2>2, <3>2
    <3>. QED
      BY <1>1, <2>2, <3>1, <3>2, <3>3 DEF IndInv, QueueContents
  <2>. QED
    BY <2>1, <2>2
<1>8. CurrentInFlight'
  <2>. SUFFICES ASSUME NEW q \in Keys, current[q] # NoTask
                PROVE  current[q][1] = q /\ status'[current[q]] \in InFlight
    BY <1>1 DEF CurrentInFlight
  <2>1. /\ current[q] \in Tasks /\ current[q][1] = q
        /\ status[current[q]] \in InFlight
    BY DEF IndInv, TypeOK, CurrentInFlight
  <2>2. q # k
    BY <1>4
  <2>. QED
    BY <1>1, <2>1, <2>2
<1>9. InFlightCurrent'
  BY <1>1 DEF IndInv, InFlightCurrent, InFlight, InAction
<1>10. BusyQueueLive'
  BY <1>1 DEF IndInv, BusyQueueLive, processVars
<1>11. IdleFindsTask'
  <2>. SUFFICES ASSUME NEW q \in idle'
                PROVE  /\ q \in queues' \ defer'
                       /\ tasks'[q] # <<>>
                       /\ current'[q] = NoTask
    BY DEF IdleFindsTask
  <2>1. CASE q = k
    <3>1. k \notin defer
      BY <1>1, <2>1 DEF AutoStart, IndInv, IdleFindsTask
    <3>. QED
      BY <1>1, <1>2, <1>3, <1>4, <1>5, <2>1, <3>1
  <2>2. CASE q # k
    <3>1. q \in idle /\ q \in Keys
      BY <1>1, <2>2 DEF AutoStart, IndInv, TypeOK
    <3>. QED
      BY <1>1, <1>5, <2>2, <3>1 DEF IndInv, IdleFindsTask
  <2>. QED
    BY <2>1, <2>2
<1>12. RunningCount'
  BY <1>1 DEF IndInv, RunningCount, processVars
<1>. QED
  BY <1>6, <1>7, <1>8, <1>9, <1>10, <1>11, <1>12 DEF IndInv

LEMMA MainLoopQuitPreserves ==
    ASSUME IndInv, MainLoopQuit
    PROVE  IndInv'
<1>1. /\ loop' = "stopped" /\ watchers' = {} /\ queues' = {}
      /\ tasks' = [k \in Keys |-> <<>>]
      /\ status' = [t \in Tasks |-> IF t \in Pending(queues) THEN "dropped"
                                    ELSE status[t]]
      /\ Answer(Pending(queues))
      /\ finally' = finally \cup (queues \cap ServiceKeys)
      /\ UNCHANGED <<current, idle, defer, cancelled, exposed, running,
                     quitting, onQuit>>
  BY DEF MainLoopQuit
<1>2. \A t \in Pending(queues) : status[t] = "queued"
  BY PendingElements DEF IndInv, TypeOK
<1>3. \A t \in Tasks : status[t] \in InFlight => status'[t] = status[t]
  BY <1>1, <1>2 DEF InFlight, InAction
<1>4. \A t \in Tasks : status'[t] \in InFlight => status[t] \in InFlight
  BY <1>1 DEF InFlight, InAction
<1>5. TypeOK'
  <2>1. tasks' \in [Keys -> Seq(Tasks)]
    <3>1. <<>> \in Seq(Tasks)
      OBVIOUS
    <3>. QED
      BY <1>1, <3>1
  <2>2. status' \in [Tasks -> Status]
    BY <1>1 DEF IndInv, TypeOK, Status
  <2>3. replies' \in [Requests -> Nat] /\ invocation' \subseteq Requests
    BY <1>1 DEF Answer, IndInv, TypeOK
  <2>. QED
    BY <1>1, <2>1, <2>2, <2>3 DEF IndInv, TypeOK
<1>6. QueueContents'
  BY <1>1 DEF QueueContents
<1>7. CurrentInFlight'
  BY <1>1, <1>3 DEF IndInv, TypeOK, CurrentInFlight
<1>8. InFlightCurrent'
  BY <1>1, <1>4 DEF IndInv, InFlightCurrent
<1>9. BusyQueueLive' /\ IdleFindsTask'
  BY <1>1 DEF BusyQueueLive, IdleFindsTask
<1>10. RunningCount'
  BY <1>1 DEF IndInv, RunningCount
<1>. QED
  BY <1>5, <1>6, <1>7, <1>8, <1>9, <1>10 DEF IndInv

\* A task in flight changes its state of flight: LoseProxy, ActionCallback.
LEMMA StatusStepPreserves ==
    ASSUME IndInv, NEW t \in Tasks, status[t] \in InFlight,
           NEW s \in InFlight,
           status' = [status EXCEPT ![t] = s],
           UNCHANGED <<queueVars, chainVars, processVars, invocation, replies>>
    PROVE  IndInv'
<1>1. UNCHANGED <<queues, tasks, current, idle, defer, cancelled, finally,
                  exposed, running, quitting, onQuit, loop, watchers,
                  invocation, replies>>
  BY DEF queueVars, chainVars, processVars
<1>2. \A u \in Tasks : status'[u] = IF u = t THEN s ELSE status[u]
  BY DEF IndInv, TypeOK
<1>3. TypeOK'
  BY <1>1 DEF IndInv, TypeOK, Status
<1>4. QueueContents'
  <2>. SUFFICES ASSUME NEW q \in Keys, NEW i \in 1..Len(tasks[q])
                PROVE  status'[tasks[q][i]] = "queued"
    BY <1>1 DEF IndInv, QueueContents
  <2>1. tasks[q][i] \in Tasks /\ status[tasks[q][i]] = "queued"
    BY DEF IndInv, TypeOK, QueueContents
  <2>2. tasks[q][i] # t
    BY <2>1 DEF InFlight, InAction
  <2>. QED
    BY <1>2, <2>1, <2>2
<1>5. CurrentInFlight' /\ InFlightCurrent'
  BY <1>1, <1>2 DEF IndInv, TypeOK, CurrentInFlight, InFlightCurrent
<1>6. BusyQueueLive' /\ IdleFindsTask' /\ RunningCount'
  BY <1>1 DEF IndInv, BusyQueueLive, IdleFindsTask, RunningCount
<1>. QED
  BY <1>3, <1>4, <1>5, <1>6 DEF IndInv

\* What the invariant looks at does not change: ChainEnd, ContextQuit, and
\* the stuttering steps.
LEMMA QuietStepPreserves ==
    ASSUME IndInv,
           UNCHANGED <<queueVars, taskVars, running, watchers>>,
           cancelled' \subseteq ServiceKeys, finally' \subseteq ServiceKeys,
           exposed' \subseteq ServiceKeys,
           quitting' \in BOOLEAN, onQuit' \in BOOLEAN,
           loop' = loop \/ (loop # "stopped" /\ loop' = "stopping")
    PROVE  IndInv'
<1>1. UNCHANGED <<queues, tasks, current, idle, defer, status, invocation,
                  replies, running, watchers>>
  BY DEF queueVars, taskVars
<1>2. loop' # "stopped" => loop # "stopped"
  OBVIOUS
<1>3. TypeOK'
  BY <1>1 DEF IndInv, TypeOK
<1>4. QueueContents' /\ CurrentInFlight' /\ InFlightCurrent'
  BY <1>1 DEF IndInv, QueueContents, CurrentInFlight, InFlightCurrent
<1>5. BusyQueueLive' /\ IdleFindsTask' /\ RunningCount'
  BY <1>1, <1>2 DEF IndInv, BusyQueueLive, IdleFindsTask, RunningCount
<1>. QED
  BY <1>3, <1>4, <1>5 DEF IndInv

----------------------------------------------------------------------------
LEMMA InitIndInv == Init => IndInv
<1>. SUFFICES ASSUME Init
              PROVE  IndInv
  OBVIOUS
<1>1. TypeOK
  <2>1. tasks \in [Keys -> Seq(Tasks)]
    <3>1. <<>> \in Seq(Tasks)
      OBVIOUS
    <3>. QED
      BY <3>1 DEF Init
  <2>. QED
    BY <2>1 DEF Init, TypeOK, Status
<1>2. QueueContents /\ CurrentInFlight /\ InFlightCurrent /\ BusyQueueLive
      /\ IdleFindsTask
  BY DEF Init, QueueContents, CurrentInFlight, InFlightCurrent, BusyQueueLive,
         IdleFindsTask, InFlight, InAction
<1>3. RunningCount
  <2>1. {k \in Keys : current[k] # NoTask} = {}
    BY DEF Init
  <2>. QED
    BY <2>1, FS_EmptySet DEF Init, RunningCount
<1>. QED
  BY <1>1, <1>2, <1>3 DEF IndInv

LEMMA NextIndInv == IndInv /\ [Next]_vars => IndInv'
<1>. SUFFICES ASSUME IndInv, [Next]_vars
              PROVE  IndInv'
  OBVIOUS
<1>0. /\ cancelled \subseteq ServiceKeys /\ finally \subseteq ServiceKeys
      /\ exposed \subseteq ServiceKeys /\ watchers \subseteq Clients
      /\ quitting \in BOOLEAN /\ onQuit \in BOOLEAN
      /\ loop \in {"running", "stopping", "stopped"}
  BY DEF IndInv, TypeOK
<1>1. ASSUME NEW k \in Routes, AddTask(k)
      PROVE  IndInv'
  BY <1>1, AddTaskPreserves
<1>2. ASSUME NEW k \in Routes, Cancel(k)
      PROVE  IndInv'
  <2>1. CancelQueues({k}, {}) /\ loop # "stopped" /\ k \in queues
        /\ UNCHANGED <<defer, quitting, onQuit, watchers>>
    BY <1>2 DEF Cancel
  <2>. QED
    BY <1>0, <2>1, CancelQueuesPreserves
<1>3. ASSUME NEW c \in Clients, RemoveClient(c)
      PROVE  IndInv'
  <2>. DEFINE K == SourceQueues(c)
              last == watchers \ {c} = {} /\ ~NeverQuit
  <2>1. /\ loop # "stopped" /\ watchers' = watchers \ {c} /\ Doom(K)
        /\ \/ ~last /\ CancelQueues(K, Unoccupied(K))
              /\ UNCHANGED <<quitting, onQuit>>
           \/ last /\ SetQuitting(K, Unoccupied(K))
    BY <1>3 DEF RemoveClient
  <2>2. /\ K \in SUBSET queues /\ Unoccupied(K) \in SUBSET K
        /\ \A k \in Unoccupied(K) : current[k] = NoTask
        /\ defer' \in SUBSET (defer \cup K)
        /\ watchers' \in SUBSET Clients
    BY <1>0, <2>1 DEF SourceQueues, Unoccupied, Doom
  <2>. HIDE DEF K, last
  <2>3. CASE CancelQueues(K, Unoccupied(K)) /\ UNCHANGED <<quitting, onQuit>>
    BY <1>0, <2>1, <2>2, <2>3, CancelQueuesPreserves
  <2>4. CASE SetQuitting(K, Unoccupied(K))
    BY <2>1, <2>2, <2>4, SetQuittingPreserves
  <2>. QED
    BY <2>1, <2>3, <2>4
<1>4. ASSUME NEW d \in Devices, LoseDevice(d)
      PROVE  IndInv'
  <2>. DEFINE K == SinkQueues(d)
  <2>1. /\ loop # "stopped" /\ Doom(K) /\ CancelQueues(K, Unoccupied(K))
        /\ UNCHANGED <<quitting, onQuit, watchers>>
    BY <1>4 DEF LoseDevice
  <2>2. /\ K \in SUBSET queues /\ Unoccupied(K) \in SUBSET K
        /\ \A k \in Unoccupied(K) : current[k] = NoTask
        /\ defer' \in SUBSET (defer \cup K)
    BY <2>1 DEF SinkQueues, Unoccupied, Doom
  <2>. HIDE DEF K
  <2>. QED
    BY <1>0, <2>1, <2>2, CancelQueuesPreserves
<1>5. ASSUME NEW k \in ServiceKeys, StartBuild(k)
      PROVE  IndInv'
  BY <1>5, StartBuildPreserves
<1>6. ASSUME NEW k \in ServiceKeys, CancelBuild(k)
      PROVE  IndInv'
  <2>1. /\ loop # "stopped" /\ k \in queues
        /\ CancelQueues({k}, Discarded({k}, quitting))
        /\ onQuit' \in BOOLEAN
        /\ UNCHANGED <<defer, quitting, watchers>>
    BY <1>0, <1>6 DEF CancelBuild
  <2>2. /\ Discarded({k}, quitting) \in SUBSET {k}
        /\ \A q \in Discarded({k}, quitting) :
              current[q] = NoTask \/ q \in Interrupted({k})
    BY DEF Discarded
  <2>. QED
    BY <1>0, <2>1, <2>2, CancelQueuesPreserves
<1>7. ASSUME NEW t \in Tasks, LoseProxy(t)
      PROVE  IndInv'
  BY <1>7, StatusStepPreserves DEF LoseProxy, InFlight, InAction
<1>8. CASE Terminate
  <2>1. /\ loop # "stopped" /\ SetQuitting({}, {})
        /\ UNCHANGED <<defer, watchers>>
    BY <1>8 DEF Terminate
  <2>. QED
    BY <1>0, <2>1, SetQuittingPreserves
<1>9. ASSUME NEW k \in Keys, ProcessTask(k)
      PROVE  IndInv'
  <2>1. CASE ProcessSync(k)
    BY <1>0, <2>1, BeginAndCompletePreserves DEF ProcessSync
  <2>2. CASE ProcessAsync(k)
    <3>1. PICK s \in {"action", "finishing"} : Begin(k, s)
      BY <2>2 DEF ProcessAsync
    <3>2. s \in InFlight /\ Ready(k) /\ cancelled' \subseteq ServiceKeys
      BY <1>0, <2>2 DEF ProcessAsync, InFlight, InAction
    <3>. QED
      BY <3>1, <3>2, BeginPreserves
  <2>3. CASE BeginProtocolInfo(k)
    <3>1. Ready(k) /\ Begin(k, "action") /\ cancelled' \subseteq ServiceKeys
      BY <1>0, <2>3 DEF BeginProtocolInfo
    <3>2. "action" \in InFlight
      BY DEF InFlight, InAction
    <3>. QED
      BY <3>1, <3>2, BeginPreserves
  <2>4. CASE CompleteStep(k)
    BY <1>0, <2>4, BeginAndCompletePreserves DEF CompleteStep
  <2>5. CASE FailDeclare(k)
    <3>1. Ready(k) /\ Begin(k, "stuck") /\ cancelled' \subseteq ServiceKeys
      BY <1>0, <2>5 DEF FailDeclare
    <3>2. "stuck" \in InFlight
      BY DEF InFlight, InAction
    <3>. QED
      BY <3>1, <3>2, BeginPreserves
  <2>. QED
    BY <1>9, <2>1, <2>2, <2>3, <2>4, <2>5 DEF ProcessTask
<1>10. ASSUME NEW r \in Requests, ActionCallback(r)
       PROVE  IndInv'
  BY <1>10, StatusStepPreserves DEF ActionCallback, InFlight, InAction, Tasks
<1>11. ASSUME NEW r \in Requests, AsyncTaskComplete(r)
       PROVE  IndInv'
  BY <1>11, CallbackPreserves DEF AsyncTaskComplete, InFlight, InAction, Tasks
<1>12. ASSUME NEW t \in ServiceTasks, ServiceActionCallback(t)
       PROVE  IndInv'
  BY <1>12, CallbackPreserves DEF ServiceActionCallback, InFlight, InAction, Tasks
<1>13. ASSUME NEW k \in ServiceKeys, ChainEnd(k)
       PROVE  IndInv'
  BY <1>0, <1>13, QuietStepPreserves DEF ChainEnd, processVars
<1>14. CASE ContextQuit
  BY <1>0, <1>14, QuietStepPreserves DEF ContextQuit, chainVars
<1>15. CASE MainLoopQuit
  BY <1>15, MainLoopQuitPreserves
<1>16. CASE UNCHANGED vars
  BY <1>0, <1>16, QuietStepPreserves DEF vars, chainVars, processVars
<1>. QED
  BY <1>1, <1>2, <1>3, <1>4, <1>5, <1>6, <1>7, <1>8, <1>9, <1>10, <1>11,
     <1>12, <1>13, <1>14, <1>15, <1>16
     DEF Next, ClientStep, DeviceStep, CallbackStep, Exited

----------------------------------------------------------------------------
\* The inductive invariant holds in every reachable state.
THEOREM SpecIndInv == Spec => []IndInv
  BY InitIndInv, NextIndInv, PTL DEF Spec

\* Every variable keeps its type; in particular running_tasks, a guint that
\* the code decrements unchecked, never goes below zero.
THEOREM SpecTypeOK == Spec => []TypeOK
<1>1. IndInv => TypeOK
  BY DEF IndInv
<1>. QED
  BY <1>1, SpecIndInv, PTL

\* running_tasks is the number of queues with a current task.
THEOREM SpecRunningCount == Spec => []RunningCount
<1>1. IndInv => RunningCount
  BY DEF IndInv
<1>. QED
  BY <1>1, SpecIndInv, PTL

\* A completion that is still to come finds its queue and its task.
THEOREM SpecCallbackFindsQueue == Spec => []CallbackFindsQueue
<1>1. IndInv => CallbackFindsQueue
  BY TaskShape
     DEF IndInv, InFlightCurrent, BusyQueueLive, CallbackFindsQueue
<1>. QED
  BY <1>1, SpecIndInv, PTL

\* A process idle finds its queue, with a task to take and none running.
THEOREM SpecIdleFindsTask == Spec => []IdleFindsTask
<1>1. IndInv => IdleFindsTask
  BY DEF IndInv
<1>. QED
  BY <1>1, SpecIndInv, PTL

============================================================================
