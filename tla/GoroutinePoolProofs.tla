-------------------------- MODULE GoroutinePoolProofs --------------------------
(***************************************************************************)
(* What the goroutine pool keeps for every MinWorkers and MaxWorkers.      *)
(***************************************************************************)
EXTENDS GoroutinePool, TLAPS

\* Goroutines that have passed startWorker's check and not added their worker.
Adders == (IF submit \in {"add", "addFull"} THEN 1 ELSE 0)
          + (IF manage = "add" THEN 1 ELSE 0)

\* The limit counts the workers that are about to be added.
BoundInv == workers + Adders <= MaxWorkers + 1

\* The inductive invariant: a worker that leaves is counted, so the counter
\* stays a natural number, and there are two who can add.
PoolInv == TypeOK /\ WorkersCounted /\ QueuedCounted /\ BoundInv

\* The inductive invariant holds in the initial state, that of NewGoroutinePool.
LEMMA PoolInvInit == Init => PoolInv
<1> SUFFICES ASSUME Init PROVE PoolInv
  OBVIOUS
<1>1. TypeOK
  <2>1. MinWorkers \in Nat /\ taskQueue \in 0..Capacity
    BY PoolAssumption DEF Init, Capacity
  <2>2. workers \in Nat /\ idle \in Nat
    BY <2>1, Zenon DEF Init
  <2> QED
    BY <2>1, <2>2 DEF Init, TypeOK
<1>2. WorkersCounted
  BY PoolAssumption DEF Init, WorkersCounted
<1>3. QueuedCounted
  <2>1. submit \notin {"count", "recount"}
    BY DEF Init
  <2>2. queuedTasks = 0 /\ taskQueue = 0 /\ taken = 0
    BY DEF Init
  <2>3. 0 = 0 + 0 - 0
    OBVIOUS
  <2>4. (IF submit \in {"count", "recount"} THEN 1 ELSE 0) = 0
    BY <2>1
  <2> QED
    BY <2>2, <2>3, <2>4, Zenon DEF QueuedCounted
<1>4. BoundInv
  BY PoolAssumption DEF Init, BoundInv, Adders
<1> QED
  BY <1>1, <1>2, <1>3, <1>4 DEF PoolInv

\* Each step of Submit, of the manager, of the workers and of Stop keeps it.
LEMMA PoolInvStep == PoolInv /\ [Next]_vars => PoolInv'
<1> SUFFICES ASSUME PoolInv, [Next]_vars PROVE PoolInv'
  OBVIOUS
<1> USE PoolAssumption
    DEF PoolInv, TypeOK, WorkersCounted, QueuedCounted, BoundInv, Adders, Capacity,
        workerVars
<1>1. CASE Call
  BY <1>1 DEF Call, Submitting, Alive
<1>2. CASE Send("send", "count", "grow")
  BY <1>2 DEF Send, SendTo
<1>3. CASE Send("resend", "recount", "false")
  BY <1>3 DEF Send, SendTo
<1>4. CASE CountQueued
  BY <1>4 DEF CountQueued
<1>5. CASE CheckScaleUp
  BY <1>5 DEF CheckScaleUp
<1>6. CASE ScaleUp
  BY <1>6 DEF ScaleUp
<1>7. CASE SubmitStarts
  BY <1>7 DEF SubmitStarts, AddWorker, AddWorkers
<1>8. CASE Optimize
  BY <1>8 DEF Optimize, OptimizeWhen
<1>9. CASE ManageStarts
  BY <1>9 DEF ManageStarts, AddWorker, AddWorkers
<1>10. CASE ManageEnds
  BY <1>10 DEF ManageEnds
<1>11. CASE Take
  BY <1>11 DEF Take
<1>12. CASE Run
  BY <1>12 DEF Run
<1>13. CASE Finish
  BY <1>13 DEF Finish
<1>14. CASE Decide
  BY <1>14 DEF Decide
<1>15. CASE Leave
  BY <1>15 DEF Leave, LeaveCounting
<1>16. CASE StopStep
  BY <1>16 DEF StopStep
<1>17. CASE UNCHANGED vars
  BY <1>17 DEF vars
<1> QED
  BY <1>1, <1>2, <1>3, <1>4, <1>5, <1>6, <1>7, <1>8, <1>9, <1>10, <1>11, <1>12, <1>13,
     <1>14, <1>15, <1>16, <1>17 DEF Next, SubmitStep, WorkerStep

\* The inductive invariant holds in every state of the pool.
LEMMA PoolInvAlways == Spec => []PoolInv
  BY PoolInvInit, PoolInvStep, PTL DEF Spec

\* Every variable of the pool keeps its type: the channel never holds more than
\* its capacity and no count of workers is negative.
THEOREM TypeCorrect == Spec => []TypeOK
<1>1. PoolInv => TypeOK
  BY DEF PoolInv
<1> QED
  BY <1>1, PoolInvAlways, PTL

\* workers, which decides whether another worker may be started, counts the worker
\* goroutines in every state, whichever of them leave or are added at the same time.
THEOREM WorkersCorrect == Spec => []WorkersCounted
<1>1. PoolInv => WorkersCounted
  BY DEF PoolInv
<1> QED
  BY <1>1, PoolInvAlways, PTL

\* queuedTasks, on which scaling up and down rests, counts the tasks that wait in
\* every state, but for the one that Submit has sent and not counted yet.
THEOREM QueuedCorrect == Spec => []QueuedCounted
<1>1. PoolInv => QueuedCounted
  BY DEF PoolInv
<1> QED
  BY <1>1, PoolInvAlways, PTL

\* Check-then-add in two goroutines exceeds the limit on workers by one at most,
\* for every limit.
THEOREM BoundCorrect == Spec => []WorkersBounded
<1>1. PoolInv => WorkersBounded
  BY PoolAssumption DEF PoolInv, BoundInv, Adders, TypeOK, WorkersBounded
<1> QED
  BY <1>1, PoolInvAlways, PTL

\* A fresh pool is a fresh task pool.
LEMMA TaskPoolInit == Init => Tasks!Init
<1> SUFFICES ASSUME Init PROVE Tasks!Init
  OBVIOUS
<1>1. taskQueue + taken = 0
  BY DEF Init
<1>2. running = 0 /\ stop = "no" /\ submit = "none"
  BY DEF Init
<1> QED
  BY <1>1, <1>2 DEF Tasks!Init

\* Each step of the pool is one of the task pool, or changes nothing it shows: a
\* worker that takes a task leaves it waiting, Submit's first send queues the task
\* or finds the queue full, and the worker limit bounds what runs.
LEMMA TaskPoolStep == PoolInv /\ [Next]_vars => [Tasks!Next]_(Tasks!vars)
<1> SUFFICES ASSUME PoolInv, [Next]_vars PROVE [Tasks!Next]_(Tasks!vars)
  OBVIOUS
<1>0. /\ taskQueue \in 0..Capacity /\ taken \in Nat /\ running \in Nat
      /\ taken <= MaxWorkers + 1 /\ running + taken <= MaxWorkers + 1
      /\ MaxWorkers \in Nat /\ Capacity \in Nat
  BY PoolAssumption
     DEF PoolInv, TypeOK, WorkersCounted, BoundInv, Adders, Capacity
<1>a. submit \in {"none", "send", "count", "check", "scale", "start", "add", "grow",
                  "startFull", "addFull", "resend", "recount", "true", "false", "panic"}
  BY DEF PoolInv, TypeOK
<1>1. CASE Call
  BY <1>0, <1>1 DEF Call, Submitting, Alive, workerVars, Tasks!Next, Tasks!Call, Tasks!Alive,
                    Tasks!Submitting
<1>2. CASE Send("send", "count", "grow")
  <2>1. CASE Closed
    BY <1>0, <1>2, <2>1 DEF Send, SendTo, Closed, workerVars, Tasks!Next,
       Tasks!SubmitStep, Tasks!Panic, Tasks!Closed
  <2>2. CASE ~Closed /\ taskQueue < Capacity
    BY <1>0, <1>2, <2>2 DEF Send, SendTo, Closed, workerVars, Tasks!Next,
       Tasks!SubmitStep, Tasks!Queue, Tasks!Closed
  <2>3. CASE ~Closed /\ ~(taskQueue < Capacity)
    BY <1>0, <1>2, <2>3 DEF Send, SendTo, Closed, workerVars, Tasks!Next,
       Tasks!SubmitStep, Tasks!FindFull, Tasks!Closed
  <2> QED
    BY <2>1, <2>2, <2>3
<1>3. CASE Send("resend", "recount", "false")
  <2>1. CASE Closed
    BY <1>0, <1>3, <2>1 DEF Send, SendTo, Closed, workerVars, Tasks!Next,
       Tasks!SubmitStep, Tasks!Panic, Tasks!Closed
  <2>2. CASE ~Closed /\ taskQueue < Capacity
    BY <1>0, <1>3, <2>2 DEF Send, SendTo, Closed, workerVars, Tasks!Next,
       Tasks!SubmitStep, Tasks!Queue, Tasks!Closed
  <2>3. CASE ~Closed /\ ~(taskQueue < Capacity)
    BY <1>0, <1>3, <2>3 DEF Send, SendTo, Closed, workerVars, Tasks!Next,
       Tasks!SubmitStep, Tasks!Return
  <2> QED
    BY <2>1, <2>2, <2>3
<1>4. CASE CountQueued \/ CheckScaleUp \/ ScaleUp \/ SubmitStarts
  BY <1>0, <1>4 DEF CountQueued, CheckScaleUp, ScaleUp, SubmitStarts, AddWorker, AddWorkers,
                    workerVars, Tasks!Next, Tasks!SubmitStep, Tasks!Return, Tasks!vars
<1>5. CASE Optimize \/ ManageStarts \/ ManageEnds
  BY <1>0, <1>5 DEF Optimize, OptimizeWhen, ManageStarts, ManageEnds, AddWorker, AddWorkers,
                    workerVars, Tasks!vars
<1>6. CASE Take
  BY <1>0, <1>6 DEF Take, Tasks!vars
<1>7. CASE Run
  BY <1>0, <1>a, <1>7 DEF Run, Alive, Tasks!Next, Tasks!Begin, Tasks!Alive
<1>8. CASE Finish
  BY <1>0, <1>a, <1>8 DEF Finish, Alive, Tasks!Next, Tasks!Finish, Tasks!Alive
<1>9. CASE Decide \/ Leave
  BY <1>0, <1>9 DEF Decide, Leave, LeaveCounting, Tasks!vars
<1>10. CASE StopStep
  BY <1>0, <1>a, <1>10 DEF StopStep, workerVars, Alive, Tasks!Next, Tasks!StopStep,
                          Tasks!Alive
<1>11. CASE UNCHANGED vars
  BY <1>11 DEF vars, workerVars, Tasks!vars
<1> QED
  BY <1>1, <1>2, <1>3, <1>4, <1>5, <1>6, <1>7, <1>8, <1>9, <1>10, <1>11
     DEF Next, SubmitStep, WorkerStep

\* For every MinWorkers and MaxWorkers the pool implements the task pool that the
\* accept loop is composed with: Submit queues a task once or not at all and tells
\* which, and what waits and runs stays within the pool's bounds.
THEOREM TaskPoolImplemented == Spec => ImplementsTaskPool
<1>1. Spec => Tasks!Init /\ [][Tasks!Next]_(Tasks!vars)
  BY TaskPoolInit, TaskPoolStep, PoolInvAlways, PTL DEF Spec
<1> QED
  BY <1>1 DEF ImplementsTaskPool, Tasks!Spec
================================================================================
