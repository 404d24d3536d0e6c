----------------------------- MODULE GoroutinePool -----------------------------
(***************************************************************************)
(* The worker pool of internal/server/goroutine_pool.go that runs the      *)
(* connection handlers.  One goroutine submits (the accept loop), one      *)
(* manages, the workers take tasks, and Stop may run at any time.          *)
(*                                                                         *)
(* Tasks and workers are anonymous, so the state counts them; the number   *)
(* of tasks is not bounded.  An idle timer or a ticker may fire at any     *)
(* time.  The two loads of shouldScaleUp, shouldScaleDown and optimize are *)
(* one step; what is done with their result is another.  Left out: the     *)
(* counters that only Stats reads (activeWorkers, totalTasks,              *)
(* completedTasks).                                                        *)
(***************************************************************************)
EXTENDS Integers

CONSTANTS MinWorkers, MaxWorkers   \* as NewGoroutinePool normalises them

ASSUME PoolAssumption ==
    MinWorkers \in Nat \ {0} /\ MaxWorkers \in Nat /\ MinWorkers <= MaxWorkers

VARIABLES
    taskQueue,    \* number of tasks in the channel
    queuedTasks,  \* the counter of that name
    workers,      \* the counter of that name
    idle,         \* workers at the select
    taken,        \* workers that have received a task and not yet counted it
    running,      \* workers that execute a task
    leaving,      \* workers that will return
    submit,       \* where Submit is
    manage,       \* where the manager is
    stop          \* where Stop is

workerVars == <<workers, idle, taken, running, leaving>>
vars == <<taskQueue, queuedTasks, workerVars, submit, manage, stop>>

Capacity == 2 * MaxWorkers

Init ==
    /\ taskQueue = 0 /\ queuedTasks = 0
    /\ workers = MinWorkers /\ idle = MinWorkers
    /\ taken = 0 /\ running = 0 /\ leaving = 0
    /\ submit = "none" /\ manage = "idle" /\ stop = "no"

\* A send on the closed channel panics and ends the process.
Alive == submit # "panic"

Cancelled == stop # "no"
Closed == stop \in {"closed", "returned"}

------------------------------------------------------------------------------
(* Submit.  The value of submit is "none" before the first call, "true" or *)
(* "false" between calls (the result of the last), "panic" after a send on *)
(* the closed channel.                                                     *)

Submitting == submit \notin {"none", "true", "false", "panic"}

Call ==
    /\ Alive /\ ~Submitting
    /\ submit' = "send"
    /\ UNCHANGED <<taskQueue, queuedTasks, workerVars, manage, stop>>

SendTo(from, sent, full) ==
    /\ submit = from
    /\ IF Closed THEN submit' = "panic" /\ UNCHANGED taskQueue
       ELSE IF taskQueue < Capacity
            THEN submit' = sent /\ taskQueue' = taskQueue + 1
            ELSE submit' = full /\ UNCHANGED taskQueue
    /\ UNCHANGED <<queuedTasks, workerVars, manage, stop>>

\* Mutant of Send: on a full channel the task is dropped as if it had been sent.
SendOrDrop(from, sent, full) == SendTo(from, sent, sent)

\* The non-blocking sends: the first, and the one after scaleUp.
Send(from, sent, full) == SendTo(from, sent, full)

\* Mutant of CountQueued: the task that is sent after scaling up is not counted.
CountFirstOnly ==
    /\ \/ submit = "count" /\ submit' = "check" /\ queuedTasks' = queuedTasks + 1
       \/ submit = "recount" /\ submit' = "true" /\ UNCHANGED queuedTasks
    /\ UNCHANGED <<taskQueue, workerVars, manage, stop>>

CountQueued ==
    /\ \/ submit = "count" /\ submit' = "check"
       \/ submit = "recount" /\ submit' = "true"
    /\ queuedTasks' = queuedTasks + 1
    /\ UNCHANGED <<taskQueue, workerVars, manage, stop>>

ShouldScaleUp == workers < MaxWorkers /\ queuedTasks > 2 * workers

CheckScaleUp ==
    /\ submit = "check"
    /\ submit' = IF ShouldScaleUp THEN "scale" ELSE "true"
    /\ UNCHANGED <<taskQueue, queuedTasks, workerVars, manage, stop>>

\* scaleUp's own check, after a send and on a full channel.
ScaleUp ==
    /\ \/ submit = "scale"
          /\ submit' = IF workers < MaxWorkers THEN "start" ELSE "true"
       \/ submit = "grow"
          /\ submit' = IF workers < MaxWorkers THEN "startFull" ELSE "false"
    /\ UNCHANGED <<taskQueue, queuedTasks, workerVars, manage, stop>>

AddWorkers(n) ==
    /\ workers' = workers + n /\ idle' = idle + n
    /\ UNCHANGED <<taken, running, leaving>>

\* Mutant of AddWorker: two workers for one check.
AddTwoWorkers == AddWorkers(2)

AddWorker == AddWorkers(1)

\* startWorker, called by Submit: the check and, later, the addition.
SubmitStarts ==
    /\ \/ /\ submit = "start"
          /\ submit' = IF workers < MaxWorkers THEN "add" ELSE "true"
          /\ UNCHANGED workerVars
       \/ /\ submit = "startFull"
          /\ submit' = IF workers < MaxWorkers THEN "addFull" ELSE "resend"
          /\ UNCHANGED workerVars
       \/ submit = "add" /\ submit' = "true" /\ AddWorker
       \/ submit = "addFull" /\ submit' = "resend" /\ AddWorker
    /\ UNCHANGED <<taskQueue, queuedTasks, manage, stop>>

SubmitStep ==
    \/ Send("send", "count", "grow") \/ Send("resend", "recount", "false")
    \/ CountQueued \/ CheckScaleUp \/ ScaleUp \/ SubmitStarts

------------------------------------------------------------------------------
(* The manager                                                             *)

OptimizeWhen(high) ==
    /\ Alive /\ manage = "idle" /\ high /\ workers < MaxWorkers
    /\ manage' = "start"
    /\ UNCHANGED <<taskQueue, queuedTasks, workerVars, submit, stop>>

\* Mutant of Optimize: a queue of three per worker, and three more, is high.
OptimizeLate == OptimizeWhen(queuedTasks > 3 * (workers + 1))

Optimize == OptimizeWhen(queuedTasks > 3 * workers)

ManageStarts ==
    /\ Alive
    /\ \/ manage = "start" /\ manage' = (IF workers < MaxWorkers THEN "add" ELSE "idle")
          /\ UNCHANGED workerVars
       \/ manage = "add" /\ manage' = "idle" /\ AddWorker
    /\ UNCHANGED <<taskQueue, queuedTasks, submit, stop>>

ManageEnds ==
    /\ Alive /\ manage = "idle" /\ Cancelled
    /\ manage' = "ended"
    /\ UNCHANGED <<taskQueue, queuedTasks, workerVars, submit, stop>>

------------------------------------------------------------------------------
(* The workers.  A closed and empty channel yields nil, which a worker     *)
(* ignores.                                                                *)

Take ==
    /\ Alive /\ idle > 0 /\ taskQueue > 0
    /\ taskQueue' = taskQueue - 1
    /\ idle' = idle - 1 /\ taken' = taken + 1
    /\ UNCHANGED <<queuedTasks, workers, running, leaving, submit, manage, stop>>

Run ==
    /\ Alive /\ taken > 0
    /\ queuedTasks' = queuedTasks - 1
    /\ taken' = taken - 1 /\ running' = running + 1
    /\ UNCHANGED <<taskQueue, workers, idle, leaving, submit, manage, stop>>

\* The task returns or panics.
Finish ==
    /\ Alive /\ running > 0
    /\ running' = running - 1 /\ idle' = idle + 1
    /\ UNCHANGED <<taskQueue, queuedTasks, workers, taken, leaving, submit, manage, stop>>

ShouldScaleDown == workers > MinWorkers /\ queuedTasks < workers \div 4

\* An idle timer expires, or the pool's context is done.
Decide ==
    /\ Alive /\ idle > 0 /\ (ShouldScaleDown \/ Cancelled)
    /\ idle' = idle - 1 /\ leaving' = leaving + 1
    /\ UNCHANGED <<taskQueue, queuedTasks, workers, taken, running, submit, manage, stop>>

LeaveCounting(n) ==
    /\ Alive /\ leaving > 0
    /\ leaving' = leaving - 1
    /\ workers' = workers - n
    /\ UNCHANGED <<taskQueue, queuedTasks, idle, taken, running, submit, manage, stop>>

\* Mutant of Leave: a worker that returns stays counted.
LeaveUncounted == LeaveCounting(0)

Leave == LeaveCounting(1)

------------------------------------------------------------------------------
(* Stop                                                                    *)

StopStep ==
    /\ Alive
    /\ \/ stop = "no" /\ stop' = "cancelled"
       \/ stop = "cancelled" /\ stop' = "closed"
       \* all workers have returned, or the timeout
       \/ stop = "closed" /\ stop' = "returned"
    /\ UNCHANGED <<taskQueue, queuedTasks, workerVars, submit, manage>>

------------------------------------------------------------------------------

WorkerStep == Take \/ Run \/ Decide \/ Leave

Next ==
    \/ Call \/ SubmitStep \/ Optimize \/ ManageStarts \/ ManageEnds
    \/ WorkerStep \/ Finish \/ StopStep

Spec == Init /\ [][Next]_vars

\* The goroutines of the pool run, its ticker fires, and every task ends, as a
\* connection's handler does: see Session.
FairSpec ==
    /\ Spec
    /\ WF_vars(SubmitStep) /\ WF_vars(Optimize \/ ManageStarts)
    /\ WF_vars(Take) /\ WF_vars(Run) /\ WF_vars(Leave) /\ WF_vars(Finish)

------------------------------------------------------------------------------

TypeOK ==
    /\ taskQueue \in 0..Capacity
    /\ queuedTasks \in Int
    /\ workers \in Nat /\ idle \in Nat /\ taken \in Nat /\ running \in Nat
    /\ leaving \in Nat
    /\ submit \in {"none", "send", "count", "check", "scale", "start", "add", "grow",
                   "startFull", "addFull", "resend", "recount", "true", "false", "panic"}
    /\ manage \in {"idle", "start", "add", "ended"}
    /\ stop \in {"no", "cancelled", "closed", "returned"}

\* queuedTasks, on which all scaling decisions rest, is the number of tasks in
\* the channel and of those just received, but for the one that Submit has sent
\* and not counted yet: it lags by one at most and may be -1 for a moment.
QueuedCounted ==
    queuedTasks = taskQueue + taken - (IF submit \in {"count", "recount"} THEN 1 ELSE 0)

\* workers counts the worker goroutines, whichever way they end.
WorkersCounted == workers = idle + taken + running + leaving

\* startWorker checks the limit and then adds, in two goroutines: the limit can
\* be exceeded, but by one worker only.
WorkersBounded == workers <= MaxWorkers + 1

Tasks == INSTANCE TaskPool WITH
    Limit <- MaxWorkers + 1,
    waiting <- taskQueue + taken,
    submit <- IF submit = "send" THEN "busy"
              ELSE IF submit \in {"grow", "startFull", "addFull", "resend"} THEN "full"
              ELSE IF submit \in {"count", "check", "scale", "start", "add", "recount"}
                   THEN "queued" ELSE submit

\* The pool keeps what the accept loop relies on: every call of Submit queues its
\* task exactly once and answers true, or found the queue full, queues nothing and
\* answers false, whichever workers are started, leave or take tasks meanwhile.
ImplementsTaskPool == Tasks!Spec

\* A queued task is received, although idle workers that decide at the same
\* time to leave may take the pool below MinWorkers, down to none.
TaskRuns == taskQueue > 0 ~> (taken > 0 \/ Cancelled)
================================================================================
