-------------------------------- MODULE TaskPool --------------------------------
(***************************************************************************)
(* What the accept loop relies on when it hands a connection to the        *)
(* goroutine pool of internal/server/goroutine_pool.go: Submit queues the  *)
(* task exactly once and answers true, or does not queue it and answers    *)
(* false, the latter only if the queue was full during the call; a task    *)
(* that was queued is begun at most once; and tasks that run are bounded.  *)
(* Workers, counters and the manager are not visible here: GoroutinePool   *)
(* implements this module, and Server uses it.                             *)
(***************************************************************************)
EXTENDS Integers

CONSTANTS Capacity,  \* of the queue
          Limit      \* tasks that are taken and not begun, or that run, at most

VARIABLES
    waiting,  \* tasks queued and not begun
    running,  \* tasks that run
    submit,   \* Submit: none, busy, full (found the queue full), queued, or its result
    stop      \* where Stop is

vars == <<waiting, running, submit, stop>>

Init == waiting = 0 /\ running = 0 /\ submit = "none" /\ stop = "no"

\* A send on the closed channel panics and ends the process.
Alive == submit # "panic"

Closed == stop \in {"closed", "returned"}

Submitting == submit \in {"busy", "full", "queued"}

Call ==
    /\ Alive /\ ~Submitting
    /\ submit' = "busy"
    /\ UNCHANGED <<waiting, running, stop>>

FindFull ==
    /\ submit = "busy" /\ ~Closed /\ waiting >= Capacity
    /\ submit' = "full"
    /\ UNCHANGED <<waiting, running, stop>>

\* There is room, at once or after another worker was started.
Queue ==
    /\ submit \in {"busy", "full"} /\ ~Closed /\ waiting < Capacity + Limit
    /\ submit' = "queued" /\ waiting' = waiting + 1
    /\ UNCHANGED <<running, stop>>

Panic ==
    /\ submit \in {"busy", "full"} /\ Closed
    /\ submit' = "panic"
    /\ UNCHANGED <<waiting, running, stop>>

Return ==
    /\ \/ submit = "queued" /\ submit' = "true"
       \/ submit = "full" /\ submit' = "false"
    /\ UNCHANGED <<waiting, running, stop>>

SubmitStep == FindFull \/ Queue \/ Panic \/ Return

\* A worker begins a task that was queued.
Begin ==
    /\ Alive /\ waiting > 0 /\ running < Limit
    /\ waiting' = waiting - 1 /\ running' = running + 1
    /\ UNCHANGED <<submit, stop>>

Finish ==
    /\ Alive /\ running > 0
    /\ running' = running - 1
    /\ UNCHANGED <<waiting, submit, stop>>

StopStep ==
    /\ Alive
    /\ \/ stop = "no" /\ stop' = "cancelled"
       \/ stop = "cancelled" /\ stop' = "closed"
       \/ stop = "closed" /\ stop' = "returned"
    /\ UNCHANGED <<waiting, running, submit>>

Next == Call \/ SubmitStep \/ Begin \/ Finish \/ StopStep

Spec == Init /\ [][Next]_vars
================================================================================
