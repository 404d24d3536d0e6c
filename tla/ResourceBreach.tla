------------------------------ MODULE ResourceBreach ----------------------------
(***************************************************************************)
(* The breach handler of internal/server/resource_breach_handler.go: every *)
(* few seconds one goroutine runs CheckResourceLimits over the resources   *)
(* in turn, with a threshold at which a breach is raised and a lower one   *)
(* at which it is cleared, while the accept loop reads                     *)
(* rejectNewConnections at any time.  The stores to the atomic flags are   *)
(* separate steps.                                                         *)
(*                                                                         *)
(* A usage is "low" (below the clearing threshold), "mid" or "high" (above *)
(* the raising one).  It is read here where it is compared: all usages are *)
(* the environment's and none depends on another, so reading them together *)
(* at the start, as GetCurrentUsage does, gives the same behaviours.  That *)
(* the memory usage is a sample of the resource monitor, up to one of its  *)
(* ticks old, makes no difference while the load lasts; the load is over   *)
(* here once that sample is low as well.                                   *)
(***************************************************************************)
EXTENDS Naturals, Sequences

CONSTANTS Order,     \* the resources, in the order they are checked
          Measured   \* those whose usage can rise

ASSUME BreachAssumption == Order \in Seq(STRING) /\ Measured \subseteq STRING

VARIABLES
    breach,   \* the breach flag of each resource
    reject,   \* rejectNewConnections
    check,    \* idle, compare, raise (reject is to be set) or clear (checkAllBreaches)
    at,       \* the resource being checked, as an index of Order
    pressure  \* the environment still loads the server

breachVars == <<breach, reject, check, at, pressure>>

Resources == {Order[i] : i \in 1..Len(Order)}

BreachInit ==
    /\ breach = [r \in Resources |-> FALSE] /\ reject = FALSE
    /\ check = "idle" /\ at = 1 /\ pressure = TRUE

\* What GetCurrentUsage can return.
Usage(r) == IF pressure /\ r \in Measured THEN {"low", "mid", "high"} ELSE {"low"}

\* The ticker fires.
StartCheck ==
    /\ check = "idle"
    /\ check' = "compare" /\ at' = 1
    /\ UNCHANGED <<breach, reject, pressure>>

\* On to the next resource, or done.
Advance ==
    IF at < Len(Order) THEN check' = "compare" /\ at' = at + 1
                       ELSE check' = "idle" /\ at' = 1

CompareUsage(r, u) ==
    \/ /\ u = "high" /\ ~breach[r]
       /\ breach' = [breach EXCEPT ![r] = TRUE]
       /\ check' = "raise" /\ UNCHANGED at
    \/ /\ u = "low" /\ breach[r]
       /\ breach' = [breach EXCEPT ![r] = FALSE]
       /\ check' = "clear" /\ UNCHANGED at
    \/ /\ ~(u = "high" /\ ~breach[r]) /\ ~(u = "low" /\ breach[r])
       /\ Advance /\ UNCHANGED breach

\* CheckResourceLimits on one resource: raise, clear, or leave as it is.
Compare ==
    /\ check = "compare" /\ at <= Len(Order)
    /\ \E u \in Usage(Order[at]) : CompareUsage(Order[at], u)
    /\ UNCHANGED <<reject, pressure>>

\* The rest of handleMemoryBreach and its siblings.
Raise ==
    /\ check = "raise"
    /\ reject' = TRUE
    /\ Advance
    /\ UNCHANGED <<breach, pressure>>

\* Mutant of CheckAllBreaches: clearing one breach lets connections in again.
ClearAtOnce ==
    /\ check = "clear"
    /\ reject' = FALSE
    /\ Advance
    /\ UNCHANGED <<breach, pressure>>

\* checkAllBreaches.
CheckAllBreaches ==
    /\ check = "clear"
    /\ reject' = (reject /\ \E r \in Resources : breach[r])
    /\ Advance
    /\ UNCHANGED <<breach, pressure>>

\* The load is over; usage stays low from here on.
Relieve ==
    /\ pressure
    /\ pressure' = FALSE
    /\ UNCHANGED <<breach, reject, check, at>>

CheckStep == Compare \/ Raise \/ CheckAllBreaches

BreachNext == StartCheck \/ CheckStep \/ Relieve

------------------------------------------------------------------------------

BreachTypeOK ==
    /\ breach \in [Resources -> BOOLEAN] /\ reject \in BOOLEAN /\ pressure \in BOOLEAN
    /\ check \in {"idle", "compare", "raise", "clear"} /\ at \in Nat \ {0}
    /\ check \in {"raise", "clear"} => at <= Len(Order)

\* Between two comparisons the accept loop turns connections away exactly when
\* some resource is in breach: no breach is overlooked because another one was
\* cleared, and none is remembered after the last was.
RejectExact ==
    check \in {"idle", "compare"} => (reject <=> \E r \in Resources : breach[r])
================================================================================
