--------------------------------- MODULE Health ---------------------------------
(***************************************************************************)
(* The health endpoint of internal/server/health.go.  GetHealth reads the  *)
(* state of the server one atomic load after the other while the server    *)
(* goes on: the overall status first, then the checks of its report, which *)
(* load the same values again.                                             *)
(*                                                                         *)
(* The actions here change probe only; Server says what the other          *)
(* variables are.  Left out are the checks of resources and authentication *)
(* and the numbers of the report: the status does not depend on them.      *)
(***************************************************************************)
EXTENDS Integers

CONSTANT MaxConnections

VARIABLES
    closed,       \* s.closed
    listening,    \* s.listener is set
    reject,       \* ShouldRejectConnection of the breach handler
    activeConns,  \* s.activeConns
    probe         \* the request that is being answered

\* at: what is read next, "idle" between requests and "answer" when the report
\* is ready.  late (ghost): the server was closed before the request came.
Idle == [at |-> "idle", status |-> "none", server |-> "none",
         connectivity |-> "none", late |-> FALSE]

Statuses == {"none", "healthy", "degraded", "unhealthy"}
Probes == [at : {"idle", "closed", "reject", "usage", "server", "connectivity", "answer"},
           status : Statuses, server : Statuses, connectivity : Statuses, late : BOOLEAN]

UsageAbove(tenths) == MaxConnections > 0 /\ 10 * activeConns > tenths * MaxConnections

\* ServeHTTP with a GET; any other method is refused at once.
Request ==
    /\ probe.at = "idle"
    /\ probe' = [Idle EXCEPT !.at = "closed", !.late = closed]

Overall(status) == probe' = [probe EXCEPT !.status = status, !.at = "server"]
ReadNext(at) == probe' = [probe EXCEPT !.at = at]

\* Mutant of ReadClosed: the breach handler is asked first.
AskBreachFirst ==
    /\ probe.at = "closed"
    /\ IF reject THEN Overall("degraded")
       ELSE IF closed THEN Overall("unhealthy") ELSE ReadNext("reject")

\* determineOverallStatus, load by load.
ReadClosed ==
    /\ probe.at = "closed"
    /\ IF closed THEN Overall("unhealthy") ELSE ReadNext("reject")

ReadReject ==
    /\ probe.at = "reject"
    /\ IF reject THEN Overall("degraded") ELSE ReadNext("usage")

ReadUsage ==
    /\ probe.at = "usage"
    /\ Overall(IF UsageAbove(9) THEN "degraded" ELSE "healthy")

\* checkServerStatus
CheckServer ==
    /\ probe.at = "server"
    /\ probe' = [probe EXCEPT !.at = "connectivity",
                    !.server = IF closed \/ ~listening THEN "unhealthy" ELSE "healthy"]

\* checkConnectivity
CheckConnectivity ==
    /\ probe.at = "connectivity"
    /\ probe' = [probe EXCEPT !.at = "answer",
                    !.connectivity = IF UsageAbove(8) THEN "degraded" ELSE "healthy"]

\* What the load balancer sees.
Code == IF probe.status = "unhealthy" THEN 503 ELSE 200

Answer ==
    /\ probe.at = "answer"
    /\ probe' = Idle

Step ==
    \/ Request \/ ReadClosed \/ ReadReject \/ ReadUsage \/ CheckServer
    \/ CheckConnectivity \/ Answer
================================================================================
