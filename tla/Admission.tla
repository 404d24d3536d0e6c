-------------------------------- MODULE Admission -------------------------------
(***************************************************************************)
(* What the accept loop of internal/server/server.go asks before it hands  *)
(* a connection to a handler: the IP filter, the DDoS protection and the   *)
(* breach handler, in this order.  The handler, possibly much later, tells *)
(* the DDoS protection of the access.  Cleanup, the breach checker and the *)
(* clock run beside the accept loop.                                       *)
(***************************************************************************)
EXTENDS IPFilter, DDoSProtection, ResourceBreach

CONSTANTS AllowCIDRs, BlockCIDRs,  \* of the Config
          MaxPending               \* bound: handlers of a host that have not started

\* Hosts and the entries of the lists that the parser accepts are addresses of bits.
ASSUME AdmissionAssumption ==
    /\ Hosts \ {NoIP} \subseteq Seq(0..1)
    /\ \A e \in Range(AllowCIDRs) \cup Range(BlockCIDRs) :
          /\ e.kind \in {"blank", "invalid", "ip", "cidr"}
          /\ e.kind \in {"ip", "cidr"} => e.addr \in Seq(0..1)
          /\ e.kind = "cidr" => e.len \in 0..Len(e.addr)
    /\ MaxPending \in Nat

VARIABLES
    accept,   \* which check comes next, or accept
    conn,     \* the host of the connection in the accept loop's hand
    pending,  \* per host, admitted connections whose handler has not recorded them
    passed    \* ghost: per host, the ages below RateWindow of connections let through

acceptVars == <<accept, conn, pending, passed>>
vars == <<ddosVars, breachVars, acceptVars>>

\* Start: invalid lists keep the server from starting.
Init ==
    /\ ValidLists(AllowCIDRs, BlockCIDRs)
    /\ DDoSInit /\ BreachInit
    /\ accept = "accept" /\ conn = NoIP
    /\ pending = [h \in Hosts |-> 0] /\ passed = [h \in Hosts |-> <<>>]

\* A connection of h is accepted and shown to the filter.
Accept(h) ==
    /\ accept = "accept" /\ pending[h] < MaxPending
    /\ IF Allow(AllowCIDRs, BlockCIDRs, h) THEN accept' = "scan" /\ conn' = h
                                           ELSE UNCHANGED <<accept, conn>>
    /\ UNCHANGED <<pending, passed, ddosVars, breachVars>>

Close == accept' = "accept" /\ conn' = NoIP

\* Mutant of CheckScanning: a refused attempt counts as an access.
CheckScanningRecords ==
    /\ accept = "scan"
    /\ IF IsPortScanning(conn) THEN Close /\ RecordPortAccess(conn)
                               ELSE accept' = "rate" /\ UNCHANGED <<conn, ddosVars>>
    /\ UNCHANGED <<pending, passed, breachVars>>

CheckScanning ==
    /\ accept = "scan"
    /\ IF IsPortScanning(conn) THEN Close ELSE accept' = "rate" /\ UNCHANGED conn
    /\ UNCHANGED <<pending, passed, ddosVars, breachVars>>

CheckRate ==
    /\ accept = "rate"
    /\ CheckConnectionRate(conn)
    /\ IF Len(rates'[conn].connections) > Len(Valid(conn))
       THEN /\ accept' = "breach" /\ passed' = [passed EXCEPT ![conn] = Append(@, 0)]
            /\ UNCHANGED conn
       ELSE Close /\ UNCHANGED passed
    /\ UNCHANGED <<pending, breachVars>>

\* ShouldRejectConnection and then the connection limit, which may refuse as well
\* (Server models it); if neither does, a handler is started.
CheckBreach ==
    /\ accept = "breach"
    /\ Close
    /\ \/ UNCHANGED pending
       \/ ~reject /\ pending' = [pending EXCEPT ![conn] = @ + 1]
    /\ UNCHANGED <<passed, ddosVars, breachVars>>

\* handleConnection gets to RecordPortAccess.
Record(h) ==
    /\ pending[h] > 0
    /\ pending' = [pending EXCEPT ![h] = @ - 1]
    /\ RecordPortAccess(h)
    /\ UNCHANGED <<accept, conn, passed, breachVars>>

Tick ==
    /\ DDoSTick
    /\ passed' = [h \in Hosts |-> Recent([i \in DOMAIN passed[h] |-> passed[h][i] + 1])]
    /\ UNCHANGED <<accept, conn, pending, breachVars>>

Cleanup ==
    /\ StartCleanup \/ CleanupRates \/ CleanupScans
    /\ UNCHANGED <<acceptVars, breachVars>>

Breach ==
    /\ StartCheck \/ CheckStep \/ Relieve
    /\ UNCHANGED <<acceptVars, ddosVars>>

AcceptStep == CheckScanning \/ CheckRate \/ CheckBreach

Next ==
    \/ \E h \in Hosts : Accept(h) \/ Record(h)
    \/ AcceptStep \/ Tick \/ Cleanup \/ Breach

Spec == Init /\ [][Next]_vars

\* The hosts that get past the filter.
Welcome == {h \in Hosts : Allow(AllowCIDRs, BlockCIDRs, h)}

\* Every such host keeps trying, the goroutines keep running, handlers start in the
\* end (TaskRuns of GoroutinePool), and the tickers of Cleanup and of the breach
\* checker keep firing.
FairSpec ==
    /\ Spec
    /\ \A h \in Welcome : SF_vars(Accept(h)) /\ WF_vars(Record(h))
    /\ WF_vars(AcceptStep) /\ WF_vars(Tick) /\ WF_vars(Cleanup)
    /\ WF_vars((StartCheck \/ CheckStep) /\ UNCHANGED <<acceptVars, ddosVars>>)

------------------------------------------------------------------------------

\* The filter's rules as its documentation gives them, on sets of addresses.
Covers(e, ip) ==
    \/ e.kind = "ip" /\ e.addr = ip
    \/ e.kind = "cidr" /\ Len(e.addr) = Len(ip) /\ \A i \in 1..e.len : e.addr[i] = ip[i]

Permitted(ip) ==
    /\ ip # NoIP
    /\ \A e \in Range(BlockCIDRs) : ~Covers(e, ip)
    /\ (\E e \in Range(AllowCIDRs) : e.kind # "blank") =>
         \E e \in Range(AllowCIDRs) : Covers(e, ip)

\* A host the lists do not permit leaves no trace behind the filter: no handler,
\* no rate tracker, no scan tracker.
RefusedLeaveNoTrace ==
    \A h \in Hosts : pending[h] > 0 \/ h \in DOMAIN rates \cup DOMAIN scans => Permitted(h)

\* What checkConnectionRate answers depends on the connections of the host that it
\* let through within RateWindow and on nothing else: Cleanup, which may remove the
\* tracker before or after the host is back, and the pruning of refused attempts
\* neither forget one of them nor hold an older one against the host.
RateMatchesHistory ==
    \A h \in Hosts :
        LET n == Len(passed[h])
        IN  RateAllows(h) <=> /\ n < MaxConnectionsPerSec
                              /\ n > 0 => passed[h][n] >= Gap

\* "Max 10 connections per second per IP" (ddos_protection.go:64), "First 3
\* connections should be allowed" and the next one a second later
\* (ddos_protection_test.go:33-43): a connection is refused for its rate only if
\* MaxConnectionsPerSec others of its host were let through within the last Second.
RateLimitPerSecond ==
    [][accept = "rate" /\ accept' = "accept" =>
         Cardinality({i \in DOMAIN passed[conn] : passed[conn][i] < Second})
             >= MaxConnectionsPerSec]_vars

\* A host taken for a scanner stays locked out until an hour has passed since
\* its last access, or a handler of a connection admitted before starts late.
ScannerStaysOut ==
    [][\A h \in Hosts :
         IsPortScanning(h) /\ ~IsPortScanning(h)' =>
             scans[h].last > Hour \/ pending'[h] < pending[h]]_vars

\* Neither limiter starves a host: once the load is over a permitted host that
\* keeps trying is admitted again and again, however often it was refused, since
\* refused attempts prolong nothing.
RetriesSucceed ==
    \A h \in {x \in Hosts : Permitted(x)} :
        ~pressure ~> accept = "breach" /\ conn = h /\ ~reject
================================================================================
