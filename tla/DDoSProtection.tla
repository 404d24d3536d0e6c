------------------------------ MODULE DDoSProtection ----------------------------
(***************************************************************************)
(* Connection rates and scan detection per host, from                      *)
(* internal/server/ddos_protection.go.  Each method is one critical        *)
(* section; Cleanup reads the clock first and then takes two locks in      *)
(* turn.                                                                   *)
(*                                                                         *)
(* A time is kept as its age, counted in units of the shortest gap the     *)
(* code allows between two connections, and stops growing at an age that   *)
(* every comparison treats alike; so the clock itself needs no bound.      *)
(***************************************************************************)
EXTENDS Naturals, Sequences, FiniteSets, Functions

CONSTANTS Hosts,
          MaxConnectionsPerSec,  \* what RateWindow admits, in spite of the name
          Gap,                   \* time.Second / maxConnectionsPerSec
          Second,
          RateWindow,            \* connectionRateWindow, a minute
          ScanWindow,            \* scanTimeWindow, five minutes
          MaxPorts,              \* maxPortsPerIP
          ConsecutiveThresh,
          Hour,                  \* what Cleanup calls old
          SweepTime              \* bound: how long a Cleanup takes

ASSUME DDoSAssumption ==
    /\ Gap \in Nat \ {0} /\ MaxConnectionsPerSec \in Nat \ {0}
    /\ ConsecutiveThresh \in Nat \ {0} /\ SweepTime \in Nat
    /\ Gap <= Second /\ Second <= RateWindow /\ RateWindow <= ScanWindow
    /\ Second \in Nat /\ RateWindow \in Nat /\ ScanWindow \in Nat /\ Hour \in Nat
    /\ ScanWindow <= Hour /\ MaxPorts \in Nat \ {0, 1}

ASSUME GapAssumption == Gap = Second \div MaxConnectionsPerSec

VARIABLES
    rates,  \* connectionRates: per host the ages of its connections and of the last
    scans,  \* scanAttempts: per host the age of its last access and consecutive
    sweep,  \* where Cleanup is
    since   \* the time since Cleanup read the clock

ddosVars == <<rates, scans, sweep, since>>

\* The age at which times stop growing older.
Old == Hour + SweepTime + 1

Older(a, limit) == IF a < limit THEN a + 1 ELSE a

DDoSInit == rates = <<>> /\ scans = <<>> /\ sweep = "idle" /\ since = 0

\* m[h] = v for a Go map m.
Put(m, h, v) == [x \in DOMAIN m \cup {h} |-> IF x = h THEN v ELSE m[x]]

\* Time passes.
DDoSTick ==
    /\ sweep # "idle" => since < SweepTime
    /\ since' = IF sweep = "idle" THEN 0 ELSE since + 1
    /\ rates' = [h \in DOMAIN rates |->
                   [connections |-> [i \in DOMAIN rates[h].connections |->
                                       Older(rates[h].connections[i], RateWindow)],
                    last |-> Older(rates[h].last, Old)]]
    /\ scans' = [h \in DOMAIN scans |-> [scans[h] EXCEPT !.last = Older(@, Old)]]
    /\ UNCHANGED sweep

------------------------------------------------------------------------------
(* CheckConnectionAllowed                                                  *)

\* IsPortScanning.  The one caller of RecordPortAccess always gives the same
\* port, so tracker.ports has one entry, as old as the last access.
IsPortScanning(h) ==
    /\ h \in DOMAIN scans
    /\ \/ (IF scans[h].last <= ScanWindow THEN 1 ELSE 0) >= MaxPorts
       \/ scans[h].consecutive >= ConsecutiveThresh

\* The tracker of h.
Tracker(h) == IF h \in DOMAIN rates THEN rates[h] ELSE [connections |-> <<>>, last |-> Old]

\* The members of s, a sequence of ages, that lie inside the window, in their order.
Recent(s) ==
    LET K == {i \in DOMAIN s : s[i] < RateWindow}
    IN  [j \in 1..Cardinality(K) |-> s[CHOOSE k \in K : Cardinality({i \in K : i <= k}) = j]]

\* validConnections: the tracker's connections inside the window.
Valid(h) == Recent(Tracker(h).connections)

\* What checkConnectionRate answers.
RateAllows(h) ==
    /\ Len(Valid(h)) < MaxConnectionsPerSec
    /\ Len(Valid(h)) > 0 => Tracker(h).last >= Gap

\* checkConnectionRate: prune, and record the connection if it is allowed.
CheckConnectionRate(h) ==
    /\ rates' = Put(rates, h, IF RateAllows(h)
                              THEN [connections |-> Append(Valid(h), 0), last |-> 0]
                              ELSE [connections |-> Valid(h), last |-> Tracker(h).last])
    /\ UNCHANGED <<scans, sweep, since>>

------------------------------------------------------------------------------

\* RecordPortAccess: an access within a second of the last one is consecutive.
\* Beyond the threshold the count makes no difference.
RecordPortAccess(h) ==
    LET close == h \in DOMAIN scans /\ scans[h].last <= Second
        n == IF ~close THEN 1
             ELSE IF scans[h].consecutive < ConsecutiveThresh THEN scans[h].consecutive + 1
             ELSE ConsecutiveThresh
    IN  /\ scans' = Put(scans, h, [last |-> 0, consecutive |-> n])
        /\ UNCHANGED <<rates, sweep, since>>

------------------------------------------------------------------------------
(* Cleanup, run by the cleanup routine's ticker                            *)

StartCleanup ==
    /\ sweep = "idle"
    /\ sweep' = "rates" /\ since' = 0
    /\ UNCHANGED <<rates, scans>>

\* Before(cleanupCutoff), where the cutoff lies an hour before Cleanup's clock.
BeforeCutoff(a) == a > Hour + since

\* Mutant of CleanupRates: trackers are removed whatever their age.
CleanupAllRates ==
    /\ sweep = "rates"
    /\ rates' = <<>>
    /\ sweep' = "scans"
    /\ UNCHANGED <<scans, since>>

CleanupRates ==
    /\ sweep = "rates"
    /\ rates' = RestrictDomain(rates, LAMBDA h : ~BeforeCutoff(rates[h].last))
    /\ sweep' = "scans"
    /\ UNCHANGED <<scans, since>>

\* Mutant of CleanupScans: the window of the rates decides what is old.
CleanupScansEarly ==
    /\ sweep = "scans"
    /\ scans' = RestrictDomain(scans, LAMBDA h : scans[h].last <= RateWindow)
    /\ sweep' = "idle" /\ since' = 0
    /\ UNCHANGED rates

CleanupScans ==
    /\ sweep = "scans"
    /\ scans' = RestrictDomain(scans, LAMBDA h : ~BeforeCutoff(scans[h].last))
    /\ sweep' = "idle" /\ since' = 0
    /\ UNCHANGED rates
================================================================================
