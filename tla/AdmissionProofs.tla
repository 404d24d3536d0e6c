----------------------------- MODULE AdmissionProofs ----------------------------
(***************************************************************************)
(* Proofs about Admission for any hosts, lists of the filter, limits and   *)
(* resources.                                                              *)
(***************************************************************************)
EXTENDS Admission, FiniteSetTheorems, SequenceTheorems, TLAPS

\* The time each prover may take for a step.
USE SMTT(20), ZenonT(20)

------------------------------------------------------------------------------
(* The breach handler                                                      *)

\* RejectExact is not inductive: while a breach is being raised or cleared the flags
\* disagree on purpose.

\* What holds while the two flags are out of step: a breach about to be
\* announced is up, and one about to be withdrawn still turns connections away.
BreachInv ==
    /\ BreachTypeOK
    /\ RejectExact
    /\ check = "raise" => \E r \in Resources : breach[r]
    /\ check = "clear" => reject

\* Moving on to the next resource keeps check and at well typed.
LEMMA AdvanceType ==
    ASSUME BreachTypeOK, Advance
    PROVE  check' \in {"idle", "compare"} /\ at' \in Nat \ {0}
BY DEF BreachTypeOK, Advance

\* The checker keeps the flags of the breach handler consistent at each store.
LEMMA BreachInductive == BreachInv /\ [BreachNext]_breachVars => BreachInv'
<1> SUFFICES ASSUME BreachInv, [BreachNext]_breachVars PROVE BreachInv'
  OBVIOUS
<1>1. CASE StartCheck
  BY <1>1 DEF BreachInv, StartCheck, BreachTypeOK, RejectExact
<1>2. CASE Compare
  <2>1. Order[at] \in Resources
    BY <1>2 DEF Compare, Resources, BreachInv, BreachTypeOK
  <2>2. PICK u \in Usage(Order[at]) : CompareUsage(Order[at], u)
    BY <1>2 DEF Compare
  <2>3. CASE u = "high" /\ ~breach[Order[at]]
    <3>1. /\ breach' = [breach EXCEPT ![Order[at]] = TRUE]
          /\ check' = "raise" /\ at' = at
      BY <2>2, <2>3 DEF CompareUsage
    <3> QED BY <3>1, <2>1, <1>2 DEF Compare, BreachInv, BreachTypeOK, RejectExact
  <2>4. CASE u = "low" /\ breach[Order[at]]
    <3>1. /\ breach' = [breach EXCEPT ![Order[at]] = FALSE]
          /\ check' = "clear" /\ at' = at
      BY <2>2, <2>4 DEF CompareUsage
    <3>2. reject
      BY <2>1, <2>4, <1>2 DEF Compare, BreachInv, RejectExact
    <3> QED BY <3>1, <3>2, <2>1, <1>2 DEF Compare, BreachInv, BreachTypeOK, RejectExact
  <2>5. CASE ~(u = "high" /\ ~breach[Order[at]]) /\ ~(u = "low" /\ breach[Order[at]])
    <3>1. Advance /\ breach' = breach
      BY <2>2, <2>5 DEF CompareUsage
    <3>2. check' \in {"idle", "compare"} /\ at' \in Nat \ {0}
      BY <3>1, AdvanceType DEF BreachInv
    <3> QED BY <3>1, <3>2, <1>2 DEF Compare, BreachInv, BreachTypeOK, RejectExact
  <2> QED BY <2>3, <2>4, <2>5
<1>3. CASE Raise
  <2>1. check' \in {"idle", "compare"} /\ at' \in Nat \ {0}
    BY <1>3, AdvanceType DEF Raise, BreachInv
  <2> QED BY <1>3, <2>1 DEF Raise, BreachInv, BreachTypeOK, RejectExact
<1>4. CASE CheckAllBreaches
  <2>1. check' \in {"idle", "compare"} /\ at' \in Nat \ {0}
    BY <1>4, AdvanceType DEF CheckAllBreaches, BreachInv
  <2> QED BY <1>4, <2>1, Zenon DEF CheckAllBreaches, BreachInv, BreachTypeOK, RejectExact
<1>5. CASE Relieve
  BY <1>5, Zenon DEF Relieve, BreachInv, BreachTypeOK, RejectExact
<1>6. CASE UNCHANGED breachVars
  BY <1>6 DEF breachVars, BreachInv, BreachTypeOK, RejectExact
<1> QED BY <1>1, <1>2, <1>3, <1>4, <1>5, <1>6 DEF BreachNext, CheckStep

\* The accept loop, the limiters and the clock leave the breach handler alone.
LEMMA BreachSteps == [Next]_vars => [BreachNext]_breachVars
<1> SUFFICES ASSUME Next \/ UNCHANGED vars PROVE BreachNext \/ UNCHANGED breachVars
  OBVIOUS
<1>1. CASE Breach
  BY <1>1 DEF Breach, BreachNext
<1>2. CASE AcceptStep \/ Tick \/ Cleanup
  BY <1>2 DEF AcceptStep, CheckScanning, CheckRate, CheckBreach, Tick, Cleanup
<1>3. ASSUME NEW h \in Hosts, Accept(h) \/ Record(h) PROVE UNCHANGED breachVars
  BY <1>3 DEF Accept, Record
<1>4. CASE UNCHANGED vars
  BY <1>4 DEF vars
<1>. QED
  BY <1>1, <1>2, <1>3, <1>4 DEF Next

\* rejectNewConnections says exactly whether some resource is in breach whenever
\* CheckResourceLimits is not between the stores of one breach, for every list
\* of resources and every course of their usage.
THEOREM RejectExactCorrect == Spec => []RejectExact
<1>1. Init => BreachInv
  <2> SUFFICES ASSUME BreachInit PROVE BreachInv
    BY DEF Init
  <2>1. \A r \in Resources : ~breach[r]
    BY DEF BreachInit
  <2>2. BreachTypeOK
    <3>1. breach \in [Resources -> BOOLEAN]
      BY Zenon DEF BreachInit
    <3>2. at \in Nat \ {0}
      BY DEF BreachInit
    <3> QED BY <3>1, <3>2, Zenon DEF BreachInit, BreachTypeOK
  <2>3. RejectExact
    BY <2>1 DEF BreachInit, RejectExact
  <2> QED BY <2>2, <2>3 DEF BreachInit, BreachInv
<1>2. BreachInv => RejectExact
  BY DEF BreachInv
<1> QED BY <1>1, <1>2, BreachInductive, BreachSteps, PTL DEF Spec

------------------------------------------------------------------------------
(* The filter                                                              *)

\* Two prefixes are equal as sequences if they are bit by bit.
LEMMA PrefixEqual ==
    ASSUME NEW a \in Seq(0..1), NEW b \in Seq(0..1), Len(a) = Len(b), NEW n \in 0..Len(a)
    PROVE  SubSeq(a, 1, n) = SubSeq(b, 1, n) <=> \A i \in 1..n : a[i] = b[i]
<1>1. \A i \in 1..n : a[i] \in 0..1 /\ b[i] \in 0..1
  OBVIOUS
<1>2. /\ SubSeq(a, 1, n) \in Seq(0..1) /\ Len(SubSeq(a, 1, n)) = n
      /\ \A i \in 1..n : SubSeq(a, 1, n)[i] = a[i]
  BY <1>1, SubSeqProperties
<1>3. /\ SubSeq(b, 1, n) \in Seq(0..1) /\ Len(SubSeq(b, 1, n)) = n
      /\ \A i \in 1..n : SubSeq(b, 1, n)[i] = b[i]
  BY <1>1, SubSeqProperties
<1>4. ASSUME \A i \in 1..n : a[i] = b[i] PROVE SubSeq(a, 1, n) = SubSeq(b, 1, n)
  BY <1>2, <1>3, <1>4, SeqEqual
<1>5. ASSUME SubSeq(a, 1, n) = SubSeq(b, 1, n), NEW i \in 1..n PROVE a[i] = b[i]
  BY <1>2, <1>3, <1>5
<1>. QED
  BY <1>4, <1>5

\* What an entry of a list covers, as the documentation has it, is what its
\* network contains.
LEMMA CoversNetwork ==
    ASSUME NEW e \in Range(AllowCIDRs) \cup Range(BlockCIDRs), e.kind \in {"ip", "cidr"},
           NEW ip \in Hosts \ {NoIP}
    PROVE  Covers(e, ip) <=> InNetwork(Network(e), ip)
<1>1. e.addr \in Seq(0..1) /\ ip \in Seq(0..1)
  BY AdmissionAssumption
<1>2. CASE e.kind = "ip"
  <2>1. Network(e).addr = e.addr /\ Network(e).len = Len(e.addr)
    BY <1>2 DEF Network
  <2>2. Covers(e, ip) <=> e.addr = ip
    BY <1>2 DEF Covers
  <2>3. CASE Len(e.addr) = Len(ip)
    <3>1. Len(e.addr) \in 0..Len(e.addr)
      BY <1>1
    <3>2. SubSeq(e.addr, 1, Len(e.addr)) = SubSeq(ip, 1, Len(e.addr))
             <=> \A i \in 1..Len(e.addr) : e.addr[i] = ip[i]
      BY <1>1, <2>3, <3>1, PrefixEqual
    <3>3. e.addr = ip <=> \A i \in 1..Len(e.addr) : e.addr[i] = ip[i]
      BY <1>1, <2>3, SeqEqual
    <3>. QED
      BY <2>1, <2>2, <2>3, <3>2, <3>3 DEF InNetwork
  <2>. QED
    BY <2>1, <2>2, <2>3 DEF InNetwork
<1>3. CASE e.kind = "cidr"
  <2>1. Network(e).addr = e.addr /\ Network(e).len = e.len
    BY <1>3 DEF Network
  <2>2. e.len \in 0..Len(e.addr)
    BY <1>3, AdmissionAssumption
  <2>3. CASE Len(e.addr) = Len(ip)
    <3>1. SubSeq(e.addr, 1, e.len) = SubSeq(ip, 1, e.len)
             <=> \A i \in 1..e.len : e.addr[i] = ip[i]
      BY <1>1, <2>2, <2>3, PrefixEqual, Zenon
    <3>. QED
      BY <1>3, <2>1, <2>3, <3>1, Zenon DEF InNetwork, Covers
  <2>. QED
    BY <1>3, <2>1, <2>3, Zenon DEF InNetwork, Covers
<1>. QED
  BY <1>2, <1>3

\* The filter lets exactly the documented hosts in, once the lists were accepted.
LEMMA AllowIsPermitted ==
    ASSUME ValidLists(AllowCIDRs, BlockCIDRs), NEW h \in Hosts
    PROVE  Allow(AllowCIDRs, BlockCIDRs, h) <=> Permitted(h)
<1>1. CASE h = NoIP
  BY <1>1 DEF Allow, Permitted
<1>2. CASE h # NoIP
  <2>1. \A e \in Range(AllowCIDRs) \cup Range(BlockCIDRs) :
           e.kind # "blank" => e.kind \in {"ip", "cidr"}
    BY AdmissionAssumption DEF ValidLists
  <2>2. \A e \in Range(AllowCIDRs) \cup Range(BlockCIDRs) :
           e.kind # "blank" => (Covers(e, h) <=> InNetwork(Network(e), h))
    BY <1>2, <2>1, CoversNetwork
  <2>3. \A e : e.kind = "blank" => ~Covers(e, h)
    BY DEF Covers
  <2>4. Matches(parseCIDRList(BlockCIDRs), h) <=> \E e \in Range(BlockCIDRs) : Covers(e, h)
    BY <2>2, <2>3, Zenon DEF Matches, parseCIDRList
  <2>5. Matches(parseCIDRList(AllowCIDRs), h) <=> \E e \in Range(AllowCIDRs) : Covers(e, h)
    BY <2>2, <2>3, Zenon DEF Matches, parseCIDRList
  <2>6. parseCIDRList(AllowCIDRs) = {} <=> ~\E e \in Range(AllowCIDRs) : e.kind # "blank"
    BY Zenon DEF parseCIDRList
  <2>. QED
    BY <1>2, <2>4, <2>5, <2>6 DEF Allow, Permitted
<1>. QED
  BY <1>1, <1>2

\* Everything behind the filter belongs to a permitted host: the connection in the
\* accept loop's hand, which a tracker or a handler may come from, as well as these.
Filtered ==
    /\ ValidLists(AllowCIDRs, BlockCIDRs)
    /\ pending \in [Hosts -> Nat]
    /\ accept # "accept" => conn \in Hosts /\ Permitted(conn)
    /\ \A h \in DOMAIN rates \cup DOMAIN scans : Permitted(h)
    /\ \A h \in Hosts : pending[h] > 0 => Permitted(h)

\* The lists and what they permit are constants.
LEMMA FilterConstant ==
    /\ ValidLists(AllowCIDRs, BlockCIDRs)' <=> ValidLists(AllowCIDRs, BlockCIDRs)
    /\ \A h : Permitted(h)' <=> Permitted(h)
BY Zenon DEF ValidLists, Permitted, Covers, Range

\* Each check passes on only the host the filter let in, and cleaning up adds none.
LEMMA FilteredStep == Filtered /\ [Next]_vars => Filtered'
<1>. SUFFICES ASSUME Filtered, [Next]_vars PROVE Filtered'
  OBVIOUS
<1>1. ASSUME NEW k \in Hosts, Accept(k) PROVE Filtered'
  <2>1. Allow(AllowCIDRs, BlockCIDRs, k) => Permitted(k)
    BY AllowIsPermitted DEF Filtered
  <2>. QED
    BY <1>1, <2>1, FilterConstant DEF Accept, Filtered, ddosVars
<1>2. ASSUME NEW k \in Hosts, Record(k) PROVE Filtered'
  <2>1. Permitted(k) /\ DOMAIN scans' = DOMAIN scans \cup {k} /\ rates' = rates
    BY <1>2 DEF Record, RecordPortAccess, Put, Filtered
  <2>2. /\ pending' \in [Hosts -> Nat] /\ accept' = accept /\ conn' = conn
        /\ \A h \in Hosts : pending'[h] > 0 => pending[h] > 0
    BY <1>2 DEF Record, Filtered
  <2>. QED
    BY <2>1, <2>2, FilterConstant DEF Filtered
<1>3. CASE CheckScanning
  BY <1>3, FilterConstant DEF CheckScanning, Close, Filtered, ddosVars
<1>4. CASE CheckRate
  <2>1. DOMAIN rates' = DOMAIN rates \cup {conn} /\ scans' = scans /\ pending' = pending
    BY <1>4 DEF CheckRate, CheckConnectionRate, Put
  <2>2. accept' # "accept" => conn' = conn
    BY <1>4 DEF CheckRate, Close
  <2>3. conn \in Hosts /\ Permitted(conn)
    BY <1>4 DEF CheckRate, Filtered
  <2>. QED
    BY <2>1, <2>2, <2>3, FilterConstant DEF Filtered
<1>5. CASE CheckBreach
  <2>1. conn \in Hosts /\ Permitted(conn)
    BY <1>5 DEF CheckBreach, Filtered
  <2>2. pending' = pending \/ pending' = [pending EXCEPT ![conn] = @ + 1]
    BY <1>5 DEF CheckBreach
  <2>3. pending' \in [Hosts -> Nat] /\ \A h \in Hosts : pending'[h] > 0 => Permitted(h)
    BY <2>1, <2>2 DEF Filtered
  <2>. QED
    BY <1>5, <2>3, FilterConstant DEF CheckBreach, Close, Filtered, ddosVars
<1>6. CASE Tick
  <2>1. DOMAIN rates' = DOMAIN rates /\ DOMAIN scans' = DOMAIN scans
    BY <1>6 DEF Tick, DDoSTick
  <2>. QED
    BY <1>6, <2>1, FilterConstant DEF Tick, Filtered
<1>7. CASE Cleanup
  <2>1. DOMAIN rates' \subseteq DOMAIN rates /\ DOMAIN scans' \subseteq DOMAIN scans
    BY <1>7 DEF Cleanup, StartCleanup, CleanupRates, CleanupScans, RestrictDomain, Restrict
  <2>. QED
    BY <1>7, <2>1, FilterConstant DEF Cleanup, acceptVars, Filtered
<1>8. CASE Breach \/ UNCHANGED vars
  BY <1>8, FilterConstant DEF Breach, vars, acceptVars, ddosVars, Filtered
<1>. QED
  BY <1>1, <1>2, <1>3, <1>4, <1>5, <1>6, <1>7, <1>8 DEF Next, AcceptStep

\* A host the lists do not permit never has a handler, a rate tracker or a scan
\* tracker, whatever the lists and the lengths of the addresses.
THEOREM RefusedCorrect == Spec => []RefusedLeaveNoTrace
<1>1. Init => Filtered
  BY DEF Init, DDoSInit, Filtered
<1>2. Filtered => RefusedLeaveNoTrace
  BY DEF Filtered, RefusedLeaveNoTrace
<1>. QED
  BY <1>1, <1>2, FilteredStep, PTL DEF Spec

------------------------------------------------------------------------------
(* Scan detection                                                          *)

\* The ages and counts that IsPortScanning and Cleanup compare are numbers.
ScanTypes ==
    /\ since \in Nat
    /\ pending \in [Hosts -> Nat]
    /\ \A h \in DOMAIN scans : scans[h] \in [last : Nat, consecutive : Nat]

\* Every step keeps them so.
LEMMA ScanTypesStep == ScanTypes /\ [Next]_vars => ScanTypes'
<1>. SUFFICES ASSUME ScanTypes, [Next]_vars PROVE ScanTypes'
  OBVIOUS
<1>1. ASSUME NEW k \in Hosts, Accept(k) PROVE ScanTypes'
  BY <1>1 DEF Accept, ScanTypes, ddosVars
<1>2. ASSUME NEW k \in Hosts, Record(k) PROVE ScanTypes'
  <2>1. PICK n : /\ scans' = Put(scans, k, [last |-> 0, consecutive |-> n])
                 /\ \/ n = 1
                    \/ k \in DOMAIN scans /\ n \in {scans[k].consecutive + 1, ConsecutiveThresh}
    BY <1>2 DEF Record, RecordPortAccess
  <2>2. n \in Nat
    <3>1. k \in DOMAIN scans => scans[k].consecutive + 1 \in Nat
      BY DEF ScanTypes
    <3>. QED
      BY <2>1, <3>1, DDoSAssumption
  <2>3. \A h \in DOMAIN scans' : scans'[h] \in [last : Nat, consecutive : Nat]
    BY <2>1, <2>2 DEF Put, ScanTypes
  <2>. QED
    BY <1>2, <2>3 DEF Record, RecordPortAccess, ScanTypes
<1>3. CASE CheckScanning \/ CheckRate \/ CheckBreach
  BY <1>3 DEF CheckScanning, CheckRate, CheckConnectionRate, CheckBreach, ScanTypes, ddosVars
<1>4. CASE Tick
  <2>1. \A h \in DOMAIN scans' : scans'[h] \in [last : Nat, consecutive : Nat]
    BY <1>4, DDoSAssumption DEF Tick, DDoSTick, Older, Old, ScanTypes
  <2>. QED
    BY <1>4, <2>1 DEF Tick, DDoSTick, ScanTypes
<1>5. CASE Cleanup
  BY <1>5 DEF Cleanup, StartCleanup, CleanupRates, CleanupScans, RestrictDomain, Restrict,
              acceptVars, ScanTypes
<1>6. CASE Breach \/ UNCHANGED vars
  BY <1>6 DEF Breach, vars, acceptVars, ddosVars, ScanTypes
<1>. QED
  BY <1>1, <1>2, <1>3, <1>4, <1>5, <1>6 DEF Next, AcceptStep

\* Only the count makes a scanner: the one port on record is below the limit.
LEMMA ScannerByCount ==
    /\ \A h : IsPortScanning(h) <=>
                h \in DOMAIN scans /\ scans[h].consecutive >= ConsecutiveThresh
    /\ \A h : IsPortScanning(h)' <=>
                h \in DOMAIN scans' /\ scans'[h].consecutive >= ConsecutiveThresh
BY DDoSAssumption DEF IsPortScanning

\* One step frees a scanner only by an hour's silence or by a late handler.
LEMMA ScannerStep ==
    ASSUME ScanTypes, [Next]_vars, NEW h \in Hosts, IsPortScanning(h), ~IsPortScanning(h)'
    PROVE  scans[h].last > Hour \/ pending'[h] < pending[h]
<1>1. ASSUME NEW k \in Hosts, Record(k) PROVE pending'[h] < pending[h]
  <2>1. CASE h = k
    BY <1>1, <2>1 DEF Record, ScanTypes
  <2>2. CASE h # k
    <3>1. h \in DOMAIN scans => h \in DOMAIN scans' /\ scans'[h] = scans[h]
      BY <1>1, <2>2 DEF Record, RecordPortAccess, Put
    <3>. QED
      BY <3>1, ScannerByCount
  <2>. QED
    BY <2>1, <2>2
<1>2. CASE Tick
  <2>1. h \in DOMAIN scans => h \in DOMAIN scans' /\ scans'[h].consecutive = scans[h].consecutive
    BY <1>2 DEF Tick, DDoSTick, ScanTypes
  <2>. QED
    BY <2>1, ScannerByCount
<1>3. CASE Cleanup /\ CleanupScans
  <2>1. h \in DOMAIN scans /\ ~BeforeCutoff(scans[h].last) =>
           h \in DOMAIN scans' /\ scans'[h] = scans[h]
    BY <1>3 DEF CleanupScans, RestrictDomain, Restrict
  <2>2. h \in DOMAIN scans /\ BeforeCutoff(scans[h].last)
    BY <2>1, ScannerByCount
  <2>. QED
    BY <2>2, DDoSAssumption DEF BeforeCutoff, ScanTypes
<1>4. CASE scans' = scans
  BY <1>4, ScannerByCount
<1>5. ASSUME NEW k \in Hosts, Accept(k) PROVE scans' = scans
  BY <1>5 DEF Accept, ddosVars
<1>6. AcceptStep \/ Breach \/ UNCHANGED vars => scans' = scans
  BY DEF AcceptStep, CheckScanning, CheckRate, CheckConnectionRate, CheckBreach, Breach,
         vars, ddosVars
<1>7. Cleanup => scans' = scans \/ CleanupScans
  BY DEF Cleanup, StartCleanup, CleanupRates
<1>. QED
  BY <1>1, <1>2, <1>3, <1>4, <1>5, <1>6, <1>7 DEF Next

\* A scanner stays locked out for an hour after its last access, whatever the
\* limits and however long a Cleanup takes between its clock and its locks.
THEOREM ScannerCorrect == Spec => ScannerStaysOut
<1>1. Init => ScanTypes
  BY DEF Init, DDoSInit, ScanTypes
<1>2. ScanTypes /\ [Next]_vars =>
        [\A h \in Hosts : IsPortScanning(h) /\ ~IsPortScanning(h)' =>
             scans[h].last > Hour \/ pending'[h] < pending[h]]_vars
  BY ScannerStep
<1>. QED
  BY <1>1, <1>2, ScanTypesStep, PTL DEF Spec, ScannerStaysOut


------------------------------------------------------------------------------
(* Connection rates                                                        *)

\* RateMatchesHistory holds because the ghost is the young end of what
\* checkConnectionRate keeps.

\* With c the connections and l the last of a tracker, p of a host's ghost: the older
\* part of c is outside the window and the rest is p, whose ages are a gap apart
\* and end with l.
RateOf(c, p, l) ==
    LET n == Len(c) - Len(p)
    IN  /\ c \in Seq(Nat) /\ p \in Seq(Nat) /\ l \in Nat
        /\ n >= 0 /\ Len(p) <= MaxConnectionsPerSec
        /\ \A i \in 1..n : c[i] >= RateWindow
        /\ \A i \in 1..Len(p) : p[i] = c[n + i] /\ p[i] < RateWindow
        /\ \A i \in 2..Len(p) : p[i - 1] - p[i] >= Gap
        /\ Len(p) > 0 => l = p[Len(p)]

RateInv ==
    /\ DOMAIN passed = Hosts
    /\ \A h \in Hosts : RateOf(Tracker(h).connections, passed[h], Tracker(h).last)

\* Where the ages outside the window all come first, pruning cuts them off.
LEMMA RecentOf ==
    ASSUME NEW s \in Seq(Nat), NEW n \in 0..Len(s),
           \A i \in 1..n : s[i] >= RateWindow,
           \A i \in (n + 1)..Len(s) : s[i] < RateWindow
    PROVE  /\ Recent(s) \in Seq(Nat) /\ Len(Recent(s)) = Len(s) - n
           /\ \A j \in 1..(Len(s) - n) : Recent(s)[j] = s[n + j]
<1>. DEFINE K == {i \in DOMAIN s : s[i] < RateWindow}
            At(j) == CHOOSE k \in K : Cardinality({i \in K : i <= k}) = j
<1>1. DOMAIN s = 1..Len(s) /\ Len(s) \in Nat /\ \A i \in 1..Len(s) : s[i] \in Nat
  OBVIOUS
<1>2. K = (n + 1)..Len(s)
  BY <1>1, DDoSAssumption
<1>3. Cardinality(K) = Len(s) - n
  <2>1. n + 1 \in Int /\ Len(s) \in Int
    BY <1>1
  <2>2. Cardinality((n + 1)..Len(s)) =
          IF n + 1 > Len(s) THEN 0 ELSE (Len(s) - (n + 1)) + 1
    BY <2>1, FS_Interval, Zenon
  <2>. HIDE DEF K
  <2>. QED
    BY <1>1, <1>2, <2>2
<1>4. ASSUME NEW k \in K PROVE Cardinality({i \in K : i <= k}) = k - n
  <2>1. {i \in K : i <= k} = (n + 1)..k /\ k \in Int /\ n + 1 \in Int /\ n + 1 <= k
    BY <1>1, <1>2
  <2>2. Cardinality((n + 1)..k) = IF n + 1 > k THEN 0 ELSE (k - (n + 1)) + 1
    BY <2>1, FS_Interval
  <2>3. (k - (n + 1)) + 1 = k - n
    BY <2>1
  <2>. DEFINE B == {i \in K : i <= k}
  <2>. HIDE DEF B
  <2>4. B = (n + 1)..k
    BY <2>1 DEF B
  <2>5. Cardinality(B) = k - n
    BY <2>1, <2>2, <2>3, <2>4
  <2>. QED
    BY <2>5 DEF B
<1>5. ASSUME NEW j \in 1..(Len(s) - n) PROVE At(j) = n + j
  <2>1. n + j \in K /\ (n + j) - n = j
    BY <1>1, <1>2
  <2>2. Cardinality({i \in K : i <= n + j}) = j
    BY <1>4, <2>1
  <2>3. \A k \in K : Cardinality({i \in K : i <= k}) = j => k = n + j
    <3>1. ASSUME NEW k \in K, Cardinality({i \in K : i <= k}) = j PROVE k = n + j
      <4>1. k - n = j
        BY <1>4, <3>1
      <4>2. k \in Int
        BY <1>1, <1>2
      <4>. QED
        BY <4>1, <4>2
    <3>. QED
      BY <3>1
  <2>. HIDE DEF K
  <2>. QED
    BY <2>1, <2>2, <2>3
<1>6. Recent(s) = [j \in 1..(Len(s) - n) |-> s[At(j)]]
  BY <1>3 DEF Recent
<1>. HIDE DEF K, At
<1>7. Recent(s) = [j \in 1..(Len(s) - n) |-> s[n + j]]
  BY <1>5, <1>6, Zenon
<1>8. Len(s) - n \in Nat /\ \A j \in 1..(Len(s) - n) : s[n + j] \in Nat
  BY <1>1
<1>. QED
  BY <1>7, <1>8

\* The connections that checkConnectionRate keeps are those the ghost has.
LEMMA RecentRate ==
    ASSUME NEW c, NEW p, NEW l, RateOf(c, p, l) PROVE Recent(c) = p
<1>. DEFINE n == Len(c) - Len(p)
<1>1. c \in Seq(Nat) /\ p \in Seq(Nat) /\ n \in 0..Len(c) /\ Len(c) - n = Len(p)
  BY DEF RateOf
<1>2. \A i \in 1..n : c[i] >= RateWindow
  BY DEF RateOf
<1>3. \A i \in (n + 1)..Len(c) : c[i] < RateWindow
  <2>. TAKE i \in (n + 1)..Len(c)
  <2>1. i - n \in 1..Len(p) /\ n + (i - n) = i
    BY <1>1
  <2>2. \A j \in 1..Len(p) : p[j] = c[n + j] /\ p[j] < RateWindow
    BY DEF RateOf
  <2>. QED
    BY <2>1, <2>2, Zenon
<1>4. \A j \in 1..Len(p) : p[j] = c[n + j]
  BY DEF RateOf
<1>. HIDE DEF n
<1>5. /\ Recent(c) \in Seq(Nat) /\ Len(Recent(c)) = Len(c) - n
      /\ \A j \in 1..(Len(c) - n) : Recent(c)[j] = c[n + j]
  BY <1>1, <1>2, <1>3, RecentOf, Zenon
<1>. QED
  BY <1>1, <1>4, <1>5, SeqEqual, Zenon

\* A connection that is let through comes a gap after the last one, if that one
\* is still inside the window.
LEMMA RateGrant ==
    ASSUME NEW c, NEW p, NEW l, RateOf(c, p, l),
           Len(p) < MaxConnectionsPerSec, Len(p) > 0 => l >= Gap
    PROVE  RateOf(Append(p, 0), Append(p, 0), 0)
<1>. DEFINE q == Append(p, 0)
<1>1. p \in Seq(Nat) /\ Len(p) \in Nat
  BY DEF RateOf
<1>2. /\ q \in Seq(Nat) /\ Len(q) = Len(p) + 1 /\ q[Len(p) + 1] = 0
      /\ \A i \in 1..Len(p) : q[i] = p[i]
  BY <1>1
<1>3. \A i \in 1..Len(q) : q[i] < RateWindow
  <2>1. \A i \in 1..Len(p) : p[i] < RateWindow
    BY DEF RateOf
  <2>. QED
    BY <1>1, <1>2, <2>1, DDoSAssumption
<1>4. \A i \in 2..Len(q) : q[i - 1] - q[i] >= Gap
  <2>. TAKE i \in 2..Len(q)
  <2>1. CASE i \in 2..Len(p)
    <3>1. i \in 1..Len(p) /\ i - 1 \in 1..Len(p)
      BY <1>1, <2>1
    <3>2. q[i] = p[i] /\ q[i - 1] = p[i - 1]
      BY <1>2, <3>1
    <3>. QED
      BY <2>1, <3>2 DEF RateOf
  <2>2. CASE i = Len(p) + 1
    <3>1. i - 1 = Len(p) /\ Len(p) \in 1..Len(p)
      BY <1>1, <2>2
    <3>2. q[i - 1] = l /\ q[i] = 0 /\ l \in Nat /\ l >= Gap
      BY <1>2, <2>2, <3>1 DEF RateOf
    <3>. QED
      BY <3>2, DDoSAssumption
  <2>. QED
    BY <1>1, <1>2, <2>1, <2>2
<1>5. Len(q) <= MaxConnectionsPerSec
  BY <1>1, <1>2, DDoSAssumption
<1>. HIDE DEF q
<1>6. Len(q) - Len(q) = 0 /\ \A i \in 1..Len(q) : 0 + i = i
  BY <1>1, <1>2
<1>. QED
  BY <1>1, <1>2, <1>3, <1>4, <1>5, <1>6 DEF RateOf, q

\* Pruning alone leaves what the ghost has.
LEMMA RatePrune ==
    ASSUME NEW c, NEW p, NEW l, RateOf(c, p, l) PROVE RateOf(p, p, l)
<1>1. p \in Seq(Nat) /\ Len(p) - Len(p) = 0 /\ \A i \in 1..Len(p) : 0 + i = i
  BY DEF RateOf
<1>. QED
  BY <1>1 DEF RateOf

\* Without a connection inside the window a tracker may as well be gone.
LEMMA RateGone ==
    ASSUME NEW c, NEW p, NEW l, RateOf(c, p, l), l >= RateWindow
    PROVE  p = << >> /\ RateOf(<< >>, p, Old)
<1>1. Len(p) = 0 /\ p \in Seq(Nat)
  BY DDoSAssumption DEF RateOf
<1>2. p = << >>
  BY <1>1
<1>. QED
  BY <1>2, DDoSAssumption DEF RateOf, Old


\* A tick moves at most the oldest age out of the window, for ages are apart.
LEMMA RateTick ==
    ASSUME NEW c, NEW p, NEW l, RateOf(c, p, l)
    PROVE  RateOf([i \in DOMAIN c |-> Older(c[i], RateWindow)],
                  Recent([i \in DOMAIN p |-> p[i] + 1]), Older(l, Old))
<1>. DEFINE d == [i \in DOMAIN c |-> Older(c[i], RateWindow)]
            s == [i \in DOMAIN p |-> p[i] + 1]
            n == Len(c) - Len(p)
            m == IF Len(p) > 0 /\ s[1] >= RateWindow THEN 1 ELSE 0
            q == Recent(s)
<1>1. /\ c \in Seq(Nat) /\ p \in Seq(Nat) /\ l \in Nat /\ n \in Nat
      /\ Len(c) \in Nat /\ Len(p) \in Nat /\ Len(c) = n + Len(p)
      /\ \A i \in 1..Len(c) : c[i] \in Nat
      /\ \A i \in 1..Len(p) : p[i] \in Nat
  BY DEF RateOf
<1>2. /\ \A i \in 1..n : c[i] >= RateWindow
      /\ \A i \in 1..Len(p) : p[i] = c[n + i] /\ p[i] < RateWindow
      /\ \A i \in 2..Len(p) : p[i - 1] - p[i] >= Gap
  BY DEF RateOf
<1>3. Len(p) > 0 => l = p[Len(p)]
  BY DEF RateOf
<1>4. RateWindow \in Nat /\ RateWindow < Old /\ Gap \in Nat \ {0} /\ Old \in Nat
  BY DDoSAssumption DEF Old
<1>5. /\ d \in Seq(Nat) /\ Len(d) = Len(c)
      /\ \A i \in 1..Len(c) : d[i] = IF c[i] < RateWindow THEN c[i] + 1 ELSE c[i]
  <2>1. DOMAIN c = 1..Len(c)
    BY <1>1
  <2>2. \A i \in 1..Len(c) : Older(c[i], RateWindow) \in Nat
    BY <1>1, <1>4 DEF Older
  <2>. QED
    BY <1>1, <2>1, <2>2 DEF Older
<1>6. s \in Seq(Nat) /\ Len(s) = Len(p) /\ \A i \in 1..Len(p) : s[i] = p[i] + 1
  <2>1. DOMAIN p = 1..Len(p)
    BY <1>1
  <2>. QED
    BY <1>1, <2>1
<1>7. m \in 0..1 /\ m \in 0..Len(s) /\ \A i \in 1..m : s[i] >= RateWindow
  BY <1>1, <1>6
<1>8. \A i \in (m + 1)..Len(s) : s[i] < RateWindow
  <2>. TAKE i \in (m + 1)..Len(s)
  <2>1. CASE i = 1
    BY <2>1, <1>1, <1>4, <1>6
  <2>2. CASE i # 1
    <3>1. i \in 2..Len(p) /\ i \in 1..Len(p) /\ i - 1 \in 1..Len(p)
      BY <2>2, <1>1, <1>6
    <3>2. p[i - 1] - p[i] >= Gap /\ p[i - 1] < RateWindow /\ p[i - 1] \in Nat /\ p[i] \in Nat
      BY <3>1, <1>1, <1>2
    <3>. QED
      BY <3>1, <3>2, <1>4, <1>6
  <2>. QED
    BY <2>1, <2>2
<1>. HIDE DEF d, s, n, m, q
<1>9. /\ q \in Seq(Nat) /\ Len(q) = Len(p) - m
      /\ \A j \in 1..(Len(p) - m) : q[j] = s[m + j]
  <2>1. /\ Recent(s) \in Seq(Nat) /\ Len(Recent(s)) = Len(s) - m
        /\ \A j \in 1..(Len(s) - m) : Recent(s)[j] = s[m + j]
    BY <1>6, <1>7, <1>8, RecentOf
  <2>. QED
    BY <1>6, <2>1 DEF q
<1>10. /\ m \in 0..1 /\ m <= Len(p) /\ Len(q) \in Nat
       /\ Len(d) - Len(q) = n + m
  BY <1>1, <1>5, <1>6, <1>7, <1>9
<1>11. \A i \in 1..(n + m) : d[i] >= RateWindow
  <2>. TAKE i \in 1..(n + m)
  <2>1. CASE i \in 1..n
    <3>1. i \in 1..Len(c) /\ c[i] >= RateWindow /\ c[i] \in Nat
      BY <2>1, <1>1, <1>2
    <3>. QED
      BY <3>1, <1>4, <1>5
  <2>2. CASE i \notin 1..n
    <3>1. m = 1 /\ i = n + 1 /\ 1 \in 1..Len(p) /\ i \in 1..Len(c)
      BY <2>2, <1>1, <1>10
    <3>2. s[1] >= RateWindow /\ s[1] = p[1] + 1 /\ p[1] = c[i] /\ p[1] < RateWindow
      BY <3>1, <1>2, <1>6, <1>7
    <3>. QED
      BY <3>1, <3>2, <1>5
  <2>. QED
    BY <2>1, <2>2
<1>12. \A i \in 1..Len(q) : q[i] = d[(n + m) + i] /\ q[i] < RateWindow
  <2>. TAKE i \in 1..Len(q)
  <2>a. i \in Nat /\ 1 <= i /\ i <= Len(p) - m /\ n \in Nat /\ m \in Nat
    BY <1>1, <1>9, <1>10
  <2>1. /\ m + i \in 1..Len(p) /\ m + i \in (m + 1)..Len(s)
        /\ (n + m) + i \in 1..Len(c) /\ n + (m + i) = (n + m) + i
    <3>1. m + i \in 1..Len(p) /\ m + i \in (m + 1)..Len(s)
      BY <2>a, <1>1, <1>6
    <3>2. n + (m + i) = (n + m) + i
      BY <2>a
    <3>3. (n + m) + i \in 1..Len(c)
      BY <2>a, <3>2, <1>1
    <3>. QED
      BY <3>1, <3>2, <3>3
  <2>2. q[i] = s[m + i] /\ s[m + i] = p[m + i] + 1 /\ s[m + i] < RateWindow
    BY <2>1, <1>6, <1>8, <1>9
  <2>3. p[m + i] = c[(n + m) + i] /\ p[m + i] < RateWindow
    BY <2>1, <1>2
  <2>. QED
    BY <2>1, <2>2, <2>3, <1>5
<1>13. \A i \in 2..Len(q) : q[i - 1] - q[i] >= Gap
  <2>. TAKE i \in 2..Len(q)
  <2>1. /\ i \in 1..(Len(p) - m) /\ i - 1 \in 1..(Len(p) - m)
        /\ m + i \in 2..Len(p) /\ m + i \in 1..Len(p) /\ m + (i - 1) \in 1..Len(p)
        /\ (m + i) - 1 = m + (i - 1)
    BY <1>1, <1>9, <1>10
  <2>2. q[i] = p[m + i] + 1 /\ q[i - 1] = p[m + (i - 1)] + 1
    BY <2>1, <1>6, <1>9, Zenon
  <2>3. p[(m + i) - 1] - p[m + i] >= Gap
    BY <2>1, <1>2
  <2>4. p[m + i] \in Nat /\ p[m + (i - 1)] \in Nat
    BY <2>1, <1>1, Zenon
  <2>. QED
    BY <2>1, <2>2, <2>3, <2>4, <1>4
<1>14. Older(l, Old) \in Nat /\ (Len(q) > 0 => Older(l, Old) = q[Len(q)])
  <2>1. Older(l, Old) \in Nat
    BY <1>1, <1>4 DEF Older
  <2>2. ASSUME Len(q) > 0 PROVE Older(l, Old) = q[Len(q)]
    <3>1. /\ Len(q) \in 1..(Len(p) - m) /\ m + Len(q) = Len(p) /\ Len(p) \in 1..Len(p)
      <4>1. /\ Len(p) \in Nat /\ m \in 0..1 /\ m <= Len(p)
            /\ Len(q) = Len(p) - m /\ Len(q) \in Nat
        BY <1>1, <1>9, <1>10
      <4>. QED
        BY <2>2, <4>1
    <3>2. q[Len(q)] = p[Len(p)] + 1 /\ l = p[Len(p)] /\ p[Len(p)] < RateWindow
      BY <3>1, <1>2, <1>3, <1>6, <1>9
    <3>. QED
      BY <3>2, <1>1, <1>4 DEF Older
  <2>. QED
    BY <2>1, <2>2
<1>15. Len(q) <= MaxConnectionsPerSec
  <2>1. Len(p) <= MaxConnectionsPerSec
    BY DEF RateOf
  <2>. QED
    BY <2>1, <1>1, <1>9, <1>10, DDoSAssumption
<1>16. RateOf(d, q, Older(l, Old))
  <2>. DEFINE g == Len(d) - Len(q)
  <2>1. g = n + m /\ g >= 0
    BY <1>1, <1>10
  <2>2. \A i \in 1..g : d[i] >= RateWindow
    BY <1>11, <2>1
  <2>3. \A i \in 1..Len(q) : q[i] = d[g + i] /\ q[i] < RateWindow
    BY <1>12, <2>1
  <2>. QED
    BY <1>5, <1>9, <1>13, <1>14, <1>15, <2>1, <2>2, <2>3 DEF RateOf
<1>. QED
  BY <1>16 DEF d, q, s


\* A step that leaves the trackers and the ghost alone keeps the relation.
LEMMA RateKept == RateInv /\ UNCHANGED <<rates, passed>> => RateInv'
BY DEF RateInv, Tracker, RateOf

\* checkConnectionRate keeps it.
LEMMA CheckRateStep == RateInv /\ Filtered /\ CheckRate => RateInv'
<1>. SUFFICES ASSUME RateInv, Filtered, CheckRate PROVE RateInv'
  OBVIOUS
<1>. DEFINE c == Tracker(conn).connections
            l == Tracker(conn).last
            p == passed[conn]
            t == IF RateAllows(conn) THEN [connections |-> Append(p, 0), last |-> 0]
                                     ELSE [connections |-> p, last |-> l]
<1>1. conn \in Hosts
  BY DEF CheckRate, Filtered
<1>2. RateOf(c, p, l)
  BY <1>1 DEF RateInv
<1>3. Valid(conn) = p
  BY <1>2, RecentRate DEF Valid
<1>4. rates' = Put(rates, conn, t)
  BY <1>3 DEF CheckRate, CheckConnectionRate
<1>5. rates'[conn] = t /\ p \in Seq(Nat)
  BY <1>2, <1>4 DEF Put, RateOf
<1>6. \A h \in Hosts : Tracker(h)' = IF h = conn THEN t ELSE Tracker(h)
  BY <1>4 DEF Put, Tracker
<1>7. CASE RateAllows(conn)
  <2>1. t = [connections |-> Append(p, 0), last |-> 0]
    BY <1>7
  <2>2. Len(rates'[conn].connections) > Len(Valid(conn))
    BY <1>3, <1>5, <2>1
  <2>3. passed' = [passed EXCEPT ![conn] = Append(p, 0)]
    BY <2>2 DEF CheckRate
  <2>4. RateOf(Append(p, 0), Append(p, 0), 0)
    BY <1>2, <1>3, <1>7, RateGrant DEF RateAllows
  <2>. HIDE DEF t, p
  <2>5. /\ DOMAIN passed' = Hosts
        /\ \A h \in Hosts : passed'[h] = IF h = conn THEN Append(p, 0) ELSE passed[h]
    BY <1>1, <2>3 DEF RateInv
  <2>6. ASSUME NEW h \in Hosts
        PROVE RateOf(Tracker(h)'.connections, passed'[h], Tracker(h)'.last)
    <3>1. CASE h = conn
      <4>1. Tracker(h)'.connections = Append(p, 0) /\ Tracker(h)'.last = 0
        BY <1>6, <2>1, <3>1
      <4>. QED
        BY <2>4, <2>5, <3>1, <4>1, Zenon
    <3>2. CASE h # conn
      <4>1. Tracker(h)' = Tracker(h) /\ passed'[h] = passed[h]
        BY <1>6, <2>5, <3>2
      <4>. QED
        BY <4>1 DEF RateInv
    <3>. QED
      BY <3>1, <3>2
  <2>. QED
    BY <2>5, <2>6 DEF RateInv, RateOf
<1>8. CASE ~RateAllows(conn)
  <2>1. t = [connections |-> p, last |-> l]
    BY <1>8
  <2>2. ~(Len(rates'[conn].connections) > Len(Valid(conn)))
    BY <1>3, <1>5, <2>1
  <2>3. passed' = passed
    BY <2>2 DEF CheckRate
  <2>4. RateOf(p, p, l)
    BY <1>2, RatePrune
  <2>. HIDE DEF t
  <2>5. ASSUME NEW h \in Hosts
        PROVE RateOf(Tracker(h)'.connections, passed'[h], Tracker(h)'.last)
    BY <1>6, <2>1, <2>3, <2>4 DEF RateInv
  <2>. QED
    BY <2>3, <2>5 DEF RateInv, RateOf
<1>. QED
  BY <1>7, <1>8

\* The clock keeps it.
LEMMA TickStep == RateInv /\ Tick => RateInv'
<1>. SUFFICES ASSUME RateInv, Tick PROVE RateInv'
  OBVIOUS
<1>1. /\ DOMAIN passed' = Hosts
      /\ \A h \in Hosts : passed'[h] = Recent([i \in DOMAIN passed[h] |-> passed[h][i] + 1])
  BY DEF Tick
<1>2. ASSUME NEW h \in Hosts
      PROVE  RateOf(Tracker(h)'.connections, passed'[h], Tracker(h)'.last)
  <2>. DEFINE c == Tracker(h).connections
              l == Tracker(h).last
  <2>1. RateOf(c, passed[h], l)
    BY DEF RateInv
  <2>2. RateOf([i \in DOMAIN c |-> Older(c[i], RateWindow)], passed'[h], Older(l, Old))
    BY <1>1, <2>1, RateTick, Zenon
  <2>3. CASE h \in DOMAIN rates
    <3>1. Tracker(h)' = [connections |-> [i \in DOMAIN c |-> Older(c[i], RateWindow)],
                         last |-> Older(l, Old)]
      BY <2>3 DEF Tick, DDoSTick, Tracker
    <3>. QED
      BY <2>2, <3>1
  <2>4. CASE h \notin DOMAIN rates
    <3>1. h \notin DOMAIN rates'
      BY <2>4 DEF Tick, DDoSTick
    <3>2. Tracker(h)' = [connections |-> << >>, last |-> Old]
      BY <3>1 DEF Tracker
    <3>3. c = << >> /\ l = Old
      BY <2>4 DEF Tracker
    <3>4. Older(l, Old) = Old
      BY <3>3, DDoSAssumption DEF Older, Old
    <3>5. [i \in DOMAIN c |-> Older(c[i], RateWindow)] = << >>
      BY <3>3
    <3>6. Tracker(h)'.connections = << >> /\ Tracker(h)'.last = Old
      BY <3>2
    <3>. QED
      BY <2>2, <3>4, <3>5, <3>6, Zenon
  <2>. QED
    BY <2>3, <2>4
<1>. QED
  BY <1>1, <1>2 DEF RateInv, RateOf

\* Cleanup removes a tracker only when its last connection has left the window.
LEMMA CleanupStep == RateInv /\ ScanTypes /\ Cleanup => RateInv'
<1>. SUFFICES ASSUME RateInv, ScanTypes, Cleanup PROVE RateInv'
  OBVIOUS
<1>1. passed' = passed
  BY DEF Cleanup, acceptVars
<1>2. CASE rates' = rates
  BY <1>1, <1>2, RateKept
<1>3. CASE CleanupRates
  <2>1. ASSUME NEW h \in Hosts
        PROVE  RateOf(Tracker(h)'.connections, passed[h], Tracker(h)'.last)
    <3>1. RateOf(Tracker(h).connections, passed[h], Tracker(h).last)
      BY DEF RateInv
    <3>2. CASE h \in DOMAIN rates /\ BeforeCutoff(rates[h].last)
      <4>1. Tracker(h).last >= RateWindow
        <5>1. Tracker(h).last = rates[h].last
          BY <3>2 DEF Tracker
        <5>2. rates[h].last \in Nat
          BY <3>1, <5>1 DEF RateOf
        <5>. QED
          BY <3>2, <5>1, <5>2, DDoSAssumption DEF BeforeCutoff, ScanTypes
      <4>2. h \notin DOMAIN rates'
        BY <1>3, <3>2 DEF CleanupRates, RestrictDomain, Restrict
      <4>3. Tracker(h)' = [connections |-> << >>, last |-> Old]
        BY <4>2 DEF Tracker
      <4>. QED
        BY <3>1, <4>1, <4>3, RateGone
    <3>3. CASE ~(h \in DOMAIN rates /\ BeforeCutoff(rates[h].last))
      <4>1. Tracker(h)' = Tracker(h)
        BY <1>3, <3>3 DEF CleanupRates, RestrictDomain, Restrict, Tracker
      <4>. QED
        BY <3>1, <4>1
    <3>. QED
      BY <3>2, <3>3
  <2>. QED
    BY <1>1, <2>1 DEF RateInv, RateOf
<1>. QED
  BY <1>2, <1>3 DEF Cleanup, StartCleanup, CleanupScans

\* Every step keeps it.
LEMMA RateStep == RateInv /\ Filtered /\ ScanTypes /\ [Next]_vars => RateInv'
<1>. SUFFICES ASSUME RateInv, Filtered, ScanTypes, [Next]_vars PROVE RateInv'
  OBVIOUS
<1>1. ASSUME NEW k \in Hosts, Accept(k) \/ Record(k) PROVE UNCHANGED <<rates, passed>>
  BY <1>1 DEF Accept, Record, RecordPortAccess, ddosVars
<1>2. CheckScanning \/ CheckBreach \/ Breach \/ UNCHANGED vars => UNCHANGED <<rates, passed>>
  BY DEF CheckScanning, CheckBreach, Breach, vars, acceptVars, ddosVars
<1>. QED
  BY <1>1, <1>2, RateKept, CheckRateStep, TickStep, CleanupStep DEF Next, AcceptStep

\* Whatever Cleanup removes and when, checkConnectionRate answers by the connections
\* of the host that it let through within the window.
THEOREM RateMatchesCorrect == Spec => []RateMatchesHistory
<1>1. Init => RateInv /\ Filtered /\ ScanTypes
  <2>1. Init => Filtered /\ ScanTypes
    BY DEF Init, DDoSInit, Filtered, ScanTypes
  <2>2. ASSUME Init, NEW h \in Hosts
        PROVE  RateOf(Tracker(h).connections, passed[h], Tracker(h).last)
    <3>1. Tracker(h) = [connections |-> << >>, last |-> Old] /\ passed[h] = << >>
      BY <2>2 DEF Init, DDoSInit, Tracker
    <3>. QED
      BY <3>1, DDoSAssumption DEF RateOf, Old
  <2>3. Init => DOMAIN passed = Hosts
    BY DEF Init
  <2>. QED
    BY <2>1, <2>2, <2>3 DEF RateInv
<1>2. RateInv => RateMatchesHistory
  <2> SUFFICES ASSUME RateInv, NEW h \in Hosts
               PROVE  RateAllows(h) <=> /\ Len(passed[h]) < MaxConnectionsPerSec
                                        /\ Len(passed[h]) > 0 =>
                                             passed[h][Len(passed[h])] >= Gap
    BY DEF RateMatchesHistory
  <2>1. RateOf(Tracker(h).connections, passed[h], Tracker(h).last)
    BY DEF RateInv
  <2>2. Valid(h) = passed[h]
    BY <2>1, RecentRate DEF Valid
  <2>3. Len(passed[h]) > 0 => Tracker(h).last = passed[h][Len(passed[h])]
    BY <2>1 DEF RateOf
  <2>. QED
    BY <2>2, <2>3 DEF RateAllows
<1>. QED
  BY <1>1, <1>2, RateStep, FilteredStep, ScanTypesStep, PTL DEF Spec
================================================================================
