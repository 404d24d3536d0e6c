------------------------- MODULE AuthenticatorProofs -------------------------
(***************************************************************************)
(* Proofs about Authenticator for every set of hosts and ports, every      *)
(* MaxAttempts and Window, and every CallTime up to seven windows: the     *)
(* slack that cleanup's ten windows leave over the longest penalty.        *)
(***************************************************************************)
EXTENDS Authenticator, FiniteSetTheorems, SequenceTheorems, TLAPS

\* The time each prover may take for a step.
USE SMTT(20), ZenonT(20)

------------------------------------------------------------------------------
(* Typing                                                                  *)

LEMMA NoRecordType == NoRecord \in Records
BY DEF NoRecord, Records

LEMMA RecordTypes ==
    ASSUME now \in Nat, NEW r \in Records, NEW penalty \in Nat
    PROVE  /\ Restarted(r) \in Records
           /\ Counted(r) \in Records
           /\ Blocked(r, penalty) \in Records
<1>1. r.count + 1 \in Nat /\ now + penalty \in Nat
  BY DEF Records
<1>2. Restarted(r) \in Records
  BY Zenon DEF Restarted, Records
<1>3. Counted(r) \in Records
  BY <1>1, Zenon DEF Counted, Records
<1>4. Blocked(r, penalty) \in Records
  BY <1>1, Zenon DEF Blocked, Records
<1>5. QED
  BY <1>2, <1>3, <1>4

\* What the changes do to the fields the invariant speaks of.
LEMMA RecordFields ==
    ASSUME NEW r \in Records, NEW penalty
    PROVE  /\ Restarted(r).known /\ ~Restarted(r).blocked
           /\ Restarted(r).firstTime = now /\ Restarted(r).lastTime = now
           /\ (Counted(r).known <=> r.known) /\ (Counted(r).blocked <=> r.blocked)
           /\ Counted(r).firstTime = r.firstTime /\ Counted(r).lastTime = now
           /\ Counted(r).blockUntil = r.blockUntil
           /\ (Blocked(r, penalty).known <=> r.known) /\ Blocked(r, penalty).blocked
           /\ Blocked(r, penalty).firstTime = r.firstTime
           /\ Blocked(r, penalty).lastTime = r.lastTime
           /\ Blocked(r, penalty).blockUntil = now + penalty
BY DEF Restarted, Counted, Blocked, Records

\* A step of one connection changes the records in a well-typed way.
LEMMA RecordsStep ==
    ASSUME TypeOK, NEW c \in Clients, Step(c)
    PROVE  attempts' \in [Hosts -> Records]
<1> c[1] \in Hosts
  BY DEF Clients
<1>a. now \in Nat /\ 2 * Window \in Nat /\ 3 * Window \in Nat /\ attempts[c[1]] \in Records
  BY AuthAssumption DEF TypeOK
<1>1. CASE AllowFresh(c)
  BY <1>1, <1>a, RecordTypes DEF AllowFresh, Grant, TypeOK
<1>2. CASE AllowBlocked(c)
  BY <1>2 DEF AllowBlocked, Refuse, TypeOK
<1>3. CASE AllowCounted(c)
  <2>1. Counted(attempts[c[1]]) \in Records
    BY <1>a, RecordTypes
  <2>2. Blocked(Counted(attempts[c[1]]), 2 * Window) \in Records
    BY <1>a, <2>1, RecordTypes, Zenon
  <2>3. QED
    BY <1>3, <2>1, <2>2 DEF AllowCounted, AllowCountingTo, Grant, Refuse, TypeOK
<1>4. CASE RecordFailure(c)
  BY <1>4, <1>a, RecordTypes DEF RecordFailure, TypeOK
<1>5. CASE Reset(c)
  BY <1>5, NoRecordType DEF Reset, TypeOK
<1>6. CASE CheckSession(c) \/ Verify(c) \/ StoreSession(c) \/ RemoveSession(c)
  BY <1>6 DEF CheckSession, Verify, StoreSession, RemoveSession, LeaveWith, TypeOK
<1>7. QED
  BY <1>1, <1>2, <1>3, <1>4, <1>5, <1>6 DEF Step

LEMMA StepType == TypeOK /\ [Next]_vars => TypeOK'
<1> SUFFICES ASSUME TypeOK, [Next]_vars PROVE TypeOK'
  OBVIOUS
<1>1. CASE Cleanup
  BY <1>1, NoRecordType DEF Cleanup, CleanupAfter, TypeOK
<1>2. CASE Tick
  BY <1>2 DEF Tick, TypeOK
<1>3. ASSUME NEW c \in Clients, Step(c) PROVE TypeOK'
  <2>1. attempts' \in [Hosts -> Records]
    BY <1>3, RecordsStep
  <2>2. now' = now
    BY <1>3 DEF Step, AllowFresh, AllowBlocked, AllowCounted, AllowCountingTo, Grant, Refuse,
       CheckSession, Verify, RecordFailure, StoreSession, Reset, RemoveSession,
       LeaveWith
  <2>3. sessions' \subseteq Clients
    BY <1>3 DEF Step, AllowFresh, AllowBlocked, AllowCounted, AllowCountingTo, Grant, Refuse,
       CheckSession, Verify, RecordFailure, StoreSession, Reset, RemoveSession,
       LeaveWith, TypeOK
  <2>4. pc' \in [Clients -> Labels] /\ started' \in [Clients -> Nat]
    BY <1>3, SMTT(60) DEF Step, AllowFresh, AllowBlocked, AllowCounted, AllowCountingTo, Grant, Refuse,
       CheckSession, Verify, RecordFailure, StoreSession, Reset, RemoveSession,
       LeaveWith, Goto, Return, TypeOK, Labels
  <2>5. QED
    BY <2>1, <2>2, <2>3, <2>4 DEF TypeOK
<1>4. CASE UNCHANGED vars
  BY <1>4 DEF vars, TypeOK
<1>5. QED
  BY <1>1, <1>2, <1>3, <1>4 DEF Next

\* The limiter's records and the sessions keep their types.
THEOREM TypeCorrect == Spec => []TypeOK
<1>1. Init => TypeOK
  BY NoRecordType DEF Init, TypeOK, Labels
<1>2. QED
  BY <1>1, StepType, PTL DEF Spec

------------------------------------------------------------------------------
(* Sessions                                                                *)

\* A session is there exactly while its connection is authenticated: the
\* connection stores it once and unregisterConnection removes it.
THEOREM SessionsCorrect == Spec => []SessionsLive
<1>1. Init => SessionsLive
  BY DEF Init, SessionsLive
<1>2. TypeOK /\ SessionsLive /\ [Next]_vars => SessionsLive'
  <2> SUFFICES ASSUME TypeOK, SessionsLive, [Next]_vars PROVE SessionsLive'
    OBVIOUS
  <2>1. CASE Cleanup \/ Tick \/ UNCHANGED vars
    BY <2>1 DEF Cleanup, CleanupAfter, Tick, vars, SessionsLive
  <2>2. ASSUME NEW c \in Clients, Step(c) PROVE SessionsLive'
    <3> USE DEF SessionsLive, TypeOK, Goto, Return
    <3>1. CASE AllowFresh(c) \/ AllowBlocked(c) \/ AllowCounted(c)
      BY <3>1 DEF AllowFresh, AllowBlocked, AllowCounted, AllowCountingTo, Grant, Refuse
    <3>2. CASE CheckSession(c) \/ Verify(c) \/ RecordFailure(c)
      BY <3>2 DEF CheckSession, Verify, RecordFailure
    <3>3. CASE StoreSession(c)
      BY <3>3 DEF StoreSession
    <3>4. CASE Reset(c)
      BY <3>4 DEF Reset
    <3>5. CASE RemoveSession(c)
      BY <3>5 DEF RemoveSession, LeaveWith
    <3>6. QED
      BY <2>2, <3>1, <3>2, <3>3, <3>4, <3>5 DEF Step
  <2>3. QED
    BY <2>1, <2>2 DEF Next
<1>3. QED
  BY <1>1, <1>2, TypeCorrect, PTL DEF Spec

------------------------------------------------------------------------------
(* Blocks                                                                  *)

\* A record's times are in order, and a block ends at least two windows after
\* the record's first attempt, at most three windows from now, and at most
\* CallTime plus three windows after its last counted attempt.
RecordInv(r) ==
    /\ r.firstTime <= r.lastTime /\ r.lastTime <= now
    /\ r.blocked => /\ r.known
                    /\ r.blockUntil >= r.firstTime + 2 * Window
                    /\ r.blockUntil <= now + 3 * Window
                    /\ r.blockUntil <= r.lastTime + CallTime + 3 * Window

\* A running call is not older than CallTime, nor than the last attempt counted
\* for its host: RecordFailure, however late, meets a recent record.
CallInv(c) ==
    Calling(c) => /\ started[c] <= now /\ now <= started[c] + CallTime
                  /\ attempts[c[1]].known => started[c] <= attempts[c[1]].lastTime

BlockInv ==
    /\ TypeOK
    /\ \A h \in Hosts : RecordInv(attempts[h])
    /\ \A c \in Clients : CallInv(c)

\* The window of a record with an expired block has passed as well.
LEMMA BlockInvImplies == BlockInv => BlockOutlivesWindow
BY AuthAssumption DEF BlockInv, RecordInv, BlockOutlivesWindow, InForce, TypeOK, Records

\* A step leaves the other hosts' records alone and changes its own host's in
\* one of five ways.
LEMMA OwnRecord ==
    ASSUME TypeOK, NEW c \in Clients, Step(c)
    PROVE  /\ \A h \in Hosts \ {c[1]} : attempts'[h] = attempts[h]
           /\ \/ Restarts(attempts[c[1]]) /\ attempts'[c[1]] = Restarted(attempts[c[1]])
              \/ attempts'[c[1]] = attempts[c[1]]
              \/ /\ ~Restarts(attempts[c[1]]) /\ ~InForce(attempts[c[1]])
                 /\ \/ attempts'[c[1]] = Counted(attempts[c[1]])
                    \/ attempts'[c[1]] = Blocked(Counted(attempts[c[1]]), 2 * Window)
              \/ pc[c] = "failure" /\ attempts[c[1]].known
                                 /\ attempts'[c[1]] = Blocked(attempts[c[1]], 3 * Window)
              \/ pc[c] = "reset" /\ pc'[c] = "open" /\ attempts'[c[1]] = NoRecord
<1> c[1] \in Hosts
  BY DEF Clients
<1>1. CASE AllowFresh(c)
  BY <1>1 DEF AllowFresh, Grant, TypeOK
<1>2. CASE AllowBlocked(c)
  BY <1>2 DEF AllowBlocked, Refuse, TypeOK
<1>3. CASE AllowCounted(c)
  BY <1>3 DEF AllowCounted, AllowCountingTo, Grant, Refuse, TypeOK
<1>4. CASE RecordFailure(c)
  BY <1>4 DEF RecordFailure, TypeOK
<1>5. CASE Reset(c)
  BY <1>5 DEF Reset, Return, TypeOK
<1>6. CASE CheckSession(c) \/ Verify(c) \/ StoreSession(c) \/ RemoveSession(c)
  BY <1>6 DEF CheckSession, Verify, StoreSession, RemoveSession, LeaveWith, TypeOK
<1>7. QED
  BY <1>1, <1>2, <1>3, <1>4, <1>5, <1>6 DEF Step

\* The clock and the calls a step of c leaves alone; a call begins now.
LEMMA OwnCall ==
    ASSUME TypeOK, NEW c \in Clients, Step(c)
    PROVE  /\ now' = now
           /\ \A d \in Clients \ {c} : pc'[d] = pc[d] /\ started'[d] = started[d]
           /\ Calling(c)' => \/ Calling(c) /\ started'[c] = started[c]
                             \/ started'[c] = now /\ attempts'[c[1]].lastTime = now
<1> USE DEF TypeOK, Calling, Goto, Return
<1> c[1] \in Hosts
  BY DEF Clients
<1>a. /\ Restarted(attempts[c[1]]).lastTime = now
      /\ Counted(attempts[c[1]]).lastTime = now
  BY RecordFields
<1>1. CASE AllowFresh(c)
  BY <1>1, <1>a DEF AllowFresh, Grant
<1>2. CASE AllowBlocked(c)
  BY <1>2 DEF AllowBlocked, Refuse
<1>3. CASE AllowCounted(c)
  BY <1>3, <1>a DEF AllowCounted, AllowCountingTo, Grant, Refuse
<1>4. CASE CheckSession(c) \/ Verify(c) \/ RecordFailure(c)
  BY <1>4 DEF CheckSession, Verify, RecordFailure
<1>5. CASE StoreSession(c) \/ Reset(c) \/ RemoveSession(c)
  BY <1>5 DEF StoreSession, Reset, RemoveSession, LeaveWith
<1>6. QED
  BY <1>1, <1>2, <1>3, <1>4, <1>5 DEF Step

LEMMA StepRecordInv ==
    ASSUME BlockInv, NEW c \in Clients, Step(c)
    PROVE  \A h \in Hosts : RecordInv(attempts[h])'
<1> DEFINE r == attempts[c[1]]
<1>1. c[1] \in Hosts /\ TypeOK /\ r \in Records /\ Counted(r) \in Records
  BY RecordTypes, AuthAssumption DEF Clients, BlockInv, TypeOK
<1>2. now' = now /\ now \in Nat
  BY <1>1, OwnCall DEF TypeOK
<1>3. RecordInv(r) /\ CallInv(c)
  BY <1>1 DEF BlockInv
<1>4. RecordInv(r)'
  <2> USE AuthAssumption, <1>1, <1>2, <1>3 DEF RecordInv, Records
  <2>1. CASE r' = r
    BY <2>1
  <2>2. CASE r' = Restarted(r)
    BY <2>2, RecordFields
  <2>3. CASE r' = Counted(r)
    <3>1. /\ r'.firstTime = r.firstTime /\ r'.lastTime = now /\ r'.blockUntil = r.blockUntil
          /\ r'.blocked => r.blocked
          /\ r.known => r'.known
      BY <2>3, RecordFields
    <3>2. QED
      BY <3>1
  <2>4. CASE r' = Blocked(Counted(r), 2 * Window) /\ ~Restarts(r)
    BY <2>4, RecordFields DEF Restarts
  <2>5. CASE r' = Blocked(r, 3 * Window) /\ r.known /\ pc[c] = "failure"
    <3>1. now <= r.lastTime + CallTime
      BY <2>5 DEF CallInv, Calling, TypeOK
    <3>2. QED
      BY <2>5, <3>1, RecordFields
  <2>6. CASE r' = NoRecord
    BY <2>6 DEF NoRecord
  <2>7. QED
    BY <2>1, <2>2, <2>3, <2>4, <2>5, <2>6, OwnRecord
<1>5. ASSUME NEW h \in Hosts \ {c[1]} PROVE RecordInv(attempts[h])'
  BY <1>1, <1>2, <1>5, OwnRecord DEF BlockInv, RecordInv
<1>6. QED
  BY <1>4, <1>5

LEMMA StepCallInv ==
    ASSUME BlockInv, NEW c \in Clients, Step(c), NEW d \in Clients
    PROVE  CallInv(d)'
<1>1. d[1] \in Hosts /\ c[1] \in Hosts /\ TypeOK /\ CallInv(d)
  BY DEF Clients, BlockInv
<1>2. now' = now /\ now \in Nat
  BY <1>1, OwnCall DEF TypeOK
<1>3. SUFFICES ASSUME Calling(d)'
               PROVE  (/\ started[d] <= now /\ now <= started[d] + CallTime
                       /\ attempts[d[1]].known => started[d] <= attempts[d[1]].lastTime)'
  BY DEF CallInv
<1>4. CASE Calling(d) /\ started'[d] = started[d]
  <2>1. CASE attempts'[d[1]] = attempts[d[1]]
    BY <1>1, <1>2, <1>4, <2>1 DEF CallInv
  <2>2. CASE attempts'[d[1]] # attempts[d[1]]
    <3>1. d[1] = c[1]
      BY <1>1, <2>2, OwnRecord
    <3>2. attempts[c[1]] \in Records /\ Counted(attempts[c[1]]) \in Records
      BY <1>1, <1>2, RecordTypes, AuthAssumption DEF TypeOK
    <3>3. attempts'[d[1]].known => \/ attempts'[d[1]].lastTime = now
                                  \/ /\ attempts'[d[1]].lastTime = attempts[d[1]].lastTime
                                     /\ attempts[d[1]].known
      BY <1>1, <3>1, <3>2, OwnRecord, RecordFields DEF NoRecord
    <3>4. QED
      BY <1>1, <1>2, <1>4, <3>3 DEF CallInv, TypeOK
  <2>3. QED
    BY <2>1, <2>2
<1>5. CASE d = c /\ started'[d] = now /\ attempts'[d[1]].lastTime = now
  BY <1>2, <1>5, AuthAssumption
<1>6. QED
  BY <1>1, <1>3, <1>4, <1>5, OwnCall DEF Calling

LEMMA StepBlockInv == BlockInv /\ [Next]_vars => BlockInv'
<1> SUFFICES ASSUME BlockInv, [Next]_vars PROVE BlockInv'
  OBVIOUS
<1>1. TypeOK /\ TypeOK'
  BY StepType DEF BlockInv
<1>2. CASE Cleanup
  BY <1>1, <1>2 DEF Cleanup, CleanupAfter, BlockInv, RecordInv, CallInv, Calling, NoRecord,
     TypeOK, Clients
<1>3. CASE Tick
  BY <1>1, <1>3, AuthAssumption DEF Tick, BlockInv, RecordInv, CallInv, Calling, TypeOK, Records
<1>4. ASSUME NEW c \in Clients, Step(c) PROVE BlockInv'
  BY <1>1, <1>4, StepRecordInv, StepCallInv DEF BlockInv
<1>5. CASE UNCHANGED vars
  BY <1>1, <1>5 DEF vars, BlockInv, RecordInv, CallInv, Calling
<1>6. QED
  BY <1>2, <1>3, <1>4, <1>5 DEF Next

LEMMA InitBlockInv == Init => BlockInv
BY NoRecordType, AuthAssumption DEF Init, BlockInv, RecordInv, CallInv, Calling, TypeOK, Labels, NoRecord

\* Allow never finds a host that is out of its block but still in its window:
\* an expired block is always forgotten with the window.
THEOREM BlockOutlivesWindowCorrect == Spec => []BlockOutlivesWindow
BY InitBlockInv, StepBlockInv, BlockInvImplies, PTL DEF Spec

\* A block in force stays: cleanup only removes records whose blocks are over,
\* since ten windows cover a call and the longest penalty, and RecordFailure
\* only ever prolongs.
THEOREM BlocksHoldCorrect == Spec => BlocksHold
<1> DEFINE Holds(h) ==
        InForce(attempts[h]) =>
            \/ attempts'[h].blocked /\ attempts'[h].blockUntil >= attempts[h].blockUntil
            \/ \E p \in Ports : pc[<<h, p>>] = "reset" /\ pc'[<<h, p>>] = "open"
<1>1. BlockInv /\ [Next]_vars => [\A h \in Hosts : Holds(h)]_vars
  <2> SUFFICES ASSUME BlockInv, Next, NEW h \in Hosts, InForce(attempts[h])
               PROVE  \/ attempts'[h].blocked /\ attempts'[h].blockUntil >= attempts[h].blockUntil
                      \/ \E p \in Ports : pc[<<h, p>>] = "reset" /\ pc'[<<h, p>>] = "open"
    BY DEF vars
  <2>1. /\ TypeOK /\ attempts[h] \in Records /\ RecordInv(attempts[h]) /\ attempts[h].blocked
        /\ now < attempts[h].blockUntil /\ now \in Nat
    BY DEF BlockInv, TypeOK, InForce
  <2>2. CASE attempts'[h] = attempts[h]
    BY <2>1, <2>2 DEF Records
  <2>3. CASE Cleanup
    <3>1. ~(now - attempts[h].lastTime > 10 * Window)
      BY <2>1, AuthAssumption DEF RecordInv, Records
    <3>2. QED
      BY <2>2, <2>3, <3>1 DEF Cleanup, CleanupAfter
  <2>4. CASE Tick
    BY <2>2, <2>4 DEF Tick
  <2>5. ASSUME NEW c \in Clients, Step(c), h = c[1]
        PROVE  \/ attempts'[h] = attempts[h]
               \/ attempts'[h].blocked /\ attempts'[h].blockUntil >= attempts[h].blockUntil
               \/ \E p \in Ports : pc[<<h, p>>] = "reset" /\ pc'[<<h, p>>] = "open"
    <3>1. ~Restarts(attempts[h])
      BY <2>1 DEF Restarts, InForce, RecordInv
    <3>2. CASE attempts'[h] = Blocked(attempts[h], 3 * Window)
      BY <2>1, <3>2, RecordFields, AuthAssumption DEF RecordInv, Records
    <3>3. CASE pc[c] = "reset" /\ pc'[c] = "open"
      <4>1. PICK p \in Ports : c = <<h, p>>
        BY <2>5 DEF Clients
      <4>2. QED
        BY <3>3, <4>1
    <3>4. QED
      BY <2>1, <2>5, <3>1, <3>2, <3>3, OwnRecord
  <2>6. ASSUME NEW c \in Clients, Step(c), h # c[1] PROVE attempts'[h] = attempts[h]
    BY <2>1, <2>6, OwnRecord
  <2>7. QED
    BY <2>2, <2>3, <2>4, <2>5, <2>6 DEF Next
<1>2. QED
  BY <1>1, InitBlockInv, StepBlockInv, PTL DEF Spec, BlocksHold

------------------------------------------------------------------------------
(* Attempts                                                                *)

\* The attempts q that were let through in the window before time t, with the
\* record r.  If the record's count began in that window, the attempt that began it
\* is the (k+1)-th; the k before it were counted by an earlier record.  If it began
\* earlier, that attempt is no longer among q.
WindowOf(q, r, t) ==
    /\ \A i, j \in DOMAIN q : i <= j => q[i] <= q[j]
    /\ \A i \in DOMAIN q : t - Window <= q[i] /\ q[i] <= r.lastTime
    /\ ~r.known => q = <<>>
    /\ r.known /\ r.firstTime >= t - Window =>
          \E k \in 0..(MaxAttempts - 1) :
              /\ k + 1 \in DOMAIN q /\ q[k + 1] = r.firstTime
              /\ Len(q) - k <= r.count /\ Len(q) - k <= MaxAttempts
    /\ r.known /\ r.firstTime < t - Window => Len(q) <= MaxAttempts - 1

AttemptsInv ==
    /\ recent \in [Hosts -> Seq(Nat)]
    /\ \A h \in Hosts : WindowOf(recent[h], attempts[h], now)

\* At most MaxAttempts attempts of the present record and MaxAttempts - 1 earlier ones.
LEMMA WindowBound ==
    ASSUME NEW q \in Seq(Nat), NEW r \in Records, NEW t \in Nat, WindowOf(q, r, t)
    PROVE  Len(q) <= 2 * MaxAttempts - 1
<1>1. Len(q) \in Nat /\ MaxAttempts \in Nat \ {0} /\ Window \in Nat /\ r.firstTime \in Nat
  BY AuthAssumption, LenProperties DEF Records
<1>2. CASE ~r.known
  <2>1. Len(q) = 0
    BY <1>2, EmptySeq DEF WindowOf
  <2>2. QED
    BY <1>1, <2>1
<1>3. CASE r.known /\ r.firstTime >= t - Window
  <2>1. PICK k \in 0..(MaxAttempts - 1) : Len(q) - k <= MaxAttempts
    BY <1>3 DEF WindowOf
  <2>2. QED
    BY <1>1, <2>1
<1>4. CASE r.known /\ r.firstTime < t - Window
  BY <1>1, <1>4 DEF WindowOf
<1>5. QED
  BY <1>1, <1>2, <1>3, <1>4

\* Allow counts an attempt or starts a new count.
LEMMA WindowGrant ==
    ASSUME NEW q \in Seq(Nat), NEW r \in Records, NEW t \in Nat, WindowOf(q, r, t),
           r.lastTime <= t, NEW s \in Records, s.known, s.lastTime = t,
           \/ /\ ~r.known \/ t - r.firstTime > Window
              /\ s.firstTime = t /\ s.count = 1
           \/ /\ r.known /\ t - r.firstTime <= Window
              /\ s.firstTime = r.firstTime /\ s.count = r.count + 1 /\ s.count <= MaxAttempts
    PROVE  WindowOf(Append(q, t), s, t)
<1> DEFINE p == Append(q, t)
           L == Len(q)
<1>1. L \in Nat /\ DOMAIN q = 1..L /\ \A i \in 1..L : q[i] \in Nat
  BY LenProperties, ElementOfSeq
<1>2. /\ p \in Seq(Nat) /\ Len(p) = L + 1 /\ p[L + 1] = t
      /\ \A i \in 1..L : p[i] = q[i]
  BY AppendProperties
<1>3. DOMAIN p = 1..(L + 1)
  BY <1>2, LenProperties
<1> HIDE DEF p, L
<1>4. /\ MaxAttempts \in Nat \ {0} /\ Window \in Nat
      /\ r.firstTime \in Nat /\ r.lastTime \in Nat /\ r.count \in Nat
  BY AuthAssumption DEF Records
<1>5. ASSUME NEW i \in 1..(L + 1)
      PROVE  p[i] \in Nat /\ t - Window <= p[i] /\ p[i] <= t
  <2>1. CASE i \in 1..L
    <3>1. t - Window <= q[i] /\ q[i] <= r.lastTime /\ q[i] \in Nat
      BY <1>1, <2>1, Zenon DEF WindowOf
    <3>2. QED
      BY <1>2, <1>4, <2>1, <3>1
  <2>2. CASE i = L + 1
    BY <1>2, <1>4, <2>2
  <2>3. QED
    BY <1>1, <2>1, <2>2
<1>6. ASSUME NEW i \in 1..(L + 1), NEW j \in 1..(L + 1), i <= j
      PROVE  p[i] <= p[j]
  <2>1. CASE j \in 1..L
    <3>1. i \in 1..L
      BY <1>1, <1>6, <2>1
    <3>2. QED
      BY <1>1, <1>2, <1>6, <2>1, <3>1, Zenon DEF WindowOf
  <2>2. CASE j = L + 1
    BY <1>2, <1>5, <2>2
  <2>3. QED
    BY <1>1, <2>1, <2>2
<1>7. s.firstTime >= t - Window
  BY <1>4
<1>8. \E k \in 0..(MaxAttempts - 1) :
          /\ k + 1 \in DOMAIN p /\ p[k + 1] = s.firstTime
          /\ Len(p) - k <= s.count /\ Len(p) - k <= MaxAttempts
  <2>1. CASE ~r.known \/ t - r.firstTime > Window
    <3>1. L <= MaxAttempts - 1
      <4>1. CASE ~r.known
        <5>1. q = <<>>
          BY <4>1 DEF WindowOf
        <5>2. L = 0
          BY <5>1, EmptySeq DEF L
        <5>3. QED
          BY <1>4, <5>2
      <4>2. CASE r.known /\ t - r.firstTime > Window
        <5>1. r.firstTime < t - Window
          BY <1>4, <4>2
        <5>2. QED
          BY <4>2, <5>1 DEF WindowOf, L
      <4>3. QED
        BY <2>1, <4>1, <4>2
    <3>2. s.firstTime = t /\ s.count = 1
      BY <1>4, <2>1
    <3>3. L \in 0..(MaxAttempts - 1) /\ L + 1 \in DOMAIN p /\ (L + 1) - L = 1
      BY <1>1, <1>3, <1>4, <3>1
    <3>4. QED
      BY <1>2, <1>4, <3>2, <3>3
  <2>2. CASE r.known /\ t - r.firstTime <= Window
    <3>1. s.firstTime = r.firstTime /\ s.count = r.count + 1 /\ s.count <= MaxAttempts
      BY <1>4, <2>2
    <3>2. r.firstTime >= t - Window
      BY <1>4, <2>2
    <3>3. PICK k \in 0..(MaxAttempts - 1) :
              /\ k + 1 \in 1..L /\ q[k + 1] = r.firstTime
              /\ L - k <= r.count
      BY <1>1, <2>2, <3>2 DEF WindowOf, L
    <3>4. k + 1 \in DOMAIN p /\ p[k + 1] = s.firstTime
      BY <1>1, <1>2, <1>3, <3>1, <3>3
    <3>5. (L + 1) - k <= s.count /\ (L + 1) - k <= MaxAttempts
      BY <1>1, <1>4, <3>1, <3>3
    <3>6. QED
      BY <1>2, <3>4, <3>5
  <2>3. QED
    BY <1>4, <2>1, <2>2
<1>9. ~(s.firstTime < t - Window)
  BY <1>4, <1>7
<1>10. WindowOf(p, s, t)
  BY <1>3, <1>5, <1>6, <1>8, <1>9 DEF WindowOf
<1>11. QED
  BY <1>10 DEF p

\* A record that is only blocked, or counts a refused attempt.
LEMMA WindowRefuse ==
    ASSUME NEW q \in Seq(Nat), NEW r \in Records, NEW t \in Nat, WindowOf(q, r, t),
           NEW s \in Records, s.known <=> r.known, s.firstTime = r.firstTime,
           s.lastTime >= r.lastTime, s.count >= r.count
    PROVE  WindowOf(q, s, t)
<1>1. /\ Len(q) \in Nat /\ r.count \in Nat /\ s.count \in Nat
      /\ r.lastTime \in Nat /\ s.lastTime \in Nat
  BY LenProperties DEF Records
<1>2. ASSUME NEW i \in DOMAIN q PROVE q[i] <= s.lastTime
  <2>1. q[i] \in Nat /\ q[i] <= r.lastTime
    BY LenProperties, ElementOfSeq DEF WindowOf
  <2>2. QED
    BY <1>1, <2>1
<1>3. ASSUME NEW k \in 0..(MaxAttempts - 1), Len(q) - k <= r.count
      PROVE  Len(q) - k <= s.count
  BY <1>1, <1>3, AuthAssumption
<1>4. QED
  BY <1>2, <1>3 DEF WindowOf

\* A set of numbers that holds with i every number below i is an interval.
LEMMA DownSet ==
    ASSUME NEW n \in Nat, NEW S \in SUBSET (1..n),
           \A i \in S, j \in 1..n : j <= i => j \in S
    PROVE  Cardinality(S) \in 0..n /\ S = 1..Cardinality(S)
<1> DEFINE c == Cardinality(S)
<1>1. \A m \in Nat : IsFiniteSet(1..m) /\ Cardinality(1..m) = m
  <2>1. ASSUME NEW m \in Nat PROVE IsFiniteSet(1..m) /\ Cardinality(1..m) = m
    BY FS_Interval
  <2>2. QED
    BY <2>1
<1>2. IsFiniteSet(S) /\ c \in Nat /\ c <= n
  <2>1. IsFiniteSet(S) /\ c <= Cardinality(1..n)
    BY <1>1, FS_Subset, Zenon
  <2>2. QED
    BY <1>1, <2>1, FS_CardinalityType
<1>3. ASSUME NEW i \in S PROVE i <= c
  <2>1. 1..i \subseteq S /\ i \in Nat
    BY <1>3
  <2>2. Cardinality(1..i) <= c
    BY <1>2, <2>1, FS_Subset
  <2>3. QED
    BY <1>1, <2>1, <2>2
<1>4. S \subseteq 1..c
  BY <1>2, <1>3
<1>5. S = 1..c
  BY <1>1, <1>2, <1>4, FS_Subset, Zenon
<1>6. QED
  BY <1>2, <1>5

\* The elements behind the first n.
LEMMA SuffixOf ==
    ASSUME NEW S, NEW s \in Seq(S), NEW n \in 0..Len(s)
    PROVE  /\ SubSeq(s, n + 1, Len(s)) \in Seq(S)
           /\ Len(SubSeq(s, n + 1, Len(s))) = Len(s) - n
           /\ \A i \in 1..(Len(s) - n) : SubSeq(s, n + 1, Len(s))[i] = s[n + i]
<1>1. Len(s) \in Nat /\ n \in Nat
      /\ \A i \in (n + 1)..Len(s) : i \in 1..Len(s) /\ s[i] \in S
  BY LenProperties, ElementOfSeq
<1>2. QED
  BY <1>1, SubSeqProperties

\* Time passes: what leaves the window is a prefix.  The attempt that began the
\* record's count leaves it together with all that are older.
LEMMA WindowTick ==
    ASSUME NEW q \in Seq(Nat), NEW r \in Records, NEW t \in Nat, WindowOf(q, r, t),
           NEW past, past = {i \in DOMAIN q : q[i] < t + 1 - Window}
    PROVE  /\ SubSeq(q, Cardinality(past) + 1, Len(q)) \in Seq(Nat)
           /\ WindowOf(SubSeq(q, Cardinality(past) + 1, Len(q)), r, t + 1)
<1> DEFINE L == Len(q)
           n == Cardinality(past)
           p == SubSeq(q, n + 1, L)
<1>1. L \in Nat /\ DOMAIN q = 1..L /\ \A i \in 1..L : q[i] \in Nat
  BY LenProperties, ElementOfSeq
<1>2. /\ MaxAttempts \in Nat \ {0} /\ Window \in Nat
      /\ r.firstTime \in Nat /\ r.lastTime \in Nat /\ r.count \in Nat
  BY AuthAssumption DEF Records
<1>3. /\ \A i, j \in 1..L : i <= j => q[i] <= q[j]
      /\ \A i \in 1..L : t - Window <= q[i] /\ q[i] <= r.lastTime
  BY <1>1, Zenon DEF WindowOf
<1>4. n \in 0..L /\ past = 1..n
  <2>1. past \in SUBSET (1..L)
    BY <1>1
  <2>2. ASSUME NEW i \in past, NEW j \in 1..L, j <= i PROVE j \in past
    <3>1. i \in 1..L /\ q[i] < t + 1 - Window /\ q[i] \in Nat /\ q[j] \in Nat
      BY <1>1
    <3>2. q[j] <= q[i]
      BY <1>3, <2>2, <3>1
    <3>3. q[j] < t + 1 - Window
      BY <1>2, <3>1, <3>2
    <3>4. QED
      BY <1>1, <3>3
  <2>3. QED
    BY <1>1, <2>1, <2>2, DownSet, Zenon
<1>5. \A i \in 1..L : i <= n <=> q[i] < t + 1 - Window
  <2>1. \A i \in 1..L : i \in past <=> q[i] < t + 1 - Window
    BY <1>1
  <2>2. \A i \in 1..L : i \in past <=> i <= n
    BY <1>4
  <2>3. QED
    BY <2>1, <2>2
<1>6. /\ p \in Seq(Nat) /\ Len(p) = L - n
      /\ \A i \in 1..(L - n) : p[i] = q[n + i]
  BY <1>4, SuffixOf, Zenon
<1>7. DOMAIN p = 1..(L - n)
  BY <1>6, LenProperties
<1> HIDE DEF L, n, p
<1>8. ASSUME NEW i \in 1..(L - n)
      PROVE  n + i \in 1..L /\ n + i > n
  BY <1>1, <1>4
<1>9. ASSUME NEW i \in 1..(L - n)
      PROVE  t + 1 - Window <= p[i] /\ p[i] <= r.lastTime
  <2>1. p[i] = q[n + i] /\ q[n + i] \in Nat /\ ~(q[n + i] < t + 1 - Window)
    BY <1>1, <1>4, <1>5, <1>6, <1>8
  <2>2. p[i] <= r.lastTime
    BY <1>3, <1>8, <2>1
  <2>3. QED
    BY <1>2, <2>1, <2>2
<1>10. ASSUME NEW i \in 1..(L - n), NEW j \in 1..(L - n), i <= j
       PROVE  p[i] <= p[j]
  <2>1. n + i \in 1..L /\ n + j \in 1..L /\ n + i <= n + j
    BY <1>1, <1>4, <1>8, <1>10
  <2>2. QED
    BY <1>3, <1>6, <2>1
<1>11. ~r.known => p = <<>>
  <2>1. ASSUME ~r.known PROVE Len(p) = 0
    <3>1. L = 0
      BY <2>1, EmptySeq DEF WindowOf, L
    <3>2. n = 0
      BY <1>4, <3>1
    <3>3. QED
      BY <1>6, <3>1, <3>2
  <2>2. QED
    BY <1>6, <2>1, EmptySeq
<1>12. ASSUME r.known, r.firstTime >= t + 1 - Window
       PROVE  \E k \in 0..(MaxAttempts - 1) :
                  /\ k + 1 \in DOMAIN p /\ p[k + 1] = r.firstTime
                  /\ Len(p) - k <= r.count /\ Len(p) - k <= MaxAttempts
  <2>1. r.firstTime >= t - Window
    BY <1>2, <1>12
  <2>2. PICK k \in 0..(MaxAttempts - 1) :
            /\ k + 1 \in 1..L /\ q[k + 1] = r.firstTime
            /\ L - k <= r.count /\ L - k <= MaxAttempts
    BY <1>1, <1>12, <2>1 DEF WindowOf, L
  <2>3. ~(k + 1 <= n)
    BY <1>2, <1>5, <1>12, <2>2
  <2>4. /\ k - n \in 0..(MaxAttempts - 1) /\ (k - n) + 1 \in 1..(L - n)
        /\ n + ((k - n) + 1) = k + 1 /\ (L - n) - (k - n) = L - k
    BY <1>1, <1>2, <1>4, <2>2, <2>3
  <2>5. p[(k - n) + 1] = r.firstTime
    BY <1>6, <2>2, <2>4
  <2>6. QED
    BY <1>6, <1>7, <2>2, <2>4, <2>5
<1>13. ASSUME r.known, r.firstTime < t + 1 - Window
       PROVE  Len(p) <= MaxAttempts - 1
  <2>1. CASE r.firstTime < t - Window
    <3>1. L <= MaxAttempts - 1
      BY <1>13, <2>1 DEF WindowOf, L
    <3>2. QED
      BY <1>1, <1>2, <1>4, <1>6, <3>1
  <2>2. CASE r.firstTime >= t - Window
    <3>1. PICK k \in 0..(MaxAttempts - 1) :
              /\ k + 1 \in 1..L /\ q[k + 1] = r.firstTime
              /\ L - k <= MaxAttempts
      BY <1>1, <1>13, <2>2 DEF WindowOf, L
    <3>2. k + 1 <= n
      BY <1>5, <1>13, <3>1
    <3>3. QED
      BY <1>1, <1>2, <1>4, <1>6, <3>1, <3>2
  <2>3. QED
    BY <1>2, <2>1, <2>2
<1>14. WindowOf(p, r, t + 1)
  <2> DEFINE u == t + 1
  <2>0. u - Window = t + 1 - Window
    BY <1>2
  <2> HIDE DEF u
  <2>1. \A i, j \in DOMAIN p : i <= j => p[i] <= p[j]
    BY <1>7, <1>10
  <2>2. \A i \in DOMAIN p : u - Window <= p[i] /\ p[i] <= r.lastTime
    BY <1>7, <1>9, <2>0
  <2>3. r.known /\ r.firstTime >= u - Window =>
            \E k \in 0..(MaxAttempts - 1) :
                /\ k + 1 \in DOMAIN p /\ p[k + 1] = r.firstTime
                /\ Len(p) - k <= r.count /\ Len(p) - k <= MaxAttempts
    BY <1>12, <2>0
  <2>4. r.known /\ r.firstTime < u - Window => Len(p) <= MaxAttempts - 1
    BY <1>13, <2>0
  <2>5. WindowOf(p, r, u)
    BY <1>11, <2>1, <2>2, <2>3, <2>4 DEF WindowOf
  <2>6. QED
    BY <2>5 DEF u
<1>15. QED
  BY <1>6, <1>14 DEF p, n, L

\* What a step of a connection does to the attempts and the record of its host.
LEMMA OwnWindow ==
    ASSUME TypeOK, recent \in [Hosts -> Seq(Nat)], NEW c \in Clients, Step(c)
    PROVE  LET r == attempts[c[1]]
               q == recent[c[1]]
           IN  /\ recent' \in [Hosts -> Seq(Nat)]
               /\ \A h \in Hosts \ {c[1]} : recent'[h] = recent[h]
               /\ \/ recent'[c[1]] = q /\ attempts'[c[1]] = r
                  \/ /\ recent'[c[1]] = q
                     /\ \/ attempts'[c[1]] = Blocked(Counted(r), 2 * Window)
                        \/ attempts'[c[1]] = Blocked(r, 3 * Window)
                  \/ /\ recent'[c[1]] = Append(q, now)
                     /\ \/ Restarts(r) /\ attempts'[c[1]] = Restarted(r)
                        \/ /\ ~Restarts(r) /\ ~InForce(r) /\ r.count + 1 <= MaxAttempts
                           /\ attempts'[c[1]] = Counted(r)
                  \/ recent'[c[1]] = <<>> /\ attempts'[c[1]] = NoRecord
<1>a. c[1] \in Hosts /\ now \in Nat /\ attempts \in [Hosts -> Records]
  BY DEF Clients, TypeOK
<1>b. attempts[c[1]] \in Records /\ attempts[c[1]].count \in Nat /\ MaxAttempts \in Nat
  BY <1>a, AuthAssumption DEF Records
<1>c. Append(recent[c[1]], now) \in Seq(Nat) /\ <<>> \in Seq(Nat)
  BY <1>a
<1>1. CASE AllowFresh(c)
  BY <1>1, <1>a, <1>c DEF AllowFresh, Grant
<1>2. CASE AllowBlocked(c)
  BY <1>2, <1>a DEF AllowBlocked, Refuse
<1>3. CASE AllowCounted(c)
  <2>1. CASE attempts[c[1]].count + 1 > MaxAttempts
    BY <1>3, <1>a, <2>1 DEF AllowCounted, AllowCountingTo, Refuse
  <2>2. CASE ~(attempts[c[1]].count + 1 > MaxAttempts)
    <3>1. attempts[c[1]].count + 1 <= MaxAttempts
      BY <1>b, <2>2
    <3>2. QED
      BY <1>3, <1>a, <1>c, <2>2, <3>1, Zenon DEF AllowCounted, AllowCountingTo, Grant
  <2>3. QED
    BY <2>1, <2>2
<1>4. CASE RecordFailure(c)
  BY <1>4, <1>a DEF RecordFailure
<1>5. CASE Reset(c)
  BY <1>5, <1>a, <1>c DEF Reset
<1>6. CASE CheckSession(c) \/ Verify(c) \/ StoreSession(c) \/ RemoveSession(c)
  BY <1>6 DEF CheckSession, Verify, StoreSession, RemoveSession, LeaveWith
<1>7. QED
  BY <1>1, <1>2, <1>3, <1>4, <1>5, <1>6, Zenon DEF Step

\* Every step keeps what is known of the attempts of each host.
LEMMA StepAttempts == BlockInv /\ AttemptsInv /\ [Next]_vars => AttemptsInv'
<1> SUFFICES ASSUME BlockInv, AttemptsInv, [Next]_vars PROVE AttemptsInv'
  OBVIOUS
<1>1. /\ TypeOK /\ TypeOK' /\ now \in Nat /\ recent \in [Hosts -> Seq(Nat)]
      /\ \A h \in Hosts : /\ attempts[h] \in Records /\ attempts'[h] \in Records
                          /\ attempts[h].lastTime <= now
                          /\ recent[h] \in Seq(Nat)
                          /\ WindowOf(recent[h], attempts[h], now)
  <2>1. TypeOK /\ TypeOK'
    BY StepType DEF BlockInv
  <2>2. QED
    BY <2>1 DEF TypeOK, BlockInv, RecordInv, AttemptsInv
<1>e. \A r, t : ~r.known => WindowOf(<<>>, r, t)
  BY DEF WindowOf
<1>2. CASE Cleanup
  <2>1. now' = now /\ recent' = recent
    BY <1>2 DEF Cleanup, CleanupAfter
  <2>2. ASSUME NEW h \in Hosts PROVE WindowOf(recent[h], attempts'[h], now)
    <3>1. CASE attempts'[h] = attempts[h]
      BY <1>1, <3>1
    <3>2. CASE now - attempts[h].lastTime > 10 * Window /\ attempts'[h] = NoRecord
      <4>1. attempts[h].lastTime \in Nat /\ Window \in Nat
        BY <1>1, AuthAssumption DEF Records
      <4>2. recent[h] = <<>>
        <5>1. SUFFICES ASSUME recent[h] # <<>> PROVE FALSE
          OBVIOUS
        <5>2. 1 \in 1..Len(recent[h]) /\ 1 \in DOMAIN recent[h]
          BY <1>1, <5>1, EmptySeq, LenProperties
        <5>3. recent[h][1] \in Nat /\ now - Window <= recent[h][1]
              /\ recent[h][1] <= attempts[h].lastTime
          BY <1>1, <5>2, ElementOfSeq DEF WindowOf
        <5>4. QED
          BY <1>1, <3>2, <4>1, <5>3
      <4>3. ~attempts'[h].known
        BY <3>2 DEF NoRecord
      <4>4. QED
        BY <1>e, <4>2, <4>3
    <3>3. QED
      BY <1>2, <3>1, <3>2 DEF Cleanup, CleanupAfter
  <2>3. QED
    BY <1>1, <2>1, <2>2 DEF AttemptsInv
<1>3. CASE Tick
  <2>1. now' = now + 1 /\ attempts' = attempts
    BY <1>3 DEF Tick
  <2>2. ASSUME NEW h \in Hosts
        PROVE  recent'[h] \in Seq(Nat) /\ WindowOf(recent'[h], attempts[h], now + 1)
    <3> DEFINE past == {i \in DOMAIN recent[h] : recent[h][i] < now + 1 - Window}
    <3>1. recent'[h] = SubSeq(recent[h], Cardinality(past) + 1, Len(recent[h]))
      BY <1>3, Zenon DEF Tick
    <3> HIDE DEF past
    <3>2. past = {i \in DOMAIN recent[h] : recent[h][i] < now + 1 - Window}
      BY DEF past
    <3>3. QED
      BY <1>1, <3>1, <3>2, WindowTick, Zenon
  <2>3. recent' \in [Hosts -> Seq(Nat)]
    <3>1. recent' = [h \in Hosts |-> recent'[h]]
      BY <1>3, Zenon DEF Tick
    <3>2. QED
      BY <2>2, <3>1
  <2>4. QED
    BY <2>1, <2>2, <2>3 DEF AttemptsInv
<1>4. ASSUME NEW c \in Clients, Step(c) PROVE AttemptsInv'
  <2> DEFINE r == attempts[c[1]]
             q == recent[c[1]]
  <2>1. c[1] \in Hosts /\ now' = now
    BY <1>1, <1>4, OwnCall DEF Clients
  <2>2. /\ recent' \in [Hosts -> Seq(Nat)]
        /\ \A h \in Hosts \ {c[1]} : recent'[h] = recent[h] /\ attempts'[h] = attempts[h]
    BY <1>1, <1>4, OwnWindow, OwnRecord
  <2>3. /\ r \in Records /\ r' \in Records /\ q \in Seq(Nat) /\ WindowOf(q, r, now)
        /\ r.lastTime <= now /\ r.lastTime \in Nat /\ r.firstTime \in Nat /\ r.count \in Nat
    BY <1>1, <2>1 DEF Records
  <2>4. Counted(r) \in Records /\ Counted(r).count = r.count + 1
    BY <1>1, <2>3, RecordTypes, Zenon DEF Counted, Records
  <2>5. WindowOf(q', r', now)
    <3>1. CASE q' = q /\ r' = r
      BY <2>3, <3>1
    <3>2. CASE q' = q /\ r' = Blocked(Counted(r), 2 * Window)
      <4>1. /\ r'.known <=> r.known
            /\ r'.firstTime = r.firstTime /\ r'.lastTime = now /\ r'.count = r.count + 1
        BY <2>3, <2>4, <3>2, RecordFields DEF Blocked, Records
      <4>2. r'.lastTime >= r.lastTime /\ r'.count >= r.count
        BY <1>1, <2>3, <4>1
      <4>3. QED
        BY <1>1, <2>3, <3>2, <4>1, <4>2, WindowRefuse, Zenon
    <3>3. CASE q' = q /\ r' = Blocked(r, 3 * Window)
      <4>1. /\ r'.known <=> r.known
            /\ r'.firstTime = r.firstTime /\ r'.lastTime = r.lastTime /\ r'.count = r.count
        BY <2>3, <3>3, RecordFields DEF Blocked, Records
      <4>2. r'.lastTime >= r.lastTime /\ r'.count >= r.count
        BY <2>3, <4>1
      <4>3. QED
        BY <1>1, <2>3, <3>3, <4>1, <4>2, WindowRefuse, Zenon
    <3>4. CASE q' = Append(q, now) /\ Restarts(r) /\ r' = Restarted(r)
      <4>1. r'.known /\ r'.firstTime = now /\ r'.lastTime = now /\ r'.count = 1
        BY <2>3, <3>4, RecordFields DEF Restarted, Records
      <4>2. ~r.known \/ now - r.firstTime > Window
        BY <3>4 DEF Restarts
      <4>3. QED
        BY <1>1, <2>3, <3>4, <4>1, <4>2, WindowGrant
    <3>5. CASE /\ q' = Append(q, now) /\ ~Restarts(r) /\ ~InForce(r)
               /\ r.count + 1 <= MaxAttempts /\ r' = Counted(r)
      <4>1. r.known /\ now - r.firstTime <= Window
        <5>1. r.known /\ ~(now - r.firstTime > Window)
          BY <3>5, Zenon DEF Restarts
        <5>2. now \in Nat /\ Window \in Nat /\ r.firstTime \in Nat
          BY <1>1, <2>3, AuthAssumption
        <5>3. QED
          BY <5>1, <5>2
      <4>2. /\ r'.known /\ r'.firstTime = r.firstTime /\ r'.lastTime = now
            /\ r'.count = r.count + 1 /\ r'.count <= MaxAttempts
        <5>1. Counted(r).known /\ Counted(r).firstTime = r.firstTime /\ Counted(r).lastTime = now
          BY <2>3, <4>1, RecordFields, Zenon
        <5>2. QED
          BY <2>4, <3>5, <5>1
      <4>3. QED
        BY <1>1, <2>3, <3>5, <4>1, <4>2, WindowGrant, Zenon
    <3>6. CASE q' = <<>> /\ r' = NoRecord
      BY <1>e, <3>6 DEF NoRecord
    <3>7. QED
      BY <1>1, <1>4, <3>1, <3>2, <3>3, <3>4, <3>5, <3>6, OwnWindow
  <2>6. QED
    BY <1>1, <2>1, <2>2, <2>5, Zenon DEF AttemptsInv
<1>5. CASE UNCHANGED vars
  BY <1>5 DEF vars, AttemptsInv, WindowOf
<1>6. QED
  BY <1>2, <1>3, <1>4, <1>5 DEF Next

\* Allow of internal/auth/ratelimiter.go lets a host try at most 2 * MaxAttempts - 1
\* times in a window between two of its logins, for every MaxAttempts: the last
\* MaxAttempts - 1 attempts of one record may be followed within a window by
\* MaxAttempts of the next, and no more.
THEOREM AttemptsBoundedCorrect == Spec => []AttemptsBounded
<1>1. Init => AttemptsInv
  BY DEF Init, AttemptsInv, WindowOf, NoRecord
<1>2. BlockInv /\ AttemptsInv => AttemptsBounded
  <2> SUFFICES ASSUME BlockInv, AttemptsInv, NEW h \in Hosts
               PROVE  Len(recent[h]) <= 2 * MaxAttempts - 1
    BY DEF AttemptsBounded
  <2>1. /\ recent[h] \in Seq(Nat) /\ attempts[h] \in Records /\ now \in Nat
        /\ WindowOf(recent[h], attempts[h], now)
    BY DEF BlockInv, TypeOK, AttemptsInv
  <2>2. QED
    BY <2>1, WindowBound
<1>3. QED
  BY <1>1, <1>2, InitBlockInv, StepBlockInv, StepAttempts, PTL DEF Spec
==============================================================================
