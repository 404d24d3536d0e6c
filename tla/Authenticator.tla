---------------------------- MODULE Authenticator ----------------------------
(***************************************************************************)
(* Authentication (internal/auth/auth.go) and its per-IP rate limiter      *)
(* (internal/auth/ratelimiter.go).  Connections from several ports of a    *)
(* host authenticate concurrently: each call of Authenticate is a sequence *)
(* of separately locked operations on the limiter and the session table,   *)
(* and the clock moves between them.                                       *)
(*                                                                         *)
(* Abstracted: the credentials (a request is malformed, wrong or right by  *)
(* choice).  Assumed: a call of Authenticate takes at most CallTime.       *)
(***************************************************************************)
EXTENDS Integers, Sequences, FiniteSets

CONSTANTS Hosts,        \* client IP addresses, the limiter's keys
          Ports,        \* client ports
          MaxAttempts,  \* rl.maxAttempts
          Window,       \* rl.window
          CallTime,     \* the longest a call of Authenticate lasts
          MaxTime       \* bound: the clock stops here

ASSUME AuthAssumption ==
    /\ MaxAttempts \in Nat \ {0}
    /\ Window \in Nat \ {0}
    /\ CallTime \in Nat
    /\ CallTime <= 7 * Window
    /\ MaxTime \in Nat

\* clientAddr: what net.SplitHostPort takes apart.
Clients == Hosts \X Ports

VARIABLES
    now,       \* the clock
    attempts,  \* rl.attempts
    sessions,  \* a.sessions: the clients that have one
    pc,        \* where each client's connection is
    started,   \* when its call of Authenticate began
    recent     \* ghost: when the limiter let the host try since its last login,
               \* in the last Window

vars == <<now, attempts, sessions, pc, started, recent>>

\* attemptRecord; known is FALSE where the map has no entry.
NoRecord == [known |-> FALSE, count |-> 0, firstTime |-> 0, lastTime |-> 0,
             blocked |-> FALSE, blockUntil |-> 0]

\* Changes to a record: a new count begins, an attempt is counted, the host is
\* blocked.
Restarted(r) == [r EXCEPT !.known = TRUE, !.count = 1, !.firstTime = now,
                          !.lastTime = now, !.blocked = FALSE]
Counted(r) == [r EXCEPT !.count = @ + 1, !.lastTime = now]
Blocked(r, penalty) == [r EXCEPT !.blocked = TRUE, !.blockUntil = now + penalty]

Init ==
    /\ now = 0
    /\ attempts = [h \in Hosts |-> NoRecord]
    /\ sessions = {}
    /\ pc = [c \in Clients |-> "idle"]
    /\ started = [c \in Clients |-> 0]
    /\ recent = [h \in Hosts |-> <<>>]

Goto(c, label) == pc' = [pc EXCEPT ![c] = label] /\ UNCHANGED started

\* The call of Authenticate returns.
Return(c, label) == pc' = [pc EXCEPT ![c] = label] /\ started' = [started EXCEPT ![c] = 0]

\* A block in force.
InForce(r) == r.blocked /\ now < r.blockUntil

------------------------------------------------------------------------------
(* RateLimiter.Allow                                                       *)

Grant(c, r) ==
    /\ attempts' = [attempts EXCEPT ![c[1]] = r]
    /\ recent' = [recent EXCEPT ![c[1]] = Append(@, now)]
    /\ pc' = [pc EXCEPT ![c] = "session"]
    /\ started' = [started EXCEPT ![c] = now]
    /\ UNCHANGED <<now, sessions>>

Refuse(c, r) ==
    /\ attempts' = [attempts EXCEPT ![c[1]] = r]
    /\ Return(c, "refused")
    /\ UNCHANGED <<now, sessions, recent>>

\* First attempt of the host, or first one outside the window of its record.
Restarts(r) == ~r.known \/ (~InForce(r) /\ now - r.firstTime > Window)

AllowFresh(c) ==
    /\ pc[c] = "idle"
    /\ Restarts(attempts[c[1]])
    /\ Grant(c, Restarted(attempts[c[1]]))

AllowBlocked(c) ==
    /\ pc[c] = "idle"
    /\ InForce(attempts[c[1]])
    /\ Refuse(c, attempts[c[1]])

AllowCountingTo(c, max) ==
    /\ pc[c] = "idle"
    /\ ~Restarts(attempts[c[1]]) /\ ~InForce(attempts[c[1]])
    /\ IF attempts[c[1]].count + 1 > max
       THEN Refuse(c, Blocked(Counted(attempts[c[1]]), 2 * Window))
       ELSE Grant(c, Counted(attempts[c[1]]))

\* Mutant of AllowCounted: an attempt too many.
AllowOneMore(c) == AllowCountingTo(c, MaxAttempts + 1)

\* Another attempt within the window: one too many blocks the host.
AllowCounted(c) == AllowCountingTo(c, MaxAttempts)

------------------------------------------------------------------------------
(* The rest of Authenticate                                                *)

\* if session, exists := a.sessions[clientAddr]; exists && session.Authenticated
CheckSession(c) ==
    /\ pc[c] = "session"
    /\ IF c \in sessions THEN Return(c, "refused") ELSE Goto(c, "verify")
    /\ UNCHANGED <<now, attempts, sessions, recent>>

\* The payload does not parse, or the credentials are wrong or right.
Verify(c) ==
    /\ pc[c] = "verify"
    /\ Return(c, "refused") \/ Goto(c, "failure") \/ Goto(c, "store")
    /\ UNCHANGED <<now, attempts, sessions, recent>>

\* a.rateLimiter.RecordFailure(ipKey), on the record the host has by now.
RecordFailure(c) ==
    /\ pc[c] = "failure"
    /\ attempts' = IF attempts[c[1]].known /\ attempts[c[1]].count >= MaxAttempts
                   THEN [attempts EXCEPT ![c[1]] = Blocked(@, 3 * Window)]
                   ELSE attempts
    /\ Return(c, "refused")
    /\ UNCHANGED <<now, sessions, recent>>

\* a.sessions[clientAddr] = session
StoreSession(c) ==
    /\ pc[c] = "store"
    /\ sessions' = sessions \cup {c}
    /\ Goto(c, "reset")
    /\ UNCHANGED <<now, attempts, recent>>

\* a.rateLimiter.Reset(ipKey): a login gives the host a clean record, and recent
\* starts again with it.
Reset(c) ==
    /\ pc[c] = "reset"
    /\ attempts' = [attempts EXCEPT ![c[1]] = NoRecord]
    /\ recent' = [recent EXCEPT ![c[1]] = <<>>]
    /\ Return(c, "open")
    /\ UNCHANGED <<now, sessions>>

LeaveWith(c, s) ==
    /\ pc[c] \in {"refused", "open"}
    /\ sessions' = s
    /\ Goto(c, "idle")
    /\ UNCHANGED <<now, attempts, recent>>

\* Mutant of RemoveSession: the session outlives the connection.
KeepSession(c) == LeaveWith(c, sessions)

\* The connection ends: unregisterConnection removes the session, if any.
RemoveSession(c) == LeaveWith(c, sessions \ {c})

------------------------------------------------------------------------------
(* cleanup and the clock                                                   *)

CleanupAfter(age) ==
    /\ attempts' = [h \in Hosts |-> IF now - attempts[h].lastTime > age THEN NoRecord
                                    ELSE attempts[h]]
    /\ UNCHANGED <<now, sessions, pc, started, recent>>

\* Mutant of Cleanup: entries go after twice the window.
CleanupEarly == CleanupAfter(2 * Window)

\* Entries whose last counted attempt is older than ten windows are removed.
Cleanup == CleanupAfter(10 * Window)

\* Inside Authenticate, past Allow.
Calling(c) == pc[c] \in {"session", "verify", "failure", "store", "reset"}

\* Time passes; a running call does not exceed CallTime.
Tick ==
    /\ now < MaxTime
    /\ \A c \in Clients : Calling(c) => now < started[c] + CallTime
    /\ now' = now + 1
    /\ recent' = [h \in Hosts |->
                    LET past == {i \in DOMAIN recent[h] : recent[h][i] < now + 1 - Window}
                    IN  SubSeq(recent[h], Cardinality(past) + 1, Len(recent[h]))]
    /\ UNCHANGED <<attempts, sessions, pc, started>>

Step(c) ==
    \/ AllowFresh(c) \/ AllowBlocked(c) \/ AllowCounted(c)
    \/ CheckSession(c) \/ Verify(c) \/ RecordFailure(c)
    \/ StoreSession(c) \/ Reset(c) \/ RemoveSession(c)

Next == Cleanup \/ Tick \/ \E c \in Clients : Step(c)

Spec == Init /\ [][Next]_vars

------------------------------------------------------------------------------
(* Properties                                                              *)

Records == [known : BOOLEAN, count : Nat, firstTime : Nat, lastTime : Nat,
            blocked : BOOLEAN, blockUntil : Nat]
Labels == {"idle", "session", "verify", "failure", "store", "reset", "open", "refused"}

TypeOK ==
    /\ now \in Nat
    /\ attempts \in [Hosts -> Records]
    /\ sessions \subseteq Clients
    /\ pc \in [Clients -> Labels]
    /\ started \in [Clients -> Nat]

\* Once a block has run out the host's window has run out too, so its next
\* attempt starts afresh: Allow never extends a block that has just expired.
BlockOutlivesWindow ==
    \A h \in Hosts :
        attempts[h].blocked /\ ~InForce(attempts[h]) => now - attempts[h].firstTime > Window

\* Between two logins of a host, the limiter lets it try at most
\* 2 * MaxAttempts - 1 times in any span of one window, also when the record's
\* window ends within it, when calls are under way and when failures are
\* recorded late.  (A login starts the count again, by Reset: how often hosts
\* that do log in may try has no bound.)
AttemptsBounded == \A h \in Hosts : Len(recent[h]) <= 2 * MaxAttempts - 1

\* A session belongs to a connection that has authenticated and not ended.
SessionsLive == sessions = {c \in Clients : pc[c] \in {"reset", "open"}}

\* A block in force is neither shortened nor lifted, by cleanup, by a recorded
\* failure or by another attempt; only a successful login of the host lifts it.
BlocksHold ==
    [][\A h \in Hosts :
         InForce(attempts[h]) =>
            \/ attempts'[h].blocked /\ attempts'[h].blockUntil >= attempts[h].blockUntil
            \/ \E p \in Ports : pc[<<h, p>>] = "reset" /\ pc'[<<h, p>>] = "open"]_vars
==============================================================================
