# Tick-Storm: TLA+ specifications and proofs

Tick-Storm is a TCP server that streams market ticks to authenticated clients in
CRC-protected binary frames. These modules model the parts of it in which several
goroutines, timers or peers meet, check them with TLC on small instances, and
prove with TLAPS what matters most for every value of the constants.

Paths below are relative to the repository (`internal/server/...` and so on).
`PROJECT.json` lists components, runs, mutants, the map from definitions to source
lines, findings, hazards and theorems in machine-readable form.

## The system and its parts

    listener -> accept loop -> IP filter -> DDoS protection -> breach handler
             -> connection limit -> goroutine pool (or a goroutine beside it)
             -> handleConnection: handshake, AUTH, Handle
                  Handle: frame reader, heartbeat timers, subscription
                  deliveryLoop + batch timers: ticks -> batches
                  writeLoop: bounded queue -> socket

| part | source | modules | state of the model |
|---|---|---|---|
| connection write path | `internal/server/connection.go` | `WriteQueue`, `FrameStream`, `WriteQueueProofs` | modelled, proofs |
| data generation and delivery | `handler.go`, `delivery_loop.go` | `Delivery`, `DeliveryProofs` | modelled, proofs |
| authentication, rate limiter | `internal/auth/` | `Authenticator`, `MCAuthenticator`, `AuthenticatorProofs` | modelled, proofs |
| session and heartbeat | `server.go`, `handler.go`, `connection.go` | `Session`, `Validation`, `MCSession`, `SessionProofs` | modelled, proofs |
| goroutine pool | `goroutine_pool.go` | `GoroutinePool`, `TaskPool`, `GoroutinePoolProofs` | modelled, proofs |
| start, accept loop, Stop, Shutdown | `server.go` | `Server` (composes `TaskPool`, `Config`, `Health`), `MCServer`, `ServerProofs` | modelled, proofs |
| configuration | `server.go`, `tls.go` | `Config` | modelled, proofs |
| health checks | `health.go` | `Health` | modelled, proofs |
| IP filter | `ipfilter.go` | `IPFilter` | modelled, proofs |
| DDoS protection | `ddos_protection.go` | `DDoSProtection` | modelled, proofs |
| resource breach handler | `resource_breach_handler.go` | `ResourceBreach` | modelled, proofs |
| the three above in the accept loop | `server.go` | `Admission`, `MCAdmission`, `AdmissionProofs` | modelled, proofs |
| message validation | `internal/protocol/validation.go` | `Validation` | partly |
| frame codec | `internal/protocol/frame.go`, `helpers.go` | `FrameCodec`, `MCFrameCodec`, `FrameCodecProofs` | partly, proofs |
| protocol versions | `internal/protocol/version.go`, `version_handler.go` | `FrameCodec` (`ValidateVersion`) | partly |
| resource monitor, constraints | `resource_monitor.go`, `resource_constraints.go` | `ResourceBreach` (what the monitor can report) | partly |
| TLS | `tls.go`, `tls_metrics.go` | `Config`, `Session` | partly |
| commands | `cmd/` | `Server` (what `main` does) | partly |
| network monitor, auto scaling and instances, object pools, metrics, wire messages | | | not modelled, see below |

## How the modules correspond to the code

**WriteQueue.** Every atomic load, add, channel operation and socket write of
`WriteFrameAsync`, `WriteFrameSync`, `writeLoop` and `Close` is an action; `pc`
says where each sender is, `loop` where `writeLoop` is, `closer` where each caller
of `Close` is. A frame is the call that sent it. Whether a deadline has passed, a
timer has fired or a socket write fails is a choice. A send on the closed channel
is the outcome `panicked`; outside the pool's workers nothing recovers it and the
process ends (`Crashed`). `FrameStream` is what a user of the connection relies on
(frames leave in order, at most once, none after a failed write or on a closed
socket), and `ImplementsFrameStream` maps the channel and the item in
`writeLoop`'s hand to its pending frames.

**Delivery.** `h.pendingBatch` is shared by `deliveryLoop` and by the goroutines
that `time.AfterFunc` starts, without a lock, so reading its length, storing an
element, marshalling and clearing are separate steps on an array and a length. The
ghost `prompt` chooses once whether goroutines finish what they do before the next
tick or timer; properties that need this say so.

**Authenticator.** `Authenticate` from the limiter's `Allow` to the session table,
with the steps between which the locks are released, plus `RemoveSession`,
`cleanup` and a clock. Credentials are a choice.

**Session.** One connection from accept to its end. Timers count down; time passes
only when the connection's goroutine waits for the client or is gone and no
`AfterFunc` is due, so the model says nothing about a starved goroutine. `Close` is
one step here (its steps are in `WriteQueue`), and a send may be refused at any
time because the queue is full. A subscription is checked by `Validation`, field by
field; texts are kept as their lengths, and a reply as its code. Registering and
looking at the server's context are two steps, and so are the two halves of
`closeAllConnections`, which lists the connections under the lock and closes them
after it (`server`, `listed`).

**GoroutinePool, TaskPool.** Workers are counted by what they do (`idle`, `taken`,
`running`, `leaving`), since they are interchangeable. `Submit`, the manager and
`Stop` take their steps between atomics and channel operations separately.
`TaskPool` is what the rest of the server relies on: a submission is queued or
refused, a queued task runs at most once, and no more run than there can be workers.

**Server.** `main` from `LoadConfigFromEnv` to the end: `NewServer` loads the
environment a second time, `Start` has an action for each place where it can fail,
and the accept loop, the handlers on and beside the pool, the wait group, `Stop` and
`Shutdown` follow. It uses `TaskPool` for the pool, which `GoroutinePool` is shown to
implement, so that the steps inside the pool need not be interleaved again; a handler
is a task that may run for ever. `Config` has the variables with their precedence,
what counts as a number or a duration, and the TLS part with the files it names.
`Health` answers a request load by load while the server goes on. The verdicts of the
checks before the connection limit are a choice (`Reject`); `Admission` has them.

**Admission.** The accept loop asks the IP filter, the scan detector, the rate
limiter and the breach handler in turn; the handler reports the access later
(`Record`); `Cleanup`, the breach checker and the clock run beside them. Times are
kept as ages that stop growing where no comparison tells them apart, so the clock
is unbounded. `IPFilter` works on addresses of a few bits, of two lengths for the two
families; `Permitted` states its rules anew, bit by bit. `ResourceBreach` sets
the breach flags and `rejectNewConnections` in separate steps; a usage is low, mid
or high with respect to the two thresholds.

**FrameCodec.** Peers write frames, with `WriteFrame` or with an encoder of their own
that uses other magic bytes, versions and sizes (`ForeignWrite`); the network may change a symbol or end the
stream anywhere, and `ReadFrame` reads header and remainder in two steps. The four
bytes of a CRC are one symbol that stands for the data it was computed from: that
damage changes a CRC is an assumption. `Unmarshal`, the second decoder, is an operator
with its own copy of the checks, as in the code.

## Runs

| run | instance | what it shows |
|---|---|---|
| `write_queue` | two senders (one in the pool), one closer, queue of 1, 3 calls | `QueueAccounting`: the backpressure counter is exact in every interleaving. `SyncResultTrue`: `WriteFrameSync` reports success exactly if the frame was written. `SyncNotStranded`: only a failed write leaves it waiting. `LateCallsSafe`: a call that begins after `Close` has closed the channel does not panic. `BatchSequencesOrdered`, `ImplementsFrameStream` and `CloseCompletes` |
| `delivery` | batches of 2, channel of 2, two timer goroutines, 3 ticks | `ExactlyOnceInOrder` with prompt goroutines; with free interleaving `FailureReported` and `DeliveryStops` |
| `authenticator` | one host, three ports, 2 attempts, 23 time units | `SessionsLive`, `AttemptsBounded` between two logins and over window boundaries, `BlocksHold` |
| `session` | 3 client frames, requests at and beyond the limits of their fields, timeouts 1, 3 and 2 | `AuthFirst`, `ErrorIsFinal`, `ConfirmedOnce`, `SilentIsClosed`, `HandlerEnds`; `SweptIsClosed`: once `closeAllConnections` is done nothing open is served, however late it registered |
| `pool` | 1 to 4 workers | `QueuedCounted`, `WorkersCounted`, `WorkersBounded`, `ImplementsTaskPool`, `TaskRuns` |
| `server` | 1 worker, 2 connections, 4 accepts, 4060 pairs of configuration and environment | `ConfigSettled`: the second load changes nothing and the precedence of the variables holds. `FailedStartClean`, `ServesAsConfigured` (TLS), `ClosedStaysClosed`, `NilMeansEnded`, `HealthTellsClosed`, `StopEnds` |
| `admission` | one host for each verdict of the filter and one of another family, 2 connections per window | `RefusedLeaveNoTrace`, `RateMatchesHistory` (the limiter answers by the connections of the last window, whatever Cleanup removes), `RejectExact`, `ScannerStaysOut`, `RetriesSucceed` |
| `frame_codec` | 2 frames, 1 damaged symbol, payloads below, at and above the limits | `IntactPrefix`, `ErrorHasCause`, `DecodersAgree` (`ReadFrame` and `Unmarshal` accept and refuse the same bytes), `EveryFrameRead` |

Every property has a mutant in `PROJECT.json`: a plausible bug in the mapped code
that makes TLC report it.

Four runs end in a violation and record where the code disagrees with a comment,
document or test of the repository:

* `delivery_loss`: a tick appended while a timer goroutine is between marshalling
  and clearing `pendingBatch` is cut off by `pendingBatch[:0]`.
* `session_timeout`: `Handle` overwrites the reference to the `AfterFunc` that
  `NewConnectionHandler` has started, so it closes connections whose heartbeats
  arrive in time.
* `admission_rate`: with three connections a second allowed, as in
  `ddos_protection_test.go:27-44`, the second of two that come together is refused.
  `checkConnectionRate` spreads the limit into a minimum gap, and it compares it with
  the connections of the last minute, so that later a host waits up to a minute and
  not a second. `ddos_protection.go:64` and `docs/NETWORK_SECURITY.md:170` promise ten
  a second.
* `server_drain`: `Shutdown` returns nil while accepted connections wait in the
  pool's queue.

### Bounds, and why they are enough

*Queues* are one or two long, so that full, empty and one short of full all occur
with few frames. *Three calls* on a queue of one give a sender in each stage beside
a queued frame and one in `writeLoop`'s hand. *Seven sequence numbers* (`SeqSpace`)
are more than calls and frames draw from the shared counter, so that every batch of
the instance is compared. *Three ticks* in batches of two fill
a batch and start the next while the first is being flushed, by the loop and by
timers; two timer goroutines are what can overlap there. *Eleven windows* in
`authenticator` let a record grow old enough for `cleanup`. In `session` a read may
take longer than the heartbeat timeout, as with the default configuration. *Four
workers* let several idle ones leave together. In `server`, four accepts fill the
worker and the pool's queue of two and reach the fallback beside it; each part of the
environment (address, settings, TLS, lists) takes all its variations while the others
are unset, since `LoadConfigFromEnv` treats them apart. In `admission` two connections fill
a window, the gap is half a second, two accesses make a scanner, and an hour is just longer than the rate
window, so that expiry and Cleanup meet; a Cleanup may take a unit of time between
reading the clock and removing. In `frame_codec` a byte has ten values and a
length two bytes. Client frames, accepts, ticks, calls and damage are
bounded by guards with a named constant each (`MaxFrames`, `MaxAccepts`,
`MaxTicks`, `MaxCalls`, `MaxDamage`, `MaxPending`, `MaxTime`, `SweepTime`).

The proofs hold for all values of these constants that the named assumptions allow.

### Fairness

Goroutines that can run do run (weak fairness of their steps), tickers and started
timers fire, and deadlines end socket operations (`SetWriteDeadline`,
`SetReadDeadline`). In `Delivery` the loop's exit is strongly fair, because a Go
`select` picks at random among ready cases. `GoroutinePool` assumes that tasks end,
for `TaskRuns` only; `Session` (`HandlerEnds`) shows this of a handler once the TLS
handshake is over, which has no deadline in the code. `Server` assumes nothing of
handlers. `Admission` assumes for `RetriesSucceed` that a permitted host keeps
trying (strong fairness of `Accept`, which other hosts' connections disable again
and again). Nothing is assumed of clients elsewhere, nor of whoever stops the
server.

Runs with `CHECK_DEADLOCK FALSE` are those whose system really comes to rest: a
closed connection, a stopped pool or server, an ended stream, the end of the
bounded clock.

## Theorems

Each proof module extends its component and states, for every value of the
constants allowed by the named assumptions:

* `WriteQueueProofs` (`QueueAssumption`: finitely many writers, a queue of at least
  one). `TypeCorrect` needs `ItemHeld` (past the receive `writeLoop` has an item).
  `AccountingCorrect` proves `QueueAccounting`, with lemmas on how the set of
  reserving senders grows and shrinks by one. `NoWriteAfterCloseCorrect` needs that
  a closed socket implies that `writeLoop` has exited, since `Close` waits for it.
  `StrandedCorrect` rests on `LoopInv`, which says where the item of a waiting call
  can be. `FrameStreamImplemented` is the refinement: each step of the write path is
  a step or a stutter of `FrameStream`. `SyncResultCorrect`: the invariant follows a call's item
  from the channel through `writeLoop`'s hand to its answer; no writer has two
  unanswered ones, and a frame of the present call is on the wire only if its answer
  is `ok` or about to be. `SequencesCorrect` relates the numbers drawn, queued and
  written to the counter, up to its wrap-around. `LateCallsCorrect`: the channel is
  closed only after the flag is set (`FlagInv`), so a call that was outside then
  (`Outside`) never gets past its check.
* `DeliveryProofs` (`DeliveryAssumption`). `FailureCorrect` holds in every
  interleaving. `ExactlyOnceCorrect` rests on `Prompt`: when goroutines are prompt one
  at most is inside `flushBatch`, what it has marshalled is the present batch, the
  batch never holds more than the channel took, and output, batch, hand and channel put together are
  the ticks in order.
* `AuthenticatorProofs` (`AuthAssumption`). `TypeCorrect`; `SessionsCorrect`: the
  session table is exactly the set of live authenticated connections.
  `BlockOutlivesWindowCorrect` and `BlocksHoldCorrect` rest on `BlockInv`, which
  relates a record's block to its window and to the start of the calls under way;
  they need calls of `Authenticate` to take at most seven windows, what cleanup's
  ten windows leave beside the longest penalty of three. `AttemptsBoundedCorrect`
  rests on `AttemptsInv`: the attempts of a host within the last window are some of a
  record that has ended, fewer than `MaxAttempts`, and behind them those of the
  present record, at most `MaxAttempts` and no more than its count.
* `SessionProofs` (`SessionAssumption`). `AuthFirstCorrect` and `ErrorIsFinalCorrect`
  from `Talk`, which says for each place of the handler what can have been replied so
  far. `SilentCorrect` from `TimerRuns`: while an accepted client
  may still speak, a timer that will close it runs and has no more left than the
  silence allows. `ConfirmedCorrect`. `SweptCorrect` from `Reached`: a connection that
  is served is registered, and begins to be served only before the context is
  cancelled, so that it is on the list if it still is.
* `GoroutinePoolProofs` (`PoolAssumption`). `TypeCorrect`, `WorkersCorrect`,
  `QueuedCorrect` and `BoundCorrect` from one inductive invariant, `PoolInv`:
  `WorkersBounded` alone is not inductive, so `BoundInv` also counts the goroutines
  that have passed `startWorker`'s check and not yet added their worker. From it
  `TaskPoolImplemented`, the refinement that `Server` relies on.
* `ServerProofs` (`ServerAssumption`). `NilCorrect`, `FailedStartCorrect` and
  `ClosedCorrect` from `Lifecycle`, which relates the places of start and end to the
  listener and the wait group. `HealthCorrect` from `ProbeRight` (what the loads done
  so far imply, `closed` being final), `ServesCorrect` from `TLSChecked`, and
  `ConfigCorrect` from `Loaded` with the lemma `LoadTwice`: `LoadConfigFromEnv` is
  idempotent.
* `AdmissionProofs` (`AdmissionAssumption`, `DDoSAssumption`, `BreachAssumption`).
  `RejectExactCorrect` for any list of resources: the invariant adds that `raise` is
  only reached with a breach flag set and `clear` only while rejecting.
  `RefusedCorrect` for all lists and lengths of addresses: `AllowIsPermitted` shows
  that masks and the documented rules agree, and `Filtered` that the connection in the
  accept loop's hand, which every tracker and handler comes from, is permitted.
  `ScannerCorrect` for all limits of at least two ports and all durations of a
  Cleanup: `ScannerByCount` reduces the detector to its count, which only an expired
  tracker or a handler that records an access can lower.
  `RateMatchesCorrect` for all limits and windows from `RateInv`, which ties the
  tracker to the connections let through: what is inside the window of the tracker is
  exactly those, a gap apart, and the last of them is as old as `lastConnection`. So
  Cleanup, which looks at `lastConnection` alone, removes no tracker that still counts.
* `FrameCodecProofs` (`CodecAssumption`: versions, types and payloads are made of
  bytes, and a length within the limits fits its field). The invariant `CodecInv` says
  where the frames that were not returned yet lie: `Layout` gives the end of each on
  the stream, what `ReadFrame` holds in its hand included, and relates every symbol to
  the one that was written. `IntactPrefixCorrect`: a checksum that matches is, by
  `Delivered`, that of the first of these frames, whatever length the header claims.
  `ErrorHasCauseCorrect`: without damage the first frame is all that `ReadFrame` finds,
  so a complaint is about that frame. `DecodersAgreeCorrect` compares the checks of the
  two decoders on the same bytes: `HeadersAgree` up to the remainder, `WholeFrame`
  from there. That damage changes a CRC is an assumption of the model, not a theorem.

Every invariant and action property that a passing run checks is also proved, and so
are the two refinements. Only model-checked is liveness (`CloseCompletes`,
`DeliveryStops`, `HandlerEnds`, `TaskRuns`, `StopEnds`, `RetriesSucceed`,
`EveryFrameRead`), for the prover has no reasoning about fairness. The proofs about
the sequences that a window cuts (`AttemptsBounded`, `RateMatchesHistory`) need no induction:
what is cut off is an initial segment, whose length is its cardinality.

## Behaviour worth knowing

Met while modelling, and recorded with the hazards in `PROJECT.json`:

* A connection refused before authentication is never closed by the server,
  although `docs/NETWORK_SECURITY.md:144` says it is.
* A sender that has passed the `closed` check when `Close` closes the write channel
  panics (`connection.go:414`), and in the timer goroutine of `flushBatch` nothing
  recovers it. `LateCallsSafe` is about calls that begin later.
* A login wipes the limiter's record of its host, so nothing bounds the attempts of a
  host across logins.
* `Stop` closes the pool's channel while the accept loop may be submitting to it;
  the send then panics.
* `RecordPortAccess` always gets the same port, so five connections of one host
  that start at most a second apart make it a scanner until Cleanup forgets it an
  hour after its last access. A handler that starts late can lift that early.
* `maxConnectionsPerIP` is compared with nothing.
* `CheckConnectionLimit`, the only writer of the monitor's connection count, has no
  caller: descriptor and connection breaches cannot occur.
* A `WriteFrameSync` whose item is still queued when a write fails waits for ever;
  only tests call it.
* The reply to a metadata key of more than 404 bytes quotes it and is longer than the
  `MaxMessageLength` of 512 that `ValidateErrorResponse` allows.
* A permanent error of `Accept` ends the accept loop (`server.go:508`); the health
  endpoint still answers 200.
* The metrics of auto scaling and of Prometheus both default to port 9090
  (`server.go:352`).
* `MAX_BATCH_SIZE` has no upper bound, while a valid batch has at most 1000 ticks
  (`MaxTicksPerBatch`). `MAX_CONNECTIONS`, documented in `README.md:138`, is not read.
* A batch that the inner `select` of `deliveryLoop` begins has no timer
  (`delivery_loop.go:77`) and waits for the next tick.
* A task waits behind busy workers until more than twice their number are queued
  (`goroutine_pool.go:156`).

## Not modelled

* Network monitor: nothing in the program constructs it; only tests do.
* Auto scaling and instances: they keep no state. A recommendation is computed in
  floating point from one load of the number of connections.
* Sampling and alerts of the resource monitor (the alerts are only logged) and the
  resource constraints: calls of the runtime and the operating system.
* The validators of authentication, ticks, batches and ACKs, which only tests call,
  and the conversions of `helpers.go`, one call of the protobuf library each.
* Version features, the compatibility matrix and `version_handler.go`: only tests call
  them. `ReadFrame` calls `ValidateVersion` alone.
* Object pools: wrappers of `sync.Pool`. `GetFrame` has no caller, so no pooled frame
  is in use.
* `crypto/tls` itself: the outcome of a handshake is a choice of the client.
* Metrics: counters that nothing in the server reads back.
* Flags of the commands, the test client, wire messages: process start, I/O,
  generated code. A message is a model value here.

## Running

    tlc -workers 2 -config MCServer.cfg MCServer
    tlapm ServerProofs.tla

and likewise for the other runs of the table and the other `*Proofs` modules.
