--------------------------------- MODULE Server ---------------------------------
(***************************************************************************)
(* The life of the server in internal/server/server.go: main loads the     *)
(* configuration, NewServer and Start set the server up, then the accept   *)
(* loop, the connection handlers it starts on the goroutine pool or beside *)
(* it, the health endpoint, and Stop or Shutdown run against each other.   *)
(* The pool is the module TaskPool, which GoroutinePool implements: the    *)
(* accept loop is its submitter and a task is a call of handleConnection.  *)
(*                                                                         *)
(* Connections are counted, not named.  A handler may end at any time      *)
(* (Session says when), so cancelling the context and closing the          *)
(* connections, which only make it end sooner, leave no trace here.        *)
(***************************************************************************)
EXTENDS Config

CONSTANTS MaxWorkers,      \* of the pool
          MaxConnections,  \* of the Config
          MaxAccepts,      \* bound: connections that arrive
          Given,           \* configurations handed to LoadConfigFromEnv
          Environments     \* what the environment may be

ASSUME ServerAssumption ==
    /\ MaxWorkers \in Nat /\ MaxConnections \in Nat \ {0} /\ MaxAccepts \in Nat
    /\ \A cfg \in Given : cfg.settings["MaxBatchSize"] \in Nat \ {0}

VARIABLES
    start,        \* how far the start is
    setup,        \* the configuration and where it is from, until the start is over
    listener,     \* none, open or closed
    background,   \* the cleanup and the monitors have been started
    waiting, running, submit, stop,  \* of the pool
    accept,       \* where the accept loop is
    accepted,     \* connections accepted so far
    activeConns,  \* s.activeConns
    poolConns,    \* handlers on the pool that have counted their connection
    directNew,    \* handlers beside the pool that have not
    directConns,  \* handlers beside the pool that have
    wg,           \* the counter of s.wg
    caller,       \* none, or the one of Stop and Shutdown that closed the server
    ending,       \* how far it is, and what it returned
    healthUp,     \* the health endpoint listens
    reject,       \* the breach handler rejects connections
    probe         \* a request to the health endpoint

closed == ending # "no"
listening == listener # "none" /\ background

Pool == INSTANCE TaskPool WITH Capacity <- 2 * MaxWorkers, Limit <- MaxWorkers + 1
Health == INSTANCE Health

startVars == <<start, setup, background>>
handlerVars == <<activeConns, poolConns, directNew, directConns>>
endVars == <<caller, ending>>
poolVars == <<waiting, running, submit, stop>>
healthVars == <<healthUp, reject, probe>>
vars == <<startVars, listener, poolVars, accept, accepted, handlerVars, wg, endVars,
          healthVars>>

\* Forgets a configuration nothing reads any more.
Done == [done |-> TRUE]

\* main, about to load the configuration.
Init ==
    /\ start = "load" /\ listener = "none" /\ background = FALSE
    /\ \E cfg \in Given, env \in Environments :
            setup = [given |-> cfg, env |-> env, config |-> cfg]
    /\ Pool!Init
    /\ accept = "none" /\ accepted = 0
    /\ activeConns = 0 /\ poolConns = 0 /\ directNew = 0 /\ directConns = 0
    /\ wg = 0
    /\ caller = "none" /\ ending = "no"
    /\ healthUp = FALSE /\ reject = FALSE /\ probe = Health!Idle

\* A panic in the accept loop ends the process.
Alive == submit # "panic"

------------------------------------------------------------------------------
(* main, NewServer and Start                                               *)

\* Start is not over, and neither Stop nor Shutdown runs meanwhile.
Starting(at) ==
    /\ start = at /\ ending \in {"no", "nil", "expired"}
    /\ UNCHANGED <<poolVars, accepted, handlerVars, endVars, healthVars>>

\* Start returns an error.
FailStart == start' = "failed" /\ setup' = Done

\* main loads the configuration, and NewServer loads it again.
LoadConfig ==
    /\ \/ Starting("load") /\ start' = "new"
       \/ Starting("new") /\ start' = "ready"
    /\ setup' = [setup EXCEPT !.config = LoadConfigFromEnv(@, setup.env)]
    /\ UNCHANGED <<listener, background, accept, wg>>

StartUnless(refused) ==
    /\ Starting("ready")
    /\ IF refused \/ ~ValidateTLSConfig(setup.config.tls) \/ setup.config.lists = "invalid"
       THEN FailStart
       ELSE start' = "listen" /\ UNCHANGED setup
    /\ UNCHANGED <<listener, background, accept, wg>>

\* Mutant of StartChecks: a server that was closed is started.
StartClosed == StartUnless(FALSE)

\* Start up to the listener: s.closed, ValidateTLSConfig, the IP filter's lists.
StartChecks == StartUnless(closed)

\* net.Listen, which may fail.
Listen ==
    /\ Starting("listen")
    /\ \/ FailStart /\ UNCHANGED listener
       \/ /\ listener' = "open"
          /\ start' = IF setup.config.tls.enabled THEN "tls" ELSE "services"
          /\ UNCHANGED setup
    /\ UNCHANGED <<background, accept, wg>>

WrapTLS(failed) ==
    /\ Starting("tls")
    /\ IF BuildTLSConfig(setup.config.tls)
       THEN start' = "services" /\ UNCHANGED <<setup, listener>>
       ELSE FailStart /\ listener' = failed
    /\ UNCHANGED <<background, accept, wg>>

\* Mutant of CreateTLSListener: the TCP listener stays open.
LeaveListener == WrapTLS(listener)

\* createListener closes the TCP listener if there is no tls.Config for it.
CreateTLSListener == WrapTLS("none")

\* The background routines, the HTTP servers and the accept loop.
StartServices ==
    /\ Starting("services")
    /\ start' = "started" /\ setup' = Done
    /\ background' = TRUE
    /\ wg' = wg + 1 /\ accept' = "accept"
    /\ UNCHANGED listener

------------------------------------------------------------------------------
(* acceptLoop                                                              *)

\* What the accept loop and the handlers leave alone.
Serving == Alive /\ UNCHANGED <<startVars, listener, endVars, healthVars>>

Accept ==
    /\ Serving /\ accept = "accept" /\ listener = "open" /\ accepted < MaxAccepts
    /\ accepted' = accepted + 1
    /\ accept' = "check"
    /\ UNCHANGED <<poolVars, handlerVars, wg>>

\* Accept fails: the listener is closed, or a permanent error.
AcceptLoopEnds ==
    /\ Serving /\ accept = "accept"
    /\ accept' = "ended"
    /\ wg' = wg - 1
    /\ UNCHANGED <<poolVars, accepted, handlerVars>>

\* The connection is closed again: by the IP filter, the DDoS protection or the
\* breach handler, or because of the limit.
Reject ==
    /\ Serving
    /\ accept = "check" \/ (accept = "limit" /\ activeConns >= MaxConnections)
    /\ accept' = "accept"
    /\ UNCHANGED <<poolVars, accepted, handlerVars, wg>>

\* The checks up to the breach handler let it pass.
Pass ==
    /\ Serving /\ accept = "check" /\ ~reject
    /\ accept' = "limit"
    /\ UNCHANGED <<poolVars, accepted, handlerVars, wg>>

Admit ==
    /\ Serving /\ accept = "limit" /\ activeConns < MaxConnections
    /\ Pool!Call
    /\ accept' = "submit"
    /\ UNCHANGED <<accepted, handlerVars, wg>>

\* Submit has returned: if it refused, the handler gets a goroutine.
Submitted ==
    /\ Serving /\ accept = "submit" /\ submit \in {"true", "false"}
    /\ accept' = "accept"
    /\ IF submit = "true" THEN UNCHANGED <<wg, directNew>>
                          ELSE wg' = wg + 1 /\ directNew' = directNew + 1
    /\ UNCHANGED <<poolVars, accepted, activeConns, poolConns, directConns>>

------------------------------------------------------------------------------
(* handleConnection                                                        *)

Enter ==
    /\ Serving
    /\ activeConns' = activeConns + 1
    /\ \/ /\ running > poolConns /\ poolConns' = poolConns + 1
          /\ UNCHANGED <<directNew, directConns>>
       \/ /\ directNew > 0 /\ directNew' = directNew - 1
          /\ directConns' = directConns + 1
          /\ UNCHANGED poolConns
    /\ UNCHANGED <<poolVars, accept, accepted, wg>>

ExitWith(poolDone) ==
    /\ Serving
    /\ activeConns' = activeConns - 1
    /\ \/ /\ poolConns > 0 /\ poolConns' = poolConns - 1
          /\ Pool!Finish
          /\ wg' = wg - poolDone
          /\ UNCHANGED directConns
       \/ /\ directConns > 0 /\ directConns' = directConns - 1
          /\ UNCHANGED <<poolVars, poolConns, wg>>
    /\ UNCHANGED <<accept, accepted, directNew>>

\* Mutant of Exit: handleConnection calls wg.Done on the pool as well.
ExitAlwaysDone == ExitWith(1)

\* The handler returns.  With a pool it never calls wg.Done, not even where the
\* accept loop called wg.Add for it.
Exit == ExitWith(0)

PoolSubmits == Serving /\ Pool!SubmitStep /\ UNCHANGED <<accept, accepted, handlerVars, wg>>

PoolBegins == Serving /\ Pool!Begin /\ UNCHANGED <<accept, accepted, handlerVars, wg>>

------------------------------------------------------------------------------
(* Stop and Shutdown, after Start has returned or instead of it.  Only the *)
(* first call gets past the CompareAndSwap.                                *)

Stopping ==
    Alive /\ UNCHANGED <<startVars, accept, accepted, handlerVars, wg, healthVars>>

End(by) ==
    /\ Stopping /\ start \in {"ready", "failed", "started"} /\ ending = "no"
    /\ caller' = by /\ ending' = "closed"
    /\ UNCHANGED <<listener, poolVars>>

CloseListener ==
    /\ Stopping /\ ending = "closed"
    /\ listener' = IF listening THEN "closed" ELSE listener
    /\ ending' = "drain"
    /\ UNCHANGED <<poolVars, caller>>

\* goroutinePool.Stop, before the connections are closed.
StopPool ==
    /\ Stopping /\ caller = "Stop" /\ ending = "drain"
    /\ Pool!StopStep
    /\ ending' = IF stop' = "returned" THEN "wait" ELSE "drain"
    /\ UNCHANGED <<listener, caller>>

\* Shutdown's poll finds no active connection.
ShutdownDrained ==
    /\ Stopping /\ caller = "Shutdown" /\ ending = "drain" /\ activeConns = 0
    /\ ending' = "wait"
    /\ UNCHANGED <<listener, poolVars, caller>>

\* The time for that is over: the connections are closed.
ShutdownForces ==
    /\ Stopping /\ caller = "Shutdown" /\ ending = "drain"
    /\ ending' = "wait"
    /\ UNCHANGED <<listener, poolVars, caller>>

WaitFor(expiry) ==
    /\ Stopping /\ ending = "wait"
    /\ \/ wg = 0 /\ ending' = "nil"
       \/ expiry /\ ending' = "expired"
    /\ UNCHANGED <<listener, poolVars, caller>>

\* Mutant of Wait: the context's deadline is ignored.
WaitForever == WaitFor(FALSE)

\* wg.Wait returns or the context expires.
Wait == WaitFor(TRUE)

------------------------------------------------------------------------------
(* The health endpoint and what it reports                                 *)

Observing ==
    /\ Alive /\ background
    /\ UNCHANGED <<startVars, listener, poolVars, accept, accepted, handlerVars, wg,
                   endVars>>

\* Its own goroutine calls ListenAndServe, which only logs a failure.
HealthListens == Observing /\ ~healthUp /\ healthUp' = TRUE /\ UNCHANGED <<reject, probe>>

\* Requests do not affect each other, so one at a time shows all answers.  Nothing
\* stops the endpoint.
HealthStep == Observing /\ healthUp /\ Health!Step /\ UNCHANGED <<healthUp, reject>>

\* The breach handler changes its mind (Admission says when).
BreachChanges == Observing /\ reject' = ~reject /\ UNCHANGED <<healthUp, probe>>

------------------------------------------------------------------------------

Next ==
    \/ LoadConfig \/ StartChecks \/ Listen \/ CreateTLSListener \/ StartServices
    \/ Accept \/ AcceptLoopEnds \/ Reject \/ Pass \/ Admit \/ Submitted
    \/ Enter \/ Exit \/ PoolSubmits \/ PoolBegins
    \/ (\E by \in {"Stop", "Shutdown"} : End(by))
    \/ CloseListener \/ StopPool \/ ShutdownDrained \/ ShutdownForces \/ Wait
    \/ HealthListens \/ HealthStep \/ BreachChanges

Spec == Init /\ [][Next]_vars

\* The accept loop and whoever ends the server keep running, Accept fails on a
\* closed listener, and contexts and timeouts expire.
FairSpec ==
    /\ Spec
    /\ WF_vars(Reject \/ Pass \/ Admit) /\ WF_vars(Submitted) /\ WF_vars(PoolSubmits)
    /\ WF_vars(listener = "closed" /\ AcceptLoopEnds)
    /\ WF_vars(CloseListener) /\ WF_vars(StopPool) /\ WF_vars(ShutdownForces)
    /\ WF_vars(Wait)

------------------------------------------------------------------------------

\* Accepted connections whose handler has not returned.
Pending == waiting + running + directNew + directConns

NoHandlerBeside == directNew = 0 /\ directConns = 0

\* The configuration a server is made with: the second load changes nothing;
\* LISTEN_ADDR is the address, without it LISTEN_HOST and LISTEN_PORT each decide
\* their part, and what neither gives stays as it was; a batch has room for a tick
\* whatever MAX_BATCH_SIZE says.
ConfigSettled ==
    start = "ready" =>
        LET cfg == setup.config
            env == setup.env
            old == setup.given
        IN  /\ cfg = LoadConfigFromEnv(old, env)
            /\ env.addr # NoAddr => cfg.addr = env.addr
            /\ env.addr = NoAddr =>
                /\ env.host # "" => cfg.addr.host = env.host
                /\ env.port # "" => cfg.addr.port = env.port
                /\ env.port = "" /\ old.addr.port # "" => cfg.addr.port = old.addr.port
                /\ env.host = "" /\ env.port = "" => cfg.addr = old.addr
            /\ cfg.settings["MaxBatchSize"] > 0

\* A Start that fails leaves no listener, no background routine and nothing that
\* Stop would wait for.
FailedStartClean ==
    start = "failed" => listener = "none" /\ ~background /\ accept = "none" /\ wg = 0

\* Services are only started with a configuration that can serve: with TLS enabled,
\* 1.3, a key pair that was loaded and, if clients are asked for certificates, a
\* CA to verify them with.
ServesAsConfigured ==
    start = "services" /\ setup.config.tls.enabled =>
        LET t == setup.config.tls
        IN  /\ TLS13 <= t.minVersion /\ t.minVersion <= t.maxVersion
            /\ t.certFile = "good" /\ t.keyFile = "good"
            /\ t.clientAuth # "none" => t.clientCAFile = "good"

\* Once Stop or Shutdown has got as far as the listener no listener is open,
\* whether Start came before or comes after.
ClosedStaysClosed == ending \notin {"no", "closed"} => listener # "open"

\* When Stop or Shutdown returns nil, the accept loop has ended, so nothing is
\* submitted any more, and no handler runs beside the pool.
NilMeansEnded ==
    ending = "nil" => accept \in {"none", "ended"} /\ NoHandlerBeside

\* The answer of the health endpoint is 503 if the server was closed when the
\* request came; a 503 is given to no server that is open and comes with a failed
\* check that explains it, although both are read at different times.
HealthTellsClosed ==
    probe.at = "answer" =>
        /\ probe.late => Health!Code = 503
        /\ Health!Code = 503 => closed /\ probe.server = "unhealthy"

\* Stop and Shutdown return and the accept loop ends, whatever the handlers do
\* and although s.wg may never come down to zero (unless the process panics).
StopEnds ==
    closed ~> (~Alive \/ (ending \in {"nil", "expired"} /\ accept \in {"none", "ended"}))

\* Shutdown loses no connection: when it returns nil, the handlers of all
\* connections that were accepted have run to their end.
ShutdownDrains == caller = "Shutdown" /\ ending = "nil" => Pending = 0
================================================================================
