------------------------------ MODULE ServerProofs ------------------------------
(***************************************************************************)
(* Proofs about Server for any number of connections and workers and any   *)
(* configuration and environment: what Start, Stop and Shutdown leave      *)
(* behind, and what the health endpoint answers meanwhile.                 *)
(***************************************************************************)
EXTENDS Server, TLAPS

\* What the accept loop and the handlers beside the pool have in s.wg, which is
\* never less: Exit does not take it back.
Held == (IF accept \in {"none", "ended"} THEN 0 ELSE 1) + directNew + directConns

Types ==
    /\ start \in {"load", "new", "ready", "listen", "tls", "services", "started", "failed"}
    /\ listener \in {"none", "open", "closed"}
    /\ background \in BOOLEAN
    /\ accept \in {"none", "accept", "check", "limit", "submit", "ended"}
    /\ directNew \in Nat /\ directConns \in Nat /\ wg \in Nat
    /\ ending \in {"no", "closed", "drain", "wait", "nil", "expired"}

\* The start and the end of the server never overlap, and before the start is
\* over there is nothing but the listener.
Lifecycle ==
    /\ Types
    /\ wg >= Held
    /\ start # "started" => accept = "none" /\ wg = 0 /\ ~background
    /\ start = "started" => accept # "none" /\ background /\ listener # "none"
    /\ start \in {"load", "new", "ready", "listen", "failed"} => listener = "none"
    /\ start \in {"tls", "services"} => listener = "open"
    /\ start \in {"load", "new", "listen", "tls", "services"} => ending = "no"
    /\ ending \notin {"no", "closed"} => listener # "open"
    /\ ending = "nil" => accept \in {"none", "ended"} /\ directNew = 0 /\ directConns = 0

\* Initially Lifecycle holds.
LEMMA LifecycleInit == Init => Lifecycle
<1> SUFFICES ASSUME Init PROVE Lifecycle
  OBVIOUS
<1>1. background \in BOOLEAN /\ ~background
  BY Zenon DEF Init
<1>2. /\ start = "load" /\ listener = "none" /\ accept = "none" /\ ending = "no"
      /\ directNew = 0 /\ directConns = 0 /\ wg = 0
  BY DEF Init
<1>. QED
  BY <1>1, <1>2 DEF Lifecycle, Types, Held

\* Every step of the server keeps Lifecycle.
LEMMA LifecycleStep == Lifecycle /\ [Next]_vars => Lifecycle'
<1> SUFFICES ASSUME Lifecycle, [Next]_vars PROVE Lifecycle'
  OBVIOUS
<1> USE DEF Lifecycle, Types, Held
<1>1. CASE LoadConfig
  BY <1>1 DEF LoadConfig, Starting, handlerVars, endVars
<1>2. CASE StartChecks
  BY <1>2 DEF StartChecks, StartUnless, FailStart, Starting, handlerVars, endVars, closed
<1>3. CASE Listen
  BY <1>3 DEF Listen, FailStart, Starting, handlerVars, endVars
<1>4. CASE CreateTLSListener
  BY <1>4 DEF CreateTLSListener, WrapTLS, FailStart, Starting, handlerVars, endVars
<1>5. CASE StartServices
  <2>1. background' \in BOOLEAN /\ background'
    BY <1>5, Zenon DEF StartServices
  <2>2. /\ start = "services" /\ start' = "started" /\ wg' = wg + 1 /\ accept' = "accept"
        /\ UNCHANGED <<listener, directNew, directConns, ending>>
    BY <1>5 DEF StartServices, Starting, handlerVars, endVars
  <2>3. listener = "open" /\ ending = "no" /\ directNew = 0 /\ directConns = 0 /\ wg = 0
    BY <2>2
  <2>. QED
    BY <2>1, <2>2, <2>3
<1>6. CASE Accept
  BY <1>6 DEF Accept, Serving, startVars, handlerVars, endVars
<1>7. CASE AcceptLoopEnds
  BY <1>7 DEF AcceptLoopEnds, Serving, startVars, handlerVars, endVars
<1>8. CASE Reject \/ Pass
  BY <1>8 DEF Reject, Pass, Serving, startVars, handlerVars, endVars
<1>9. CASE Admit
  BY <1>9 DEF Admit, Serving, startVars, handlerVars, endVars
<1>10. CASE Submitted
  BY <1>10 DEF Submitted, Serving, startVars, endVars
<1>11. CASE Enter
  BY <1>11 DEF Enter, Serving, startVars, endVars
<1>12. CASE Exit
  BY <1>12 DEF Exit, ExitWith, Serving, startVars, endVars
<1>13. CASE PoolSubmits \/ PoolBegins
  BY <1>13 DEF PoolSubmits, PoolBegins, Serving, startVars, handlerVars, endVars
<1>14. ASSUME NEW by \in {"Stop", "Shutdown"}, End(by) PROVE Lifecycle'
  BY <1>14 DEF End, Stopping, startVars, handlerVars
<1>15. CASE CloseListener
  BY <1>15 DEF CloseListener, Stopping, startVars, handlerVars, listening
<1>16. CASE StopPool
  BY <1>16 DEF StopPool, Stopping, startVars, handlerVars
<1>17. CASE ShutdownDrained \/ ShutdownForces
  BY <1>17 DEF ShutdownDrained, ShutdownForces, Stopping, startVars, handlerVars
<1>18. CASE Wait
  BY <1>18 DEF Wait, WaitFor, Stopping, startVars, handlerVars
<1>19. CASE HealthListens \/ HealthStep \/ BreachChanges
  BY <1>19 DEF HealthListens, HealthStep, BreachChanges, Observing, startVars,
               handlerVars, endVars
<1>20. CASE UNCHANGED vars
  BY <1>20 DEF vars, startVars, handlerVars, endVars
<1>. QED
  BY <1>1, <1>2, <1>3, <1>4, <1>5, <1>6, <1>7, <1>8, <1>9, <1>10, <1>11, <1>12, <1>13,
     <1>14, <1>15, <1>16, <1>17, <1>18, <1>19, <1>20 DEF Next

\* Lifecycle holds throughout.
LEMMA LifecycleInvariant == Spec => []Lifecycle
BY LifecycleInit, LifecycleStep, PTL DEF Spec

\* When Stop or Shutdown returns nil the accept loop has ended and no handler runs
\* beside the pool, for any number of connections.
THEOREM NilCorrect == Spec => []NilMeansEnded
<1>1. Lifecycle => NilMeansEnded
  BY DEF Lifecycle, NilMeansEnded, NoHandlerBeside
<1>. QED
  BY <1>1, LifecycleInvariant, PTL

\* A Start that fails, at whichever step, leaves nothing behind.
THEOREM FailedStartCorrect == Spec => []FailedStartClean
<1>1. Lifecycle => FailedStartClean
  BY DEF Lifecycle, Types, FailedStartClean
<1>. QED
  BY <1>1, LifecycleInvariant, PTL

\* A server that was closed has no open listener and gets none.
THEOREM ClosedCorrect == Spec => []ClosedStaysClosed
<1>1. Lifecycle => ClosedStaysClosed
  BY DEF Lifecycle, ClosedStaysClosed
<1>. QED
  BY <1>1, LifecycleInvariant, PTL

------------------------------------------------------------------------------
(* The health endpoint                                                     *)

\* A server is never opened again.
LEMMA ClosedForever == Types /\ [Next]_vars /\ closed => closed'
<1> SUFFICES ASSUME Types, [Next]_vars, closed PROVE closed'
  OBVIOUS
<1> USE DEF closed, Types
<1>1. CASE LoadConfig \/ StartChecks \/ Listen \/ CreateTLSListener \/ StartServices
  BY <1>1 DEF LoadConfig, StartChecks, StartUnless, Listen, CreateTLSListener, WrapTLS,
              StartServices, Starting, endVars
<1>2. CASE Accept \/ AcceptLoopEnds \/ Reject \/ Pass \/ Admit \/ Submitted
  BY <1>2 DEF Accept, AcceptLoopEnds, Reject, Pass, Admit, Submitted, Serving, endVars
<1>3. CASE Enter \/ Exit \/ PoolSubmits \/ PoolBegins
  BY <1>3 DEF Enter, Exit, ExitWith, PoolSubmits, PoolBegins, Serving,
              endVars
<1>4. ASSUME NEW by \in {"Stop", "Shutdown"}, End(by) PROVE closed'
  BY <1>4 DEF End
<1>5. CASE CloseListener \/ StopPool \/ ShutdownDrained \/ ShutdownForces \/ Wait
  BY <1>5 DEF CloseListener, StopPool, ShutdownDrained, ShutdownForces, Wait, WaitFor
<1>6. CASE HealthListens \/ HealthStep \/ BreachChanges
  BY <1>6 DEF HealthListens, HealthStep, BreachChanges, Observing, endVars
<1>7. CASE UNCHANGED vars
  BY <1>7 DEF vars, endVars
<1>. QED
  BY <1>1, <1>2, <1>3, <1>4, <1>5, <1>6, <1>7 DEF Next

\* Only the health endpoint itself changes the request it answers.
LEMMA ProbeSteps == [Next]_vars => Health!Step \/ UNCHANGED probe
<1> SUFFICES ASSUME [Next]_vars PROVE Health!Step \/ UNCHANGED probe
  OBVIOUS
<1> USE DEF healthVars
<1>1. CASE LoadConfig \/ StartChecks \/ Listen \/ CreateTLSListener \/ StartServices
  BY <1>1 DEF LoadConfig, StartChecks, StartUnless, Listen, CreateTLSListener, WrapTLS,
              StartServices, Starting
<1>2. CASE Accept \/ AcceptLoopEnds \/ Reject \/ Pass \/ Admit \/ Submitted
  BY <1>2 DEF Accept, AcceptLoopEnds, Reject, Pass, Admit, Submitted, Serving
<1>3. CASE Enter \/ Exit \/ PoolSubmits \/ PoolBegins
  BY <1>3 DEF Enter, Exit, ExitWith, PoolSubmits, PoolBegins, Serving
<1>4. ASSUME NEW by \in {"Stop", "Shutdown"}, End(by) PROVE UNCHANGED probe
  BY <1>4 DEF End, Stopping
<1>5. CASE CloseListener \/ StopPool \/ ShutdownDrained \/ ShutdownForces \/ Wait
  BY <1>5 DEF CloseListener, StopPool, ShutdownDrained, ShutdownForces, Wait, WaitFor,
              Stopping
<1>6. CASE HealthListens \/ HealthStep \/ BreachChanges
  BY <1>6 DEF HealthListens, HealthStep, BreachChanges
<1>7. CASE UNCHANGED vars
  BY <1>7 DEF vars
<1>. QED
  BY <1>1, <1>2, <1>3, <1>4, <1>5, <1>6, <1>7 DEF Next

\* A request that came late has the status at the first load, and whoever read
\* that the server is closed finds it closed again.
ProbeRight ==
    /\ probe \in Health!Probes
    /\ probe.late => closed /\ probe.at \notin {"reject", "usage"}
    /\ probe.late /\ probe.at \in {"server", "connectivity", "answer"} =>
            probe.status = "unhealthy"
    /\ probe.status = "unhealthy" => closed
    /\ probe.status = "unhealthy" /\ probe.at \in {"connectivity", "answer"} =>
            probe.server = "unhealthy"

\* No request is being answered initially.
LEMMA ProbeInit == Init => ProbeRight
BY DEF Init, ProbeRight, closed, Health!Probes, Health!Idle, Health!Statuses

\* Each load, and each step of the server in between, keeps ProbeRight.
LEMMA ProbeStep == Types /\ ProbeRight /\ [Next]_vars => ProbeRight'
<1> SUFFICES ASSUME Types, ProbeRight, [Next]_vars PROVE ProbeRight'
  OBVIOUS
<1>1. closed => closed'
  BY ClosedForever
<1> USE DEF ProbeRight, Health!Probes, Health!Statuses
<1>2. CASE UNCHANGED probe
  BY <1>1, <1>2
<1>3. CASE Health!Request
  <2>1. closed \in BOOLEAN
    BY Zenon DEF closed
  <2>2. probe' = [at |-> "closed", status |-> "none", server |-> "none",
                  connectivity |-> "none", late |-> closed]
    BY <1>3 DEF Health!Request, Health!Idle
  <2>3. probe' \in Health!Probes
    BY <2>1, <2>2, Zenon
  <2>4. probe'.at = "closed" /\ probe'.status = "none" /\ probe'.late = closed
    BY <2>2
  <2>. QED
    BY <1>1, <2>3, <2>4
<1>4. CASE Health!ReadClosed
  BY <1>1, <1>4 DEF Health!ReadClosed, Health!Overall, Health!ReadNext
<1>5. CASE Health!ReadReject
  BY <1>1, <1>5 DEF Health!ReadReject, Health!Overall, Health!ReadNext
<1>6. CASE Health!ReadUsage
  BY <1>1, <1>6 DEF Health!ReadUsage, Health!Overall
<1>7. CASE Health!CheckServer
  BY <1>1, <1>7 DEF Health!CheckServer
<1>8. CASE Health!CheckConnectivity
  BY <1>1, <1>8 DEF Health!CheckConnectivity
<1>9. CASE Health!Answer
  BY <1>1, <1>9 DEF Health!Answer, Health!Idle
<1>. QED
  BY ProbeSteps, <1>2, <1>3, <1>4, <1>5, <1>6, <1>7, <1>8, <1>9 DEF Health!Step

\* The health endpoint answers 503 to whoever asks a closed server, and only then.
THEOREM HealthCorrect == Spec => []HealthTellsClosed
<1>1. Lifecycle => Types
  BY DEF Lifecycle
<1>2. ProbeRight => HealthTellsClosed
  BY DEF ProbeRight, HealthTellsClosed, Health!Code, Health!Probes, Health!Statuses
<1>. QED
  BY <1>1, <1>2, LifecycleInvariant, ProbeInit, ProbeStep, PTL DEF Spec

------------------------------------------------------------------------------
(* TLS                                                                     *)

\* What has been found out about the TLS configuration so far.
TLSChecked ==
    /\ start \in {"listen", "tls", "services"} => ValidateTLSConfig(setup.config.tls)
    /\ start = "services" /\ setup.config.tls.enabled => BuildTLSConfig(setup.config.tls)

\* The steps of Start keep TLSChecked, and no other step touches what it is about.
LEMMA TLSStep == TLSChecked /\ [Next]_vars => TLSChecked'
<1> SUFFICES ASSUME TLSChecked, [Next]_vars PROVE TLSChecked'
  OBVIOUS
<1> USE DEF TLSChecked
<1>1. CASE LoadConfig
  BY <1>1 DEF LoadConfig
<1>2. CASE StartChecks
  BY <1>2 DEF StartChecks, StartUnless, FailStart
<1>3. CASE Listen
  BY <1>3 DEF Listen, Starting, FailStart
<1>4. CASE CreateTLSListener
  BY <1>4 DEF CreateTLSListener, WrapTLS, Starting, FailStart
<1>5. CASE StartServices
  BY <1>5 DEF StartServices
<1>6. CASE UNCHANGED <<start, setup>>
  BY <1>6
<1>7. CASE Accept \/ AcceptLoopEnds \/ Reject \/ Pass \/ Admit \/ Submitted
  BY <1>6, <1>7 DEF Accept, AcceptLoopEnds, Reject, Pass, Admit, Submitted, Serving,
                    startVars
<1>8. CASE Enter \/ Exit \/ PoolSubmits \/ PoolBegins
  BY <1>6, <1>8 DEF Enter, Exit, ExitWith, PoolSubmits, PoolBegins,
                    Serving, startVars
<1>9. ASSUME NEW by \in {"Stop", "Shutdown"}, End(by) PROVE TLSChecked'
  BY <1>6, <1>9 DEF End, Stopping, startVars
<1>10. CASE CloseListener \/ StopPool \/ ShutdownDrained \/ ShutdownForces \/ Wait
  BY <1>6, <1>10 DEF CloseListener, StopPool, ShutdownDrained, ShutdownForces, Wait,
                     WaitFor, Stopping, startVars
<1>11. CASE HealthListens \/ HealthStep \/ BreachChanges
  BY <1>6, <1>11 DEF HealthListens, HealthStep, BreachChanges, Observing, startVars
<1>12. CASE UNCHANGED vars
  BY <1>6, <1>12 DEF vars, startVars
<1>. QED
  BY <1>1, <1>2, <1>3, <1>4, <1>5, <1>7, <1>8, <1>9, <1>10, <1>11, <1>12 DEF Next

\* Whatever the configuration and the environment say, services start only with a
\* TLS configuration that was validated and built.
THEOREM ServesCorrect == Spec => []ServesAsConfigured
<1>1. Init => TLSChecked
  BY DEF Init, TLSChecked
<1>2. TLSChecked => ServesAsConfigured
  BY DEF TLSChecked, ServesAsConfigured, ValidateTLSConfig, BuildTLSConfig,
         ClientCertValidation
<1>. QED
  BY <1>1, <1>2, TLSStep, PTL DEF Spec

------------------------------------------------------------------------------
(* Configuration                                                           *)

\* Loading the listener's address again finds the same.
LEMMA ListenTwice ==
    ASSUME NEW old, NEW env
    PROVE  LoadListenAddr(LoadListenAddr(old, env), env) = LoadListenAddr(old, env)
BY DEF LoadListenAddr, Addr, NoAddr

\* Loading a setting again finds the same.
LEMMA SettingTwice ==
    ASSUME NEW old, NEW env, NEW s \in Settings
    PROVE  LoadSetting(LoadSetting(old, env, s), env, s) = LoadSetting(old, env, s)
BY DEF LoadSetting, LoadDuration, Settings, Durations, Numbers

\* Loading the TLS part again finds the same.
LEMMA TLSTwice ==
    ASSUME NEW old, NEW env
    PROVE  LoadTLSConfigFromEnv(LoadTLSConfigFromEnv(old, env), env)
              = LoadTLSConfigFromEnv(old, env)
BY ZenonT(60) DEF LoadTLSConfigFromEnv

\* NewServer may load the configuration that main has loaded already.
LEMMA LoadTwice ==
    ASSUME NEW old, NEW env
    PROVE  LoadConfigFromEnv(LoadConfigFromEnv(old, env), env) = LoadConfigFromEnv(old, env)
<1> DEFINE once == LoadConfigFromEnv(old, env)
<1>1. /\ once.addr = LoadListenAddr(old.addr, env)
      /\ once.settings = [s \in Settings |-> LoadSetting(old.settings[s], env, s)]
      /\ once.lists = IF env.lists # "" THEN env.lists ELSE old.lists
      /\ once.tls = LoadTLSConfigFromEnv(old.tls, env.tls)
  BY DEF LoadConfigFromEnv
<1>2. LoadListenAddr(once.addr, env) = once.addr
  BY <1>1, ListenTwice, ZenonT(60)
<1>3. [s \in Settings |-> LoadSetting(once.settings[s], env, s)] = once.settings
  <2>1. ASSUME NEW s \in Settings
        PROVE  LoadSetting(once.settings[s], env, s) = once.settings[s]
    <3>1. once.settings[s] = LoadSetting(old.settings[s], env, s)
      BY <1>1
    <3>2. LoadSetting(LoadSetting(old.settings[s], env, s), env, s)
             = LoadSetting(old.settings[s], env, s)
      BY SettingTwice
    <3>. QED
      BY <3>1, <3>2
  <2>. QED
    BY <1>1, <2>1
<1>4. LoadTLSConfigFromEnv(once.tls, env.tls) = once.tls
  BY <1>1, TLSTwice, ZenonT(60)
<1>5. (IF env.lists # "" THEN env.lists ELSE once.lists) = once.lists
  BY <1>1
<1>6. LoadConfigFromEnv(once, env)
         = [addr |-> once.addr, settings |-> once.settings, lists |-> once.lists,
            tls |-> once.tls]
  BY <1>2, <1>3, <1>4, <1>5 DEF LoadConfigFromEnv
<1>7. once = [addr |-> once.addr, settings |-> once.settings, lists |-> once.lists,
              tls |-> once.tls]
  BY <1>1 DEF LoadConfigFromEnv
<1>. QED
  BY <1>6, <1>7

\* How far the configuration is.
Loaded ==
    /\ start = "load" => \E g \in Given, e \in Environments :
          setup = [given |-> g, env |-> e, config |-> g]
    /\ start \in {"new", "ready"} => \E g \in Given, e \in Environments :
          setup = [given |-> g, env |-> e, config |-> LoadConfigFromEnv(g, e)]

\* main and NewServer keep Loaded; afterwards nothing loads a configuration.
LEMMA LoadedStep == Loaded /\ [Next]_vars => Loaded'
<1> SUFFICES ASSUME Loaded, [Next]_vars PROVE Loaded'
  OBVIOUS
<1> USE DEF Loaded
<1>1. CASE LoadConfig
  <2>1. CASE start = "load" /\ start' = "new"
    <3>1. PICK g \in Given, e \in Environments :
             setup = [given |-> g, env |-> e, config |-> g]
      BY <2>1
    <3>2. setup' = [given |-> g, env |-> e, config |-> LoadConfigFromEnv(g, e)]
      BY <1>1, <3>1 DEF LoadConfig
    <3>. QED
      BY <2>1, <3>2
  <2>2. CASE start = "new" /\ start' = "ready"
    <3>1. PICK g \in Given, e \in Environments :
             setup = [given |-> g, env |-> e, config |-> LoadConfigFromEnv(g, e)]
      BY <2>2
    <3>2. setup' = [given |-> g, env |-> e,
                    config |-> LoadConfigFromEnv(LoadConfigFromEnv(g, e), e)]
      BY <1>1, <3>1 DEF LoadConfig
    <3>. QED
      BY <2>2, <3>2, LoadTwice
  <2>. QED
    BY <1>1, <2>1, <2>2 DEF LoadConfig, Starting
<1>2. CASE StartChecks \/ Listen \/ CreateTLSListener \/ StartServices
  <2>1. start' \in {"listen", "tls", "services", "started", "failed"}
    BY <1>2 DEF StartChecks, StartUnless, Listen, CreateTLSListener, WrapTLS, StartServices,
                FailStart
  <2>. QED
    BY <2>1
<1>3. CASE UNCHANGED <<start, setup>>
  BY <1>3
<1>4. CASE Accept \/ AcceptLoopEnds \/ Reject \/ Pass \/ Admit \/ Submitted
  BY <1>3, <1>4 DEF Accept, AcceptLoopEnds, Reject, Pass, Admit, Submitted, Serving,
                    startVars
<1>5. CASE Enter \/ Exit \/ PoolSubmits \/ PoolBegins
  BY <1>3, <1>5 DEF Enter, Exit, ExitWith, PoolSubmits, PoolBegins, Serving, startVars
<1>6. ASSUME NEW by \in {"Stop", "Shutdown"}, End(by) PROVE Loaded'
  BY <1>3, <1>6 DEF End, Stopping, startVars
<1>7. CASE CloseListener \/ StopPool \/ ShutdownDrained \/ ShutdownForces \/ Wait
  BY <1>3, <1>7 DEF CloseListener, StopPool, ShutdownDrained, ShutdownForces, Wait,
                    WaitFor, Stopping, startVars
<1>8. CASE HealthListens \/ HealthStep \/ BreachChanges
  BY <1>3, <1>8 DEF HealthListens, HealthStep, BreachChanges, Observing, startVars
<1>9. CASE UNCHANGED vars
  BY <1>3, <1>9 DEF vars, startVars
<1>. QED
  BY <1>1, <1>2, <1>4, <1>5, <1>6, <1>7, <1>8, <1>9 DEF Next

\* Whatever was configured and whatever the environment is, the server is made with
\* one load's worth of it: addresses part by part, a positive batch size.
THEOREM ConfigCorrect == Spec => []ConfigSettled
<1>1. Init => Loaded
  BY DEF Init, Loaded
<1>2. Loaded => ConfigSettled
  <2> SUFFICES ASSUME Loaded, start = "ready" PROVE ConfigSettled
    BY DEF ConfigSettled
  <2>1. PICK g \in Given, e \in Environments :
           setup = [given |-> g, env |-> e, config |-> LoadConfigFromEnv(g, e)]
    BY DEF Loaded
  <2>2. /\ setup.config = LoadConfigFromEnv(g, e) /\ setup.env = e /\ setup.given = g
        /\ setup.config.addr = LoadListenAddr(g.addr, e)
        /\ setup.config.settings["MaxBatchSize"]
              = LoadSetting(g.settings["MaxBatchSize"], e, "MaxBatchSize")
    BY <2>1 DEF LoadConfigFromEnv, Settings
  <2>3. LoadSetting(g.settings["MaxBatchSize"], e, "MaxBatchSize") > 0
    BY ServerAssumption DEF LoadSetting, Durations, Numbers
  <2>4. LET a == LoadListenAddr(g.addr, e)
        IN  /\ e.addr # NoAddr => a = e.addr
            /\ e.addr = NoAddr =>
                /\ e.host # "" => a.host = e.host
                /\ e.port # "" => a.port = e.port
                /\ e.port = "" /\ g.addr.port # "" => a.port = g.addr.port
                /\ e.host = "" /\ e.port = "" => a = g.addr
    BY DEF LoadListenAddr, Addr
  <2>. QED
    BY <2>2, <2>3, <2>4 DEF ConfigSettled
<1>. QED
  BY <1>1, <1>2, LoadedStep, PTL DEF Spec
================================================================================
