--------------------------------- MODULE Config ---------------------------------
(***************************************************************************)
(* The configuration of the server: LoadConfigFromEnv in                   *)
(* internal/server/server.go, which main calls and NewServer calls again,  *)
(* and the TLS part of it in internal/server/tls.go, which is loaded with  *)
(* the rest, validated by Start and turned into a tls.Config once the      *)
(* listener is open.                                                       *)
(*                                                                         *)
(* A variable of the environment is unset, or a text of some kind: "int"   *)
(* for a decimal integer, "frac" for one that is only a duration when "ms" *)
(* is appended, "dur" for a duration with its unit, "junk" for the rest.   *)
(* An address is its host and port.  A file is the name of one that does   *)
(* not exist, cannot be used, or is good; "" is no name.                   *)
(***************************************************************************)
EXTENDS Integers

Unset == [kind |-> "unset", value |-> 0]

\* What time.ParseDuration and strconv.Atoi accept of these.
ParsesAsDuration(x) == x.kind = "dur"
ParsesAsInt(x) == x.kind = "int"
ParsesWithMs(x) == x.kind \in {"int", "frac"}

Addr(host, port) == [host |-> host, port |-> port]
NoAddr == Addr("", "")

\* Settings with a variable for a duration and one for milliseconds, and those
\* with a single variable for a number.
Durations == {"HeartbeatInterval", "HeartbeatTimeout", "BatchWindow"}
Numbers == {"TCPReadBufferSize", "TCPWriteBufferSize", "WriteDeadlineMS",
            "MaxWriteQueueSize"}
Settings == Durations \cup Numbers \cup {"MaxBatchSize", "WriteTimeout"}

\* An environment: env.text has the variables of numbers and durations, env.ms
\* those that end in _MS, env.addr, env.host and env.port those of the listener,
\* env.lists IP_ALLOWLIST and IP_BLOCKLIST,
\* and env.tls those of TLS ("" for unset).

------------------------------------------------------------------------------
(* LoadConfigFromEnv                                                       *)

\* Mutant of LoadListenAddr: a port that is not given is the default one.
LoadDefaultPort(old, env) ==
    IF env.addr # NoAddr THEN env.addr
    ELSE IF env.host # "" THEN Addr(env.host, IF env.port # "" THEN env.port ELSE "8080")
    ELSE IF env.port # "" THEN Addr("", env.port) ELSE old

\* LISTEN_ADDR, or LISTEN_HOST with LISTEN_PORT or the port there is, or
\* LISTEN_PORT on every interface.
LoadListenAddr(old, env) ==
    LET byPort == IF env.port # "" THEN Addr("", env.port) ELSE old
        port == IF env.port # "" THEN env.port
                ELSE IF byPort.port # "" THEN byPort.port ELSE "8080"
    IN  IF env.addr # NoAddr THEN env.addr
        ELSE IF env.host # "" THEN Addr(env.host, port)
        ELSE byPort

LoadDuration(old, text, ms) ==
    IF ParsesAsInt(ms) THEN ms.value ELSE IF ParsesAsDuration(text) THEN text.value ELSE old

LoadSetting(old, env, s) ==
    CASE s \in Durations -> LoadDuration(old, env.text[s], env.ms[s])
      [] s \in Numbers -> IF ParsesAsInt(env.text[s]) THEN env.text[s].value ELSE old
      [] s = "MaxBatchSize" ->
            IF ParsesAsInt(env.text[s]) /\ env.text[s].value > 0 THEN env.text[s].value
                                                                 ELSE old
      \* WRITE_DEADLINE_MS again, as a duration
      [] s = "WriteTimeout" ->
            IF ParsesWithMs(env.text["WriteDeadlineMS"])
            THEN env.text["WriteDeadlineMS"].value ELSE old

ClientAuths == {"none", "request", "require", "verify", "require_verify"}

\* A text that is neither "true" nor empty means false; an unknown mode of
\* client authentication is ignored.
LoadTLSConfigFromEnv(old, env) ==
    LET given(f, o) == IF f # "" THEN f ELSE o
    IN  [old EXCEPT !.enabled = IF env.enabled = "" THEN @ ELSE env.enabled = "true",
                    !.certFile = given(env.certFile, @),
                    !.keyFile = given(env.keyFile, @),
                    !.clientCAFile = given(env.clientCAFile, @),
                    !.clientAuth = IF env.clientAuth \in ClientAuths THEN env.clientAuth
                                                                     ELSE @]

LoadConfigFromEnv(old, env) ==
    [addr |-> LoadListenAddr(old.addr, env),
     settings |-> [s \in Settings |-> LoadSetting(old.settings[s], env, s)],
     lists |-> IF env.lists # "" THEN env.lists ELSE old.lists,
     tls |-> LoadTLSConfigFromEnv(old.tls, env.tls)]

------------------------------------------------------------------------------
(* TLS                                                                     *)

TLS12 == 12
TLS13 == 13

\* ValidateTLSConfig, which only looks whether the files exist.
ValidateTLSConfig(t) ==
    t.enabled =>
        /\ t.certFile # "missing" /\ t.keyFile # "missing" /\ t.clientCAFile # "missing"
        /\ t.minVersion <= t.maxVersion /\ TLS13 <= t.minVersion

\* Mutant of ClientCertValidation: a CA file that cannot be parsed is ignored.
ReadAnyCA(t) == t.clientCAFile \notin {"", "missing"}

\* setupClientCertValidation
ClientCertValidation(t) == t.clientCAFile = "good"

\* BuildTLSConfig of an enabled configuration: LoadX509KeyPair, then the CA of
\* the clients if their certificates are asked for.
BuildTLSConfig(t) ==
    /\ t.certFile = "good" /\ t.keyFile = "good"
    /\ t.clientAuth # "none" => ClientCertValidation(t)
================================================================================
