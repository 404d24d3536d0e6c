------------------------------- MODULE MCServer -------------------------------
(***************************************************************************)
(* Configurations and environments for Server: each part of the            *)
(* environment in all its variations while the others are unset, since     *)
(* LoadConfigFromEnv treats them apart.                                    *)
(***************************************************************************)
EXTENDS Server

Int1 == [kind |-> "int", value |-> 1]
Texts == {Unset, Int1, [kind |-> "int", value |-> 0], [kind |-> "frac", value |-> 2],
          [kind |-> "dur", value |-> 3], [kind |-> "junk", value |-> 0]}

NoTLS == [enabled |-> "", certFile |-> "", keyFile |-> "", clientCAFile |-> "",
          clientAuth |-> ""]
NoEnv == [addr |-> NoAddr, host |-> "", port |-> "", lists |-> "", tls |-> NoTLS,
          text |-> [s \in Settings |-> Unset], ms |-> [s \in Durations |-> Unset]]

ListenEnvs ==
    {[NoEnv EXCEPT !.addr = a, !.host = h, !.port = p] :
        a \in {NoAddr, Addr("hostA", "1")}, h \in {"", "hostB"}, p \in {"", "2"}}

SettingEnvs ==
    {[NoEnv EXCEPT !.text = [s \in Settings |-> x], !.ms = [s \in Durations |-> y]] :
        x \in Texts, y \in Texts}

Files == {"", "missing", "bad", "good"}
TLSEnvs ==
    {[NoEnv EXCEPT !.tls = t] :
        t \in [enabled : {"", "true", "junk"}, certFile : Files, keyFile : Files,
               clientCAFile : Files, clientAuth : {"", "junk", "none", "verify"}]}

ListEnvs == {[NoEnv EXCEPT !.lists = x] : x \in {"valid", "invalid"}}

AllEnvs == ListenEnvs \cup SettingEnvs \cup TLSEnvs \cup ListEnvs
OnlyNoEnv == {NoEnv}

\* DefaultConfig, and configurations as its tests make them: another address, one
\* without a port, TLS of another version.
DefaultConfig ==
    [addr |-> Addr("", "8080"), lists |-> "none",
     settings |-> [s \in Settings |-> 100],
     tls |-> [enabled |-> FALSE, certFile |-> "", keyFile |-> "", clientCAFile |-> "",
              clientAuth |-> "none", minVersion |-> TLS13, maxVersion |-> TLS13]]
AllGiven ==
    {DefaultConfig, [DefaultConfig EXCEPT !.addr = Addr("hostC", "3")],
     [DefaultConfig EXCEPT !.addr = Addr("hostC", "")],
     [DefaultConfig EXCEPT !.tls.minVersion = TLS12],
     [DefaultConfig EXCEPT !.tls.minVersion = TLS12, !.tls.maxVersion = TLS12]}
OnlyDefault == {DefaultConfig}
================================================================================
