------------------------------- MODULE Validation -------------------------------
(***************************************************************************)
(* The validators of internal/protocol/validation.go that the server calls *)
(* for the messages of a session: subscriptions and heartbeats.            *)
(*                                                                         *)
(* A text is its length, whether it is blank and whether it has the form   *)
(* its pattern asks for; a timestamp is its class.  Which of several       *)
(* errors a validator returns is left out: the server answers all alike.   *)
(***************************************************************************)
EXTENDS Integers, Sequences, FiniteSets

MaxSymbolLength == 16
MaxSymbolsCount == 100
MaxMetadataEntries == 20
MaxMetadataKeyLength == 64
MaxMetadataValLength == 256

\* validateTimestamp, of one that is required: not zero, not negative, at most a
\* day old and five minutes ahead.
ValidTimestamp(stamp) == stamp = "fresh"

ValidSymbol(s) == ~s.blank /\ s.len <= MaxSymbolLength /\ s.form

\* validateMetadata
ValidMetadata(metadata) ==
    /\ Cardinality(metadata) <= MaxMetadataEntries
    /\ \A e \in metadata : /\ e.key.len <= MaxMetadataKeyLength /\ ~e.key.blank
                           /\ e.val.len <= MaxMetadataValLength

\* ValidateSubscribeRequest
ValidSubscribe(req) ==
    /\ req.mode \notin {"unspecified", "unknown"}
    /\ Len(req.symbols) <= MaxSymbolsCount
    /\ \A i \in DOMAIN req.symbols : ValidSymbol(req.symbols[i])
    /\ req.start = "none" \/ ValidTimestamp(req.start)
    /\ ValidMetadata(req.metadata)

\* ValidateHeartbeatRequest
ValidHeartbeat(req) == ValidTimestamp(req.timestamp)
================================================================================
