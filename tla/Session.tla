-------------------------------- MODULE Session --------------------------------
(***************************************************************************)
(* One connection from accept to its end: handleConnection and             *)
(* processConnection in internal/server/server.go, NewConnectionHandler,   *)
(* Handle and the frame handlers in internal/server/handler.go.  The       *)
(* connection's goroutine races with its timers, with the client, with its *)
(* delivery goroutines and with the server's shutdown.                     *)
(*                                                                         *)
(* Timers count down, in units of seconds.  Goroutines are prompt: time    *)
(* passes only when the connection's goroutine waits for the client or is  *)
(* gone, and no AfterFunc is due.  Abstracted: a frame is its kind with    *)
(* the fields that are validated, a reply its code; Close is one step, and *)
(* a send is refused when the connection is closed or, at any time,        *)
(* because its queue is full (WriteQueue has the details); whether         *)
(* credentials are accepted is a choice (see Authenticator); logs and      *)
(* metrics are left out.                                                   *)
(***************************************************************************)
EXTENDS Validation

CONSTANTS AuthTimeout, ReadTimeout, HeartbeatTimeout,  \* of the Config
          Requests,                                    \* subscriptions a client asks for
          Stamps,                                      \* timestamps of its heartbeats
          MaxFrames                                    \* bound: frames of the client

ASSUME SessionAssumption ==
    /\ AuthTimeout \in Nat \ {0} /\ ReadTimeout \in Nat \ {0}
    /\ HeartbeatTimeout \in Nat \ {0} /\ MaxFrames \in Nat
    /\ \A r \in Requests : r.mode # "none"

VARIABLES
    phase,          \* where the connection's goroutine is
    hello,          \* the client's part of the TLS handshake: none, good, bad
    inbox,          \* frames the client has sent and the server has not read
    framesSent,     \* how many it sent in all
    hungUp,         \* the client has closed its side
    subscription,   \* c.subscription: its mode, or "none"
    generating,     \* mode of the data generation goroutine, or "none"
    registered,     \* the connection is in s.connections
    server,         \* up, cancelled (its context), sweeping (closeAllConnections has
                    \* listed the connections), swept (it has closed those it listed)
    listed,         \* the connection is on that list
    closed,         \* the connection is closed
    failed,         \* errChan holds an error of the delivery goroutines
    readTimer,      \* time left to the read deadline
    heartbeatTimer, \* time left on the timer Handle polls
    closeTimer,     \* time left on the AfterFunc of NewConnectionHandler
    silence,        \* ghost: time since lastHeartbeat, up to HeartbeatTimeout + 1
    replies         \* frames queued for the client

client == <<hello, framesSent, hungUp>>
world == <<client, server, listed, closed, failed, registered>>
timers == <<readTimer, heartbeatTimer, closeTimer, silence>>
vars == <<phase, inbox, subscription, generating, world, timers, replies>>

Stopped == -1   \* a timer that does not run

Errors == {"AUTH_REQUIRED", "INVALID_AUTH", "HEARTBEAT_TIMEOUT", "CHECKSUM_FAILED",
           "INVALID_MESSAGE", "ALREADY_AUTHENTICATED", "INVALID_SUBSCRIPTION",
           "ALREADY_SUBSCRIBED"}
Codes == Errors \cup {"AUTH_ACK", "PONG", "SUBSCRIBE_ACK"}

\* What a client may send: "other" is a whole frame of a type the server does
\* not know or not expect; "unreadable" and "corrupt" make ReadFrame fail, the latter with
\* ErrInvalidChecksum.
Plain == {"auth", "unparsable", "other", "unreadable", "corrupt"}
Frames == [type : Plain] \cup [type : {"heartbeat"}, timestamp : Stamps]
            \cup [type : {"subscribe"}, req : Requests]

\* Plain TCP needs no handshake.
Init ==
    /\ phase = "accepted" /\ hello \in {"none", "good"}
    /\ inbox = <<>> /\ framesSent = 0 /\ hungUp = FALSE
    /\ subscription = "none" /\ generating = "none"
    /\ registered = FALSE /\ server = "up" /\ listed = FALSE /\ closed = FALSE /\ failed = FALSE
    /\ readTimer = Stopped /\ heartbeatTimer = Stopped /\ closeTimer = Stopped
    /\ silence = 0
    /\ replies = <<>>

\* Sending one or two frames, each of which is queued or refused.
Queued(sent) ==
    IF closed THEN {<<>>} ELSE {<<>>, sent} \cup {<<sent[i]>> : i \in DOMAIN sent}

Send(sent) == \E q \in Queued(sent) : replies' = replies \o q

------------------------------------------------------------------------------
(* processConnection                                                       *)

\* handleConnection waits for the handshake (whose error it only counts) and
\* registers the connection.
Register ==
    /\ phase = "accepted"
    /\ hello # "none" \/ hungUp
    /\ registered' = TRUE
    /\ phase' = "registered"
    /\ UNCHANGED <<inbox, subscription, generating, client, server, listed, closed, failed,
                   timers, replies>>

ProcessWith(proceed, deadline) ==
    /\ phase = "registered"
    /\ \/ ~proceed /\ phase' = "returned" /\ UNCHANGED readTimer
       \/ proceed /\ phase' = "first" /\ readTimer' = deadline
    /\ UNCHANGED <<inbox, subscription, generating, world, heartbeatTimer, closeTimer,
                   silence, replies>>

\* Mutant of ProcessConnection: the first read has no deadline.
ProcessForever == ProcessWith(server = "up", Stopped)

\* Mutant of ProcessConnection: the context is not looked at.
ProcessUnchecked == ProcessWith(TRUE, AuthTimeout)

\* processConnection returns if the server's context is cancelled, and otherwise
\* sets the deadline of the first read.
ProcessConnection == ProcessWith(server = "up", AuthTimeout)

\* The connection is closed, the deadline has passed, the client is gone, or
\* the handshake failed.
ReadFails == closed \/ readTimer = 0 \/ (inbox = <<>> /\ hungUp) \/ hello # "good"

\* ReadFrame has read a frame of one of these types.
Reads(at, types) ==
    /\ phase = at /\ ~closed /\ hello = "good"
    /\ inbox # <<>> /\ Head(inbox).type \in types
    /\ inbox' = Tail(inbox)

\* processConnection or Handle returns; its deferred calls stop the timer that
\* h.heartbeatTimer refers to.
Leave ==
    /\ phase' = "returned"
    /\ readTimer' = Stopped /\ heartbeatTimer' = Stopped
    /\ UNCHANGED <<world, closeTimer>>

Return == Leave /\ UNCHANGED silence

\* The first read fails, which is not answered.
FirstReadFails ==
    /\ \/ phase = "first" /\ ReadFails /\ UNCHANGED inbox
       \/ Reads("first", {"unreadable", "corrupt"})
    /\ Return
    /\ UNCHANGED <<subscription, generating, replies>>

\* ValidateFirstFrame fails.
FirstNotAuth ==
    /\ Reads("first", {f.type : f \in Frames} \ {"auth", "unreadable", "corrupt"})
    /\ Send(<<"AUTH_REQUIRED">>)
    /\ Return
    /\ UNCHANGED <<subscription, generating>>

AuthRefused ==
    /\ Reads("first", {"auth"})
    /\ Send(<<"INVALID_AUTH">>)
    /\ Return
    /\ UNCHANGED <<subscription, generating>>

\* The ACK was queued, or not.
AcceptWith(acked, notAcked, after) ==
    /\ Reads("first", {"auth"})
    /\ \/ /\ ~closed /\ replies' = Append(replies, "AUTH_ACK")
          /\ acked /\ closeTimer' = after
       \/ UNCHANGED replies /\ notAcked
    /\ UNCHANGED <<subscription, generating>>

StartHandle ==
    /\ phase' = "select"
    /\ readTimer' = Stopped
    /\ heartbeatTimer' = HeartbeatTimeout
    /\ silence' = 0
    /\ UNCHANGED world

\* Mutant of AuthAccepted: the timer Handle polls is the only one.
AcceptOneTimer == AcceptWith(StartHandle, Return, Stopped)

\* Mutant of AuthAccepted: an ACK that could not be queued is ignored.
AcceptUnacked ==
    AcceptWith(StartHandle, StartHandle /\ closeTimer' = HeartbeatTimeout, HeartbeatTimeout)

\* The credentials are accepted and the ACK sent.  NewConnectionHandler starts
\* an AfterFunc that will close the connection; Handle then overwrites the only
\* reference to it with a new timer.
AuthAccepted == AcceptWith(StartHandle, Return, HeartbeatTimeout)

------------------------------------------------------------------------------
(* Handle                                                                  *)

\* The cases of the select that end Handle.
HandleEnds ==
    /\ phase = "select"
    /\ \/ (server # "up" \/ failed) /\ UNCHANGED replies
       \/ heartbeatTimer = 0 /\ Send(<<"HEARTBEAT_TIMEOUT">>)
    /\ Return
    /\ UNCHANGED <<inbox, subscription, generating>>

\* The default case sets the read deadline and waits for a frame.
StartRead ==
    /\ phase = "select"
    /\ server = "up" /\ ~failed /\ heartbeatTimer # 0
    /\ phase' = "read"
    /\ readTimer' = ReadTimeout
    /\ UNCHANGED <<inbox, subscription, generating, world, heartbeatTimer, closeTimer,
                   silence, replies>>

ReadError ==
    /\ \/ phase = "read" /\ ReadFails /\ UNCHANGED inbox /\ Send(<<"INVALID_MESSAGE">>)
       \/ Reads("read", {"unreadable"}) /\ Send(<<"INVALID_MESSAGE">>)
       \/ Reads("read", {"corrupt"}) /\ Send(<<"CHECKSUM_FAILED">>)
    /\ Return
    /\ UNCHANGED <<subscription, generating>>

\* The handler went well: back to the select.
Continue ==
    /\ phase' = "select"
    /\ UNCHANGED <<world, closeTimer>>

\* handleSubscribe answers a request that it cannot parse or that is not valid,
\* and Handle answers the error it returns.
HandleSubscribeRefuses ==
    \/ /\ Reads("read", {"unparsable"})
       /\ Send(<<"INVALID_MESSAGE", "INVALID_MESSAGE">>)
    \/ /\ Reads("read", {"subscribe"})
       /\ ~ValidSubscribe(Head(inbox).req)
       /\ Send(<<"INVALID_SUBSCRIPTION", "INVALID_MESSAGE">>)

RefuseWith(after) ==
    /\ \/ Reads("read", {"auth"}) /\ Send(<<"ALREADY_AUTHENTICATED">>)
       \/ Reads("read", {"other"}) /\ Send(<<"INVALID_MESSAGE">>)
       \/ /\ Reads("read", {"heartbeat"}) /\ ~ValidHeartbeat(Head(inbox))
          /\ Send(<<"INVALID_MESSAGE">>)
       \/ HandleSubscribeRefuses
    /\ after
    /\ UNCHANGED <<subscription, generating>>

\* Mutant of Refuse: Handle goes on after an error of processFrame.
RefuseAndContinue == RefuseWith(Continue /\ UNCHANGED timers)

\* processFrame returns an error for a frame that is not acceptable: Handle
\* answers it, after handleSubscribe's own answer if there was one, and returns.
Refuse == RefuseWith(Return)

\* handleHeartbeat resets the timer Handle polls and sends the PONG; if that is
\* refused, Handle answers with an error and returns.
HandleHeartbeat ==
    /\ Reads("read", {"heartbeat"}) /\ ValidHeartbeat(Head(inbox))
    /\ silence' = 0
    /\ \/ /\ ~closed /\ replies' = Append(replies, "PONG")
          /\ Continue
          /\ heartbeatTimer' = HeartbeatTimeout /\ readTimer' = Stopped
       \/ /\ Send(<<"INVALID_MESSAGE">>)
          /\ Leave
    /\ UNCHANGED <<subscription, generating>>

\* handleSubscribe has a request that is valid.
ReadsSubscribe == Reads("read", {"subscribe"}) /\ ValidSubscribe(Head(inbox).req)

\* handleSubscribe for a connection without a subscription.  The subscription
\* stays when the confirmation is refused, but nothing generates data for it.
Subscribe ==
    /\ ReadsSubscribe
    /\ subscription = "none"
    /\ subscription' = Head(inbox).req.mode
    /\ \/ /\ ~closed /\ replies' = Append(replies, "SUBSCRIBE_ACK")
          /\ generating' = Head(inbox).req.mode
          /\ Continue
          /\ readTimer' = Stopped /\ UNCHANGED <<heartbeatTimer, silence>>
       \/ /\ Send(<<"INVALID_MESSAGE">>)
          /\ Return /\ UNCHANGED generating

\* Mutant of SubscribeAgain: a new mode replaces the old one.
SubscribeReplaces ==
    /\ ReadsSubscribe
    /\ subscription # "none"
    /\ subscription' = Head(inbox).req.mode
    /\ ~closed /\ replies' = Append(replies, "SUBSCRIBE_ACK")
    /\ Continue
    /\ UNCHANGED <<generating, timers>>

\* handleSubscribe for a connection that has a subscription, of this mode or
\* of the other.
SubscribeAgain ==
    /\ ReadsSubscribe
    /\ subscription # "none"
    /\ Send(<<IF Head(inbox).req.mode = subscription THEN "ALREADY_SUBSCRIBED"
                                                     ELSE "INVALID_SUBSCRIPTION",
              "INVALID_MESSAGE">>)
    /\ Return
    /\ UNCHANGED <<subscription, generating>>

\* The deferred calls of handleConnection.  None of them closes the connection.
Unregister ==
    /\ phase = "returned"
    /\ phase' = "done"
    /\ registered' = FALSE
    /\ UNCHANGED <<inbox, subscription, generating, client, server, listed, closed, failed,
                   timers, replies>>

------------------------------------------------------------------------------
(* The others                                                              *)

\* The AfterFunc expires: handleHeartbeatTimeout.
HandleHeartbeatTimeout ==
    /\ closeTimer = 0
    /\ closed' = TRUE
    /\ closeTimer' = Stopped
    /\ UNCHANGED <<phase, inbox, subscription, generating, client, server, listed, failed,
                   registered, readTimer, heartbeatTimer, silence, replies>>

\* Stop, or Shutdown once its time is up, cancels the context.
Cancel ==
    /\ server = "up" /\ server' = "cancelled"
    /\ UNCHANGED <<phase, inbox, subscription, generating, client, listed, closed, failed,
                   registered, timers, replies>>

\* Then closeAllConnections lists the registered connections under the lock...
ListConnections ==
    /\ server = "cancelled" /\ server' = "sweeping"
    /\ listed' = registered
    /\ UNCHANGED <<phase, inbox, subscription, generating, client, closed, failed,
                   registered, timers, replies>>

\* ... and closes those it has listed.
CloseAllConnections ==
    /\ server = "sweeping" /\ server' = "swept"
    /\ closed' = (closed \/ listed)
    /\ UNCHANGED <<phase, inbox, subscription, generating, client, listed, failed,
                   registered, timers, replies>>

\* The delivery goroutines report a batch they could not queue: see Delivery.
DeliveryFails ==
    /\ generating # "none" /\ phase \in {"select", "read"} /\ ~failed
    /\ failed' = TRUE
    /\ UNCHANGED <<phase, inbox, subscription, generating, client, server, listed,
                   closed, registered, timers, replies>>

\* The client does its part of the handshake, well or not, sends a frame, or
\* hangs up.
Client ==
    /\ ~hungUp
    /\ \/ /\ hello = "none" /\ hello' \in {"good", "bad"}
          /\ UNCHANGED <<framesSent, hungUp, inbox>>
       \/ /\ hello = "good" /\ framesSent < MaxFrames
          /\ \E f \in Frames : inbox' = Append(inbox, f)
          /\ framesSent' = framesSent + 1
          /\ UNCHANGED <<hello, hungUp>>
       \/ hungUp' = TRUE /\ UNCHANGED <<hello, framesSent, inbox>>
    /\ UNCHANGED <<phase, subscription, generating, server, listed, closed, failed,
                   registered, timers, replies>>

Down(t) == IF t > 0 THEN t - 1 ELSE t

\* Time passes: see the header.
Tick ==
    /\ closeTimer # 0
    /\ \/ phase = "accepted" /\ hello = "none" /\ ~hungUp
       \/ phase \in {"first", "read"} /\ inbox = <<>> /\ ~ReadFails
       \/ phase = "done"
    /\ readTimer' = Down(readTimer)
    /\ heartbeatTimer' = Down(heartbeatTimer)
    /\ closeTimer' = Down(closeTimer)
    /\ silence' = IF silence > HeartbeatTimeout THEN silence ELSE silence + 1
    /\ UNCHANGED <<phase, inbox, subscription, generating, world, replies>>

------------------------------------------------------------------------------

\* The steps of the connection's goroutine.
Goroutine ==
    \/ Register \/ ProcessConnection \/ FirstReadFails \/ FirstNotAuth
    \/ AuthRefused \/ AuthAccepted \/ HandleEnds \/ StartRead \/ ReadError \/ Refuse
    \/ HandleHeartbeat \/ Subscribe \/ SubscribeAgain \/ Unregister

Next ==
    \/ Goroutine \/ HandleHeartbeatTimeout \/ Cancel \/ ListConnections
    \/ CloseAllConnections \/ DeliveryFails \/ Client \/ Tick

Spec == Init /\ [][Next]_vars

\* The goroutine runs, timers expire and time passes.  Nothing is asked of the
\* client, of the delivery goroutines or of whoever stops the server.
FairSpec ==
    Spec /\ WF_vars(Goroutine) /\ WF_vars(HandleHeartbeatTimeout) /\ WF_vars(Tick)

------------------------------------------------------------------------------

Replied(code) == \E i \in DOMAIN replies : replies[i] = code

\* The client sees the outcome of AUTH before anything else: what the server
\* answers first is AUTH_ACK or a refusal, and a refusal is all it answers.
AuthFirst ==
    replies # <<>> =>
        \/ replies[1] = "AUTH_ACK"
        \/ replies[1] \in {"AUTH_REQUIRED", "INVALID_AUTH"} /\ Len(replies) = 1

\* An error frame ends the session: once one has been sent the server reads no
\* further frame (Handle and processConnection return after every error).
ErrorIsFinal ==
    (\E e \in Errors : Replied(e)) => phase \in {"returned", "done"}

\* Exactly one confirmation was sent when data is generated and none when it
\* is not, and the data is of the mode that is stored as the subscription,
\* whatever other subscriptions the client tried and whichever send was refused.
ConfirmedOnce ==
    /\ generating # "none" => generating = subscription
    /\ \A i, j \in DOMAIN replies :
          replies[i] = "SUBSCRIBE_ACK" /\ replies[j] = "SUBSCRIBE_ACK" => i = j
    /\ generating # "none" <=> Replied("SUBSCRIBE_ACK")

\* When closeAllConnections is done, no handler serves an open connection: one
\* that it had not listed either has ended or, having registered too late to be
\* listed, finds the context cancelled before it reads from the client.  So Stop
\* and Shutdown need not wait for a client that goes on talking.
SweptIsClosed ==
    server = "swept" /\ phase \in {"first", "select", "read"} => closed

\* A client that was accepted and stays silent for longer than HeartbeatTimeout
\* has been closed, even though Handle polls its own timer only between frames
\* and waits up to ReadTimeout for one.
SilentIsClosed ==
    Replied("AUTH_ACK") /\ silence > HeartbeatTimeout => closed

\* The connection's goroutine ends, whatever the client does after the
\* handshake: the read deadline bounds the first read, the AfterFunc the rest.
HandlerEnds == (phase = "accepted" /\ hello # "none") ~> phase = "done"

\* While Handle waits for a frame, the heartbeat timeout closes the connection
\* only if the last heartbeat is HeartbeatTimeout old (or arrived in this very
\* instant, too late to count).
TimeoutOnlyWhenSilent ==
    [][HandleHeartbeatTimeout /\ phase = "read"
          => silence = 0 \/ silence >= HeartbeatTimeout]_vars
================================================================================
