------------------------------ MODULE SessionProofs ------------------------------
(***************************************************************************)
(* Proofs about Session for all timeouts, any number of frames and any set *)
(* of requests: what the client is told and when it is closed.             *)
(***************************************************************************)
EXTENDS Session, SequenceTheorems, TLAPS

\* What replies are once one or two more were sent and each was queued or refused:
\* the old ones are still there, and the new ones are among those that were sent.
LEMMA Sending ==
    ASSUME replies \in Seq(Codes), NEW sent \in Seq(Codes), Len(sent) \in 1..2,
           Send(sent)
    PROVE  /\ replies' \in Seq(Codes)
           /\ Len(replies') \in Len(replies)..(Len(replies) + Len(sent))
           /\ \A i \in 1..Len(replies) : replies'[i] = replies[i]
           /\ \A i \in (Len(replies) + 1)..Len(replies') :
                 \E k \in 1..Len(sent) : replies'[i] = sent[k]
<1>1. PICK q \in Queued(sent) : replies' = replies \o q
  BY DEF Send
<1>2. q = <<>> \/ q = sent \/ \E k \in 1..Len(sent) : q = <<sent[k]>>
  BY <1>1 DEF Queued
<1>3. /\ q \in Seq(Codes) /\ Len(q) \in 0..Len(sent)
      /\ \A j \in 1..Len(q) : \E k \in 1..Len(sent) : q[j] = sent[k]
  <2>1. CASE q = <<>>
    BY <2>1
  <2>2. CASE q = sent
    BY <2>2
  <2>3. ASSUME NEW k \in 1..Len(sent), q = <<sent[k]>>
        PROVE  q \in Seq(Codes) /\ Len(q) = 1 /\ q[1] = sent[k]
    <3>1. sent[k] \in Codes
      OBVIOUS
    <3>. QED
      BY <2>3, <3>1
  <2>. QED
    BY <1>2, <2>1, <2>2, <2>3
<1>4. /\ replies' \in Seq(Codes) /\ Len(replies') = Len(replies) + Len(q)
      /\ \A i \in 1..(Len(replies) + Len(q)) :
            replies'[i] = IF i <= Len(replies) THEN replies[i] ELSE q[i - Len(replies)]
  BY <1>1, <1>3, ConcatProperties
<1>5. Len(replies) \in Nat /\ Len(q) \in Nat /\ Len(sent) \in Nat
  BY <1>3
<1>6. \A i \in 1..Len(replies) : replies'[i] = replies[i]
  BY <1>4, <1>5
<1>7. ASSUME NEW i \in (Len(replies) + 1)..Len(replies')
      PROVE  \E k \in 1..Len(sent) : replies'[i] = sent[k]
  <2>1. i - Len(replies) \in 1..Len(q) /\ replies'[i] = q[i - Len(replies)]
    BY <1>4, <1>5
  <2>. QED
    BY <1>3, <2>1
<1>8. Len(replies') \in Len(replies)..(Len(replies) + Len(sent))
  BY <1>3, <1>4, <1>5
<1>. QED
  BY <1>4, <1>6, <1>7, <1>8

------------------------------------------------------------------------------
(* The steps, by what they do to the replies                               *)

\* Replies of these codes were added, n at most.
Extends(codes, n) ==
    /\ replies' \in Seq(Codes)
    /\ Len(replies') \in Len(replies)..(Len(replies) + n)
    /\ \A i \in 1..Len(replies) : replies'[i] = replies[i]
    /\ \A i \in (Len(replies) + 1)..Len(replies') : replies'[i] \in codes

\* The connection is closed, or it was open and time passes or not.
Clocks ==
    \/ closed'
    \/ /\ ~closed
       /\ \/ UNCHANGED <<silence, closeTimer>>
          \/ /\ closeTimer # 0 /\ closeTimer' = Down(closeTimer)
             /\ silence' = IF silence > HeartbeatTimeout THEN silence ELSE silence + 1

\* Nothing is said.
Quiet ==
    /\ Clocks
    /\ UNCHANGED <<replies, subscription, generating>>
    /\ \/ phase' = phase \/ phase' = "returned"
       \/ phase = "accepted" /\ phase' = "registered"
       \/ phase = "registered" /\ phase' = "first"
       \/ phase = "select" /\ phase' = "read"
       \/ phase = "returned" /\ phase' = "done"
    /\ phase = "done" => phase' = "done"

\* The client is accepted.
Accepting ==
    /\ phase = "first" /\ phase' = "select"
    /\ replies' = Append(replies, "AUTH_ACK")
    /\ UNCHANGED <<subscription, generating, closed>>
    /\ closeTimer' = HeartbeatTimeout /\ silence' = 0

\* A heartbeat is answered.
Ponging ==
    /\ phase = "read" /\ phase' = "select"
    /\ replies' = Append(replies, "PONG")
    /\ UNCHANGED <<subscription, generating, closeTimer, closed>>
    /\ silence' = 0

\* A subscription is confirmed.
Confirming ==
    /\ phase = "read" /\ phase' = "select"
    /\ replies' = Append(replies, "SUBSCRIBE_ACK")
    /\ subscription = "none" /\ subscription' # "none" /\ generating' = subscription'
    /\ UNCHANGED <<closeTimer, closed, silence>>

\* Errors end the session.
Refusing ==
    /\ phase' = "returned"
    /\ \/ phase = "first" /\ Extends({"AUTH_REQUIRED", "INVALID_AUTH"}, 1)
       \/ phase \in {"select", "read"} /\ Extends(Errors, 2)
    /\ UNCHANGED <<generating, closeTimer, closed>>
    /\ subscription' = subscription \/ subscription = "none"
    /\ silence' \in {silence, 0}

\* The frames the client has sent.
InboxType == inbox \in Seq(Frames)

\* A frame that was read is one the client may send, and the rest still are.
LEMMA Reading ==
    ASSUME InboxType, NEW at, NEW types, Reads(at, types)
    PROVE  InboxType' /\ Head(inbox) \in Frames /\ Head(inbox).type \in types
BY DEF InboxType, Reads

\* One error, alone or after another.
LEMMA SendingErrors ==
    ASSUME replies \in Seq(Codes), NEW codes \in SUBSET Codes
    PROVE  /\ \A c \in codes : Send(<<c>>) => Extends(codes, 1)
           /\ \A c, d \in codes : Send(<<c, d>>) => Extends(codes, 2)
<1>1. ASSUME NEW c \in codes
      PROVE  c \in Codes
  OBVIOUS
<1>2. ASSUME NEW c \in codes, Send(<<c>>) PROVE Extends(codes, 1)
  <2> DEFINE sent == <<c>>
  <2>1. sent \in Seq(Codes) /\ Len(sent) = 1 /\ sent[1] = c
    BY <1>1
  <2>2. \A k \in 1..Len(sent) : sent[k] \in codes
    BY <1>1, <2>1
  <2>3. Send(sent)
    BY <1>2
  <2>4. Extends(codes, Len(sent))
    <3> HIDE DEF sent
    <3>1. Len(sent) \in 1..2
      BY <2>1
    <3>2. /\ replies' \in Seq(Codes)
          /\ Len(replies') \in Len(replies)..(Len(replies) + Len(sent))
          /\ \A i \in 1..Len(replies) : replies'[i] = replies[i]
          /\ \A i \in (Len(replies) + 1)..Len(replies') :
                \E k \in 1..Len(sent) : replies'[i] = sent[k]
      BY <2>1, <2>3, <3>1, Sending
    <3>. QED
      BY <2>2, <3>2 DEF Extends
  <2>. QED
    BY <2>1, <2>4
<1>3. ASSUME NEW c \in codes, NEW d \in codes, Send(<<c, d>>)
      PROVE  Extends(codes, 2)
  <2> DEFINE sent == <<c, d>>
  <2>1. sent \in Seq(Codes) /\ Len(sent) = 2 /\ sent[1] = c /\ sent[2] = d
    BY <1>1
  <2>2. \A k \in 1..Len(sent) : sent[k] \in codes
    BY <1>1, <2>1
  <2>3. Send(sent)
    BY <1>3
  <2>4. Extends(codes, Len(sent))
    <3> HIDE DEF sent
    <3>1. Len(sent) \in 1..2
      BY <2>1
    <3>2. /\ replies' \in Seq(Codes)
          /\ Len(replies') \in Len(replies)..(Len(replies) + Len(sent))
          /\ \A i \in 1..Len(replies) : replies'[i] = replies[i]
          /\ \A i \in (Len(replies) + 1)..Len(replies') :
                \E k \in 1..Len(sent) : replies'[i] = sent[k]
      BY <2>1, <2>3, <3>1, Sending
    <3>. QED
      BY <2>2, <3>2 DEF Extends
  <2>. QED
    BY <2>1, <2>4
<1>. QED
  BY <1>2, <1>3

\* Every step is of one of these kinds.
Kinds == Quiet \/ Accepting \/ Ponging \/ Confirming \/ Refusing

\* The steps of Session are.
LEMMA StepKinds ==
    ASSUME replies \in Seq(Codes), InboxType, [Next]_vars PROVE InboxType' /\ Kinds
<1> USE DEF Kinds, world, client, timers
<1>a. \A c \in Errors : Send(<<c>>) => Extends(Errors, 1)
  BY SendingErrors DEF Codes
<1>b. \A n \in {1, 2} : Extends(Errors, n) => Extends(Errors, 2)
  BY DEF Extends
<1>c. \A c, d \in Errors : Send(<<c, d>>) => Extends(Errors, 2)
  BY SendingErrors DEF Codes
<1>d. \A c \in {"AUTH_REQUIRED", "INVALID_AUTH"} :
         Send(<<c>>) => Extends({"AUTH_REQUIRED", "INVALID_AUTH"}, 1)
  BY SendingErrors DEF Codes, Errors
<1>e. /\ Send(<<"INVALID_MESSAGE">>) => Extends(Errors, 2)
      /\ Send(<<"CHECKSUM_FAILED">>) => Extends(Errors, 2)
      /\ Send(<<"HEARTBEAT_TIMEOUT">>) => Extends(Errors, 2)
      /\ Send(<<"ALREADY_AUTHENTICATED">>) => Extends(Errors, 2)
  BY <1>a, <1>b DEF Errors
<1>1. CASE Register
  BY <1>1 DEF Register, Quiet, Clocks, InboxType
<1>0. CASE ProcessConnection
  BY <1>0 DEF ProcessConnection, ProcessWith, Quiet, Clocks, InboxType
<1>2. CASE FirstReadFails
  <2>1. InboxType' /\ phase = "first"
    BY <1>2, Reading DEF FirstReadFails, Reads, InboxType
  <2>. QED
    BY <1>2, <2>1 DEF FirstReadFails, Return, Leave, Quiet, Clocks
<1>3. CASE FirstNotAuth
  <2>1. InboxType'
    BY <1>3, Reading DEF FirstNotAuth
  <2>. QED
    BY <1>3, <1>d, <2>1 DEF FirstNotAuth, Reads, Return, Leave, Refusing
<1>4. CASE AuthRefused
  <2>1. InboxType'
    BY <1>4, Reading DEF AuthRefused
  <2>. QED
    BY <1>4, <1>d, <2>1 DEF AuthRefused, Reads, Return, Leave, Refusing
<1>5. CASE AuthAccepted
  <2>1. InboxType'
    BY <1>5, Reading DEF AuthAccepted, AcceptWith
  <2>. QED
    BY <1>5, <2>1 DEF AuthAccepted, AcceptWith, Reads, StartHandle, Return, Leave,
                      Accepting, Quiet, Clocks
<1>6. CASE HandleEnds
  BY <1>6, <1>e DEF HandleEnds, Return, Leave, Quiet, Clocks, Refusing, InboxType
<1>7. CASE StartRead
  BY <1>7 DEF StartRead, Quiet, Clocks, InboxType
<1>8. CASE ReadError
  <2>1. InboxType' /\ phase = "read"
    BY <1>8, Reading DEF ReadError, Reads, InboxType
  <2>2. Extends(Errors, 2)
    BY <1>8, <1>e DEF ReadError
  <2>. QED
    BY <1>8, <2>1, <2>2 DEF ReadError, Return, Leave, Refusing
<1>9. CASE Refuse
  <2>1. InboxType' /\ phase = "read"
    BY <1>9, Reading DEF Refuse, RefuseWith, HandleSubscribeRefuses, Reads
  <2>2. ASSUME HandleSubscribeRefuses PROVE Extends(Errors, 2)
    <3>1. CASE Send(<<"INVALID_MESSAGE", "INVALID_MESSAGE">>)
      BY <1>c, <3>1 DEF Errors
    <3>2. CASE Send(<<"INVALID_SUBSCRIPTION", "INVALID_MESSAGE">>)
      BY <1>c, <3>2 DEF Errors
    <3>. QED
      BY <2>2, <3>1, <3>2 DEF HandleSubscribeRefuses
  <2>3. Extends(Errors, 2)
    BY <1>9, <1>e, <2>2 DEF Refuse, RefuseWith
  <2>. QED
    BY <1>9, <2>1, <2>3 DEF Refuse, RefuseWith, Return, Leave, Refusing
<1>10. CASE HandleHeartbeat
  <2>1. InboxType' /\ phase = "read"
    BY <1>10, Reading DEF HandleHeartbeat, Reads
  <2>. QED
    BY <1>10, <1>e, <2>1 DEF HandleHeartbeat, Continue, Leave, Ponging,
                             Refusing
<1>11. CASE Subscribe
  <2>1. InboxType' /\ phase = "read"
    BY <1>11, Reading DEF Subscribe, ReadsSubscribe, Reads
  <2>2. Head(inbox).req.mode # "none"
    <3>1. Head(inbox).req \in Requests
      BY <1>11, Reading DEF Subscribe, ReadsSubscribe, Frames, Plain
    <3>. QED
      BY <3>1, SessionAssumption
  <2>. QED
    BY <1>11, <1>e, <2>1, <2>2 DEF Subscribe, Continue, Return, Leave, Confirming, Refusing
<1>12. CASE SubscribeAgain
  <2>1. InboxType' /\ phase = "read"
    BY <1>12, Reading DEF SubscribeAgain, ReadsSubscribe, Reads
  <2>2. Extends(Errors, 2)
    BY <1>12, <1>c DEF SubscribeAgain, Errors
  <2>. QED
    BY <1>12, <2>1, <2>2 DEF SubscribeAgain, Return, Leave, Refusing
<1>13. CASE Unregister
  BY <1>13 DEF Unregister, Quiet, Clocks, InboxType
<1>14. CASE \/ HandleHeartbeatTimeout \/ Cancel \/ ListConnections \/ CloseAllConnections
            \/ DeliveryFails \/ Tick
  <2>1. CASE HandleHeartbeatTimeout
    BY <2>1 DEF HandleHeartbeatTimeout, Quiet, Clocks, InboxType
  <2>2. CASE Cancel \/ ListConnections \/ DeliveryFails
    BY <2>2 DEF Cancel, ListConnections, DeliveryFails, Quiet, Clocks, InboxType
  <2>3. CASE CloseAllConnections
    <3>1. Clocks
      BY <2>3, Zenon DEF CloseAllConnections, Clocks, timers
    <3>. QED
      BY <2>3, <3>1 DEF CloseAllConnections, Quiet, InboxType
  <2>4. CASE Tick
    BY <2>4 DEF Tick, world, Quiet, Clocks, InboxType
  <2>. QED
    BY <1>14, <2>1, <2>2, <2>3, <2>4
<1>15. CASE Client
  BY <1>15 DEF Client, Quiet, Clocks, InboxType
<1>16. CASE UNCHANGED vars
  BY <1>16 DEF vars, Quiet, Clocks, InboxType
<1>. QED
  BY <1>0, <1>1, <1>2, <1>3, <1>4, <1>5, <1>6, <1>7, <1>8, <1>9, <1>10, <1>11, <1>12,
     <1>13, <1>14, <1>15, <1>16 DEF Next, Goroutine

------------------------------------------------------------------------------
(* What the client is told                                                 *)

\* Before the client is accepted nothing is said, then the ACK comes first and no
\* error until Handle ends.
Talk ==
    /\ replies \in Seq(Codes) /\ InboxType
    /\ phase \in {"accepted", "registered", "first"} => replies = <<>> /\ generating = "none"
    /\ phase \in {"select", "read"} =>
          /\ Len(replies) > 0 /\ replies[1] = "AUTH_ACK"
          /\ \A i \in 1..Len(replies) : replies[i] \notin Errors
    /\ phase \in {"accepted", "registered", "first", "select", "read", "returned", "done"}
    /\ AuthFirst

\* A reply is added.
LEMMA Appending ==
    ASSUME replies \in Seq(Codes), NEW c \in Codes, replies' = Append(replies, c)
    PROVE  /\ replies' \in Seq(Codes) /\ Len(replies') = Len(replies) + 1
           /\ \A i \in 1..Len(replies) : replies'[i] = replies[i]
           /\ replies'[Len(replies) + 1] = c
BY AppendProperties

\* Every kind of step keeps Talk.
LEMMA TalkStep == Talk /\ [Next]_vars => Talk'
<1> SUFFICES ASSUME Talk, [Next]_vars PROVE Talk'
  OBVIOUS
<1>1. InboxType' /\ Kinds
  BY StepKinds DEF Talk
<1>2. replies \in Seq(Codes) /\ Len(replies) \in Nat /\ DOMAIN replies = 1..Len(replies)
  BY DEF Talk
<1>3. CASE Quiet
  BY <1>1, <1>3 DEF Quiet, Talk, AuthFirst
<1>4. CASE Accepting
  <2>1. /\ replies' \in Seq(Codes) /\ Len(replies') = 1
        /\ replies'[1] = "AUTH_ACK"
    BY <1>2, <1>4, Appending DEF Accepting, Talk, Codes
  <2>. QED
    BY <1>1, <1>4, <2>1 DEF Accepting, Talk, AuthFirst, Errors
<1>5. ASSUME NEW c \in {"PONG", "SUBSCRIBE_ACK"}, replies' = Append(replies, c),
             phase = "read", phase' = "select"
      PROVE  Talk'
  <2>1. /\ replies' \in Seq(Codes) /\ Len(replies') = Len(replies) + 1
        /\ \A i \in 1..Len(replies) : replies'[i] = replies[i]
        /\ replies'[Len(replies) + 1] = c
    BY <1>2, <1>5, Appending DEF Codes
  <2>2. DOMAIN replies' = 1..(Len(replies) + 1)
    BY <2>1
  <2>3. \A i \in DOMAIN replies' : i \in 1..Len(replies) \/ i = Len(replies) + 1
    BY <1>2, <2>2
  <2>4. \A i \in 1..Len(replies') : replies'[i] \notin Errors
    BY <1>2, <1>5, <2>1, <2>2, <2>3 DEF Talk, Errors
  <2>. QED
    BY <1>1, <1>2, <1>5, <2>1, <2>2, <2>4 DEF Talk, AuthFirst
<1>6. CASE Refusing
  <2>1. ASSUME NEW codes, NEW n \in {1, 2}, Extends(codes, n)
        PROVE  /\ replies' \in Seq(Codes)
               /\ Len(replies') \in Len(replies)..(Len(replies) + n)
               /\ \A i \in 1..Len(replies) : replies'[i] = replies[i]
               /\ \A i \in (Len(replies) + 1)..Len(replies') : replies'[i] \in codes
    BY <2>1 DEF Extends
  <2>2. CASE phase = "first" /\ Extends({"AUTH_REQUIRED", "INVALID_AUTH"}, 1)
    <3>1. Len(replies) = 0
      BY <2>2 DEF Talk
    <3>2. /\ replies' \in Seq(Codes) /\ Len(replies') \in 0..1
          /\ \A i \in 1..Len(replies') : replies'[i] \in {"AUTH_REQUIRED", "INVALID_AUTH"}
      BY <2>1, <2>2, <3>1
    <3>3. AuthFirst'
      BY <3>2 DEF AuthFirst
    <3>. QED
      BY <1>1, <1>6, <3>2, <3>3 DEF Talk, Refusing
  <2>3. CASE phase \in {"select", "read"} /\ Extends(Errors, 2)
    <3>1. /\ replies' \in Seq(Codes) /\ Len(replies') >= Len(replies)
          /\ Len(replies) > 0 /\ replies'[1] = replies[1]
      BY <1>2, <2>1, <2>3 DEF Talk
    <3>2. AuthFirst'
      BY <2>3, <3>1 DEF Talk, AuthFirst
    <3>. QED
      BY <1>1, <1>6, <3>1, <3>2 DEF Talk, Refusing
  <2>. QED
    BY <1>6, <2>2, <2>3 DEF Refusing
<1>. QED
  BY <1>1, <1>3, <1>4, <1>5, <1>6 DEF Kinds, Ponging, Confirming

\* Talk holds throughout.
LEMMA TalkInvariant == Spec => []Talk
<1>1. Init => Talk
  BY DEF Init, Talk, InboxType, AuthFirst
<1>. QED
  BY <1>1, TalkStep, PTL DEF Spec

\* The client sees the outcome of AUTH before anything else.
THEOREM AuthFirstCorrect == Spec => []AuthFirst
<1>1. Talk => AuthFirst
  BY DEF Talk
<1>. QED
  BY <1>1, TalkInvariant, PTL

\* No frame is read after an error frame was sent.
THEOREM ErrorIsFinalCorrect == Spec => []ErrorIsFinal
<1>1. Talk => ErrorIsFinal
  BY DEF Talk, ErrorIsFinal, Replied
<1>. QED
  BY <1>1, TalkInvariant, PTL

\* A reply that was not there is one that was added.
LEMMA RepliedBefore ==
    ASSUME Talk, Kinds, NEW c \in {"AUTH_ACK", "SUBSCRIBE_ACK"}, Replied(c)'
    PROVE  Replied(c) \/ (c = "AUTH_ACK" /\ Accepting) \/ (c = "SUBSCRIBE_ACK" /\ Confirming)
<1>1. replies \in Seq(Codes) /\ Len(replies) \in Nat /\ DOMAIN replies = 1..Len(replies)
  BY DEF Talk
<1>2. PICK k \in DOMAIN replies' : replies'[k] = c
  BY DEF Replied
<1>3. CASE Quiet
  BY <1>2, <1>3 DEF Quiet, Replied
<1>4. ASSUME NEW d \in {"AUTH_ACK", "PONG", "SUBSCRIBE_ACK"},
             replies' = Append(replies, d), c # d
      PROVE  Replied(c)
  <2>1. /\ Len(replies') = Len(replies) + 1 /\ replies'[Len(replies) + 1] = d
        /\ \A i \in 1..Len(replies) : replies'[i] = replies[i]
        /\ replies' \in Seq(Codes)
    BY <1>1, <1>4, Appending DEF Codes
  <2>2. k \in 1..Len(replies)
    BY <1>1, <1>2, <1>4, <2>1
  <2>. QED
    BY <1>1, <1>2, <2>1, <2>2 DEF Replied
<1>5. CASE Refusing
  <2>1. PICK codes \in {{"AUTH_REQUIRED", "INVALID_AUTH"}, Errors}, n \in {1, 2} :
            Extends(codes, n)
    BY <1>5 DEF Refusing
  <2>2. c \notin codes
    BY <2>1 DEF Errors
  <2>3. k \in 1..Len(replies) \/ k \in (Len(replies) + 1)..Len(replies')
    BY <1>1, <1>2, <2>1 DEF Extends
  <2>. QED
    BY <1>1, <1>2, <2>1, <2>2, <2>3 DEF Extends, Replied
<1>. QED
  BY <1>3, <1>4, <1>5 DEF Kinds, Accepting, Ponging, Confirming

\* Nothing that was said is taken back.
LEMMA RepliedStays ==
    ASSUME Talk, Kinds PROVE
    /\ Len(replies') >= Len(replies) /\ replies' \in Seq(Codes)
    /\ \A i \in 1..Len(replies) : replies'[i] = replies[i]
<1>1. replies \in Seq(Codes) /\ Len(replies) \in Nat
  BY DEF Talk
<1>2. CASE Quiet
  BY <1>1, <1>2 DEF Quiet
<1>3. ASSUME NEW d \in {"AUTH_ACK", "PONG", "SUBSCRIBE_ACK"},
             replies' = Append(replies, d)
      PROVE  /\ Len(replies') = Len(replies) + 1 /\ replies' \in Seq(Codes)
             /\ \A i \in 1..Len(replies) : replies'[i] = replies[i]
  BY <1>1, <1>3, Appending DEF Codes
<1>4. CASE Refusing
  BY <1>1, <1>4 DEF Refusing, Extends
<1>. QED
  BY <1>1, <1>2, <1>3, <1>4 DEF Kinds, Accepting, Ponging, Confirming

------------------------------------------------------------------------------
(* Silence                                                                 *)

\* Until an accepted connection is closed the AfterFunc runs, and it expires no
\* later than HeartbeatTimeout after the last heartbeat.
TimerRuns ==
    Replied("AUTH_ACK") /\ ~closed =>
        /\ closeTimer \in Nat /\ silence \in Nat
        /\ silence + closeTimer <= HeartbeatTimeout

\* Every kind of step keeps TimerRuns.
LEMMA TimerStep == Talk /\ TimerRuns /\ [Next]_vars => TimerRuns'
<1> SUFFICES ASSUME Talk, TimerRuns, [Next]_vars, Replied("AUTH_ACK")', ~closed'
             PROVE  TimerRuns'
  BY DEF TimerRuns
<1>1. Kinds
  BY StepKinds DEF Talk
<1>2. HeartbeatTimeout \in Nat
  BY SessionAssumption
<1>3. CASE Accepting
  BY <1>2, <1>3 DEF Accepting, TimerRuns
<1>4. CASE ~Accepting
  <2>1. Replied("AUTH_ACK")
    BY <1>1, <1>4, RepliedBefore
  <2>2. CASE Quiet
    <3>1. closeTimer \in Nat /\ silence \in Nat /\ silence + closeTimer <= HeartbeatTimeout
      BY <2>1, <2>2 DEF TimerRuns, Quiet, Clocks
    <3>. QED
      BY <1>2, <2>2, <3>1 DEF TimerRuns, Quiet, Clocks, Down
  <2>3. CASE Ponging \/ Confirming \/ Refusing
    BY <1>2, <2>1, <2>3 DEF TimerRuns, Ponging, Confirming, Refusing
  <2>. QED
    BY <1>1, <1>4, <2>2, <2>3 DEF Kinds
<1>. QED
  BY <1>3, <1>4

\* An accepted client that is silent for longer than HeartbeatTimeout is closed,
\* for every timeout.
THEOREM SilentCorrect == Spec => []SilentIsClosed
<1>1. Init => TimerRuns
  BY DEF Init, TimerRuns, Replied
<1>2. TimerRuns => SilentIsClosed
  BY SessionAssumption DEF TimerRuns, SilentIsClosed
<1>. QED
  BY <1>1, <1>2, TimerStep, TalkInvariant, PTL DEF Spec

------------------------------------------------------------------------------
(* Subscriptions                                                           *)

\* Every kind of step keeps ConfirmedOnce.
LEMMA ConfirmedStep == Talk /\ ConfirmedOnce /\ [Next]_vars => ConfirmedOnce'
<1> SUFFICES ASSUME Talk, ConfirmedOnce, [Next]_vars PROVE ConfirmedOnce'
  OBVIOUS
<1> DEFINE ack == "SUBSCRIBE_ACK"
<1>1. Kinds
  BY StepKinds DEF Talk
<1>2. /\ Len(replies') >= Len(replies) /\ replies' \in Seq(Codes)
      /\ \A i \in 1..Len(replies) : replies'[i] = replies[i]
  BY <1>1, RepliedStays
<1>3. /\ DOMAIN replies = 1..Len(replies) /\ DOMAIN replies' = 1..Len(replies')
      /\ Len(replies) \in Nat /\ Len(replies') \in Nat
  BY <1>2 DEF Talk
<1>4. Replied(ack) => Replied(ack)'
  BY <1>2, <1>3 DEF Replied
<1>5. CASE Confirming
  <2>1. generating = "none" /\ ~Replied(ack)
    BY <1>5 DEF Confirming, ConfirmedOnce
  <2>2. Len(replies') = Len(replies) + 1 /\ replies'[Len(replies) + 1] = ack
    BY <1>5, Appending DEF Confirming, Talk, Codes
  <2>3. \A i \in DOMAIN replies' : replies'[i] = ack => i = Len(replies) + 1
    BY <1>2, <1>3, <2>1, <2>2 DEF Replied
  <2>4. Replied(ack)'
    BY <1>3, <2>2 DEF Replied
  <2>. QED
    BY <1>5, <2>3, <2>4 DEF Confirming, ConfirmedOnce
<1>6. CASE ~Confirming
  <2>1. Replied(ack)' <=> Replied(ack)
    BY <1>1, <1>4, <1>6, RepliedBefore
  <2>2. generating' = generating /\ (subscription' = subscription \/ subscription = "none")
    BY <1>1, <1>6 DEF Kinds, Quiet, Accepting, Ponging, Refusing
  <2>3. \A i \in DOMAIN replies' : replies'[i] = ack => i \in DOMAIN replies
    <3> SUFFICES ASSUME NEW i \in DOMAIN replies', replies'[i] = ack,
                        i \notin DOMAIN replies
                 PROVE  FALSE
      OBVIOUS
    <3>1. i \in (Len(replies) + 1)..Len(replies')
      BY <1>3
    <3>2. CASE Quiet
      BY <3>2 DEF Quiet
    <3>3. ASSUME NEW d \in {"AUTH_ACK", "PONG"}, replies' = Append(replies, d)
          PROVE  FALSE
      <4>1. Len(replies') = Len(replies) + 1 /\ replies'[Len(replies) + 1] = d
        BY <3>3, Appending DEF Talk, Codes
      <4>. QED
        BY <1>3, <3>1, <4>1
    <3>4. CASE Refusing
      BY <3>1, <3>4 DEF Refusing, Extends, Errors
    <3>. QED
      BY <1>1, <1>6, <3>2, <3>3, <3>4 DEF Kinds, Accepting, Ponging
  <2>4. \A i, j \in DOMAIN replies' :
           replies'[i] = ack /\ replies'[j] = ack => i = j
    BY <1>2, <1>3, <2>3 DEF ConfirmedOnce
  <2>. QED
    BY <2>1, <2>2, <2>4 DEF ConfirmedOnce
<1>. QED
  BY <1>5, <1>6

\* Data is generated for exactly the subscription that was confirmed, once.
THEOREM ConfirmedCorrect == Spec => []ConfirmedOnce
<1>1. Init => ConfirmedOnce
  BY DEF Init, ConfirmedOnce, Replied
<1>. QED
  BY <1>1, ConfirmedStep, TalkInvariant, PTL DEF Spec

------------------------------------------------------------------------------
(* Shutdown                                                                *)

Serving == phase \in {"first", "select", "read"}

\* A connection that is served is registered, so it is listed unless it begins to
\* be served after the listing, which the cancelled context prevents.
Reached ==
    /\ server \in {"up", "cancelled", "sweeping", "swept"}
    /\ phase = "registered" \/ Serving => registered
    /\ Serving /\ server \in {"sweeping", "swept"} => listed
    /\ SweptIsClosed

\* Every step keeps Reached.
LEMMA ReachedStep == Reached /\ [Next]_vars => Reached'
<1> SUFFICES ASSUME Reached, [Next]_vars PROVE Reached'
  OBVIOUS
<1> USE DEF Reached, Serving, SweptIsClosed, world, client
<1>1. CASE Register \/ ProcessConnection \/ Unregister
  BY <1>1 DEF Register, ProcessConnection, ProcessWith, Unregister
<1>2. ASSUME Serving, UNCHANGED world, phase' \in {"first", "select", "read", "returned"}
      PROVE  Reached'
  BY <1>2
<1>3. CASE FirstReadFails \/ FirstNotAuth \/ AuthRefused \/ AuthAccepted
  BY <1>2, <1>3 DEF FirstReadFails, FirstNotAuth, AuthRefused, AuthAccepted, AcceptWith,
                    StartHandle, Reads, Return, Leave
<1>4. CASE HandleEnds \/ StartRead \/ ReadError \/ Refuse
  BY <1>2, <1>4 DEF HandleEnds, StartRead, ReadError, Refuse, RefuseWith,
                    HandleSubscribeRefuses, Reads, Return, Leave
<1>5. CASE HandleHeartbeat \/ Subscribe \/ SubscribeAgain
  BY <1>2, <1>5 DEF HandleHeartbeat, Subscribe, SubscribeAgain, ReadsSubscribe, Reads,
                    Continue, Return, Leave
<1>6. CASE HandleHeartbeatTimeout \/ Cancel \/ ListConnections \/ CloseAllConnections
  BY <1>6 DEF HandleHeartbeatTimeout, Cancel, ListConnections, CloseAllConnections
<1>7. CASE DeliveryFails \/ Client \/ Tick \/ UNCHANGED vars
  BY <1>7 DEF DeliveryFails, Client, Tick, vars
<1>. QED
  BY <1>1, <1>3, <1>4, <1>5, <1>6, <1>7 DEF Next, Goroutine

\* Once closeAllConnections is done every connection that a handler serves is
\* closed, whenever it registered.
THEOREM SweptCorrect == Spec => []SweptIsClosed
<1>1. Init => Reached
  BY DEF Init, Reached, Serving, SweptIsClosed
<1>2. Reached => SweptIsClosed
  BY DEF Reached
<1>. QED
  BY <1>1, <1>2, ReachedStep, PTL DEF Spec
================================================================================
