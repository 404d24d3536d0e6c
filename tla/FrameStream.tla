----------------------------- MODULE FrameStream -----------------------------
(***************************************************************************)
(* What one connection promises to the goroutines that send frames on it:  *)
(* an ordered, bounded, at-most-once stream.  A frame accepted by the      *)
(* stream is written in the order of acceptance or discarded; after a      *)
(* failed write, and after the connection is shut, nothing more reaches    *)
(* the peer.  WriteQueue shows that Connection's writer goroutine, queue   *)
(* and Close implement it.                                                 *)
(***************************************************************************)
EXTENDS Naturals, Sequences

CONSTANT Capacity    \* frames the stream holds at most

VARIABLES pending,   \* accepted, neither written nor discarded, oldest first
          sent,      \* written to the peer, in order
          accepting, \* FALSE once the stream takes no more frames
          severed,   \* TRUE once a write failed
          shut       \* TRUE once the transport is closed

streamVars == <<pending, sent, accepting, severed, shut>>

Init ==
    /\ pending = <<>>
    /\ sent = <<>>
    /\ accepting = TRUE
    /\ severed = FALSE
    /\ shut = FALSE

\* One more frame, whatever it is, is taken if there is room.
Accept ==
    /\ accepting
    /\ Len(pending) < Capacity
    /\ Len(pending') = Len(pending) + 1
    /\ SubSeq(pending', 1, Len(pending)) = pending
    /\ UNCHANGED <<sent, accepting, severed, shut>>

\* The oldest frame reaches the peer.
Deliver ==
    /\ pending # <<>>
    /\ ~severed
    /\ ~shut
    /\ sent' = Append(sent, Head(pending))
    /\ pending' = Tail(pending)
    /\ UNCHANGED <<accepting, severed, shut>>

\* The oldest frame is thrown away: too late, or the stream is stopping.
Discard ==
    /\ pending # <<>>
    /\ ~severed
    /\ ~shut
    /\ pending' = Tail(pending)
    /\ UNCHANGED <<sent, accepting, severed, shut>>

\* Writing the oldest frame fails: the stream is dead from here on.
Sever ==
    /\ pending # <<>>
    /\ ~severed
    /\ ~shut
    /\ pending' = Tail(pending)
    /\ severed' = TRUE
    /\ UNCHANGED <<sent, accepting, shut>>

\* The owner stops the intake.
Stop ==
    /\ accepting
    /\ accepting' = FALSE
    /\ UNCHANGED <<pending, sent, severed, shut>>

\* The transport is closed once no frame is left to be written.
Shut ==
    /\ ~accepting
    /\ ~shut
    /\ severed \/ pending = <<>>
    /\ shut' = TRUE
    /\ UNCHANGED <<pending, sent, accepting, severed>>

Next ==
    \/ Accept
    \/ Deliver
    \/ Discard
    \/ Sever
    \/ Stop
    \/ Shut

Spec == Init /\ [][Next]_streamVars
==============================================================================
