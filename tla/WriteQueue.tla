------------------------------ MODULE WriteQueue ------------------------------
(***************************************************************************)
(* The outgoing half of a Connection (internal/server/connection.go): the  *)
(* bounded channel writeQueue, the goroutines that send frames through     *)
(* WriteFrameAsync and WriteFrameSync, the single writeLoop goroutine that *)
(* drains the channel to the socket, and Close.  Every atomic load, add,   *)
(* channel operation and socket write is a step of its own, so that        *)
(* goroutines interleave as they do in the program.                        *)
(*                                                                         *)
(* Abstracted: what a frame contains (a frame is the call that sent it)    *)
(* and the clock (whether an item's deadline has passed, a WriteFrameSync  *)
(* timer has fired or a socket write fails is a nondeterministic choice).  *)
(***************************************************************************)
EXTENDS Integers, Sequences, FiniteSets, Functions

CONSTANTS Writers,            \* goroutines that send frames on the connection
          Pooled,             \* those whose panics a pool worker recovers
          Closers,            \* goroutines that call Close
          MaxWriteQueueSize,  \* config.MaxWriteQueueSize
          SeqSpace,           \* values of BatchSequence (2^32 in the program)
          MaxCalls            \* bound: calls the writers make in all

ASSUME QueueAssumption ==
    /\ IsFiniteSet(Writers)
    /\ Pooled \subseteq Writers
    /\ MaxWriteQueueSize \in Nat \ {0}
    /\ SeqSpace \in Nat \ {0}
    /\ MaxCalls \in Nat

VARIABLES
    closed,         \* c.closed
    chanClosed,     \* close(c.writeQueue) has run
    connClosed,     \* c.conn.Close() has run
    closer,         \* where each caller of Close is
    writeQueue,     \* the channel's buffer
    writeQueueLen,  \* c.writeQueueLen
    messagesSent,   \* c.messagesSent
    pc,             \* where each writer is in its call
    kind,           \* what each writer's call sends
    seq,            \* the BatchSequence stamped on each writer's batch
    ret,            \* what each writer's last call returned
    done,           \* the done channel of each WriteFrameSync call
    loop,           \* where writeLoop is
    item,           \* the item in writeLoop's hand
    outcome,        \* what became of that item
    calls,          \* ghost: calls each writer has begun
    wire,           \* ghost: frames written to the socket, in order
    tickets         \* ghost: items ever sent on the channel

closeVars  == <<closed, chanClosed, connClosed, closer>>
queueVars  == <<writeQueue, tickets>>
callVars   == <<kind, seq, calls>>
loopVars   == <<loop, item, outcome, wire>>
vars == <<closeVars, queueVars, writeQueueLen, messagesSent, pc, ret, callVars, done,
          loopVars>>

Kinds    == {"frame", "batch", "sync"}
Labels   == {"idle", "checkClosed", "checkLen", "add", "send", "rollback", "wait",
             "panicked"}
Outcomes == {"none", "ok", "closed", "expired", "failed"}
Returns  == Outcomes \cup {"full", "timeout"}
Items    == [from : Writers, call : Nat, sync : BOOLEAN, seq : Nat, ticket : Nat]
NoItem   == <<>>

\* A panic outside a pool worker ends the program.
Crashed == \E w \in Writers \ Pooled : pc[w] = "panicked"

Init ==
    /\ closed = FALSE /\ chanClosed = FALSE /\ connClosed = FALSE
    /\ closer = [c \in Closers |-> "idle"]
    /\ writeQueue = <<>> /\ writeQueueLen = 0 /\ messagesSent = 0
    /\ pc = [w \in Writers |-> "idle"]
    /\ kind = [w \in Writers |-> "frame"]
    /\ seq = [w \in Writers |-> 0]
    /\ ret = [w \in Writers |-> "none"]
    /\ done = [w \in Writers |-> "none"]
    /\ loop = "recv" /\ item = NoItem /\ outcome = "none"
    /\ calls = [w \in Writers |-> 0] /\ wire = <<>> /\ tickets = 0

------------------------------------------------------------------------------
(* The senders: WriteFrameAsync, WriteFrameSync and SendDataBatch.         *)

Goto(w, label) == pc' = [pc EXCEPT ![w] = label] /\ UNCHANGED ret
Return(w, r)   == pc' = [pc EXCEPT ![w] = "idle"] /\ ret' = [ret EXCEPT ![w] = r]

\* BatchSequence: uint32(atomic.AddUint64(&c.messagesSent, 1))
BatchSequence == (messagesSent + 1) % SeqSpace

AllCalls == FoldFunction(LAMBDA a, b : a + b, 0, calls)

CallTaking(w, k, n) ==
    /\ pc[w] = "idle"
    /\ AllCalls < MaxCalls
    /\ pc' = [pc EXCEPT ![w] = "checkClosed"]
    /\ ret' = [ret EXCEPT ![w] = "none"]
    /\ kind' = [kind EXCEPT ![w] = k]
    /\ calls' = [calls EXCEPT ![w] = @ + 1]
    /\ seq' = [seq EXCEPT ![w] = IF k = "batch" THEN BatchSequence ELSE 0]
    /\ messagesSent' = IF k = "batch" THEN messagesSent + n ELSE messagesSent
    /\ UNCHANGED <<closeVars, queueVars, writeQueueLen, done, loopVars>>

\* Mutant of Call: the sequence number is computed but not taken.
CallWithoutAdd(w, k) == CallTaking(w, k, 0)

\* A writer begins a call.  SendDataBatch stamps its batch before it calls
\* WriteFrame, with the counter that writeLoop also advances.
Call(w, k) == CallTaking(w, k, 1)

\* Mutant of CheckClosed: the connection's state is not looked at.
CheckNothing(w) ==
    /\ pc[w] = "checkClosed"
    /\ Goto(w, IF kind[w] = "sync" THEN "add" ELSE "checkLen")
    /\ UNCHANGED <<closeVars, queueVars, writeQueueLen, messagesSent, callVars, done,
                   loopVars>>

\* if c.closed.Load() { return "connection closed" }
CheckClosed(w) ==
    /\ pc[w] = "checkClosed"
    /\ IF closed
       THEN Return(w, "closed")
       ELSE Goto(w, IF kind[w] = "sync" THEN "add" ELSE "checkLen")
    /\ UNCHANGED <<closeVars, queueVars, writeQueueLen, messagesSent, callVars, done,
                   loopVars>>

\* WriteFrameAsync's backpressure test, on the counter and not on the channel.
CheckCapacity(w) ==
    /\ pc[w] = "checkLen"
    /\ IF writeQueueLen >= MaxWriteQueueSize THEN Return(w, "full") ELSE Goto(w, "add")
    /\ UNCHANGED <<closeVars, queueVars, writeQueueLen, messagesSent, callVars, done,
                   loopVars>>

\* atomic.AddInt32(&c.writeQueueLen, 1)
Reserve(w) ==
    /\ pc[w] = "add"
    /\ writeQueueLen' = writeQueueLen + 1
    /\ Goto(w, "send")
    /\ UNCHANGED <<closeVars, queueVars, messagesSent, callVars, done, loopVars>>

Item(w) == [from |-> w, call |-> calls[w], sync |-> kind[w] = "sync",
            seq |-> seq[w], ticket |-> tickets + 1]

\* case c.writeQueue <- item: into the buffer, or a panic on a closed channel.
Send(w) ==
    /\ pc[w] = "send"
    /\ \/ chanClosed /\ Goto(w, "panicked") /\ UNCHANGED queueVars
       \/ /\ ~chanClosed
          /\ Len(writeQueue) < MaxWriteQueueSize
          /\ writeQueue' = Append(writeQueue, Item(w))
          /\ tickets' = tickets + 1
          /\ IF kind[w] = "sync" THEN Goto(w, "wait") ELSE Return(w, "ok")
    /\ UNCHANGED <<closeVars, writeQueueLen, messagesSent, callVars, done, loopVars>>

\* The other case of each select: a full buffer makes WriteFrameAsync give up
\* at once, the timer can make WriteFrameSync give up at any moment.
GiveUp(w) ==
    /\ pc[w] = "send"
    /\ kind[w] = "sync" \/ (~chanClosed /\ Len(writeQueue) >= MaxWriteQueueSize)
    /\ Goto(w, "rollback")
    /\ UNCHANGED <<closeVars, queueVars, writeQueueLen, messagesSent, callVars, done,
                   loopVars>>

RollbackBy(w, n) ==
    /\ pc[w] = "rollback"
    /\ writeQueueLen' = writeQueueLen - n
    /\ Return(w, IF kind[w] = "sync" THEN "timeout" ELSE "full")
    /\ UNCHANGED <<closeVars, queueVars, messagesSent, callVars, done, loopVars>>

\* Mutant of Rollback: the reservation of a call that gave up is kept.
KeepReservation(w) == RollbackBy(w, 0)

\* atomic.AddInt32(&c.writeQueueLen, -1) on the path that gave up.
Rollback(w) == RollbackBy(w, 1)

\* return <-done
Await(w) ==
    /\ pc[w] = "wait"
    /\ done[w] # "none"
    /\ Return(w, done[w])
    /\ done' = [done EXCEPT ![w] = "none"]
    /\ UNCHANGED <<closeVars, queueVars, writeQueueLen, messagesSent, callVars, loopVars>>

------------------------------------------------------------------------------
(* writeLoop                                                               *)

\* for item := range c.writeQueue
Receive ==
    /\ loop = "recv"
    /\ writeQueue # <<>>
    /\ item' = Head(writeQueue)
    /\ writeQueue' = Tail(writeQueue)
    /\ loop' = "check"
    /\ UNCHANGED <<closeVars, tickets, writeQueueLen, messagesSent, pc, ret, callVars,
                   done, outcome, wire>>

\* The range ends on a closed and drained channel.
RangeEnd ==
    /\ loop = "recv"
    /\ writeQueue = <<>>
    /\ chanClosed
    /\ loop' = "exited"
    /\ UNCHANGED <<closeVars, queueVars, writeQueueLen, messagesSent, pc, ret, callVars,
                   done, item, outcome, wire>>

\* c.closed and the item's deadline are looked at before the write.
CheckItem ==
    /\ loop = "check"
    /\ \/ closed /\ outcome' = "closed" /\ loop' = "signal"
       \/ ~closed /\ outcome' = "expired" /\ loop' = "signal"
       \/ ~closed /\ outcome' = "none" /\ loop' = "write"
    /\ UNCHANGED <<closeVars, queueVars, writeQueueLen, messagesSent, pc, ret, callVars,
                   done, item, wire>>

\* c.writer.WriteFrame(item.frame), which a deadline or the peer can fail.
WriteItem ==
    /\ loop = "write"
    /\ loop' = "signal"
    /\ \/ /\ outcome' = "ok"
          /\ wire' = Append(wire, item)
          /\ messagesSent' = messagesSent + 1
       \/ /\ outcome' = "failed"
          /\ UNCHANGED <<wire, messagesSent>>
    /\ UNCHANGED <<closeVars, queueVars, writeQueueLen, pc, ret, callVars, done, item>>

SignalAs(o) ==
    /\ loop = "signal"
    /\ loop' = "release"
    /\ done' = IF item.sync THEN [done EXCEPT ![item.from] = o] ELSE done
    /\ UNCHANGED <<closeVars, queueVars, writeQueueLen, messagesSent, pc, ret, callVars,
                   item, outcome, wire>>

\* Mutant of Signal: done reports success whatever became of the item.
SignalSuccess == SignalAs("ok")

\* Mutant of Signal: an item dropped because of Close is not answered.
SignalUnlessClosed == SignalAs(IF outcome = "closed" THEN "none" ELSE outcome)

\* item.done <- err; close(item.done)
Signal == SignalAs(outcome)

ReleaseTo(label) ==
    /\ loop = "release"
    /\ writeQueueLen' = writeQueueLen - 1
    /\ loop' = label
    /\ UNCHANGED <<closeVars, queueVars, messagesSent, pc, ret, callVars, done, item,
                   outcome, wire>>

\* Mutant of Release: a failed write does not end the loop.
ReleaseAndContinue == ReleaseTo("recv")

\* atomic.AddInt32(&c.writeQueueLen, -1); break on a failed write.
Release == ReleaseTo(IF outcome = "failed" THEN "exited" ELSE "recv")

------------------------------------------------------------------------------
(* Close                                                                   *)

\* c.closed.CompareAndSwap(false, true): the loser returns at once.
CloseSwap(c) ==
    /\ closer[c] = "idle"
    /\ closed' = TRUE
    /\ closer' = [closer EXCEPT ![c] = IF closed THEN "returned" ELSE "swapped"]
    /\ UNCHANGED <<chanClosed, connClosed, queueVars, writeQueueLen, messagesSent, pc,
                   ret, callVars, done, loopVars>>

CloseChannelTo(c, b) ==
    /\ closer[c] = "swapped"
    /\ chanClosed' = b
    /\ closer' = [closer EXCEPT ![c] = "waiting"]
    /\ UNCHANGED <<closed, connClosed, queueVars, writeQueueLen, messagesSent, pc, ret,
                   callVars, done, loopVars>>

\* Mutant of CloseChannel: the channel is left open.
LeaveChannelOpen(c) == CloseChannelTo(c, chanClosed)

\* close(c.writeQueue)
CloseChannel(c) == CloseChannelTo(c, TRUE)

\* c.writeQueueWg.Wait(); c.conn.Close()
CloseSocket(c) ==
    /\ closer[c] = "waiting"
    /\ loop = "exited"
    /\ connClosed' = TRUE
    /\ closer' = [closer EXCEPT ![c] = "returned"]
    /\ UNCHANGED <<closed, chanClosed, queueVars, writeQueueLen, messagesSent, pc, ret,
                   callVars, done, loopVars>>

------------------------------------------------------------------------------

WriterStep(w) ==
    /\ ~Crashed
    /\ \/ CheckClosed(w) \/ CheckCapacity(w) \/ Reserve(w)
       \/ Send(w) \/ GiveUp(w) \/ Rollback(w) \/ Await(w)

LoopStep ==
    /\ ~Crashed
    /\ Receive \/ RangeEnd \/ CheckItem \/ WriteItem \/ Signal \/ Release

CloseStep(c) == ~Crashed /\ (CloseChannel(c) \/ CloseSocket(c))

Next ==
    \/ \E w \in Writers, k \in Kinds : ~Crashed /\ Call(w, k)
    \/ \E w \in Writers : WriterStep(w)
    \/ LoopStep
    \/ \E c \in Closers : ~Crashed /\ CloseSwap(c)
    \/ \E c \in Closers : CloseStep(c)

Spec == Init /\ [][Next]_vars

\* Goroutines that can run do run; whoever uses the connection may stop doing
\* so.  A socket write ends because SetWriteDeadline bounds it.
FairSpec ==
    /\ Spec
    /\ \A w \in Writers : WF_vars(WriterStep(w))
    /\ WF_vars(LoopStep)
    /\ \A c \in Closers : WF_vars(CloseStep(c))

------------------------------------------------------------------------------
(* Properties                                                              *)

TypeOK ==
    /\ closed \in BOOLEAN /\ chanClosed \in BOOLEAN /\ connClosed \in BOOLEAN
    /\ closer \in [Closers -> {"idle", "swapped", "waiting", "returned"}]
    /\ writeQueue \in Seq(Items) /\ wire \in Seq(Items)
    /\ writeQueueLen \in Int /\ messagesSent \in Nat /\ tickets \in Nat
    /\ pc \in [Writers -> Labels]
    /\ kind \in [Writers -> Kinds]
    /\ seq \in [Writers -> Nat]
    /\ calls \in [Writers -> Nat]
    /\ ret \in [Writers -> Returns]
    /\ done \in [Writers -> Outcomes]
    /\ loop \in {"recv", "check", "write", "signal", "release", "exited"}
    /\ item \in Items \cup {NoItem}
    /\ outcome \in Outcomes

\* Writers whose reservation is not in the channel: on their way to the send,
\* taking it back, or dead between the two.
Reserving == {w \in Writers : pc[w] \in {"send", "rollback", "panicked"}}

\* writeLoop has taken an item from the channel and not counted it down yet.
Holding == loop \in {"check", "write", "signal", "release"}

\* The counter that backpressure is decided on counts exactly the items in the
\* channel, the one writeLoop holds and the calls that have reserved a place:
\* whatever the interleaving of WriteFrameAsync, WriteFrameSync, writeLoop and
\* Close, no reservation is lost or kept.
QueueAccounting ==
    writeQueueLen = Len(writeQueue) + Cardinality(Reserving)
                    + (IF Holding THEN 1 ELSE 0)

\* A WriteFrameSync call reports success exactly if its frame was written, also
\* when its answer races with Close, an expired deadline or its own timer.
OnWire(w) == \E i \in DOMAIN wire : wire[i].from = w /\ wire[i].call = calls[w]
SyncResultTrue ==
    \A w \in Writers :
        kind[w] = "sync" /\ pc[w] = "idle" /\ ret[w] # "none" => (ret[w] = "ok" <=> OnWire(w))

\* The answer to w's WriteFrameSync is there, to come, or lost with writeLoop.
ItemOf(i, w) == i.sync /\ i.from = w /\ i.call = calls[w]
Answerable(w) ==
    \/ done[w] # "none"
    \/ \E i \in DOMAIN writeQueue : ItemOf(writeQueue[i], w)
    \/ loop \in {"check", "write", "signal"} /\ ItemOf(item, w)
    \/ loop = "exited" /\ outcome = "failed"

\* A WriteFrameSync call that waits on done (it has no timer there) has its answer,
\* its item is still in the channel or in writeLoop's hand, or writeLoop has
\* broken off after a failed write: Close and expired deadlines strand nobody.
SyncNotStranded == \A w \in Writers : pc[w] = "wait" => Answerable(w)

\* As long as the counter has not wrapped around, two batches on the wire never
\* carry the same BatchSequence and the batches of one goroutine carry
\* increasing ones, although writeLoop advances the same counter.
BatchSequencesOrdered ==
    messagesSent < SeqSpace =>
        \A i, j \in DOMAIN wire :
            i < j /\ wire[i].seq # 0 /\ wire[j].seq # 0 =>
                /\ wire[i].seq # wire[j].seq
                /\ wire[i].from = wire[j].from => wire[i].seq < wire[j].seq

\* The connection as its users see it: the frames in the channel and in the
\* hand of writeLoop are pending; WriteQueue implements FrameStream, so frames
\* are written in the order they were queued, each at most once, and never
\* after a failed write or on a closed socket.
InHand == IF loop \in {"check", "write"} THEN <<item>> ELSE <<>>
Stream == INSTANCE FrameStream WITH
              Capacity <- MaxWriteQueueSize + 1,
              pending <- InHand \o writeQueue,
              sent <- wire,
              accepting <- ~chanClosed,
              severed <- outcome = "failed",
              shut <- connClosed
ImplementsFrameStream == Stream!Spec

\* No write overlaps or follows the close of the socket: Close waits for
\* writeLoop before c.conn.Close().
NoWriteAfterClose == [][connClosed => wire' = wire]_vars

\* Close finishes: writeLoop empties the closed channel and the socket is
\* closed, however many frames are queued and whoever else sends or closes.
CloseCompletes == closed ~> (connClosed \/ Crashed)

\* A call that begins after Close has closed the channel never runs into the
\* closed channel.  (One that was under way may: the closed check and the send
\* are two steps.)
LateCallsSafe ==
    \A w \in Writers : [](chanClosed /\ pc[w] = "idle" => [](pc[w] # "panicked"))
==============================================================================
