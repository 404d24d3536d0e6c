------------------------------- MODULE Delivery -------------------------------
(***************************************************************************)
(* Data delivery on one subscribed connection: the tick generator of       *)
(* internal/server/handler.go, and deliveryLoop and flushBatch of          *)
(* internal/server/delivery_loop.go.  deliveryLoop appends ticks to        *)
(* h.pendingBatch; the batch is sent by the loop itself when it is full,   *)
(* and by a goroutine that time.AfterFunc starts when the batch window has *)
(* passed.  Nothing guards h.pendingBatch, so its reads and writes are     *)
(* separate steps: the slice is its length and the array behind it, which  *)
(* h.pendingBatch[:0] keeps.                                               *)
(*                                                                         *)
(* Abstracted: a tick is its number in the order the channel took them     *)
(* (the generator stamps the subscription's mode on each and a             *)
(* subscription never changes, so filterTicksBySubscription keeps all);    *)
(* SendDataBatch either queues its frame or fails, as WriteQueue has it.   *)
(* The bound MaxTicks stays below the array's capacity, so that append     *)
(* never moves to a new array.                                             *)
(***************************************************************************)
EXTENDS Integers, Sequences, FiniteSets, Functions

CONSTANTS Flushers,      \* goroutines available to run expired timers
          DataCap,       \* cap(h.dataChan)
          MaxBatchSize,  \* config.MaxBatchSize
          MaxDrops,      \* maxConsecutiveDrops
          MaxTicks       \* bound: ticks the channel takes

Loop == "deliveryLoop"
Goroutines == Flushers \cup {Loop}

ASSUME DeliveryAssumption ==
    /\ DataCap \in Nat \ {0} /\ MaxBatchSize \in Nat \ {0}
    /\ MaxDrops \in Nat \ {0} /\ MaxTicks \in Nat
    /\ Loop \notin Flushers

VARIABLES
    generating,  \* the generator goroutine is alive
    accepted,    \* ticks the channel has taken
    dataChan,    \* the channel's buffer
    array,       \* the array behind h.pendingBatch
    len,         \* len(h.pendingBatch)
    batchTimer,  \* h.batchTimer: a channel timer at first, then AfterFuncs
    loop,        \* where deliveryLoop is
    hand,        \* the tick it has received, 0 for none
    arming,      \* it came by the outer select, which arms the timer
    base,        \* the length append has read
    drops,       \* consecutiveDrops
    flush,       \* where each goroutine is in flushBatch
    count,       \* the length of the slice it passed to SendDataBatch
    batch,       \* the ticks it has marshalled
    errChan,     \* errors in the channel to Handle (capacity 2)
    ctxDone,     \* Handle has returned
    prompt,      \* ghost: goroutines finish what they do before the next tick
                 \* is generated or timer expires (a choice, made once)
    out,         \* ghost: ticks queued for the peer, in order
    failed       \* ghost: some SendDataBatch has failed

chanVars  == <<prompt, generating, accepted, dataChan>>
sliceVars == <<array, len>>
loopVars  == <<loop, hand, arming, base, drops>>
flushVars == <<flush, count, batch>>
endVars   == <<errChan, ctxDone, failed>>
vars == <<chanVars, sliceVars, batchTimer, loopVars, flushVars, endVars, out>>

Init ==
    /\ prompt \in BOOLEAN
    /\ generating = TRUE /\ accepted = 0 /\ dataChan = <<>>
    /\ array = [i \in 1..MaxTicks |-> 0] /\ len = 0
    /\ batchTimer = "channel"
    /\ loop = "select" /\ hand = 0 /\ arming = FALSE /\ base = 0 /\ drops = 0
    /\ flush = [g \in Goroutines |-> "idle"]
    /\ count = [g \in Goroutines |-> 0]
    /\ batch = [g \in Goroutines |-> <<>>]
    /\ errChan = 0 /\ ctxDone = FALSE /\ failed = FALSE
    /\ out = <<>>

\* Nobody is in the middle of handling a tick or a timer.
Quiet ==
    /\ dataChan = <<>> \/ loop = "exited"
    /\ loop \in {"select", "inner", "pressure", "exited"}
    /\ batchTimer # "expired" \/ loop = "exited"
    /\ \A g \in Goroutines : flush[g] = "idle"

------------------------------------------------------------------------------
(* The generator                                                           *)

\* case <-time.After(time.Second), in a select that has a default case: the
\* timer is made when the select is entered, and its channel is not ready then.
AfterReady == FALSE

\* The ticker fires: the tick goes to the channel, or the goroutine returns, or
\* the tick is dropped.
Generate ==
    /\ generating
    /\ prompt => Quiet
    /\ IF Len(dataChan) < DataCap
       THEN /\ accepted < MaxTicks
            /\ accepted' = accepted + 1
            /\ dataChan' = Append(dataChan, accepted + 1)
            /\ UNCHANGED generating
       ELSE /\ generating' = ~AfterReady
            /\ UNCHANGED <<accepted, dataChan>>
    /\ UNCHANGED <<prompt, sliceVars, batchTimer, loopVars, flushVars, endVars, out>>

------------------------------------------------------------------------------
(* flushBatch                                                              *)

\* The goroutine is done with flushBatch; deliveryLoop goes back to its select.
Leave(g) ==
    /\ flush' = [flush EXCEPT ![g] = "idle"]
    /\ loop' = IF g = Loop THEN "select" ELSE loop
    /\ UNCHANGED <<hand, arming, base, drops>>

FlushStepTo(g, label) == flush' = [flush EXCEPT ![g] = label] /\ UNCHANGED loopVars

\* if len(h.pendingBatch) == 0 { return }
CheckEmpty(g) ==
    /\ flush[g] = "check"
    /\ IF len = 0 THEN Leave(g) ELSE FlushStepTo(g, "pass")
    /\ UNCHANGED <<chanVars, sliceVars, batchTimer, count, batch, endVars, out>>

\* h.conn.SendDataBatch(h.pendingBatch): the slice is read again; SendDataBatch
\* has nothing to do for an empty one.
PassSlice(g) ==
    /\ flush[g] = "pass"
    /\ count' = [count EXCEPT ![g] = len]
    /\ FlushStepTo(g, IF len = 0 THEN "clear" ELSE "marshal")
    /\ UNCHANGED <<chanVars, sliceVars, batchTimer, batch, endVars, out>>

\* The batch is marshalled from the array.
MarshalBatch(g) ==
    /\ flush[g] = "marshal"
    /\ batch' = [batch EXCEPT ![g] = SubSeq(array, 1, count[g])]
    /\ FlushStepTo(g, "send")
    /\ UNCHANGED <<chanVars, sliceVars, batchTimer, count, endVars, out>>

QueueBatch(g) ==
    /\ flush[g] = "send"
    /\ out' = out \o batch[g]
    /\ batch' = [batch EXCEPT ![g] = <<>>]
    /\ FlushStepTo(g, "clear")
    /\ UNCHANGED <<chanVars, sliceVars, batchTimer, count, endVars>>

\* select { case errChan <- err: default: }
PushError == IF errChan < 2 THEN errChan + 1 ELSE errChan

SendFails(g, errors, kept) ==
    /\ flush[g] = "send"
    /\ failed' = TRUE
    /\ errChan' = errors
    /\ len' = kept
    /\ batch' = [batch EXCEPT ![g] = <<>>]
    /\ count' = [count EXCEPT ![g] = 0]
    /\ Leave(g)
    /\ UNCHANGED <<chanVars, array, batchTimer, ctxDone, out>>

\* Mutant of FailBatch: the batch is cleared although it was not queued.
FailAndClear(g) == SendFails(g, PushError, 0)

\* Mutant of FailBatch: the error is not passed on.
FailSilently(g) == SendFails(g, errChan, len)

\* The queue is full or closed: the error goes to Handle and the batch is kept.
FailBatch(g) == SendFails(g, PushError, len)

ClearTo(g, a, n) ==
    /\ flush[g] = "clear"
    /\ array' = a
    /\ len' = n
    /\ count' = [count EXCEPT ![g] = 0]
    /\ Leave(g)
    /\ UNCHANGED <<chanVars, batchTimer, batch, endVars, out>>

\* h.pendingBatch = h.pendingBatch[:0]
ClearBatch(g) == ClearTo(g, array, 0)

FlushBatch(g) ==
    \/ CheckEmpty(g) \/ PassSlice(g) \/ MarshalBatch(g)
    \/ QueueBatch(g) \/ FailBatch(g) \/ ClearBatch(g)

------------------------------------------------------------------------------
(* deliveryLoop                                                            *)

StopLoopWhen(ready) ==
    /\ loop = "select"
    /\ ready
    /\ loop' = "exited"
    /\ UNCHANGED <<chanVars, sliceVars, batchTimer, hand, arming, base, drops, flushVars,
                   endVars, out>>

\* Mutant of StopLoop: the loop takes the error itself instead of the context.
StopOnError == StopLoopWhen(errChan > 0)

\* case <-ctx.Done(): return
StopLoop == StopLoopWhen(ctxDone)

\* case ticks := <-h.dataChan, of the outer or of the inner select.
ReceiveTicks ==
    /\ loop \in {"select", "inner"}
    /\ dataChan # <<>>
    /\ hand' = Head(dataChan)
    /\ dataChan' = Tail(dataChan)
    /\ arming' = (loop = "select")
    /\ drops' = IF loop = "select" THEN 0 ELSE drops
    /\ loop' = "read"
    /\ UNCHANGED <<prompt, generating, accepted, sliceVars, batchTimer, base, flushVars, endVars,
                   out>>

\* append reads the slice ...
AppendRead ==
    /\ loop = "read"
    /\ base' = len
    /\ loop' = "write"
    /\ UNCHANGED <<chanVars, sliceVars, batchTimer, hand, arming, drops, flushVars,
                   endVars, out>>

\* ... and stores the tick and the new length.
AppendWrite ==
    /\ loop = "write"
    /\ array' = [array EXCEPT ![base + 1] = hand]
    /\ len' = base + 1
    /\ hand' = 0 /\ base' = 0
    /\ loop' = IF arming THEN "arm" ELSE "select"
    /\ arming' = FALSE
    /\ UNCHANGED <<chanVars, batchTimer, drops, flushVars, endVars, out>>

\* h.batchTimer.Stop(); h.batchTimer = time.AfterFunc(batchWindow, ...)
ArmTimer ==
    /\ loop = "arm"
    /\ batchTimer' = "func"
    /\ loop' = "full"
    /\ UNCHANGED <<chanVars, sliceVars, hand, arming, base, drops, flushVars, endVars, out>>

\* if len(h.pendingBatch) >= maxBatchSize { h.batchTimer.Stop(); h.flushBatch(errChan) }
CheckFull ==
    /\ loop = "full"
    /\ IF len >= MaxBatchSize
       THEN /\ batchTimer' = "off"
            /\ loop' = "flushing"
            /\ flush' = [flush EXCEPT ![Loop] = "check"]
       ELSE loop' = "select" /\ UNCHANGED <<batchTimer, flush>>
    /\ UNCHANGED <<chanVars, sliceVars, hand, arming, base, drops, count, batch, endVars,
                   out>>

\* case <-h.batchTimer.C: only the first timer has a channel.
FlushOnTimer ==
    /\ loop = "select"
    /\ batchTimer = "expired"
    /\ batchTimer' = "off"
    /\ loop' = "flushing"
    /\ flush' = [flush EXCEPT ![Loop] = "check"]
    /\ UNCHANGED <<chanVars, sliceVars, hand, arming, base, drops, count, batch, endVars,
                   out>>

\* The outer default, taken when no case is ready.
NothingReady ==
    /\ loop = "select"
    /\ ~ctxDone /\ dataChan = <<>> /\ batchTimer # "expired"
    /\ loop' = "inner"
    /\ UNCHANGED <<chanVars, sliceVars, batchTimer, hand, arming, base, drops, flushVars,
                   endVars, out>>

\* The inner default: the channel was empty.
StillNothing ==
    /\ loop = "inner"
    /\ dataChan = <<>>
    /\ loop' = "pressure"
    /\ UNCHANGED <<chanVars, sliceVars, batchTimer, hand, arming, base, drops, flushVars,
                   endVars, out>>

\* len(h.dataChan) >= cap(h.dataChan)*3/4, now that ticks may have come in.
CheckPressure ==
    /\ loop = "pressure"
    /\ LET n == IF Len(dataChan) >= (DataCap * 3) \div 4 THEN drops + 1 ELSE drops
       IN  /\ drops' = n
           /\ IF n # drops /\ n >= MaxDrops
              THEN /\ loop' = "exited"
                   /\ errChan' = PushError
              ELSE loop' = "select" /\ UNCHANGED errChan
    /\ UNCHANGED <<chanVars, sliceVars, batchTimer, hand, arming, base, flushVars,
                   ctxDone, failed, out>>

LoopStep ==
    \/ StopLoop \/ ReceiveTicks \/ AppendRead \/ AppendWrite \/ ArmTimer \/ CheckFull
    \/ FlushOnTimer \/ NothingReady \/ StillNothing \/ CheckPressure
    \/ FlushBatch(Loop)

------------------------------------------------------------------------------
(* Timers and Handle                                                       *)

\* The first timer's channel becomes ready.
ChannelTimerExpires ==
    /\ batchTimer = "channel"
    /\ prompt => Quiet
    /\ batchTimer' = "expired"
    /\ UNCHANGED <<chanVars, sliceVars, loopVars, flushVars, endVars, out>>

\* The batch window has passed: a goroutine runs flushBatch.
WindowPasses(g) ==
    /\ batchTimer = "func"
    /\ flush[g] = "idle"
    /\ prompt => Quiet
    /\ batchTimer' = "off"
    /\ flush' = [flush EXCEPT ![g] = "check"]
    /\ UNCHANGED <<chanVars, sliceVars, loopVars, count, batch, endVars, out>>

\* Handle returns: the deferred Stop is that of the timer Handle made, and the
\* context of the loop is cancelled.
Returned == IF batchTimer \in {"channel", "expired"} THEN "off" ELSE batchTimer

TakeErrorEnding(ends) ==
    /\ errChan > 0 /\ ~ctxDone
    /\ errChan' = errChan - 1
    /\ ctxDone' = ends
    /\ batchTimer' = IF ends THEN Returned ELSE batchTimer
    /\ UNCHANGED <<chanVars, sliceVars, loopVars, flushVars, failed, out>>

\* case err := <-errChan: return err
TakeError == TakeErrorEnding(TRUE)

\* Handle returns for another reason: see Session.
HandleReturns ==
    /\ ~ctxDone
    /\ ctxDone' = TRUE
    /\ batchTimer' = Returned
    /\ UNCHANGED <<chanVars, sliceVars, loopVars, flushVars, errChan, failed, out>>

Next ==
    \/ Generate
    \/ LoopStep
    \/ \E g \in Flushers : FlushBatch(g) \/ WindowPasses(g)
    \/ ChannelTimerExpires
    \/ TakeError
    \/ HandleReturns

Spec == Init /\ [][Next]_vars

\* Runnable goroutines run and started timers expire; Handle looks at errChan
\* after every frame it reads, and no read takes longer than ReadTimeout.  A
\* select that finds several cases ready takes one at random: the loop does not
\* pass over the cancelled context for ever.
FairSpec ==
    /\ Spec
    /\ WF_vars(Generate)
    /\ WF_vars(LoopStep) /\ SF_vars(StopLoop)
    /\ \A g \in Flushers : WF_vars(FlushBatch(g)) /\ WF_vars(WindowPasses(g))
    /\ WF_vars(ChannelTimerExpires)
    /\ WF_vars(TakeError)

------------------------------------------------------------------------------
(* Properties                                                              *)

\* What is still to be queued: the slice, unless it has just been queued and is
\* about to be cleared.
Pending ==
    IF \E g \in Goroutines : flush[g] = "clear" THEN <<>> ELSE SubSeq(array, 1, len)
InHand == IF hand = 0 THEN <<>> ELSE <<hand>>

\* When goroutines are prompt, every tick the channel took is in exactly one
\* place, and in order: queued for the peer, then in the batch, then in the
\* hand of deliveryLoop, then in the channel.  No interplay of full batches,
\* expired windows, failed sends that are tried again and the end of the
\* connection loses, repeats or reorders a tick.
ExactlyOnceInOrder ==
    prompt => out \o Pending \o InHand \o dataChan = [i \in 1..accepted |-> i]

\* A batch that could not be queued is never forgotten: Handle has an error
\* waiting or has returned, although flushBatch never waits for room in errChan.
FailureReported == failed => errChan > 0 \/ ctxDone

\* The connection's delivery ends for good after Handle returns: the loop exits,
\* no goroutine stays in flushBatch and no timer starts another.
DeliveryStops ==
    ctxDone ~> [](loop = "exited" /\ \A g \in Goroutines : flush[g] = "idle")

\* No tick is lost: what the channel took is queued for the peer or still on
\* its way.
NoTickLost ==
    \A t \in 1..accepted :
        \/ t \in Range(out) \cup Range(dataChan) \cup {hand}
        \/ \E i \in 1..len : array[i] = t
        \/ \E g \in Goroutines : t \in Range(batch[g])
        \/ \E g \in Goroutines : flush[g] = "marshal" /\ t \in Range(SubSeq(array, 1, count[g]))
==============================================================================
