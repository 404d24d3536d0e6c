---------------------------- MODULE DeliveryProofs ----------------------------
(***************************************************************************)
(* Proofs about Delivery for any number of timer goroutines, any channel   *)
(* capacity, batch size and number of ticks.                               *)
(***************************************************************************)
EXTENDS Delivery, SequenceTheorems, TLAPS

\* The time each prover may take for a step.
USE SMTT(20), ZenonT(20)

Ticks == Nat \ {0}

TypeInv ==
    /\ prompt \in BOOLEAN
    /\ accepted \in Nat /\ dataChan \in Seq(Ticks)
    /\ array \in [1..MaxTicks -> Nat] /\ len \in Nat
    /\ hand \in Nat /\ base \in Nat /\ errChan \in Nat
    /\ flush \in [Goroutines -> {"idle", "check", "pass", "marshal", "send", "clear"}]
    /\ count \in [Goroutines -> Nat]
    /\ DOMAIN batch = Goroutines

\* The initial state of a subscribed connection is well typed.
LEMMA InitType == Init => TypeInv
<1> SUFFICES ASSUME Init PROVE TypeInv
  OBVIOUS
<1>1. dataChan \in Seq(Ticks)
  BY EmptySeq DEF Init
<1>2. array \in [1..MaxTicks -> Nat] /\ count \in [Goroutines -> Nat]
      /\ flush \in [Goroutines -> {"idle", "check", "pass", "marshal", "send", "clear"}]
  BY DEF Init
<1>. QED
  BY <1>1, <1>2 DEF Init, TypeInv

\* No step breaks the types.
LEMMA StepType == TypeInv /\ [Next]_vars => TypeInv'
<1> SUFFICES ASSUME TypeInv, [Next]_vars PROVE TypeInv'
  OBVIOUS
<1> USE DEF TypeInv, chanVars, sliceVars, loopVars, flushVars, endVars
<1>1. CASE Generate
  <2>1. accepted + 1 \in Ticks
    BY DEF Ticks
  <2>2. CASE Len(dataChan) < DataCap
    <3>1. Append(dataChan, accepted + 1) \in Seq(Ticks)
      BY <2>1
    <3>2. accepted' = accepted + 1 /\ dataChan' = Append(dataChan, accepted + 1)
      BY <1>1, <2>2 DEF Generate
    <3>3. UNCHANGED <<prompt, array, len, hand, base, errChan, flush, count, batch>>
      BY <1>1 DEF Generate
    <3>. QED
      BY <3>1, <3>2, <3>3
  <2>3. CASE ~(Len(dataChan) < DataCap)
    BY <1>1, <2>3 DEF Generate
  <2>. QED
    BY <2>2, <2>3
<1>2. ASSUME NEW g \in Goroutines, FlushBatch(g) PROVE TypeInv'
  <2>1. CASE CheckEmpty(g) \/ PassSlice(g) \/ MarshalBatch(g) \/ QueueBatch(g)
    BY <2>1, Zenon DEF CheckEmpty, PassSlice, MarshalBatch, QueueBatch, Leave, FlushStepTo
  <2>2. CASE FailBatch(g)
    <3>1. PushError \in Nat
      BY DEF PushError
    <3>. QED
      BY <2>2, <3>1 DEF FailBatch, SendFails, Leave
  <2>3. CASE ClearBatch(g)
    BY <2>3 DEF ClearBatch, ClearTo, Leave
  <2>. QED
    BY <1>2, <2>1, <2>2, <2>3 DEF FlushBatch
<1>3. CASE ReceiveTicks
  <2>1. Head(dataChan) \in Ticks /\ Tail(dataChan) \in Seq(Ticks)
    BY <1>3 DEF ReceiveTicks
  <2>. QED
    BY <1>3, <2>1 DEF ReceiveTicks, Ticks
<1>4. CASE AppendWrite
  <2>1. array' \in [1..MaxTicks -> Nat]
    BY <1>4, Zenon DEF AppendWrite
  <2>. QED
    BY <1>4, <2>1 DEF AppendWrite
<1>5. CASE StopLoop \/ AppendRead \/ ArmTimer \/ NothingReady \/ StillNothing
  BY <1>5 DEF StopLoop, StopLoopWhen, AppendRead, ArmTimer, NothingReady, StillNothing
<1>6. CASE CheckFull \/ FlushOnTimer
  BY <1>6 DEF CheckFull, FlushOnTimer, Goroutines
<1>7. CASE CheckPressure
  BY <1>7 DEF CheckPressure, PushError
<1>8. ASSUME NEW g \in Flushers, WindowPasses(g) PROVE TypeInv'
  BY <1>8 DEF WindowPasses, Goroutines
<1>9. CASE ChannelTimerExpires \/ TakeError \/ HandleReturns
  BY <1>9 DEF ChannelTimerExpires, TakeError, TakeErrorEnding, HandleReturns
<1>10. CASE UNCHANGED vars
  BY <1>10 DEF vars
<1>. QED
  BY <1>1, <1>2, <1>3, <1>4, <1>5, <1>6, <1>7, <1>8, <1>9, <1>10 DEF Next, LoopStep, Goroutines

\* A failed send is known to Handle, or Handle has returned: the error channel was
\* full only if Handle has errors to take already, and it returns for the first.
THEOREM FailureCorrect == Spec => []FailureReported
<1>1. Init => FailureReported
  BY DEF Init, FailureReported
<1>2. TypeInv /\ FailureReported /\ [Next]_vars => FailureReported'
  <2> SUFFICES ASSUME TypeInv, FailureReported, [Next]_vars PROVE FailureReported'
    OBVIOUS
  <2> USE DEF FailureReported, endVars
  <2>a. errChan \in Nat
    BY DEF TypeInv
  <2>b. PushError \in Nat \ {0}
    BY <2>a DEF PushError
  <2>1. CASE Generate
    BY <2>1 DEF Generate
  <2>2. ASSUME NEW g \in Goroutines, FlushBatch(g) PROVE FailureReported'
    <3>1. CASE FailBatch(g)
      BY <2>a, <2>b, <3>1 DEF FailBatch, SendFails
    <3>2. CASE CheckEmpty(g) \/ PassSlice(g) \/ MarshalBatch(g) \/ QueueBatch(g) \/ ClearBatch(g)
      BY <3>2, Zenon DEF CheckEmpty, PassSlice, MarshalBatch, QueueBatch, ClearBatch, ClearTo
    <3>. QED
      BY <2>2, <3>1, <3>2 DEF FlushBatch
  <2>3. CASE LoopStep
    <3>1. CASE CheckPressure
      BY <2>a, <2>b, <3>1 DEF CheckPressure
    <3>2. CASE \/ StopLoop \/ ReceiveTicks \/ AppendRead \/ AppendWrite \/ ArmTimer \/ CheckFull
               \/ FlushOnTimer \/ NothingReady \/ StillNothing
      BY <3>2, Zenon DEF StopLoop, StopLoopWhen, ReceiveTicks, AppendRead, AppendWrite, ArmTimer,
                  CheckFull, FlushOnTimer, NothingReady, StillNothing
    <3>. QED
      BY <2>2, <2>3, <3>1, <3>2 DEF LoopStep, Goroutines
  <2>4. ASSUME NEW g \in Flushers, WindowPasses(g) PROVE FailureReported'
    BY <2>4 DEF WindowPasses
  <2>5. CASE ChannelTimerExpires \/ TakeError \/ HandleReturns
    BY <2>5, Zenon DEF ChannelTimerExpires, TakeError, TakeErrorEnding, HandleReturns
  <2>6. CASE UNCHANGED vars
    BY <2>6 DEF vars
  <2>. QED
    BY <2>1, <2>2, <2>3, <2>4, <2>5, <2>6 DEF Next, Goroutines
<1>. QED
  BY <1>1, <1>2, InitType, StepType, PTL DEF Spec

------------------------------------------------------------------------------
(* Prompt goroutines                                                       *)

Resting == {"select", "inner", "pressure", "exited"}

\* flushBatch has one user at a time: deliveryLoop while it is at "flushing", or a timer's
\* goroutine while the loop rests and has nothing to take.
Alone ==
    /\ flush[Loop] # "idle" <=> loop = "flushing"
    /\ \A g \in Flushers : flush[g] # "idle" =>
          /\ loop \in Resting
          /\ loop = "exited" \/ (dataChan = <<>> /\ batchTimer # "expired")
    /\ \A g, h \in Goroutines : flush[g] # "idle" /\ flush[h] # "idle" => g = h

\* What the loop and the user of flushBatch have read of the slice is still so.
Current ==
    /\ hand # 0 <=> loop \in {"read", "write"}
    /\ loop = "write" => base = len
    /\ \A g \in Goroutines : flush[g] \in {"marshal", "send"} => count[g] = len
    /\ \A g \in Goroutines : flush[g] = "send" => batch[g] = SubSeq(array, 1, len)

\* The slice never holds more than the channel took.
Room ==
    /\ accepted <= MaxTicks
    /\ len + (IF hand = 0 THEN 0 ELSE 1) + Len(dataChan) <= accepted

\* A slice of the array is a sequence of ticks.
LEMMA SliceType ==
    ASSUME TypeInv, Room
    PROVE  SubSeq(array, 1, len) \in Seq(Nat)
<1>1. len <= MaxTicks
  BY DeliveryAssumption DEF TypeInv, Room
<1>2. \A i \in 1..len : array[i] \in Nat
  BY <1>1, DeliveryAssumption DEF TypeInv
<1>. QED
  BY <1>2, SubSeqProperties DEF TypeInv

\* Where a tick can be, in the order of its way.
Line == out \o Pending \o InHand \o dataChan

\* The inductive invariant of the states in which goroutines are prompt.
Prompt == Alone /\ Current /\ Room /\ out \in Seq(Nat) /\ Line = [i \in 1..accepted |-> i]

\* The parts of the way are sequences.
LEMMA LineType ==
    ASSUME TypeInv, Prompt
    PROVE  /\ out \in Seq(Nat) /\ Pending \in Seq(Nat) /\ InHand \in Seq(Nat)
           /\ dataChan \in Seq(Nat) /\ SubSeq(array, 1, len) \in Seq(Nat)
<1>1. SubSeq(array, 1, len) \in Seq(Nat)
  BY SliceType DEF Prompt
<1>2. InHand \in Seq(Nat)
  BY DEF InHand, TypeInv
<1>3. dataChan \in Seq(Nat)
  BY DEF TypeInv, Ticks
<1>. QED
  BY <1>1, <1>2, <1>3 DEF Pending, Prompt

\* A generated tick goes to the end.
LEMMA GeneratePrompt ==
    ASSUME TypeInv, Prompt, prompt, Generate
    PROVE  Prompt'
<1>a. /\ UNCHANGED <<array, len, loop, hand, base, flush, count, batch, batchTimer, out>>
      /\ Pending' = Pending /\ InHand' = InHand /\ \A g \in Goroutines : flush[g] = "idle"
  BY DEF Generate, Quiet, sliceVars, loopVars, flushVars, Pending, InHand
<1>b. /\ flush \in [Goroutines -> {"idle", "check", "pass", "marshal", "send", "clear"}]
      /\ accepted \in Nat /\ len \in Nat /\ MaxTicks \in Nat
  BY DeliveryAssumption DEF TypeInv
<1>1. CASE Len(dataChan) < DataCap
  <2>1. /\ accepted < MaxTicks /\ accepted' = accepted + 1
        /\ dataChan' = Append(dataChan, accepted + 1)
    BY <1>1 DEF Generate
  <2>2. Alone' /\ Current'
    BY <1>a DEF Prompt, Alone, Current, Goroutines
  <2>3. Room'
    <3>1. Len(dataChan') = Len(dataChan) + 1 /\ Len(dataChan) \in Nat
      BY <2>1, LineType
    <3>. QED
      BY <1>a, <1>b, <2>1, <3>1 DEF Prompt, Room
  <2>4. Line' = [i \in 1..accepted' |-> i]
    <3>1. Line' = (out \o Pending \o InHand) \o Append(dataChan, accepted + 1)
      BY <1>a, <2>1 DEF Line
    <3>2. out \o Pending \o InHand \in Seq(Nat)
      BY LineType, ConcatProperties
    <3>3. (out \o Pending \o InHand) \o Append(dataChan, accepted + 1)
             = Append(Line, accepted + 1)
      BY <1>b, <3>2, LineType, SMTT(60) DEF Line
    <3>4. Append([i \in 1..accepted |-> i], accepted + 1) = [i \in 1..accepted + 1 |-> i]
      BY <1>b
    <3>. QED
      BY <2>1, <3>1, <3>3, <3>4, Zenon DEF Prompt
  <2>. QED
    BY <1>a, <2>2, <2>3, <2>4 DEF Prompt
<1>2. CASE ~(Len(dataChan) < DataCap)
  <2>1. UNCHANGED <<accepted, dataChan>>
    BY <1>2 DEF Generate
  <2>. QED
    BY <1>a, <2>1 DEF Prompt, Alone, Current, Room, Line
<1>. QED
  BY <1>1, <1>2

\* deliveryLoop takes the first tick of the channel into its hand.
LEMMA ReceivePrompt ==
    ASSUME TypeInv, Prompt, ReceiveTicks
    PROVE  Prompt'
<1>a. /\ UNCHANGED <<accepted, array, len, base, flush, count, batch, batchTimer, out>>
      /\ dataChan # <<>> /\ hand' = Head(dataChan) /\ dataChan' = Tail(dataChan)
      /\ loop \in {"select", "inner"} /\ loop' = "read"
  BY DEF ReceiveTicks, sliceVars, flushVars, endVars
<1>b. /\ Head(dataChan) \in Nat /\ Head(dataChan) # 0 /\ dataChan \in Seq(Nat)
      /\ Len(dataChan') = Len(dataChan) - 1 /\ Len(dataChan) \in Nat
      /\ len \in Nat /\ accepted \in Nat /\ MaxTicks \in Nat
  <2>1. Head(dataChan) \in Ticks /\ Len(dataChan') = Len(dataChan) - 1 /\ Len(dataChan) \in Nat
    BY <1>a, HeadTailProperties DEF TypeInv
  <2>. QED
    BY <2>1, LineType, DeliveryAssumption DEF TypeInv, Ticks
<1>1. \A g \in Flushers : flush[g] = "idle"
  BY <1>a DEF Prompt, Alone
<1>2. flush[Loop] = "idle" /\ hand = 0
  BY <1>a DEF Prompt, Alone, Current, Goroutines
<1>3. Alone' /\ Current'
  BY <1>a, <1>b, <1>1, <1>2 DEF Prompt, Alone, Current, Goroutines
<1>4. Room'
  BY <1>a, <1>b, <1>2 DEF Prompt, Room
<1>5. Line' = Line
  <2>1. Pending' = Pending
    BY <1>a DEF Pending
  <2>2. Line' = out \o Pending \o <<Head(dataChan)>> \o Tail(dataChan)
    BY <1>a, <1>b, <2>1 DEF Line, InHand
  <2>3. Line = out \o Pending \o <<>> \o dataChan
    BY <1>2 DEF Line, InHand
  <2>4. out \o Pending \in Seq(Nat)
    BY LineType, ConcatProperties
  <2>5. \A q \in Seq(Nat) : q \o <<Head(dataChan)>> \o Tail(dataChan) = q \o <<>> \o dataChan
    BY <1>a, <1>b, SMTT(60)
  <2>. QED
    BY <2>2, <2>3, <2>4, <2>5, Zenon
<1>. QED
  BY <1>a, <1>3, <1>4, <1>5 DEF Prompt

\* Sequences of ticks can be grouped in either way.
LEMMA Regroup ==
    \A p, q, r \in Seq(Nat) : (p \o q) \o r = p \o (q \o r)
BY ConcatAssociative, SMTT(60)

\* append puts the tick behind the slice: nobody has changed it since append read it.
LEMMA AppendPrompt ==
    ASSUME TypeInv, Prompt, AppendWrite
    PROVE  Prompt'
<1>a. /\ UNCHANGED <<accepted, dataChan, flush, count, batch, batchTimer, out>>
      /\ array' = [array EXCEPT ![len + 1] = hand] /\ len' = len + 1 /\ hand' = 0 /\ hand # 0
      /\ loop = "write" /\ loop' \in {"arm", "select"}
  BY DEF AppendWrite, Prompt, Current, chanVars, flushVars, endVars
<1>b. /\ len \in Nat /\ hand \in Nat /\ accepted \in Nat /\ Len(dataChan) \in Nat
      /\ MaxTicks \in Nat /\ array \in [1..MaxTicks -> Nat]
  BY DeliveryAssumption, LineType DEF TypeInv
<1>c. len + 1 <= MaxTicks /\ len + 1 \in 1..MaxTicks
  BY <1>a, <1>b DEF Prompt, Room
<1>1. \A g \in Goroutines : flush[g] = "idle"
  BY <1>a DEF Prompt, Alone, Resting, Goroutines
<1>2. Alone' /\ Current'
  BY <1>a, <1>1 DEF Prompt, Alone, Current, Goroutines
<1>3. Room'
  BY <1>a, <1>b DEF Prompt, Room
<1>4. SubSeq(array', 1, len + 1) = SubSeq(array, 1, len) \o <<hand>>
  <2>1. SubSeq(array', 1, len + 1) \in Seq(Nat) /\ Len(SubSeq(array', 1, len + 1)) = len + 1
        /\ \A i \in 1..len + 1 : SubSeq(array', 1, len + 1)[i] = array'[i]
    <3>1. \A i \in 1..len + 1 : array'[i] \in Nat
      BY <1>a, <1>b, <1>c
    <3>. QED
      BY <1>b, <3>1, SubSeqProperties
  <2>2. SubSeq(array, 1, len) \in Seq(Nat) /\ Len(SubSeq(array, 1, len)) = len
        /\ \A i \in 1..len : SubSeq(array, 1, len)[i] = array[i]
    <3>1. \A i \in 1..len : array[i] \in Nat
      BY <1>b, <1>c
    <3>. QED
      BY <1>b, <3>1, SubSeqProperties
  <2>3. LET q == SubSeq(array, 1, len) \o <<hand>>
        IN  /\ q \in Seq(Nat) /\ Len(q) = len + 1 /\ q[len + 1] = hand
            /\ \A i \in 1..len : q[i] = array[i]
    BY <1>b, <2>2
  <2>4. array'[len + 1] = hand /\ \A i \in 1..len : array'[i] = array[i]
    BY <1>a, <1>b, <1>c
  <2>5. \A i \in 1..len + 1 : i = len + 1 \/ i \in 1..len
    BY <1>b
  <2>6. \A i \in 1..len + 1 :
           SubSeq(array', 1, len + 1)[i] = (SubSeq(array, 1, len) \o <<hand>>)[i]
    BY <2>1, <2>3, <2>4, <2>5, Zenon
  <2>. QED
    BY <2>1, <2>3, <2>6, SeqEqual
<1>5. Line' = Line
  <2>1. Line' = out \o SubSeq(array', 1, len + 1) \o <<>> \o dataChan
    BY <1>a, <1>1 DEF Line, InHand, Pending
  <2>2. Line = out \o SubSeq(array, 1, len) \o <<hand>> \o dataChan
    BY <1>a, <1>1, Zenon DEF Line, InHand, Pending
  <2>3. /\ out \in Seq(Nat) /\ SubSeq(array, 1, len) \in Seq(Nat) /\ <<hand>> \in Seq(Nat)
        /\ SubSeq(array, 1, len) \o <<hand>> \in Seq(Nat)
        /\ out \o (SubSeq(array, 1, len) \o <<hand>>) \in Seq(Nat)
    BY <1>b, LineType, ConcatProperties
  <2>4. out \o SubSeq(array, 1, len) \o <<hand>> = out \o (SubSeq(array, 1, len) \o <<hand>>)
    BY <2>3, Regroup, ZenonT(60)
  <2>5. (out \o (SubSeq(array, 1, len) \o <<hand>>)) \o <<>>
           = out \o (SubSeq(array, 1, len) \o <<hand>>)
    BY <2>3, ConcatEmptySeq
  <2>. QED
    BY <1>4, <2>1, <2>2, <2>4, <2>5, Zenon
<1>. QED
  BY <1>a, <1>2, <1>3, <1>5 DEF Prompt

\* The other steps of deliveryLoop outside flushBatch move no tick.
LEMMA LoopPrompt ==
    ASSUME TypeInv, Prompt,
           \/ StopLoop \/ AppendRead \/ ArmTimer \/ CheckFull
           \/ FlushOnTimer \/ NothingReady \/ StillNothing \/ CheckPressure
    PROVE  Prompt'
<1> USE DEF chanVars, sliceVars, flushVars, endVars
<1>a. flush \in [Goroutines -> {"idle", "check", "pass", "marshal", "send", "clear"}]
      /\ Loop \in Goroutines
  BY DEF TypeInv, Goroutines
<1>b. UNCHANGED <<accepted, dataChan, array, len, hand, count, batch, out>>
  BY DEF StopLoop, StopLoopWhen, AppendRead, ArmTimer, CheckFull, FlushOnTimer, NothingReady,
         StillNothing, CheckPressure
<1>c. Room' /\ InHand' = InHand
  BY <1>b DEF Prompt, Room, InHand
<1>1. CASE CheckFull \/ FlushOnTimer
  <2>1. \A g \in Goroutines : flush[g] = "idle"
    BY <1>1 DEF CheckFull, FlushOnTimer, Prompt, Alone, Resting, Goroutines
  <2>2. CASE loop' = "select" /\ flush' = flush
    BY <1>1, <1>b, <1>c, <2>1, <2>2, Zenon
       DEF CheckFull, FlushOnTimer, Prompt, Alone, Current, Line, Pending, Goroutines
  <2>3. CASE loop' = "flushing" /\ flush' = [flush EXCEPT ![Loop] = "check"]
    <3>1. flush'[Loop] = "check" /\ \A g \in Goroutines : g # Loop => flush'[g] = "idle"
      BY <1>a, <2>1, <2>3
    <3>2. Pending' = Pending
      BY <1>b, <2>1, <3>1 DEF Pending
    <3>3. Alone' /\ Current'
      BY <1>1, <1>b, <2>3, <3>1, DeliveryAssumption
         DEF CheckFull, FlushOnTimer, Prompt, Alone, Current, Goroutines
    <3>. QED
      BY <1>b, <1>c, <3>2, <3>3 DEF Prompt, Line
  <2>. QED
    BY <1>1, <2>2, <2>3 DEF CheckFull, FlushOnTimer
<1>2. CASE StopLoop \/ AppendRead \/ ArmTimer \/ NothingReady \/ StillNothing \/ CheckPressure
  <2>1. flush' = flush /\ Pending' = Pending
    BY <1>2, <1>b DEF StopLoop, StopLoopWhen, AppendRead, ArmTimer, NothingReady, StillNothing,
                      CheckPressure, Pending
  <2>2. Alone'
    <3>1. CASE AppendRead \/ ArmTimer
      BY <1>b, <2>1, <3>1 DEF AppendRead, ArmTimer, Prompt, Alone, Resting
    <3>2. CASE StopLoop \/ NothingReady \/ StillNothing \/ CheckPressure
      <4>1. loop \in Resting /\ loop # "exited" /\ loop' \in Resting /\ batchTimer' = batchTimer
        BY <3>2 DEF StopLoop, StopLoopWhen, NothingReady, StillNothing, CheckPressure, Resting
      <4>. QED
        BY <1>b, <2>1, <4>1 DEF Prompt, Alone, Resting
    <3>. QED
      BY <1>2, <3>1, <3>2
  <2>3. Current'
    BY <1>2, <1>b, <2>1 DEF StopLoop, StopLoopWhen, AppendRead, ArmTimer, NothingReady,
          StillNothing, CheckPressure, Prompt, Current
  <2>. QED
    BY <1>b, <1>c, <2>1, <2>2, <2>3 DEF Prompt, Line
<1>. QED
  BY <1>1, <1>2

\* A step inside flushBatch leaves its one user where Alone has it.
LEMMA FlushAlone ==
    ASSUME TypeInv, Prompt, NEW g \in Goroutines, flush[g] # "idle",
           NEW l \in {"idle", "pass", "marshal", "send", "clear"},
           flush' = [flush EXCEPT ![g] = l], UNCHANGED <<dataChan, batchTimer>>,
           loop' = IF g = Loop /\ l = "idle" THEN "select" ELSE loop
    PROVE  /\ Alone' /\ flush'[g] = l
           /\ \A h \in Goroutines : h # g => flush[h] = "idle" /\ flush'[h] = "idle"
<1>a. flush \in [Goroutines -> {"idle", "check", "pass", "marshal", "send", "clear"}]
      /\ Loop \in Goroutines /\ Loop \notin Flushers
  BY DeliveryAssumption DEF TypeInv, Goroutines
<1>1. /\ flush'[g] = l
      /\ \A h \in Goroutines : h # g => flush[h] = "idle" /\ flush'[h] = "idle"
  BY <1>a DEF Prompt, Alone
<1>2. CASE g = Loop
  BY <1>a, <1>1, <1>2 DEF Prompt, Alone, Goroutines
<1>3. CASE g # Loop
  BY <1>a, <1>1, <1>3 DEF Prompt, Alone, Goroutines, Resting
<1>. QED
  BY <1>1, <1>2, <1>3

\* flushBatch moves the slice to the peer's queue, all of it and once, or leaves it.
LEMMA FlushPrompt ==
    ASSUME TypeInv, Prompt, NEW g \in Goroutines, FlushBatch(g)
    PROVE  Prompt'
<1> USE DEF chanVars, sliceVars, loopVars, endVars
<1>a. /\ flush \in [Goroutines -> {"idle", "check", "pass", "marshal", "send", "clear"}]
      /\ count \in [Goroutines -> Nat] /\ DOMAIN batch = Goroutines /\ len \in Nat
      /\ Loop \in Goroutines
  BY DEF TypeInv, Goroutines
<1>b. UNCHANGED <<accepted, dataChan, hand, base, batchTimer, array>> /\ flush[g] # "idle"
  BY DEF FlushBatch, CheckEmpty, PassSlice, MarshalBatch, QueueBatch, FailBatch, SendFails,
         ClearBatch, ClearTo, Leave, FlushStepTo
<1>c. InHand' = InHand
  BY <1>b DEF InHand
<1>d. loop \notin {"read", "write"} /\ hand = 0
  BY <1>a, <1>b DEF Prompt, Alone, Current, Resting, Goroutines
<1>1. CASE CheckEmpty(g)
  <2>1. PICK l \in {"idle", "pass"} : /\ flush' = [flush EXCEPT ![g] = l]
                                      /\ loop' = IF g = Loop /\ l = "idle" THEN "select" ELSE loop
    BY <1>1 DEF CheckEmpty, Leave, FlushStepTo
  <2>2. /\ Alone' /\ flush'[g] = l
        /\ \A h \in Goroutines : h # g => flush[h] = "idle" /\ flush'[h] = "idle"
    BY <1>b, <2>1, FlushAlone, Zenon
  <2>3. UNCHANGED <<len, count, batch, out>> /\ flush[g] = "check"
    BY <1>1 DEF CheckEmpty
  <2>4. Pending' = Pending
    BY <1>b, <2>2, <2>3 DEF Pending
  <2>5. Current' /\ Room'
    BY <1>b, <1>d, <2>1, <2>2, <2>3 DEF Prompt, Current, Room
  <2>. QED
    BY <1>b, <1>c, <2>2, <2>3, <2>4, <2>5 DEF Prompt, Line
<1>2. CASE PassSlice(g)
  <2>1. PICK l \in {"clear", "marshal"} : flush' = [flush EXCEPT ![g] = l]
                                          /\ loop' = loop /\ (l = "clear" => len = 0)
    BY <1>2, Zenon DEF PassSlice, FlushStepTo
  <2>2. /\ Alone' /\ flush'[g] = l
        /\ \A h \in Goroutines : h # g => flush[h] = "idle" /\ flush'[h] = "idle"
    BY <1>b, <2>1, FlushAlone, Zenon
  <2>3. UNCHANGED <<len, batch, out>> /\ flush[g] = "pass" /\ count' = [count EXCEPT ![g] = len]
    BY <1>2 DEF PassSlice
  <2>4. Pending' = Pending
    <3>1. len = 0 => SubSeq(array, 1, len) = <<>>
      BY SubSeqEmpty
    <3>. QED
      BY <1>b, <2>1, <2>2, <2>3, <3>1, Zenon DEF Pending
  <2>5. Current' /\ Room'
    BY <1>a, <1>b, <1>d, <2>1, <2>2, <2>3 DEF Prompt, Current, Room
  <2>. QED
    BY <1>b, <1>c, <2>2, <2>3, <2>4, <2>5 DEF Prompt, Line
<1>3. CASE MarshalBatch(g)
  <2>1. /\ flush' = [flush EXCEPT ![g] = "send"] /\ loop' = loop /\ flush[g] = "marshal"
        /\ UNCHANGED <<len, count, out>>
        /\ batch' = [batch EXCEPT ![g] = SubSeq(array, 1, count[g])]
    BY <1>3 DEF MarshalBatch, FlushStepTo
  <2>2. /\ Alone' /\ flush'[g] = "send"
        /\ \A h \in Goroutines : h # g => flush[h] = "idle" /\ flush'[h] = "idle"
    BY <1>b, <2>1, FlushAlone, Zenon
  <2>3. Pending' = Pending
    BY <1>b, <2>1, <2>2 DEF Pending
  <2>4. count[g] = len /\ batch'[g] = SubSeq(array, 1, len)
    BY <1>a, <2>1 DEF Prompt, Current
  <2>5. Current' /\ Room'
    BY <1>b, <1>d, <2>1, <2>2, <2>4, Zenon DEF Prompt, Current, Room
  <2>. QED
    BY <1>b, <1>c, <2>1, <2>2, <2>3, <2>5 DEF Prompt, Line
<1>4. CASE QueueBatch(g)
  <2>1. /\ flush' = [flush EXCEPT ![g] = "clear"] /\ loop' = loop /\ flush[g] = "send"
        /\ UNCHANGED <<len, count>> /\ out' = out \o batch[g]
    BY <1>4 DEF QueueBatch, FlushStepTo
  <2>2. /\ Alone' /\ flush'[g] = "clear"
        /\ \A h \in Goroutines : h # g => flush[h] = "idle" /\ flush'[h] = "idle"
    BY <1>b, <2>1, FlushAlone, Zenon
  <2>3. Pending' = <<>> /\ Pending = SubSeq(array, 1, len) /\ out' = out \o Pending
    BY <1>b, <2>1, <2>2, Zenon DEF Pending, Prompt, Current
  <2>4. Current' /\ Room'
    BY <1>b, <1>d, <2>1, <2>2 DEF Prompt, Current, Room
  <2>5. out' \in Seq(Nat) /\ Line' = Line
    <3>1. out' \in Seq(Nat)
      BY <2>3, LineType, ConcatProperties
    <3>2. out' \o <<>> = out'
      BY <3>1, ConcatEmptySeq
    <3>. QED
      BY <1>b, <1>c, <2>3, <3>1, <3>2 DEF Line
  <2>. QED
    BY <1>b, <2>2, <2>4, <2>5 DEF Prompt
<1>5. CASE FailBatch(g)
  <2>1. /\ flush' = [flush EXCEPT ![g] = "idle"] /\ flush[g] = "send"
        /\ loop' = IF g = Loop THEN "select" ELSE loop
        /\ UNCHANGED <<len, out>>
    BY <1>5 DEF FailBatch, SendFails, Leave
  <2>2. /\ Alone' /\ flush'[g] = "idle"
        /\ \A h \in Goroutines : h # g => flush[h] = "idle" /\ flush'[h] = "idle"
    BY <1>b, <2>1, FlushAlone, Zenon
  <2>3. Pending' = Pending
    BY <1>b, <2>1, <2>2 DEF Pending
  <2>4. Current' /\ Room'
    BY <1>b, <1>d, <2>1, <2>2 DEF Prompt, Current, Room
  <2>. QED
    BY <1>b, <1>c, <2>1, <2>2, <2>3, <2>4 DEF Prompt, Line
<1>6. CASE ClearBatch(g)
  <2>1. /\ flush' = [flush EXCEPT ![g] = "idle"] /\ flush[g] = "clear"
        /\ loop' = IF g = Loop THEN "select" ELSE loop
        /\ len' = 0 /\ out' = out
    BY <1>6 DEF ClearBatch, ClearTo, Leave
  <2>2. /\ Alone' /\ flush'[g] = "idle"
        /\ \A h \in Goroutines : h # g => flush[h] = "idle" /\ flush'[h] = "idle"
    BY <1>b, <2>1, FlushAlone, Zenon
  <2>3. Pending' = Pending
    <3>1. SubSeq(array, 1, 0) = <<>>
      BY SubSeqEmpty
    <3>. QED
      BY <1>b, <2>1, <2>2, <3>1, Zenon DEF Pending
  <2>4. Current' /\ Room'
    <3>1. accepted \in Nat /\ Len(dataChan) \in Nat /\ MaxTicks \in Nat
      BY LineType, DeliveryAssumption DEF TypeInv
    <3>. QED
      BY <1>a, <1>b, <1>d, <2>1, <2>2, <3>1 DEF Prompt, Current, Room
  <2>. QED
    BY <1>b, <1>c, <2>1, <2>2, <2>3, <2>4 DEF Prompt, Line
<1>. QED
  BY <1>1, <1>2, <1>3, <1>4, <1>5, <1>6 DEF FlushBatch

\* Timers and Handle: a timer's goroutine starts only when everybody rests.
LEMMA TimerPrompt ==
    ASSUME TypeInv, Prompt, prompt,
           \/ \E g \in Flushers : WindowPasses(g)
           \/ ChannelTimerExpires \/ TakeError \/ HandleReturns
    PROVE  Prompt'
<1> USE DEF chanVars, sliceVars, loopVars, flushVars
<1>a. UNCHANGED <<accepted, dataChan, array, len, loop, hand, base, count, batch, out>>
  BY Zenon DEF WindowPasses, ChannelTimerExpires, TakeError, TakeErrorEnding, HandleReturns
<1>b. Room' /\ InHand' = InHand
  BY <1>a DEF Prompt, Room, InHand
<1>1. ASSUME NEW g \in Flushers, WindowPasses(g) PROVE Prompt'
  <2>1. flush \in [Goroutines -> {"idle", "check", "pass", "marshal", "send", "clear"}]
        /\ g \in Goroutines /\ g # Loop
    BY DeliveryAssumption DEF TypeInv, Goroutines
  <2>2. /\ Quiet /\ batchTimer = "func" /\ batchTimer' = "off"
        /\ flush' = [flush EXCEPT ![g] = "check"]
    BY <1>1 DEF WindowPasses
  <2>3. /\ \A h \in Goroutines : flush[h] = "idle"
        /\ flush'[g] = "check" /\ \A h \in Goroutines : h # g => flush'[h] = "idle"
    BY <2>1, <2>2 DEF Quiet
  <2>4. Alone'
    BY <1>a, <2>1, <2>2, <2>3 DEF Prompt, Alone, Quiet, Resting, Goroutines
  <2>5. Current' /\ Pending' = Pending
    BY <1>a, <2>3 DEF Prompt, Current, Pending
  <2>. QED
    BY <1>a, <1>b, <2>4, <2>5 DEF Prompt, Line
<1>2. CASE ChannelTimerExpires
  BY <1>2, <1>a, <1>b, Zenon DEF ChannelTimerExpires, Quiet, Prompt, Alone, Current, Pending, Line,
                          Goroutines
<1>3. CASE TakeError \/ HandleReturns
  <2>1. flush' = flush /\ (batchTimer' = "expired" => batchTimer = "expired")
    BY <1>3, Zenon DEF TakeError, TakeErrorEnding, HandleReturns, Returned
  <2>. QED
    BY <1>a, <1>b, <2>1, Zenon DEF Prompt, Alone, Current, Pending, Line
<1>. QED
  BY <1>1, <1>2, <1>3

\* No tick is lost, repeated or put out of order on its way from the channel to the
\* connection's queue, as long as the goroutines of the connection are prompt: for any
\* batch size, any number of timers and any failures of SendDataBatch.
THEOREM ExactlyOnceCorrect == Spec => []ExactlyOnceInOrder
<1>1. Init => (prompt => Prompt)
  <2> SUFFICES ASSUME Init PROVE Prompt
    OBVIOUS
  <2>1. \A g \in Goroutines : flush[g] = "idle"
    BY DEF Init
  <2>2. /\ Loop \in Goroutines /\ Flushers \subseteq Goroutines
    BY DEF Goroutines
  <2>3. Alone /\ Current
    BY <2>1, <2>2 DEF Init, Alone, Current
  <2>4. Room /\ out \in Seq(Nat)
    BY DeliveryAssumption, EmptySeq DEF Init, Room
  <2>5. Line = [i \in 1..accepted |-> i]
    <3>1. Pending = <<>> /\ InHand = <<>> /\ out = <<>> /\ dataChan = <<>>
      BY <2>1, SubSeqEmpty DEF Init, Pending, InHand
    <3>2. <<>> \o <<>> \o <<>> \o <<>> = <<>>
      OBVIOUS
    <3>3. accepted = 0 /\ [i \in 1..0 |-> i] = <<>>
      BY DEF Init
    <3>. QED
      BY <3>1, <3>2, <3>3 DEF Line
  <2>. QED
    BY <2>3, <2>4, <2>5 DEF Prompt
<1>2. TypeInv /\ (prompt => Prompt) /\ [Next]_vars => (prompt => Prompt)'
  <2> SUFFICES ASSUME TypeInv, prompt => Prompt, [Next]_vars, prompt' PROVE Prompt'
    OBVIOUS
  <2>1. prompt
    BY Zenon DEF Next, vars, chanVars, Generate, LoopStep, StopLoop, StopLoopWhen, ReceiveTicks,
           AppendRead, AppendWrite, ArmTimer, CheckFull, FlushOnTimer, NothingReady,
           StillNothing, CheckPressure, FlushBatch, CheckEmpty, PassSlice, MarshalBatch,
           QueueBatch, FailBatch, SendFails, ClearBatch, ClearTo, WindowPasses,
           ChannelTimerExpires, TakeError, TakeErrorEnding, HandleReturns
  <2>2. CASE UNCHANGED vars
    BY <2>1, <2>2, Zenon DEF vars, chanVars, sliceVars, loopVars, flushVars, Prompt, Alone, Current,
                      Room, Line, Pending, InHand
  <2>3. CASE Generate
    BY <2>1, <2>3, GeneratePrompt
  <2>4. CASE LoopStep
    BY <2>1, <2>4, ReceivePrompt, AppendPrompt, LoopPrompt, FlushPrompt DEF LoopStep, Goroutines
  <2>5. ASSUME NEW g \in Flushers, FlushBatch(g) PROVE Prompt'
    BY <2>1, <2>5, FlushPrompt DEF Goroutines
  <2>6. CASE \/ \E g \in Flushers : WindowPasses(g)
             \/ ChannelTimerExpires \/ TakeError \/ HandleReturns
    BY <2>1, <2>6, TimerPrompt
  <2>. QED
    BY <2>2, <2>3, <2>4, <2>5, <2>6 DEF Next
<1>3. (prompt => Prompt) => ExactlyOnceInOrder
  BY DEF Prompt, Line, ExactlyOnceInOrder
<1>. QED
  BY <1>1, <1>2, <1>3, InitType, StepType, PTL DEF Spec
==============================================================================
