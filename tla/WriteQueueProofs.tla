--------------------------- MODULE WriteQueueProofs ---------------------------
(***************************************************************************)
(* Proofs about WriteQueue for any number of writers and closers, any      *)
(* queue size and any number of calls.                                     *)
(***************************************************************************)
EXTENDS WriteQueue, SequenceTheorems, TLAPS

\* The time each prover may take for a step.
USE SMTT(20), ZenonT(20)

\* writeLoop holds an item whenever it is past the receive and before the end
\* of its iteration: with TypeOK this is inductive, TypeOK alone is not.
ItemHeld == Holding => item \in Items

TypeInv == TypeOK /\ ItemHeld

\* The record WriteFrameAsync and WriteFrameSync put into the channel has the
\* type of the channel's items.
LEMMA ItemType ==
    ASSUME TypeOK, NEW w \in Writers
    PROVE  Item(w) \in Items
<1>1. calls[w] \in Nat /\ seq[w] \in Nat /\ tickets + 1 \in Nat
  BY DEF TypeOK
<1>2. (kind[w] = "sync") \in BOOLEAN
  OBVIOUS
<1>3. QED
  BY <1>1, <1>2, Zenon DEF Item, Items

\* The initial state of a new Connection is well typed.
LEMMA InitTypeInv == Init => TypeInv
<1> SUFFICES ASSUME Init PROVE TypeInv
  OBVIOUS
<1>1. writeQueue \in Seq(Items) /\ wire \in Seq(Items)
  BY EmptySeq DEF Init
<1>2. pc \in [Writers -> Labels] /\ kind \in [Writers -> Kinds]
      /\ ret \in [Writers -> Returns] /\ done \in [Writers -> Outcomes]
  BY DEF Init, Labels, Kinds, Returns, Outcomes
<1>3. closer \in [Closers -> {"idle", "swapped", "waiting", "returned"}]
  BY DEF Init
<1>4. item \in Items \cup {NoItem} /\ outcome \in Outcomes /\ ItemHeld
  BY DEF Init, ItemHeld, Holding, Outcomes
<1>5. seq \in [Writers -> Nat] /\ calls \in [Writers -> Nat] /\ writeQueueLen \in Int
      /\ messagesSent \in Nat /\ tickets \in Nat
  BY DEF Init
<1>6. QED
  BY <1>1, <1>2, <1>3, <1>4, <1>5, Zenon DEF Init, TypeInv, TypeOK

\* No step of a sender, of writeLoop or of Close breaks the types, and
\* writeLoop never works on an item it does not hold.
LEMMA StepTypeInv == TypeInv /\ [Next]_vars => TypeInv'
<1> SUFFICES ASSUME TypeInv, [Next]_vars PROVE TypeInv'
  OBVIOUS
<1> USE QueueAssumption DEF TypeInv, TypeOK, ItemHeld, Holding, closeVars, queueVars,
        callVars, loopVars
<1>1. ASSUME NEW w \in Writers, NEW k \in Kinds, Call(w, k) PROVE TypeInv'
  <2>1. BatchSequence \in Nat
    BY DEF BatchSequence
  <2>2. QED
    BY <1>1, <2>1 DEF Call, CallTaking, Labels, Kinds, Outcomes, Returns
<1>2. ASSUME NEW w \in Writers, CheckClosed(w) PROVE TypeInv'
  BY <1>2, Zenon DEF CheckClosed, Return, Goto, Labels, Outcomes, Returns
<1>3. ASSUME NEW w \in Writers, CheckCapacity(w) PROVE TypeInv'
  BY <1>3, Zenon DEF CheckCapacity, Return, Goto, Labels, Outcomes, Returns
<1>4. ASSUME NEW w \in Writers, Reserve(w) PROVE TypeInv'
  BY <1>4 DEF Reserve, Goto, Labels
<1>5. ASSUME NEW w \in Writers, Send(w) PROVE TypeInv'
  <2>1. Item(w) \in Items
    BY ItemType
  <2>2. writeQueue' \in Seq(Items) /\ tickets' \in Nat
    <3>1. Append(writeQueue, Item(w)) \in Seq(Items)
      BY <2>1, AppendProperties
    <3>2. writeQueue' = Append(writeQueue, Item(w)) \/ writeQueue' = writeQueue
      BY <1>5, Zenon DEF Send
    <3>3. writeQueue' \in Seq(Items)
      BY <3>1, <3>2, Zenon
    <3>4. tickets' \in Nat
      BY <1>5 DEF Send
    <3>5. QED
      BY <3>3, <3>4, Zenon
  <2>3. pc' \in [Writers -> Labels] /\ ret' \in [Writers -> Returns]
    BY <1>5, Zenon DEF Send, Return, Goto, Labels, Outcomes, Returns
  <2>4. QED
    BY <1>5, <2>2, <2>3 DEF Send
<1>6. ASSUME NEW w \in Writers, GiveUp(w) PROVE TypeInv'
  BY <1>6 DEF GiveUp, Goto, Labels
<1>7. ASSUME NEW w \in Writers, Rollback(w) PROVE TypeInv'
  BY <1>7 DEF Rollback, RollbackBy, Return, Labels, Outcomes, Returns
<1>8. ASSUME NEW w \in Writers, Await(w) PROVE TypeInv'
  BY <1>8 DEF Await, Return, Labels, Outcomes, Returns
<1>9. CASE Receive
  <2>1. Head(writeQueue) \in Items /\ Tail(writeQueue) \in Seq(Items)
    BY <1>9 DEF Receive
  <2>2. QED
    BY <1>9, <2>1 DEF Receive
<1>10. CASE RangeEnd
  BY <1>10 DEF RangeEnd
<1>11. CASE CheckItem
  BY <1>11 DEF CheckItem, Outcomes
<1>12. CASE WriteItem
  <2>1. item \in Items
    BY <1>12 DEF WriteItem
  <2>2. wire' \in Seq(Items) /\ messagesSent' \in Nat
    <3>1. Append(wire, item) \in Seq(Items)
      BY <2>1, AppendProperties
    <3>2. wire' = Append(wire, item) \/ wire' = wire
      BY <1>12, Zenon DEF WriteItem
    <3>3. wire' \in Seq(Items)
      BY <3>1, <3>2, Zenon
    <3>4. messagesSent' \in Nat
      BY <1>12 DEF WriteItem
    <3>5. QED
      BY <3>3, <3>4, Zenon
  <2>3. QED
    BY <1>12, <2>1, <2>2 DEF WriteItem, Outcomes, NoItem
<1>13. CASE Signal
  <2>1. item.from \in Writers
    BY <1>13 DEF Signal, SignalAs, Items
  <2>2. QED
    BY <1>13, <2>1 DEF Signal, SignalAs
<1>14. CASE Release
  BY <1>14 DEF Release, ReleaseTo
<1>15. ASSUME NEW c \in Closers, CloseSwap(c) PROVE TypeInv'
  BY <1>15 DEF CloseSwap
<1>16. ASSUME NEW c \in Closers, CloseChannel(c) PROVE TypeInv'
  BY <1>16 DEF CloseChannel, CloseChannelTo
<1>17. ASSUME NEW c \in Closers, CloseSocket(c) PROVE TypeInv'
  BY <1>17 DEF CloseSocket
<1>18. CASE UNCHANGED vars
  BY <1>18 DEF vars
<1>19. QED
  BY <1>1, <1>2, <1>3, <1>4, <1>5, <1>6, <1>7, <1>8, <1>9, <1>10, <1>11, <1>12, <1>13,
     <1>14, <1>15, <1>16, <1>17, <1>18, Zenon
     DEF Next, WriterStep, LoopStep, CloseStep

\* Every state of a connection's outgoing half is well typed.
THEOREM TypeCorrect == Spec => []TypeOK
<1>1. TypeInv => TypeOK
  BY DEF TypeInv
<1>2. QED
  BY InitTypeInv, StepTypeInv, <1>1, PTL DEF Spec

------------------------------------------------------------------------------
(* Close                                                                   *)

\* The socket is closed only after writeLoop has returned.
SocketClosedLast == connClosed => loop = "exited"

\* Nothing is written once Close has closed the socket: Close waits for
\* writeLoop, and a writeLoop that has returned stays so.
THEOREM NoWriteAfterCloseCorrect == Spec => NoWriteAfterClose
<1>1. Init => SocketClosedLast
  BY DEF Init, SocketClosedLast
<1> USE DEF closeVars, queueVars, callVars, loopVars
<1>2. SocketClosedLast /\ [Next]_vars => SocketClosedLast' /\ (connClosed => wire' = wire)
  <2> SUFFICES ASSUME SocketClosedLast, [Next]_vars
               PROVE  SocketClosedLast' /\ (connClosed => wire' = wire)
    OBVIOUS
  <2>1. ASSUME NEW w \in Writers, NEW k \in Kinds, Call(w, k)
        PROVE  UNCHANGED <<connClosed, loop, wire>>
    BY <2>1 DEF Call, CallTaking
  <2>2. ASSUME NEW w \in Writers, WriterStep(w)
        PROVE  UNCHANGED <<connClosed, loop, wire>>
    BY <2>2 DEF WriterStep, CheckClosed, CheckCapacity, Reserve, Send, GiveUp,
       Rollback, RollbackBy, Await
  <2>3. CASE LoopStep
    <3>1. loop # "exited"
      BY <2>3 DEF LoopStep, Receive, RangeEnd, CheckItem, WriteItem, Signal, SignalAs,
         Release, ReleaseTo
    <3>2. connClosed' = connClosed
      BY <2>3 DEF LoopStep, Receive, RangeEnd, CheckItem, WriteItem, Signal, SignalAs,
         Release, ReleaseTo
    <3>3. QED
      BY <3>1, <3>2 DEF SocketClosedLast
  <2>4. ASSUME NEW c \in Closers, CloseSwap(c)
        PROVE  UNCHANGED <<connClosed, loop, wire>>
    BY <2>4 DEF CloseSwap
  <2>5. ASSUME NEW c \in Closers, CloseStep(c)
        PROVE  UNCHANGED <<loop, wire>> /\ SocketClosedLast'
    BY <2>5 DEF CloseStep, CloseChannel, CloseChannelTo, CloseSocket,
       SocketClosedLast
  <2>6. CASE UNCHANGED vars
    BY <2>6 DEF vars, SocketClosedLast
  <2>7. QED
    BY <2>1, <2>2, <2>3, <2>4, <2>5, <2>6 DEF Next, SocketClosedLast
<1>3. QED
  BY <1>1, <1>2, PTL DEF Spec, NoWriteAfterClose

------------------------------------------------------------------------------
(* Waiting for writeLoop                                                   *)

\* What writeLoop's place says about its last outcome and about Close.
LoopInv ==
    /\ loop = "signal" => outcome # "none"
    /\ outcome = "failed" => loop \in {"signal", "release", "exited"}
    /\ loop = "exited" => outcome = "failed" \/ (chanClosed /\ writeQueue = <<>>)
    /\ connClosed => chanClosed /\ loop = "exited"
    /\ \A c \in Closers : closer[c] = "waiting" => chanClosed

\* LoopInv is inductive with the types.
LEMMA LoopStepInv == TypeInv /\ LoopInv /\ [Next]_vars => LoopInv'
<1> SUFFICES ASSUME TypeInv, LoopInv, [Next]_vars PROVE LoopInv'
  OBVIOUS
<1> USE DEF closeVars, queueVars, callVars, loopVars
<1>1. ASSUME NEW w \in Writers, NEW k \in Kinds, Call(w, k) PROVE LoopInv'
  BY <1>1 DEF Call, CallTaking, LoopInv
<1>2. ASSUME NEW w \in Writers, WriterStep(w) PROVE LoopInv'
  <2>1. UNCHANGED <<closer, chanClosed, connClosed, loop, outcome>>
    BY <1>2 DEF WriterStep, CheckClosed, CheckCapacity, Reserve, Send, GiveUp, Rollback,
       RollbackBy, Await
  <2>2. writeQueue' = writeQueue \/ ~chanClosed
    BY <1>2 DEF WriterStep, CheckClosed, CheckCapacity, Reserve, Send, GiveUp, Rollback,
       RollbackBy, Await
  <2>. QED
    BY <2>1, <2>2 DEF LoopInv
<1>3. CASE LoopStep
  BY <1>3 DEF LoopStep, Receive, RangeEnd, CheckItem, WriteItem, Signal, SignalAs,
     Release, ReleaseTo, LoopInv
<1>4. ASSUME NEW c \in Closers, CloseSwap(c) PROVE LoopInv'
  BY <1>4 DEF CloseSwap, LoopInv, TypeInv, TypeOK
<1>5. ASSUME NEW c \in Closers, CloseStep(c) PROVE LoopInv'
  BY <1>5 DEF CloseStep, CloseChannel, CloseChannelTo, CloseSocket,
     LoopInv, TypeInv, TypeOK
<1>6. CASE UNCHANGED vars
  BY <1>6 DEF vars, LoopInv
<1>. QED
  BY <1>1, <1>2, <1>3, <1>4, <1>5, <1>6 DEF Next

\* In every state writeLoop's place and its outcome agree.
LEMMA LoopInvariant == Spec => [](TypeInv /\ LoopInv)
<1>1. Init => LoopInv
  BY DEF Init, LoopInv
<1>. QED
  BY <1>1, InitTypeInv, StepTypeInv, LoopStepInv, PTL DEF Spec

\* No step leaves a waiting call without its item or its answer.
LEMMA StrandedStep ==
    TypeInv /\ LoopInv /\ SyncNotStranded /\ [Next]_vars => SyncNotStranded'
<1> SUFFICES ASSUME TypeInv, LoopInv, SyncNotStranded, [Next]_vars,
                    NEW v \in Writers, pc'[v] = "wait"
             PROVE  Answerable(v)'
  BY DEF SyncNotStranded
<1>0. pc[v] = "wait" => Answerable(v)
  BY DEF SyncNotStranded
<1> USE DEF closeVars, queueVars, callVars, loopVars, ItemOf, Answerable
<1>a. /\ pc \in [Writers -> Labels] /\ done \in [Writers -> Outcomes]
      /\ calls \in [Writers -> Nat] /\ writeQueue \in Seq(Items)
  BY DEF TypeInv, TypeOK
<1>1. ASSUME NEW w \in Writers, NEW k \in Kinds, Call(w, k) PROVE Answerable(v)'
  <2>1. v # w /\ pc[v] = "wait"
    BY <1>1, <1>a DEF Call, CallTaking
  <2>2. calls'[v] = calls[v]
    BY <1>1, <1>a, <2>1 DEF Call, CallTaking
  <2>. QED
    BY <1>0, <1>1, <2>1, <2>2 DEF Call, CallTaking
<1>2. ASSUME NEW w \in Writers,
             CheckClosed(w) \/ CheckCapacity(w) \/ Reserve(w) \/ GiveUp(w) \/ Rollback(w)
      PROVE  Answerable(v)'
  <2>1. pc[v] = "wait"
    BY <1>2, <1>a DEF CheckClosed, CheckCapacity, Reserve, GiveUp, Rollback, RollbackBy,
                      Goto, Return
  <2>. QED
    BY <1>0, <1>2, <2>1 DEF CheckClosed, CheckCapacity, Reserve, GiveUp, Rollback, RollbackBy
<1>3. ASSUME NEW w \in Writers, Send(w) PROVE Answerable(v)'
  <2>1. CASE w = v
    <3>1. writeQueue' = Append(writeQueue, Item(w)) /\ kind[w] = "sync"
      BY <1>3, <1>a, <2>1 DEF Send, Goto, Return
    <3>2. Item(w) \in Items
      BY ItemType DEF TypeInv
    <3>3. Len(writeQueue) + 1 \in DOMAIN writeQueue'
          /\ writeQueue'[Len(writeQueue) + 1] = Item(w)
      BY <1>a, <3>1, <3>2
    <3>4. Item(w).sync /\ Item(w).from = v /\ Item(w).call = calls'[v]
      BY <1>3, <2>1, <3>1, Zenon DEF Item, Send
    <3>. QED
      BY <3>3, <3>4
  <2>2. CASE w # v
    <3>1. pc[v] = "wait" /\ UNCHANGED <<done, calls, loop, item, outcome>>
      BY <1>3, <1>a, <2>2 DEF Send, Goto, Return
    <3>2. Item(w) \in Items
      BY ItemType DEF TypeInv
    <3>3. writeQueue' = writeQueue \/ writeQueue' = Append(writeQueue, Item(w))
      BY <1>3 DEF Send
    <3>4. \A i \in DOMAIN writeQueue : i \in DOMAIN writeQueue' /\ writeQueue'[i] = writeQueue[i]
      BY <1>a, <3>2, <3>3
    <3>. QED
      BY <1>0, <3>1, <3>4
  <2>. QED
    BY <2>1, <2>2
<1>4. ASSUME NEW w \in Writers, Await(w) PROVE Answerable(v)'
  <2>1. v # w /\ pc[v] = "wait" /\ done'[v] = done[v]
    BY <1>4, <1>a DEF Await, Return
  <2>. QED
    BY <1>0, <1>4, <2>1 DEF Await
<1>5. CASE Receive
  <2>1. pc[v] = "wait"
    BY <1>5 DEF Receive
  <2>2. ASSUME NEW i \in DOMAIN writeQueue, ItemOf(writeQueue[i], v) PROVE Answerable(v)'
    <3>1. CASE i = 1
      BY <1>5, <1>a, <2>2, <3>1 DEF Receive
    <3>2. CASE i # 1
      <4>1. i - 1 \in DOMAIN Tail(writeQueue) /\ Tail(writeQueue)[i - 1] = writeQueue[i]
        BY <1>5, <1>a, <3>2 DEF Receive
      <4>. QED
        BY <1>5, <2>2, <4>1 DEF Receive
    <3>. QED
      BY <3>1, <3>2
  <2>. QED
    BY <1>0, <1>5, <2>1, <2>2 DEF Receive
<1>6. CASE RangeEnd \/ CheckItem \/ WriteItem
  <2>1. pc[v] = "wait"
    BY <1>6 DEF RangeEnd, CheckItem, WriteItem
  <2>. QED
    BY <1>0, <1>6, <2>1 DEF RangeEnd, CheckItem, WriteItem
<1>7. CASE Signal
  <2>1. pc[v] = "wait" /\ outcome # "none"
    BY <1>7 DEF Signal, SignalAs, LoopInv
  <2>2. done'[v] = done[v] \/ done'[v] = outcome
    BY <1>7, <1>a DEF Signal, SignalAs
  <2>3. item.sync /\ item.from = v => done'[v] = outcome
    BY <1>7, <1>a DEF Signal, SignalAs
  <2>. QED
    BY <1>0, <1>7, <2>1, <2>2, <2>3 DEF Signal, SignalAs
<1>8. CASE Release
  <2>1. pc[v] = "wait"
    BY <1>8 DEF Release, ReleaseTo
  <2>. QED
    BY <1>0, <1>8, <2>1 DEF Release, ReleaseTo
<1>9. ASSUME NEW c \in Closers, CloseSwap(c) \/ CloseStep(c) PROVE Answerable(v)'
  BY <1>0, <1>9 DEF CloseSwap, CloseStep, CloseChannel, CloseChannelTo, CloseSocket
<1>10. CASE UNCHANGED vars
  BY <1>0, <1>10 DEF vars
<1>. QED
  BY <1>1, <1>2, <1>3, <1>4, <1>5, <1>6, <1>7, <1>8, <1>9, <1>10
     DEF Next, WriterStep, LoopStep

\* A call of WriteFrameSync never waits for an answer that nobody will give, unless
\* writeLoop broke off after a failed write.
THEOREM StrandedCorrect == Spec => []SyncNotStranded
<1>1. Init => SyncNotStranded
  BY DEF Init, SyncNotStranded
<1>. QED
  BY <1>1, LoopInvariant, StrandedStep, PTL DEF Spec

------------------------------------------------------------------------------
(* Calls that begin after Close                                            *)

\* Close sets the flag before it closes the channel.
FlagInv ==
    /\ chanClosed => closed
    /\ \A c \in Closers : closer[c] # "idle" => closed

\* FlagInv is inductive with the types.
LEMMA FlagStep == TypeInv /\ FlagInv /\ [Next]_vars => FlagInv'
<1> SUFFICES ASSUME TypeInv, FlagInv, [Next]_vars PROVE FlagInv'
  OBVIOUS
<1> USE DEF closeVars, FlagInv
<1>1. ASSUME NEW w \in Writers, NEW k \in Kinds, Call(w, k) PROVE FlagInv'
  BY <1>1 DEF Call, CallTaking
<1>2. ASSUME NEW w \in Writers, WriterStep(w) PROVE FlagInv'
  BY <1>2 DEF WriterStep, CheckClosed, CheckCapacity, Reserve, Send, GiveUp, Rollback,
     RollbackBy, Await
<1>3. CASE LoopStep
  BY <1>3 DEF LoopStep, Receive, RangeEnd, CheckItem, WriteItem, Signal, SignalAs,
     Release, ReleaseTo
<1>4. ASSUME NEW c \in Closers, CloseSwap(c) PROVE FlagInv'
  BY <1>4 DEF CloseSwap, TypeInv, TypeOK
<1>5. ASSUME NEW c \in Closers, CloseStep(c) PROVE FlagInv'
  BY <1>5 DEF CloseStep, CloseChannel, CloseChannelTo, CloseSocket, TypeInv, TypeOK
<1>6. CASE UNCHANGED vars
  BY <1>6 DEF vars
<1>. QED
  BY <1>1, <1>2, <1>3, <1>4, <1>5, <1>6 DEF Next

\* The connection is closed and this goroutine is not past the check of a call.
Outside(w) == closed /\ pc[w] \in {"idle", "checkClosed"}

\* A goroutine that is outside stays outside, whatever the others do.
LEMMA OutsideStep ==
    ASSUME NEW v \in Writers
    PROVE  TypeInv /\ Outside(v) /\ [Next]_vars => Outside(v)'
<1> SUFFICES ASSUME TypeInv, Outside(v), [Next]_vars PROVE Outside(v)'
  OBVIOUS
<1> USE DEF closeVars, Outside
<1>a. pc \in [Writers -> Labels]
  BY DEF TypeInv, TypeOK
<1>1. ASSUME NEW w \in Writers, NEW k \in Kinds, Call(w, k) PROVE Outside(v)'
  BY <1>1, <1>a DEF Call, CallTaking
<1>2. ASSUME NEW w \in Writers, WriterStep(w) PROVE Outside(v)'
  BY <1>2, <1>a, Zenon DEF WriterStep, CheckClosed, CheckCapacity, Reserve, Send, GiveUp,
     Rollback, RollbackBy, Await, Goto, Return
<1>3. CASE LoopStep
  BY <1>3, Zenon DEF LoopStep, Receive, RangeEnd, CheckItem, WriteItem, Signal, SignalAs,
     Release, ReleaseTo
<1>4. ASSUME NEW c \in Closers, CloseSwap(c) \/ CloseStep(c) PROVE Outside(v)'
  BY <1>4, Zenon DEF CloseSwap, CloseStep, CloseChannel, CloseChannelTo, CloseSocket
<1>5. CASE UNCHANGED vars
  BY <1>5 DEF vars
<1>. QED
  BY <1>1, <1>2, <1>3, <1>4, <1>5 DEF Next

\* A call that begins once Close has closed the channel never panics on it, for
\* any number of senders and closers.
THEOREM LateCallsCorrect == Spec => LateCallsSafe
<1>1. ASSUME NEW w \in Writers
      PROVE  Spec => [](chanClosed /\ pc[w] = "idle" => [](pc[w] # "panicked"))
  <2>1. Init => FlagInv
    BY DEF Init, FlagInv
  <2>2. FlagInv /\ chanClosed /\ pc[w] = "idle" => Outside(w)
    BY DEF FlagInv, Outside
  <2>3. Outside(w) => pc[w] # "panicked"
    BY DEF Outside
  <2>4. TypeInv /\ Outside(w) /\ [Next]_vars => Outside(w)'
    BY OutsideStep
  <2>. QED
    BY <2>1, <2>2, <2>3, <2>4, InitTypeInv, StepTypeInv, FlagStep, PTL DEF Spec
<1>. QED
  BY <1>1 DEF LateCallsSafe

------------------------------------------------------------------------------
(* The stream that the connection implements                               *)

\* What FrameStream holds.
Pending == InHand \o writeQueue

\* A step that changes neither the queue nor writeLoop's hand is at most the end
\* of the intake or of the transport.
LEMMA SamePending ==
    ASSUME UNCHANGED <<writeQueue, item, wire, outcome>>,
           loop' = loop \/ (loop \notin {"check", "write"} /\ loop' \notin {"check", "write"}),
           UNCHANGED <<chanClosed, connClosed>>
    PROVE  UNCHANGED Stream!streamVars
BY DEF Stream!streamVars, InHand

\* Each step of the connection is one of the stream's or changes nothing of it.
LEMMA StreamStep ==
    TypeInv /\ LoopInv /\ [Next]_vars => [Stream!Next]_(Stream!streamVars)
<1> SUFFICES ASSUME TypeInv, LoopInv, [Next]_vars
             PROVE  Stream!Next \/ UNCHANGED Stream!streamVars
  OBVIOUS
<1> USE DEF closeVars, queueVars, callVars, loopVars
<1>a. /\ writeQueue \in Seq(Items) /\ wire \in Seq(Items) /\ MaxWriteQueueSize \in Nat
      /\ Holding => item \in Items
  BY QueueAssumption DEF TypeInv, TypeOK, ItemHeld
<1>b. /\ InHand \in Seq(Items) /\ Len(InHand) <= 1 /\ Pending \in Seq(Items)
      /\ Len(Pending) = Len(InHand) + Len(writeQueue)
  <2>1. InHand \in Seq(Items) /\ Len(InHand) <= 1
    BY <1>a DEF InHand, Holding
  <2>. QED
    BY <1>a, <2>1, ConcatProperties DEF Pending
<1>1. ASSUME NEW w \in Writers, NEW k \in Kinds, Call(w, k) PROVE UNCHANGED Stream!streamVars
  BY <1>1, SamePending DEF Call, CallTaking
<1>2. ASSUME NEW w \in Writers,
             CheckClosed(w) \/ CheckCapacity(w) \/ Reserve(w) \/ GiveUp(w) \/ Rollback(w)
                \/ Await(w)
      PROVE  UNCHANGED Stream!streamVars
  BY <1>2, SamePending, Zenon DEF CheckClosed, CheckCapacity, Reserve, GiveUp, Rollback,
                           RollbackBy, Await
<1>3. ASSUME NEW w \in Writers, Send(w) PROVE Stream!Next \/ UNCHANGED Stream!streamVars
  <2>1. CASE chanClosed
    BY <1>3, <2>1, SamePending, Zenon DEF Send
  <2>2. CASE ~chanClosed
    <3>1. Item(w) \in Items
      BY ItemType DEF TypeInv
    <3>2. /\ Len(writeQueue) < MaxWriteQueueSize
          /\ writeQueue' = Append(writeQueue, Item(w))
          /\ InHand' = InHand /\ UNCHANGED <<wire, chanClosed, outcome, connClosed>>
      BY <1>3, <2>2 DEF Send, InHand
    <3>3. /\ Len(Pending) < MaxWriteQueueSize + 1
          /\ Pending' = Append(Pending, Item(w))
      <4>1. Len(Pending) < MaxWriteQueueSize + 1
        BY <1>a, <1>b, <3>2
      <4>2. Pending' = InHand \o Append(writeQueue, Item(w))
        BY <3>2 DEF Pending
      <4>3. InHand \o Append(writeQueue, Item(w)) = Append(InHand \o writeQueue, Item(w))
        BY <1>a, <1>b, <3>1
      <4>. QED
        BY <4>1, <4>2, <4>3 DEF Pending
    <3>4. Len(Pending') = Len(Pending) + 1 /\ SubSeq(Pending', 1, Len(Pending)) = Pending
      BY <1>b, <3>1, <3>3
    <3>. QED
      BY <2>2, <3>2, <3>3, <3>4 DEF Stream!Next, Stream!Accept, Pending
  <2>. QED
    BY <2>1, <2>2
<1>4. CASE Receive
  <2>1. InHand = <<>> /\ InHand' = <<Head(writeQueue)>> /\ writeQueue' = Tail(writeQueue)
    BY <1>4 DEF Receive, InHand
  <2>2. <<>> \o writeQueue = <<Head(writeQueue)>> \o Tail(writeQueue)
    BY <1>4, <1>a DEF Receive
  <2>. QED
    BY <1>4, <2>1, <2>2 DEF Receive, Stream!streamVars
<1>5. CASE RangeEnd \/ Signal \/ Release
  BY <1>5, SamePending DEF RangeEnd, Signal, SignalAs, Release, ReleaseTo
<1>6. CASE CheckItem \/ WriteItem
  <2>1. /\ InHand = <<item>> /\ item \in Items /\ outcome # "failed" /\ ~connClosed
        /\ UNCHANGED <<writeQueue, chanClosed, connClosed, item>>
    BY <1>6, <1>a DEF CheckItem, WriteItem, InHand, Holding, LoopInv
  <2>2. /\ <<item>> \o writeQueue # <<>> /\ Head(<<item>> \o writeQueue) = item
        /\ Tail(<<item>> \o writeQueue) = writeQueue /\ <<>> \o writeQueue = writeQueue
    BY <1>a, <2>1
  <2>3. CASE loop' = "write"
    BY <1>6, <2>1, <2>3 DEF CheckItem, WriteItem, InHand, Stream!streamVars
  <2>4. CASE loop' # "write"
    <3>1. loop' = "signal" /\ InHand' = <<>>
      BY <1>6, <2>4 DEF CheckItem, WriteItem, InHand
    <3>2. Pending # <<>> /\ Head(Pending) = item /\ Pending' = Tail(Pending)
      BY <2>1, <2>2, <3>1 DEF Pending
    <3>3. CASE CheckItem
      BY <2>1, <3>2, <3>3 DEF CheckItem, Stream!Next, Stream!Discard, Pending
    <3>4. CASE WriteItem
      BY <2>1, <3>2, <3>4 DEF WriteItem, Stream!Next, Stream!Deliver, Stream!Sever, Pending
    <3>. QED
      BY <1>6, <3>3, <3>4
  <2>. QED
    BY <2>3, <2>4
<1>7. ASSUME NEW c \in Closers, CloseSwap(c) PROVE UNCHANGED Stream!streamVars
  BY <1>7, SamePending DEF CloseSwap
<1>8. ASSUME NEW c \in Closers, CloseChannel(c)
      PROVE  Stream!Next \/ UNCHANGED Stream!streamVars
  <2>1. Pending' = Pending /\ UNCHANGED <<wire, outcome, connClosed>> /\ chanClosed' = TRUE
    BY <1>8 DEF CloseChannel, CloseChannelTo, Pending, InHand
  <2>. QED
    BY <2>1 DEF Stream!Next, Stream!Stop, Stream!streamVars, Pending, TypeInv, TypeOK
<1>9. ASSUME NEW c \in Closers, CloseSocket(c)
      PROVE  Stream!Next \/ UNCHANGED Stream!streamVars
  <2>1. Pending' = Pending /\ UNCHANGED <<wire, outcome, chanClosed>> /\ connClosed' = TRUE
    BY <1>9 DEF CloseSocket, Pending, InHand
  <2>2. chanClosed /\ loop = "exited"
    BY <1>9 DEF CloseSocket, LoopInv
  <2>3. outcome = "failed" \/ Pending = <<>>
    BY <1>a, <2>2 DEF LoopInv, Pending, InHand
  <2>. QED
    BY <2>1, <2>2, <2>3, Zenon DEF Stream!Next, Stream!Shut, Stream!streamVars, Pending, TypeInv,
                            TypeOK
<1>10. CASE UNCHANGED vars
  BY <1>10, SamePending DEF vars
<1>. QED
  BY <1>1, <1>2, <1>3, <1>4, <1>5, <1>6, <1>7, <1>8, <1>9, <1>10
     DEF Next, WriterStep, LoopStep, CloseStep

\* Connection implements the ordered, bounded, at-most-once stream of FrameStream for
\* any number of writers and closers and any queue size.
THEOREM FrameStreamImplemented == Spec => ImplementsFrameStream
<1>1. Init => Stream!Init
  BY DEF Init, Stream!Init, InHand
<1>. QED
  BY <1>1, LoopInvariant, StreamStep, PTL DEF Spec, ImplementsFrameStream, Stream!Spec

------------------------------------------------------------------------------
(* What a call of WriteFrameSync reports                                   *)

\* The items writeLoop has still to answer: the one it works on, then the channel.
Unanswered ==
    (IF loop \in {"check", "write", "signal"} THEN <<item>> ELSE <<>>) \o writeQueue

\* An unanswered item belongs to its writer's present call or to an earlier one; to the
\* present one only if that was sent, and a sync item only while its writer waits.
Owned(i) ==
    /\ i.call <= calls[i.from]
    /\ i.call = calls[i.from] =>
          pc[i.from] \in {"idle", "wait"} /\ i.sync = (kind[i.from] = "sync")
    /\ i.sync => pc[i.from] = "wait" /\ done[i.from] = "none" /\ i.call = calls[i.from]

\* The item whose answer writeLoop is about to give is w's, and it was written.
Written(w) == loop = "signal" /\ item.sync /\ item.from = w /\ outcome = "ok"

\* At each place of a WriteFrameSync call, what is known of its frame.
Truth(w) ==
    kind[w] = "sync" =>
        /\ pc[w] \notin {"idle", "wait"} => ~OnWire(w)
        /\ pc[w] = "wait" /\ done[w] = "none" => (OnWire(w) <=> Written(w))
        /\ pc[w] = "wait" /\ done[w] # "none" => (done[w] = "ok" <=> OnWire(w))
        /\ pc[w] = "idle" /\ ret[w] # "none" => (ret[w] = "ok" <=> OnWire(w))

AllOwned == \A i \in DOMAIN Unanswered : Owned(Unanswered[i])

\* No writer has two sync items unanswered.
OneSync ==
    \A i, j \in DOMAIN Unanswered :
        /\ Unanswered[i].sync /\ Unanswered[j].sync
        /\ Unanswered[i].from = Unanswered[j].from
        => i = j

WireOld  == \A i \in DOMAIN wire : wire[i].call <= calls[wire[i].from]
DoneWait == \A w \in Writers : done[w] # "none" => pc[w] = "wait"
AllTrue  == \A w \in Writers : Truth(w)

AnswerInv == AllOwned /\ OneSync /\ WireOld /\ DoneWait /\ AllTrue

\* What the items of a sequence are.
LEMMA ItemFields ==
    ASSUME NEW s \in Seq(Items)
    PROVE  \A i \in DOMAIN s : /\ s[i] \in Items /\ s[i].from \in Writers
                                /\ s[i].call \in Nat /\ s[i].sync \in BOOLEAN
                                /\ s[i].seq \in Nat /\ s[i].ticket \in Nat
<1>1. \A i \in DOMAIN s : s[i] \in Items
  OBVIOUS
<1>2. \A x \in Items : /\ x.from \in Writers /\ x.call \in Nat /\ x.sync \in BOOLEAN
                         /\ x.seq \in Nat /\ x.ticket \in Nat
  BY DEF Items
<1>. QED
  BY <1>1, <1>2

\* The unanswered items change in three ways: a Send appends, Signal takes the first
\* one away, every other step leaves them as they are.
LEMMA UnansweredType ==
    ASSUME TypeInv
    PROVE  /\ Unanswered \in Seq(Items)
           /\ loop \in {"check", "write", "signal"} =>
                 Unanswered # <<>> /\ Unanswered[1] = item /\ item \in Items
                 /\ Tail(Unanswered) = writeQueue
           /\ loop \notin {"check", "write", "signal"} => Unanswered = writeQueue
<1>1. writeQueue \in Seq(Items) /\ (Holding => item \in Items)
  BY DEF TypeInv, TypeOK, ItemHeld
<1>2. CASE loop \in {"check", "write", "signal"}
  BY <1>1, <1>2 DEF Unanswered, Holding
<1>3. CASE loop \notin {"check", "write", "signal"}
  BY <1>1, <1>3 DEF Unanswered
<1>. QED
  BY <1>2, <1>3

\* Appending w's item to the channel appends it to the unanswered items.
LEMMA SendUnanswered ==
    ASSUME TypeInv, NEW w \in Writers, Send(w), ~chanClosed
    PROVE  Unanswered' = Append(Unanswered, Item(w))
<1>1. Item(w) \in Items
  BY ItemType DEF TypeInv
<1>2. writeQueue \in Seq(Items) /\ (Holding => item \in Items)
  BY DEF TypeInv, TypeOK, ItemHeld
<1>3. writeQueue' = Append(writeQueue, Item(w)) /\ loop' = loop /\ item' = item
  BY DEF Send, loopVars
<1>4. CASE loop \in {"check", "write", "signal"}
  BY <1>1, <1>2, <1>3, <1>4 DEF Unanswered, Holding
<1>5. CASE loop \notin {"check", "write", "signal"}
  BY <1>1, <1>2, <1>3, <1>5 DEF Unanswered
<1>. QED
  BY <1>4, <1>5

\* Receiving an item moves it within the unanswered items.
LEMMA ReceiveUnanswered ==
    ASSUME TypeInv, Receive
    PROVE  Unanswered' = Unanswered
<1>1. writeQueue \in Seq(Items) /\ writeQueue # <<>>
  BY DEF TypeInv, TypeOK, Receive
<1>2. Unanswered = <<>> \o writeQueue /\ Unanswered' = <<Head(writeQueue)>> \o Tail(writeQueue)
  BY DEF Receive, Unanswered
<1>. QED
  BY <1>1, <1>2

\* The same items, writers in the same call, the same wire: only Truth is in question.
LEMMA QuietStep ==
    ASSUME AnswerInv, Unanswered' = Unanswered, UNCHANGED <<pc, done, calls, kind, wire>>
    PROVE  (AllOwned /\ OneSync /\ WireOld /\ DoneWait)' /\ \A w \in Writers : OnWire(w)' <=> OnWire(w)
BY DEF AnswerInv, AllOwned, Owned, OneSync, WireOld, DoneWait, OnWire

\* A step of one writer within its call that neither sends nor awaits.
LEMMA WriterQuiet ==
    ASSUME TypeInv, AnswerInv, NEW w \in Writers, Unanswered' = Unanswered,
           UNCHANGED <<done, calls, kind, wire, loop, item, outcome>>,
           pc[w] \notin {"idle", "wait"}, NEW l \in Labels, l # "wait",
           pc' = [pc EXCEPT ![w] = l],
           \/ ret' = ret /\ l # "idle"
           \/ \E r \in Returns : r # "ok" /\ ret' = [ret EXCEPT ![w] = r]
    PROVE  AnswerInv'
<1>a. /\ pc \in [Writers -> Labels] /\ done \in [Writers -> Outcomes]
      /\ ret \in [Writers -> Returns] /\ Unanswered \in Seq(Items)
  BY UnansweredType DEF TypeInv, TypeOK
<1>1. \A i \in DOMAIN Unanswered : Unanswered[i].from \in Writers
  BY <1>a, ItemFields
<1>2. AllOwned'
  <2> SUFFICES ASSUME NEW i \in DOMAIN Unanswered PROVE Owned(Unanswered[i])'
    BY DEF AllOwned
  <2>1. Owned(Unanswered[i])
    BY DEF AnswerInv, AllOwned
  <2>. QED
    BY <1>a, <1>1, <2>1 DEF Owned
<1>3. OneSync' /\ WireOld' /\ DoneWait'
  BY <1>a DEF AnswerInv, OneSync, WireOld, DoneWait
<1>4. ASSUME NEW v \in Writers PROVE Truth(v)'
  <2>1. Truth(v)
    BY DEF AnswerInv, AllTrue
  <2>2. (OnWire(v)' <=> OnWire(v)) /\ (Written(v)' <=> Written(v))
    BY DEF OnWire, Written
  <2>3. CASE v # w
    <3>1. pc'[v] = pc[v] /\ ret'[v] = ret[v]
      BY <1>a, <2>3
    <3>. QED
      BY <2>1, <2>2, <3>1 DEF Truth
  <2>4. CASE v = w
    <3>1. pc'[v] = l /\ (l = "idle" => ret'[v] # "ok")
      BY <1>a, <2>4
    <3>. QED
      BY <2>1, <2>2, <2>4, <3>1 DEF Truth
  <2>. QED
    BY <2>3, <2>4
<1>. QED
  BY <1>2, <1>3, <1>4 DEF AnswerInv, AllTrue

\* A new call gets a number that no item carries yet.
LEMMA CallAnswers ==
    ASSUME TypeInv, AnswerInv, NEW w \in Writers, NEW k \in Kinds, Call(w, k)
    PROVE  AnswerInv'
<1>a. /\ pc \in [Writers -> Labels] /\ done \in [Writers -> Outcomes]
      /\ ret \in [Writers -> Returns] /\ calls \in [Writers -> Nat]
      /\ kind \in [Writers -> Kinds]
      /\ Unanswered \in Seq(Items) /\ wire \in Seq(Items)
  BY UnansweredType DEF TypeInv, TypeOK
<1>b. /\ Unanswered' = Unanswered /\ UNCHANGED <<done, wire, loop, item, outcome>>
      /\ pc[w] = "idle" /\ pc' = [pc EXCEPT ![w] = "checkClosed"]
      /\ ret' = [ret EXCEPT ![w] = "none"] /\ kind' = [kind EXCEPT ![w] = k]
      /\ calls' = [calls EXCEPT ![w] = @ + 1]
  BY DEF Call, CallTaking, Unanswered, queueVars, loopVars
<1>c. /\ \A v \in Writers : v # w => /\ calls'[v] = calls[v] /\ pc'[v] = pc[v]
                                      /\ kind'[v] = kind[v] /\ ret'[v] = ret[v]
      /\ calls'[w] = calls[w] + 1 /\ pc'[w] = "checkClosed" /\ calls[w] \in Nat
  BY <1>a, <1>b
<1>1. AllOwned'
  <2> SUFFICES ASSUME NEW i \in DOMAIN Unanswered PROVE Owned(Unanswered[i])'
    BY <1>b DEF AllOwned
  <2>1. Owned(Unanswered[i]) /\ Unanswered[i].from \in Writers /\ Unanswered[i].call \in Nat
    BY <1>a, ItemFields DEF AnswerInv, AllOwned
  <2>. DEFINE x == Unanswered[i]
  <2>a. x' = x /\ done' = done
    BY <1>b
  <2>. HIDE DEF x
  <2>2. CASE x.from = w
    <3>1. Owned(x) /\ x.call \in Nat /\ pc[x.from] = "idle" /\ calls'[x.from] = calls[x.from] + 1
          /\ calls[x.from] \in Nat
      BY <1>b, <1>c, <2>1, <2>2 DEF x
    <3>2. QED
      BY <2>a, <3>1 DEF Owned, x
  <2>3. CASE x.from # w
    <3>1. /\ Owned(x) /\ x.from \in Writers /\ calls'[x.from] = calls[x.from]
          /\ pc'[x.from] = pc[x.from] /\ kind'[x.from] = kind[x.from]
      BY <1>c, <2>1, <2>3 DEF x
    <3>2. QED
      BY <2>a, <3>1, Zenon DEF Owned, x
  <2>. QED
    BY <2>2, <2>3
<1>2. OneSync' /\ DoneWait'
  BY <1>b, <1>c DEF AnswerInv, OneSync, DoneWait
<1>3. WireOld'
  <2> SUFFICES ASSUME NEW i \in DOMAIN wire PROVE wire[i].call <= calls'[wire[i].from]
    BY <1>b DEF WireOld
  <2>1. wire[i].call <= calls[wire[i].from] /\ wire[i].from \in Writers /\ wire[i].call \in Nat
    BY <1>a, ItemFields DEF AnswerInv, WireOld
  <2>. QED
    BY <1>c, <2>1
<1>4. ASSUME NEW v \in Writers PROVE Truth(v)'
  <2>1. Truth(v)
    BY DEF AnswerInv, AllTrue
  <2>2. CASE v # w
    <3>1. (OnWire(v)' <=> OnWire(v)) /\ (Written(v)' <=> Written(v))
      BY <1>b, <1>c, <2>2 DEF OnWire, Written
    <3>. QED
      BY <1>b, <1>c, <2>1, <2>2, <3>1 DEF Truth
  <2>3. CASE v = w
    <3>1. ~OnWire(w)'
      <4> SUFFICES ASSUME NEW i \in DOMAIN wire, wire[i].from = w, wire[i].call = calls'[w]
                   PROVE  FALSE
        BY <1>b DEF OnWire
      <4>1. wire[i].call <= calls[w] /\ wire[i].call \in Nat
        BY <1>a, ItemFields DEF AnswerInv, WireOld
      <4>2. wire[i].call = calls[w] + 1 /\ calls[w] \in Nat
        BY <1>c
      <4>. QED
        BY <4>1, <4>2
    <3>. QED
      BY <1>c, <2>3, <3>1, Zenon DEF Truth
  <2>. QED
    BY <2>2, <2>3
<1>. QED
  BY <1>1, <1>2, <1>3, <1>4 DEF AnswerInv, AllTrue

\* The elements of r are those of q and then x.
Longer(r, q, x) ==
    \A i \in DOMAIN r :
        \/ i \in DOMAIN q /\ r[i] = q[i]
        \/ i = Len(q) + 1 /\ r[i] = x

\* Where the elements of a longer queue come from.
LEMMA AppendIndices ==
    ASSUME NEW S, NEW q \in Seq(S), NEW x \in S, NEW r, r = Append(q, x)
    PROVE  Longer(r, q, x)
<1>1. /\ r \in Seq(S) /\ Len(r) = Len(q) + 1 /\ r[Len(q) + 1] = x
      /\ \A i \in 1..Len(q) : r[i] = q[i]
  BY AppendProperties
<1>2. Len(q) \in Nat /\ DOMAIN q = 1..Len(q) /\ DOMAIN r = 1..Len(r)
  BY <1>1, LenProperties
<1>3. \A i \in 1..(Len(q) + 1) : i \in 1..Len(q) \/ i = Len(q) + 1
  BY <1>2
<1>4. QED
  BY <1>1, <1>2, <1>3 DEF Longer

\* A sent item is the only sync item of its writer, which waits from then on.
LEMMA SendAnswers ==
    ASSUME TypeInv, AnswerInv, NEW w \in Writers, Send(w), ~chanClosed
    PROVE  AnswerInv'
<1>a. /\ pc \in [Writers -> Labels] /\ done \in [Writers -> Outcomes]
      /\ ret \in [Writers -> Returns] /\ calls \in [Writers -> Nat]
      /\ Unanswered \in Seq(Items) /\ Item(w) \in Items
      /\ (loop = "signal" => 1 \in DOMAIN Unanswered /\ Unanswered[1] = item)
  BY UnansweredType, ItemType DEF TypeInv, TypeOK
<1>b. /\ Unanswered' = Append(Unanswered, Item(w)) /\ pc[w] = "send"
      /\ UNCHANGED <<done, wire, loop, item, outcome, calls, kind>>
      /\ IF kind[w] = "sync" THEN pc' = [pc EXCEPT ![w] = "wait"] /\ ret' = ret
         ELSE pc' = [pc EXCEPT ![w] = "idle"] /\ ret' = [ret EXCEPT ![w] = "ok"]
  BY SendUnanswered DEF Send, Goto, Return, loopVars, callVars
<1>c. /\ \A v \in Writers : v # w => pc'[v] = pc[v] /\ ret'[v] = ret[v]
      /\ pc'[w] = (IF kind[w] = "sync" THEN "wait" ELSE "idle") /\ calls[w] \in Nat
      /\ done[w] = "none"
  BY <1>a, <1>b DEF AnswerInv, DoneWait
<1>d. /\ Item(w).from = w /\ Item(w).call = calls[w] /\ Item(w).sync = (kind[w] = "sync")
  BY DEF Item
<1>e. \A i \in DOMAIN Unanswered' :
         \/ i \in DOMAIN Unanswered /\ Unanswered'[i] = Unanswered[i]
         \/ i = Len(Unanswered) + 1 /\ Unanswered'[i] = Item(w)
  <2>1. Unanswered' = Append(Unanswered, Item(w))
    BY <1>b
  <2>2. Unanswered \in Seq(Items) /\ Item(w) \in Items
    BY <1>a
  <2>3. Longer(Unanswered', Unanswered, Item(w))
    BY <2>1, <2>2, AppendIndices, Zenon
  <2>4. QED
    BY <2>3 DEF Longer
<1>f. \A i \in DOMAIN Unanswered : Unanswered[i].from = w => ~Unanswered[i].sync
                                                         /\ Unanswered[i].call # calls[w]
  BY <1>b, Zenon DEF AnswerInv, AllOwned, Owned
<1>1. AllOwned'
  <2> SUFFICES ASSUME NEW i \in DOMAIN Unanswered' PROVE Owned(Unanswered[i])'
    BY DEF AllOwned
  <2>1. CASE i = Len(Unanswered) + 1 /\ Unanswered'[i] = Item(w)
    <3>1. Unanswered'[i].sync = (kind[w] = "sync") /\ calls'[w] = calls[w]
      BY <1>b, <1>d, <2>1
    <3>2. Unanswered'[i].from = w /\ Unanswered'[i].call = calls'[w]
      BY <1>b, <1>d, <2>1
    <3>3. kind'[w] = kind[w] /\ done'[w] = "none"
      BY <1>b, <1>c
    <3>4. Unanswered'[i].call <= calls'[w]
      BY <1>c, <3>1, <3>2
    <3>5. Unanswered'[i].sync = (kind'[w] = "sync")
      BY <3>1, <3>3, Zenon
    <3>6. Unanswered'[i].sync => pc'[w] = "wait"
      BY <1>c, <3>1, Zenon
    <3>. QED
      BY <1>c, <3>2, <3>3, <3>4, <3>5, <3>6, Zenon DEF Owned
  <2>2. CASE i \in DOMAIN Unanswered /\ Unanswered'[i] = Unanswered[i]
    <3>1. Owned(Unanswered[i]) /\ Unanswered[i].from \in Writers
      BY <1>a, <2>2, ItemFields, Zenon DEF AnswerInv, AllOwned
    <3>. QED
      BY <1>b, <1>c, <1>f, <2>2, <3>1 DEF Owned
  <2>. QED
    BY <1>e, <2>1, <2>2
<1>2. OneSync'
  BY <1>d, <1>e, <1>f DEF AnswerInv, OneSync
<1>3. WireOld' /\ DoneWait'
  BY <1>b, <1>c DEF AnswerInv, WireOld, DoneWait
<1>4. ASSUME NEW v \in Writers PROVE Truth(v)'
  <2>1. Truth(v) /\ (OnWire(v)' <=> OnWire(v)) /\ (Written(v)' <=> Written(v))
    BY <1>b DEF AnswerInv, AllTrue, OnWire, Written
  <2>2. CASE v # w
    BY <1>b, <1>c, <2>1, <2>2 DEF Truth
  <2>3. CASE v = w
    <3>1. ~Written(w)
      BY <1>a, <1>f DEF Written
    <3>. QED
      BY <1>b, <1>c, <2>1, <2>3, <3>1 DEF Truth
  <2>. QED
    BY <2>2, <2>3
<1>. QED
  BY <1>1, <1>2, <1>3, <1>4 DEF AnswerInv, AllTrue

\* The answer a call takes is what became of its frame, and is taken once.
LEMMA AwaitAnswers ==
    ASSUME TypeInv, AnswerInv, NEW w \in Writers, Await(w)
    PROVE  AnswerInv'
<1>a. /\ pc \in [Writers -> Labels] /\ done \in [Writers -> Outcomes]
      /\ ret \in [Writers -> Returns] /\ Unanswered \in Seq(Items)
  BY UnansweredType DEF TypeInv, TypeOK
<1>b. /\ Unanswered' = Unanswered /\ UNCHANGED <<wire, loop, item, outcome, calls, kind>>
      /\ pc[w] = "wait" /\ done[w] # "none" /\ pc' = [pc EXCEPT ![w] = "idle"]
      /\ ret' = [ret EXCEPT ![w] = done[w]] /\ done' = [done EXCEPT ![w] = "none"]
  BY DEF Await, Return, Unanswered, queueVars, loopVars, callVars
<1>c. /\ \A v \in Writers : v # w => /\ pc'[v] = pc[v] /\ ret'[v] = ret[v]
                                      /\ done'[v] = done[v]
      /\ pc'[w] = "idle" /\ ret'[w] = done[w] /\ done'[w] = "none"
  BY <1>a, <1>b
<1>1. AllOwned'
  <2> SUFFICES ASSUME NEW i \in DOMAIN Unanswered PROVE Owned(Unanswered[i])'
    BY <1>b DEF AllOwned
  <2>1. Owned(Unanswered[i]) /\ Unanswered[i].from \in Writers
    BY <1>a, ItemFields DEF AnswerInv, AllOwned
  <2>. DEFINE x == Unanswered[i]
  <2>a. x' = x /\ calls' = calls /\ kind' = kind
    BY <1>b
  <2>. HIDE DEF x
  <2>2. CASE x.from = w
    <3>1. Owned(x) /\ done[x.from] # "none" /\ pc'[x.from] = "idle"
      BY <1>b, <1>c, <2>1, <2>2 DEF x
    <3>2. QED
      BY <2>a, <3>1 DEF Owned, x
  <2>3. CASE x.from # w
    <3>1. Owned(x) /\ pc'[x.from] = pc[x.from] /\ done'[x.from] = done[x.from]
      BY <1>c, <2>1, <2>3 DEF x
    <3>2. QED
      BY <2>a, <3>1 DEF Owned, x
  <2>. QED
    BY <2>2, <2>3
<1>2. OneSync' /\ WireOld' /\ DoneWait'
  BY <1>b, <1>c DEF AnswerInv, OneSync, WireOld, DoneWait
<1>3. ASSUME NEW v \in Writers PROVE Truth(v)'
  <2>1. Truth(v) /\ (OnWire(v)' <=> OnWire(v)) /\ (Written(v)' <=> Written(v))
    BY <1>b DEF AnswerInv, AllTrue, OnWire, Written
  <2>. QED
    BY <1>b, <1>c, <2>1 DEF Truth
<1>. QED
  BY <1>1, <1>2, <1>3 DEF AnswerInv, AllTrue

\* A frame reaches the wire while its writer, if it is a sync item, waits for it.
LEMMA WriteAnswers ==
    ASSUME TypeInv, AnswerInv, WriteItem
    PROVE  AnswerInv'
<1>a. /\ Unanswered \in Seq(Items) /\ wire \in Seq(Items) /\ calls \in [Writers -> Nat]
      /\ 1 \in DOMAIN Unanswered /\ Unanswered[1] = item /\ item \in Items
  BY UnansweredType DEF TypeInv, TypeOK, WriteItem
<1>b. /\ Unanswered' = Unanswered /\ UNCHANGED <<pc, ret, done, calls, kind, item>>
      /\ loop = "write" /\ loop' = "signal"
      /\ \/ outcome' = "ok" /\ wire' = Append(wire, item)
         \/ outcome' = "failed" /\ wire' = wire
  BY DEF WriteItem, Unanswered, queueVars, callVars
<1>c. Owned(item)
  BY <1>a DEF AnswerInv, AllOwned
<1>1. AllOwned' /\ OneSync' /\ DoneWait'
  BY <1>b DEF AnswerInv, AllOwned, Owned, OneSync, DoneWait
<1>2. WireOld'
  <2>1. CASE wire' = wire
    BY <1>b, <2>1 DEF AnswerInv, WireOld
  <2>2. CASE wire' = Append(wire, item)
    <3>1. \A i \in DOMAIN wire' : wire'[i] = item \/ (i \in DOMAIN wire /\ wire'[i] = wire[i])
      BY <1>a, <2>2
    <3>. QED
      BY <1>b, <1>c, <3>1 DEF AnswerInv, WireOld, Owned
  <2>. QED
    BY <1>b, <2>1, <2>2
<1>3. ASSUME NEW v \in Writers PROVE Truth(v)'
  <2>1. Truth(v) /\ ~Written(v)
    BY <1>b DEF AnswerInv, AllTrue, Written
  <2>2. CASE outcome' = "failed" /\ wire' = wire
    <3>1. (OnWire(v)' <=> OnWire(v)) /\ ~Written(v)'
      BY <1>b, <2>2 DEF OnWire, Written
    <3>. QED
      BY <1>b, <2>1, <3>1 DEF Truth
  <2>3. CASE outcome' = "ok" /\ wire' = Append(wire, item)
    <3>1. \A i \in DOMAIN wire' : \/ i = Len(wire) + 1 /\ wire'[i] = item
                                  \/ i \in DOMAIN wire /\ wire'[i] = wire[i]
      BY <1>a, <2>3
    <3>2. /\ Len(wire) + 1 \in DOMAIN wire' /\ wire'[Len(wire) + 1] = item
          /\ \A i \in DOMAIN wire : i \in DOMAIN wire' /\ wire'[i] = wire[i]
      BY <1>a, <2>3
    <3>3. OnWire(v)' <=> OnWire(v) \/ (item.from = v /\ item.call = calls[v])
      BY <1>b, <3>1, <3>2 DEF OnWire
    <3>4. CASE item.from = v /\ item.call = calls[v]
      <4>1. kind[v] = "sync" => item.sync /\ pc[v] = "wait" /\ done[v] = "none"
        BY <1>c, <3>4, Zenon DEF Owned
      <4>2. kind[v] = "sync" => Written(v)'
        BY <1>b, <2>3, <3>4, <4>1 DEF Written
      <4>. QED
        BY <1>b, <3>3, <3>4, <4>1, <4>2 DEF Truth
    <3>5. CASE ~(item.from = v /\ item.call = calls[v])
      <4>1. ~Written(v)'
        BY <1>b, <1>c, <3>5 DEF Written, Owned
      <4>. QED
        BY <1>b, <2>1, <3>3, <3>5, <4>1 DEF Truth
    <3>. QED
      BY <3>4, <3>5
  <2>. QED
    BY <1>b, <2>2, <2>3
<1>. QED
  BY <1>1, <1>2, <1>3 DEF AnswerInv, AllTrue

\* writeLoop answers the one call that waits for the item, with what became of it.
LEMMA SignalAnswers ==
    ASSUME TypeInv, LoopInv, AnswerInv, Signal
    PROVE  AnswerInv'
<1>a. /\ Unanswered \in Seq(Items) /\ done \in [Writers -> Outcomes]
      /\ 1 \in DOMAIN Unanswered /\ Unanswered[1] = item /\ item \in Items
      /\ item.from \in Writers /\ Tail(Unanswered) = writeQueue
  <2>1. loop = "signal"
    BY DEF Signal, SignalAs
  <2>2. /\ Unanswered \in Seq(Items) /\ Unanswered # <<>> /\ Unanswered[1] = item
        /\ item \in Items /\ Tail(Unanswered) = writeQueue
    BY <2>1, UnansweredType
  <2>3. item.from \in Writers
    BY <2>2 DEF Items
  <2>. QED
    BY <2>2, <2>3 DEF TypeInv, TypeOK
<1>b. /\ UNCHANGED <<pc, ret, calls, kind, item, wire, outcome>>
      /\ loop = "signal" /\ loop' = "release" /\ outcome # "none"
      /\ done' = IF item.sync THEN [done EXCEPT ![item.from] = outcome] ELSE done
      /\ Unanswered' = <<>> \o writeQueue
  BY DEF Signal, SignalAs, Unanswered, queueVars, callVars, LoopInv
<1>c. /\ Unanswered' = Tail(Unanswered)
      /\ \A i \in DOMAIN Unanswered' : /\ i + 1 \in DOMAIN Unanswered /\ i + 1 # 1 /\ i \in Nat
                                        /\ Unanswered'[i] = Unanswered[i + 1]
  <2>1. Unanswered' = Tail(Unanswered)
    BY <1>a, <1>b DEF TypeInv, TypeOK
  <2>. QED
    BY <1>a, <2>1
<1>d. \A v \in Writers : done'[v] = IF item.sync /\ item.from = v THEN outcome ELSE done[v]
  BY <1>a, <1>b
<1>e. Owned(item)
  BY <1>a DEF AnswerInv, AllOwned
<1>1. AllOwned'
  <2> SUFFICES ASSUME NEW i \in DOMAIN Unanswered' PROVE Owned(Unanswered[i])'
    BY DEF AllOwned
  <2>1. Owned(Unanswered[i + 1]) /\ Unanswered[i + 1].from \in Writers
    BY <1>a, <1>c, ItemFields DEF AnswerInv, AllOwned
  <2>2. item.sync /\ Unanswered[i + 1].sync => Unanswered[i + 1].from # item.from
    BY <1>a, <1>c DEF AnswerInv, OneSync
  <2>. QED
    BY <1>b, <1>c, <1>d, <2>1, <2>2 DEF Owned
<1>2. OneSync'
  <2> SUFFICES ASSUME NEW i \in DOMAIN Unanswered', NEW j \in DOMAIN Unanswered',
                      Unanswered'[i].sync, Unanswered'[j].sync,
                      Unanswered'[i].from = Unanswered'[j].from
               PROVE  i = j
    BY DEF OneSync
  <2>1. i + 1 = j + 1
    BY <1>c DEF AnswerInv, OneSync
  <2>. QED
    BY <1>c, <2>1
<1>3. WireOld' /\ DoneWait'
  BY <1>b, <1>d, <1>e DEF AnswerInv, WireOld, DoneWait, Owned
<1>4. ASSUME NEW v \in Writers PROVE Truth(v)'
  <2>1. Truth(v) /\ (OnWire(v)' <=> OnWire(v)) /\ ~Written(v)'
    BY <1>b DEF AnswerInv, AllTrue, OnWire, Written
  <2>2. CASE item.sync /\ item.from = v
    <3>1. pc[v] = "wait" /\ done[v] = "none" /\ done'[v] = outcome
      BY <1>d, <1>e, <2>2 DEF Owned
    <3>2. Written(v) <=> outcome = "ok"
      BY <1>b, <2>2 DEF Written
    <3>. QED
      BY <1>b, <2>1, <3>1, <3>2 DEF Truth
  <2>3. CASE ~(item.sync /\ item.from = v)
    <3>1. ~Written(v) /\ done'[v] = done[v]
      BY <1>d, <2>3 DEF Written
    <3>. QED
      BY <1>b, <2>1, <3>1 DEF Truth
  <2>. QED
    BY <2>2, <2>3
<1>. QED
  BY <1>1, <1>2, <1>3, <1>4 DEF AnswerInv, AllTrue

\* AnswerInv is inductive with the types and LoopInv.
LEMMA AnswerStep == TypeInv /\ LoopInv /\ AnswerInv /\ [Next]_vars => AnswerInv'
<1> SUFFICES ASSUME TypeInv, LoopInv, AnswerInv, [Next]_vars PROVE AnswerInv'
  OBVIOUS
<1> USE DEF closeVars, queueVars, callVars, loopVars
<1>1. ASSUME NEW w \in Writers, NEW k \in Kinds, Call(w, k) PROVE AnswerInv'
  BY <1>1, CallAnswers
<1>2. ASSUME NEW w \in Writers,
             CheckClosed(w) \/ CheckCapacity(w) \/ Reserve(w) \/ GiveUp(w) \/ Rollback(w)
                \/ (Send(w) /\ chanClosed)
      PROVE  AnswerInv'
  <2>1. /\ Unanswered' = Unanswered /\ UNCHANGED <<done, calls, kind, wire, loop, item, outcome>>
        /\ pc[w] \notin {"idle", "wait"}
    BY <1>2, Zenon DEF CheckClosed, CheckCapacity, Reserve, GiveUp, Rollback, RollbackBy, Send,
                Unanswered
  <2>3. PICK l \in Labels :
           /\ l # "wait" /\ pc' = [pc EXCEPT ![w] = l]
           /\ \/ ret' = ret /\ l # "idle"
              \/ \E r \in {"closed", "full", "timeout"} : ret' = [ret EXCEPT ![w] = r]
    BY <1>2, Zenon DEF CheckClosed, CheckCapacity, Reserve, GiveUp, Rollback, RollbackBy, Send, Goto,
                Return, Labels
  <2>4. CASE ret' = ret /\ l # "idle"
    BY <2>1, <2>3, <2>4, WriterQuiet, Zenon
  <2>5. CASE \E r \in {"closed", "full", "timeout"} : ret' = [ret EXCEPT ![w] = r]
    <3>1. PICK r \in {"closed", "full", "timeout"} : ret' = [ret EXCEPT ![w] = r]
      BY <2>5, Zenon
    <3>2. r \in Returns /\ r # "ok"
      BY DEF Returns, Outcomes
    <3>. QED
      BY <2>1, <2>3, <3>1, <3>2, WriterQuiet, Zenon
  <2>. QED
    BY <2>3, <2>4, <2>5
<1>3. ASSUME NEW w \in Writers, Send(w), ~chanClosed PROVE AnswerInv'
  BY <1>3, SendAnswers
<1>4. ASSUME NEW w \in Writers, Await(w) PROVE AnswerInv'
  BY <1>4, AwaitAnswers
<1>5. CASE Receive \/ RangeEnd \/ CheckItem \/ Release
  <2>1. Unanswered' = Unanswered
    BY <1>5, ReceiveUnanswered DEF RangeEnd, CheckItem, Release, ReleaseTo, Unanswered
  <2>2. UNCHANGED <<pc, ret, done, calls, kind, wire>>
    BY <1>5 DEF Receive, RangeEnd, CheckItem, Release, ReleaseTo
  <2>3. \A w \in Writers : ~Written(w) /\ ~Written(w)'
    BY <1>5 DEF Receive, RangeEnd, CheckItem, Release, ReleaseTo, Written
  <2>. QED
    BY <2>1, <2>2, <2>3, QuietStep, Zenon DEF AnswerInv, AllTrue, Truth
<1>6. CASE WriteItem
  BY <1>6, WriteAnswers
<1>7. CASE Signal
  BY <1>7, SignalAnswers
<1>8. ASSUME \/ \E c \in Closers : CloseSwap(c) \/ CloseStep(c)
             \/ UNCHANGED vars
      PROVE  AnswerInv'
  <2>1. UNCHANGED <<pc, ret, done, calls, kind, wire, loop, item, outcome, writeQueue>>
    BY <1>8 DEF CloseSwap, CloseStep, CloseChannel, CloseChannelTo, CloseSocket, vars
  <2>2. Unanswered' = Unanswered /\ \A w \in Writers : Written(w)' <=> Written(w)
    BY <2>1 DEF Unanswered, Written
  <2>. QED
    BY <2>1, <2>2, QuietStep DEF AnswerInv, AllTrue, Truth
<1>. QED
  BY <1>1, <1>2, <1>3, <1>4, <1>5, <1>6, <1>7, <1>8 DEF Next, WriterStep, LoopStep

\* WriteFrameSync tells the truth: it returns nil exactly if its frame was written,
\* however its answer races with Close, an expired deadline or its own timer.
THEOREM SyncResultCorrect == Spec => []SyncResultTrue
<1>1. Init => AnswerInv
  <2> SUFFICES ASSUME Init PROVE AnswerInv
    OBVIOUS
  <2>1. DOMAIN Unanswered = {} /\ DOMAIN wire = {}
    BY DEF Init, Unanswered
  <2>2. \A w \in Writers : kind[w] = "frame" /\ done[w] = "none"
    BY DEF Init
  <2>. QED
    BY <2>1, <2>2, Zenon DEF AnswerInv, AllOwned, OneSync, WireOld, DoneWait, AllTrue, Truth
<1>2. AnswerInv => SyncResultTrue
  BY DEF AnswerInv, AllTrue, Truth, SyncResultTrue
<1>. QED
  BY <1>1, <1>2, LoopInvariant, AnswerStep, PTL DEF Spec

------------------------------------------------------------------------------
(* The numbers of batches                                                  *)

\* A batch with number s of writer f may follow item x.
Follows(x, s, f) == x.seq # 0 /\ s # 0 => x.seq # s /\ (x.from = f => x.seq < s)

InOrder(q) == \A i, j \in DOMAIN q : i < j => Follows(q[i], q[j].seq, q[j].from)

\* w has stamped its batch and not sent it yet.
Stamped(w) == pc[w] \in {"checkClosed", "checkLen", "add", "send"}

\* Whatever is written, pending or about to be sent is numbered in the order in which
\* it can reach the wire, and no number is ahead of the counter.
SeqInv ==
    messagesSent < SeqSpace =>
        /\ InOrder(wire) /\ InOrder(Pending)
        /\ \A i \in DOMAIN wire : wire[i].seq <= messagesSent
        /\ \A i \in DOMAIN Pending : Pending[i].seq <= messagesSent
        /\ \A w \in Writers : seq[w] <= messagesSent
        /\ \A i \in DOMAIN wire, j \in DOMAIN Pending :
              Follows(wire[i], Pending[j].seq, Pending[j].from)
        /\ \A w \in Writers : Stamped(w) =>
              /\ \A i \in DOMAIN wire : Follows(wire[i], seq[w], w)
              /\ \A i \in DOMAIN Pending : Follows(Pending[i], seq[w], w)
              /\ \A v \in Writers : Stamped(v) /\ v # w /\ seq[w] # 0 => seq[v] # seq[w]

\* What is pending is a sequence of items, the one in writeLoop's hand first.
LEMMA PendingType ==
    ASSUME TypeInv
    PROVE  /\ Pending \in Seq(Items)
           /\ loop \in {"check", "write"} => Pending # <<>> /\ Head(Pending) = item
                                             /\ Tail(Pending) = writeQueue
           /\ loop \notin {"check", "write"} => Pending = writeQueue
<1>1. writeQueue \in Seq(Items) /\ (Holding => item \in Items)
  BY DEF TypeInv, TypeOK, ItemHeld
<1>2. CASE loop \in {"check", "write"}
  BY <1>1, <1>2 DEF Pending, InHand, Holding
<1>3. CASE loop \notin {"check", "write"}
  BY <1>1, <1>3 DEF Pending, InHand
<1>. QED
  BY <1>2, <1>3

\* A step of writeLoop takes at most the first pending item away, to write it or not.
LEMMA LoopPending ==
    ASSUME TypeInv, LoopStep
    PROVE  \/ Pending' = Pending /\ wire' = wire /\ messagesSent' = messagesSent
           \/ /\ Pending # <<>> /\ Pending' = Tail(Pending)
              /\ \/ wire' = wire /\ messagesSent' = messagesSent
                 \/ wire' = Append(wire, Head(Pending)) /\ messagesSent' = messagesSent + 1
<1>a. writeQueue \in Seq(Items)
  BY DEF TypeInv, TypeOK
<1>1. CASE Receive
  <2>1. Pending = writeQueue /\ Pending' = <<Head(writeQueue)>> \o Tail(writeQueue)
    BY <1>1, PendingType DEF Receive, Pending, InHand
  <2>2. <<Head(writeQueue)>> \o Tail(writeQueue) = writeQueue
    BY <1>1, <1>a DEF Receive
  <2>. QED
    BY <1>1, <2>1, <2>2, Zenon DEF Receive
<1>2. CASE RangeEnd \/ Signal \/ Release
  BY <1>2 DEF RangeEnd, Signal, SignalAs, Release, ReleaseTo, Pending, InHand, queueVars
<1>3. CASE CheckItem \/ WriteItem
  <2>1. /\ Pending # <<>> /\ Head(Pending) = item /\ Tail(Pending) = writeQueue
    BY <1>3, PendingType DEF CheckItem, WriteItem
  <2>2. writeQueue' = writeQueue /\ item' = item
    BY <1>3 DEF CheckItem, WriteItem, queueVars
  <2>3. CASE loop' = "write"
    BY <1>3, <2>2, <2>3 DEF CheckItem, WriteItem, Pending, InHand
  <2>4. CASE loop' = "signal"
    <3>1. Pending' = <<>> \o writeQueue
      BY <2>2, <2>4 DEF Pending, InHand
    <3>2. Pending' = Tail(Pending)
      BY <1>a, <2>1, <3>1
    <3>. QED
      BY <1>3, <2>1, <3>2 DEF CheckItem, WriteItem
  <2>. QED
    BY <1>3, <2>3, <2>4 DEF CheckItem, WriteItem
<1>. QED
  BY <1>1, <1>2, <1>3 DEF LoopStep

\* The conversion to uint32 keeps a number that fits.
LEMMA SmallMod == ASSUME NEW m \in Nat, NEW n \in Nat, m < n PROVE m % n = m
OBVIOUS

\* A counter that grows stays above what was below it.
LEMMA StaysBelow ==
    ASSUME NEW m \in Nat, NEW n \in Nat, m <= n
    PROVE  \A x \in Nat : x <= m => x <= n
OBVIOUS

\* A new stamp is beyond every number in use, as long as the counter has not wrapped.
LEMMA CallOrdered ==
    ASSUME TypeInv, SeqInv, NEW w \in Writers, NEW k \in Kinds, Call(w, k)
    PROVE  SeqInv'
<1>a. /\ Pending \in Seq(Items) /\ wire \in Seq(Items) /\ messagesSent \in Nat
      /\ seq \in [Writers -> Nat] /\ pc \in [Writers -> Labels] /\ SeqSpace \in Nat
  BY PendingType, QueueAssumption DEF TypeInv, TypeOK
<1>b. /\ UNCHANGED <<wire, Pending>> /\ pc' = [pc EXCEPT ![w] = "checkClosed"]
      /\ seq' = [seq EXCEPT ![w] = IF k = "batch" THEN BatchSequence ELSE 0]
      /\ messagesSent' = IF k = "batch" THEN messagesSent + 1 ELSE messagesSent
  BY DEF Call, CallTaking, Pending, InHand, queueVars, loopVars
<1> SUFFICES ASSUME messagesSent' < SeqSpace PROVE SeqInv'
  BY Zenon DEF SeqInv
<1>c. messagesSent < SeqSpace /\ messagesSent' \in Nat /\ messagesSent <= messagesSent'
  BY <1>a, <1>b
<1>d. /\ \A v \in Writers : v # w => seq'[v] = seq[v] /\ (Stamped(v)' <=> Stamped(v))
      /\ seq'[w] = 0 \/ (seq'[w] = messagesSent + 1 /\ messagesSent' = messagesSent + 1)
  <2>1. k = "batch" => BatchSequence = messagesSent + 1
    <3> SUFFICES ASSUME k = "batch" PROVE BatchSequence = messagesSent + 1
      OBVIOUS
    <3>1. messagesSent + 1 \in Nat /\ messagesSent + 1 < SeqSpace
      BY <1>a, <1>b
    <3>. QED
      BY <1>a, <3>1, SmallMod DEF BatchSequence
  <2>. QED
    BY <1>a, <1>b, <2>1 DEF Stamped
<1>e. /\ \A i \in DOMAIN wire : wire[i].seq \in Nat /\ wire[i].seq <= messagesSent
      /\ \A i \in DOMAIN Pending : Pending[i].seq \in Nat /\ Pending[i].seq <= messagesSent
      /\ \A v \in Writers : seq[v] \in Nat /\ seq[v] <= messagesSent
  BY <1>a, <1>c, ItemFields, Zenon DEF SeqInv
<1>1. /\ InOrder(wire)' /\ InOrder(Pending)'
      /\ \A i \in DOMAIN wire, j \in DOMAIN Pending :
            Follows(wire[i], Pending[j].seq, Pending[j].from)
  BY <1>b, <1>c, Zenon DEF SeqInv, InOrder
<1>2. /\ \A i \in DOMAIN wire : wire[i].seq <= messagesSent'
      /\ \A i \in DOMAIN Pending : Pending[i].seq <= messagesSent'
      /\ \A v \in Writers : seq'[v] <= messagesSent'
  <2>1. \A x \in Nat : x <= messagesSent => x <= messagesSent'
    BY <1>a, <1>c, StaysBelow
  <2>2. ASSUME NEW v \in Writers PROVE seq'[v] <= messagesSent'
    <3>1. CASE v # w
      BY <1>d, <1>e, <2>1, <3>1
    <3>2. CASE v = w
      BY <1>a, <1>c, <1>d, <3>2
    <3>. QED
      BY <3>1, <3>2
  <2>. QED
    BY <1>e, <2>1, <2>2, Zenon
<1>3. /\ \A i \in DOMAIN wire : Follows(wire[i], seq'[w], w)
      /\ \A i \in DOMAIN Pending : Follows(Pending[i], seq'[w], w)
      /\ \A v \in Writers : v # w /\ seq'[w] # 0 => seq'[v] # seq'[w]
  <2>1. ASSUME NEW x \in Nat, x <= messagesSent, seq'[w] # 0
        PROVE  x < seq'[w] /\ x # seq'[w]
    BY <1>a, <1>d, <2>1
  <2>2. \A i \in DOMAIN wire : Follows(wire[i], seq'[w], w)
    BY <1>e, <2>1 DEF Follows
  <2>3. \A i \in DOMAIN Pending : Follows(Pending[i], seq'[w], w)
    BY <1>e, <2>1 DEF Follows
  <2>4. \A v \in Writers : v # w /\ seq'[w] # 0 => seq'[v] # seq'[w]
    BY <1>d, <1>e, <2>1
  <2>. QED
    BY <2>2, <2>3, <2>4, Zenon
<1>4. ASSUME NEW v \in Writers, Stamped(v)', v # w
      PROVE  /\ \A i \in DOMAIN wire : Follows(wire[i], seq'[v], v)
             /\ \A i \in DOMAIN Pending : Follows(Pending[i], seq'[v], v)
             /\ \A u \in Writers : Stamped(u)' /\ u # v /\ seq'[v] # 0 => seq'[u] # seq'[v]
  BY <1>c, <1>d, <1>3, <1>4, Zenon DEF SeqInv
<1>5. ASSUME NEW v \in Writers, Stamped(v)'
      PROVE  /\ \A i \in DOMAIN wire : Follows(wire[i], seq'[v], v)
             /\ \A i \in DOMAIN Pending : Follows(Pending[i], seq'[v], v)
             /\ \A u \in Writers : Stamped(u)' /\ u # v /\ seq'[v] # 0 => seq'[u] # seq'[v]
  BY <1>3, <1>4, <1>5, Zenon
<1>. QED
  BY <1>b, <1>1, <1>2, <1>5, Zenon DEF SeqInv, Follows

\* A sent item follows everything written or pending, since its stamp does.
LEMMA SendOrdered ==
    ASSUME TypeInv, SeqInv, NEW w \in Writers, Send(w), ~chanClosed
    PROVE  SeqInv'
<1>a. /\ Pending \in Seq(Items) /\ wire \in Seq(Items) /\ messagesSent \in Nat
      /\ pc \in [Writers -> Labels] /\ writeQueue \in Seq(Items) /\ Item(w) \in Items
  BY PendingType, ItemType DEF TypeInv, TypeOK
<1>b. /\ UNCHANGED <<wire, seq, messagesSent>> /\ Stamped(w)
      /\ \A v \in Writers : Stamped(v)' => Stamped(v) /\ v # w
  BY <1>a DEF Send, Goto, Return, callVars, loopVars, Stamped
<1>c. Pending' = Append(Pending, Item(w))
  <2>1. Pending' = InHand \o Append(writeQueue, Item(w))
    BY Zenon DEF Send, Pending, InHand, loopVars
  <2>2. InHand \in Seq(Items)
    BY DEF InHand, TypeInv, ItemHeld, Holding
  <2>. QED
    BY <1>a, <2>1, <2>2 DEF Pending
<1>d. /\ Item(w).seq = seq[w] /\ Item(w).from = w
  BY DEF Item
<1>e. \A i \in DOMAIN Pending' :
         /\ i \in 1..Len(Pending) + 1
         /\ \/ i \in DOMAIN Pending /\ i # Len(Pending) + 1 /\ Pending'[i] = Pending[i]
            \/ i = Len(Pending) + 1 /\ Pending'[i] = Item(w)
  BY <1>a, <1>c
<1> SUFFICES ASSUME messagesSent' < SeqSpace PROVE SeqInv'
  BY Zenon DEF SeqInv
<1>f. /\ InOrder(wire) /\ InOrder(Pending)
      /\ \A i \in DOMAIN wire : wire[i].seq <= messagesSent
      /\ \A i \in DOMAIN Pending : Pending[i].seq <= messagesSent
      /\ \A v \in Writers : seq[v] <= messagesSent
      /\ \A i \in DOMAIN wire, j \in DOMAIN Pending :
            Follows(wire[i], Pending[j].seq, Pending[j].from)
      /\ \A v \in Writers : Stamped(v) =>
            /\ \A i \in DOMAIN wire : Follows(wire[i], seq[v], v)
            /\ \A i \in DOMAIN Pending : Follows(Pending[i], seq[v], v)
            /\ \A u \in Writers : Stamped(u) /\ u # v /\ seq[v] # 0 => seq[u] # seq[v]
  BY <1>b, Zenon DEF SeqInv
<1>1. InOrder(Pending)'
  <2> SUFFICES ASSUME NEW i \in DOMAIN Pending', NEW j \in DOMAIN Pending', i < j
               PROVE  Follows(Pending'[i], Pending'[j].seq, Pending'[j].from)
    BY DEF InOrder
  <2>1. Pending'[i] = Pending[i] /\ i \in DOMAIN Pending
    BY <1>a, <1>e
  <2>. QED
    BY <1>b, <1>d, <1>e, <1>f, <2>1, Zenon DEF InOrder
<1>2. /\ \A i \in DOMAIN Pending' : Pending'[i].seq <= messagesSent
      /\ \A i \in DOMAIN wire, j \in DOMAIN Pending' :
            Follows(wire[i], Pending'[j].seq, Pending'[j].from)
  BY <1>b, <1>d, <1>e, <1>f, Zenon
<1>3. ASSUME NEW v \in Writers, Stamped(v)', NEW i \in DOMAIN Pending'
      PROVE  Follows(Pending'[i], seq[v], v)
  <2>1. Stamped(v) /\ v # w
    BY <1>b, <1>3
  <2>2. Follows(Item(w), seq[v], v)
    BY <1>b, <1>d, <1>f, <2>1, Zenon DEF Follows
  <2>. QED
    BY <1>e, <1>f, <2>1, <2>2, Zenon
<1>4. ASSUME NEW v \in Writers, Stamped(v)'
      PROVE  /\ \A i \in DOMAIN wire' : Follows(wire[i], seq[v], v)'
             /\ \A i \in DOMAIN Pending' : Follows(Pending[i], seq[v], v)'
             /\ \A u \in Writers : Stamped(u)' /\ u # v /\ seq'[v] # 0 => seq'[u] # seq'[v]
  <2>1. Stamped(v)
    BY <1>b, <1>4
  <2>2. \A i \in DOMAIN wire' : Follows(wire[i], seq[v], v)'
    BY <1>b, <1>f, <2>1, Zenon DEF Follows
  <2>3. \A i \in DOMAIN Pending' : Follows(Pending[i], seq[v], v)'
    BY <1>b, <1>3, <1>4, Zenon DEF Follows
  <2>4. \A u \in Writers : Stamped(u)' /\ u # v /\ seq'[v] # 0 => seq'[u] # seq'[v]
    BY <1>b, <1>f, <2>1
  <2>. QED
    BY <2>2, <2>3, <2>4, Zenon
<1>5. InOrder(wire)'
  <2>1. wire' = wire /\ InOrder(wire)
    BY <1>b, <1>f
  <2>. QED
    BY <2>1 DEF InOrder, Follows
<1>6. \A i \in DOMAIN wire', j \in DOMAIN Pending' :
         Follows(wire[i], Pending[j].seq, Pending[j].from)'
  BY <1>b, <1>2 DEF Follows
<1>7. /\ \A i \in DOMAIN wire' : wire'[i].seq <= messagesSent'
      /\ \A i \in DOMAIN Pending' : Pending'[i].seq <= messagesSent'
      /\ \A v \in Writers : seq'[v] <= messagesSent'
  BY <1>b, <1>f, <1>2
<1>. QED
  BY <1>1, <1>4, <1>5, <1>6, <1>7, Zenon DEF SeqInv

\* SeqInv is inductive with the types.
LEMMA SeqStep == TypeInv /\ SeqInv /\ [Next]_vars => SeqInv'
<1> SUFFICES ASSUME TypeInv, SeqInv, [Next]_vars PROVE SeqInv'
  OBVIOUS
<1> USE DEF closeVars, queueVars, callVars, loopVars
<1>a. /\ Pending \in Seq(Items) /\ wire \in Seq(Items) /\ messagesSent \in Nat
      /\ pc \in [Writers -> Labels] /\ seq \in [Writers -> Nat] /\ SeqSpace \in Nat
  BY PendingType, QueueAssumption DEF TypeInv, TypeOK
<1>0. ASSUME UNCHANGED <<wire, Pending, seq, messagesSent>>,
             \A v \in Writers : Stamped(v)' => Stamped(v)
      PROVE  SeqInv'
  <2>1. wire' = wire /\ Pending' = Pending /\ seq' = seq /\ messagesSent' = messagesSent
    BY <1>0
  <2> SUFFICES ASSUME messagesSent' < SeqSpace PROVE SeqInv'
    BY Zenon DEF SeqInv
  <2>2. messagesSent < SeqSpace
    BY <2>1
  <2>3. InOrder(wire)' /\ InOrder(Pending)'
    <3>1. InOrder(wire) /\ InOrder(Pending)
      BY <2>2, Zenon DEF SeqInv
    <3>. QED
      BY <2>1, <3>1 DEF InOrder, Follows
  <2>4. /\ \A i \in DOMAIN wire' : wire'[i].seq <= messagesSent'
        /\ \A i \in DOMAIN Pending' : Pending'[i].seq <= messagesSent'
        /\ \A v \in Writers : seq'[v] <= messagesSent'
    BY <2>1, <2>2 DEF SeqInv
  <2>5. \A i \in DOMAIN wire', j \in DOMAIN Pending' :
           Follows(wire[i], Pending[j].seq, Pending[j].from)'
    <3>1. \A i \in DOMAIN wire, j \in DOMAIN Pending :
             Follows(wire[i], Pending[j].seq, Pending[j].from)
      BY <2>2 DEF SeqInv
    <3>. QED
      BY <2>1, <3>1 DEF Follows
  <2>6. ASSUME NEW v \in Writers, Stamped(v)'
        PROVE  /\ \A i \in DOMAIN wire' : Follows(wire[i], seq[v], v)'
               /\ \A i \in DOMAIN Pending' : Follows(Pending[i], seq[v], v)'
               /\ \A u \in Writers : Stamped(u)' /\ u # v /\ seq'[v] # 0 => seq'[u] # seq'[v]
    <3>1. /\ \A i \in DOMAIN wire : Follows(wire[i], seq[v], v)
          /\ \A i \in DOMAIN Pending : Follows(Pending[i], seq[v], v)
          /\ \A u \in Writers : Stamped(u) /\ u # v /\ seq[v] # 0 => seq[u] # seq[v]
      BY <1>0, <2>2, <2>6 DEF SeqInv
    <3>2. /\ \A i \in DOMAIN wire' : Follows(wire[i], seq[v], v)'
          /\ \A i \in DOMAIN Pending' : Follows(Pending[i], seq[v], v)'
      BY <2>1, <3>1 DEF Follows
    <3>. QED
      BY <1>0, <2>1, <3>1, <3>2
  <2>. QED
    BY <2>3, <2>4, <2>5, <2>6, Zenon DEF SeqInv
<1>1. ASSUME NEW w \in Writers, NEW k \in Kinds, Call(w, k) PROVE SeqInv'
  BY <1>1, CallOrdered
<1>2. ASSUME NEW w \in Writers,
             CheckClosed(w) \/ CheckCapacity(w) \/ Reserve(w) \/ GiveUp(w) \/ Rollback(w)
                \/ Await(w) \/ (Send(w) /\ chanClosed)
      PROVE  SeqInv'
  <2>1. UNCHANGED <<wire, Pending, seq, messagesSent>>
    BY <1>2, Zenon DEF CheckClosed, CheckCapacity, Reserve, GiveUp, Rollback, RollbackBy, Await, Send,
                Pending, InHand
  <2>2. \A v \in Writers : Stamped(v)' => Stamped(v)
    BY <1>2, <1>a, Zenon DEF CheckClosed, CheckCapacity, Reserve, GiveUp, Rollback, RollbackBy, Await,
                      Send, Goto, Return, Stamped
  <2>. QED
    BY <1>0, <2>1, <2>2
<1>3. ASSUME NEW w \in Writers, Send(w), ~chanClosed PROVE SeqInv'
  BY <1>3, SendOrdered
<1>4. CASE LoopStep
  <2>1. UNCHANGED <<seq, pc>>
    BY <1>4, Zenon DEF LoopStep, Receive, RangeEnd, CheckItem, WriteItem, Signal, SignalAs, Release,
                ReleaseTo
  <2>2. \A v \in Writers : Stamped(v)' <=> Stamped(v)
    BY <2>1 DEF Stamped
  <2>3. CASE UNCHANGED <<wire, Pending, messagesSent>>
    BY <1>0, <2>1, <2>2, <2>3
  <2>4. CASE /\ Pending # <<>> /\ Pending' = Tail(Pending)
             /\ \/ wire' = wire /\ messagesSent' = messagesSent
                \/ wire' = Append(wire, Head(Pending)) /\ messagesSent' = messagesSent + 1
    <3>1. /\ 1 \in DOMAIN Pending /\ Head(Pending) = Pending[1]
          /\ \A i \in DOMAIN Pending' : /\ i \in Nat /\ 1 < i + 1 /\ i + 1 \in DOMAIN Pending
                                         /\ Pending'[i] = Pending[i + 1]
      BY <1>a, <2>4
    <3>2. \A i \in DOMAIN wire' :
             \/ i \in DOMAIN wire /\ wire'[i] = wire[i]
             \/ i = Len(wire) + 1 /\ wire'[i] = Pending[1]
      <4>1. CASE wire' = wire
        BY <4>1
      <4>2. CASE wire' = Append(wire, Pending[1])
        <5>1. Pending[1] \in Items
          BY <1>a, <3>1
        <5>. QED
          BY <1>a, <4>2, <5>1
      <4>. QED
        BY <2>4, <3>1, <4>1, <4>2
    <3>3. DOMAIN wire = 1..Len(wire) /\ Len(wire) \in Nat
          /\ messagesSent' \in Nat /\ messagesSent <= messagesSent'
      BY <1>a, <2>4
    <3>e. /\ \A i \in DOMAIN wire : wire[i].seq \in Nat
          /\ \A i \in DOMAIN Pending : Pending[i].seq \in Nat
          /\ \A v \in Writers : seq[v] \in Nat
      BY <1>a, ItemFields
    <3> SUFFICES ASSUME messagesSent' < SeqSpace PROVE SeqInv'
      BY Zenon DEF SeqInv
    <3>4. messagesSent < SeqSpace
      BY <1>a, <3>3
    <3>f. /\ InOrder(wire) /\ InOrder(Pending)
          /\ \A i \in DOMAIN wire : wire[i].seq <= messagesSent
          /\ \A i \in DOMAIN Pending : Pending[i].seq <= messagesSent
          /\ \A v \in Writers : seq[v] <= messagesSent
          /\ \A i \in DOMAIN wire, j \in DOMAIN Pending :
                Follows(wire[i], Pending[j].seq, Pending[j].from)
          /\ \A v \in Writers : Stamped(v) =>
                /\ \A i \in DOMAIN wire : Follows(wire[i], seq[v], v)
                /\ \A i \in DOMAIN Pending : Follows(Pending[i], seq[v], v)
                /\ \A u \in Writers : Stamped(u) /\ u # v /\ seq[v] # 0 => seq[u] # seq[v]
      BY <3>4, Zenon DEF SeqInv
    <3>5. InOrder(Pending)'
      <4> SUFFICES ASSUME NEW i \in DOMAIN Pending', NEW j \in DOMAIN Pending', i < j
                   PROVE  Follows(Pending'[i], Pending'[j].seq, Pending'[j].from)
        BY DEF InOrder
      <4>1. i + 1 < j + 1
        BY <3>1
      <4>. QED
        BY <3>1, <3>f, <4>1, Zenon DEF InOrder
    <3>6. InOrder(wire)'
      <4> SUFFICES ASSUME NEW i \in DOMAIN wire', NEW j \in DOMAIN wire', i < j
                   PROVE  Follows(wire'[i], wire'[j].seq, wire'[j].from)
        BY DEF InOrder
      <4>1. i \in DOMAIN wire /\ wire'[i] = wire[i]
        <5>1. CASE i = Len(wire) + 1
          BY <3>2, <3>3, <5>1
        <5>. QED
          BY <3>2, <5>1
      <4>. QED
        BY <3>1, <3>2, <3>f, <4>1, Zenon DEF InOrder
    <3>7. /\ \A i \in DOMAIN wire' : wire'[i].seq <= messagesSent'
          /\ \A i \in DOMAIN Pending' : Pending'[i].seq <= messagesSent'
          /\ \A v \in Writers : seq[v] <= messagesSent'
      <4>1. \A x \in Nat : x <= messagesSent => x <= messagesSent'
        BY <1>a, <3>3, StaysBelow
      <4>2. ASSUME NEW i \in DOMAIN wire' PROVE wire'[i].seq <= messagesSent'
        <5>1. wire'[i].seq \in Nat /\ wire'[i].seq <= messagesSent
          BY <3>1, <3>2, <3>e, <3>f, Zenon
        <5>. QED
          BY <4>1, <5>1
      <4>3. ASSUME NEW i \in DOMAIN Pending' PROVE Pending'[i].seq <= messagesSent'
        <5>1. Pending'[i].seq \in Nat /\ Pending'[i].seq <= messagesSent
          BY <3>1, <3>e, <3>f
        <5>. QED
          BY <4>1, <5>1
      <4>4. \A v \in Writers : seq[v] <= messagesSent'
        BY <3>e, <3>f, <4>1, Zenon
      <4>. QED
        BY <4>2, <4>3, <4>4
    <3>8. \A i \in DOMAIN wire', j \in DOMAIN Pending' :
             Follows(wire'[i], Pending'[j].seq, Pending'[j].from)
      BY <3>1, <3>2, <3>f DEF InOrder
    <3>9. ASSUME NEW v \in Writers, Stamped(v)
          PROVE  /\ \A i \in DOMAIN wire' : Follows(wire'[i], seq[v], v)
                 /\ \A i \in DOMAIN Pending' : Follows(Pending'[i], seq[v], v)
      BY <3>1, <3>2, <3>9, <3>f, Zenon
    <3>. QED
      BY <2>1, <2>2, <3>5, <3>6, <3>7, <3>8, <3>9, <3>f, Zenon DEF SeqInv, Follows
  <2>. QED
    BY <1>4, <2>3, <2>4, LoopPending
<1>5. ASSUME \/ \E c \in Closers : CloseSwap(c) \/ CloseStep(c)
             \/ UNCHANGED vars
      PROVE  SeqInv'
  <2>1. UNCHANGED <<pc, seq, wire, messagesSent, Pending>>
    BY <1>5 DEF CloseSwap, CloseStep, CloseChannel, CloseChannelTo, CloseSocket, vars, Pending,
                InHand
  <2>. QED
    BY <1>0, <2>1 DEF Stamped
<1>. QED
  BY <1>1, <1>2, <1>3, <1>4, <1>5 DEF Next, WriterStep

\* Batches on the wire never share a BatchSequence and those of one goroutine carry
\* increasing ones while the counter has not wrapped, for any number of senders.
THEOREM SequencesCorrect == Spec => []BatchSequencesOrdered
<1>1. Init => SeqInv
  <2> SUFFICES ASSUME Init PROVE SeqInv
    OBVIOUS
  <2>1. DOMAIN Pending = {} /\ DOMAIN wire = {} /\ messagesSent = 0
    BY DEF Init, Pending, InHand
  <2>2. \A w \in Writers : seq[w] = 0
    BY DEF Init
  <2>3. InOrder(wire) /\ InOrder(Pending)
    BY <2>1 DEF InOrder
  <2>4. \A w \in Writers : seq[w] <= messagesSent
    BY <2>1, <2>2
  <2>. QED
    BY <2>1, <2>2, <2>3, <2>4, Zenon DEF SeqInv
<1>2. SeqInv => BatchSequencesOrdered
  BY DEF SeqInv, InOrder, Follows, BatchSequencesOrdered
<1>. QED
  BY <1>1, <1>2, InitTypeInv, StepTypeInv, SeqStep, PTL DEF Spec

------------------------------------------------------------------------------
(* The counter                                                             *)

INSTANCE FiniteSetTheorems

AccountingInv == TypeInv /\ QueueAccounting

\* The set of calls that hold a reservation is finite.
LEMMA ReservingFinite == IsFiniteSet(Reserving) /\ Cardinality(Reserving) \in Nat
BY QueueAssumption, FS_Subset, FS_CardinalityType DEF Reserving

\* AddInt32(&c.writeQueueLen, 1) puts one more call between the counter and the
\* channel.
LEMMA ReservingGrows ==
    ASSUME NEW w, w \notin Reserving, Reserving' = Reserving \cup {w}
    PROVE  Cardinality(Reserving)' = Cardinality(Reserving) + 1
BY ReservingFinite, FS_AddElement

\* A send into the channel, or AddInt32(&c.writeQueueLen, -1) on the path that
\* gave up, takes one call out of that set.
LEMMA ReservingShrinks ==
    ASSUME NEW w \in Reserving, Reserving' = Reserving \ {w}
    PROVE  Cardinality(Reserving)' = Cardinality(Reserving) - 1
BY ReservingFinite, FS_RemoveElement

\* Each step keeps the counter equal to what it counts.
LEMMA StepAccounting == AccountingInv /\ [Next]_vars => QueueAccounting'
<1> SUFFICES ASSUME AccountingInv, [Next]_vars PROVE QueueAccounting'
  OBVIOUS
<1> DEFINE n == Cardinality(Reserving)
<1>0. n \in Nat /\ writeQueue \in Seq(Items) /\ pc \in [Writers -> Labels]
      /\ writeQueueLen \in Int
  BY ReservingFinite DEF AccountingInv, TypeInv, TypeOK
<1>a. writeQueueLen = Len(writeQueue) + n + (IF Holding THEN 1 ELSE 0)
  BY DEF AccountingInv, QueueAccounting
<1> USE DEF closeVars, queueVars, callVars, loopVars
<1> HIDE DEF n
<1>b. ASSUME UNCHANGED pc PROVE n' = n
  BY <1>b DEF n, Reserving
<1>1. ASSUME NEW w \in Writers, NEW k \in Kinds, Call(w, k) PROVE QueueAccounting'
  <2>1. Reserving' = Reserving
    BY <1>0, <1>1 DEF Call, CallTaking, Reserving
  <2>2. QED
    BY <1>a, <1>1, <2>1 DEF Call, CallTaking, QueueAccounting, Holding, n
<1>2. ASSUME NEW w \in Writers, CheckClosed(w) PROVE QueueAccounting'
  <2>1. Reserving' = Reserving
    BY <1>0, <1>2 DEF CheckClosed, Goto, Return, Reserving
  <2>2. QED
    BY <1>a, <1>2, <2>1 DEF CheckClosed, QueueAccounting, Holding, n
<1>3. ASSUME NEW w \in Writers, CheckCapacity(w) PROVE QueueAccounting'
  <2>1. Reserving' = Reserving
    BY <1>0, <1>3 DEF CheckCapacity, Goto, Return, Reserving
  <2>2. QED
    BY <1>a, <1>3, <2>1 DEF CheckCapacity, QueueAccounting, Holding, n
<1>4. ASSUME NEW w \in Writers, Reserve(w) PROVE QueueAccounting'
  <2>1. w \notin Reserving /\ Reserving' = Reserving \cup {w}
    BY <1>0, <1>4 DEF Reserve, Goto, Reserving
  <2>2. n' = n + 1
    BY <2>1, ReservingGrows DEF n
  <2>3. QED
    BY <1>0, <1>a, <1>4, <2>2 DEF Reserve, QueueAccounting, Holding, n
<1>5. ASSUME NEW w \in Writers, Send(w) PROVE QueueAccounting'
  <2>1. CASE chanClosed
    <3>1. Reserving' = Reserving
      BY <1>0, <1>5, <2>1 DEF Send, Goto, Reserving
    <3>2. QED
      BY <1>a, <1>5, <2>1, <3>1 DEF Send, QueueAccounting, Holding, n
  <2>2. CASE ~chanClosed
    <3>1. w \in Reserving /\ Reserving' = Reserving \ {w}
      BY <1>0, <1>5, <2>2 DEF Send, Goto, Return, Reserving
    <3>2. n' = n - 1
      BY <3>1, ReservingShrinks, Zenon DEF n
    <3>3. Item(w) \in Items
      BY ItemType DEF AccountingInv, TypeInv
    <3>4. writeQueue' = Append(writeQueue, Item(w))
      BY <1>5, <2>2, Zenon DEF Send
    <3>5. Len(writeQueue') = Len(writeQueue) + 1
      BY <1>0, <3>3, <3>4
    <3>6. writeQueueLen' = writeQueueLen /\ loop' = loop
      BY <1>5 DEF Send
    <3>7. QED
      BY <1>0, <1>a, <3>2, <3>5, <3>6 DEF QueueAccounting, Holding, n
  <2>3. QED
    BY <2>1, <2>2
<1>6. ASSUME NEW w \in Writers, GiveUp(w) PROVE QueueAccounting'
  <2>1. Reserving' = Reserving
    BY <1>0, <1>6 DEF GiveUp, Goto, Reserving
  <2>2. QED
    BY <1>a, <1>6, <2>1 DEF GiveUp, QueueAccounting, Holding, n
<1>7. ASSUME NEW w \in Writers, Rollback(w) PROVE QueueAccounting'
  <2>1. w \in Reserving /\ Reserving' = Reserving \ {w}
    BY <1>0, <1>7 DEF Rollback, RollbackBy, Return, Reserving
  <2>2. n' = n - 1
    BY <2>1, ReservingShrinks, Zenon DEF n
  <2>3. QED
    BY <1>0, <1>a, <1>7, <2>2 DEF Rollback, RollbackBy, QueueAccounting, Holding, n
<1>8. ASSUME NEW w \in Writers, Await(w) PROVE QueueAccounting'
  <2>1. Reserving' = Reserving
    BY <1>0, <1>8 DEF Await, Return, Reserving
  <2>2. QED
    BY <1>a, <1>8, <2>1 DEF Await, QueueAccounting, Holding, n
<1>9. CASE Receive
  <2>1. Len(writeQueue') = Len(writeQueue) - 1 /\ Len(writeQueue) \in Nat
    BY <1>0, <1>9 DEF Receive
  <2>2. QED
    BY <1>0, <1>a, <1>b, <1>9, <2>1 DEF Receive, QueueAccounting, Holding, n
<1>10. CASE RangeEnd
  BY <1>a, <1>b, <1>10 DEF RangeEnd, QueueAccounting, Holding, n
<1>11. CASE CheckItem
  BY <1>a, <1>b, <1>11 DEF CheckItem, QueueAccounting, Holding, n
<1>12. CASE WriteItem
  BY <1>a, <1>b, <1>12 DEF WriteItem, QueueAccounting, Holding, n
<1>13. CASE Signal
  BY <1>a, <1>b, <1>13 DEF Signal, SignalAs, QueueAccounting, Holding, n
<1>14. CASE Release
  BY <1>0, <1>a, <1>b, <1>14 DEF Release, ReleaseTo, QueueAccounting, Holding, n
<1>15. ASSUME NEW c \in Closers, CloseSwap(c) PROVE QueueAccounting'
  BY <1>a, <1>b, <1>15 DEF CloseSwap, QueueAccounting, Holding, n
<1>16. ASSUME NEW c \in Closers, CloseChannel(c) PROVE QueueAccounting'
  BY <1>a, <1>b, <1>16 DEF CloseChannel, CloseChannelTo, QueueAccounting, Holding, n
<1>17. ASSUME NEW c \in Closers, CloseSocket(c) PROVE QueueAccounting'
  BY <1>a, <1>b, <1>17 DEF CloseSocket, QueueAccounting, Holding, n
<1>18. CASE UNCHANGED vars
  BY <1>a, <1>b, <1>18 DEF vars, QueueAccounting, Holding, n
<1>19. QED
  BY <1>1, <1>2, <1>3, <1>4, <1>5, <1>6, <1>7, <1>8, <1>9, <1>10, <1>11, <1>12, <1>13,
     <1>14, <1>15, <1>16, <1>17, <1>18
     DEF Next, WriterStep, LoopStep, CloseStep

\* The backpressure counter is exact in every state of every connection,
\* whatever the number of writers and closers and the size of the queue.
THEOREM AccountingCorrect == Spec => []QueueAccounting
<1>1. Init => AccountingInv
  <2> SUFFICES ASSUME Init PROVE AccountingInv
    OBVIOUS
  <2>1. Reserving = {}
    BY DEF Init, Reserving
  <2>2. QED
    BY <2>1, InitTypeInv, FS_EmptySet DEF Init, AccountingInv, QueueAccounting, Holding
<1>2. AccountingInv /\ [Next]_vars => AccountingInv'
  BY StepTypeInv, StepAccounting DEF AccountingInv
<1>3. AccountingInv => QueueAccounting
  BY DEF AccountingInv
<1>4. QED
  BY <1>1, <1>2, <1>3, PTL DEF Spec

==============================================================================
