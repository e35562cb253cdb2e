------------------------- MODULE MessageQueue_proofs -------------------------
(***************************************************************************)
(* The ownership of the message buffers and the meaning of the flags, for  *)
(* every number of buffers, messages and slots.  The inductive invariant   *)
(* has, beside the types: Control, which hands are empty where; Apart and  *)
(* Unrepeated, that no buffer is in two places; and Accounted, that the    *)
(* heap is what the places hold.                                           *)
(***************************************************************************)
EXTENDS MessageQueue, Queues_proofs, FiniteSetTheorems

TypePcs == eventPc \in EventPCs /\ updatePc \in UpdatePCs

TypeFlags ==
  /\ processingEvents \in BOOLEAN /\ sceneUpdateFlag \in BOOLEAN
  /\ sceneUpdate \in BOOLEAN /\ sceneUpdated \in BOOLEAN
  /\ overflowActive \in BOOLEAN /\ waitingForDrain \in BOOLEAN
  /\ promiseLinked \in BOOLEAN /\ futureReady \in BOOLEAN
  /\ alive \in BOOLEAN /\ idleRequested \in BOOLEAN
  /\ updateRequested \in BOOLEAN /\ refilled \in BOOLEAN

TypeMessages ==
  /\ contents \in [Buffers -> Seq(Messages)]
  /\ reserved \in 0 .. MaxMessages
  /\ sceneMessages \subseteq Messages /\ unreported \subseteq Messages
  /\ processed \in Seq(Messages)

TypeBuffers ==
  /\ current \in Buffers \cup {None} /\ flushing \in Buffers \cup {None}
  /\ freeQueue \subseteq Buffers /\ recycleQueue \subseteq Buffers /\ done \subseteq Buffers
  /\ ring \in Seq(Buffers) /\ ringClaimed \in 0 .. RingCapacity
  /\ drained \in Seq(Buffers) /\ processQueue \in Seq(Buffers)
  /\ heap \subseteq Buffers

\* The hands of both threads are empty outside the steps that use them.
Control ==
  /\ eventPc \in {"push", "overflow"} <=> flushing # None
  /\ updatePc \in {"process", "processOverflow"} <=> drained # << >>
  /\ done # {} => updatePc \in {"process", "recycle", "processOverflow", "recycleOverflow"}
  /\ updatePc = "drain" <=> ringClaimed > 0
  /\ ringClaimed <= Len(ring)
  /\ ~alive => eventPc = "outside" /\ updatePc = "idle"

\* No queue names a buffer twice.
Unrepeated == NoRepeats(ring) /\ NoRepeats(drained) /\ NoRepeats(processQueue)

\* No buffer is in two places: each place excludes those listed before it.
Apart ==
  \A b \in Buffers :
    /\ b = current => b # flushing
    /\ b \in {current, flushing} => b \notin freeQueue
    /\ b \in {current, flushing} \cup freeQueue => b \notin Elements(ring)
    /\ b \in {current, flushing} \cup freeQueue \cup Elements(ring) => b \notin Elements(drained)
    /\ b \in {current, flushing} \cup freeQueue \cup Elements(ring) \cup Elements(drained)
         => b \notin done
    /\ b \in {current, flushing} \cup freeQueue \cup Elements(ring) \cup Elements(drained) \cup done
         => b \notin Elements(processQueue)
    /\ b \in {current, flushing} \cup freeQueue \cup Elements(ring) \cup Elements(drained) \cup done
               \cup Elements(processQueue)
         => b \notin recycleQueue

\* What the places hold is what is allocated.
Held == ({current, flushing} \ {None}) \cup freeQueue \cup Elements(ring) \cup Elements(drained)
          \cup done \cup Elements(processQueue) \cup recycleQueue
Accounted == \A b \in Buffers : b \in heap <=> alive /\ b \in Held

Ownership == Control /\ Unrepeated /\ Apart /\ Accounted
Types == TypePcs /\ TypeFlags /\ TypeBuffers /\ TypeMessages
IInv == Types /\ Ownership /\ OverflowFlagIsExact /\ WaiterCanBeWoken

\* Every step moves buffers from place to place and leaves none behind.
LEMMA OwnershipStep ==
  ASSUME TypePcs, TypeBuffers, Ownership, [Next]_vars
  PROVE  TypeBuffers' /\ Ownership'
<1> USE QueueAssumption
    DEF QueueAssumption, TypePcs, TypeBuffers, Ownership, Control, EventPCs, UpdatePCs,
        eventVars, updateVars, ringVars, lockedVars, memoryVars, requestVars, historyVars
<1>0. Elements(<< >>) = {} /\ NoRepeats(<< >>)
  BY DEF Elements, NoRepeats
<1>1. ASSUME NEW updateScene \in BOOLEAN, ReserveMessageSlot(updateScene)
      PROVE  TypeBuffers' /\ Ownership'
  <2>1. CASE current # None
    BY <1>1, <2>1 DEF ReserveMessageSlot, Unrepeated, Apart, Accounted, Held
  <2>2. CASE current = None
    <3>1. PICK kept \in SUBSET recycleQueue :
            LET idle == freeQueue \cup kept
                live == heap \ (recycleQueue \ kept)
            IN  /\ recycleQueue' = {}
                /\ IF idle # {}
                   THEN \E b \in idle : current' = b /\ freeQueue' = idle \ {b} /\ heap' = live
                   ELSE \E b \in Buffers \ live :
                          current' = b /\ freeQueue' = {} /\ heap' = live \cup {b}
      BY <1>1, <2>2 DEF ReserveMessageSlot, AcquireBuffer
    <3>2. /\ alive
          /\ UNCHANGED <<flushing, updateVars, ringVars, processQueue, alive>>
          /\ eventPc \notin {"push", "overflow"} /\ eventPc' \notin {"push", "overflow"}
      BY <1>1 DEF ReserveMessageSlot
    <3>3. CASE freeQueue \cup kept # {}
      <4>1. PICK b \in freeQueue \cup kept :
              /\ current' = b /\ freeQueue' = (freeQueue \cup kept) \ {b}
              /\ heap' = heap \ (recycleQueue \ kept) /\ recycleQueue' = {}
        BY <3>1, <3>3
      <4> QED
        BY <2>2, <3>2, <4>1 DEF Unrepeated, Apart, Accounted, Held
    <3>4. CASE freeQueue \cup kept = {}
      <4>1. PICK b \in Buffers \ (heap \ recycleQueue) :
              /\ current' = b /\ freeQueue' = {} /\ recycleQueue' = {}
              /\ heap' = (heap \ recycleQueue) \cup {b}
        BY <3>1, <3>4
      <4> QED
        BY <2>2, <3>2, <3>4, <4>1 DEF Unrepeated, Apart, Accounted, Held
    <3> QED
      BY <3>3, <3>4
  <2> QED
    BY <2>1, <2>2
<1>2. CASE EventProcessingStarted
  BY <1>2 DEF EventProcessingStarted, Unrepeated, Apart, Accounted, Held
<1>3. CASE EventProcessingFinished
  BY <1>3 DEF EventProcessingFinished, Unrepeated, Apart, Accounted, Held
<1>4. CASE FlushNothing
  BY <1>4 DEF FlushNothing, HasMessages, Unrepeated, Apart, Accounted, Held
<1>5. CASE FlushBegin
  <2>1. TypeBuffers'
    BY <1>5 DEF FlushBegin, HasMessages, TakeCurrent, Channel
  <2>2. Control'
    BY <1>5 DEF FlushBegin, HasMessages, TakeCurrent, Channel
  <2>3. Unrepeated'
    BY <1>5, <1>0 DEF FlushBegin, HasMessages, TakeCurrent, Channel, Unrepeated, Apart
  <2>4. Apart'
    BY <1>5, <1>0 DEF FlushBegin, HasMessages, TakeCurrent, Channel, Unrepeated, Apart
  <2>5. Accounted'
    BY <1>5, <1>0 DEF FlushBegin, HasMessages, TakeCurrent, Channel, Accounted, Held
  <2> QED
    BY <2>1, <2>2, <2>3, <2>4, <2>5
<1>6. CASE FlushPush
  <2>0. flushing \in Buffers /\ flushing # None
    BY <1>6 DEF FlushPush
  <2>1. CASE /\ ring' = Append(ring, flushing) /\ flushing' = None
             /\ eventPc' = "publish" /\ ringClaimed' = ringClaimed
    <3>1. /\ ring' \in Seq(Buffers) /\ Len(ring') = Len(ring) + 1
          /\ Elements(ring') = Elements(ring) \cup {flushing}
          /\ NoRepeats(ring) /\ flushing \notin Elements(ring) => NoRepeats(ring')
      BY <2>0, <2>1, AppendFacts, AppendProperties
    <3>2. UNCHANGED <<current, freeQueue, updateVars, processQueue, recycleQueue, heap, alive>>
      BY <1>6 DEF FlushPush
    <3>3. TypeBuffers'
      BY <2>1, <3>1, <3>2
    <3>4. Control'
      BY <1>6, <2>1, <3>1, <3>2 DEF FlushPush
    <3>5. Unrepeated' /\ Apart'
      BY <2>0, <2>1, <3>1, <3>2 DEF Unrepeated, Apart
    <3>6. Accounted'
      BY <2>0, <2>1, <3>1, <3>2 DEF Accounted, Held
    <3> QED
      BY <3>3, <3>4, <3>5, <3>6
  <2>2. CASE Ring!Refuse /\ eventPc' = "overflow" /\ flushing' = flushing
    BY <1>6, <2>2 DEF FlushPush, Ring!Refuse, Ring!vars, Unrepeated, Apart, Accounted, Held
  <2> QED
    BY <1>6, <2>1, <2>2 DEF FlushPush, Ring!Push
<1>7. CASE FlushOverflow
  <2>1. TypeBuffers'
    BY <1>7, AppendFacts DEF FlushOverflow, InstallPromise
  <2>2. Control'
    BY <1>7, AppendFacts DEF FlushOverflow, InstallPromise
  <2>3. Unrepeated'
    BY <1>7, <1>0, AppendFacts DEF FlushOverflow, InstallPromise, Unrepeated, Apart
  <2>4. Apart'
    BY <1>7, <1>0, AppendFacts DEF FlushOverflow, InstallPromise, Unrepeated, Apart
  <2>5. Accounted'
    BY <1>7, <1>0, AppendFacts DEF FlushOverflow, InstallPromise, Accounted, Held
  <2> QED
    BY <2>1, <2>2, <2>3, <2>4, <2>5
<1>8. CASE WaitEnd
  BY <1>8 DEF WaitEnd, Unrepeated, Apart, Accounted, Held
<1>9. CASE FlushPublish
  BY <1>9 DEF FlushPublish, RaiseSceneUpdate, Unrepeated, Apart, Accounted, Held
<1>10. CASE RequestUpdate
  BY <1>10 DEF RequestUpdate, KeepUpdating, Unrepeated, Apart, Accounted, Held
<1>11. CASE UpdateBegin
  BY <1>11 DEF UpdateBegin, Unrepeated, Apart, Accounted, Held
<1>12. CASE DrainBegin
  BY <1>12 DEF DrainBegin, Ring!Claim, Ring!Available, Unrepeated, Apart, Accounted, Held
<1>13. CASE DrainEnd
  <2>0. ringClaimed \in 1 .. Len(ring) /\ Len(ring) \in Nat
    BY <1>13 DEF DrainEnd
  <2>1. /\ drained' = SubSeq(ring, 1, ringClaimed) /\ updatePc = "drain" /\ updatePc' = "process"
        /\ ring' = SubSeq(ring, ringClaimed + 1, Len(ring)) /\ ringClaimed' = 0
        /\ UNCHANGED <<eventVars, done, processQueue, recycleQueue, heap, alive>>
    BY <1>13 DEF DrainEnd, Ring!Release, Ring!Claimed
  <2>2. /\ drained' \in Seq(Buffers) /\ Len(drained') = ringClaimed
        /\ \A i \in 1 .. ringClaimed : drained'[i] = ring[i]
    BY <2>0, <2>1, SubSeqProperties
  <2>3. /\ ring' \in Seq(Buffers) /\ Len(ring') = Len(ring) - ringClaimed
        /\ \A i \in 1 .. Len(ring) - ringClaimed : ring'[i] = ring[ringClaimed + i]
    BY <2>0, <2>1, SubSeqProperties
  <2>4. /\ drained' # << >>
        /\ Elements(ring) = Elements(drained') \cup Elements(ring')
        /\ NoRepeats(ring) => /\ NoRepeats(drained') /\ NoRepeats(ring')
                              /\ Elements(drained') \cap Elements(ring') = {}
    <3>1. drained' = SubSeq(ring, 1, ringClaimed) /\ ring' = SubSeq(ring, ringClaimed + 1, Len(ring))
      BY <2>1
    <3>2. drained' # << >> /\ Elements(ring) = Elements(drained') \cup Elements(ring')
      BY ONLY ring \in Seq(Buffers), <2>0, <3>1, CutFacts
    <3>3. ASSUME NoRepeats(ring)
          PROVE  /\ NoRepeats(drained') /\ NoRepeats(ring')
                 /\ Elements(drained') \cap Elements(ring') = {}
      BY ONLY ring \in Seq(Buffers), <2>0, <3>1, <3>3, CutApart
    <3> QED
      BY <3>2, <3>3
  <2>5. drained = << >> /\ Elements(drained) = {}
    BY <2>1, <1>0
  <2>6. TypeBuffers'
    BY <2>1, <2>2, <2>3, <2>4
  <2>7. Control'
    <3>1. ringClaimed' = 0 /\ Len(ring') >= 0
      BY <2>0, <2>1, <2>3
    <3>2. updatePc' = "process" /\ updatePc = "drain"
          /\ UNCHANGED <<eventPc, flushing, done, alive>>
      BY <2>1
    <3> QED
      BY ONLY Control, <2>4, <3>1, <3>2 DEF Control
  <2>8. Unrepeated' /\ Apart'
    BY <2>1, <2>4, <2>5 DEF Unrepeated, Apart
  <2>9. Accounted'
    BY <2>1, <2>4, <2>5 DEF Accounted, Held
  <2> QED
    BY <2>6, <2>7, <2>8, <2>9
<1>14. CASE ProcessBuffer
  <2>1. TypeBuffers'
    BY <1>14, TailFacts DEF ProcessBuffer, Reset
  <2>2. Control'
    BY <1>14, TailFacts DEF ProcessBuffer, Reset
  <2>3. Unrepeated'
    BY <1>14, <1>0, TailFacts DEF ProcessBuffer, Reset, Unrepeated, Apart
  <2>4. Apart'
    BY <1>14, <1>0, TailFacts DEF ProcessBuffer, Reset, Unrepeated, Apart
  <2>5. Accounted'
    BY <1>14, <1>0, TailFacts DEF ProcessBuffer, Reset, Accounted, Held
  <2> QED
    BY <2>1, <2>2, <2>3, <2>4, <2>5
<1>15. CASE RecycleDrained
  <2>1. TypeBuffers'
    BY <1>15 DEF RecycleDrained, Recycle
  <2>2. Control'
    BY <1>15 DEF RecycleDrained, Recycle
  <2>3. Unrepeated'
    BY <1>15, <1>0 DEF RecycleDrained, Recycle, Unrepeated, Apart
  <2>4. Apart'
    BY <1>15, <1>0 DEF RecycleDrained, Recycle, Unrepeated, Apart
  <2>5. Accounted'
    BY <1>15, <1>0 DEF RecycleDrained, Recycle, Accounted, Held
  <2> QED
    BY <2>1, <2>2, <2>3, <2>4, <2>5
<1>16. CASE SwapOverflow
  <2>1. TypeBuffers'
    BY <1>16 DEF SwapOverflow, TakeOverflow, Return
  <2>2. Control'
    BY <1>16 DEF SwapOverflow, TakeOverflow, Return
  <2>3. Unrepeated'
    BY <1>16, <1>0 DEF SwapOverflow, TakeOverflow, Return, Unrepeated, Apart
  <2>4. Apart'
    BY <1>16, <1>0 DEF SwapOverflow, TakeOverflow, Return, Unrepeated, Apart
  <2>5. Accounted'
    BY <1>16, <1>0 DEF SwapOverflow, TakeOverflow, Return, Accounted, Held
  <2> QED
    BY <2>1, <2>2, <2>3, <2>4, <2>5
<1>17. CASE RecycleOverflow
  <2>1. TypeBuffers'
    BY <1>17 DEF RecycleOverflow, Recycle, Return
  <2>2. Control'
    BY <1>17 DEF RecycleOverflow, Recycle, Return
  <2>3. Unrepeated'
    BY <1>17, <1>0 DEF RecycleOverflow, Recycle, Return, Unrepeated, Apart
  <2>4. Apart'
    BY <1>17, <1>0 DEF RecycleOverflow, Recycle, Return, Unrepeated, Apart
  <2>5. Accounted'
    BY <1>17, <1>0 DEF RecycleOverflow, Recycle, Return, Accounted, Held
  <2> QED
    BY <2>1, <2>2, <2>3, <2>4, <2>5
<1>18. CASE Destroy
  <2>1. TypeBuffers'
    BY <1>18 DEF Destroy, Owned
  <2>2. Control'
    BY <1>18 DEF Destroy, Owned
  <2>3. Unrepeated'
    BY <1>18, <1>0 DEF Destroy, Owned, Unrepeated, Apart
  <2>4. Apart'
    BY <1>18, <1>0 DEF Destroy, Owned, Unrepeated, Apart
  <2>5. Accounted'
    BY <1>18, <1>0 DEF Destroy, Owned, Accounted, Held
  <2> QED
    BY <2>1, <2>2, <2>3, <2>4, <2>5
<1>19. CASE Destroyed
  BY <1>19 DEF Destroyed, vars, Unrepeated, Apart, Accounted, Held
<1>20. CASE UNCHANGED vars
  BY <1>20 DEF vars, Unrepeated, Apart, Accounted, Held
<1> QED
  BY <1>1, <1>2, <1>3, <1>4, <1>5, <1>6, <1>7, <1>8, <1>9, <1>10, <1>11, <1>12, <1>13,
     <1>14, <1>15, <1>16, <1>17, <1>18, <1>19, <1>20 DEF Next, EventThread, UpdateThread

\* The flags stay flags.
LEMMA FlagsStep ==
  ASSUME TypeFlags, [Next]_vars PROVE TypeFlags'
<1> USE DEF TypeFlags, Next, EventThread, UpdateThread, vars, eventVars, updateVars,
        ringVars, lockedVars, memoryVars, requestVars, historyVars, Ring!vars,
        EventProcessingStarted, EventProcessingFinished, ReserveMessageSlot, RequestIdle,
        FlushNothing, FlushBegin, TakeCurrent, Channel, FlushPush, FlushOverflow,
        InstallPromise, WaitEnd, FlushPublish, RaiseSceneUpdate, RequestUpdate, KeepUpdating,
        UpdateBegin, DrainBegin, DrainEnd, ProcessBuffer, Reset, RecycleDrained, Recycle,
        Return, TakeOverflow, SwapOverflow, RecycleOverflow, Destroy, Destroyed, BetweenDrains
<1>1. processingEvents' \in BOOLEAN
  OBVIOUS
<1>2. sceneUpdateFlag' \in BOOLEAN
  OBVIOUS
<1>3. sceneUpdate' \in BOOLEAN
  OBVIOUS
<1>4. sceneUpdated' \in BOOLEAN
  OBVIOUS
<1>5. overflowActive' \in BOOLEAN
  OBVIOUS
<1>6. waitingForDrain' \in BOOLEAN
  OBVIOUS
<1>7. promiseLinked' \in BOOLEAN
  OBVIOUS
<1>8. futureReady' \in BOOLEAN
  OBVIOUS
<1>9. alive' \in BOOLEAN
  OBVIOUS
<1>10. idleRequested' \in BOOLEAN
  OBVIOUS
<1>11. updateRequested' \in BOOLEAN
  OBVIOUS
<1>12. refilled' \in BOOLEAN
  OBVIOUS
<1> QED
  BY <1>1, <1>2, <1>3, <1>4, <1>5, <1>6, <1>7, <1>8, <1>9, <1>10, <1>11, <1>12

\* Both program counters stay in their sets.
LEMMA PcsStep ==
  ASSUME TypePcs, [Next]_vars PROVE TypePcs'
  BY DEF TypePcs, EventPCs, UpdatePCs, Next, EventThread, UpdateThread, vars, eventVars, updateVars,
        ringVars, lockedVars, memoryVars, requestVars, historyVars, Ring!vars,
        EventProcessingStarted, EventProcessingFinished, ReserveMessageSlot, RequestIdle,
        FlushNothing, FlushBegin, TakeCurrent, Channel, FlushPush, FlushOverflow,
        InstallPromise, WaitEnd, FlushPublish, RaiseSceneUpdate, RequestUpdate, KeepUpdating,
        UpdateBegin, DrainBegin, DrainEnd, ProcessBuffer, Reset, RecycleDrained, Recycle,
        Return, TakeOverflow, SwapOverflow, RecycleOverflow, Destroy, Destroyed, BetweenDrains

\* Buffers and histories hold messages.
LEMMA MessagesStep ==
  ASSUME TypePcs, TypeBuffers, TypeMessages, Control, [Next]_vars PROVE TypeMessages'
<1> USE QueueAssumption DEF QueueAssumption, TypeMessages, Messages
<1>1. ASSUME NEW updateScene \in BOOLEAN, ReserveMessageSlot(updateScene) PROVE TypeMessages'
  <2>1. current' \in Buffers
    BY <1>1 DEF ReserveMessageSlot, AcquireBuffer, TypeBuffers
  <2>2. reserved + 1 \in Messages
    BY <1>1 DEF ReserveMessageSlot
  <2>3. contents' \in [Buffers -> Seq(Messages)]
    BY <1>1, <2>1, <2>2, AppendProperties DEF ReserveMessageSlot
  <2>4. UNCHANGED <<unreported, processed>> /\ reserved' \in 0 .. MaxMessages
        /\ sceneMessages' \subseteq Messages
    BY <1>1, <2>2 DEF ReserveMessageSlot
  <2> QED
    BY <2>3, <2>4
<1>2. CASE ProcessBuffer
  <2>1. Head(drained) \in Buffers
    BY <1>2, HeadTailProperties DEF ProcessBuffer, Control, TypeBuffers
  <2>2. processed' = processed \o contents[Head(drained)]
    BY <1>2 DEF ProcessBuffer
  <2>3. processed' \in Seq(Messages)
    BY <2>1, <2>2, ConcatProperties
  <2>4. contents' \in [Buffers -> Seq(Messages)]
    BY <1>2, <2>1 DEF ProcessBuffer, Reset
  <2>5. unreported' \subseteq Messages /\ UNCHANGED <<reserved, sceneMessages>>
    BY <1>2 DEF ProcessBuffer
  <2> QED
    BY <2>3, <2>4, <2>5
<1>3. ASSUME [Next]_vars, ~ProcessBuffer,
             ~\E updateScene \in BOOLEAN : ReserveMessageSlot(updateScene)
      PROVE  TypeMessages'
  BY <1>3 DEF Next, EventThread, UpdateThread, vars, eventVars, updateVars,
        ringVars, lockedVars, memoryVars, requestVars, historyVars, Ring!vars,
        EventProcessingStarted, EventProcessingFinished, ReserveMessageSlot, RequestIdle,
        FlushNothing, FlushBegin, TakeCurrent, Channel, FlushPush, FlushOverflow,
        InstallPromise, WaitEnd, FlushPublish, RaiseSceneUpdate, RequestUpdate, KeepUpdating,
        UpdateBegin, DrainBegin, DrainEnd, ProcessBuffer, Reset, RecycleDrained, Recycle,
        Return, TakeOverflow, SwapOverflow, RecycleOverflow, Destroy, Destroyed, BetweenDrains
<1> QED
  BY <1>1, <1>2, <1>3

\* The flag of the overflow queue and the promise of a waiting producer.
LEMMA FlagsMeanStep ==
  ASSUME TypePcs, TypeBuffers, Control, OverflowFlagIsExact, WaiterCanBeWoken, [Next]_vars
  PROVE  OverflowFlagIsExact' /\ WaiterCanBeWoken'
<1> USE DEF OverflowFlagIsExact, WaiterCanBeWoken
<1>1. CASE EventProcessingStarted
  BY <1>1 DEF EventProcessingStarted, updateVars, lockedVars, memoryVars
<1>2. CASE EventProcessingFinished
  BY <1>2 DEF EventProcessingFinished, updateVars, lockedVars, memoryVars
<1>3. CASE \E updateScene \in BOOLEAN : ReserveMessageSlot(updateScene)
  BY <1>3 DEF ReserveMessageSlot, updateVars
<1>4. CASE FlushNothing
  BY <1>4 DEF FlushNothing, updateVars, lockedVars, memoryVars
<1>5. CASE FlushBegin
  BY <1>5 DEF FlushBegin, Channel, updateVars, lockedVars, memoryVars
<1>6. CASE FlushPush
  BY <1>6 DEF FlushPush, updateVars, lockedVars, memoryVars
<1>7. CASE FlushOverflow
  <2>1. processQueue' # << >>
    BY <1>7, AppendFacts DEF FlushOverflow, Control, TypeBuffers
  <2>2. /\ overflowActive' /\ alive' = alive /\ updatePc' = updatePc
        /\ eventPc' = "wait" => waitingForDrain' /\ promiseLinked'
    BY <1>7 DEF FlushOverflow, InstallPromise, updateVars, memoryVars
  <2> QED
    BY <2>1, <2>2
<1>8. CASE WaitEnd
  BY <1>8 DEF WaitEnd, updateVars, lockedVars, memoryVars
<1>9. CASE FlushPublish
  BY <1>9 DEF FlushPublish, updateVars, lockedVars, memoryVars
<1>10. CASE RequestUpdate
  BY <1>10 DEF RequestUpdate, updateVars, lockedVars, memoryVars
<1>11. CASE UpdateBegin
  BY <1>11 DEF UpdateBegin, eventVars, lockedVars, memoryVars
<1>12. CASE DrainBegin
  BY <1>12 DEF DrainBegin, eventVars, lockedVars, memoryVars
<1>13. CASE DrainEnd
  BY <1>13 DEF DrainEnd, eventVars, lockedVars, memoryVars
<1>14. CASE ProcessBuffer
  BY <1>14 DEF ProcessBuffer, Control, eventVars, lockedVars
<1>15. CASE RecycleDrained
  BY <1>15 DEF RecycleDrained, eventVars, memoryVars
<1>16. CASE SwapOverflow
  BY <1>16 DEF SwapOverflow, TakeOverflow, Return, eventVars, memoryVars
<1>17. CASE RecycleOverflow
  BY <1>17 DEF RecycleOverflow, Return, eventVars, memoryVars
<1>18. CASE Destroy
  BY <1>18 DEF Destroy
<1>19. CASE Destroyed \/ UNCHANGED vars
  BY <1>19 DEF Destroyed, vars, eventVars, updateVars, lockedVars, memoryVars
<1> QED
  BY <1>1, <1>2, <1>3, <1>4, <1>5, <1>6, <1>7, <1>8, <1>9, <1>10,
     <1>11, <1>12, <1>13, <1>14, <1>15, <1>16, <1>17, <1>18, <1>19 DEF Next, EventThread, UpdateThread

\* The initial state has the invariant.
LEMMA InitInv == Init => IInv
<1> SUFFICES ASSUME Init PROVE IInv
  OBVIOUS
<1> USE QueueAssumption DEF QueueAssumption, Init, Ring!Init, Elements, NoRepeats
<1>1. TypePcs /\ TypeFlags
  BY DEF TypePcs, EventPCs, UpdatePCs, TypeFlags
<1>2. TypeBuffers /\ TypeMessages
  BY DEF TypeBuffers, TypeMessages, Messages
<1>3. Control /\ Unrepeated /\ Apart /\ Accounted
  BY DEF Control, Unrepeated, Apart, Accounted, Held
<1>4. OverflowFlagIsExact /\ WaiterCanBeWoken
  BY DEF OverflowFlagIsExact, WaiterCanBeWoken
<1> QED
  BY <1>1, <1>2, <1>3, <1>4 DEF IInv, Types, Ownership

\* The invariant holds in every behaviour.
LEMMA Invariance == Spec => []IInv
<1>1. IInv /\ [Next]_vars => IInv'
  <2> SUFFICES ASSUME IInv, [Next]_vars PROVE IInv'
    OBVIOUS
  <2>1. TypePcs /\ TypeFlags /\ TypeBuffers /\ TypeMessages /\ Ownership /\ Control
        /\ OverflowFlagIsExact /\ WaiterCanBeWoken
    BY DEF IInv, Types, Ownership
  <2>2. TypePcs' /\ TypeFlags' /\ TypeMessages'
    BY <2>1, PcsStep, FlagsStep, MessagesStep
  <2>3. TypeBuffers' /\ Ownership'
    BY <2>1, OwnershipStep
  <2>4. OverflowFlagIsExact' /\ WaiterCanBeWoken'
    BY <2>1, FlagsMeanStep
  <2> QED
    BY <2>2, <2>3, <2>4 DEF IInv, Types
<1> QED
  BY InitInv, <1>1, PTL DEF Spec

\* The invariant says of the places what EachBufferInOnePlace says.
LEMMA InvMeansOnePlace == IInv => EachBufferInOnePlace
<1> SUFFICES ASSUME IInv PROVE EachBufferInOnePlace
  OBVIOUS
<1> USE DEF IInv, Types, Ownership
<1>1. /\ {current} \ {None} \subseteq Buffers /\ {flushing} \ {None} \subseteq Buffers
      /\ freeQueue \subseteq Buffers /\ Elements(ring) \subseteq Buffers
      /\ Elements(drained) \subseteq Buffers /\ done \subseteq Buffers
      /\ Elements(processQueue) \subseteq Buffers /\ recycleQueue \subseteq Buffers
  BY DEF TypeBuffers, Elements
<1>2. heap = IF alive THEN UNION {Places[i] : i \in DOMAIN Places} ELSE {}
  <2>1. UNION {Places[i] : i \in DOMAIN Places} = Held
    BY DEF Places, Held
  <2> QED
    BY <2>1, <1>1 DEF Accounted, Held, TypeBuffers
<1>3. \A i, j \in 1 .. 8 : i # j => Places[i] \cap Places[j] = {}
  BY <1>1 DEF Places, Apart
<1>4. DOMAIN Places = 1 .. 8
  BY DEF Places
<1> QED
  BY <1>2, <1>3, <1>4 DEF EachBufferInOnePlace, Unrepeated

\* The types are kept: the type invariant of the runs, for all instances.
THEOREM TypeOKHolds == Spec => []TypeOK
<1>1. IInv => TypeOK
  BY DEF IInv, Types, TypePcs, TypeFlags, TypeBuffers, TypeMessages, TypeOK
<1> QED
  BY Invariance, <1>1, PTL

\* No message buffer is leaked, deleted while in use, or filled by the event
\* thread while the update thread processes it, and the destructor frees
\* every buffer, in the ring and in the queues alike.
THEOREM EachBufferInOnePlaceHolds == Spec => []EachBufferInOnePlace
  BY Invariance, InvMeansOnePlace, PTL

\* The lock-free test of FlushQueue sees whether older buffers overflowed.
THEOREM OverflowFlagIsExactHolds == Spec => []OverflowFlagIsExact
<1>1. IInv => OverflowFlagIsExact
  BY DEF IInv
<1> QED
  BY Invariance, <1>1, PTL

\* A producer that waits is never waiting on a promise nobody will set.
THEOREM WaiterCanBeWokenHolds == Spec => []WaiterCanBeWoken
<1>1. IInv => WaiterCanBeWoken
  BY DEF IInv
<1> QED
  BY Invariance, <1>1, PTL

(***************************************************************************)
(* No message is lost, doubled or overtaken.                               *)
(*                                                                         *)
(* Recorded says that the messages reserved so far are those in the        *)
(* buffers and those processed, each once, and that a buffer holds its     *)
(* messages in order.  Lined says that the buffers stand in one line from  *)
(* the hand of the update thread to the hand of the event thread, with     *)
(* older messages further ahead, as long as the ring was not refilled      *)
(* between the two drains; Gate is why: which part of the line is empty    *)
(* when a buffer moves.                                                    *)
(***************************************************************************)
Numbered == \A b \in Buffers :
              /\ Ascending(contents[b])
              /\ \A i \in 1 .. Len(contents[b]) : i <= contents[b][i]

Counted == /\ Elements(processed) \subseteq 1 .. reserved
           /\ \A b \in Buffers : Elements(contents[b]) \subseteq 1 .. reserved
           /\ \A m \in 1 .. reserved : \/ m \in Elements(processed)
                                       \/ \E b \in Buffers : m \in Elements(contents[b])

Single == /\ NoRepeats(processed)
          /\ \A b \in Buffers : Elements(contents[b]) \cap Elements(processed) = {}
          /\ \A b, c \in Buffers : b # c => Elements(contents[b]) \cap Elements(contents[c]) = {}

Recorded == Numbered /\ Counted /\ Single

\* Only these buffers have messages.
Loaded == {current, flushing} \cup Elements(drained) \cup Elements(ring)
            \cup Elements(processQueue)
EmptyElsewhere == alive => \A b \in Buffers \ Loaded : contents[b] = << >>

Gate ==
  /\ eventPc = "push" => ~overflowActive
  /\ Len(ring) <= RingCapacity
  /\ ~refilled => /\ updatePc = "drain" => ringClaimed = Len(ring)
                  /\ updatePc \in {"process", "recycle", "swap"} => ring = << >>

\* b stands before c in the line.
Ahead(b, c) ==
  \/ Follows(drained, b, c) \/ Follows(ring, b, c) \/ Follows(processQueue, b, c)
  \/ /\ b \in Elements(drained)
     /\ c \in Elements(ring) \cup Elements(processQueue) \cup {flushing, current}
  \/ b \in Elements(ring) /\ c \in Elements(processQueue) \cup {flushing, current}
  \/ b \in Elements(processQueue) /\ c \in {flushing, current}
  \/ b = flushing /\ c = current

Older(b, c) == \A m \in Elements(contents[b]), n \in Elements(contents[c]) : m < n

Lined ==
  /\ Ascending(processed)
  /\ \A b \in Buffers : \A m \in Elements(processed), n \in Elements(contents[b]) : m < n
  /\ \A b, c \in Buffers : Ahead(b, c) => Older(b, c)

Histories == Recorded /\ EmptyElsewhere /\ Gate /\ (~refilled => Lined)

\* The steps other than a reservation and the processing of a buffer keep the
\* messages where they are.
Moving == ~ProcessBuffer /\ ~\E updateScene \in BOOLEAN : ReserveMessageSlot(updateScene)

LEMMA MovingKeeps ==
  ASSUME [Next]_vars, Moving
  PROVE  UNCHANGED <<contents, processed, reserved>>
  BY DEF Moving, Next, EventThread, UpdateThread, vars, memoryVars, historyVars,
        EventProcessingStarted, EventProcessingFinished,
        FlushNothing, FlushBegin, FlushPush, FlushOverflow, WaitEnd, FlushPublish, RequestUpdate,
        UpdateBegin, DrainBegin, DrainEnd, RecycleDrained, SwapOverflow, RecycleOverflow,
        Destroy, Destroyed

\* What a reservation does to the buffers: the message goes to the end of the
\* current buffer, which had none if there was no current buffer.
LEMMA ReserveFacts ==
  ASSUME IInv, IInv', EmptyElsewhere,
         NEW updateScene \in BOOLEAN, ReserveMessageSlot(updateScene)
  PROVE  /\ current' \in Buffers /\ reserved' = reserved + 1 /\ reserved' \in Messages
         /\ reserved \in Nat /\ alive /\ alive'
         /\ contents[current'] \in Seq(Messages)
         /\ contents' = [contents EXCEPT ![current'] = Append(@, reserved + 1)]
         /\ contents'[current'] = Append(contents[current'], reserved + 1)
         /\ \A b \in Buffers : b # current' => contents'[b] = contents[b]
         /\ UNCHANGED <<flushing, drained, ring, ringClaimed, processQueue, processed, refilled,
                        updatePc, overflowActive>>
         /\ eventPc # "push" /\ eventPc' # "push"
         /\ \/ current' = current
            \/ current = None /\ contents[current'] = << >>
         /\ current' # flushing
         /\ current' \notin Elements(drained) \cup Elements(ring) \cup Elements(processQueue)
<1> USE QueueAssumption DEF QueueAssumption, IInv, Types, TypeMessages, TypeBuffers, Messages
<1>1. /\ alive /\ reserved' = reserved + 1 /\ reserved < MaxMessages
      /\ contents' = [contents EXCEPT ![current'] = Append(@, reserved + 1)]
      /\ UNCHANGED <<flushing, updateVars, ringVars, overflowActive, processQueue, alive,
                     processed, refilled>>
      /\ eventPc # "push" /\ eventPc' # "push"
      /\ current # None => current' = current
  BY DEF ReserveMessageSlot
<1>2. current' \in Buffers
  <2>1. CASE current = None
    BY <2>1 DEF ReserveMessageSlot, AcquireBuffer
  <2> QED
    BY <2>1, <1>1
<1>3. /\ current' # flushing
      /\ current' \notin Elements(drained) \cup Elements(ring) \cup Elements(processQueue)
  BY <1>1, <1>2 DEF Ownership, Apart, updateVars, ringVars
<1>4. current = None => contents[current'] = << >>
  BY <1>1, <1>2, <1>3 DEF EmptyElsewhere, Loaded
<1> QED
  BY <1>1, <1>2, <1>3, <1>4 DEF updateVars, ringVars

\* What processing a buffer does: its messages join the processed ones.
LEMMA ProcessFacts ==
  ASSUME IInv, ProcessBuffer
  PROVE  /\ alive /\ drained # << >> /\ Head(drained) \in Buffers
         /\ drained' = Tail(drained) /\ Tail(drained) \in Seq(Buffers)
         /\ Elements(drained) = {Head(drained)} \cup Elements(Tail(drained))
         /\ contents[Head(drained)] \in Seq(Messages)
         /\ processed' = processed \o contents[Head(drained)]
         /\ contents'[Head(drained)] = << >>
         /\ \A b \in Buffers : b # Head(drained) => contents'[b] = contents[b]
         /\ UNCHANGED <<current, flushing, ring, ringClaimed, processQueue, reserved, refilled,
                        overflowActive, alive, eventPc>>
         /\ updatePc \in {"process", "processOverflow"}
         /\ updatePc' \in {"process", "processOverflow", "recycle", "recycleOverflow"}
         /\ updatePc' \in {"process", "recycle"} => updatePc = "process"
<1>1. updatePc \in {"process", "processOverflow"} /\ drained # << >> /\ alive
  BY DEF ProcessBuffer, IInv, Ownership, Control
<1>2. /\ Head(drained) \in Buffers /\ Tail(drained) \in Seq(Buffers)
      /\ Elements(drained) = {Head(drained)} \cup Elements(Tail(drained))
  BY <1>1, TailFacts DEF IInv, Types, TypeBuffers
<1> QED
  BY <1>1, <1>2 DEF ProcessBuffer, Reset, IInv, Types, TypeMessages, eventVars, ringVars, lockedVars

\* No step loses or doubles a message.
LEMMA RecordedStep ==
  ASSUME IInv, IInv', Recorded, EmptyElsewhere, [Next]_vars
  PROVE  Recorded'
<1> USE DEF Recorded
<1>0. /\ contents \in [Buffers -> Seq(Messages)] /\ processed \in Seq(Messages)
      /\ Messages \subseteq Nat
  BY DEF IInv, Types, TypeMessages, Messages
<1>1. ASSUME NEW updateScene \in BOOLEAN, ReserveMessageSlot(updateScene) PROVE Recorded'
  <2> DEFINE b == current'
             s == contents[b]
             t == contents'[b]
             m == reserved + 1
  <2>1. /\ b \in Buffers /\ reserved' = m /\ reserved \in Nat /\ m \in Messages
        /\ s \in Seq(Messages) /\ t = Append(s, m) /\ processed' = processed
        /\ \A c \in Buffers : c # b => contents'[c] = contents[c]
    BY <1>1, ReserveFacts
  <2>2. /\ t \in Seq(Messages) /\ Elements(t) = Elements(s) \cup {m}
        /\ Len(t) = Len(s) + 1 /\ t[Len(s) + 1] = m /\ Len(s) \in Nat
        /\ \A i \in 1 .. Len(s) : t[i] = s[i]
    BY <2>1, AppendFacts, AppendProperties
  <2>3. \A x \in Elements(s) : x \in Nat /\ x < m
    <3>1. Elements(s) \subseteq 1 .. reserved
      BY <2>1 DEF Counted
    <3> QED
      BY <2>1, <3>1
  <2> HIDE DEF s, t, m
  <2>4. Numbered'
    <3>1. Ascending(t)
      <4>1. s \in Seq(Messages) /\ Ascending(s)
        BY <2>1 DEF Numbered, s
      <4> QED
        BY <4>1, <1>0, <2>1, <2>3, AscendingAppend
    <3>2. \A i \in 1 .. Len(t) : i <= t[i]
      <4>1. \A i \in 1 .. Len(s) : i <= s[i]
        BY <2>1 DEF Numbered, s
      <4>2. Len(s) + 1 <= m
        <5>1. CASE Len(s) > 0
          <6>1. s[Len(s)] \in Elements(s) /\ Len(s) <= s[Len(s)]
            BY <5>1, <2>1, <2>2, <4>1, Positions
          <6> QED
            BY <6>1, <2>1, <2>2, <2>3 DEF m
        <5> QED
          BY <5>1, <2>1, <2>2 DEF m
      <4> QED
        BY <2>2, <4>1, <4>2
    <3> QED
      BY <2>1, <3>1, <3>2 DEF Numbered, t
  <2>5. Counted'
    <3>1. 1 .. reserved' = 1 .. reserved \cup {m}
      BY <2>1 DEF m
    <3>2. \A c \in Buffers : Elements(contents[c]) \subseteq Elements(contents'[c])
      BY <2>1, <2>2 DEF s, t
    <3>3. \A c \in Buffers : Elements(contents'[c]) \subseteq Elements(contents[c]) \cup {m}
      BY <2>1, <2>2 DEF s, t
    <3>4. m \in Elements(contents'[b])
      BY <2>2 DEF t
    <3> QED
      BY <2>1, <3>1, <3>2, <3>3, <3>4 DEF Counted
  <2>6. Single'
    <3>1. /\ m \notin Elements(processed)
          /\ \A c \in Buffers : m \notin Elements(contents[c])
      BY <2>1 DEF Counted, m
    <3>2. \A c \in Buffers : Elements(contents'[c]) = IF c = b THEN Elements(contents[c]) \cup {m}
                                                     ELSE Elements(contents[c])
      BY <2>1, <2>2 DEF s, t
    <3>3. NoRepeats(processed)' /\ Elements(processed)' = Elements(processed)
      BY <2>1 DEF Single
    <3>4. \A c \in Buffers : Elements(contents'[c]) \cap Elements(processed') = {}
      BY <3>1, <3>2, <3>3 DEF Single
    <3>5. \A c, d \in Buffers : c # d => Elements(contents'[c]) \cap Elements(contents'[d]) = {}
      BY <3>1, <3>2 DEF Single
    <3> QED
      BY <3>3, <3>4, <3>5 DEF Single
  <2> QED
    BY <2>4, <2>5, <2>6
<1>2. CASE ProcessBuffer
  <2> DEFINE h == Head(drained)
  <2>1. /\ h \in Buffers /\ contents[h] \in Seq(Messages)
        /\ processed' = processed \o contents[h] /\ contents'[h] = << >>
        /\ \A b \in Buffers : b # h => contents'[b] = contents[b]
        /\ reserved' = reserved
    BY <1>2, ProcessFacts
  <2> HIDE DEF h
  <2>2. Elements(processed') = Elements(processed) \cup Elements(contents[h])
    BY <1>0, <2>1, ConcatFacts
  <2>3. Elements(contents'[h]) = {}
    BY <2>1 DEF Elements
  <2>4. Numbered'
    <3>1. Ascending(contents'[h]) /\ Len(contents'[h]) = 0
      BY <2>1 DEF Ascending
    <3> QED
      BY <2>1, <3>1 DEF Numbered
  <2>5. Counted'
    BY <2>1, <2>2, <2>3 DEF Counted
  <2>6. NoRepeats(processed')
    <3>1. NoRepeats(contents[h])
      <4>1. Ascending(contents[h])
        BY <2>1 DEF Numbered
      <4> QED
        BY <4>1, <1>0, <2>1, AscendingIsUnrepeated
    <3>2. NoRepeats(processed) /\ Elements(processed) \cap Elements(contents[h]) = {}
      BY <2>1 DEF Single
    <3> QED
      BY <2>1, <3>1, <3>2, <1>0, ConcatFacts
  <2>7. Single'
    BY <2>1, <2>2, <2>3, <2>6 DEF Single
  <2> QED
    BY <2>4, <2>5, <2>7
<1>3. CASE Moving
  <2>1. UNCHANGED <<contents, processed, reserved>>
    BY <1>3, MovingKeeps
  <2> QED
    BY <2>1 DEF Numbered, Counted, Single
<1> QED
  BY <1>1, <1>2, <1>3 DEF Moving

\* Drain cuts the ring in two.
LEMMA DrainEndFacts ==
  ASSUME IInv, DrainEnd
  PROVE  /\ ringClaimed \in 1 .. Len(ring) /\ Len(ring) \in Nat
         /\ drained' \in Seq(Buffers) /\ Len(drained') = ringClaimed
         /\ \A i \in 1 .. ringClaimed : drained'[i] = ring[i]
         /\ ring' \in Seq(Buffers) /\ Len(ring') = Len(ring) - ringClaimed
         /\ \A i \in 1 .. Len(ring) - ringClaimed : ring'[i] = ring[ringClaimed + i]
         /\ Elements(ring) = Elements(drained') \cup Elements(ring')
<1>1. ringClaimed \in 1 .. Len(ring) /\ Len(ring) \in Nat /\ ring \in Seq(Buffers)
  BY DEF DrainEnd, IInv, Types, TypeBuffers, Ownership, Control
<1>2. /\ drained' = SubSeq(ring, 1, ringClaimed)
      /\ ring' = SubSeq(ring, ringClaimed + 1, Len(ring))
  BY DEF DrainEnd, Ring!Release, Ring!Claimed
<1> QED
  BY <1>1, <1>2, CutFacts

\* Only the buffers in the line have messages.
LEMMA EmptyElsewhereStep ==
  ASSUME IInv, IInv', EmptyElsewhere, [Next]_vars
  PROVE  EmptyElsewhere'
<1>0. TypeBuffers /\ TypePcs /\ Control
  BY DEF IInv, Types, Ownership
<1>1. ASSUME NEW updateScene \in BOOLEAN, ReserveMessageSlot(updateScene) PROVE EmptyElsewhere'
  <2>1. /\ current' \in Buffers /\ (current' = current \/ current = None) /\ alive
        /\ UNCHANGED <<flushing, drained, ring, processQueue>>
        /\ \A b \in Buffers : b # current' => contents'[b] = contents[b]
    BY <1>1, ReserveFacts
  <2> QED
    BY <2>1, QueueAssumption DEF EmptyElsewhere, Loaded, QueueAssumption
<1>2. CASE ProcessBuffer
  <2>1. /\ UNCHANGED <<current, flushing, ring, processQueue, alive>>
        /\ contents'[Head(drained)] = << >>
        /\ \A b \in Buffers : b # Head(drained) => contents'[b] = contents[b]
        /\ Elements(drained) = {Head(drained)} \cup Elements(drained')
    BY <1>2, ProcessFacts
  <2> QED
    BY <2>1 DEF EmptyElsewhere, Loaded
<1>3. CASE Moving
  <2>1. contents' = contents
    BY <1>3, MovingKeeps
  <2>2. SUFFICES ASSUME alive' PROVE alive /\ Loaded \cap Buffers \subseteq Loaded'
    BY <2>1 DEF EmptyElsewhere
  <2> USE <2>2, <1>0, QueueAssumption
          DEF Loaded, QueueAssumption, eventVars, updateVars, ringVars, lockedVars, memoryVars
  <2>3. Elements(<< >>) = {}
    BY DEF Elements
  <2>4. CASE FlushBegin
    BY <2>4 DEF FlushBegin, TakeCurrent, TypePcs, Control
  <2>5. CASE FlushPush
    <3>1. CASE ring' = Append(ring, flushing)
      <4>1. flushing \in Buffers
        BY <2>5 DEF FlushPush, Control, TypeBuffers
      <4>2. Elements(ring') = Elements(ring) \cup {flushing}
        BY <3>1, <4>1, AppendFacts DEF TypeBuffers
      <4> QED
        BY <2>5, <4>2 DEF FlushPush
    <3>2. CASE UNCHANGED <<ring, flushing>>
      BY <2>5, <3>2 DEF FlushPush
    <3> QED
      BY <2>5, <3>1, <3>2 DEF FlushPush, Ring!Push, Ring!Refuse, Ring!vars
  <2>6. CASE FlushOverflow
    <3>1. flushing \in Buffers
      BY <2>6 DEF FlushOverflow, Control, TypeBuffers
    <3>2. Elements(processQueue') = Elements(processQueue) \cup {flushing}
      BY <2>6, <3>1, AppendFacts DEF FlushOverflow, TypeBuffers
    <3> QED
      BY <2>6, <3>2 DEF FlushOverflow
  <2>7. CASE DrainEnd
    <3>1. Elements(ring) \subseteq Elements(drained') \cup Elements(ring')
      BY <2>7, DrainEndFacts DEF Ownership, IInv
    <3>2. drained = << >> /\ UNCHANGED <<current, flushing, processQueue, alive>>
      BY <2>7 DEF DrainEnd, Control
    <3> QED
      BY <2>3, <3>1, <3>2
  <2>8. CASE SwapOverflow
    <3>1. drained = << >> /\ UNCHANGED <<current, flushing, ring, alive>>
      BY <2>8 DEF SwapOverflow, Control
    <3>2. UNCHANGED <<drained, processQueue>> \/ drained' = processQueue
      BY <2>8 DEF SwapOverflow, TakeOverflow
    <3> QED
      BY <2>3, <3>1, <3>2
  <2>9. CASE Destroy
    BY <2>9 DEF Destroy
  <2>10. CASE \/ EventProcessingStarted \/ EventProcessingFinished \/ FlushNothing \/ WaitEnd
              \/ FlushPublish \/ RequestUpdate \/ UpdateBegin \/ DrainBegin \/ RecycleDrained
              \/ RecycleOverflow \/ Destroyed \/ UNCHANGED vars
    <3>1. UNCHANGED <<current, flushing, drained, ring, processQueue, alive>>
      BY <2>10 DEF EventProcessingStarted, EventProcessingFinished, FlushNothing, WaitEnd,
           FlushPublish, RequestUpdate, UpdateBegin, DrainBegin, Ring!Claim, RecycleDrained,
           Recycle, RecycleOverflow, Return, Destroyed, vars
    <3> QED
      BY <3>1
  <2> QED
    BY <1>3, <2>4, <2>5, <2>6, <2>7, <2>8, <2>9, <2>10
       DEF Moving, Next, EventThread, UpdateThread
<1> QED
  BY <1>1, <1>2, <1>3 DEF Moving

\* Which part of the line is empty when a buffer moves.
LEMMA GateStep ==
  ASSUME IInv, Gate, [Next]_vars
  PROVE  Gate'
<1> USE QueueAssumption DEF Gate, QueueAssumption
<1>0. TypePcs /\ TypeBuffers /\ Control /\ OverflowFlagIsExact
  BY DEF IInv, Types, Ownership
<1>1. ASSUME NEW updateScene \in BOOLEAN, ReserveMessageSlot(updateScene) PROVE Gate'
  BY <1>1 DEF ReserveMessageSlot, updateVars, ringVars
<1>2. CASE EventProcessingStarted
  BY <1>2 DEF EventProcessingStarted, updateVars, ringVars, lockedVars, historyVars
<1>3. CASE EventProcessingFinished
  BY <1>3 DEF EventProcessingFinished, updateVars, ringVars, lockedVars, historyVars
<1>4. CASE FlushNothing
  BY <1>4 DEF FlushNothing, updateVars, ringVars, lockedVars, historyVars
<1>5. CASE FlushBegin
  BY <1>5 DEF FlushBegin, Channel, updateVars, ringVars, lockedVars, historyVars
<1>6. CASE FlushPush
  <2>1. CASE Ring!Push(flushing) /\ eventPc' = "publish" /\ refilled' = (refilled \/ BetweenDrains)
    <3>1. Len(ring') = Len(ring) + 1 /\ Len(ring) < RingCapacity /\ Len(ring) \in Nat
      BY <1>0, <2>1, AppendProperties DEF Ring!Push, Ring!Full, TypeBuffers
    <3>2. updatePc' = updatePc /\ ringClaimed' = ringClaimed
      BY <1>6, <2>1 DEF FlushPush, updateVars, Ring!Push
    <3>3. ~refilled' => ~refilled /\ updatePc' \notin {"drain", "process", "recycle", "swap"}
      BY <2>1, <3>2 DEF BetweenDrains
    <3>4. Len(ring') <= RingCapacity
      BY <3>1
    <3> QED
      BY <2>1, <3>3, <3>4
  <2>2. CASE Ring!Refuse /\ eventPc' = "overflow" /\ UNCHANGED refilled
    BY <1>6, <2>2 DEF FlushPush, updateVars, Ring!Refuse, Ring!vars
  <2> QED
    BY <1>6, <2>1, <2>2 DEF FlushPush
<1>7. CASE FlushOverflow
  BY <1>7 DEF FlushOverflow, updateVars, ringVars, historyVars
<1>8. CASE WaitEnd
  BY <1>8 DEF WaitEnd, updateVars, ringVars, lockedVars, historyVars
<1>9. CASE FlushPublish
  BY <1>9 DEF FlushPublish, updateVars, ringVars, lockedVars, historyVars
<1>10. CASE RequestUpdate
  BY <1>10 DEF RequestUpdate, updateVars, ringVars, lockedVars, historyVars
<1>11. CASE UpdateBegin
  BY <1>11 DEF UpdateBegin, eventVars, ringVars, lockedVars, historyVars
<1>12. CASE DrainBegin
  <2>1. Len(ring) \in Nat /\ (ring = << >> <=> Len(ring) = 0)
    BY <1>0, Positions DEF TypeBuffers
  <2> QED
    BY <1>12, <2>1 DEF DrainBegin, Ring!Claim, Ring!Available, eventVars, ringVars, lockedVars,
                        historyVars
<1>13. CASE DrainEnd
  <2>1. /\ Len(ring') = Len(ring) - ringClaimed /\ ring' \in Seq(Buffers)
        /\ Len(ring) \in Nat /\ ringClaimed \in Nat
    BY <1>13, DrainEndFacts DEF IInv
  <2>2. ringClaimed = Len(ring) => ring' = << >>
    BY <2>1, Positions
  <2> QED
    BY <1>13, <2>1, <2>2 DEF DrainEnd, eventVars, lockedVars, historyVars
<1>14. CASE ProcessBuffer
  BY <1>14, ProcessFacts
<1>15. CASE RecycleDrained
  BY <1>15 DEF RecycleDrained, Recycle, eventVars, ringVars, historyVars
<1>16. CASE SwapOverflow
  BY <1>16 DEF SwapOverflow, TakeOverflow, Return, eventVars, ringVars
<1>17. CASE RecycleOverflow
  BY <1>17 DEF RecycleOverflow, Recycle, Return, eventVars, ringVars
<1>18. CASE Destroy
  <2>1. Len(<< >>) = 0
    OBVIOUS
  <2> QED
    BY <1>18, <2>1 DEF Destroy, updateVars, historyVars
<1>19. CASE Destroyed \/ UNCHANGED vars
  BY <1>19 DEF Destroyed, vars, eventVars, updateVars, ringVars, lockedVars, historyVars
<1> QED
  BY <1>1, <1>2, <1>3, <1>4, <1>5, <1>6, <1>7, <1>8, <1>9, <1>10, <1>11, <1>12, <1>13,
     <1>14, <1>15, <1>16, <1>17, <1>18, <1>19 DEF Next, EventThread, UpdateThread

\* The mark of a refill stays.
LEMMA RefilledStays == ASSUME TypeFlags, [Next]_vars, ~refilled' PROVE ~refilled
  BY DEF TypeFlags, Next, EventThread, UpdateThread, vars, historyVars,
        EventProcessingStarted, EventProcessingFinished, ReserveMessageSlot,
        FlushNothing, FlushBegin, FlushPush, FlushOverflow, WaitEnd, FlushPublish, RequestUpdate,
        UpdateBegin, DrainBegin, DrainEnd, ProcessBuffer, RecycleDrained, SwapOverflow,
        RecycleOverflow, Destroy, Destroyed

\* While the ring is not refilled between the drains, no step lets a buffer
\* overtake another.
LEMMA AheadStep ==
  ASSUME IInv, Gate, Moving, [Next]_vars, ~refilled',
         NEW b \in Buffers, NEW c \in Buffers, Ahead(b, c)'
  PROVE  Ahead(b, c)
<1> USE QueueAssumption DEF QueueAssumption
<1>0. TypePcs /\ TypeFlags /\ TypeBuffers /\ Control /\ OverflowFlagIsExact
  BY DEF IInv, Types, Ownership
<1>r. ~refilled
  BY <1>0, RefilledStays
<1>e. Elements(<< >>) = {} /\ ~Follows(<< >>, b, c)
  BY FollowsEmpty DEF Elements
<1>1. CASE FlushBegin
  <2>1. flushing = None /\ flushing' = current /\ current' = None /\ refilled' = refilled
        /\ UNCHANGED <<drained, ring, processQueue>>
    BY <1>0, <1>1 DEF FlushBegin, TakeCurrent, Control, updateVars, ringVars, lockedVars,
                      historyVars
  <2> QED
    BY <2>1 DEF Ahead
<1>2. CASE FlushPush
  <2>1. /\ flushing \in Buffers /\ eventPc = "push" /\ alive
        /\ UNCHANGED <<current, drained, processQueue>>
    BY <1>0, <1>2 DEF FlushPush, Control, TypeBuffers, updateVars, lockedVars
  <2>2. processQueue = << >> /\ Elements(processQueue) = {}
    BY <1>0, <1>e, <2>1 DEF Gate, OverflowFlagIsExact
  <2>3. CASE /\ ring' = Append(ring, flushing) /\ flushing' = None
             /\ refilled' = (refilled \/ BetweenDrains)
    <3>1. Elements(ring') = Elements(ring) \cup {flushing}
      BY <2>1, <2>3, AppendFacts, <1>0 DEF TypeBuffers
    <3>2. Follows(ring', b, c) => Follows(ring, b, c) \/ (b \in Elements(ring) /\ c = flushing)
      BY <2>1, <2>3, FollowsAppend, <1>0 DEF TypeBuffers
    <3> QED
      BY <2>1, <2>2, <2>3, <3>1, <3>2, <1>e DEF Ahead
  <2>4. CASE UNCHANGED <<ring, flushing, refilled>>
    BY <2>1, <2>4 DEF Ahead
  <2> QED
    BY <1>2, <2>3, <2>4 DEF FlushPush, Ring!Push, Ring!Refuse, Ring!vars
<1>3. CASE FlushOverflow
  <2>1. /\ flushing \in Buffers /\ flushing' = None /\ refilled' = refilled
        /\ processQueue' = Append(processQueue, flushing)
        /\ UNCHANGED <<current, drained, ring>>
    BY <1>0, <1>3 DEF FlushOverflow, Control, TypeBuffers, updateVars, ringVars, historyVars
  <2>2. Elements(processQueue') = Elements(processQueue) \cup {flushing}
    BY <2>1, AppendFacts, <1>0 DEF TypeBuffers
  <2>3. Follows(processQueue', b, c) =>
          Follows(processQueue, b, c) \/ (b \in Elements(processQueue) /\ c = flushing)
    BY <2>1, FollowsAppend, <1>0 DEF TypeBuffers
  <2> QED
    BY <2>1, <2>2, <2>3 DEF Ahead
<1>4. CASE DrainEnd
  <2>1. /\ drained = << >> /\ refilled' = refilled /\ updatePc = "drain"
        /\ UNCHANGED <<current, flushing, processQueue>>
    BY <1>0, <1>4 DEF DrainEnd, Control, eventVars, lockedVars, historyVars
  <2>2. ringClaimed = Len(ring)
    BY <2>1, <1>r DEF Gate
  <2>3. ring' = << >> /\ drained' = ring
    <3>1. /\ ring' \in Seq(Buffers) /\ Len(ring') = 0 /\ drained' \in Seq(Buffers)
          /\ ring \in Seq(Buffers) /\ Len(drained') = Len(ring)
          /\ \A i \in 1 .. Len(ring) : drained'[i] = ring[i]
      BY <1>0, <1>4, <2>2, DrainEndFacts DEF TypeBuffers
    <3> QED
      BY <3>1, Positions, SeqEqual
  <2> QED
    BY <2>1, <2>3, <1>e DEF Ahead
<1>5. CASE SwapOverflow
  <2>1. /\ drained = << >> /\ refilled' = refilled /\ updatePc = "swap"
        /\ UNCHANGED <<current, flushing, ring>>
    BY <1>0, <1>5 DEF SwapOverflow, Control, eventVars, ringVars
  <2>2. UNCHANGED <<drained, processQueue>> \/ (drained' = processQueue /\ processQueue' = << >>)
    BY <1>5 DEF SwapOverflow, TakeOverflow
  <2>3. ring = << >>
    BY <2>1, <1>r DEF Gate
  <2> QED
    BY <2>1, <2>2, <2>3, <1>e DEF Ahead
<1>6. CASE Destroy
  <2>1. /\ flushing = None /\ flushing' = None /\ current' = None /\ refilled' = refilled
        /\ drained = << >> /\ drained' = << >> /\ ring' = << >> /\ processQueue' = << >>
    BY <1>0, <1>6 DEF Destroy, Control, TypePcs, updateVars, historyVars
  <2> QED
    BY <2>1, <1>e DEF Ahead
<1>7. CASE \/ EventProcessingStarted \/ EventProcessingFinished \/ FlushNothing \/ WaitEnd
           \/ FlushPublish \/ RequestUpdate \/ UpdateBegin \/ DrainBegin \/ RecycleDrained
           \/ RecycleOverflow \/ Destroyed \/ UNCHANGED vars
  <2>1. UNCHANGED <<current, flushing, drained, ring, processQueue, refilled>>
    BY <1>7 DEF EventProcessingStarted, EventProcessingFinished, FlushNothing, WaitEnd,
         FlushPublish, RequestUpdate, UpdateBegin, DrainBegin, Ring!Claim, RecycleDrained,
         Recycle, RecycleOverflow, Return, Destroyed, vars, eventVars, updateVars, ringVars,
         lockedVars, historyVars
  <2> QED
    BY <2>1 DEF Ahead
<1> QED
  BY <1>1, <1>2, <1>3, <1>4, <1>5, <1>6, <1>7 DEF Moving, Next, EventThread, UpdateThread

\* Messages stay in line.
LEMMA LinedStep ==
  ASSUME IInv, IInv', Histories, [Next]_vars, ~refilled'
  PROVE  Lined'
<1> USE DEF Histories
<1>0. /\ contents \in [Buffers -> Seq(Messages)] /\ processed \in Seq(Messages)
      /\ Messages \subseteq Nat /\ TypeBuffers
  BY DEF IInv, Types, TypeMessages, Messages
<1>r. Lined
  BY RefilledStays DEF IInv, Types
<1>1. ASSUME NEW updateScene \in BOOLEAN, ReserveMessageSlot(updateScene) PROVE Lined'
  <2> DEFINE a == current'
             m == reserved + 1
  <2>1. /\ a \in Buffers /\ reserved \in Nat /\ contents[a] \in Seq(Messages) /\ m \in Messages
        /\ contents'[a] = Append(contents[a], m)
        /\ \A b \in Buffers : b # a => contents'[b] = contents[b]
        /\ UNCHANGED <<flushing, drained, ring, processQueue, processed, refilled>>
        /\ (a = current \/ (current = None /\ contents[a] = << >>))
        /\ a # flushing /\ a \notin Elements(drained) \cup Elements(ring) \cup Elements(processQueue)
    BY <1>1, ReserveFacts
  <2>2. Lined
    BY <1>r
  <2>3. Elements(contents'[a]) = Elements(contents[a]) \cup {m}
    BY <2>1, AppendFacts
  <2>4. /\ \A x \in Elements(processed) : x < m
        /\ \A b \in Buffers : \A x \in Elements(contents[b]) : x < m
    <3>1. /\ Elements(processed) \subseteq 1 .. reserved
          /\ \A b \in Buffers : Elements(contents[b]) \subseteq 1 .. reserved
      BY DEF Recorded, Counted
    <3>2. \A x \in 1 .. reserved : x < m
      BY <2>1
    <3> QED
      BY <3>1, <3>2
  <2>5. ASSUME NEW b \in Buffers, NEW c \in Buffers, Ahead(b, c)' PROVE Older(b, c)'
    <3>1. b # a
      <4>1. \A s \in {drained, ring, processQueue} : a \notin Elements(s)
        BY <2>1
      <4>2. \A s \in {drained, ring, processQueue} : Follows(s, b, c) => b \in Elements(s)
        BY <1>0 DEF Follows, Elements
      <4> QED
        BY <2>1, <2>5, <4>1, <4>2 DEF Ahead
    <3>2. c # a => Ahead(b, c)
      BY <2>1, <2>5 DEF Ahead
    <3>3. c = a => Ahead(b, c) \/ contents[c] = << >>
      BY <2>1, <2>5 DEF Ahead
    <3>4. Ahead(b, c) => Older(b, c)
      BY <2>2 DEF Lined
    <3>5. CASE c # a
      BY <2>1, <3>1, <3>2, <3>4, <3>5 DEF Older
    <3>6. CASE c = a
      <4>1. contents[c] = << >> => Elements(contents[c]) = {}
        BY DEF Elements
      <4> QED
        BY <2>1, <2>3, <2>4, <3>1, <3>3, <3>4, <3>6, <4>1 DEF Older
    <3> QED
      BY <3>5, <3>6
  <2> HIDE DEF a, m
  <2>6. \A b \in Buffers : \A x \in Elements(processed'), y \in Elements(contents'[b]) : x < y
    BY <2>1, <2>2, <2>3, <2>4 DEF Lined
  <2> QED
    BY <2>1, <2>2, <2>5, <2>6 DEF Lined
<1>2. CASE ProcessBuffer
  <2> DEFINE h == Head(drained)
  <2>1. /\ alive /\ h \in Buffers /\ contents[h] \in Seq(Messages) /\ h \in Elements(drained)
        /\ processed' = processed \o contents[h] /\ contents'[h] = << >>
        /\ \A b \in Buffers : b # h => contents'[b] = contents[b]
        /\ UNCHANGED <<current, flushing, ring, processQueue, refilled>>
        /\ Elements(drained) = {h} \cup Elements(drained')
        /\ drained' = Tail(drained) /\ drained # << >>
    BY <1>2, ProcessFacts
  <2>1a. /\ \A b, c : Follows(drained', b, c) => Follows(drained, b, c)
         /\ \A c \in Elements(drained') : Follows(drained, h, c)
    BY <1>0, <2>1, FollowsTail DEF TypeBuffers
  <2>2. Lined
    BY <1>r
  <2> HIDE DEF h
  <2>3. /\ Elements(processed') = Elements(processed) \cup Elements(contents[h])
        /\ Ascending(processed')
    <3>1. /\ Ascending(processed) /\ Ascending(contents[h])
          /\ \A x \in Elements(processed), y \in Elements(contents[h]) : x < y
      BY <2>1, <2>2 DEF Lined, Recorded, Numbered
    <3>2. processed \in Seq(Messages) /\ contents[h] \in Seq(Messages) /\ Messages \subseteq Nat
      BY <1>0, <2>1
    <3>3. Elements(processed \o contents[h]) = Elements(processed) \cup Elements(contents[h])
      BY ONLY <3>2, ConcatFacts
    <3>4. Ascending(processed \o contents[h])
      BY ONLY <3>1, <3>2, ConcatFacts, Zenon
    <3> QED
      BY <2>1, <3>3, <3>4
  <2>4. Elements(contents'[h]) = {}
    BY <2>1 DEF Elements
  <2>5. ASSUME NEW b \in Buffers, NEW x \in Elements(processed'), NEW y \in Elements(contents'[b])
        PROVE  x < y
    <3>1. b # h /\ contents'[b] = contents[b] /\ contents[b] # << >>
      BY <2>1, <2>4, <2>5 DEF Elements
    <3>2. b \in Loaded
      BY <2>1, <3>1 DEF EmptyElsewhere
    <3>3. Ahead(h, b)
      BY <2>1, <2>1a, <3>1, <3>2 DEF Ahead, Loaded
    <3>4. Older(h, b)
      BY <2>1, <2>2, <3>3 DEF Lined
    <3> QED
      BY <2>2, <2>3, <2>5, <3>1, <3>4 DEF Lined, Older
  <2>6. ASSUME NEW b \in Buffers, NEW c \in Buffers, Ahead(b, c)' PROVE Older(b, c)'
    <3>1. Ahead(b, c)
      BY <2>1, <2>1a, <2>6 DEF Ahead
    <3>2. Older(b, c)
      BY <2>2, <3>1 DEF Lined
    <3>3. CASE b = h \/ c = h
      BY <2>4, <3>3 DEF Older
    <3>4. CASE b # h /\ c # h
      BY <2>1, <3>2, <3>4 DEF Older
    <3> QED
      BY <3>3, <3>4
  <2> QED
    BY <2>3, <2>5, <2>6 DEF Lined
<1>3. CASE Moving
  <2>1. contents' = contents /\ processed' = processed
    BY <1>3, MovingKeeps
  <2>2. \A b, c \in Buffers : Ahead(b, c)' => Ahead(b, c)
    BY <1>3, AheadStep
  <2> QED
    BY <1>r, <2>1, <2>2 DEF Lined, Older
<1> QED
  BY <1>1, <1>2, <1>3 DEF Moving

\* The histories are right in every behaviour.
LEMMA HistoriesInvariance == Spec => []Histories
<1>1. Init => Histories
  <2> SUFFICES ASSUME Init PROVE Histories
    OBVIOUS
  <2> USE QueueAssumption DEF QueueAssumption, Init, Ring!Init
  <2>1. Elements(<< >>) = {} /\ NoRepeats(<< >>) /\ Ascending(<< >>)
    BY DEF Elements, NoRepeats, Ascending
  <2>2. Recorded
    BY <2>1 DEF Recorded, Numbered, Counted, Single
  <2>3. EmptyElsewhere /\ Gate
    BY DEF EmptyElsewhere, Gate
  <2>4. Lined
    BY <2>1, FollowsEmpty DEF Lined, Ahead
  <2> QED
    BY <2>2, <2>3, <2>4 DEF Histories
<1>2. IInv /\ IInv' /\ Histories /\ [Next]_vars => Histories'
  BY RecordedStep, EmptyElsewhereStep, GateStep, LinedStep DEF Histories
<1> QED
  BY <1>1, <1>2, Invariance, PTL DEF Spec

\* The two facts of a run: every message once, and in order.
LEMMA RecordedMeansOnce == ASSUME IInv, Recorded PROVE EachMessageOnce
<1> SUFFICES ASSUME NEW m \in 1 .. reserved PROVE Copies(m) = 1
  BY DEF EachMessageOnce
<1>0. /\ contents \in [Buffers -> Seq(Messages)] /\ processed \in Seq(Messages)
      /\ reserved \in 0 .. MaxMessages /\ MaxMessages \in Nat /\ Messages = 1 .. MaxMessages
  BY QueueAssumption DEF IInv, Types, TypeMessages, Messages, QueueAssumption
<1> DEFINE At == {at \in Buffers \X Messages :
                    at[2] \in DOMAIN contents[at[1]] /\ contents[at[1]][at[2]] = m}
           Done == {i \in DOMAIN processed : processed[i] = m}
<1>a. Copies(m) = Cardinality(At) + Cardinality(Done)
  BY DEF Copies
<1>b. Cardinality({}) = 0 /\ \A x : Cardinality({x}) = 1
  BY FS_EmptySet, FS_Singleton
<1>1. CASE m \in Elements(processed)
  <2>1. PICK i \in 1 .. Len(processed) : processed[i] = m
    BY <1>0, <1>1, Positions
  <2>2. Done = {i}
    <3>1. \A j \in 1 .. Len(processed) : j # i => processed[j] # m
      BY <1>0, <2>1, Positions DEF Recorded, Single
    <3> QED
      BY <1>0, <2>1, <3>1
  <2>3. At = {}
    BY <1>1 DEF Recorded, Single, Elements
  <2> HIDE DEF At, Done
  <2>a. Cardinality(At) = 0
    BY <1>b, <2>2, <2>3
  <2>b. Cardinality(Done) = 1
    BY <1>b, <2>2, <2>3
  <2> QED
    BY <1>a, <2>a, <2>b
<1>2. CASE m \notin Elements(processed)
  <2>1. Done = {}
    BY <1>2 DEF Elements
  <2>2. PICK b \in Buffers : m \in Elements(contents[b])
    BY <1>2 DEF Recorded, Counted
  <2>3. contents[b] \in Seq(Messages)
    BY <1>0
  <2>4. PICK i \in 1 .. Len(contents[b]) : contents[b][i] = m
    BY <2>2, <2>3, Positions
  <2>5. i \in Messages
    BY <1>0, <2>3, <2>4 DEF Recorded, Numbered
  <2>6. <<b, i>> \in At
    BY <2>3, <2>4, <2>5
  <2>7. ASSUME NEW at \in At PROVE at = <<b, i>>
    <3>1. /\ at = <<at[1], at[2]>> /\ at[1] \in Buffers
          /\ at[2] \in DOMAIN contents[at[1]] /\ contents[at[1]][at[2]] = m
      OBVIOUS
    <3>2. m \in Elements(contents[at[1]])
      BY <3>1 DEF Elements
    <3>3. at[1] = b
      BY <2>2, <3>1, <3>2 DEF Recorded, Single
    <3>4. NoRepeats(contents[b])
      <4>1. Ascending(contents[b]) /\ Messages \in SUBSET Nat
        BY <1>0 DEF Recorded, Numbered
      <4> QED
        BY ONLY <2>3, <4>1, AscendingIsUnrepeated
    <3>5. at[2] = i
      BY <2>3, <2>4, <3>1, <3>3, <3>4 DEF NoRepeats
    <3> QED
      BY <3>1, <3>3, <3>5
  <2>8. At = {<<b, i>>}
    BY <2>6, <2>7
  <2> HIDE DEF At, Done
  <2>a. Cardinality(Done) = 0
    BY <1>b, <2>1, <2>8
  <2>b. Cardinality(At) = 1
    BY <1>b, <2>1, <2>8
  <2> QED
    BY <1>a, <2>a, <2>b
<1> QED
  BY <1>1, <1>2

\* Every reserved message is in the queue or has been processed, once, and
\* messages are processed in the order of their reservation unless the ring
\* was refilled between the two drains of a frame: nothing FlushQueue,
\* ProcessMessages and the recycling of buffers do loses, doubles or overtakes
\* a message.
THEOREM EachMessageOnceInOrderHolds == Spec => []EachMessageOnceInOrder
<1>1. IInv /\ Histories => EachMessageOnceInOrder
  BY RecordedMeansOnce DEF Histories, Lined, EachMessageOnceInOrder, InOrderUnlessRefilled
<1> QED
  BY <1>1, Invariance, HistoriesInvariance, PTL
=============================================================================
