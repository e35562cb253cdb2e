---------------------------- MODULE MessageQueue ----------------------------
(***************************************************************************)
(* dali/internal/update/queue/update-message-queue: the queue that carries *)
(* messages from the event thread to the update thread.  The event thread  *)
(* reserves messages in its current buffer and hands the whole buffer over *)
(* in FlushQueue, through a lockless ring or, when the ring is full or     *)
(* older buffers overflowed, through a queue guarded by a mutex.  The      *)
(* update thread processes both in ProcessMessages, once per frame, and    *)
(* gives the emptied buffers back.                                         *)
(*                                                                         *)
(* One action per critical section and per access to an atomic.  Messages  *)
(* are numbered in the order of their reservation.  A message slot is      *)
(* written by its caller right after it is reserved, on the same thread.   *)
(*                                                                         *)
(* Outside src/.../queue: Core::ProcessEvents and RelayoutAndFlush, which  *)
(* drive the event side, and RenderController, whose two requests are      *)
(* flags here.                                                             *)
(***************************************************************************)
EXTENDS Naturals, FiniteSets, Sequences, Queues

CONSTANTS
  Buffers,           \* the MessageBuffers the heap can hold (bound)
  None,              \* no buffer
  RingCapacity,      \* LOCKLESS_RING_CAPACITY
  MaxProcessQueue,   \* MAX_MESSAGES_ALLOWED_IN_PROCESS_QUEUE
  MaxFreeBuffers,    \* MAX_FREE_BUFFER_COUNT
  MaxMessages        \* bound: the messages of a behaviour

ASSUME QueueAssumption ==
  /\ None \notin Buffers
  /\ RingCapacity \in Nat \ {0}
  /\ MaxProcessQueue \in Nat \ {0}
  /\ MaxFreeBuffers \in Nat
  /\ MaxMessages \in Nat

VARIABLES
  eventPc,          \* where the event thread is
  processingEvents, \* between EventProcessingStarted and -Finished
  current,          \* currentMessageBuffer
  flushing,         \* sourceBuffer of the FlushQueue in progress
  sceneUpdateFlag,  \* a message of the current buffer changes the scene
  freeQueue,        \* buffers to reuse (event thread only)
  updatePc,         \* where the update thread is
  drained,          \* buffers this ProcessMessages has taken and not processed
  done,             \* buffers it has processed and not recycled
  sceneUpdated,     \* its result
  ring, ringClaimed,\* bufferRing, as the channel of SpscChannel
  sceneUpdate,      \* atomic: scene-changing messages were flushed
  overflowActive,   \* atomic: the overflow queue has content
  processQueue,     \* overflow queue (mutex)
  recycleQueue,     \* emptied buffers (mutex)
  waitingForDrain,  \* a producer waits on messagePromise (mutex)
  promiseLinked,    \* messagePromise belongs to the future the producer waits on
  futureReady,      \* that future has its value
  contents,         \* the messages in each buffer
  heap,             \* the buffers that are allocated
  alive,            \* the MessageQueue has not been destroyed
  idleRequested,    \* RequestProcessEventsOnIdle was called
  updateRequested,  \* RequestUpdate was called
  reserved,         \* history: number of messages reserved
  sceneMessages,    \* history: those reserved with updateScene
  processed,        \* history: messages processed, in order
  unreported,       \* history: scene messages processed since the last true result
  refilled          \* history: a buffer entered the ring between the two drains

eventVars   == <<eventPc, processingEvents, current, flushing, sceneUpdateFlag, freeQueue>>
updateVars  == <<updatePc, drained, done, sceneUpdated>>
ringVars    == <<ring, ringClaimed>>
lockedVars  == <<overflowActive, processQueue, recycleQueue, waitingForDrain, promiseLinked,
                 futureReady>>
memoryVars  == <<contents, heap, alive>>
requestVars == <<idleRequested, updateRequested>>
historyVars == <<reserved, sceneMessages, processed, unreported, refilled>>
vars == <<eventVars, updateVars, ringVars, sceneUpdate, lockedVars, memoryVars, requestVars,
          historyVars>>

Ring == INSTANCE SpscChannel
          WITH Pointers <- Buffers, Capacity <- RingCapacity, MaxOut <- RingCapacity,
               pending <- ring, claimed <- ringClaimed

Messages == 1 .. MaxMessages

EventPCs  == {"outside", "processing", "push", "overflow", "wait", "publish", "request",
              "flushed"}
UpdatePCs == {"idle", "claim", "drain", "process", "recycle", "swap", "processOverflow",
              "recycleOverflow"}

TypeOK ==
  /\ eventPc \in EventPCs /\ updatePc \in UpdatePCs
  /\ processingEvents \in BOOLEAN
  /\ current \in Buffers \cup {None} /\ flushing \in Buffers \cup {None}
  /\ sceneUpdateFlag \in BOOLEAN /\ sceneUpdate \in BOOLEAN /\ sceneUpdated \in BOOLEAN
  /\ freeQueue \subseteq Buffers /\ recycleQueue \subseteq Buffers /\ done \subseteq Buffers
  /\ ring \in Seq(Buffers) /\ ringClaimed \in 0 .. RingCapacity
  /\ drained \in Seq(Buffers) /\ processQueue \in Seq(Buffers)
  /\ overflowActive \in BOOLEAN /\ waitingForDrain \in BOOLEAN
  /\ promiseLinked \in BOOLEAN /\ futureReady \in BOOLEAN
  /\ contents \in [Buffers -> Seq(Messages)] /\ heap \subseteq Buffers /\ alive \in BOOLEAN
  /\ idleRequested \in BOOLEAN /\ updateRequested \in BOOLEAN
  /\ reserved \in 0 .. MaxMessages
  /\ sceneMessages \subseteq Messages /\ unreported \subseteq Messages
  /\ processed \in Seq(Messages) /\ refilled \in BOOLEAN

Init ==
  /\ eventPc = "outside" /\ processingEvents = FALSE
  /\ current = None /\ flushing = None /\ sceneUpdateFlag = FALSE /\ freeQueue = {}
  /\ updatePc = "idle" /\ drained = << >> /\ done = {} /\ sceneUpdated = FALSE
  /\ Ring!Init
  /\ sceneUpdate = FALSE
  /\ overflowActive = FALSE /\ processQueue = << >> /\ recycleQueue = {}
  /\ waitingForDrain = FALSE /\ promiseLinked = FALSE /\ futureReady = FALSE
  /\ contents = [b \in Buffers |-> << >>] /\ heap = {} /\ alive = TRUE
  /\ idleRequested = FALSE /\ updateRequested = FALSE
  /\ reserved = 0 /\ sceneMessages = {} /\ processed = << >> /\ unreported = {}
  /\ refilled = FALSE

(***************************************************************************)
(* Event thread: the frame around the queue                                *)
(***************************************************************************)
\* Core::ProcessEvents (or ForceRelayout) starts.
EventProcessingStarted ==
  /\ alive
  /\ eventPc = "outside"
  /\ eventPc' = "processing"
  /\ processingEvents' = TRUE
  /\ idleRequested' = FALSE
  /\ UNCHANGED <<current, flushing, sceneUpdateFlag, freeQueue, updateVars, ringVars,
                 sceneUpdate, lockedVars, memoryVars, updateRequested, historyVars>>

\* Core always flushes before it finishes.
EventProcessingFinished ==
  /\ eventPc = "flushed"
  /\ eventPc' = "outside"
  /\ processingEvents' = FALSE
  /\ UNCHANGED <<current, flushing, sceneUpdateFlag, freeQueue, updateVars, ringVars,
                 sceneUpdate, lockedVars, memoryVars, requestVars, historyVars>>

(***************************************************************************)
(* Event thread: ReserveMessageSlot                                        *)
(***************************************************************************)
\* A reserve without a current buffer first empties the recycle queue: it
\* keeps buffers while fewer than MaxFreeBuffers are idle and deletes the
\* others, and those that grew too large (any of them may have).  Then it
\* takes an idle buffer, or a new one if there is none.
AcquireBuffer ==
  \E kept \in SUBSET recycleQueue :
    LET idle == freeQueue \cup kept
        live == heap \ (recycleQueue \ kept)
    IN  /\ Cardinality(idle) <= MaxFreeBuffers
        /\ recycleQueue' = {}
        /\ IF idle # {}
           THEN \E b \in idle : current' = b /\ freeQueue' = idle \ {b} /\ heap' = live
           ELSE \E b \in Buffers \ live : current' = b /\ freeQueue' = {} /\ heap' = live \cup {b}

\* RequestProcessEventsOnIdle, unless the messages will be flushed anyway.
\* Mutant: never.
RequestIdleNever == UNCHANGED idleRequested
RequestIdle == idleRequested' = (idleRequested \/ ~processingEvents)

\* A reservation after a flush but still within event processing is one that
\* follows a nested ForceRelayout: another flush comes before the end.
ReserveMessageSlot(updateScene) ==
  /\ alive
  /\ eventPc \in {"outside", "processing", "flushed"}
  /\ reserved < MaxMessages
  /\ IF current = None THEN AcquireBuffer
     ELSE UNCHANGED <<current, freeQueue, recycleQueue, heap>>
  /\ contents' = [contents EXCEPT ![current'] = Append(@, reserved + 1)]
  /\ sceneUpdateFlag' = (sceneUpdateFlag \/ updateScene)
  /\ RequestIdle
  /\ eventPc' = IF eventPc = "flushed" THEN "processing" ELSE eventPc
  /\ reserved' = reserved + 1
  /\ sceneMessages' = IF updateScene THEN sceneMessages \cup {reserved + 1} ELSE sceneMessages
  /\ UNCHANGED <<processingEvents, flushing, updateVars, ringVars, sceneUpdate,
                 overflowActive, processQueue, waitingForDrain, promiseLinked, futureReady,
                 alive, updateRequested, processed, unreported, refilled>>

(***************************************************************************)
(* Event thread: FlushQueue                                                *)
(***************************************************************************)
HasMessages == current # None

\* Nothing was reserved: returns false.
FlushNothing ==
  /\ eventPc = "processing"
  /\ ~HasMessages
  /\ eventPc' = "flushed"
  /\ UNCHANGED <<processingEvents, current, flushing, sceneUpdateFlag, freeQueue, updateVars,
                 ringVars, sceneUpdate, lockedVars, memoryVars, requestVars, historyVars>>

\* Mutant of TakeCurrent: currentMessageBuffer is not reset.
TakeCurrentKept == flushing' = current /\ UNCHANGED current
TakeCurrent == flushing' = current /\ current' = None

\* Older buffers that overflowed must not be overtaken.
Channel == IF overflowActive THEN "overflow" ELSE "push"

\* Takes the current buffer and loads overflowActive.
FlushBegin ==
  /\ eventPc = "processing"
  /\ HasMessages
  /\ TakeCurrent
  /\ eventPc' = Channel
  /\ UNCHANGED <<processingEvents, sceneUpdateFlag, freeQueue, updateVars, ringVars,
                 sceneUpdate, lockedVars, memoryVars, requestVars, historyVars>>

\* The update thread is between its Drain of the ring and its swap of the
\* overflow queue.
BetweenDrains == updatePc \in {"drain", "process", "recycle", "swap"}

FlushPush ==
  /\ eventPc = "push"
  /\ \/ /\ Ring!Push(flushing)
        /\ eventPc' = "publish"
        /\ flushing' = None
        /\ refilled' = (refilled \/ BetweenDrains)
     \/ /\ Ring!Refuse
        /\ eventPc' = "overflow"
        /\ UNCHANGED <<flushing, refilled>>
  /\ UNCHANGED <<processingEvents, current, sceneUpdateFlag, freeQueue, updateVars,
                 sceneUpdate, lockedVars, memoryVars, requestVars, reserved, sceneMessages,
                 processed, unreported>>

\* A fresh promise, and the mark that makes the update thread set it.
\* Mutant: the mark is forgotten.
InstallUnmarkedPromise == promiseLinked' = TRUE /\ futureReady' = FALSE /\ UNCHANGED waitingForDrain
InstallPromise == promiseLinked' = TRUE /\ futureReady' = FALSE /\ waitingForDrain' = TRUE

\* The critical section of the overflow path; with too many overflowed
\* buffers a fresh promise is installed and the producer will wait on it.
FlushOverflow ==
  /\ eventPc = "overflow"
  /\ processQueue' = Append(processQueue, flushing)
  /\ flushing' = None
  /\ overflowActive' = TRUE
  /\ IF Len(processQueue') >= MaxProcessQueue
     THEN InstallPromise /\ eventPc' = "wait"
     ELSE eventPc' = "publish" /\ UNCHANGED <<promiseLinked, futureReady, waitingForDrain>>
  /\ UNCHANGED <<processingEvents, current, sceneUpdateFlag, freeQueue, updateVars, ringVars,
                 sceneUpdate, recycleQueue, memoryVars, requestVars, historyVars>>

\* wait_for returns because the value is there, or after 10 milliseconds.
WaitEnd ==
  /\ eventPc = "wait"
  /\ eventPc' = "publish"
  /\ UNCHANGED <<processingEvents, current, flushing, sceneUpdateFlag, freeQueue, updateVars,
                 ringVars, sceneUpdate, lockedVars, memoryVars, requestVars, historyVars>>

RaiseSceneUpdate == sceneUpdate' = (sceneUpdate \/ sceneUpdateFlag)

\* Tells the update thread that the scene changes, after the buffer is out.
FlushPublish ==
  /\ eventPc = "publish"
  /\ RaiseSceneUpdate
  /\ sceneUpdateFlag' = FALSE
  /\ eventPc' = "request"
  /\ UNCHANGED <<processingEvents, current, flushing, freeQueue, updateVars, ringVars,
                 lockedVars, memoryVars, requestVars, historyVars>>

\* Mutant of KeepUpdating: the result of FlushQueue is ignored.
KeepSleeping == UNCHANGED updateRequested
KeepUpdating == updateRequested' = TRUE

\* FlushQueue returned true: Core asks for an update.
RequestUpdate ==
  /\ eventPc = "request"
  /\ eventPc' = "flushed"
  /\ KeepUpdating
  /\ UNCHANGED <<processingEvents, current, flushing, sceneUpdateFlag, freeQueue, updateVars,
                 ringVars, sceneUpdate, lockedVars, memoryVars, idleRequested, historyVars>>

(***************************************************************************)
(* Update thread: ProcessMessages                                          *)
(***************************************************************************)
\* sceneUpdate.exchange(0).  An update may come at any time, asked for or not.
UpdateBegin ==
  /\ alive
  /\ updatePc = "idle"
  /\ updatePc' = "claim"
  /\ sceneUpdated' = sceneUpdate
  /\ sceneUpdate' = FALSE
  /\ updateRequested' = FALSE
  /\ UNCHANGED <<eventVars, drained, done, ringVars, lockedVars, memoryVars, idleRequested,
                 historyVars>>

\* Drain loads the index of the producer.
DrainBegin ==
  /\ updatePc = "claim"
  /\ \/ ring = << >> /\ updatePc' = "swap" /\ UNCHANGED ringVars
     \/ Ring!Claim /\ updatePc' = "drain"
  /\ UNCHANGED <<eventVars, drained, done, sceneUpdated, sceneUpdate, lockedVars, memoryVars,
                 requestVars, historyVars>>

\* Drain gives the slots back and returns the buffers.
DrainEnd ==
  /\ updatePc = "drain"
  /\ Ring!Release
  /\ drained' = Ring!Claimed
  /\ updatePc' = "process"
  /\ UNCHANGED <<eventVars, done, sceneUpdated, sceneUpdate, lockedVars, memoryVars,
                 requestVars, historyVars>>

\* MessageBuffer::Reset.  Mutant: the buffer keeps its messages.
NotReset(buffer) == UNCHANGED contents
Reset(buffer) == contents' = [contents EXCEPT ![buffer] = << >>]

\* Every message of the next buffer is processed and destroyed, and the
\* buffer is reset.
ProcessBuffer ==
  /\ updatePc \in {"process", "processOverflow"}
  /\ LET buffer == Head(drained)
         messages == {contents[buffer][i] : i \in DOMAIN contents[buffer]}
     IN  /\ processed' = processed \o contents[buffer]
         /\ unreported' = unreported \cup (messages \cap sceneMessages)
         /\ Reset(buffer)
         /\ done' = done \cup {buffer}
  /\ drained' = Tail(drained)
  /\ updatePc' = IF Len(drained) > 1 THEN updatePc
                 ELSE IF updatePc = "process" THEN "recycle" ELSE "recycleOverflow"
  /\ UNCHANGED <<eventVars, sceneUpdated, ringVars, sceneUpdate, lockedVars, heap, alive,
                 requestVars, reserved, sceneMessages, refilled>>

Recycle == /\ recycleQueue' = recycleQueue \cup done
           /\ done' = {}

\* Critical section: the buffers of the ring go back.
RecycleDrained ==
  /\ updatePc = "recycle"
  /\ Recycle
  /\ updatePc' = "swap"
  /\ UNCHANGED <<eventVars, drained, sceneUpdated, ringVars, sceneUpdate, overflowActive,
                 processQueue, waitingForDrain, promiseLinked, futureReady, memoryVars,
                 requestVars, historyVars>>

\* ProcessMessages returns sceneUpdated; a true result reports every scene
\* message processed so far.
Return == /\ updatePc' = "idle"
          /\ unreported' = IF sceneUpdated THEN {} ELSE unreported
          /\ sceneUpdated' = FALSE

TakeOverflow ==
  drained' = processQueue /\ processQueue' = << >> /\ overflowActive' = FALSE

\* Critical section: the overflow queue is taken as a whole.
SwapOverflow ==
  /\ updatePc = "swap"
  /\ IF processQueue = << >>
     THEN Return /\ UNCHANGED <<drained, processQueue, overflowActive>>
     ELSE TakeOverflow /\ updatePc' = "processOverflow" /\ UNCHANGED <<sceneUpdated, unreported>>
  /\ UNCHANGED <<eventVars, done, ringVars, sceneUpdate, recycleQueue, waitingForDrain,
                 promiseLinked, futureReady, memoryVars, requestVars, reserved, sceneMessages,
                 processed, refilled>>

\* Critical section: the overflowed buffers go back, and a producer that
\* waits is signalled; messagePromise is replaced by a new promise.
RecycleOverflow ==
  /\ updatePc = "recycleOverflow"
  /\ Recycle
  /\ IF waitingForDrain
     THEN /\ futureReady' = (futureReady \/ promiseLinked)
          /\ promiseLinked' = FALSE
          /\ waitingForDrain' = FALSE
     ELSE UNCHANGED <<futureReady, promiseLinked, waitingForDrain>>
  /\ Return
  /\ UNCHANGED <<eventVars, drained, ringVars, sceneUpdate, overflowActive, processQueue,
                 memoryVars, requestVars, reserved, sceneMessages, processed, refilled>>

(***************************************************************************)
(* ~Impl: both threads are outside the queue.                              *)
(***************************************************************************)

\* What the destructor deletes.
Owned == {current} \cup Elements(processQueue) \cup recycleQueue \cup freeQueue \cup Elements(ring)

Destroy ==
  /\ alive
  /\ eventPc = "outside"
  /\ updatePc = "idle"
  /\ alive' = FALSE
  /\ heap' = heap \ Owned
  /\ current' = None
  /\ processQueue' = << >> /\ recycleQueue' = {} /\ freeQueue' = {} /\ ring' = << >>
  /\ UNCHANGED <<eventPc, processingEvents, flushing, sceneUpdateFlag, updateVars, ringClaimed,
                 sceneUpdate, overflowActive, waitingForDrain, promiseLinked, futureReady,
                 contents, requestVars, historyVars>>

Destroyed == ~alive /\ UNCHANGED vars

EventThread ==
  \/ EventProcessingStarted \/ EventProcessingFinished
  \/ \E updateScene \in BOOLEAN : ReserveMessageSlot(updateScene)
  \/ FlushNothing \/ FlushBegin \/ FlushPush \/ FlushOverflow \/ WaitEnd \/ FlushPublish
  \/ RequestUpdate

UpdateThread ==
  \/ UpdateBegin \/ DrainBegin \/ DrainEnd \/ ProcessBuffer
  \/ RecycleDrained \/ SwapOverflow \/ RecycleOverflow

Next == EventThread \/ UpdateThread \/ Destroy \/ Destroyed

Spec == Init /\ [][Next]_vars

(***************************************************************************)
(* Fairness.  The event loop serves a requested idle callback, both        *)
(* threads run on once they are inside a call, a 10 ms wait ends, and the  *)
(* render controller serves a requested update.  Nothing else is assumed:  *)
(* neither thread runs without being asked.                                *)
(***************************************************************************)
EventThreadRuns == FlushNothing \/ FlushBegin \/ FlushPush \/ FlushOverflow \/ WaitEnd
                     \/ FlushPublish \/ RequestUpdate \/ EventProcessingFinished
UpdateThreadRuns == DrainBegin \/ DrainEnd \/ ProcessBuffer \/ RecycleDrained
                      \/ SwapOverflow \/ RecycleOverflow

Fairness == /\ WF_vars(idleRequested /\ EventProcessingStarted)
            /\ WF_vars(EventThreadRuns)
            /\ WF_vars(updateRequested /\ UpdateBegin)
            /\ WF_vars(UpdateThreadRuns)

FairSpec == Spec /\ Fairness

(***************************************************************************)
(* Properties                                                              *)
(***************************************************************************)

\* The places a buffer can be in, each with the buffers in it.  A buffer the
\* ring still shows while Drain has not given its slot back is in the ring.
Places == << {current} \ {None}, {flushing} \ {None}, freeQueue, Elements(ring),
             Elements(drained), done, Elements(processQueue), recycleQueue >>

\* Every allocated buffer is in exactly one place, and no place names it
\* twice: no buffer is leaked, deleted while used, or filled by the event
\* thread while the update thread processes it.  Destroying the queue frees
\* every buffer, wherever it was.
EachBufferInOnePlace ==
  /\ heap = IF alive THEN UNION {Places[i] : i \in DOMAIN Places} ELSE {}
  /\ \A i, j \in DOMAIN Places : i # j => Places[i] \cap Places[j] = {}
  /\ \A s \in {ring, drained, processQueue} : NoRepeats(s)

\* Where message m is: unprocessed in buffers, or processed.
Copies(m) == Cardinality({at \in Buffers \X Messages :
                            at[2] \in DOMAIN contents[at[1]] /\ contents[at[1]][at[2]] = m})
               + Cardinality({i \in DOMAIN processed : processed[i] = m})

\* Every reserved message is in the queue or has been processed, once: none
\* is lost with a buffer, and none is processed again when its buffer is
\* reused.
EachMessageOnce == \A m \in 1 .. reserved : Copies(m) = 1

\* Messages are processed in the order of their reservation, although some
\* travel through the ring and some through the overflow queue, as long as no
\* buffer enters the ring while the update thread is between its two drains.
InOrderUnlessRefilled == ~refilled => Ascending(processed)

\* None lost, none twice, in order.
EachMessageOnceInOrder == EachMessageOnce /\ InOrderUnlessRefilled

\* overflowActive says whether the overflow queue has content, for the
\* lock-free test in FlushQueue: a flag that stayed set would send every later
\* buffer down the slow path.
OverflowFlagIsExact == alive => (overflowActive <=> processQueue # << >>)

\* A producer that waits can be woken before its timeout: its promise is the
\* one that will be set, and the update thread has, or will find, the
\* overflowed buffers whose recycling sets it.
WaiterCanBeWoken ==
  eventPc = "wait" /\ ~futureReady =>
    /\ waitingForDrain /\ promiseLinked
    /\ processQueue # << >> \/ updatePc \in {"processOverflow", "recycleOverflow"}

\* Every reserved message is processed in the end, inside and outside event
\* processing, through the ring and through the overflow queue.
EveryMessageProcessed ==
  \A m \in Messages : reserved >= m ~> (m \in Elements(processed) \/ ~alive)

\* Every scene-changing message that was processed is reported by a
\* ProcessMessages that returns true, in the same frame or a later one.
SceneUpdateReported == unreported # {} ~> (unreported = {} \/ ~alive)
=============================================================================
