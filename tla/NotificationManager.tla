------------------------ MODULE NotificationManager ------------------------
(***************************************************************************)
(* dali/internal/event/common/notification-manager: what the update thread *)
(* tells the event thread.  During an Update it queues messages and        *)
(* completion notifications in working containers; UpdateCompleted moves   *)
(* them into one batch and pushes the batch into a lockless ring, or takes *)
(* them back for the next frame when the ring is full.  The event thread   *)
(* drains the ring in ProcessMessages and recycles the batches.            *)
(*                                                                         *)
(* Core::Update and Core::ProcessEvents are the callers: after each Update *)
(* MessagesToProcess says whether the event thread has to be woken.        *)
(* Notifications are numbered in the order in which they are queued.       *)
(***************************************************************************)
EXTENDS Naturals, FiniteSets, Sequences, Queues

CONSTANTS
  Batches,            \* the NotificationBatches the heap can hold (bound)
  None,               \* no batch
  RingCapacity,       \* NOTIFICATION_RING_CAPACITY
  MaxFreeBatches,     \* MAX_FREE_BATCH_COUNT
  MaxNotifications    \* bound: notifications of a behaviour

ASSUME ManagerAssumption ==
  /\ None \notin Batches
  /\ RingCapacity \in Nat \ {0}
  /\ MaxFreeBatches \in Nat /\ MaxNotifications \in Nat

VARIABLES
  updatePc,          \* where the update thread is
  working,           \* workingMessages and workingInterfaces
  filling,           \* the batch of the UpdateCompleted in progress
  freeQueue,         \* batchFreeQueue (update thread only)
  ring, ringClaimed, \* notificationRing, as the channel of SpscChannel
  recycleQueue,      \* batchRecycleQueue (mutex)
  eventPc,           \* where the event thread is
  drained,           \* batches this ProcessMessages has taken and not recycled
  contents,          \* what is in each batch
  heap,              \* the batches that are allocated
  alive,             \* the NotificationManager has not been destroyed
  eventsRequested,   \* status.needsNotification was reported
  queued,            \* history: number of notifications queued
  delivered          \* history: contents of the batches delivered, in order

updateVars  == <<updatePc, working, filling, freeQueue>>
ringVars    == <<ring, ringClaimed>>
eventVars   == <<eventPc, drained>>
memoryVars  == <<contents, heap, alive>>
historyVars == <<queued, delivered>>
vars == <<updateVars, ringVars, recycleQueue, eventVars, memoryVars, eventsRequested,
          historyVars>>

Ring == INSTANCE SpscChannel
          WITH Pointers <- Batches, Capacity <- RingCapacity, MaxOut <- RingCapacity,
               pending <- ring, claimed <- ringClaimed

Notifications == 1 .. MaxNotifications
Container == [messages : Seq(Notifications), interfaces : Seq(Notifications)]
Empty == [messages |-> << >>, interfaces |-> << >>]

UpdatePCs == {"idle", "update", "push", "rollback", "check"}
EventPCs  == {"idle", "drain", "process", "recycle"}

TypeOK ==
  /\ updatePc \in UpdatePCs /\ eventPc \in EventPCs
  /\ working \in Container /\ filling \in Batches \cup {None}
  /\ freeQueue \subseteq Batches /\ recycleQueue \subseteq Batches /\ heap \subseteq Batches
  /\ ring \in Seq(Batches) /\ ringClaimed \in 0 .. RingCapacity /\ drained \in Seq(Batches)
  /\ contents \in [Batches -> Container]
  /\ alive \in BOOLEAN /\ eventsRequested \in BOOLEAN
  /\ queued \in 0 .. MaxNotifications /\ delivered \in Seq(Container)

\* RecycleBatch, under the mutex, from either thread.  Mutant: dropped.
DropBatch(batch) == UNCHANGED recycleQueue
RecycleBatch(batch) == recycleQueue' = recycleQueue \cup {batch}

\* NotificationBatch::Clear.  Mutant: the batch keeps its contents.
KeepBatch(batch) == UNCHANGED contents
ClearBatch(batch) == contents' = [contents EXCEPT ![batch] = Empty]

Init ==
  /\ updatePc = "idle" /\ working = Empty /\ filling = None /\ freeQueue = {}
  /\ Ring!Init
  /\ recycleQueue = {}
  /\ eventPc = "idle" /\ drained = << >>
  /\ contents = [b \in Batches |-> Empty] /\ heap = {} /\ alive = TRUE
  /\ eventsRequested = FALSE
  /\ queued = 0 /\ delivered = << >>

(***************************************************************************)
(* Update thread                                                           *)
(***************************************************************************)
UpdateBegin ==
  /\ alive
  /\ updatePc = "idle"
  /\ updatePc' = "update"
  /\ UNCHANGED <<working, filling, freeQueue, ringVars, recycleQueue, eventVars, memoryVars,
                 eventsRequested, historyVars>>

\* QueueMessage and QueueNotification, called by the animations, property
\* notifications and render tasks of the frame.
Queue(kind) ==
  /\ updatePc = "update"
  /\ queued < MaxNotifications
  /\ working' = [working EXCEPT ![kind] = Append(@, queued + 1)]
  /\ queued' = queued + 1
  /\ UNCHANGED <<updatePc, filling, freeQueue, ringVars, recycleQueue, eventVars, memoryVars,
                 eventsRequested, delivered>>

QueueMessage      == Queue("messages")
QueueNotification == Queue("interfaces")

\* UpdateCompleted with nothing queued.
CompleteNothing ==
  /\ updatePc = "update"
  /\ working = Empty
  /\ updatePc' = "check"
  /\ UNCHANGED <<working, filling, freeQueue, ringVars, recycleQueue, eventVars, memoryVars,
                 eventsRequested, historyVars>>

\* An idle batch; only when there is none the recycle queue is emptied, of
\* which MaxFreeBatches are kept; with nothing idle a new batch is made.
AcquireBatch ==
  IF freeQueue # {}
  THEN \E b \in freeQueue : /\ filling' = b
                            /\ freeQueue' = freeQueue \ {b}
                            /\ UNCHANGED <<recycleQueue, heap>>
  ELSE \E kept \in SUBSET recycleQueue :
         /\ Cardinality(kept) <= MaxFreeBatches
         /\ kept = recycleQueue \/ Cardinality(kept) = MaxFreeBatches
         /\ recycleQueue' = {}
         /\ LET live == heap \ (recycleQueue \ kept)
            IN  IF kept # {}
                THEN \E b \in kept : filling' = b /\ freeQueue' = kept \ {b} /\ heap' = live
                ELSE \E b \in Batches \ live :
                       filling' = b /\ freeQueue' = {} /\ heap' = live \cup {b}

\* UpdateCompleted moves the working containers into a batch.
FillBatch ==
  /\ updatePc = "update"
  /\ working # Empty
  /\ AcquireBatch
  /\ contents' = [contents EXCEPT ![filling'] = working]
  /\ working' = Empty
  /\ updatePc' = "push"
  /\ UNCHANGED <<ringVars, eventVars, alive, eventsRequested, historyVars>>

PushBatch ==
  /\ updatePc = "push"
  /\ \/ Ring!Push(filling) /\ filling' = None /\ updatePc' = "check"
     \/ Ring!Refuse /\ updatePc' = "rollback" /\ UNCHANGED filling
  /\ UNCHANGED <<working, freeQueue, recycleQueue, eventVars, memoryVars, eventsRequested,
                 historyVars>>

\* Mutant of TakeBack: the deferred batch is not taken back.
TakeBackNothing == UNCHANGED working
TakeBack == working' = contents[filling]

\* The ring was full: everything goes back to be retried next frame, and the
\* batch to the recycle queue.
Rollback ==
  /\ updatePc = "rollback"
  /\ TakeBack
  /\ ClearBatch(filling)
  /\ RecycleBatch(filling)
  /\ filling' = None
  /\ updatePc' = "check"
  /\ UNCHANGED <<freeQueue, ringVars, eventVars, heap, alive, eventsRequested, historyVars>>

\* MessagesToProcess.  Mutant: slots the event thread is giving back are
\* counted out together with those behind them.
AnyUnlessDraining == ring # << >> /\ ringClaimed = 0
MessagesToProcess == ring # << >>

\* Core::Update ends: needsNotification is the answer of MessagesToProcess,
\* and the render controller then has ProcessEvents called.
CheckMessages ==
  /\ updatePc = "check"
  /\ eventsRequested' = (eventsRequested \/ MessagesToProcess)
  /\ updatePc' = "idle"
  /\ UNCHANGED <<working, filling, freeQueue, ringVars, recycleQueue, eventVars, memoryVars,
                 historyVars>>

(***************************************************************************)
(* Event thread: ProcessMessages                                           *)
(***************************************************************************)
DrainBegin ==
  /\ alive
  /\ eventPc = "idle"
  /\ eventsRequested' = FALSE
  /\ \/ ring = << >> /\ UNCHANGED <<eventPc, ringVars>>
     \/ Ring!Claim /\ eventPc' = "drain"
  /\ UNCHANGED <<updateVars, recycleQueue, drained, memoryVars, historyVars>>

\* What Drain returns.
Taken == Ring!Claimed

DrainEnd ==
  /\ eventPc = "drain"
  /\ Ring!Release
  /\ drained' = Taken
  /\ eventPc' = "process"
  /\ UNCHANGED <<updateVars, recycleQueue, memoryVars, eventsRequested, historyVars>>

\* Every message of the next batch is processed, then every interface is
\* notified, then the batch is cleared.
ProcessBatch ==
  /\ eventPc = "process"
  /\ delivered' = Append(delivered, contents[Head(drained)])
  /\ ClearBatch(Head(drained))
  /\ eventPc' = "recycle"
  /\ UNCHANGED <<updateVars, ringVars, recycleQueue, drained, heap, alive, eventsRequested,
                 queued>>

Recycle ==
  /\ eventPc = "recycle"
  /\ RecycleBatch(Head(drained))
  /\ drained' = Tail(drained)
  /\ eventPc' = IF Len(drained) > 1 THEN "process" ELSE "idle"
  /\ UNCHANGED <<updateVars, ringVars, memoryVars, eventsRequested, historyVars>>

(***************************************************************************)
(* ~Impl: both threads are outside.                                        *)
(***************************************************************************)
Owned == Elements(ring) \cup freeQueue \cup recycleQueue

Destroy ==
  /\ alive
  /\ updatePc = "idle" /\ eventPc = "idle"
  /\ alive' = FALSE
  /\ heap' = heap \ Owned
  /\ ring' = << >> /\ freeQueue' = {} /\ recycleQueue' = {}
  /\ UNCHANGED <<updatePc, working, filling, ringClaimed, eventVars, contents, eventsRequested,
                 historyVars>>

Destroyed == ~alive /\ UNCHANGED vars

UpdateRuns == CompleteNothing \/ FillBatch \/ PushBatch \/ Rollback \/ CheckMessages
EventRuns  == DrainEnd \/ ProcessBatch \/ Recycle

Next == \/ UpdateBegin \/ QueueMessage \/ QueueNotification \/ UpdateRuns
        \/ DrainBegin \/ EventRuns
        \/ Destroy \/ Destroyed

Spec == Init /\ [][Next]_vars

(***************************************************************************)
(* Fairness: both threads run on once inside a call, and the event thread  *)
(* is woken when Core::Update reported notifications.  FramesContinue is   *)
(* what an application that keeps rendering adds.                          *)
(***************************************************************************)
Fairness == /\ WF_vars(UpdateRuns)
            /\ WF_vars(EventRuns)
            /\ WF_vars(eventsRequested /\ DrainBegin)
FramesContinue == WF_vars(UpdateBegin)

RenderingSpec == Spec /\ Fairness /\ FramesContinue

(***************************************************************************)
(* Properties                                                              *)
(***************************************************************************)

Places == << {filling} \ {None}, freeQueue, Elements(ring), Elements(drained), recycleQueue >>

\* Every allocated batch is in exactly one place, also when the rollback of
\* the update thread and the recycling of the event thread meet in the
\* recycle queue: none is leaked, or filled while the event thread reads it.
\* Destroying the manager frees every batch.
EachBatchInOnePlace ==
  /\ heap = IF alive THEN UNION {Places[i] : i \in DOMAIN Places} ELSE {}
  /\ \A i, j \in DOMAIN Places : i # j => Places[i] \cap Places[j] = {}
  /\ \A s \in {ring, drained} : NoRepeats(s)

\* All containers that hold notifications: working, batches, delivered.
CountIn(c, n) == Cardinality({i \in DOMAIN c.messages : c.messages[i] = n})
                   + Cardinality({i \in DOMAIN c.interfaces : c.interfaces[i] = n})
Holders(n) == Cardinality({b \in Batches : CountIn(contents[b], n) > 0})
                + Cardinality({i \in DOMAIN delivered : CountIn(delivered[i], n) > 0})
                + (IF CountIn(working, n) > 0 THEN 1 ELSE 0)

\* Every queued notification is waiting or was delivered, once: the batch
\* that is taken back from a full ring loses nothing and doubles nothing.
EachNotificationOnce == \A n \in 1 .. queued : Holders(n) = 1

Members(c) == Elements(c.messages) \cup Elements(c.interfaces)
\* Batches are delivered in order: nothing that was queued before a delivered
\* notification of an earlier batch comes after it, even when a full ring
\* merged the notifications of several frames.
BatchesInOrder ==
  /\ \A i, j \in DOMAIN delivered : i < j =>
       \A m \in Members(delivered[i]), n \in Members(delivered[j]) : m < n
  /\ \A i \in DOMAIN delivered :
       Ascending(delivered[i].messages) /\ Ascending(delivered[i].interfaces)

\* None lost, none twice, in order.
EachNotificationOnceInOrder == EachNotificationOnce /\ BatchesInOrder

\* A batch in the ring is always announced: the event thread was asked for,
\* or is in the middle of taking it, or this Update has yet to check.
\* MessagesToProcess reads two indices that move under it, on the update
\* thread, and must not miss a batch that the event thread is not taking.
PendingIsAnnounced ==
  ring # << >> /\ alive =>
    eventsRequested \/ updatePc = "check" \/ ringClaimed = Len(ring)

\* Every notification is delivered in the end.
EveryNotificationDelivered ==
  \A n \in Notifications :
    queued >= n ~> (~alive \/ \E i \in DOMAIN delivered : n \in Members(delivered[i]))
=============================================================================
