# Verification of dali-core

TLA+ models of the core of DALi (`src/dali`), model-checked with TLC on small
instances, with proofs checked by TLAPS. Every definition is translated from the
source; `PROJECT.json` maps each one to the lines it stands for.

## The system

DALi is a scene-graph library. An application describes actors, animations and
render tasks on the **event thread**; a second thread, the **update/render
thread**, owns the scene graph proper, advances it frame by frame and draws it.
An adaptor (not in this repository) runs both and calls `Dali::Integration::Core`:
`ProcessEvents` and `ForceRelayout` on the event thread, `Update` and the render
calls on the other one. Nearly every object lives twice: as `Internal::X` on the
event thread and as `SceneGraph::X` on the update thread.

```
  application ---- event thread ------------------- update/render thread --- graphics
   Actor, Animation,   MessageQueue: buffers of messages      UpdateManager::Update
   RenderTask, ...   ------------------------------------>    Node, SceneGraph::Animation,
   signals, processors                                        RenderTask, ... -> RenderManager
   size negotiation   NotificationManager: batches of
   gestures, events  <------------------------------------    "finished", "notified"
                      atomics and plain reads (mPlayedCount,
                      LocklessBuffer, double-buffered values)
```

### Inventory

For each component: its state, its operations, what is hard, what makes it correct.

| Component | State | Operations | Hard | Correct when |
|---|---|---|---|---|
| `LocklessPointerRing` (`internal/common`) | slots, free-running 64-bit read and write indices | `Push`, `Drain`, `GetApproximateDepth`, one producer and one consumer thread | store of the slot and of the index are separate; each side uses a stale copy of the other index; wrap | a FIFO channel; no slot overwritten; the depth never "negative" |
| `LocklessBuffer` (`integration-api`) | two byte buffers, one atomic state word | `Write`, `Read` | `Write` is not a loop: its last compare-and-swap must succeed; buffers are swapped under a reader | reader and writer never share a buffer; data is stable, fresh, monotonic |
| `MessageBuffer` (`internal/common`) | a block of words, capacity, size | `ReserveMessageSlot`, `Reset`, iteration | growth by a half, end marker, stale words of the last frame | everything inside the block; iteration sees exactly what was reserved |
| `MessageQueue` (`internal/update/queue`) | current buffer, ring, overflow queue, recycle and free queues, atomics, a promise | `ReserveMessageSlot`, `FlushQueue`, `ProcessMessages`, `EventProcessingStarted/Finished` | two channels of different latency, a flag outside the lock, a wait with timeout | no buffer leaked or shared, no message lost or doubled, order, "scene updated" reported |
| `NotificationManager` (`internal/event/common`) | working containers, filled batch, ring, recycle and free queues | `QueueNotification`, `UpdateCompleted`, `MessagesToProcess`, `ProcessMessages` | full ring: batch taken back and merged with the next frame; pool filled by both threads | as above, and somebody always calls `ProcessMessages` |
| Signals (`public-api/signals`) | pool of connection nodes, linked list, hash cache, counters; trackers | `OnConnect`, `OnDisconnect`, `Emit`, disconnection by a tracker, destruction | all of it may happen in a slot of the same signal, and signals nest | each slot connected at the start is called once, in order, unless disconnected; both sides of a connection agree |
| `Core` (`internal/common/core-impl`), processors, relayout controller flags | processor lists (each with a "once" pair), guards against re-entrance | `ProcessEvents`, `ForceRelayout`, `(Un)RegisterProcessor(Once)` | processors register, unregister and destroy each other while a list is run; nested calls | nobody runs who is not registered, nobody is skipped; flags equal the calls on the stack; unflushed messages are announced |
| Animations, playlist | `Internal::Animation::mState` and notification count; `SceneGraph::Animation` state and played count; `AnimationPlaylist` with references and ignored ids | `Play`, `Pause`, `Stop`, `Clear`, destruction; `Update`; `NotifyCompleted` | two state machines that talk through delayed messages and notifications, and an unlocked read | the halves agree when all has arrived; Finished is emitted for a completion and not for a Clear; objects live as long as they are used, no longer |
| Update manager | discard queues, `updateScene` decisions, keep-updating status | `Update`, `PostRender` | an object is discarded in one frame and still used by it; messages arrive after the decision; deciding that nothing needs drawing | nothing used after it is freed; no change left undrawn; comes to rest |
| Properties and resetters | value, base value, dirty flags; `mActive`, `mRunning` | `Set`, `Bake`, `ResetToBaseValue`, ageing | a property is still to be reset when what animated it has gone | at rest every value is its base value |
| Animators, constraints | connectors, observers | apply, disconnect | an observed object dies first | no use after destruction |
| Render tasks | event half: rate, counter of signalled refreshes; scene half: state, counter of finished ones, `mNotifyTrigger`; sync object and trigger; kept result | `SetRefreshRate`, `KeepRenderResult`, removal; `Process`, `UpdateState`, `HasRendered`; `RenderScene`, `PostRender`; `NotifyCompleted` | a REFRESH_ONCE crosses both threads and the GPU, over several frames; a trigger polled late; a request repeated while the last one is on its way | one Finished at most for each request, not before the GPU is done, none lost; no old pixels |
| Property notifications | notify mode, validity | `Check`, `NotifyMessage` | values seen at notification time | one signal per crossing |
| Frame callbacks | the link between interface and scene-graph half, validity, a mutex; the processor's list; sync points | `AddFrameCallback`, `RemoveFrameCallback`, `NotifyFrameCallback`; `Update`, `Invalidate` | removed while it is called, or while its root is destroyed; a late invalidation against a newer link | not called after removal; both halves agree; no sync point lost |
| Object registry, handles, thread-local services | reference counts | registration | order of destruction | — |
| Actors, layers | `mParent`, `mChildren`, `mIsOnScene`, `mScene`, what was signalled; nodes; sibling order, depth indices | `Add`, `SwitchParent`, `Unparent`, `Remove`, `RemoveAll`, reorder, scene connection | callbacks change the tree between the steps of a change | parents and children agree, nodes and on-scene states follow, the flag that decides on the next signal is right |
| Size negotiation | dependency flags | `Relayout` | dependency cycles | fixed point |
| Touch, hover, wheel, key | last consumed actor, hit-test stamps | `ProcessTouchEvent`... | actors leave the scene between two events | interrupted exactly once |
| Gestures | recognizer states, timestamps | `SendEvent` | 32-bit time differences, timeouts | one gesture per pattern |
| Node tree, transforms | hierarchical arrays | update passes | index reuse | numerical |
| Render instructions, render manager | instruction lists, double-buffered | sort, render | — | data flow |
| Render objects, pipeline cache | reference counts | `GetPipeline`, `ReleasePipeline` | cached entry freed in use | counts match users |
| Memory pools, containers, threading, type registry, values | — | sequential helpers | — | unit tests |
| Graphics and platform interfaces, public API | — | implemented outside / forwarding | — | — |

The list of hazards, each at its line, is in `PROJECT.json`.

## The modules

| Module | Models | State and actions |
|---|---|---|
| `SpscChannel` | what a single-producer single-consumer ring promises | a sequence and how much of it a `Drain` in progress has claimed; `Push`, `DrainBegin`, `DrainEnd`. Abstract: not the code's data |
| `LocklessPointerRing` | `lockless-pointer-ring.h` | slots and indices modulo `IndexModulus`; one action per access to an atomic or to a slot, for `Push`, `Drain` and `GetApproximateDepth` of each thread. Implements `SpscChannel` |
| `LocklessBuffer` | `lockless-buffer.cpp` | the state word (which buffer is written, WRITING, UPDATED) and the bytes; `WriteBegin`, one `WriteCopy` per byte, `WriteEnd`, `ReadBegin`, `ReadSwap` |
| `MessageQueue` | `update-message-queue.cpp` | uses `SpscChannel` in place of the ring (that is what the refinement is for); one action per critical section and per access to an atomic. `Core` and the render controller appear as the two requests the queue makes |
| `NotificationManager` | `notification-manager.cpp` | as `MessageQueue`, the other way |
| `SignalPromise` | what a signal promises | connected slots per signal, what each emission in progress still has to call |
| `BaseSignal` | `base-signal.{h,cpp}`, `signal-connection-pool.cpp`, `signal-connection-cache.cpp`, `connection-tracker.cpp` | the pool with its links, free list, cache and counters; a stack of emissions; while a slot runs every operation of every signal is possible. Implements `SignalPromise` |
| `CoreEvents` | event-thread half of `core-impl.cpp` with the flags of `relayout-controller-impl.cpp` and of the message queue | a stack of `ProcessEvents`/relayout calls and the processor loop in progress; at each callback the application may do anything `Core` allows |
| `Animation` | `animation-impl.cpp`, `animation-playlist.cpp`, `scene-graph-animation.cpp`, and the loops of the update manager over animations | both halves of each animation, the playlist, and the messages and notifications between them |
| `UpdateManager` | `update-manager.cpp`, `animatable-property.h`, the resetters, `scene-graph-animator.h`, the parts of `scene-graph-animation.cpp` that write properties | a frame as the steps begin, take the messages, handle each, update or skip the scene, draw; nodes on and off the scene, their colour (value, base, dirty flags) and what is on the screen; the event thread sends messages between any two steps |
| `RenderTask` | `render-task-list-impl.cpp`, `render-task-impl.cpp`, `scene-graph-render-task.cpp`, `render-tracker.cpp`, `render-frame-buffer.cpp`, and what `UpdateManager::Update` does with the tasks | both halves of each task and the tracker and frame buffer behind it; the calls of the application, a frame as messages, `ProcessTasks`, `UpdateTasks`, `UpdateCompleted`, `RenderScene`, `PostRender`; the GPU; `NotifyCompleted` with its callbacks |
| `FrameCallback` | `scene-graph-frame-callback.cpp`, `frame-callback-processor.cpp`, `frame-callback-interface.cpp`, the sync points of `update-proxy-impl.cpp` | the link, both halves, the processor's list; `RemoveFrameCallback` in two steps, before and after it has the mutex; the update thread's loop holds the mutex while it calls |
| `ActorTree` | `actor-parent-impl.cpp`, `actor-impl.cpp` (`SetParent`, `SwitchParent`, the walks and the signals), `ConnectNode` and `DisconnectNode` of `update-manager.cpp` | the tree, the on-scene state, the nodes; a stack of the calls under way: in each callback the application may make any other call |
| `Queues` | `erase` of a list | elements of a queue, absence of repetitions, order and removal, shared by the modules above |
| `MC...` | | constants and symmetry for TLC |
| `..._proofs` | | theorems and the invariants they need |

How they compose: `MessageQueue` and `NotificationManager` instantiate
`SpscChannel`, which `LocklessPointerRing` is shown to implement;
`Animation` takes from the two queues what their invariants say (each message and
notification once, in order within what one animation can tell apart) and models
them as sequences; `CoreEvents` takes the event side of `MessageQueue` (a message
is unflushed or not, an idle callback was asked for or not); `UpdateManager` takes
the queue as a sequence that is flushed and taken whole, and of each animation the
scene half, with the property values `Animation` leaves out. `RenderTask` and
`FrameCallback` take from `MessageQueue` that messages arrive once and in order, and
`RenderTask` from `NotificationManager` the same of notifications; `ActorTree` takes
the node tree as what it is once the messages sent have been processed.

The actions are as fine as what the other thread, or a callback, can observe. Code
on one thread between two shared accesses is one step. An "external" map entry is
code outside the repository (the render controller) modelled from its use.

### Abstractions

* Message and notification contents are numbers in the order of creation.
* Bytes in `LocklessBuffer` are the number of the `Write` that stored them, so
  that torn and old data show.
* Atomics are sequentially consistent, as the code's orders (acquire/release with
  one writer per location, or sequentially consistent) make them for these
  algorithms; weaker behaviours of the hardware are not modelled.
* Time is not modelled: a 10 ms wait may end at any time, an animation may
  complete in any frame.
* In `Animation` there are no animators, constraints or property values. `Clear`
  returns at once for a cleared animation without connectors; as connectors are
  not modelled, `Clear` may always go through.
  `UpdateManager::Animate` is one step for all animations: what the event
  thread reads of one does not depend on the others.
* In `UpdateManager` one property stands for all: the colour, which is reset by
  all three kinds of resetter and is not one of the flags that force drawing. An
  animator adds to it (as `AnimateBy` does) an amount that is also its progress, in
  three phases: before its delay, on its way, at its end. Left out: layers,
  renderers, transforms (the transform manager only makes the code draw more
  often), constraints, gestures, frame callbacks, `renderersAdded` and upload-only
  frames, loops and blend points. The discard queues of renderers, shaders, scenes
  and custom objects are filled and cleared as the one of nodes. A frame that the
  adaptor runs without being asked is one of those asked for after their
  messages were taken by the frame before.
* Messages are reserved in a `MessageBuffer` one after the other; its words are
  not modelled.
* In `RenderTask` a request is a number, and what was drawn or read back is the
  number of the request it answers. Whether an instruction has anything to draw, and
  whether `Process` runs in a frame at all, is open. Left out: upload-only frames, a
  refresh every N frames, a frame buffer that is set later or shared by two tasks, the
  order of tasks, viewports, cameras.
* In `FrameCallback` the heap can hold a given number of callbacks; what an `Update`
  does with the nodes through its `UpdateProxy`, the travelers that find them and the
  request to keep rendering are left out. A dropped root is destroyed by a message.
* In `ActorTree` the application holds handles of all actors (no actor is destroyed) and
  puts no actor under itself, be it by an `Add` that a callback has overtaken; the code
  does not check that either. Left out: properties, layers, sibling order, depth, relayout, render tasks.

## The runs

Every passing run checks deadlock unless noted, and every property has a mutant of
the code under which TLC finds it violated.

| Run | Properties | What it shows | Distinct states |
|---|---|---|---|
| `ring` | `DepthDoesNotWrap`, `ImplementsChannel` | step by step and with wrapping indices the ring is a bounded FIFO channel: nothing lost, doubled or reordered, the depth never underflows | 4,441 |
| `lockless_buffer` | `WriteAlwaysPublishes`, `HeldIsStable`, `UndisturbedReadIsFresh` | a write is never dropped, data held by the reader does not change, a read that nothing disturbs is the latest | 2,160 |
| `message_queue` | `EachBufferInOnePlace`, `EachMessageOnceInOrder`, `WaiterCanBeWoken`, `EveryMessageProcessed`, `SceneUpdateReported` | both channels of the queue, the wait of a full overflow queue and its timeout, destruction: buffers and messages are conserved, in order unless the ring is refilled between two drains, and processed and reported in the end | 261,053 |
| `notifications` | `EachBatchInOnePlace`, `EachNotificationOnceInOrder`, `PendingIsAnnounced`, `EveryNotificationDelivered` | the same from the update thread to the event thread, with the roll back of a full ring, and nothing in the ring is left unannounced | 419,974 |
| `signal` | `PoolIsConsistent`, `TrackersAgree`, `KeepsPromise` | connecting, disconnecting, emitting and destroying from inside slots: every emission calls what it promises to call | 81,004 |
| `core_events` | `LoopRunsItsProcessors`, `FlagsMatchCalls`, `UnflushedIsAnnounced` | processors that change the lists while they are run, nested relayouts: each processor runs if it should and none that is not registered, and messages do not stay unflushed | 3,652,192 |
| `animation` | `LifetimesAgree`, `HalvesAgree`, `ClearedIsSilent`, `PlayEnds` | both halves of two animations, driven from outside and from Finished callbacks; a play that goes on in both halves ends, unless the notified count is ahead of the played count | 545,654 |
| `update_manager` | `ScreenIsRight`, `RestIsClean`, `NothingUsedIsFreed`, `ComesToRest` | frames with messages arriving in their middle: what is drawn is what the properties hold, the loop stops, leaves no animated value and nothing discarded behind, and frees nothing that is in use | 334,151 |
| `render_tasks` | `FinishedOncePerRequest`, `NotBeforeTheGpu`, `CompletionIsAnnounced`, `ResultIsCurrent`, `EveryRequestFinishes` | requests, frames, notifications and the GPU in any order: at most one Finished for each request, not while the GPU draws it, no completion forgotten, no pixels of an earlier request, and a request that may finish does so by the frames it asks for | 459,190 |
| `frame_callbacks` | `RemovedIsNotCalled`, `LinkIsExact`, `SyncPointsInOrder`, `InvalidIsFreed` | adding, removing, notifying and dropping the root against calling and destroying: no removed interface is called, no link of a newer callback is cut, no sync point lost, no dead callback left | 384,251 |
| `actor_tree` | `ChildrenAgree`, `NodesFollowActors`, `SignalledWhenSettled` | calls nested in the callbacks of each other: the tree is consistent, nodes and on-scene states follow it, and the flag that decides whether an actor's next scene signal is emitted is right again once the notifications are over (which signals were received is not part of it) | 3,643,277 |
| `actor_tree_removeall` | `DisconnectNodeAssertion` (violated) | see below | |

The modules of the runs state the types of their variables in a `TypeOK` (`FrameTypeOK` in
`UpdateManager`; `LocklessPointerRing`, whose indices wrap, in the `Types` of its proofs). It is
proved for `MessageQueue` and `ActorTree` (`TreeTypeOK`) and is part of the proved invariants of
`LocklessBuffer` and `CoreEvents`. The others document the state: TLC finds them true in the instances above, and they can be added to the runs. `Types` in a
proof module is the part the proof needs.

### Bounds, and why they are enough

* `ring`: two slots and an index type of 8 values: the indices wrap, every
  combination of full, empty and wrapped is reached, and each side holds stale
  copies of every age. Three pointers tell any two slots' contents from a third.
* `lockless_buffer`: two bytes show a torn write, four writes take each of
  the two buffers through written, read, written again.
* `message_queue`: one slot in the ring and two in the overflow queue, one free
  buffer: with three buffers all capacities are hit at once (ring full,
  overflow full, recycling into a full free list), three messages give one for
  each channel and one more that may overtake.
* `notifications`: a ring of two slots, one free batch, four batches (the heap can
  always supply one), four notifications: the ring fills, the batch is rolled back,
  and merged with what the next frame queues.
* `signal`: two signals, one with three nodes (pool growth from one, and a cache
  threshold of two), the other one with one node; one tracked slot and two plain
  ones. Two signals are enough for nested emissions; the same signal cannot nest.
  The system may stop: no emission need ever be made (`CHECK_DEADLOCK FALSE`).
* `core_events`: two processors and two list entries in all: one can be registered
  twice, in two lists, or unregister the other. Nesting is bounded by the code
  itself (at most one relayout inside another, one `ProcessEvents`).
* `animation`: three calls on one animation and one on a second one, which can
  finish in the same frame and clear the first in its callback; or five calls on one
  animation alone (each behaviour starts with one of these `Budgets`). Three calls give every
  pair of calls after a `Play`; the state machines have no memory beyond state and
  counters. The notified count is ahead of the played count of an animation that plays in both
  halves only after four calls (see the observations): with five, the condition of `PlayEnds` matters, and a
  call can follow.
* `update_manager`: one node, an animation that discards what it did and ends after
  its animator, one that bakes, and four messages. The shortest violations of the
  mutants of `RestIsClean` and `NothingUsedIsFreed` take all four (for the first:
  create, play, pause, clear), and the decisions of a frame look back one frame only.
  A value is an exact sum of what was set, baked and added, so any contribution
  taken back too late, too early or twice shows. The system may stop:
  that it does is a property (`CHECK_DEADLOCK FALSE`).

* `render_tasks`: an off-screen task that exists and is driven by three calls, and an
  on-screen one that may be created late and finishes in the same frames. Three calls
  give a request that meets the completion of an earlier one with a change of
  sync, scene or rate in between; a tracker and a kept result remember one earlier
  pass only. The system may stop (`CHECK_DEADLOCK FALSE`).
* `frame_callbacks`: two interfaces, one root, three callbacks in memory, four calls:
  add, remove, add again while the first callback is still there, and one more; or
  an interface that takes the root, or a position in the list, of another one. The
  system may stop.
* `actor_tree`: three actors, as a branch on the scene (so that `RemoveAll` has a second
  child) or as a chain off it (so that a walk has a third level), and four calls, each
  of which may be made in a callback of another one. The system may stop.

### Fairness

* `message_queue`: the event loop serves a requested idle callback, the render
  controller a requested update (both are the contract of `RenderController`),
  a thread inside a call goes on, and a timed wait ends. No thread is assumed to
  start anything by itself.
* `notifications`: as above; the liveness property needs an application that
  keeps rendering (`RenderingSpec`), see the observations.
* `animation`: weak fairness of each thread (an application that renders), and
  strong fairness of the completion of an animation that is played frame after
  frame: durations and loop counts are finite in `PlayEnds`. An animation that
  loops for ever is outside that property.
* `update_manager`: `FlushQueue` is followed by `RequestUpdate`, a frame that was
  asked for (by that, or by the status `Update` returned) is run to its end, and a
  playing animation ends some time, as above. No frame comes by itself, and the
  application need not do anything.

* `render_tasks`: both threads run on, an Update that was asked for is run, the GPU
  finishes what it was given. No other frame is taken for granted, so that
  `EveryRequestFinishes` shows that a task asks for the frames it needs.
* `frame_callbacks`: the update thread runs on and is given the messages sent to it, an
  interface's `Update` returns, and the event thread gets the mutex in the end (strong
  fairness: it is free again and again, between two calls).

### What the violation shows

`actor_tree_removeall`: `RemoveAll` empties `mChildren` before it detaches the children one
by one, so that a callback "cannot disturb the sequence we iterate"
(`actor-parent-impl.cpp:208`). If a callback of the first child takes the owner off the
scene, the walk of that disconnection does not reach the pending children: they stay
on-scene for the event thread, while their nodes leave with the owner's node. Detaching
them then sends `DisconnectNode` for a node without a parent, and
`DALI_ASSERT_ALWAYS(nullptr != parent)` (`update-manager.cpp:565`) fails on the update
thread. The passing run states `NodesFollowActors` of every behaviour in which no
`RemoveAll` is cut short like that.

### Observations without a run

Met while modelling, written into the model as the code has them, and left out of a
property or named in its comment where they would contradict it.

Message queue and notifications:

* The comment in `FlushQueue` says the overflow test "preserves global FIFO order
  across both channels" (`update-message-queue.cpp:320`). It does when nothing is
  pushed between the two drains of a `ProcessMessages` (`InOrderUnlessRefilled`).
  Otherwise: buffer 2 enters the ring after the drain, buffer 3 finds the ring full and
  overflows before the overflow queue is swapped; 3 is processed in this frame,
  2 in the next one.
* When the ring of notifications is full, `UpdateCompleted` keeps the batch to "retry
  next frame" (`notification-manager.cpp:256`), and asks nobody for a next frame:
  `MessagesToProcess` looks at the ring only. With rendering on demand the batch
  waits for a frame that comes for another reason.

Animations and event loop:

* Play, Stop, Play, release the handle before the completion of the first play is
  notified: the playlist drops its reference at that notification although the animation
  is playing again, and destroys it (`animation-playlist.cpp:186`; `animation.h:72`
  says that a playing animation need not be held).
* A completion of a play that was cleared is signalled when it arrives after the event
  loop in which `Clear` was called, and after a new `Play` (`animation-impl.cpp:1036`):
  ignored ids are kept for one event loop, and the played count that `HasFinished` reads
  has not been reset yet. `ClearedIsSilent` speaks of animations whose last call was
  `Clear`.
* The same stale completion can cost a later play its own. `Clear` resets the notified count at
  once (`animation-impl.cpp:647`) and the played count when the update thread handles the
  message (`scene-graph-animation.cpp:350`). `Play`; it completes; `Clear` and `Play`, and the event
  loop ends; the completion of the first play is notified while the messages are still on their way: Finished,
  STOPPED, and the notified count becomes 1 (`animation-impl.cpp:1076`); `Play` again. Now the
  update thread handles `Clear` (played count 0) and both `Play`, and the animation
  completes with a played count of 1: `HasFinished` finds that 1 > 1 is false
  (`animation-impl.cpp:1040`). The animation stays PLAYING for ever, gets no Finished signal
  ("to be notified when an Animation's animations have finished", `animation.h:545`),
  and the playlist keeps its reference. `PlayEnds` therefore asks that the notified count is
  not ahead of the played one; TLC finds this trace when that condition is dropped.
* `Pause` that races a completion: Finished is ignored and the animation stays
  PAUSED although the scene animation has stopped.
* `Play` on top of a completion not yet notified is answered by that
  completion: STOPPED is shown while the scene animation plays. `HalvesAgree`
  therefore leaves that pair of states out.
* `Pause` of a stopped animation, then `Stop` and `Play`: the scene half never
  counts the Stop; `PlayEnds` speaks of animations that play on both sides.
* A relayout requested by a post processor after the relayout of the same event
  processing has its message flushed, but no idle callback is asked for (see the
  hazards).

The frame:

* While animations run but none is active, a frame is drawn only "if the nodes are
  dirty" (`update-manager.cpp:1416`), and the flags tested (`RenderableUpdateFlags`, `node.h:67`)
  leave colour out. An animator shorter than its animation gives the colour its last value
  in a frame that does not count it as active; that frame is not drawn. `ScreenIsRight`
  speaks of frames that are drawn and of the loop at rest.
* `MessageBuffer::ReserveMessageSlot` grows by a half once, so that a message larger
  than half the block may not fit; the debug assertion catches the case, a release
  build does not.
* A paused animation that is stopped, destroyed or loses its node in a frame whose
  first decision found nothing to do (the loop was at rest and the message came
  between `update-manager.cpp:1265` and `:1288`) bakes its final value on top of the
  animated value, which `ResetProperties` has not taken back: an `AnimateBy` is
  added twice. `RestIsClean` compares with the base and does not see it.
* An animator that bakes makes the value it finds the base, what other
  animations add at that moment included.
* The discard queue of uniform blocks is filled but not cleared by `Update`, as the
  other ones are, although the comment there says "Clear nodes/resources which were
  previously discarded".
* `GetMaximumUpdateCount` returns 2, which by `integration-api/core.h:321` lets
  `Update` for frame N+1 run while frame N is drawn. But `Update` starts by deleting
  what frame N discarded. The model draws a frame before the next one begins.
* Custom properties do not send `RequestRendering`: with delayed animations only, a
  change is not drawn until one of them is active.
* The comment of `AnimatorBase::SetActive` says the active state is set to false when
  the property owner is disconnected; only `mEnabled` is.


Render tasks:

* A task that is refreshed once with a sync object, then again after
  `SetSyncRequired(false)`, keeps the tracker of the first request, which nothing sets any
  more: it never finishes, and keeps asking for frames. `render-task.h:79` says the
  signal is emitted when the task has finished. `EveryRequestFinishes` names the case.
* A request is taken to be rendered in the frame after it was processed or could have
  been: Finished can be signalled without anything drawn, when the frame did not process
  the tasks or the task had nothing to draw.
* `SetRefreshRate(REFRESH_ALWAYS)` while a request is outstanding leaves `mWaitingToRender` set,
  and the update thread goes on asking for frames.
* Two completions of one task may be notified by one Finished signal; a task removed in
  the callback of another one that finished with it still emits.

Frame callbacks:

* `core.h:495` calls removing a callback that "has already been removed" a "no-op", but `RemoveFrameCallback`
  reads the link of an interface without a lock, while the update thread may be
  destroying what it points to (its root was destroyed).
* An interface that is added again right after its root was dropped meets
  `DALI_ASSERT_ALWAYS` until the update thread has cut the old link.

Actors:

* An actor that is added again in its own SceneDisconnected callback ends with `mScene`
  unset although it is on the scene: the outer `SetParent(nullptr)` clears it after the
  callbacks. It is told Disconnected twice with no Connected between. `SignalledWhenSettled`
  holds all the same: its flag is that of an actor on the scene.
* `SwitchParent` in a SceneConnected callback loses the signal of the actors not told
  yet; `Add` of a child that a `RemoveAll` has taken out is lost when it is detached.
* `Remove` of an actor that is not a child emits ChildRemoved (`actor.h:976` says it does
  nothing), and `Unparent` of a pending child of a `RemoveAll` emits it twice.

## The proofs

No theorem bounds its constants: each holds for every capacity, number of objects
and of calls (the bounds `Max...` are constants too). Each module states an inductive
invariant `IInv`, one lemma for each action or group of like actions that preserves it, and
the theorem that follows. What they assume is the ASSUME of the module;
only the theorems about signals have a hypothesis besides, named with them.

`Primitives_proofs`, the ring. An index is a number modulo `IndexModulus`, of which only
`Capacity < IndexModulus` is assumed. `IndexFacts` and `DistanceFacts` reduce that arithmetic
to sums once; the invariant then says that the read index is at most a ring behind the
write index, that each thread's copy of the other one's index is between the two, and
what the thread in the middle of a `Push` or a `Drain` still has to do. The refinement: only
the two index stores, and the load that claims, are steps of `SpscChannel`; every other
access leaves the abstract sequence alone.

The same module, the buffer (its behaviour is `BufferSpec` with `BufferInit`, `BufferNext`, so that
one module can extend both). `BufferInv` says, beside types: the writer's copy of the state
is the state while it copies (`WriteAlwaysPublishes`), the
buffer held by the reader is the one not being written, a reader that saw
UPDATED swaps only if the state is still what it saw, and the contents of the
buffers are ordered (held is not newer than the other one unless the other one is
being filled). From it follow the properties of the run, `ReaderNeverMeetsWriter`, that the
two never touch the same buffer, and `ReadsAreMonotonic`, that reads do not go back, for every
buffer size and every number of writes.

The same module, signals (`BaseSignal`; its behaviour is `SignalSpec`). `PoolIsConsistent` says that some
strict order of the places in use is the one that the links follow in both directions; the proof works with
that order: `Linked` gives the links as its neighbours, so that appending a place, taking one out and going to
the next are each one fact about an order, and no walk along links needs induction. `Settled` is this with the
counters and the cache. The loop of `CleanupConnections` keeps `Stands`: the emptied places it has still to find
are ahead of where it stands, and there are turns enough for the rest of the list. `Knows` ties the list of a
tracker to what the signals know, through the loop of `DisconnectAll` (`DisconnectAllOf`) too.
`Nested` is about the emissions under way: a signal has one emission that is not told to stop, and
while there is one, nothing of its list is freed, so that it never stands on a place that
the pool may hand out again (`EmissionsStayInListHolds`). The hypothesis is `PlacesFit`: the number of a place
fits its 16 bits, which `NodeToIndex` does not check (see the hazards).

That a signal implements `SignalPromise` (`KeepsPromiseHolds`, same hypothesis) rests on what `CalledFrom`, the
slots called from one place up to another, does when the list changes. `CallsSteps` unrolls it by one place
(`AlongTheList` is the induction along the order of the list); then: appending a place
behind the tail adds its slot to what is connected and to no emission, even when the list was
empty (`Gains`); emptying a node, in an emission, takes its slot out of
everything still to be called, and unlinking it, outside one, out of what is connected (`Loses`, also for the
loop of `DisconnectAll`); cleaning up changes nothing; what is to be called from the head to the tail is what is
connected (`BeginFacts`). For the first two an emission must still have its end ahead of it: otherwise it would run
into places appended since. That is `Reaches`, a part of `Nested`; it survives every change because an
emission in progress keeps the places of its list and their order (`Grows`). In the refinement
`SkipNode` is invisible, the destruction of a signal disconnects all its slots, and `FinishEmit` and
`AbandonEmit` both end an emission that has nothing left to call.

`MessageQueue_proofs`. The goal is the ownership of message buffers, for every
capacity of the ring, the overflow queue and the free list, any number of
buffers and messages. `EachBufferInOnePlace` is not inductive: the hands of
the threads (`flushing`, `drained`, `done`) hold a buffer only at certain
places of the program, which `Control` states; `Apart` and `Unrepeated` say that
the places are disjoint, in a form with one clause for each place so that a step
disturbs few of them; `Accounted` says that the heap is what the places hold,
while the queue is alive. The lemmas of `Queues_proofs` about `Append`, `Tail` and splitting a
sequence carry the queues, here and in the next two modules. That destruction frees everything is part of
`EachBufferInOnePlace`. On top of it: `overflowActive` says exactly whether the
overflow queue holds a buffer, and a waiting producer has a promise that will be set. The proofs
assume `QueueAssumption` (positive capacities, `None` is not a buffer).

`EachMessageOnceInOrder` is a second invariant, `Histories`, over the same ownership. `Recorded`
says that the messages reserved so far are those in the buffers and those processed, that no
message is in two of these, and that each buffer is ascending; that the count of copies
is one follows (`RecordedMeansOnce`). For the order, `Ahead(b, c)` says that buffer b is
further along than c on the line from the event thread's hand over the overflow queue and the
ring to the update thread's, and `Lined` that b's messages then are older; like the property it is
conditional on the ring not having been refilled between the two drains. `Gate` says why the line
stays a line: which part of it is empty when a buffer moves. All steps but reserving and
processing leave the contents alone (`Moving`), so that only `Ahead` has to be followed
through them.

`NotificationManager_proofs`. The same argument for the batches of notifications, and
`PendingIsAnnounced`: the invariant of the places also bounds what the event thread has
claimed of the ring, which is what `MessagesToProcess` compares with on the other thread.
`EachNotificationOnceInOrder` is proved as for messages, over the working containers, the
batches and what was delivered; what is new is the roll back of a batch into the working containers,
which `Hands` shows to be empty at that moment, so that the order is kept.

`Animation_proofs`. `LifetimesAgree` and `ClearedIsSilent`. An event object is alive while
`Referenced` names somebody who keeps it (the application, the playlist, the list of those
that have just finished), and the message that destroys the scene object is the last one to
it (`RemoveIsLast`), so that no message finds it destroyed. `ClearedIsIgnored` says that an
animation cleared in a callback is ignored by the loop under way.
`HalvesAgree` speaks of moments at which nothing is under way, and follows from what holds at all
moments (`Foretold`): what an animation is shown as is among what the last call still on its way to
its scene half left it in or, with none on its way, among what fits the state of the
scene half.

`UpdateThread_proofs`, the frame callbacks (`FrameCallback`). `LinkIsExact` and `RemovedIsNotCalled`:
an invalidation is described once (`Invalidates`), whoever makes it; the steps that touch no link
are one lemma. What the event thread read of a link before it waits for the mutex may be outdated by
a cut only (`ReadLinkIsGood`), and what is being called stays valid until the call returns
(`CalledIsValid`), since to invalidate it takes the mutex.

`SyncPointsInOrderHolds` needs more, `OrderInv`: a sync point is found by the position of its
message among all that are coming, and given by the processor to the first callback of its list
that has the interface. That this is the linked one is `ListInv`: a callback that is in
memory is in the list or the message that adds it is on its way, once (`HeapIsListed`, `AddedOnce`),
and whatever else of the same interface is in the list or coming has a removal ahead of
the addition of its successor (`HeldIsRemoved`, `AddedIsRemoved`, `InvalidIsRemoved`). Then
`NumbersAscend` says that the numbers grow along what was popped, what is held and what is
coming, and `NumbersArrive` that each number that was notified is held or comes behind the
addition of its callback.

`RenderTask_proofs`. `FinishedOncePerRequest`. The counters do not suffice: a request is
counted at most once because every request in the message queue is newer than that of
the task and they arrive in the order in which they were made (`Lined`), and because a
task is added once, before anything else is known of it. Three more invariants stand on this one:
`Announcing` (nothing waits in `notifyRequired` when `Update` looks for finished tasks, so
that no notification is overwritten), `Tracking` (the tracker of a pass that is still to be recorded in this
frame is there already, so that a request with one is finished by the trigger alone, which is
down while a pass is drawn) and `Resulting` (the message of a request directly follows, in the same
buffer, the one that clears the kept result) give `CompletionIsAnnounced`,
`NotBeforeTheGpu` and `ResultIsCurrent`.

`EventThread_proofs`, the event loop (`CoreEvents`). How deep calls can be nested is a result, `Nested`: nothing is started
within a relayout that is past its notifications, so there are at most two calls, and
the inner one is such a relayout; all flags of the code are functions of these two
(`FlagsMatchCalls`). `WillFlush` says that a message for which nobody was asked has a
`FlushQueue` ahead of it on the stack. For the processor loops, `Looping` says what the
loop may believe of the list it runs a copy of (`Knows`): until somebody has unregistered,
all it found is still registered, and afterwards all but what was unregistered since. The theorem
`LoopRunsItsProcessorsHolds` compares, at the end of a loop, the places of the
copy that were run with the list as it is, for any number of processors and any depth
of changes made from within them.

The same module, the actor tree (`ActorTree`; its behaviour is `TreeSpec`). `TreeInv` describes every
call on the stack by what its walk has still to do, so that the three properties, which hold between
any two steps, survive whatever a callback begins: `Listing` says which children a `Remove` or
`RemoveAll` has taken out and not yet detached, that no two calls have the same one (`Apart`) and that it
still has the owner as its parent (`Owned`); `Told` that an actor whose signalled
flag is not its on-scene state is in a list that a call under way goes through; `Following` that on-scene states and nodes are
those of the tree. `Ranked`, that the parents form a forest of bounded depth, is what makes the walks
(`PreOrder` and `PostOrder`, recursive functions over the tree) computable: `WalksExist` and
`WalkFacts` show by the depth that they visit exactly the actors below, each once, a
parent before or after its children. The hard steps are attaching and cutting a subtree whose actors
other calls on the stack may be about to tell.

`UpdateThread_proofs`, the frame loop (`UpdateManager`; its behaviour is `FrameSpec` with `FrameInit` and
`FrameNext`, so that one module can extend both). `FrameInv` has four parts that matter.
`LastWords`: the message that destroys a node is the last one about it, in the queue and
in the messages of the frame, and nothing is said of a node that has gone. `Kept`: an animator that
is live has a node that has not gone, and only nodes that have gone are discarded or freed. With
`Drawn` (between frames the render instructions are the nodes on the scene, or none if the scene is
skipped) this is `NothingUsedIsFreedHolds`. `Values` is what the dirty flags promise: a property that
was not merely set is at its base value; one that is clean has the value last inherited; and
while no frame has work under way, all have. A reset breaks the second for a moment, but only in
a frame that does the work of the scene, which is why `ScreenIsRightHolds` needs the decision of the
frame before (`previousUpdateScene`). Handlers and animations are shown to leave a `Sound` scene;
for all turns of `Animate` together (`AnimatedSound`) by looking at the first turn that would
not. `NothingDiscardedAtRestHolds` is the part of `RestIsClean` about deletion.

`RestIsCleanHolds` is the rest of it: when the loop stops, a property has its base value and what
the animators paused on it add. `RestInv` says why. The resetter of a live animator is in the
container and at work as long as the animator is enabled (`Attended`), so whatever is not at its base is
the target of a resetter that will take it back (`TakenBack`). A frame that does the work of
the scene therefore starts at the base values, except one that decided to leave the scene alone and is
woken by messages flushed after that decision: then `RequestUpdate` has been called or is about to
be, and another frame follows (`Asking`, `StartsAtBase`). Of a frame in which nothing plays
`AnimatedTurned` shows, turn by turn of `Animate`, that it leaves the base and the steps of the paused
animations that have had their turn; an animation counts once because the message that adds it is
sent once (`JoinsOnce`). And a frame in which something plays asks for another, whether it goes on
or finishes (`RestsOrGoesOn`). TLC has checked `RestInv` on the instance of `update_manager`.

`Queues_proofs`. Facts about the queues that several of these modules use: which elements
`Append`, `Tail`, concatenation and the two halves of a cut have, what keeps a queue
ascending and which element follows which. `LeastExists`, that a non-empty set of numbers has
a least element, takes the place of induction over numbers: inclusion of finite sets is
well founded, and the library states that without an operator as a parameter.

### Only model-checked

* Everything about liveness (fairness and ENABLED are out of TLAPS' reach): `EveryMessageProcessed`,
  `SceneUpdateReported`, `EveryNotificationDelivered`, `PlayEnds`, `ComesToRest`, `EveryRequestFinishes` and
  `InvalidIsFreed`.

So every invariant, action property and refinement that the passing runs check has a theorem.

What a recursive function computes can be proved where "the first place at which it goes
wrong" can be named, as in `AnimatedSound`, or where the inputs can be reached from one another and
collected in a set, as in `QueueByQueue` (queues) and `AlongTheList` (the places of a list). The induction
theorems of the library take an operator as a parameter, which the provers do not instantiate.

## Not modelled, and why

Geometry, interpolation, transforms, sorting and drawing are numerical or pure data
flow; tables filled at start-up, value types, containers and the public API have
unit tests and no ordering; the graphics and platform interfaces are implemented
elsewhere. Pools of fixed-size blocks repeat what the signal pool shows. The rest
is planned.

## Plan

Done, in this order: ring, lockless buffer, both queues, signals, event loop,
animations, the frame loop, render tasks, frame callbacks, the actor tree; proofs of the
ring and its refinement, the lockless buffer, both queues, animations, frame callbacks,
render tasks, the event loop, the frame loop, the actor tree, signals and their refinement.

What could follow, in this order:

1. `TapGesture` and the gesture processors: recognizers as state machines over
   touch points with 32-bit times.
2. `PropertyNotification`: notify modes against delayed messages.
3. `MessageBuffer`: growth and iteration over a memory of words.
4. Touch processing: consumption and interception when actors leave the scene between
   two events.

