------------------------------ MODULE RenderTask ------------------------------
(***************************************************************************)
(* A render task that is refreshed once, from SetRefreshRate(REFRESH_ONCE) *)
(* on the event thread to the Finished signal:                             *)
(*   event thread    Internal::RenderTask and RenderTaskList: the calls,   *)
(*                   sent as messages, and NotifyCompleted                 *)
(*   update thread   SceneGraph::RenderTask and the part of                *)
(*                   UpdateManager::Update that processes the tasks        *)
(*   render          RenderScene and PostRender: a RenderTracker with a    *)
(*                   GPU sync object, and the kept render result           *)
(*                                                                         *)
(* Messages and notifications travel in order, as MessageQueue and         *)
(* NotificationManager promise.  Update, RenderScene and PostRender run in *)
(* turn on one thread.  What a task draws, viewports, cameras and the rate *)
(* of a task that is refreshed every N frames are abstracted.              *)
(***************************************************************************)
EXTENDS Naturals, FiniteSets, Sequences

CONSTANTS
  Tasks,         \* the render tasks of the application, all of one list
  Offscreen,     \* those that have a frame buffer
  Existing,      \* those that exist when a behaviour starts
  MaxCalls       \* bound: API calls of a behaviour

ASSUME TaskAssumption == /\ IsFiniteSet(Tasks) /\ Offscreen \subseteq Tasks /\ Existing \subseteq Tasks
                         /\ MaxCalls \in Nat

VARIABLES
  life,                \* "listed": in mTasks and mNotifierMap of the event thread
  onScene,             \* the tasks whose source and camera actors are on the scene
  rate,                \* mRefreshRate (event thread)
  requiresSync,        \* mRequiresSync (event thread)
  keepResult,          \* mIsRequestedToKeepRenderResult
  refreshOnceCounter,  \* mRefreshOnceCounter
  eventPc, finished,   \* where the event thread is, finishedRenderTasks to emit
  queue,               \* messages to the update thread
  completions,         \* ParameterLists for the event thread, one for each frame
  updatePc, buffer,    \* where the update and render thread is, its messages
  notifyRequired,      \* notifyRequiredRenderTasks
  task,                \* SceneGraph::RenderTask, for each task
  instructions,        \* the tasks that have an instruction in this frame
  tracker,             \* mRenderSyncTracker, for each task
  frameBuffer,         \* what Render::FrameBuffer keeps of the result, for each task
  updateRequested,     \* the adaptor runs another Update
  calls,               \* history: API calls made
  asked,               \* history: REFRESH_ONCE requests, for each task
  drawn                \* history: the last request whose pass was recorded

apiVars     == <<life, onScene, rate, requiresSync, keepResult>>
notifyVars  == <<refreshOnceCounter, eventPc, finished>>
frameVars   == <<updatePc, buffer, notifyRequired, instructions>>
renderVars  == <<tracker, frameBuffer>>
historyVars == <<calls, asked, drawn>>
vars == <<apiVars, notifyVars, queue, completions, frameVars, task, renderVars,
          updateRequested, historyVars>>

Rates  == {"ONCE", "ALWAYS"}
States == {"CONTINUOUSLY", "WAITING_FOR_RESOURCES", "RENDERED_ONCE", "ONCE_AND_NOTIFIED"}
Task == [exists : BOOLEAN, state : States, request : Nat, requiresSync : BOOLEAN,
         active : BOOLEAN, waiting : BOOLEAN, notify : BOOLEAN, counter : Nat]
Messages == [op : {"Add", "Connect", "Refresh", "Sync", "Keep", "Clear", "Remove"},
             to : Tasks, value : Nat]
UpdatePCs == {"idle", "messages", "tasks", "complete", "render", "post"}
Tracker == [exists : BOOLEAN, object : {"none", "inflight", "synced"}, trigger : BOOLEAN]
FrameBuffer == [keeping : BOOLEAN, buffer : BOOLEAN, pixels : Nat]

NewTask == [exists |-> TRUE, state |-> "CONTINUOUSLY", request |-> 0, requiresSync |-> FALSE,
            active |-> FALSE, waiting |-> FALSE, notify |-> FALSE, counter |-> 0]
NoTask == [NewTask EXCEPT !.exists = FALSE]
NoTracker == [exists |-> FALSE, object |-> "none", trigger |-> FALSE]
NoResult == [keeping |-> FALSE, buffer |-> FALSE, pixels |-> 0]

TypeOK ==
  /\ \A s \in {onScene, keepResult, requiresSync, finished, notifyRequired, instructions} :
       s \subseteq Tasks
  /\ life \in [Tasks -> {"new", "listed", "removed"}]
  /\ rate \in [Tasks -> Rates]
  /\ refreshOnceCounter \in [Tasks -> Nat]
  /\ eventPc \in {"idle", "emit", "callback"}
  /\ \A s \in {queue, buffer} : s \in Seq(Messages)
  /\ completions \in Seq(SUBSET Tasks)
  /\ updatePc \in UpdatePCs
  /\ task \in [Tasks -> Task] /\ tracker \in [Tasks -> Tracker]
  /\ frameBuffer \in [Tasks -> FrameBuffer]
  /\ updateRequested \in BOOLEAN
  /\ calls \in 0 .. MaxCalls
  /\ asked \in [Tasks -> Nat] /\ drawn \in [Tasks -> Nat]

ExistingTask(t) ==
  [NewTask EXCEPT !.active = TRUE, !.requiresSync = (t \in requiresSync)]

Init ==
  /\ life = [t \in Tasks |-> IF t \in Existing THEN "listed" ELSE "new"]
  /\ onScene = Existing /\ rate = [t \in Tasks |-> "ALWAYS"]
  /\ requiresSync = Existing \cap Offscreen /\ keepResult = {}
  /\ refreshOnceCounter = [t \in Tasks |-> 0]
  /\ eventPc = "idle" /\ finished = {}
  /\ queue = << >> /\ completions = << >>
  /\ updatePc = "idle" /\ buffer = << >> /\ notifyRequired = {} /\ instructions = {}
  /\ task = [t \in Tasks |-> IF t \in Existing THEN ExistingTask(t) ELSE NoTask]
  /\ tracker = [t \in Tasks |-> NoTracker]
  /\ frameBuffer = [t \in Tasks |-> NoResult]
  /\ updateRequested = FALSE
  /\ calls = 0
  /\ asked = [t \in Tasks |-> 0] /\ drawn = [t \in Tasks |-> 0]

Number(b) == IF b THEN 1 ELSE 0
Message(op, t, value) == [op |-> op, to |-> t, value |-> value]
SendAll(messages) == queue' = queue \o messages /\ updateRequested' = TRUE
Send(op, t, value) == SendAll(<< Message(op, t, value) >>)

(***************************************************************************)
(* The application, on the event thread: at any time outside of            *)
(* NotifyCompleted, or in a Finished callback.                             *)
(***************************************************************************)
Call(t) ==
  /\ eventPc \in {"idle", "callback"}
  /\ life[t] = "listed"
  /\ calls < MaxCalls /\ calls' = calls + 1
  /\ UNCHANGED <<notifyVars, completions, frameVars, task, renderVars, drawn>>

\* RenderTaskList::CreateTask, with a source and a camera that are on the
\* scene, or not yet.
CreateTask(t, on) ==
  /\ eventPc \in {"idle", "callback"}
  /\ life[t] = "new" /\ life' = [life EXCEPT ![t] = "listed"]
  /\ onScene' = IF on THEN onScene \cup {t} ELSE onScene
  /\ Send("Add", t, Number(on))
  /\ UNCHANGED <<rate, requiresSync, keepResult, notifyVars, completions, frameVars,
                 task, renderVars, historyVars>>

\* The source or the camera actor is added to or removed from the scene.
Connect(t, on) ==
  /\ Call(t)
  /\ on # (t \in onScene)
  /\ onScene' = IF on THEN onScene \cup {t} ELSE onScene \ {t}
  /\ Send("Connect", t, Number(on))
  /\ UNCHANGED <<life, rate, requiresSync, keepResult, asked>>

\* ClearRenderResult is part of a new request.  Mutant: it is not.
RequestKeeping(t, n) == << Message("Refresh", t, n) >>
Request(t, n) == << Message("Clear", t, 0), Message("Refresh", t, n) >>

\* SetRefreshRate(REFRESH_ONCE): always sent, also when the rate is the same,
\* as RecoverFromContextLoss does for the tasks of that rate.
RefreshOnce(t) ==
  /\ Call(t)
  /\ rate' = [rate EXCEPT ![t] = "ONCE"]
  /\ keepResult' = keepResult \ {t}
  /\ asked' = [asked EXCEPT ![t] = @ + 1]
  /\ SendAll(Request(t, asked'[t]))
  /\ UNCHANGED <<life, onScene, requiresSync>>

RefreshAlways(t) ==
  /\ Call(t)
  /\ rate[t] = "ONCE" /\ rate' = [rate EXCEPT ![t] = "ALWAYS"]
  /\ Send("Refresh", t, 0)
  /\ UNCHANGED <<life, onScene, requiresSync, keepResult, asked>>

SetSyncRequired(t, sync) ==
  /\ Call(t)
  /\ sync # (t \in requiresSync)
  /\ requiresSync' = IF sync THEN requiresSync \cup {t} ELSE requiresSync \ {t}
  /\ Send("Sync", t, Number(sync))
  /\ UNCHANGED <<life, onScene, rate, keepResult, asked>>

KeepRenderResult(t) ==
  /\ Call(t)
  /\ rate[t] = "ONCE" /\ t \in Offscreen \ keepResult
  /\ keepResult' = keepResult \cup {t}
  /\ Send("Keep", t, 0)
  /\ UNCHANGED <<life, onScene, rate, requiresSync, asked>>

ClearRenderResult(t) ==
  /\ Call(t)
  /\ t \in Offscreen
  /\ keepResult' = keepResult \ {t}
  /\ Send("Clear", t, 0)
  /\ UNCHANGED <<life, onScene, rate, requiresSync, asked>>

RemoveTask(t) ==
  /\ Call(t)
  /\ life' = [life EXCEPT ![t] = "removed"]
  /\ Send("Remove", t, 0)
  /\ UNCHANGED <<onScene, rate, requiresSync, keepResult, asked>>

(***************************************************************************)
(* Update thread: Update, then RenderScene and PostRender.                 *)
(***************************************************************************)
\* A frame may also be caused by something else than these tasks.
UpdateBegin ==
  /\ updatePc = "idle"
  /\ updatePc' = "messages"
  /\ buffer' = queue /\ queue' = << >>
  /\ updateRequested' = FALSE
  /\ UNCHANGED <<apiVars, notifyVars, completions, notifyRequired, instructions, task, renderVars,
                 historyVars>>

\* SceneGraph::RenderTask::SetRefreshRate; a rate of 0 is REFRESH_ONCE, which
\* carries the number of the request here.
Refreshed(s, n) ==
  IF n = 0 THEN [s EXCEPT !.state = "CONTINUOUSLY"]
  ELSE [s EXCEPT !.state = "WAITING_FOR_RESOURCES", !.waiting = TRUE, !.notify = FALSE,
                 !.request = n]

TaskAfter(s, m) ==
  CASE m.op = "Add"     -> [NewTask EXCEPT !.active = (m.value = 1)]
    [] m.op = "Connect" -> [s EXCEPT !.active = (m.value = 1)]
    [] m.op = "Refresh" -> Refreshed(s, m.value)
    [] m.op = "Sync"    -> [s EXCEPT !.requiresSync = (m.value = 1)]
    [] m.op = "Remove"  -> NoTask
    [] OTHER            -> s

\* FrameBuffer::KeepRenderResult and ClearRenderResult.
ResultAfter(r, m) ==
  CASE m.op = "Keep"  -> [r EXCEPT !.keeping = TRUE]
    [] m.op = "Clear" -> NoResult
    [] OTHER          -> r

ProcessMessage ==
  /\ updatePc = "messages"
  /\ buffer # << >>
  /\ LET m == Head(buffer)
     IN  /\ task' = [task EXCEPT ![m.to] = TaskAfter(@, m)]
         /\ frameBuffer' = [frameBuffer EXCEPT ![m.to] = ResultAfter(@, m)]
         /\ tracker' = IF m.op = "Remove" THEN [tracker EXCEPT ![m.to] = NoTracker] ELSE tracker
  /\ buffer' = Tail(buffer)
  /\ UNCHANGED <<apiVars, notifyVars, queue, completions, updatePc, notifyRequired,
                 instructions, updateRequested, historyVars>>

\* IsRenderRequired of the tasks that are ReadyToRender.
Required == {t \in Tasks : /\ task[t].exists /\ task[t].active
                           /\ task[t].state \in {"CONTINUOUSLY", "WAITING_FOR_RESOURCES"}}
Once(s) == {t \in s : task[t].state = "WAITING_FOR_RESOURCES"}

\* RenderTaskProcessor::Process makes an instruction for every required task,
\* which is kept if there is anything to draw, and drawn if its frame buffer
\* could be created.  It does not run in a frame where animations are all
\* delayed and nothing is dirty; the instructions of the tasks that are
\* refreshed continuously may then be drawn again.
ProcessTasks ==
  /\ updatePc = "messages" /\ buffer = << >>
  /\ \E processed \in BOOLEAN :
       /\ instructions' \in SUBSET (IF processed THEN Required ELSE Required \ Once(Required))
       /\ tracker' = [t \in Tasks |->
                        IF processed /\ t \in Once(Required) /\ task[t].requiresSync
                        THEN [tracker[t] EXCEPT !.exists = TRUE] ELSE tracker[t]]
  /\ updatePc' = "tasks"
  /\ UNCHANGED <<apiVars, notifyVars, queue, completions, buffer, notifyRequired, task,
                 frameBuffer, updateRequested, historyVars>>

\* RenderTracker::IsSynced, which takes the trigger.
IsSynced(t) == tracker[t].trigger
IsAsked(t) == task[t].exists /\ task[t].state = "RENDERED_ONCE" /\ t \in Offscreen
HasFinishedRendering(t) ==
  task[t].state = "RENDERED_ONCE" /\ (t \notin Offscreen \/ ~tracker[t].exists \/ IsSynced(t))

\* UpdateState.  A task that was to be rendered is taken to be rendered.
UpdatedState(t) ==
  CASE task[t].state = "WAITING_FOR_RESOURCES" -> [task[t] EXCEPT !.state = "RENDERED_ONCE"]
    [] task[t].state = "RENDERED_ONCE" ->
         [task[t] EXCEPT !.waiting = ~HasFinishedRendering(t), !.notify = HasFinishedRendering(t)]
    [] OTHER -> task[t]

\* HasRendered.  Mutant: the state stays as it is.
CountedAgain(s) == IF s.notify THEN [s EXCEPT !.counter = @ + 1, !.notify = FALSE] ELSE s
Counted(s) == IF s.notify THEN [s EXCEPT !.counter = @ + 1, !.notify = FALSE,
                                         !.state = "ONCE_AND_NOTIFIED"]
                          ELSE s

\* renderTaskWaiting: another frame is needed for a task that is on the scene.
\* Mutant: only a task that was not processed yet is waited for.
WaitingToBeProcessed == \E t \in Tasks : /\ task[t].exists /\ task[t].active
                                         /\ task[t].state = "WAITING_FOR_RESOURCES"
RenderTaskWaiting == \E t \in Tasks : /\ task[t].exists /\ task[t].active
                                      /\ UpdatedState(t).waiting

\* The tasks whose HasRendered is true.  Mutant: of those that are drawn.
NotifiedIfActive == {t \in Tasks : task[t].exists /\ task[t].active /\ UpdatedState(t).notify}
Notified == {t \in Tasks : task[t].exists /\ UpdatedState(t).notify}

\* The end of UpdateManager::Update.
UpdateTasks ==
  /\ updatePc = "tasks"
  /\ task' = [t \in Tasks |-> IF task[t].exists THEN Counted(UpdatedState(t)) ELSE task[t]]
  /\ tracker' = [t \in Tasks |-> IF IsAsked(t) /\ tracker[t].exists
                                 THEN [tracker[t] EXCEPT !.trigger = FALSE] ELSE tracker[t]]
  /\ notifyRequired' = Notified
  /\ updateRequested' = (updateRequested \/ RenderTaskWaiting)
  /\ updatePc' = "complete"
  /\ UNCHANGED <<apiVars, notifyVars, queue, completions, buffer, instructions,
                 frameBuffer, historyVars>>

\* NotificationManager::UpdateCompleted.
UpdateCompleted ==
  /\ updatePc = "complete"
  /\ completions' = IF notifyRequired = {} THEN completions
                    ELSE Append(completions, notifyRequired)
  /\ notifyRequired' = {}
  /\ updatePc' = "render"
  /\ UNCHANGED <<apiVars, notifyVars, queue, buffer, instructions, task, renderVars,
                 updateRequested, historyVars>>

\* CreateSyncObject, which also takes back the trigger.  Mutant: it does not.
SyncUntouched(r) == [r EXCEPT !.object = "inflight"]
SyncCreated(r) == [r EXCEPT !.object = "inflight", !.trigger = FALSE]

\* RenderScene: the tracker of an instruction is that of a request whose pass
\* is drawn into a frame buffer.  The pass may be read back.
DrawnOnce == {t \in instructions : task[t].state = "RENDERED_ONCE"}
RenderScene ==
  /\ updatePc = "render"
  /\ tracker' = [t \in Tasks |->
                   IF t \in DrawnOnce \cap Offscreen /\ task[t].requiresSync
                   THEN SyncCreated(tracker[t]) ELSE tracker[t]]
  /\ frameBuffer' = [t \in Tasks |->
                       IF t \in instructions \cap Offscreen /\ frameBuffer[t].keeping
                       THEN [frameBuffer[t] EXCEPT !.buffer = TRUE] ELSE frameBuffer[t]]
  /\ drawn' = [t \in Tasks |-> IF t \in DrawnOnce THEN task[t].request ELSE drawn[t]]
  /\ updatePc' = "post"
  /\ UNCHANGED <<apiVars, notifyVars, queue, completions, buffer, notifyRequired,
                 instructions, task, updateRequested, calls, asked>>

\* PostRender: the results that were read back can be handed out, and the
\* sync objects are polled.
PostRender ==
  /\ updatePc = "post"
  /\ frameBuffer' = [t \in Tasks |->
                       IF frameBuffer[t].buffer
                       THEN [keeping |-> FALSE, buffer |-> FALSE, pixels |-> task[t].request]
                       ELSE frameBuffer[t]]
  /\ tracker' = [t \in Tasks |->
                   IF tracker[t].object = "synced"
                   THEN [tracker[t] EXCEPT !.object = "none", !.trigger = TRUE] ELSE tracker[t]]
  /\ instructions' = {}
  /\ updatePc' = "idle"
  /\ UNCHANGED <<apiVars, notifyVars, queue, completions, buffer, notifyRequired, task,
                 updateRequested, historyVars>>

\* The GPU has finished the pass.
Synced(t) ==
  /\ tracker[t].object = "inflight"
  /\ tracker' = [tracker EXCEPT ![t].object = "synced"]
  /\ UNCHANGED <<apiVars, notifyVars, queue, completions, frameVars, task, frameBuffer,
                 updateRequested, historyVars>>

(***************************************************************************)
(* Event thread: NotificationManager::ProcessMessages                      *)
(***************************************************************************)
\* HasFinished reads the counter of the scene object, which the update thread
\* may be counting up.
HasFinished(t) == life[t] = "listed" /\ refreshOnceCounter[t] < task[t].counter

NotifyCompleted ==
  /\ eventPc = "idle"
  /\ completions # << >>
  /\ LET done == {t \in Head(completions) : HasFinished(t)}
     IN  /\ finished' = done
         /\ refreshOnceCounter' = [t \in Tasks |-> IF t \in done THEN task[t].counter
                                                   ELSE refreshOnceCounter[t]]
         /\ eventPc' = IF done = {} THEN "idle" ELSE "emit"
  /\ completions' = Tail(completions)
  /\ UNCHANGED <<apiVars, queue, frameVars, task, renderVars, updateRequested,
                 historyVars>>

EmitSignalFinish(t) ==
  /\ eventPc = "emit"
  /\ t \in finished /\ finished' = finished \ {t}
  /\ keepResult' = keepResult \ {t}
  /\ eventPc' = "callback"
  /\ UNCHANGED <<life, onScene, rate, requiresSync, refreshOnceCounter, queue,
                 completions, frameVars, task, renderVars, updateRequested, historyVars>>

CallbackReturns ==
  /\ eventPc = "callback"
  /\ eventPc' = IF finished = {} THEN "idle" ELSE "emit"
  /\ UNCHANGED <<apiVars, refreshOnceCounter, finished, queue, completions, frameVars,
                 task, renderVars, updateRequested, historyVars>>

UpdateRuns == \/ ProcessMessage \/ ProcessTasks \/ UpdateTasks \/ UpdateCompleted
              \/ RenderScene \/ PostRender
EventRuns == NotifyCompleted \/ CallbackReturns \/ \E t \in Tasks : EmitSignalFinish(t)
Calls(t) == \/ RefreshOnce(t) \/ RefreshAlways(t) \/ KeepRenderResult(t) \/ ClearRenderResult(t)
            \/ RemoveTask(t)
            \/ \E b \in BOOLEAN : CreateTask(t, b) \/ Connect(t, b) \/ SetSyncRequired(t, b)

Next == \/ UpdateBegin \/ UpdateRuns \/ EventRuns
        \/ \E t \in Tasks : Calls(t) \/ Synced(t)

Spec == Init /\ [][Next]_vars

(***************************************************************************)
(* Fairness: both threads run on, ProcessEvents flushes, the GPU finishes  *)
(* what it was given, and an Update that was requested is run.  No frame   *)
(* is taken for granted beyond those that are requested.                   *)
(***************************************************************************)
Fairness == /\ WF_vars(UpdateRuns) /\ WF_vars(EventRuns)
            /\ WF_vars(updateRequested /\ UpdateBegin)
            /\ \A t \in Tasks : WF_vars(Synced(t))
FairSpec == Spec /\ Fairness

(***************************************************************************)
(* Properties                                                              *)
(***************************************************************************)
\* Every Finished signal answers a request of its own: however requests,
\* frames and notifications meet, the update thread counts a request that is
\* still to be drawn or synced only later, and the event thread never signals
\* more than was counted.
FinishedOncePerRequest ==
  \A t \in Tasks :
    /\ task[t].exists =>
         task[t].counter + Number(task[t].state \in {"WAITING_FOR_RESOURCES", "RENDERED_ONCE"})
           <= task[t].request
    /\ life[t] = "listed" /\ task[t].exists => refreshOnceCounter[t] <= task[t].counter

\* A task that requires a sync is not finished while the GPU is drawing its
\* request: the trigger of an earlier pass, polled late or never taken, does
\* not count for this one.
NotBeforeTheGpu ==
  \A t \in Tasks :
    tracker[t].object # "none" => /\ ~tracker[t].trigger
                                  /\ task[t].request = drawn[t] =>
                                       task[t].state # "ONCE_AND_NOTIFIED"

\* What was counted is on its way to the event thread until it is signalled,
\* also when two completions of a task are read as one.
CompletionIsAnnounced ==
  \A t \in Tasks :
    HasFinished(t) =>
      t \in notifyRequired \/ \E i \in DOMAIN completions : t \in completions[i]

\* GetRenderResult, which the event thread calls at any time.
RenderResult(t) == IF frameBuffer[t].keeping THEN 0 ELSE frameBuffer[t].pixels

\* Once the update thread knows of a request no result of an earlier one is
\* handed out: the Finished signal of a request that keeps nothing is not
\* followed by old pixels.
ResultIsCurrent ==
  \A t \in Tasks : task[t].exists => RenderResult(t) \in {0, task[t].request}

\* A request is finished in the end, by the frames it causes itself: unless
\* there is a newer one, the rate is changed, the task is removed or taken off
\* the scene, its pass was never recorded, or the task has the tracker of an
\* earlier request and no longer requires a sync, so that nothing sets it.
Settled(t, n) == /\ task[t].request = n /\ task[t].state = "ONCE_AND_NOTIFIED"
                 /\ refreshOnceCounter[t] = task[t].counter /\ t \notin finished
Withdrawn(t, n) == \/ asked[t] > n \/ rate[t] # "ONCE"
                   \/ life[t] = "removed" \/ t \notin onScene
PassMissed(t, n) == /\ updatePc = "idle"
                    /\ task[t].request = n /\ task[t].state = "RENDERED_ONCE" /\ drawn[t] < n
TrackerLeft(t) == t \in Offscreen /\ tracker[t].exists /\ ~task[t].requiresSync

Requests(t) == 1 .. MaxCalls
EveryRequestFinishes ==
  \A t \in Tasks : \A n \in Requests(t) :
    asked[t] = n ~> Settled(t, n) \/ Withdrawn(t, n) \/ PassMissed(t, n) \/ TrackerLeft(t)
===============================================================================
