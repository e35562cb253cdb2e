------------------------------- MODULE Animation -------------------------------
(***************************************************************************)
(* An animation lives twice: Internal::Animation on the event thread and   *)
(* SceneGraph::Animation on the update thread.  The application's calls    *)
(* change the first one and are sent to the second one as messages; the    *)
(* second one completes, by itself or because it is stopped, and the       *)
(* AnimationPlaylist is notified, which emits the Finished signals.  The   *)
(* playlist also holds the reference that keeps a playing animation alive  *)
(* when the application drops its handle ("fire and forget").              *)
(*                                                                         *)
(* Messages and notifications travel in order, as MessageQueue and         *)
(* NotificationManager promise.  Time, progress, loops and property values *)
(* are abstracted: a playing animation may complete in any frame.          *)
(***************************************************************************)
EXTENDS Naturals, FiniteSets, Sequences, Queues

CONSTANTS
  Animations,   \* the animations of the application
  Budgets       \* bounds: how many API calls a behaviour makes of each animation

ASSUME AnimationAssumption == IsFiniteSet(Animations) /\ Budgets \subseteq [Animations -> Nat]

VARIABLES
  state,              \* mState (event thread)
  notificationCount,  \* mNotificationCount
  alive,              \* the event object exists and is mapped to its notifier
  held,               \* the application has a handle
  playlist, ignored,  \* mPlaylist, mIgnoredAnimations
  eventPc,            \* where the event thread is
  taken,              \* notifications this ProcessMessages has yet to handle
  finished, toEmit,   \* finishedAnimations, and those still to be emitted
  queue, flushed,     \* messages to the update thread, before and after FlushQueue
  completions,        \* notifications to the event thread, a set for each frame
  updatePc, buffer,   \* where the update thread is, messages it has yet to process
  notifyRequired,     \* notifyRequiredAnimations
  sceneState,         \* SceneGraph::Animation::mState
  playedCount,        \* mPlayedCount (read by the event thread without a lock)
  isStopped,          \* mIsStopped
  calls               \* bound: API calls left, for each animation

apiVars     == <<state, notificationCount, held, playlist, ignored>>
notifyVars  == <<eventPc, taken, finished, toEmit>>
updateVars  == <<updatePc, buffer, notifyRequired>>
sceneVars   == <<sceneState, playedCount, isStopped>>
vars == <<apiVars, alive, notifyVars, queue, flushed, completions, updateVars, sceneVars, calls>>

Stopping == {"STOPPING", "PLAYING_DURING_STOPPING", "PAUSED_DURING_STOPPING"}
InternalState == {"CLEARED", "STOPPED", "PLAYING", "PAUSED"} \cup Stopping
SceneState == {"Stopped", "Playing", "Paused", "Destroyed", "Freed"}
Messages == [op : {"Play", "Pause", "Stop", "Clear", "Remove"}, to : Animations]

TypeOK ==
  /\ state \in [Animations -> InternalState]
  /\ notificationCount \in [Animations -> Nat] /\ playedCount \in [Animations -> Nat]
  /\ isStopped \in [Animations -> BOOLEAN]
  /\ \A s \in {alive, held, playlist, ignored, notifyRequired} : s \subseteq Animations
  /\ eventPc \in {"idle", "notify", "emit", "callback", "events"}
  /\ taken \in Seq(SUBSET Animations) /\ completions \in Seq(SUBSET Animations)
  /\ finished \in Seq(Animations) /\ toEmit \in Seq(Animations)
  /\ \A s \in {queue, flushed, buffer} : s \in Seq(Messages)
  /\ updatePc \in {"idle", "messages", "completed"}
  /\ sceneState \in [Animations -> SceneState]
  /\ \E b \in Budgets : \A a \in Animations : calls[a] \in 0 .. b[a]

Init ==
  /\ state = [a \in Animations |-> "CLEARED"]
  /\ notificationCount = [a \in Animations |-> 0] /\ playedCount = [a \in Animations |-> 0]
  /\ isStopped = [a \in Animations |-> FALSE]
  /\ alive = Animations /\ held = Animations /\ playlist = {} /\ ignored = {}
  /\ eventPc = "idle" /\ taken = << >> /\ finished = << >> /\ toEmit = << >>
  /\ queue = << >> /\ flushed = << >> /\ completions = << >>
  /\ updatePc = "idle" /\ buffer = << >> /\ notifyRequired = {}
  /\ sceneState = [a \in Animations |-> "Stopped"]
  /\ calls \in Budgets

Send(op, a) == queue' = Append(queue, [op |-> op, to |-> a])

\* InternalStateConverter: while the update thread has yet to confirm a Stop,
\* the later states remember that a Finished signal is due.
Convert(s, target) ==
  CASE target = "STOPPED" -> IF s \in {"CLEARED", "STOPPED"} THEN s ELSE "STOPPING"
    [] target # "STOPPED" /\ s \in Stopping ->
         IF target = "PLAYING" THEN "PLAYING_DURING_STOPPING" ELSE "PAUSED_DURING_STOPPING"
    [] OTHER              -> target
Changes(a, target) == Convert(state[a], target) # state[a]
Become(a, target) == state' = [state EXCEPT ![a] = Convert(@, target)]

(***************************************************************************)
(* The application, on the event thread: outside ProcessEvents, in a       *)
(* Finished callback, or in the rest of ProcessEvents before the flush.    *)
(***************************************************************************)
Call(a) ==
  /\ calls[a] > 0 /\ calls' = [calls EXCEPT ![a] = @ - 1]
  /\ eventPc \in {"idle", "callback", "events"}
  /\ a \in held \cup (IF eventPc = "callback" THEN {Head(toEmit)} ELSE {})
  /\ UNCHANGED <<notifyVars, flushed, completions, updateVars, sceneVars>>

\* Play, PlayFrom and PlayAfter differ in the data they send.
Play(a) ==
  /\ Call(a)
  /\ playlist' = playlist \cup {a}
  /\ Become(a, "PLAYING")
  /\ Send("Play", a)
  /\ UNCHANGED <<notificationCount, alive, held, ignored>>

Pause(a) ==
  /\ Call(a)
  /\ Changes(a, "PAUSED") /\ Become(a, "PAUSED")
  /\ Send("Pause", a)
  /\ UNCHANGED <<notificationCount, alive, held, playlist, ignored>>

Stop(a) ==
  /\ Call(a)
  /\ Changes(a, "STOPPED") /\ Become(a, "STOPPED")
  /\ Send("Stop", a)
  /\ UNCHANGED <<notificationCount, alive, held, playlist, ignored>>

\* AnimationPlaylist::OnClear.
Forget(a) == playlist' = playlist \ {a} /\ ignored' = ignored \cup {a}

\* An animation that is CLEARED and has no connectors returns at once; any
\* other one is cleared.  AnimateTo, AnimateBy and AnimateBetween only add
\* connectors and animators, which are not in the model, so both are possible.
Clear(a) ==
  /\ Call(a)
  /\ Send("Clear", a)
  /\ notificationCount' = [notificationCount EXCEPT ![a] = 0]
  /\ state' = [state EXCEPT ![a] = "CLEARED"]
  /\ Forget(a)
  /\ UNCHANGED <<alive, held>>

\* ~Animation, when the last of its handles goes: it is unmapped and the
\* scene object is removed by a message.
Drop(a, handles) ==
  IF a \in handles
  THEN UNCHANGED <<alive, queue>>
  ELSE alive' = alive \ {a} /\ Send("Remove", a)

Release(a) ==
  /\ a \in held
  /\ Call(a)
  /\ held' = held \ {a}
  /\ Drop(a, playlist \cup Elements(finished))
  /\ UNCHANGED <<state, notificationCount, playlist, ignored>>

(***************************************************************************)
(* Event thread: Core::ProcessEvents with AnimationPlaylist::NotifyCompleted *)
(***************************************************************************)
ProcessMessages ==
  /\ eventPc = "idle"
  /\ eventPc' = IF completions = << >> THEN "events" ELSE "notify"
  /\ taken' = completions /\ completions' = << >>
  /\ UNCHANGED <<apiVars, alive, finished, toEmit, queue, flushed, updateVars, sceneVars, calls>>

\* HasFinished: the state after a notification, for the states that wait for one.
AfterFinish == [ PLAYING |-> "STOPPED", STOPPING |-> "STOPPED",
                 PLAYING_DURING_STOPPING |-> "PLAYING", PAUSED_DURING_STOPPING |-> "PAUSED" ]

\* Mutant of HasFinished: only for an animation that was stopped.
HasStopped(a) == playedCount[a] > notificationCount[a] /\ state[a] \in Stopping
HasFinished(a) == playedCount[a] > notificationCount[a] /\ state[a] \in DOMAIN AfterFinish

\* Neither cleared in this event loop nor destroyed.
Concerns(a) == a \notin ignored /\ a \in alive

\* The first loop of NotifyCompleted.
CheckFinished ==
  /\ eventPc = "notify"
  /\ taken # << >>
  /\ \E a \in Head(taken) :
         /\ taken' = [taken EXCEPT ![1] = @ \ {a}]
         /\ IF Concerns(a) /\ HasFinished(a)
            THEN /\ state' = [state EXCEPT ![a] = AfterFinish[@]]
                 /\ notificationCount' = [notificationCount EXCEPT ![a] = playedCount[a]]
                 /\ finished' = Append(finished, a)
                 /\ playlist' = playlist \ {a}
            ELSE UNCHANGED <<state, notificationCount, finished, playlist>>
  /\ UNCHANGED <<alive, held, ignored, eventPc, toEmit, queue, flushed, completions,
                 updateVars, sceneVars, calls>>

ListChecked ==
  /\ eventPc = "notify"
  /\ taken # << >> /\ Head(taken) = {}
  /\ taken' = Tail(taken)
  /\ eventPc' = "emit" /\ toEmit' = finished
  /\ UNCHANGED <<apiVars, alive, finished, queue, flushed, completions, updateVars, sceneVars,
                 calls>>

\* Mutant of MayEmit: what a callback cleared is emitted all the same.
AlwaysEmit(a) == TRUE
MayEmit(a) == a \notin ignored

\* The second loop: emit, unless a callback of this loop cleared the animation.
Emit ==
  /\ eventPc = "emit" /\ toEmit # << >>
  /\ MayEmit(Head(toEmit))
  /\ eventPc' = "callback"
  /\ UNCHANGED <<apiVars, alive, taken, finished, toEmit, queue, flushed, completions, updateVars,
                 sceneVars, calls>>

SkipCleared ==
  /\ eventPc = "emit" /\ toEmit # << >>
  /\ ~MayEmit(Head(toEmit))
  /\ toEmit' = Tail(toEmit)
  /\ UNCHANGED <<apiVars, alive, eventPc, taken, finished, queue, flushed, completions, updateVars,
                 sceneVars, calls>>

CallbackReturns ==
  /\ eventPc = "callback"
  /\ toEmit' = Tail(toEmit) /\ eventPc' = "emit"
  /\ UNCHANGED <<apiVars, alive, taken, finished, queue, flushed, completions, updateVars,
                 sceneVars, calls>>

\* finishedAnimations goes out of scope, one handle after the other.
DropFinished ==
  /\ eventPc = "emit" /\ toEmit = << >>
  /\ finished # << >>
  /\ finished' = Tail(finished)
  /\ Drop(Head(finished), held \cup playlist \cup Elements(finished'))
  /\ UNCHANGED <<apiVars, eventPc, taken, toEmit, flushed, completions, updateVars, sceneVars,
                 calls>>

ListDone ==
  /\ eventPc = "emit" /\ finished = << >>
  /\ eventPc' = IF taken = << >> THEN "events" ELSE "notify"
  /\ UNCHANGED <<apiVars, alive, taken, finished, toEmit, queue, flushed, completions, updateVars,
                 sceneVars, calls>>

\* FlushQueue, then EventLoopFinished.
EventLoopFinished ==
  /\ eventPc = "events"
  /\ eventPc' = "idle"
  /\ flushed' = flushed \o queue /\ queue' = << >>
  /\ ignored' = {}
  /\ UNCHANGED <<state, notificationCount, alive, held, playlist, taken, finished,
                 toEmit, completions, updateVars, sceneVars, calls>>

(***************************************************************************)
(* Update thread                                                           *)
(***************************************************************************)
eventThreadVars == <<apiVars, alive, notifyVars, queue, calls>>

UpdateBegin ==
  /\ updatePc = "idle"
  /\ updatePc' = "messages"
  /\ buffer' = flushed /\ flushed' = << >>
  /\ UNCHANGED <<eventThreadVars, completions, notifyRequired, sceneVars>>

Running(a) == sceneState[a] \in {"Playing", "Paused"}

\* SceneGraph::Animation::ClearAnimator.  Mutant: the counters are reset and it
\* plays on.
SceneClearCounters(a) ==
  /\ playedCount' = [playedCount EXCEPT ![a] = 0]
  /\ isStopped' = [isStopped EXCEPT ![a] = FALSE]
  /\ UNCHANGED sceneState
SceneClear(a) ==
  /\ sceneState' = [sceneState EXCEPT ![a] = "Stopped"]
  /\ playedCount' = [playedCount EXCEPT ![a] = 0]
  /\ isStopped' = [isStopped EXCEPT ![a] = FALSE]

SceneStop(a) ==
  /\ sceneState' = [sceneState EXCEPT ![a] = "Stopped"]
  /\ playedCount' = [playedCount EXCEPT ![a] = IF Running(a) THEN @ + 1 ELSE @]
  /\ isStopped' = [isStopped EXCEPT ![a] = @ \/ Running(a)]

SceneBecomes(a, s) == sceneState' = [sceneState EXCEPT ![a] = s]

ProcessMessage ==
  /\ updatePc = "messages" /\ buffer # << >>
  /\ buffer' = Tail(buffer)
  /\ LET op == Head(buffer).op
         a  == Head(buffer).to
     IN  \/ op = "Play" /\ SceneBecomes(a, "Playing") /\ UNCHANGED <<playedCount, isStopped>>
         \/ /\ op = "Pause"
            /\ SceneBecomes(a, IF sceneState[a] = "Playing" THEN "Paused" ELSE sceneState[a])
            /\ UNCHANGED <<playedCount, isStopped>>
         \/ op = "Stop" /\ SceneStop(a)
         \/ op = "Clear" /\ SceneClear(a)
         \/ /\ op = "Remove"
            /\ SceneBecomes(a, "Destroyed")
            /\ isStopped' = [isStopped EXCEPT ![a] = FALSE]
            /\ UNCHANGED playedCount
  /\ UNCHANGED <<eventThreadVars, flushed, completions, updatePc, notifyRequired>>

\* Mutant of Erasable: stopped animations are erased too.
StoppedOrDestroyed(a) == sceneState[a] \in {"Destroyed", "Stopped"}
Erasable(a) == sceneState[a] = "Destroyed"

\* UpdateManager::Animate: SceneGraph::Animation::Update for each animation,
\* of which those in complete play to their end.  What the event thread reads
\* meanwhile of one animation does not depend on the others, so the loop is
\* one step.
Animate(complete) ==
  /\ updatePc = "messages" /\ buffer = << >>
  /\ \A a \in complete : sceneState[a] = "Playing"
  /\ sceneState' = [a \in Animations |-> IF a \in complete THEN "Stopped"
                                          ELSE IF Erasable(a) THEN "Freed" ELSE sceneState[a]]
  /\ playedCount' = [a \in Animations |-> playedCount[a] + IF a \in complete THEN 1 ELSE 0]
  /\ isStopped' = [a \in Animations |-> FALSE]
  /\ notifyRequired' = complete \cup {a \in Animations : isStopped[a]}
  /\ updatePc' = "completed"
  /\ UNCHANGED <<eventThreadVars, flushed, completions, buffer>>

\* QueueNotification and UpdateCompleted.
UpdateCompleted ==
  /\ updatePc = "completed"
  /\ updatePc' = "idle"
  /\ completions' = IF notifyRequired = {} THEN completions
                                           ELSE Append(completions, notifyRequired)
  /\ notifyRequired' = {}
  /\ UNCHANGED <<eventThreadVars, flushed, buffer, sceneVars>>

Application(a) == Play(a) \/ Pause(a) \/ Stop(a) \/ Clear(a) \/ Release(a)
EventThread == \/ ProcessMessages \/ CheckFinished \/ ListChecked \/ Emit \/ SkipCleared
               \/ CallbackReturns \/ DropFinished \/ ListDone \/ EventLoopFinished
UpdateThread == \/ UpdateBegin \/ ProcessMessage \/ UpdateCompleted
                \/ \E complete \in SUBSET Animations : Animate(complete)

Next == (\E a \in Animations : Application(a)) \/ EventThread \/ UpdateThread
Spec == Init /\ [][Next]_vars

(***************************************************************************)
(* Fairness: both threads go on, an application that renders, and an       *)
(* animation of finite length, with finitely many loops, that is played    *)
(* frame after frame gets to its end.                                      *)
(***************************************************************************)
Completes(a) == \E complete \in SUBSET Animations : a \in complete /\ Animate(complete)
Fairness == /\ WF_vars(EventThread) /\ WF_vars(UpdateThread)
            /\ \A a \in Animations : SF_vars(Completes(a))
FairSpec == Spec /\ Fairness

(***************************************************************************)
(* Properties                                                              *)
(***************************************************************************)
InFlight == buffer \o flushed \o queue

\* The event object keeps a plain pointer to the scene animation and reads
\* the played count through it; messages keep one too.  Neither is ever
\* left pointing to a scene animation that was destroyed.
SceneObjectOutlives ==
  /\ \A a \in alive : sceneState[a] \notin {"Destroyed", "Freed"}
  /\ \A i \in DOMAIN InFlight : sceneState[InFlight[i].to] \notin {"Destroyed", "Freed"}

\* An animation that is over is not referenced any more, whichever of a
\* notification and a Clear ended it: otherwise it would never be destroyed.
OverIsUnreferenced ==
  \A a \in Animations : state[a] \in {"STOPPED", "CLEARED"} => a \notin playlist

\* The scene half exists as long as something points to it, and the playlist
\* keeps no reference to an animation that is over.
LifetimesAgree == SceneObjectOutlives /\ OverIsUnreferenced

\* No Finished signal for an animation whose last call was Clear, also when
\* the call was made by the callback of another animation of the same list.
ClearedIsSilent == [][Emit => state[Head(toEmit)] # "CLEARED"]_vars

\* Nothing about the animation is on its way between the threads.
Settled(a) ==
  /\ \A i \in DOMAIN InFlight : InFlight[i].to # a
  /\ \A s \in {taken, completions} : \A i \in DOMAIN s : a \notin s[i]
  /\ a \notin notifyRequired /\ ~isStopped[a] /\ a \notin Elements(finished)

\* Once everything has arrived the two halves do not contradict each other:
\* what is paused in the scene is shown as paused, what plays is not shown as
\* paused or cleared, and nothing plays behind a Clear or an unconfirmed Stop.
\* (A scene animation may play behind STOPPED: a Play on top of a completion
\* that has not been notified is answered by that completion.)
HalvesAgree ==
  \A a \in alive : Settled(a) =>
    /\ sceneState[a] = "Paused"  => state[a] \in {"PAUSED", "PAUSED_DURING_STOPPING"}
    /\ sceneState[a] = "Playing" => state[a] \notin {"PAUSED", "PAUSED_DURING_STOPPING", "CLEARED"}
    /\ state[a] \in {"CLEARED", "STOPPING"} => sceneState[a] = "Stopped"

BothPlay(a) == Settled(a) /\ state[a] = "PLAYING" /\ sceneState[a] = "Playing"
NoLongerPlaying(a) == state[a] # "PLAYING" \/ a \notin alive

\* An animation that plays on both sides does not stay PLAYING for ever, if its
\* played count has not fallen behind the notified one: HasFinished takes the
\* next completion for a new one.  (It falls behind when the notification of a
\* play that was cleared arrives after Clear and Play, and the Clear then
\* resets the played count only.)
PlayEnds == \A a \in Animations :
  BothPlay(a) /\ notificationCount[a] <= playedCount[a] ~> NoLongerPlaying(a)
=============================================================================
