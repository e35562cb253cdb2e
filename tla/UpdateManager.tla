----------------------------- MODULE UpdateManager -----------------------------
(***************************************************************************)
(* The frame loop: UpdateManager::Update, the drawing of the frame and     *)
(* PostRender.  A frame decides whether the scene is to be updated at all, *)
(* resets animated properties to their base values, processes messages,    *)
(* applies the animations, propagates what is dirty, decides whether there *)
(* is anything to draw, and asks for another frame or not.  Messages may   *)
(* arrive between the first decision and the moment they are taken.        *)
(*                                                                         *)
(* One animatable property (the colour) of each node is modelled, and for  *)
(* each animation one animator of AnimateBy kind, which adds to the value  *)
(* it finds.  Progress is a phase: 0 before the animator's own delay has   *)
(* passed, 1 on its way, 2 at its end.  A phase is also what the animator  *)
(* then adds to the property.  Scenes, layers, transforms, constraints and *)
(* frame callbacks are left out.                                           *)
(***************************************************************************)
EXTENDS Integers, FiniteSets, Sequences, Queues

CONSTANTS
  Nodes, Animations, Colours,
  Target,           \* the node each animation's animator is for
  EndAction,        \* mEndAction of each animation
  DisconnectAction, \* mDisconnectAction, the same for all of them
  ShortAnimators,   \* animations that go on when their animator is at its end
  MaxMessages       \* bound: messages of a behaviour

ASSUME UpdateAssumption ==
  /\ IsFiniteSet(Nodes) /\ IsFiniteSet(Animations) /\ Colours \subseteq Int
  /\ Target \in [Animations -> Nodes]
  /\ EndAction \in [Animations -> {"BAKE", "BAKE_FINAL", "DISCARD"}]
  /\ DisconnectAction \in {"BAKE_FINAL", "DISCARD"}
  /\ ShortAnimators \subseteq Animations /\ MaxMessages \in Nat

VARIABLES
  actor, handle,            \* event side: the actors and animations the application has
  sent, announcing,         \* messages sent; FlushQueue done, RequestUpdate to follow
  queue,                    \* messages flushed and not yet taken
  requested,                \* RequestUpdate was called since the last frame began
  keepUpdating,             \* what the last Update returned
  pc,                       \* where the update thread is
  messages,                 \* messages of this frame not yet processed
  updateScene, previousUpdateScene, isAnimationRunning, renderingRequired,
  nodeDirtyFlags,           \* nodeDirtyFlags & RenderableUpdateFlags
  hierarchyChanged,         \* the same flags of the nodes, before UpdateNodes
  animationFinishedDuringUpdate, discardAnimationFinishedAge,
  discardQueue, freed,      \* nodeDiscardQueue; the nodes it has deleted
  node,                     \* scene-graph nodes: connected, disconnected, destroyed
  property,                 \* mColor (value, base, dirty) and mWorldColor of each node
  nodeResetters, bakers,    \* mActive of node resetters; nodes with a BakerResetter
  resetters, resetter,      \* the AnimatorResetters in the container, and their state
  animations, animation,    \* the container of animations, and their state
  updatedOwners,            \* updatedPropertyOwnerContainer
  instructions,             \* nodes in the render instructions
  skipRendering,            \* Scene::mSkipRendering
  shown                     \* the colour each node has on the screen

eventVars == <<actor, handle, sent, announcing>>
frameVars == <<updateScene, previousUpdateScene, isAnimationRunning, keepUpdating>>
dirtyVars  == <<renderingRequired, nodeDirtyFlags, hierarchyChanged>>
endVars   == <<animationFinishedDuringUpdate, discardAnimationFinishedAge>>
resetVars == <<nodeResetters, bakers, resetters, resetter>>
drawVars  == <<instructions, skipRendering, shown>>
sceneVars == <<node, property, animations, animation, updatedOwners>>
managerVars == <<eventVars, queue, requested, pc, messages, frameVars, dirtyVars, endVars,
                 discardQueue, freed, resetVars, sceneVars, drawVars>>

Messages == [op : {"Connect", "Disconnect", "Destroy", "Bake", "Add", "Play", "Pause",
                   "Stop", "Clear", "Remove"}, on : Nodes \cup Animations, colour : Int]

FrameTypeOK ==
  /\ actor \in [Nodes -> {"on", "off", "gone"}] /\ node \in [Nodes -> {"on", "off", "gone"}]
  /\ handle \in [Animations -> {"none", "held", "gone"}]
  /\ sent \in 0 .. MaxMessages
  /\ queue \in Seq(Messages) /\ messages \in Seq(Messages)
  /\ pc \in {"idle", "checked", "messages", "render"}
  /\ discardAnimationFinishedAge \in 0 .. 3
  /\ \A f \in {announcing, requested, keepUpdating, updateScene, previousUpdateScene,
               isAnimationRunning, renderingRequired, nodeDirtyFlags, hierarchyChanged,
               animationFinishedDuringUpdate, skipRendering} : f \in BOOLEAN
  /\ \A s \in {discardQueue, freed, bakers, updatedOwners, instructions} : s \subseteq Nodes
  /\ property \in [Nodes -> [base : Int, value : Int, dirty : 0 .. 3, world : Int]]
  /\ nodeResetters \in [Nodes -> 0 .. 2] /\ shown \in [Nodes -> Int]
  /\ resetters \subseteq Animations
  /\ resetter \in [Animations -> [running : 0 .. 2, active : 0 .. 2, disconnected : BOOLEAN]]
  /\ animations \in Seq(Animations)
  /\ animation \in [Animations -> [state : {"Stopped", "Playing", "Paused", "Destroyed"},
       animator : {"none", "live", "orphan"}, enabled : BOOLEAN, playing : BOOLEAN,
       phase : 0 .. 2, isActive : BOOLEAN]]

NoAnimator == [state |-> "Stopped", animator |-> "none", enabled |-> FALSE,
               playing |-> FALSE, phase |-> 0, isActive |-> FALSE]
NewResetter == [running |-> 2, active |-> 2, disconnected |-> FALSE]

\* The actors are on the scene, drawn, and everything is at rest.
FrameInit ==
  /\ actor = [n \in Nodes |-> "on"] /\ handle = [a \in Animations |-> "none"]
  /\ sent = 0 /\ announcing = FALSE /\ queue = << >> /\ requested = FALSE
  /\ keepUpdating = FALSE /\ pc = "idle" /\ messages = << >>
  /\ updateScene = FALSE /\ previousUpdateScene = FALSE /\ isAnimationRunning = FALSE
  /\ renderingRequired = FALSE /\ nodeDirtyFlags = FALSE /\ hierarchyChanged = FALSE
  /\ animationFinishedDuringUpdate = FALSE /\ discardAnimationFinishedAge = 0
  /\ discardQueue = {} /\ freed = {} /\ node = [n \in Nodes |-> "on"]
  /\ property = [n \in Nodes |-> [base |-> 0, value |-> 0, dirty |-> 0, world |-> 0]]
  /\ nodeResetters = [n \in Nodes |-> 0] /\ bakers = {}
  /\ resetters = {} /\ resetter = [a \in Animations |-> NewResetter]
  /\ animations = << >> /\ animation = [a \in Animations |-> NoAnimator]
  /\ updatedOwners = {} /\ instructions = Nodes /\ skipRendering = FALSE
  /\ shown = [n \in Nodes |-> 0]

(***************************************************************************)
(* The event thread: each call sends its messages, the queue is flushed,   *)
(* and then an update is requested.                                        *)
(* The calls on an animation may come in any order: the states of its      *)
(* event half, which rule some of them out, are in the Animation module.   *)
(***************************************************************************)
SendColour(op, x, c) ==
  /\ ~announcing /\ announcing' = TRUE
  /\ sent < MaxMessages /\ sent' = sent + 1
  /\ queue' = Append(queue, [op |-> op, on |-> x, colour |-> c])
  /\ UNCHANGED <<requested, pc, messages, frameVars, dirtyVars, endVars, discardQueue,
                 freed, resetVars, sceneVars, drawVars>>
Send(op, x) == SendColour(op, x, 0)

AddToScene(n) ==
  /\ actor[n] = "off" /\ actor' = [actor EXCEPT ![n] = "on"]
  /\ Send("Connect", n) /\ UNCHANGED handle

RemoveFromScene(n) ==
  /\ actor[n] = "on" /\ actor' = [actor EXCEPT ![n] = "off"]
  /\ Send("Disconnect", n) /\ UNCHANGED handle

DestroyActor(n) ==
  /\ actor[n] = "off" /\ actor' = [actor EXCEPT ![n] = "gone"]
  /\ Send("Destroy", n) /\ UNCHANGED handle

\* SetColor also sends the resetter and a request to render.
SetColor(n) ==
  /\ actor[n] # "gone"
  /\ \E c \in Colours : SendColour("Bake", n, c)
  /\ UNCHANGED <<actor, handle>>

\* A new animation, its animator, and the resetter of the animator.
NewAnimation(a) ==
  /\ handle[a] = "none" /\ handle' = [handle EXCEPT ![a] = "held"]
  /\ actor[Target[a]] # "gone"
  /\ Send("Add", a) /\ UNCHANGED actor

Control(a) ==
  /\ handle[a] = "held"
  /\ \E op \in {"Play", "Pause", "Stop", "Clear"} : Send(op, a)
  /\ UNCHANGED <<actor, handle>>

ReleaseAnimation(a) ==
  /\ handle[a] = "held" /\ handle' = [handle EXCEPT ![a] = "gone"]
  /\ Send("Remove", a) /\ UNCHANGED actor

RequestUpdate ==
  /\ announcing /\ announcing' = FALSE /\ requested' = TRUE
  /\ UNCHANGED <<actor, handle, sent, queue, pc, messages, frameVars, dirtyVars, endVars,
                 discardQueue, freed, resetVars, sceneVars, drawVars>>

(***************************************************************************)
(* AnimatableProperty<Vector4>: dirty is SET_FLAG (2) after Set or         *)
(* MarkAsDirty, Bake adds BAKED_FLAG (1), and a reset shifts it.           *)
(***************************************************************************)
SetValue(p, v)  == [p EXCEPT !.value = v, !.dirty = 2]
BakeValue(p, v) == [p EXCEPT !.value = v, !.base = v, !.dirty = 2 * (@ \div 2) + 1]
ResetToBaseValue(p) == IF p.dirty = 0 THEN p ELSE [p EXCEPT !.value = p.base, !.dirty = @ \div 2]

(***************************************************************************)
(* Animations, as functions of what they change: s has the fields          *)
(* property, animation, owners (updatedOwners), finished, age and          *)
(* container, the animations that Animate leaves in it.                    *)
(***************************************************************************)
Scene == [property |-> property, animation |-> animation, owners |-> updatedOwners,
          finished |-> animationFinishedDuringUpdate, age |-> discardAnimationFinishedAge,
          container |-> << >>]

\* An animator at phase p changes its property, and is "active" until its end.
\* Baking makes the value it finds, animated by others or not, the new base.
UpdateAnimators(s, a, p, bake, over) ==
  LET A == s.animation[a]
      applied == A.animator = "live" /\ A.enabled /\ p > 0
      Change(q) == IF bake THEN BakeValue(q, q.value + p) ELSE SetValue(q, q.value + p)
  IN [s EXCEPT
       !.property[Target[a]] = IF applied THEN Change(@) ELSE @,
       !.owners = IF applied THEN @ \cup {Target[a]} ELSE @,
       !.animation[a] =
         [A EXCEPT !.isActive = applied /\ (p = 2 => a \notin ShortAnimators),
                   !.playing = @ /\ ~over,
                   !.animator = IF @ = "orphan" THEN "none" ELSE @]]

\* Playing or paused, and so to be ended by Stop, ClearAnimator or OnDestroy.
Running(s, a) == s.animation[a].state \in {"Playing", "Paused"}

\* What Stop and OnDestroy do with an animation that is not over yet.
EndAnimators(s, a) ==
  IF ~Running(s, a) THEN s
  ELSE IF EndAction[a] = "DISCARD" THEN [s EXCEPT !.animation[a].playing = FALSE]
  ELSE LET final == IF EndAction[a] = "BAKE" THEN s.animation[a].phase ELSE 2
       IN UpdateAnimators(s, a, final, TRUE, TRUE)

\* Animation::Stop, without the counters that the Animation module has.
StopAnimation(s, a) ==
  [EndAnimators(s, a) EXCEPT !.animation[a].state = "Stopped", !.animation[a].phase = 0]

\* discardAnimationFinishedAge |= 2 when a DISCARD animation finishes.
Discarded(a, age) == IF EndAction[a] = "DISCARD" /\ age < 2 THEN age + 2 ELSE age

\* A frame takes a playing animation to phase p, or past its end.
Advance(s, a, p) ==
  UpdateAnimators([s EXCEPT !.animation[a].phase = p], a, p, FALSE, FALSE)
Complete(s, a) ==
  [UpdateAnimators(s, a, 2, EndAction[a] # "DISCARD", TRUE) EXCEPT
     !.animation[a].state = "Stopped", !.animation[a].phase = 0,
     !.finished = TRUE, !.age = Discarded(a, @)]

\* Animation::Update when the frame takes it to phase p; 3 is past its end.
UpdateAnimation(s, a, p) ==
  LET A == s.animation[a] IN
  CASE A.state = "Paused"            -> UpdateAnimators(s, a, A.phase, FALSE, FALSE)
    [] A.state = "Playing" /\ p < 3 -> Advance(s, a, p)
    [] A.state = "Playing" /\ p = 3 -> Complete(s, a)
    [] OTHER                         -> s

(***************************************************************************)
(* Update begins: what was discarded in the last frame is deleted, the     *)
(* first decision is taken, and properties are reset to their base values. *)
(***************************************************************************)
\* Mutant of the next: a paused animation counts.
AnyNotStopped(list, anims) == \E a \in Elements(list) : anims[a].state # "Stopped"

\* Neither stopped nor paused: a destroyed animation still counts.
IsAnimationRunning(list, anims) ==
  \E a \in Elements(list) : anims[a].state \in {"Playing", "Destroyed"}

\* Mutant of the next: nothing is reset once its animator has gone.
RequestedWhileAnimated ==
  {n \in Nodes : nodeResetters[n] > 0} \cup bakers
    \cup {Target[a] : a \in {b \in resetters : resetter[b].active > 0 /\ resetter[b].running > 1}}

\* A property may be requested more than once and is reset only once.
ResetRequested ==
  {n \in Nodes : nodeResetters[n] > 0} \cup bakers
    \cup {Target[a] : a \in {b \in resetters : resetter[b].active > 0}}

\* RequestResetToBaseValues and IsFinished of each resetter in the container:
\* it ages while its node is disconnected, and once its animator is destroyed.
ResettersAge ==
  /\ resetters' = {a \in resetters : resetter[a].running > 0}
  /\ resetter' = [a \in Animations |->
       IF a \notin resetters THEN resetter[a]
       ELSE [resetter[a] EXCEPT
              !.active  = IF @ > 0 /\ resetter[a].disconnected THEN @ - 1 ELSE @,
              !.running = IF @ = 1 THEN 0 ELSE @]]

ResetProperties ==
  /\ animationFinishedDuringUpdate' = FALSE
  /\ discardAnimationFinishedAge' = discardAnimationFinishedAge \div 2
  /\ property' = [n \in Nodes |-> IF n \in ResetRequested THEN ResetToBaseValue(property[n])
                                                          ELSE property[n]]
  /\ nodeResetters' = [n \in Nodes |-> IF nodeResetters[n] > 0 THEN nodeResetters[n] - 1 ELSE 0]
  /\ bakers' = {}
  /\ ResettersAge

\* Whether the work of the frame is done: the scene changes, or did in the last one.
FrameIsNeeded(sceneUpdated) == sceneUpdated \/ previousUpdateScene

SceneUpdateRequired ==
  \/ nodeDirtyFlags \/ IsAnimationRunning(animations, animation)
  \/ queue # << >> \/ discardAnimationFinishedAge > 0

BeginUpdate ==
  /\ pc = "idle" /\ pc' = "checked"
  /\ requested \/ keepUpdating
  /\ requested' = FALSE
  /\ freed' = freed \cup discardQueue /\ discardQueue' = {}
  /\ isAnimationRunning' = IsAnimationRunning(animations, animation)
  /\ updateScene' = SceneUpdateRequired
  /\ renderingRequired' = FALSE
  /\ IF FrameIsNeeded(SceneUpdateRequired) THEN ResetProperties
     ELSE UNCHANGED <<endVars, property, resetVars>>
  /\ UNCHANGED <<eventVars, queue, messages, previousUpdateScene, keepUpdating, nodeDirtyFlags,
                 hierarchyChanged, node, animations, animation, updatedOwners, drawVars>>

\* Mutant of the next: what ProcessMessages returns does not count.
TakenWithoutNotice == updateScene

\* ProcessMessages takes what has been flushed since the frame began as well.
AfterTaking == updateScene \/ queue # << >>
TakeMessages ==
  /\ pc = "checked" /\ pc' = "messages"
  /\ messages' = queue /\ queue' = << >>
  /\ updateScene' = AfterTaking
  /\ UNCHANGED <<eventVars, requested, previousUpdateScene, isAnimationRunning, keepUpdating,
                 dirtyVars, endVars, discardQueue, freed, resetVars, sceneVars, drawVars>>

(***************************************************************************)
(* The handlers of the messages.                                           *)
(***************************************************************************)
Handle(op) ==
  /\ pc = "messages" /\ messages # << >> /\ Head(messages).op = op
  /\ messages' = Tail(messages)
  /\ UNCHANGED <<eventVars, queue, requested, pc, frameVars, nodeDirtyFlags, freed, drawVars>>
Subject == Head(messages).on
AnimatorsOf(n) == {a \in Animations : Target[a] = n /\ animation[a].animator = "live"}
ResettersOf(n) == {a \in resetters : Target[a] = n}

\* ConnectNode: every flag of the node is dirty and its properties are marked;
\* a new node resetter joins, and the observers of the node are told.
ConnectNode ==
  /\ Handle("Connect")
  /\ LET n == Subject IN
     /\ node' = [node EXCEPT ![n] = "on"]
     /\ property' = [property EXCEPT ![n].dirty = 2]
     /\ nodeResetters' = [nodeResetters EXCEPT ![n] = 2]
     /\ resetter' = [a \in Animations |-> IF a \in ResettersOf(n)
                       THEN [resetter[a] EXCEPT !.active = 2, !.disconnected = FALSE]
                       ELSE resetter[a]]
     /\ animation' = [a \in Animations |-> [animation[a] EXCEPT
                       !.enabled = @ \/ a \in AnimatorsOf(n)]]
     /\ updatedOwners' = updatedOwners \cup {n}
  /\ hierarchyChanged' = TRUE
  /\ UNCHANGED <<renderingRequired, endVars, discardQueue, bakers, resetters, animations>>

\* An animator that is playing bakes its final value, unless it is to discard it.
DisconnectNode ==
  /\ Handle("Disconnect")
  /\ LET n == Subject
         baked == IF DisconnectAction = "DISCARD" THEN {}
                  ELSE {a \in AnimatorsOf(n) : animation[a].playing}
     IN
     /\ node' = [node EXCEPT ![n] = "off"]
     /\ property' = [property EXCEPT ![n] =
                      IF baked = {} THEN @ ELSE BakeValue(@, @.value + 2 * Cardinality(baked))]
     /\ resetter' = [a \in Animations |-> [resetter[a] EXCEPT
                      !.disconnected = @ \/ a \in ResettersOf(n)]]
     /\ animation' = [a \in Animations |-> [animation[a] EXCEPT
                      !.enabled = @ /\ a \notin AnimatorsOf(n)]]
     /\ updatedOwners' = IF baked = {} THEN updatedOwners ELSE updatedOwners \cup {n}
  /\ hierarchyChanged' = TRUE
  /\ UNCHANGED <<renderingRequired, endVars, discardQueue, nodeResetters, bakers, resetters,
                 animations>>

\* DestroyNode: kept in the discard queue until the next frame begins; the
\* observers forget it at once.
DestroyNode ==
  /\ Handle("Destroy")
  /\ LET n == Subject IN
     /\ node' = [node EXCEPT ![n] = "gone"]
     /\ discardQueue' = discardQueue \cup {n}
     /\ nodeResetters' = [nodeResetters EXCEPT ![n] = 0]
     /\ bakers' = bakers \ {n}
     /\ resetter' = [a \in Animations |-> IF a \in ResettersOf(n)
                       THEN [running |-> 0, active |-> 0, disconnected |-> TRUE]
                       ELSE resetter[a]]
     /\ animation' = [a \in Animations |-> [animation[a] EXCEPT
                       !.animator = IF a \in AnimatorsOf(n) THEN "orphan" ELSE @]]
  /\ UNCHANGED <<renderingRequired, hierarchyChanged, endVars, property, resetters, animations,
                 updatedOwners>>

\* A NodePropertyMessage, its BakerResetter, and RequestRendering.
BakeColour ==
  /\ Handle("Bake")
  /\ property' = [property EXCEPT ![Subject] = BakeValue(@, Head(messages).colour)]
  /\ bakers' = bakers \cup {Subject}
  /\ updatedOwners' = updatedOwners \cup {Subject}
  /\ renderingRequired' = TRUE
  /\ UNCHANGED <<hierarchyChanged, endVars, discardQueue, nodeResetters, resetters, resetter,
                 node, animations, animation>>

\* AddAnimation, AddAnimator and AddPropertyResetter.
AddAnimation ==
  /\ Handle("Add")
  /\ LET a == Subject IN
     /\ animations' = Append(animations, a)
     /\ animation' = [animation EXCEPT ![a] = [NoAnimator EXCEPT
                       !.animator = "live", !.enabled = node[Target[a]] = "on"]]
     /\ resetters' = resetters \cup {a}
     /\ resetter' = [resetter EXCEPT ![a] = NewResetter]
     /\ updatedOwners' = updatedOwners \cup {Target[a]}
  /\ UNCHANGED <<renderingRequired, hierarchyChanged, endVars, discardQueue, nodeResetters,
                 bakers, node, property>>

\* The animation handlers change no more than these.
HandleAnimation(op) ==
  /\ Handle(op)
  /\ UNCHANGED <<renderingRequired, hierarchyChanged, discardAnimationFinishedAge, discardQueue,
                 nodeResetters, bakers, resetters, node, animations>>
Becomes(s) ==
  /\ property' = s.property /\ animation' = s.animation /\ updatedOwners' = s.owners

\* The animators of the animations in A are destroyed: their resetters start to age.
AnimatorsDestroyed(A) ==
  resetter' = [a \in Animations |-> IF a \in A /\ animation[a].animator = "live"
                                    THEN [resetter[a] EXCEPT !.running = @ - 1]
                                    ELSE resetter[a]]

Play ==
  /\ HandleAnimation("Play")
  /\ animation' = [animation EXCEPT ![Subject].state = "Playing", ![Subject].playing = TRUE]
  /\ UNCHANGED <<property, updatedOwners, resetter, animationFinishedDuringUpdate>>

Pause ==
  /\ HandleAnimation("Pause")
  /\ animation' = [animation EXCEPT ![Subject].state = IF @ = "Playing" THEN "Paused" ELSE @]
  /\ UNCHANGED <<property, updatedOwners, resetter, animationFinishedDuringUpdate>>

Stop ==
  /\ HandleAnimation("Stop")
  /\ Becomes(StopAnimation(Scene, Subject))
  /\ animationFinishedDuringUpdate' =
       (animationFinishedDuringUpdate \/ Running(Scene, Subject))
  /\ UNCHANGED resetter

\* ClearAnimator: as Stop, but nothing is told of it, and the animators go.
Clear ==
  /\ HandleAnimation("Clear")
  /\ Becomes([StopAnimation(Scene, Subject) EXCEPT !.animation[Subject].animator = "none"])
  /\ AnimatorsDestroyed({Subject})
  /\ UNCHANGED animationFinishedDuringUpdate

\* RemoveAnimation: it stays in the container until Animate erases it.
RemoveAnimation ==
  /\ HandleAnimation("Remove")
  /\ Becomes([EndAnimators(Scene, Subject) EXCEPT !.animation[Subject].state = "Destroyed"])
  /\ UNCHANGED <<resetter, animationFinishedDuringUpdate>>

(***************************************************************************)
(* The rest of Update.                                                     *)
(***************************************************************************)
\* KeepUpdatingCheck, of the state Update leaves.
AnimationsKeepUpdating ==
  \/ IsAnimationRunning(animations', animation')
  \/ animationFinishedDuringUpdate' \/ discardAnimationFinishedAge' > 0

\* With OBJECT_DISCARDED.
ShouldKeepUpdating == AnimationsKeepUpdating \/ discardQueue # {}

FinishUpdate ==
  /\ pc' = "render"
  /\ previousUpdateScene' = updateScene
  /\ keepUpdating' = ShouldKeepUpdating
  /\ UNCHANGED <<eventVars, queue, requested, messages, updateScene, isAnimationRunning,
                 renderingRequired, hierarchyChanged, discardQueue, freed, shown>>

SkipScene ==
  /\ pc = "messages" /\ messages = << >> /\ ~FrameIsNeeded(updateScene)
  /\ UNCHANGED <<nodeDirtyFlags, endVars, resetVars, sceneVars, instructions, skipRendering>>
  /\ FinishUpdate

\* Whether render instructions are made, if at least one animation is active.
IsDrawn(active) == ~isAnimationRunning \/ active \/ renderingRequired \/ hierarchyChanged

\* Node::InheritWorldColor, for the nodes whose property is not clean.
UpdateNode(n, p) == IF node[n] = "on" /\ p.dirty # 0 THEN [p EXCEPT !.world = p.value] ELSE p

\* A turn of Animate: a destroyed animation is updated, and then erased.
Animate(s, a, p) ==
  LET u == UpdateAnimation(s, a, p)
  IN  IF u.animation[a].state = "Destroyed" THEN u ELSE [u EXCEPT !.container = Append(@, a)]

\* What the animations make of the scene, one after the other.
Animated(to) ==
  LET upTo[k \in 0 .. Len(animations)] ==
        IF k = 0 THEN Scene ELSE Animate(upTo[k - 1], animations[k], to[animations[k]])
  IN  upTo[Len(animations)]

\* Animate (erased animations take their animators with them), UpdateNodes and
\* the render instructions.  Each playing animation advances to some phase.
UpdateScene(to) ==
  /\ pc = "messages" /\ messages = << >> /\ FrameIsNeeded(updateScene)
  /\ \E s \in {Animated(to)} :
       LET active == \E a \in Elements(animations) : s.animation[a].isActive
           destroyed == {a \in Elements(animations) : s.animation[a].state = "Destroyed"}
       IN
       /\ animations' = s.container
       /\ animation' = [a \in Animations |-> IF a \in destroyed THEN NoAnimator
                                                                ELSE s.animation[a]]
       /\ AnimatorsDestroyed(destroyed)
       /\ property' = [n \in Nodes |-> UpdateNode(n, s.property[n])]
       /\ updatedOwners' = s.owners
       /\ animationFinishedDuringUpdate' = s.finished
       /\ discardAnimationFinishedAge' = s.age
       /\ skipRendering' = ~IsDrawn(active)
       /\ instructions' = IF IsDrawn(active) THEN {n \in Nodes : node[n] = "on"} ELSE {}
  /\ nodeDirtyFlags' = hierarchyChanged
  /\ UNCHANGED <<nodeResetters, bakers, resetters, node>>
  /\ FinishUpdate

\* The phases the playing animations may have after this frame.
Advances ==
  {to \in [Animations -> 0 .. 3] : \A a \in Animations :
     IF animation[a].state = "Playing" THEN to[a] >= animation[a].phase ELSE to[a] = 0}

\* RenderScene unless the scene is skipped, and PostRender (ResetUpdated).
Render ==
  /\ pc = "render" /\ pc' = "idle"
  /\ shown' = [n \in Nodes |-> IF n \in instructions /\ ~skipRendering
                               THEN property[n].world ELSE shown[n]]
  /\ updatedOwners' = {} /\ hierarchyChanged' = FALSE
  /\ UNCHANGED <<eventVars, queue, requested, messages, frameVars, renderingRequired,
                 nodeDirtyFlags, endVars, discardQueue, freed, resetVars, node, property,
                 animations, animation, instructions, skipRendering>>

HandleMessage ==
  \/ ConnectNode \/ DisconnectNode \/ DestroyNode \/ BakeColour \/ AddAnimation
  \/ Play \/ Pause \/ Stop \/ Clear \/ RemoveAnimation

UpdateContinues ==
  TakeMessages \/ HandleMessage \/ SkipScene \/ (\E to \in Advances : UpdateScene(to)) \/ Render

FrameNext ==
  \/ \E n \in Nodes : AddToScene(n) \/ RemoveFromScene(n) \/ DestroyActor(n) \/ SetColor(n)
  \/ \E a \in Animations : NewAnimation(a) \/ Control(a) \/ ReleaseAnimation(a)
  \/ RequestUpdate \/ BeginUpdate \/ UpdateContinues

(***************************************************************************)
(* Fairness: the event thread goes from FlushQueue to RequestUpdate, the   *)
(* adaptor runs the frames it is asked for, a frame runs to its end, and a *)
(* playing animation that gets frame after frame is over some time.  The   *)
(* application is not assumed to make any call.                            *)
(***************************************************************************)
Completes(a) ==
  /\ animation[a].state = "Playing"
  /\ \E to \in Advances : to[a] = 3 /\ UpdateScene(to)
Fairness ==
  /\ WF_managerVars(RequestUpdate) /\ WF_managerVars(BeginUpdate)
  /\ WF_managerVars(UpdateContinues)
  /\ \A a \in Animations : SF_managerVars(Completes(a))
FrameSpec == FrameInit /\ [][FrameNext]_managerVars /\ Fairness

(***************************************************************************)
(* Properties.                                                             *)
(***************************************************************************)
ShownAsSet == \A n \in Nodes : node[n] = "on" => shown[n] = property[n].value

\* When a frame that was drawn is over, the screen shows every node with the
\* value its property has: no change was left out by the dirty flags or by a
\* frame that did not do the work of the scene (previousUpdateScene).
ScreenIsRight == pc = "idle" /\ ~skipRendering => ShownAsSet

AtRest == pc = "idle" /\ ~keepUpdating /\ ~requested /\ ~announcing /\ queue = << >>

PausedOn(n) == {a \in AnimatorsOf(n) : animation[a].state = "Paused" /\ animation[a].enabled}

\* What the animators paused on a node add to its property, step by step: a phase
\* of 2 is two steps.
PausedSteps(n) == UNION {{a} \X (1 .. animation[a].phase) : a \in PausedOn(n)}

\* When the loop stops, what an animation or a reset left behind has been taken
\* back: a property is at its base value, but for the animations paused on it.
RestsAtBase ==
  AtRest => \A n \in Nodes : node[n] = "on" =>
    property[n].value = property[n].base + Cardinality(PausedSteps(n))

\* The nodes the frame draws and those whose flags PostRender resets exist.
NothingUsedIsFreed == pc = "render" => (instructions \cup updatedOwners) \cap freed = {}

\* What is discarded is deleted even if nothing else keeps the loop running.
NothingDiscardedAtRest == AtRest => discardQueue = {}

\* The loop stops with nothing left behind.
RestIsClean == RestsAtBase /\ NothingDiscardedAtRest

\* An application that sends no more messages comes to rest once its animations
\* are over: no flag keeps the loop running for ever.
ComesToRest == <>[]AtRest
=============================================================================
