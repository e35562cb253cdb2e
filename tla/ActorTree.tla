------------------------------ MODULE ActorTree ------------------------------
(***************************************************************************)
(* The actor tree of the event thread, with callbacks of the application   *)
(* that change the tree while a change of it is under way.                 *)
(*                                                                         *)
(* Add, SwitchParent, Unparent, Remove and RemoveAll first change the tree *)
(* and the on-scene state of a whole subtree, which no callback can        *)
(* interrupt, and then tell the application: SceneConnected or             *)
(* SceneDisconnected for each actor of the subtree, the visibility signal, *)
(* ChildAdded or ChildRemoved.  A callback may call any of them again; the *)
(* calls under way are the frames of a stack, innermost first.             *)
(*                                                                         *)
(* The messages to the update thread are applied in the order they are     *)
(* sent, as MessageQueue promises, and nothing else changes the nodes: the *)
(* node tree here is what it is once all that was sent has been processed. *)
(* Handles of all actors are kept; layers, depth, relayout and render      *)
(* tasks are left out.                                                     *)
(***************************************************************************)
EXTENDS Naturals, FiniteSets, Sequences, SequencesExt, Queues

CONSTANTS
  Actors,        \* the actors besides the root layer
  Root, None,
  InitTrees,     \* the trees a behaviour starts from: children of each actor
  MaxCalls       \* bound: API calls of a behaviour

Family == Actors \cup {Root}

\* Each actor is in one list of children at most, and no actor is under itself.
IsForest(tree) ==
  /\ tree \in [Family -> Seq(Actors)]
  /\ \A p, q \in Family : /\ NoRepeats(tree[p])
                          /\ p # q => Elements(tree[p]) \cap Elements(tree[q]) = {}
  /\ \E depth \in [Family -> 0 .. Cardinality(Actors)] :
       \A p \in Family, c \in Actors : c \in Elements(tree[p]) => depth[p] < depth[c]

ASSUME ActorAssumption ==
  /\ IsFiniteSet(Actors) /\ Root \notin Actors /\ None \notin Family
  /\ \A tree \in InitTrees : IsForest(tree)
  /\ MaxCalls \in Nat

Assertions == {"SetParent", "RecursiveConnectToScene", "ConnectNode", "DisconnectNode"}

VARIABLES
  parent,        \* mParent
  children,      \* mChildren
  onScene,       \* mIsOnScene
  scene,         \* mScene is set
  signalled,     \* mSceneConnectedSignalled
  nodeParent,    \* Node::mParent
  callStack,     \* calls under way
  calls,         \* history: calls made
  failed,        \* history: the assertions that have failed
  cutShort       \* history: an actor left the scene during its RemoveAll

treeVars    == <<parent, children>>
onSceneVars == <<onScene, scene>>
historyVars == <<calls, failed, cutShort>>
actorVars == <<treeVars, onSceneVars, signalled, nodeParent, callStack, historyVars>>

CallFrame == [op : {"Add"}, owner : Family, child : Actors, notify : BOOLEAN,
          pc : {"attach", "callback"}]
           \cup [op : {"Remove"}, owner : Family, list : Seq(Actors), notify : BOOLEAN,
                 pc : {"cut", "uncouple", "callback"}]
           \cup [op : {"Connected", "Disconnected"}, list : Seq(Actors), notify : BOOLEAN,
                 pc : {"next", "callback"}]

TreeTypeOK ==
  /\ parent \in [Family -> Family \cup {None}]
  /\ children \in [Family -> Seq(Actors)]
  /\ onScene \subseteq Family /\ scene \subseteq Family /\ signalled \subseteq Family
  /\ nodeParent \in [Family -> Family \cup {None}]
  /\ callStack \in Seq(CallFrame)
  /\ calls \in 0 .. MaxCalls
  /\ failed \subseteq Assertions /\ cutShort \in BOOLEAN

(***************************************************************************)
(* Trees                                                                   *)
(***************************************************************************)
\* The order in which RecursiveConnectToScene, an actor before its children,
\* and RecursiveDisconnectFromScene, after them, walk the tree under an actor.
Visit(order, x, rest) == IF order = "pre" THEN << x >> \o rest ELSE rest \o << x >>
Walk(order, a) ==
  LET walk[x \in Family] ==
        Visit(order, x, FlattenSeq([k \in DOMAIN children[x] |-> walk[children[x][k]]]))
  IN  walk[a]
PreOrder(a) == Walk("pre", a)
PostOrder(a) == Walk("post", a)

\* Whether x is a or under it, by the pointers to the parents: it is in every
\* set that holds a and all whose parent it holds.
IsUnder(up, x, a) ==
  \A S \in SUBSET Family :
    a \in S /\ (\A y \in Family : up[y] \in S => y \in S) => x \in S

ParentIn(tree, a) ==
  IF \E p \in Family : a \in ToSet(tree[p])
  THEN CHOOSE p \in Family : a \in ToSet(tree[p]) ELSE None

TreeInit ==
  /\ children \in InitTrees
  /\ parent = [a \in Family |-> ParentIn(children, a)]
  /\ onScene = {a \in Family : IsUnder(parent, a, Root)}
  /\ scene = onScene /\ signalled = onScene
  /\ nodeParent = [a \in Family |-> IF a \in onScene THEN parent[a] ELSE None]
  /\ callStack = << >> /\ calls = 0
  /\ failed = {} /\ cutShort = FALSE

Inner == callStack[1]
Below == Tail(callStack)
At(op, pc) == callStack # << >> /\ Inner.op \in op /\ Inner.pc = pc
InnerAt(pc) == [Inner EXCEPT !.pc = pc]

(***************************************************************************)
(* Calls of the application: outside of all callbacks or in one.           *)
(***************************************************************************)
Call ==
  /\ callStack # << >> => Inner.pc = "callback"
  /\ calls < MaxCalls /\ calls' = calls + 1
  /\ UNCHANGED <<parent, onSceneVars, signalled, nodeParent, failed, cutShort>>

AddFrame(p, c, notify) ==
  [op |-> "Add", owner |-> p, child |-> c, notify |-> notify, pc |-> "attach"]
RemoveFrame(p, list, notify, pc) ==
  [op |-> "Remove", owner |-> p, list |-> list, notify |-> notify, pc |-> pc]

\* ActorParentImpl::Remove takes the child out of mChildren.  A child that is
\* not there is not touched, but ChildRemoved is emitted all the same.
Erased(p, c) == [children EXCEPT ![p] = EraseFirst(@, c)]
RemoveOf(p, c, notify) ==
  RemoveFrame(p, << c >>, notify, IF c \in ToSet(children[p]) THEN "cut" ELSE "callback")

\* Add, or SwitchParent, which tells the application nothing.  The child first
\* leaves its parent.  Precondition: an actor is not added under itself.
AddChild(p, c, notify) ==
  /\ Call
  /\ ~IsUnder(parent, p, c)
  /\ parent[c] # p
  /\ IF parent[c] = None
     THEN UNCHANGED children /\ callStack' = << AddFrame(p, c, notify) >> \o callStack
     ELSE /\ children' = Erased(parent[c], c)
          /\ callStack' = (IF notify \/ c \in ToSet(children[parent[c]])
                       THEN << RemoveOf(parent[c], c, notify) >> ELSE << >>)
                        \o << AddFrame(p, c, notify) >> \o callStack
Add(p, c) == AddChild(p, c, TRUE)
SwitchParent(p, c) == (c \in onScene <=> p \in onScene) /\ AddChild(p, c, FALSE)

Unparent(c) ==
  /\ Call
  /\ parent[c] # None
  /\ children' = Erased(parent[c], c)
  /\ callStack' = << RemoveOf(parent[c], c, TRUE) >> \o callStack

RemoveAll(p) ==
  /\ Call
  /\ children[p] # << >>
  /\ children' = [children EXCEPT ![p] = << >>]
  /\ callStack' = << RemoveFrame(p, children[p], TRUE, "cut") >> \o callStack

(***************************************************************************)
(* SetParent, up to the signals                                            *)
(***************************************************************************)
Notification(op, list, notify) ==
  [op |-> op, list |-> list, notify |-> notify, pc |-> "next"]

\* The actors that RemoveAll has taken out of mChildren but not yet detached;
\* whether their parent is in a subtree, whose walk does not reach them.
Pending(f) == IF f.op # "Remove" THEN {}
              ELSE ToSet(IF f.pc = "cut" THEN f.list ELSE Tail(f.list))
AllPending == UNION {Pending(callStack[k]) : k \in DOMAIN callStack}
CutsShort(sub) == \E k \in 2 .. Len(callStack) :
                    Pending(callStack[k]) # {} /\ callStack[k].owner \in sub

\* Another parent may have been given in a ChildRemoved callback.  Mutant:
\* that is not looked at.
MayAttachAlways(c) == TRUE
MayAttach(c) == parent[c] = None

\* ConnectNode asserts: no node has a parent, the parent is in the tree.
NodesConnect(p, list) == /\ \A k \in DOMAIN list : nodeParent[list[k]] = None
                         /\ p = Root \/ nodeParent[p] # None

Failing(assertion, fails) == IF fails THEN {assertion} ELSE {}

Skip ==
  /\ At({"Add"}, "attach") /\ ~MayAttach(Inner.child)
  /\ callStack' = Below
  /\ UNCHANGED <<treeVars, onSceneVars, signalled, nodeParent, historyVars>>

Attach ==
  /\ At({"Add"}, "attach") /\ MayAttach(Inner.child)
  /\ ~IsUnder(parent, Inner.owner, Inner.child)
  /\ LET p == Inner.owner
         c == Inner.child
     IN  /\ children' = [children EXCEPT ![p] = Append(@, c)]
         /\ parent' = [parent EXCEPT ![c] = p]
         /\ IF p \in onScene
            THEN LET list == PreOrder(c)
                     sub == ToSet(list)
                 IN  /\ onScene' = onScene \cup sub
                     /\ scene' = IF p \in scene THEN scene \cup sub ELSE scene \ sub
                     /\ nodeParent' = [a \in Family |-> IF a \in sub THEN parent'[a]
                                                        ELSE nodeParent[a]]
                     /\ failed' = failed \cup Failing("SetParent", parent[c] # None)
                                    \cup Failing("RecursiveConnectToScene", sub \cap onScene # {})
                                    \cup Failing("ConnectNode", ~NodesConnect(p, list))
                     /\ cutShort' = (cutShort \/ CutsShort(sub))
                     /\ callStack' = << Notification("Connected", list, Inner.notify),
                                    InnerAt("callback") >> \o Below
            ELSE /\ callStack' = IF Inner.notify THEN << InnerAt("callback") >> \o Below ELSE Below
                 /\ scene' = IF p \in scene THEN scene \cup {c} ELSE scene \ {c}
                 /\ failed' = failed \cup Failing("SetParent", parent[c] # None)
                 /\ UNCHANGED <<onScene, nodeParent, cutShort>>
  /\ UNCHANGED <<signalled, calls>>

\* The walk of RecursiveDisconnectFromScene.  Mutant: of one level only.
LeavingOneLevel(a) == children[a] \o << a >>
Leaving(a) == PostOrder(a)

\* SetParent(nullptr), of an actor that is on the scene or not.
Cut ==
  /\ At({"Remove"}, "cut")
  /\ LET c == Head(Inner.list)
         list == Leaving(c)
         sub == ToSet(list)
     IN  /\ parent' = [parent EXCEPT ![c] = None]
         /\ IF c \in onScene
            THEN /\ onScene' = onScene \ sub /\ scene' = scene \ sub
                 /\ nodeParent' = [a \in Family |-> IF IsUnder(nodeParent, a, c) THEN None
                                                    ELSE nodeParent[a]]
                 /\ failed' = failed \cup Failing("DisconnectNode", nodeParent[c] = None)
                 /\ cutShort' = (cutShort \/ CutsShort(sub))
                 /\ callStack' = << Notification("Disconnected", list, Inner.notify),
                                InnerAt("uncouple") >> \o Below
            ELSE /\ scene' = scene \ {c}
                 /\ callStack' = IF Inner.notify THEN << InnerAt("callback") >> \o Below ELSE Below
                 /\ UNCHANGED <<onScene, nodeParent, failed, cutShort>>
  /\ UNCHANGED <<children, signalled, calls>>

\* The end of SetParent(nullptr), after the SceneDisconnected signals.
Uncouple ==
  /\ At({"Remove"}, "uncouple")
  /\ scene' = scene \ {Head(Inner.list)}
  /\ callStack' = << InnerAt("callback") >> \o Below
  /\ UNCHANGED <<treeVars, onScene, signalled, nodeParent, historyVars>>

(***************************************************************************)
(* Signals                                                                 *)
(***************************************************************************)
\* The guards of NotifySceneConnection and NotifySceneDisconnection.
MustTell(op, a) ==
  IF op = "Connected" THEN a \in onScene \ signalled ELSE a \in signalled \ onScene

\* The state after the callback, which may have changed the tree.  Mutant: it
\* is not looked at again.
SignalledAlways(op, a) == IF op = "Connected" THEN signalled \cup {a} ELSE signalled \ {a}
SignalledAfter(op, a) ==
  IF op = "Connected" THEN signalled \cup ({a} \cap onScene) ELSE signalled \ ({a} \ onScene)

Notices == {"Connected", "Disconnected"}

NotifyNext ==
  /\ At(Notices, "next")
  /\ Inner.list # << >>
  /\ LET a == Head(Inner.list)
         tell == MustTell(Inner.op, a)
     IN  /\ callStack' = << IF tell /\ Inner.notify THEN InnerAt("callback")
                        ELSE [Inner EXCEPT !.list = Tail(@)] >> \o Below
         /\ signalled' = IF tell /\ ~Inner.notify THEN SignalledAfter(Inner.op, a) ELSE signalled
  /\ UNCHANGED <<treeVars, onSceneVars, nodeParent, calls, failed, cutShort>>

NotifyReturns ==
  /\ At(Notices, "callback")
  /\ signalled' = SignalledAfter(Inner.op, Head(Inner.list))
  /\ callStack' = << [Inner EXCEPT !.pc = "next", !.list = Tail(@)] >> \o Below
  /\ UNCHANGED <<treeVars, onSceneVars, nodeParent, historyVars>>

NotifyEnd ==
  /\ At(Notices, "next")
  /\ Inner.list = << >>
  /\ callStack' = Below
  /\ UNCHANGED <<treeVars, onSceneVars, signalled, nodeParent, historyVars>>

\* ChildAdded or the visibility signal returns, and with it Add.
AddReturns ==
  /\ At({"Add"}, "callback")
  /\ callStack' = Below
  /\ UNCHANGED <<treeVars, onSceneVars, signalled, nodeParent, historyVars>>

\* ChildRemoved or the visibility signal returns: RemoveAll goes on.
RemoveReturns ==
  /\ At({"Remove"}, "callback")
  /\ callStack' = IF Len(Inner.list) = 1 THEN Below
              ELSE << [Inner EXCEPT !.pc = "cut", !.list = Tail(@)] >> \o Below
  /\ UNCHANGED <<treeVars, onSceneVars, signalled, nodeParent, historyVars>>

Calls == \/ \E p \in Family, c \in Actors : Add(p, c) \/ SwitchParent(p, c)
         \/ \E c \in Actors : Unparent(c)
         \/ \E p \in Family : RemoveAll(p)
Runs == \/ Skip \/ Attach \/ Cut \/ Uncouple \/ NotifyNext \/ NotifyReturns \/ NotifyEnd
        \/ AddReturns \/ RemoveReturns

TreeNext == Calls \/ Runs

TreeSpec == TreeInit /\ [][TreeNext]_actorVars

(***************************************************************************)
(* Properties                                                              *)
(***************************************************************************)
\* While no RemoveAll is disturbed, a child is in mChildren of its parent,
\* once, and in no other: whatever callbacks do between the steps of a call.
ChildrenAgree ==
  \A p \in Family :
    /\ NoRepeats(children[p])
    /\ ToSet(children[p]) = {c \in Actors : parent[c] = p /\ c \notin AllPending}

\* The scene-graph and the on-scene state of every actor follow the tree in
\* every callback, the assertions of SetParent, RecursiveConnectToScene,
\* ConnectNode and DisconnectNode hold, and the update thread will have the
\* tree that the event thread has: unless the parent of a RemoveAll enters or
\* leaves the scene in one of its callbacks.
NodesFollowActors ==
  ~cutShort => /\ failed = {}
               /\ onScene = {a \in Family : IsUnder(parent, a, Root)}
               /\ nodeParent = [a \in Family |-> IF a \in onScene THEN parent[a] ELSE None]

\* mSceneConnectedSignalled, which decides whether the next change is told, is
\* right again when all are notified that a change is about: a callback that
\* moves an actor does not leave it deaf to later changes.
SignalledWhenSettled ==
  \A a \in Actors :
    ~(a \in signalled <=> a \in onScene) =>
      \E k \in DOMAIN callStack : callStack[k].op \in Notices /\ a \in ToSet(callStack[k].list)

\* update-manager.cpp:565: "DALI_ASSERT_ALWAYS(nullptr != parent);"
DisconnectNodeAssertion == "DisconnectNode" \notin failed
===============================================================================
