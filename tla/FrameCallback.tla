----------------------------- MODULE FrameCallback -----------------------------
(***************************************************************************)
(* Frame callbacks: an application object, the FrameCallbackInterface,     *)
(* whose Update is called on the update thread in every frame, until the   *)
(* event thread removes it or its root node is destroyed.                  *)
(*                                                                         *)
(* The interface and its SceneGraph::FrameCallback know each other.  The   *)
(* event thread makes the link when it adds the interface; either thread   *)
(* cuts it, under the mutex of the SceneGraph::FrameCallback, in           *)
(* Invalidate.  The FrameCallbackProcessor of the update thread owns the   *)
(* SceneGraph::FrameCallbacks and destroys the ones that are not valid.    *)
(*                                                                         *)
(* Messages travel in order, as MessageQueue promises.  What Update does   *)
(* with the nodes, and how they are looked up, is abstracted.              *)
(***************************************************************************)
EXTENDS Naturals, Sequences, Queues

CONSTANTS
  Interfaces,   \* the FrameCallbackInterfaces of the application
  Roots,        \* the root actors they are added with
  Callbacks,    \* the SceneGraph::FrameCallbacks the heap can hold (bound)
  None,         \* no callback, no root: a global frame callback
  MaxCalls      \* bound: API calls of a behaviour

ASSUME CallbackAssumption ==
  /\ None \notin Callbacks \cup Roots /\ MaxCalls \in Nat

VARIABLES
  link,         \* mSceneGraphFrameCallback, for each interface (no lock)
  heap,         \* the SceneGraph::FrameCallbacks that are allocated
  callback,     \* SceneGraph::FrameCallback
  callbacks,    \* mFrameCallbacks of the processor
  roots,        \* the root actors the application has not dropped
  inbox,        \* messages to the update thread
  eventPc,      \* where the event thread is
  removing,     \* the interface RemoveFrameCallback is about, and the
  linked,       \*   SceneGraph::FrameCallback that it was linked to
  updatePc,     \* where the update thread is
  buffer,       \* messages it has yet to process
  position,     \* in mFrameCallbacks
  leaving,      \* callbacks that did not ask to be called again
  syncPoint,    \* sSyncPoint
  calls,        \* history: API calls made
  added,        \* history: interfaces that were added and not removed since
  notified,     \* history: sync points sent while a callback was linked
  popped        \* history: sync points a callback's interface has popped

removeVars  == <<eventPc, removing, linked>>
updateVars  == <<updatePc, buffer, position, leaving>>
historyVars == <<calls, added, notified, popped>>
vars == <<link, heap, callback, callbacks, roots, inbox, removeVars, updateVars, syncPoint,
          historyVars>>

SyncPoints == 1 .. MaxCalls
Callback == [interface : Interfaces \cup {None}, root : Roots \cup {None},
             valid : BOOLEAN, proxy : BOOLEAN,
             syncPoints : Seq(SyncPoints), proxySyncPoints : Seq(SyncPoints)]
Message == [op : {"Add"}, callback : Callbacks, root : Roots \cup {None}]
             \cup [op : {"Remove"}, interface : Interfaces]
             \cup [op : {"Notify"}, interface : Interfaces, syncPoint : SyncPoints]
             \cup [op : {"Destroy"}, root : Roots]

\* mMutex: the update thread holds it while the interface's Update runs.
Locked(c) == updatePc = "calling" /\ callbacks[position] = c

TypeOK ==
  /\ link \in [Interfaces -> Callbacks \cup {None}]
  /\ heap \subseteq Callbacks /\ callback \in [Callbacks -> Callback]
  /\ callbacks \in Seq(Callbacks) /\ roots \subseteq Roots
  /\ inbox \in Seq(Message) /\ buffer \in Seq(Message)
  /\ eventPc \in {"idle", "invalidate"} /\ removing \in Interfaces \cup {None}
  /\ linked \in Callbacks \cup {None}
  /\ updatePc \in {"idle", "messages", "callbacks", "calling"}
  /\ position \in Nat /\ leaving \subseteq Callbacks
  /\ syncPoint \in 0 .. MaxCalls /\ calls \in 0 .. MaxCalls
  /\ added \subseteq Interfaces
  /\ notified \in [Callbacks -> Seq(SyncPoints)] /\ popped \in [Callbacks -> Seq(SyncPoints)]

Unused == [interface |-> None, root |-> None, valid |-> FALSE, proxy |-> FALSE,
           syncPoints |-> << >>, proxySyncPoints |-> << >>]

Init ==
  /\ link = [i \in Interfaces |-> None]
  /\ heap = {} /\ callback = [c \in Callbacks |-> Unused] /\ callbacks = << >>
  /\ roots = Roots /\ inbox = << >>
  /\ eventPc = "idle" /\ removing = None /\ linked = None
  /\ updatePc = "idle" /\ buffer = << >> /\ position = 1 /\ leaving = {}
  /\ syncPoint = 0 /\ calls = 0 /\ added = {}
  /\ notified = [c \in Callbacks |-> << >>] /\ popped = [c \in Callbacks |-> << >>]

\* Invalidate of the callbacks in the set, which are not locked.  Mutant: a
\* callback that is not valid cuts the link it no longer has.
CutAnyway(s) ==
  /\ link' = [i \in Interfaces |-> IF \E c \in s : callback[c].interface = i
                                   THEN None ELSE link[i]]
Cut(s) ==
  /\ link' = [i \in Interfaces |-> IF \E c \in s : callback[c].valid /\ callback[c].interface = i
                                   THEN None ELSE link[i]]

(***************************************************************************)
(* Event thread                                                            *)
(***************************************************************************)
Call ==
  /\ eventPc = "idle"
  /\ calls < MaxCalls /\ calls' = calls + 1

\* AddFrameCallback and AddGlobalFrameCallback, which assert that there is no
\* link.
AddFrameCallback(i, root) ==
  /\ Call
  /\ link[i] = None
  /\ root \in roots \cup {None}
  /\ \E c \in Callbacks \ heap :
       /\ heap' = heap \cup {c}
       /\ callback' = [callback EXCEPT ![c] = [Unused EXCEPT !.interface = i, !.valid = TRUE]]
       /\ link' = [link EXCEPT ![i] = c]
       /\ inbox' = Append(inbox, [op |-> "Add", callback |-> c, root |-> root])
       /\ notified' = [notified EXCEPT ![c] = << >>] /\ popped' = [popped EXCEPT ![c] = << >>]
  /\ added' = added \cup {i}
  /\ UNCHANGED <<callbacks, roots, removeVars, updateVars, syncPoint>>

\* RemoveFrameCallback, also from ~FrameCallbackInterface: the link is read,
RemoveFrameCallback(i) ==
  /\ Call
  /\ removing' = i /\ linked' = link[i]
  /\ eventPc' = "invalidate"
  /\ UNCHANGED <<link, heap, callback, callbacks, roots, inbox, updateVars, syncPoint, added,
                 notified, popped>>

\* Mutant of WaitsFor: the mutex is not taken.
WaitsForNothing(c) == TRUE
WaitsFor(c) == ~Locked(c)

\* then used.  Update may have destroyed the callback in between; its memory
\* is then taken to be as it was left, which is not valid.
Invalidate ==
  /\ eventPc = "invalidate"
  /\ IF linked = None THEN UNCHANGED <<link, callback>>
     ELSE /\ WaitsFor(linked)
          /\ Cut({linked})
          /\ callback' = [callback EXCEPT ![linked].valid = FALSE]
  /\ inbox' = Append(inbox, [op |-> "Remove", interface |-> removing])
  /\ added' = added \ {removing}
  /\ eventPc' = "idle" /\ removing' = None /\ linked' = None
  /\ UNCHANGED <<heap, callbacks, roots, updateVars, syncPoint, calls, notified, popped>>

NotifyFrameCallback(i) ==
  /\ Call
  /\ syncPoint' = syncPoint + 1
  /\ inbox' = Append(inbox, [op |-> "Notify", interface |-> i, syncPoint |-> syncPoint'])
  /\ notified' = IF link[i] = None THEN notified
                 ELSE [notified EXCEPT ![link[i]] = Append(@, syncPoint')]
  /\ UNCHANGED <<link, heap, callback, callbacks, roots, removeVars, updateVars, added, popped>>

\* The last handle of a root actor is dropped.
DropRoot(n) ==
  /\ Call
  /\ n \in roots /\ roots' = roots \ {n}
  /\ inbox' = Append(inbox, [op |-> "Destroy", root |-> n])
  /\ UNCHANGED <<link, heap, callback, callbacks, removeVars, updateVars, syncPoint, added,
                 notified, popped>>

(***************************************************************************)
(* Update thread                                                           *)
(***************************************************************************)
UpdateBegin ==
  /\ updatePc = "idle"
  /\ updatePc' = "messages"
  /\ buffer' = inbox /\ inbox' = << >>
  /\ UNCHANGED <<link, heap, callback, callbacks, roots, removeVars, position, leaving,
                 syncPoint, historyVars>>

NextMessage(op) ==
  /\ updatePc = "messages"
  /\ buffer # << >> /\ Head(buffer).op = op
  /\ buffer' = Tail(buffer)
  /\ UNCHANGED <<roots, inbox, removeVars, updatePc, position, leaving, syncPoint,
                 historyVars>>

\* FrameCallbackProcessor::AddFrameCallback gives it an UpdateProxy and lets
\* it observe its root.
ProcessAdd ==
  /\ NextMessage("Add")
  /\ LET m == Head(buffer)
     IN  /\ callback' = [callback EXCEPT ![m.callback].proxy = TRUE, ![m.callback].root = m.root]
         /\ callbacks' = Append(callbacks, m.callback)
  /\ UNCHANGED <<link, heap>>

\* Callbacks are taken out of mFrameCallbacks and destroyed, which
\* invalidates them.
Destroy(s) ==
  /\ callbacks' = Only(callbacks, Callbacks \ s)
  /\ heap' = heap \ s
  /\ Cut(s)
  /\ callback' = [c \in Callbacks |-> IF c \in s THEN [callback[c] EXCEPT !.valid = FALSE]
                                      ELSE callback[c]]

\* RemoveFrameCallback destroys all that have the interface.
OfInterface(i) == {c \in Callbacks : c \in Elements(callbacks) /\ callback[c].interface = i}

ProcessRemove == NextMessage("Remove") /\ Destroy(OfInterface(Head(buffer).interface))

\* NotifyFrameCallback: the first that has the interface, if any.  Mutant:
\* newest sync point first.
SyncPointFirst(s, n) == << n >> \o s
SyncPointLast(s, n) == Append(s, n)
ProcessNotify ==
  /\ NextMessage("Notify")
  /\ LET m == Head(buffer)
         found == Only(callbacks, OfInterface(m.interface))
     IN  callback' = IF found = << >> THEN callback
                     ELSE [callback EXCEPT ![found[1]].syncPoints =
                                              SyncPointLast(@, m.syncPoint)]
  /\ UNCHANGED <<link, heap, callbacks>>

\* PropertyOwnerDestroyed, for the callbacks that observe the root.
ProcessDestroy ==
  /\ NextMessage("Destroy")
  /\ LET observers == {c \in Callbacks : /\ c \in Elements(callbacks)
                                        /\ callback[c].root = Head(buffer).root}
     IN  /\ Cut(observers)
         /\ callback' = [c \in Callbacks |->
                           IF c \in observers
                           THEN [callback[c] EXCEPT !.root = None, !.proxy = FALSE, !.valid = FALSE]
                           ELSE callback[c]]
  /\ UNCHANGED <<heap, callbacks>>

MessagesEnd ==
  /\ updatePc = "messages"
  /\ buffer = << >>
  /\ updatePc' = "callbacks" /\ position' = 1
  /\ UNCHANGED <<link, heap, callback, callbacks, roots, inbox, removeVars, buffer, leaving,
                 syncPoint, historyVars>>

\* Mutant of Continues: a callback that still has a proxy is kept.
KeptByProxy(c) == TRUE
Continues(c) == callback[c].proxy /\ callback[c].valid

\* FrameCallback::Update: the sync points are handed to the proxy, and under
\* the mutex the interface is called if it is still valid.
CallbackUpdate ==
  /\ updatePc = "callbacks"
  /\ position <= Len(callbacks)
  /\ \E c \in Callbacks :
       /\ c = callbacks[position]
       /\ callback' = IF callback[c].proxy
                      THEN [callback EXCEPT ![c].proxySyncPoints = @ \o callback[c].syncPoints,
                                            ![c].syncPoints = << >>]
                      ELSE callback
       /\ IF callback[c].proxy /\ callback[c].valid
          THEN updatePc' = "calling" /\ UNCHANGED position
          ELSE position' = position + 1 /\ UNCHANGED updatePc
       /\ leaving' = IF Continues(c) THEN leaving ELSE leaving \cup {c}
  /\ UNCHANGED <<link, heap, callbacks, roots, inbox, removeVars, buffer, syncPoint, historyVars>>

\* The interface, in its Update, asks for a sync point.
PopSyncPoint ==
  /\ updatePc = "calling"
  /\ LET c == callbacks[position]
     IN  /\ callback[c].proxySyncPoints # << >>
         /\ popped' = [popped EXCEPT ![c] = Append(@, Head(callback[c].proxySyncPoints))]
         /\ callback' = [callback EXCEPT ![c].proxySyncPoints = Tail(@)]
  /\ UNCHANGED <<link, heap, callbacks, roots, inbox, removeVars, updateVars, syncPoint, calls,
                 added, notified>>

CallbackReturns ==
  /\ updatePc = "calling"
  /\ updatePc' = "callbacks" /\ position' = position + 1
  /\ UNCHANGED <<link, heap, callback, callbacks, roots, inbox, removeVars, buffer, leaving,
                 syncPoint, historyVars>>

\* FrameCallbackProcessor::Update ends: those that did not ask for another
\* call are destroyed.  A callback that was invalidated after its call is not
\* among them, and waits for the message that removes it.
CallbacksEnd ==
  /\ updatePc = "callbacks"
  /\ position > Len(callbacks)
  /\ Destroy(leaving)
  /\ updatePc' = "idle" /\ position' = 1 /\ leaving' = {}
  /\ UNCHANGED <<roots, inbox, removeVars, buffer, syncPoint, historyVars>>

EventCalls ==
  \/ \E i \in Interfaces : RemoveFrameCallback(i) \/ NotifyFrameCallback(i)
  \/ \E i \in Interfaces, n \in Roots \cup {None} : AddFrameCallback(i, n)
  \/ \E n \in Roots : DropRoot(n)
UpdateRuns == \/ ProcessAdd \/ ProcessRemove \/ ProcessNotify \/ ProcessDestroy \/ MessagesEnd
              \/ CallbackUpdate \/ CallbackReturns \/ CallbacksEnd

Next == EventCalls \/ Invalidate \/ UpdateBegin \/ UpdateRuns \/ PopSyncPoint

Spec == Init /\ [][Next]_vars

(***************************************************************************)
(* Fairness: the update thread runs on and takes the messages it was sent, *)
(* for which an Update is requested; the interface's Update returns.  The  *)
(* event thread gets the mutex.                                            *)
(***************************************************************************)
CallbackFairness ==
  /\ WF_vars(UpdateRuns) /\ SF_vars(Invalidate)
  /\ WF_vars(inbox # << >> /\ UpdateBegin)
FairSpec == Spec /\ CallbackFairness

(***************************************************************************)
(* Properties                                                              *)
(***************************************************************************)
\* Once RemoveFrameCallback has returned, the interface is not being called
\* and is not called before it is added again: the application may destroy
\* it, whatever the update thread was about to do.
RemovedIsNotCalled ==
  updatePc = "calling" => callback[callbacks[position]].interface \in added

\* The link of an interface is that of its valid callback, if there is one,
\* which is one at most: an invalidation that comes late, from the other
\* thread or from a destruction, leaves the link of a newer callback alone.
LinkIsExact ==
  \A i \in Interfaces, c \in Callbacks :
    link[i] = c <=> c \in heap /\ callback[c].valid /\ callback[c].interface = i

\* The sync points of a callback: those its interface has popped, those it can
\* pop, and those it will be given.
Here(c) == popped[c] \o callback[c].proxySyncPoints \o callback[c].syncPoints

\* The messages that are on their way to the update thread.
Coming == buffer \o inbox
OnTheWay(i) == {k \in DOMAIN Coming : Coming[k].op = "Notify" /\ Coming[k].interface = i}

\* Every sync point that is sent while an interface is linked reaches it, once
\* and in order: it is in the callback or on its way there, behind all that
\* are in the callback.  No callback that is being replaced takes a sync point
\* of its successor.
SyncPointsInOrder ==
  \A i \in Interfaces :
    link[i] # None =>
      LET c == link[i]
      IN  /\ Ascending(Here(c))
          /\ \A k \in OnTheWay(i) :
               /\ \A n \in Elements(Here(c)) : n < Coming[k].syncPoint
               /\ \A l \in OnTheWay(i) : k < l => Coming[k].syncPoint < Coming[l].syncPoint
          /\ Elements(notified[c]) \subseteq
               Elements(Here(c)) \cup {Coming[k].syncPoint : k \in OnTheWay(i)}

\* A callback that is not valid any more is destroyed in the end: by the
\* message of RemoveFrameCallback, or, when its root was destroyed, by the
\* processor.
InvalidIsFreed ==
  \A c \in Callbacks : c \in heap /\ ~callback[c].valid ~> c \notin heap
================================================================================
