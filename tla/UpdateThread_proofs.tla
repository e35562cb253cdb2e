--------------------------- MODULE UpdateThread_proofs ---------------------------
(***************************************************************************)
(* What is proved of the update thread, each for any values of its         *)
(* constants: first the frame callbacks, then the frame loop of            *)
(* UpdateManager, which shares nothing with them.                          *)
(***************************************************************************)
EXTENDS UpdateManager, FrameCallback, Queues_proofs

-----------------------------------------------------------------------------
(***************************************************************************)
(* Both halves of a frame callback agree on who is linked, and a removed   *)
(* interface is not called, for every number of interfaces, roots and      *)
(* calls.  LinkIsExact alone is inductive up to the death of a callback;   *)
(* RemovedIsNotCalled needs to know, beside it, that what the event thread *)
(* has read of a link is not outdated by anything but a cut, and that what *)
(* is being called stays valid while it is locked.                         *)
(***************************************************************************)
Types ==
  /\ link \in [Interfaces -> Callbacks \cup {None}]
  /\ heap \subseteq Callbacks /\ callback \in [Callbacks -> Callback]
  /\ inbox \in Seq(Message) /\ buffer \in Seq(Message)
  /\ roots \subseteq Roots
  /\ eventPc \in {"idle", "invalidate"} /\ linked \in Callbacks \cup {None}
  /\ updatePc \in {"idle", "messages", "callbacks", "calling"} /\ leaving \subseteq Callbacks
  /\ syncPoint \in Nat /\ calls \in Nat /\ syncPoint <= calls /\ calls <= MaxCalls

\* A callback that was destroyed has been invalidated; one that is valid was
\* made for an interface.
ValidIsAllocated ==
  \A c \in Callbacks : callback[c].valid => c \in heap /\ callback[c].interface \in Interfaces

LinkedIsAdded == \A i \in Interfaces : link[i] # None => i \in added

\* Between its two steps RemoveFrameCallback holds the link, or one that has
\* been cut since.
ReadLinkIsGood ==
  eventPc = "invalidate" => removing \in Interfaces /\ link[removing] \in {linked, None}

\* What is being called is valid, and stays so under its mutex.
CalledIsValid ==
  updatePc = "calling" =>
    callbacks[position] \in Callbacks /\ callback[callbacks[position]].valid

Links == LinkIsExact /\ ValidIsAllocated
IInv == Types /\ Links /\ LinkedIsAdded /\ ReadLinkIsGood /\ CalledIsValid

\* A step that touches neither links nor validity.
Steady ==
  /\ link' = link /\ heap' = heap
  /\ callback' \in [Callbacks -> Callback]
  /\ \A c \in Callbacks : /\ callback'[c].valid = callback[c].valid
                          /\ callback'[c].interface = callback[c].interface

LEMMA SteadyKeepsLinks ==
  ASSUME Types, Links, Steady
  PROVE  Links'
  BY DEF Types, Links, LinkIsExact, ValidIsAllocated, Steady

\* A step that invalidates the callbacks in s and frees none but those.
Invalidates(s) ==
  /\ Cut(s)
  /\ heap' \subseteq heap /\ heap \ s \subseteq heap'
  /\ callback' \in [Callbacks -> Callback]
  /\ \A c \in Callbacks : /\ callback'[c].valid <=> callback[c].valid /\ c \notin s
                          /\ callback'[c].interface = callback[c].interface

LEMMA InvalidatesKeepsLinks ==
  ASSUME Types, Links, NEW s \in SUBSET Callbacks, Invalidates(s)
  PROVE  /\ Links'
         /\ link' \in [Interfaces -> Callbacks \cup {None}]
         /\ \A i \in Interfaces : link'[i] \in {link[i], None}
<1>1. /\ link' \in [Interfaces -> Callbacks \cup {None}]
      /\ \A i \in Interfaces :
           link'[i] = IF \E c \in s : callback[c].valid /\ callback[c].interface = i
                      THEN None ELSE link[i]
  BY DEF Types, Invalidates, Cut
<1>2. ASSUME NEW i \in Interfaces, NEW c \in Callbacks, link'[i] = c
      PROVE  c \in heap' /\ callback'[c].valid /\ callback'[c].interface = i
  <2>1. link[i] = c /\ ~\E d \in s : callback[d].valid /\ callback[d].interface = i
    BY <1>1, <1>2, CallbackAssumption
  <2>2. c \in heap /\ callback[c].valid /\ callback[c].interface = i
    BY <2>1 DEF Links, LinkIsExact
  <2> QED
    BY <2>1, <2>2 DEF Invalidates
<1>3. ASSUME NEW i \in Interfaces, NEW c \in Callbacks,
             c \in heap' /\ callback'[c].valid /\ callback'[c].interface = i
      PROVE  link'[i] = c
  <2>1. c \in heap /\ callback[c].valid /\ callback[c].interface = i /\ c \notin s
    BY <1>3 DEF Invalidates
  <2>2. link[i] = c
    BY <2>1 DEF Links, LinkIsExact
  <2>3. ASSUME NEW d \in s, callback[d].valid, callback[d].interface = i PROVE FALSE
    <3>1. d \in heap
      BY <2>3 DEF Links, ValidIsAllocated
    <3>2. link[i] = d
      BY <3>1, <2>3 DEF Links, LinkIsExact
    <3> QED
      BY <3>2, <2>1, <2>2
  <2> QED
    BY <1>1, <2>2, <2>3
<1>4. LinkIsExact'
  BY <1>2, <1>3 DEF LinkIsExact
<1>5. ValidIsAllocated'
  BY DEF Links, ValidIsAllocated, Invalidates
<1> QED
  BY <1>1, <1>4, <1>5 DEF Links

\* Sequences of messages.
LEMMA QueueFacts ==
  ASSUME NEW S, NEW s \in Seq(S)
  PROVE  /\ \A m \in S : Append(s, m) \in Seq(S)
         /\ s # << >> => Head(s) \in S /\ Tail(s) \in Seq(S)
         /\ \A t \in Seq(S) : s \o t \in Seq(S)
         /\ << >> \in Seq(S)
  OBVIOUS

\* The rest of the invariant, for steps of the update thread that leave the
\* event thread alone.
LEMMA UpdateKeepsEvents ==
  ASSUME IInv, UNCHANGED <<removeVars, added>>,
         \A i \in Interfaces : link'[i] \in {link[i], None}
  PROVE  LinkedIsAdded' /\ ReadLinkIsGood'
  BY DEF IInv, LinkedIsAdded, ReadLinkIsGood, removeVars

LEMMA AddKeepsIInv ==
  ASSUME IInv, NEW i \in Interfaces, NEW n \in Roots \cup {None}, AddFrameCallback(i, n)
  PROVE  IInv'
<1>0. Unused \in Callback
  BY QueueFacts DEF Unused, Callback
<1>1. PICK c \in Callbacks \ heap :
        /\ heap' = heap \cup {c}
        /\ callback' = [callback EXCEPT ![c] = [Unused EXCEPT !.interface = i, !.valid = TRUE]]
        /\ link' = [link EXCEPT ![i] = c]
        /\ inbox' = Append(inbox, [op |-> "Add", callback |-> c, root |-> n])
  BY DEF AddFrameCallback
<1>2. [Unused EXCEPT !.interface = i, !.valid = TRUE] \in Callback
  BY <1>0 DEF Callback
<1>3. callback' \in [Callbacks -> Callback] /\ link' \in [Interfaces -> Callbacks \cup {None}]
  BY <1>1, <1>2 DEF IInv, Types
<1>4. [op |-> "Add", callback |-> c, root |-> n] \in Message
  BY <1>1 DEF Message
<1>5. inbox' \in Seq(Message)
  BY <1>1, <1>4, QueueFacts DEF IInv, Types
<1>6. /\ eventPc = "idle" /\ link[i] = None /\ calls' = calls + 1 /\ calls < MaxCalls
      /\ added' = added \cup {i} /\ callbacks' = callbacks /\ roots' = roots
      /\ UNCHANGED <<removeVars, updateVars, syncPoint>>
  BY DEF AddFrameCallback, Call
<1>7. Types'
  BY <1>1, <1>3, <1>5, <1>6, CallbackAssumption DEF IInv, Types, removeVars, updateVars
<1>8. /\ \A d \in Callbacks : d # c => callback'[d] = callback[d]
      /\ callback'[c].valid /\ callback'[c].interface = i
  BY <1>1, <1>2 DEF IInv, Types, Unused, Callback
<1>9. \A j \in Interfaces : link'[j] = IF j = i THEN c ELSE link[j]
  BY <1>1 DEF IInv, Types
<1>10. LinkIsExact'
  <2>1. ASSUME NEW j \in Interfaces, NEW d \in Callbacks
        PROVE  link'[j] = d <=> d \in heap' /\ callback'[d].valid /\ callback'[d].interface = j
    <3>1. link[j] = d <=> d \in heap /\ callback[d].valid /\ callback[d].interface = j
      BY DEF IInv, Links, LinkIsExact
    <3>2. CASE d = c
      BY <3>1, <3>2, <1>1, <1>8, <1>9
    <3>3. CASE d # c
      BY <3>1, <3>3, <1>1, <1>6, <1>8, <1>9, CallbackAssumption
    <3> QED
      BY <3>2, <3>3
  <2> QED
    BY <2>1 DEF LinkIsExact
<1>11. ValidIsAllocated'
  BY <1>1, <1>8 DEF IInv, Links, ValidIsAllocated
<1>12. LinkedIsAdded'
  BY <1>6, <1>9 DEF IInv, LinkedIsAdded
<1>13. ReadLinkIsGood'
  BY <1>6 DEF ReadLinkIsGood, removeVars
<1>14. CalledIsValid'
  <2>1. ASSUME updatePc = "calling"
        PROVE  callbacks[position] \in Callbacks /\ callback'[callbacks[position]].valid
    <3>1. callbacks[position] \in Callbacks /\ callback[callbacks[position]].valid
      BY <2>1 DEF IInv, CalledIsValid
    <3>2. callbacks[position] \in heap
      BY <3>1 DEF IInv, Links, ValidIsAllocated
    <3> QED
      BY <3>1, <3>2, <1>1, <1>8
  <2> QED
    BY <2>1, <1>6 DEF CalledIsValid, updateVars
<1> QED
  BY <1>7, <1>10, <1>11, <1>12, <1>13, <1>14 DEF IInv, Links

\* The second step of RemoveFrameCallback: the link is cut, or is gone
\* already, and what is cut is not being called.
LEMMA InvalidateKeepsIInv ==
  ASSUME IInv, Invalidate
  PROVE  IInv'
<1>1. /\ eventPc = "invalidate" /\ eventPc' = "idle" /\ linked' = None
      /\ inbox' = Append(inbox, [op |-> "Remove", interface |-> removing])
      /\ added' = added \ {removing}
      /\ UNCHANGED <<heap, callbacks, roots, updateVars, syncPoint, calls>>
  BY DEF Invalidate
<1>2. removing \in Interfaces /\ link[removing] \in {linked, None} /\ linked \in Callbacks \cup {None}
  BY <1>1 DEF IInv, ReadLinkIsGood, Types
<1>3. [op |-> "Remove", interface |-> removing] \in Message
  BY <1>2 DEF Message
<1>4. inbox' \in Seq(Message)
  BY <1>1, <1>3, QueueFacts DEF IInv, Types
<1>5. CASE linked = None
  <2>1. link' = link /\ callback' = callback
    BY <1>5 DEF Invalidate
  <2>2. Types'
    BY <2>1, <1>1, <1>4 DEF IInv, Types, updateVars
  <2>3. Links'
    BY <2>1, <1>1 DEF IInv, Links, LinkIsExact, ValidIsAllocated
  <2>4. link[removing] = None
    BY <1>2, <1>5
  <2>5. LinkedIsAdded'
    BY <2>1, <2>4, <1>1 DEF IInv, LinkedIsAdded
  <2>6. ReadLinkIsGood' /\ CalledIsValid'
    BY <2>1, <1>1 DEF IInv, ReadLinkIsGood, CalledIsValid, updateVars
  <2> QED
    BY <2>2, <2>3, <2>5, <2>6 DEF IInv
<1>6. CASE linked # None
  <2>1. /\ linked \in Callbacks /\ ~Locked(linked) /\ Cut({linked})
        /\ callback' = [callback EXCEPT ![linked].valid = FALSE]
    BY <1>2, <1>6 DEF Invalidate, WaitsFor
  <2>2. callback' \in [Callbacks -> Callback]
    BY <2>1 DEF IInv, Types, Callback
  <2>3. \A c \in Callbacks : /\ callback'[c].valid <=> callback[c].valid /\ c \notin {linked}
                             /\ callback'[c].interface = callback[c].interface
    BY <2>1 DEF IInv, Types, Callback
  <2>4. Invalidates({linked})
    BY <2>1, <2>2, <2>3, <1>1 DEF Invalidates
  <2>5. /\ Links'
        /\ link' \in [Interfaces -> Callbacks \cup {None}]
        /\ \A i \in Interfaces : link'[i] \in {link[i], None}
    BY <2>1, <2>4, InvalidatesKeepsLinks DEF IInv
  <2>6. Types'
    BY <2>2, <2>5, <1>1, <1>4 DEF IInv, Types, updateVars
  <2>7. link'[removing] = None
    <3>1. CASE link[removing] = None
      BY <3>1, <2>5, <1>2
    <3>2. CASE link[removing] = linked
      <4>1. callback[linked].valid /\ callback[linked].interface = removing
        BY <3>2, <2>1, <1>2 DEF IInv, Links, LinkIsExact
      <4> QED
        BY <4>1, <2>1, <1>2 DEF Cut
    <3> QED
      BY <3>1, <3>2, <1>2
  <2>8. LinkedIsAdded'
    BY <2>5, <2>7, <1>1 DEF IInv, LinkedIsAdded
  <2>9. CalledIsValid'
    BY <2>1, <2>3, <1>1 DEF IInv, CalledIsValid, Locked, updateVars
  <2>10. ReadLinkIsGood'
    BY <1>1 DEF ReadLinkIsGood
  <2> QED
    BY <2>5, <2>6, <2>8, <2>9, <2>10 DEF IInv
<1> QED
  BY <1>5, <1>6

\* The other calls of the event thread.
LEMMA EventStepKeepsIInv ==
  ASSUME IInv, UNCHANGED <<link, heap, callback, callbacks, updateVars, added>>,
         Types', ReadLinkIsGood'
  PROVE  IInv'
<1>1. Links'
  BY DEF IInv, Links, LinkIsExact, ValidIsAllocated
<1>2. LinkedIsAdded' /\ CalledIsValid'
  BY DEF IInv, LinkedIsAdded, CalledIsValid, updateVars
<1> QED
  BY <1>1, <1>2 DEF IInv

LEMMA CallsKeepIInv ==
  ASSUME IInv, EventCalls
  PROVE  IInv'
<1>1. CASE \E i \in Interfaces : RemoveFrameCallback(i)
  <2>1. PICK i \in Interfaces : RemoveFrameCallback(i)
    BY <1>1
  <2>2. Types'
    BY <2>1, CallbackAssumption DEF IInv, Types, RemoveFrameCallback, Call, updateVars
  <2>3. ReadLinkIsGood'
    BY <2>1 DEF ReadLinkIsGood, RemoveFrameCallback
  <2> QED
    BY <2>1, <2>2, <2>3, EventStepKeepsIInv DEF RemoveFrameCallback
<1>2. CASE \E i \in Interfaces : NotifyFrameCallback(i)
  <2>1. PICK i \in Interfaces : NotifyFrameCallback(i)
    BY <1>2
  <2>2. /\ calls < MaxCalls /\ calls' = calls + 1 /\ syncPoint' = syncPoint + 1
        /\ inbox' = Append(inbox, [op |-> "Notify", interface |-> i, syncPoint |-> syncPoint'])
    BY <2>1 DEF NotifyFrameCallback, Call
  <2>3. syncPoint' \in SyncPoints
    BY <2>2, CallbackAssumption DEF IInv, Types, SyncPoints
  <2>4. [op |-> "Notify", interface |-> i, syncPoint |-> syncPoint'] \in Message
    BY <2>3 DEF Message
  <2>5. inbox' \in Seq(Message)
    BY <2>2, <2>4, QueueFacts DEF IInv, Types
  <2>6. Types'
    BY <2>1, <2>2, <2>5, CallbackAssumption
    DEF IInv, Types, NotifyFrameCallback, removeVars, updateVars
  <2>7. ReadLinkIsGood'
    BY <2>1 DEF IInv, ReadLinkIsGood, NotifyFrameCallback, removeVars
  <2> QED
    BY <2>1, <2>6, <2>7, EventStepKeepsIInv DEF NotifyFrameCallback
<1>3. CASE \E n \in Roots : DropRoot(n)
  <2>1. PICK n \in Roots : DropRoot(n)
    BY <1>3
  <2>2. [op |-> "Destroy", root |-> n] \in Message
    BY DEF Message
  <2>3. inbox' \in Seq(Message)
    BY <2>1, <2>2, QueueFacts DEF IInv, Types, DropRoot
  <2>4. Types'
    BY <2>1, <2>3, CallbackAssumption DEF IInv, Types, DropRoot, Call, removeVars, updateVars
  <2>5. ReadLinkIsGood'
    BY <2>1 DEF IInv, ReadLinkIsGood, DropRoot, removeVars
  <2> QED
    BY <2>1, <2>4, <2>5, EventStepKeepsIInv DEF DropRoot
<1> QED
  BY <1>1, <1>2, <1>3, AddKeepsIInv DEF EventCalls

\* Steps of the update thread.
LEMMA UpdateStepKeepsIInv ==
  ASSUME IInv, UNCHANGED <<removeVars, added, syncPoint, calls, roots>>,
         inbox' \in Seq(Message), buffer' \in Seq(Message),
         updatePc' \in {"idle", "messages", "callbacks", "calling"}, leaving' \subseteq Callbacks,
         CalledIsValid',
         Steady \/ \E s \in SUBSET Callbacks : Invalidates(s)
  PROVE  IInv'
<1>1. /\ Links'
      /\ link' \in [Interfaces -> Callbacks \cup {None}]
      /\ \A i \in Interfaces : link'[i] \in {link[i], None}
      /\ heap' \subseteq Callbacks /\ callback' \in [Callbacks -> Callback]
  <2>1. CASE Steady
    BY <2>1, SteadyKeepsLinks DEF IInv, Types, Steady
  <2>2. CASE \E s \in SUBSET Callbacks : Invalidates(s)
    <3>1. PICK s \in SUBSET Callbacks : Invalidates(s)
      BY <2>2
    <3> QED
      BY <3>1, InvalidatesKeepsLinks DEF IInv, Types, Invalidates
  <2> QED
    BY <2>1, <2>2
<1>2. Types'
  BY <1>1 DEF IInv, Types, removeVars
<1>3. LinkedIsAdded' /\ ReadLinkIsGood'
  BY <1>1, UpdateKeepsEvents
<1> QED
  BY <1>1, <1>2, <1>3 DEF IInv

\* What Cut and the callbacks look like after a destruction of those in s.
LEMMA DestroyInvalidates ==
  ASSUME IInv, NEW s \in SUBSET Callbacks, Destroy(s)
  PROVE  Invalidates(s)
<1>1. /\ Cut(s) /\ heap' = heap \ s
      /\ callback' = [c \in Callbacks |-> IF c \in s THEN [callback[c] EXCEPT !.valid = FALSE]
                                          ELSE callback[c]]
  BY DEF Destroy
<1> QED
  BY <1>1, ZenonT(30) DEF Invalidates, IInv, Types, Callback

\* The messages keep the inbox, and the next is one of Message.
LEMMA NextMessageFacts ==
  ASSUME IInv, NEW op, NextMessage(op)
  PROVE  /\ Head(buffer) \in Message /\ Head(buffer).op = op
         /\ inbox' \in Seq(Message) /\ buffer' \in Seq(Message)
         /\ updatePc' = "messages" /\ leaving' \subseteq Callbacks
         /\ UNCHANGED <<removeVars, added, syncPoint, calls, roots>>
  BY QueueFacts DEF IInv, Types, NextMessage, historyVars

LEMMA MessagesKeepIInv ==
  ASSUME IInv, ProcessAdd \/ ProcessRemove \/ ProcessNotify \/ ProcessDestroy
  PROVE  IInv'
<1>1. CASE ProcessAdd
  <2> DEFINE m == Head(buffer)
  <2>1. NextMessage("Add")
    BY <1>1 DEF ProcessAdd
  <2>2. m.callback \in Callbacks /\ m.root \in Roots \cup {None}
    BY <2>1, NextMessageFacts DEF Message
  <2>3. /\ callback' = [callback EXCEPT ![m.callback].proxy = TRUE, ![m.callback].root = m.root]
        /\ link' = link /\ heap' = heap
    BY <1>1 DEF ProcessAdd
  <2>4. Steady
    BY <2>2, <2>3, ZenonT(30) DEF Steady, IInv, Types, Callback
  <2>5. CalledIsValid'
    BY <2>1, NextMessageFacts DEF CalledIsValid
  <2> QED
    BY <2>1, <2>4, <2>5, NextMessageFacts, UpdateStepKeepsIInv
<1>2. CASE ProcessRemove
  <2>1. NextMessage("Remove") /\ Destroy(OfInterface(Head(buffer).interface))
    BY <1>2 DEF ProcessRemove
  <2>2. OfInterface(Head(buffer).interface) \in SUBSET Callbacks
    BY DEF OfInterface
  <2>3. Invalidates(OfInterface(Head(buffer).interface))
    BY <2>1, <2>2, DestroyInvalidates
  <2>4. CalledIsValid'
    BY <2>1, NextMessageFacts DEF CalledIsValid
  <2> QED
    BY <2>1, <2>2, <2>3, <2>4, NextMessageFacts, UpdateStepKeepsIInv
<1>3. CASE ProcessNotify
  <2> DEFINE m == Head(buffer)
  <2>1. NextMessage("Notify")
    BY <1>3 DEF ProcessNotify
  <2>2. m.syncPoint \in SyncPoints
    BY <2>1, NextMessageFacts DEF Message
  <2>3. \E x : \/ callback' = callback
              \/ callback' = [callback EXCEPT ![x].syncPoints = Append(@, m.syncPoint)]
    BY <1>3 DEF ProcessNotify, SyncPointLast
  <2>4. link' = link /\ heap' = heap
    BY <1>3 DEF ProcessNotify
  <2>5. Steady
    <3>1. CASE callback' = callback
      BY <3>1, <2>4 DEF Steady, IInv, Types
    <3>2. ASSUME NEW x,
                 callback' = [callback EXCEPT ![x].syncPoints = Append(@, m.syncPoint)]
          PROVE  Steady
      <4>1. ASSUME x \in Callbacks
            PROVE  [callback[x] EXCEPT !.syncPoints = Append(@, m.syncPoint)] \in Callback
        <5>1. callback[x].syncPoints \in Seq(SyncPoints)
          BY <4>1 DEF IInv, Types, Callback
        <5>2. Append(callback[x].syncPoints, m.syncPoint) \in Seq(SyncPoints)
          BY <5>1, <2>2, QueueFacts
        <5> QED
          BY <4>1, <5>2 DEF IInv, Types, Callback
      <4>2. callback' \in [Callbacks -> Callback]
        BY <3>2, <4>1 DEF IInv, Types
      <4> QED
        BY <4>2, <3>2, <2>4 DEF Steady, IInv, Types, Callback
    <3> QED
      BY <2>3, <3>1, <3>2
  <2>6. CalledIsValid'
    BY <2>1, NextMessageFacts DEF CalledIsValid
  <2> QED
    BY <2>1, <2>5, <2>6, NextMessageFacts, UpdateStepKeepsIInv
<1>4. CASE ProcessDestroy
  <2> DEFINE s == {c \in Callbacks : /\ c \in Elements(callbacks)
                                     /\ callback[c].root = Head(buffer).root}
  <2>1. NextMessage("Destroy")
    BY <1>4 DEF ProcessDestroy
  <2>2. /\ Cut(s) /\ heap' = heap
        /\ callback' = [c \in Callbacks |->
                          IF c \in s
                          THEN [callback[c] EXCEPT !.root = None, !.proxy = FALSE, !.valid = FALSE]
                          ELSE callback[c]]
    BY <1>4 DEF ProcessDestroy
  <2>3. Invalidates(s)
    <3>1. ASSUME NEW c \in Callbacks
          PROVE  /\ callback'[c] \in Callback
                 /\ callback'[c].valid <=> callback[c].valid /\ c \notin s
                 /\ callback'[c].interface = callback[c].interface
      <4>1. callback[c] \in Callback
        BY DEF IInv, Types
      <4>2. CASE c \in s
        BY <4>1, <4>2, <2>2 DEF Callback
      <4>3. CASE c \notin s
        BY <4>1, <4>3, <2>2
      <4> QED
        BY <4>2, <4>3
    <3>2. callback' \in [Callbacks -> Callback]
      BY <2>2, <3>1
    <3> QED
      BY <2>2, <3>1, <3>2 DEF Invalidates
  <2>4. CalledIsValid'
    BY <2>1, NextMessageFacts DEF CalledIsValid
  <2>5. s \in SUBSET Callbacks
    OBVIOUS
  <2> QED
    BY <2>1, <2>3, <2>4, <2>5, NextMessageFacts, UpdateStepKeepsIInv
<1> QED
  BY <1>1, <1>2, <1>3, <1>4

\* The frame: messages are taken, callbacks called, and those that are done
\* destroyed.
LEMMA FrameKeepsIInv ==
  ASSUME IInv,
         UpdateBegin \/ MessagesEnd \/ CallbackUpdate \/ PopSyncPoint \/ CallbackReturns
           \/ CallbacksEnd
  PROVE  IInv'
<1>1. CASE UpdateBegin
  <2>1. Steady
    BY <1>1 DEF UpdateBegin, Steady, IInv, Types
  <2>2. /\ inbox' \in Seq(Message) /\ buffer' \in Seq(Message) /\ updatePc' = "messages"
        /\ leaving' \subseteq Callbacks
        /\ UNCHANGED <<removeVars, added, syncPoint, calls, roots>>
    BY <1>1, QueueFacts DEF UpdateBegin, IInv, Types, historyVars
  <2>3. CalledIsValid'
    BY <2>2 DEF CalledIsValid
  <2> QED
    BY <2>1, <2>2, <2>3, UpdateStepKeepsIInv
<1>2. CASE MessagesEnd
  <2>1. Steady
    BY <1>2 DEF MessagesEnd, Steady, IInv, Types
  <2>2. /\ inbox' \in Seq(Message) /\ buffer' \in Seq(Message) /\ updatePc' = "callbacks"
        /\ leaving' \subseteq Callbacks
        /\ UNCHANGED <<removeVars, added, syncPoint, calls, roots>>
    BY <1>2 DEF MessagesEnd, IInv, Types, historyVars
  <2>3. CalledIsValid'
    BY <2>2 DEF CalledIsValid
  <2> QED
    BY <2>1, <2>2, <2>3, UpdateStepKeepsIInv
<1>3. CASE CallbackUpdate
  <2>1. PICK c \in Callbacks :
          /\ c = callbacks[position]
          /\ callback' = IF callback[c].proxy
                         THEN [callback EXCEPT ![c].proxySyncPoints = @ \o callback[c].syncPoints,
                                               ![c].syncPoints = << >>]
                         ELSE callback
          /\ IF callback[c].proxy /\ callback[c].valid
             THEN updatePc' = "calling" /\ UNCHANGED position
             ELSE position' = position + 1 /\ UNCHANGED updatePc
    BY <1>3, Zenon DEF CallbackUpdate
  <2>2. /\ updatePc = "callbacks" /\ callbacks' = callbacks /\ link' = link /\ heap' = heap
        /\ inbox' \in Seq(Message) /\ buffer' \in Seq(Message) /\ leaving' \subseteq Callbacks
        /\ UNCHANGED <<removeVars, added, syncPoint, calls, roots>>
    <3>1. /\ updatePc = "callbacks" /\ callbacks' = callbacks /\ link' = link /\ heap' = heap
          /\ inbox' = inbox /\ buffer' = buffer
          /\ UNCHANGED <<removeVars, added, syncPoint, calls, roots>>
      BY <1>3, Zenon DEF CallbackUpdate, historyVars
    <3>2. \E d \in Callbacks : leaving' = leaving \/ leaving' = leaving \cup {d}
      BY <1>3, Zenon DEF CallbackUpdate
    <3> QED
      BY <3>1, <3>2 DEF IInv, Types
  <2>3. [callback[c] EXCEPT !.proxySyncPoints = @ \o callback[c].syncPoints,
                            !.syncPoints = << >>] \in Callback
    <3>1. callback[c] \in Callback
      BY DEF IInv, Types
    <3>2. /\ callback[c].proxySyncPoints \o callback[c].syncPoints \in Seq(SyncPoints)
          /\ << >> \in Seq(SyncPoints)
      BY <3>1, QueueFacts DEF Callback
    <3> QED
      BY <3>1, <3>2 DEF Callback
  <2>4. callback' \in [Callbacks -> Callback]
    BY <2>1, <2>3 DEF IInv, Types
  <2>5. Steady
    BY <2>1, <2>2, <2>4 DEF Steady, IInv, Types, Callback
  <2>6. CalledIsValid'
    BY <2>1, <2>2, <2>5 DEF CalledIsValid, Steady
  <2>7. updatePc' \in {"idle", "messages", "callbacks", "calling"}
    BY <2>1, <2>2
  <2> QED
    BY <2>2, <2>5, <2>6, <2>7, UpdateStepKeepsIInv
<1>4. CASE PopSyncPoint
  <2> DEFINE c == callbacks[position]
  <2>1. /\ updatePc = "calling" /\ callback[c].proxySyncPoints # << >>
        /\ callback' = [callback EXCEPT ![c].proxySyncPoints = Tail(@)]
        /\ UNCHANGED <<link, heap, callbacks, updateVars, removeVars, added, syncPoint, calls, roots>>
        /\ inbox' \in Seq(Message) /\ buffer' \in Seq(Message) /\ leaving' \subseteq Callbacks
    BY <1>4 DEF PopSyncPoint, IInv, Types, updateVars
  <2>2. c \in Callbacks /\ callback[c].valid
    BY <2>1 DEF IInv, CalledIsValid
  <2>3. [callback[c] EXCEPT !.proxySyncPoints = Tail(@)] \in Callback
    <3>1. callback[c] \in Callback
      BY <2>2 DEF IInv, Types
    <3>2. Tail(callback[c].proxySyncPoints) \in Seq(SyncPoints)
      BY <3>1, <2>1, QueueFacts DEF Callback
    <3> QED
      BY <3>1, <3>2 DEF Callback
  <2>4. callback' \in [Callbacks -> Callback]
    BY <2>1, <2>2, <2>3 DEF IInv, Types
  <2>5. Steady
    <3>1. \A d \in Callbacks \ {c} : callback'[d] = callback[d]
      BY <2>1 DEF IInv, Types
    <3>2. callback'[c] = [callback[c] EXCEPT !.proxySyncPoints = Tail(@)]
      BY <2>1, <2>2 DEF IInv, Types
    <3>3. callback[c] \in Callback
      BY <2>2 DEF IInv, Types
    <3>4. callback'[c].valid = callback[c].valid /\ callback'[c].interface = callback[c].interface
      BY <3>2, <3>3 DEF Callback
    <3> QED
      BY <2>1, <2>4, <3>1, <3>4 DEF Steady
  <2>6. CalledIsValid'
    BY <2>1, <2>2, <2>5 DEF CalledIsValid, Steady, updateVars
  <2>7. updatePc' \in {"idle", "messages", "callbacks", "calling"}
    BY <2>1 DEF updateVars
  <2> QED
    BY <2>1, <2>5, <2>6, <2>7, UpdateStepKeepsIInv
<1>5. CASE CallbackReturns
  <2>1. Steady
    BY <1>5 DEF CallbackReturns, Steady, IInv, Types
  <2>2. /\ inbox' \in Seq(Message) /\ buffer' \in Seq(Message) /\ updatePc' = "callbacks"
        /\ leaving' \subseteq Callbacks
        /\ UNCHANGED <<removeVars, added, syncPoint, calls, roots>>
    BY <1>5 DEF CallbackReturns, IInv, Types, historyVars
  <2>3. CalledIsValid'
    BY <2>2 DEF CalledIsValid
  <2> QED
    BY <2>1, <2>2, <2>3, UpdateStepKeepsIInv
<1>6. CASE CallbacksEnd
  <2>1. Destroy(leaving)
    BY <1>6 DEF CallbacksEnd
  <2>2. /\ inbox' \in Seq(Message) /\ buffer' \in Seq(Message) /\ updatePc' = "idle"
        /\ leaving' \subseteq Callbacks
        /\ UNCHANGED <<removeVars, added, syncPoint, calls, roots>>
    BY <1>6 DEF CallbacksEnd, IInv, Types, historyVars
  <2>3. leaving \in SUBSET Callbacks
    BY DEF IInv, Types
  <2>4. Invalidates(leaving)
    BY <2>1, <2>3, DestroyInvalidates
  <2>5. CalledIsValid'
    BY <2>2 DEF CalledIsValid
  <2> QED
    BY <2>2, <2>3, <2>4, <2>5, UpdateStepKeepsIInv
<1> QED
  BY <1>1, <1>2, <1>3, <1>4, <1>5, <1>6

LEMMA StutterKeepsIInv ==
  ASSUME IInv, UNCHANGED vars
  PROVE  IInv'
<1>1. Types' /\ ReadLinkIsGood'
  BY DEF IInv, Types, ReadLinkIsGood, vars, removeVars, updateVars, historyVars
<1> QED
  BY <1>1, EventStepKeepsIInv DEF vars, historyVars

LEMMA InitHasIInv == Init => IInv
<1> SUFFICES ASSUME Init PROVE IInv
  OBVIOUS
<1>1. Unused \in Callback /\ ~Unused.valid
  BY QueueFacts DEF Unused, Callback
<1>2. callback \in [Callbacks -> Callback] /\ \A c \in Callbacks : ~callback[c].valid
  BY <1>1 DEF Init
<1>3. Types
  BY <1>2, QueueFacts, CallbackAssumption DEF Init, Types
<1>4. Links /\ LinkedIsAdded
  BY <1>2, CallbackAssumption DEF Init, Links, LinkIsExact, ValidIsAllocated, LinkedIsAdded
<1>5. ReadLinkIsGood /\ CalledIsValid
  BY DEF Init, ReadLinkIsGood, CalledIsValid
<1> QED
  BY <1>3, <1>4, <1>5 DEF IInv

LEMMA IInvIsInvariant == Spec => []IInv
<1>1. IInv /\ [Next]_vars => IInv'
  BY CallsKeepIInv, InvalidateKeepsIInv, MessagesKeepIInv, FrameKeepsIInv, StutterKeepsIInv
  DEF Next, UpdateRuns
<1> QED
  BY <1>1, InitHasIInv, PTL DEF Spec

\* The link of an interface is that of its valid callback, whichever thread
\* cut it and however late (FrameCallback::Invalidate).
THEOREM LinkIsExactHolds == Spec => []LinkIsExact
<1>1. IInv => LinkIsExact
  BY DEF IInv, Links
<1> QED
  BY <1>1, IInvIsInvariant, PTL

\* The update thread never calls an interface whose RemoveFrameCallback has
\* returned: the application may destroy it.
THEOREM RemovedIsNotCalledHolds == Spec => []RemovedIsNotCalled
<1>1. ASSUME IInv, updatePc = "calling"
      PROVE  callback[callbacks[position]].interface \in added
  <2> DEFINE c == callbacks[position]
  <2>1. c \in Callbacks /\ callback[c].valid
    BY <1>1 DEF IInv, CalledIsValid
  <2>2. c \in heap
    BY <1>1, <2>1 DEF IInv, Links, ValidIsAllocated
  <2>3. callback[c].interface \in Interfaces
    BY <1>1, <2>1 DEF IInv, Links, ValidIsAllocated
  <2>4. link[callback[c].interface] = c
    BY <1>1, <2>1, <2>2, <2>3 DEF IInv, Links, LinkIsExact
  <2> QED
    BY <1>1, <2>1, <2>3, <2>4, CallbackAssumption DEF IInv, LinkedIsAdded
<1>2. IInv => RemovedIsNotCalled
  BY <1>1 DEF RemovedIsNotCalled
<1> QED
  BY <1>2, IInvIsInvariant, PTL

-----------------------------------------------------------------------------
(***************************************************************************)
(* The sync points.  That none is lost needs to know which callback takes  *)
(* it: the one that is linked, for which the lists of the processor and    *)
(* the messages on their way must be followed together.  A callback that   *)
(* is allocated is held by the processor or about to be added; between the *)
(* additions of two callbacks of one interface there is a removal, or else *)
(* the first has lost its root and goes before the other comes.  So the    *)
(* processor never holds two callbacks of one interface.                   *)
(***************************************************************************)
Held == Elements(callbacks)
Places == 1 .. Len(Coming)
IsAdd(k, c) == Coming[k].op = "Add" /\ Coming[k].callback = c
IsRemove(k, i) == Coming[k].op = "Remove" /\ Coming[k].interface = i
IsNotify(k) == Coming[k].op = "Notify"

\* A callback without its root is destroyed by the frame that is running.
Doomed(c) ==
  /\ ~callback[c].proxy
  /\ \/ updatePc = "messages"
     \/ /\ updatePc \in {"callbacks", "calling"}
        /\ c \in leaving \/ \E k \in 1 .. Len(callbacks) : position <= k /\ callbacks[k] = c

HeapIsListed ==
  \A c \in heap : /\ callback[c].interface \in Interfaces
                  /\ c \in Held \/ \E k \in Places : IsAdd(k, c)
AddedOnce ==
  /\ Held \subseteq heap
  /\ \A c \in Callbacks, k \in Places :
       IsAdd(k, c) => c \in heap /\ c \notin Held /\ \A l \in Places : IsAdd(l, c) => l = k
OneEach == \A c, d \in Held : callback[c].interface = callback[d].interface => c = d
HeldIsRemoved ==
  \A d \in Held, e \in heap, l \in Places :
    IsAdd(l, e) /\ callback[d].interface = callback[e].interface =>
      \/ \E r \in Places : r < l /\ IsRemove(r, callback[d].interface)
      \/ Doomed(d) /\ l > Len(buffer)
AddedIsRemoved ==
  \A d, e \in heap, k, l \in Places :
    k < l /\ IsAdd(k, d) /\ IsAdd(l, e) /\ callback[d].interface = callback[e].interface =>
      \E r \in Places : k < r /\ r < l /\ IsRemove(r, callback[d].interface)
InvalidIsRemoved ==
  /\ \A d \in Held :
       ~callback[d].valid => Doomed(d) \/ \E r \in Places : IsRemove(r, callback[d].interface)
  /\ \A d \in heap, k \in Places :
       ~callback[d].valid /\ IsAdd(k, d) =>
         \E r \in Places : k < r /\ IsRemove(r, callback[d].interface)
ListInv == /\ HeapIsListed /\ AddedOnce /\ OneEach /\ HeldIsRemoved /\ AddedIsRemoved
           /\ InvalidIsRemoved

\* The positions of the messages.
LEMMA ComingFacts ==
  ASSUME Types
  PROVE  /\ Coming \in Seq(Message) /\ Len(Coming) \in Nat /\ Len(buffer) \in Nat
         /\ Len(Coming) = Len(buffer) + Len(inbox)
         /\ Places \subseteq Nat \ {0} /\ \A k \in Places : Coming[k] \in Message
         /\ \A k \in Places : k <= Len(buffer) <=> k \in 1 .. Len(buffer)
<1>1. buffer \in Seq(Message) /\ inbox \in Seq(Message)
  BY DEF Types
<1>2. Coming \in Seq(Message) /\ Len(Coming) = Len(buffer) + Len(inbox)
  BY <1>1, ConcatProperties DEF Coming
<1> QED
  BY <1>1, <1>2 DEF Places

\* A message that is sent is the last.
LEMMA SentPlaces ==
  ASSUME Types, NEW m \in Message, inbox' = Append(inbox, m), buffer' = buffer
  PROVE  /\ Coming' = Append(Coming, m)
         /\ Len(Coming') = Len(Coming) + 1 /\ Places' = Places \cup {Len(Coming) + 1}
         /\ \A k \in Places : k < Len(Coming) + 1 /\ Coming'[k] = Coming[k]
         /\ Coming'[Len(Coming) + 1] = m
<1>1. buffer \in Seq(Message) /\ inbox \in Seq(Message)
  BY DEF Types
<1>2. Coming' = buffer \o Append(inbox, m)
  BY DEF Coming
<1>3. Coming' = Append(Coming, m)
  BY <1>1, <1>2 DEF Coming
<1>4. Coming \in Seq(Message) /\ Len(Coming) \in Nat
  BY ComingFacts
<1>5. Len(Coming') = Len(Coming) + 1
  BY <1>3, <1>4, AppendProperties
<1> QED
  BY <1>3, <1>4, <1>5, AppendProperties DEF Places

\* Taking a message moves the others up.
LEMMA TakenPlaces ==
  ASSUME Types, buffer # << >>, buffer' = Tail(buffer), inbox' = inbox
  PROVE  /\ Len(Coming') = Len(Coming) - 1 /\ Len(Coming) \in Nat \ {0}
         /\ Coming[1] = Head(buffer) /\ 1 \in Places
         /\ Len(buffer') = Len(buffer) - 1 /\ Len(buffer) \in Nat \ {0}
         /\ \A k \in Places' : k \in Nat \ {0} /\ k + 1 \in Places /\ Coming'[k] = Coming[k + 1]
         /\ \A k \in Places : k # 1 => k - 1 \in Places' /\ Coming'[k - 1] = Coming[k]
<1> DEFINE b == buffer
           q == inbox
           t == Tail(b)
<1>1. b \in Seq(Message) /\ q \in Seq(Message) /\ b # << >>
  BY DEF Types
<1>2. /\ t \in Seq(Message) /\ Len(t) = Len(b) - 1 /\ Head(b) = b[1]
      /\ \A k \in 1 .. Len(t) : t[k] = b[k + 1]
  BY <1>1, HeadTailProperties
<1>3. Coming = b \o q /\ Coming' = t \o q /\ buffer' = t
  BY DEF Coming
<1>4. Len(b) \in Nat \ {0} /\ Len(q) \in Nat
  BY <1>1
<1> HIDE DEF t, b, q
<1>5. /\ Len(b \o q) = Len(b) + Len(q)
      /\ \A k \in 1 .. Len(b) + Len(q) :
           (b \o q)[k] = IF k <= Len(b) THEN b[k] ELSE q[k - Len(b)]
  BY <1>1, ConcatProperties
<1>6. /\ Len(t \o q) = Len(t) + Len(q)
      /\ \A k \in 1 .. Len(t) + Len(q) :
           (t \o q)[k] = IF k <= Len(t) THEN t[k] ELSE q[k - Len(t)]
  BY <1>1, <1>2, ConcatProperties
<1>7. /\ Len(Coming') = Len(Coming) - 1 /\ Len(Coming) \in Nat \ {0}
      /\ Len(Coming) = Len(b) + Len(q)
  BY <1>2, <1>3, <1>4, <1>5, <1>6
<1>8. \A k \in 1 .. Len(Coming) - 1 : Coming'[k] = Coming[k + 1]
  <2> SUFFICES ASSUME NEW k \in 1 .. Len(Coming) - 1 PROVE Coming'[k] = Coming[k + 1]
    OBVIOUS
  <2>1. k \in 1 .. Len(t) + Len(q) /\ k + 1 \in 1 .. Len(b) + Len(q)
    BY <1>2, <1>4, <1>7
  <2>2. CASE k <= Len(t)
    <3>1. k + 1 <= Len(b) /\ k \in 1 .. Len(t)
      BY <2>1, <2>2, <1>2, <1>4
    <3> QED
      BY <3>1, <2>1, <2>2, <1>2, <1>3, <1>5, <1>6
  <2>3. CASE k > Len(t)
    <3>1. ~(k <= Len(t)) /\ ~(k + 1 <= Len(b)) /\ k - Len(t) = k + 1 - Len(b)
      BY <2>1, <2>3, <1>2, <1>4
    <3>2. Coming'[k] = q[k - Len(t)]
      BY <3>1, <2>1, <1>3, <1>6
    <3>3. Coming[k + 1] = q[k + 1 - Len(b)]
      BY <3>1, <2>1, <1>3, <1>5
    <3> QED
      BY <3>1, <3>2, <3>3
  <2> QED
    BY <2>1, <2>2, <2>3, <1>2, <1>4
<1>9. Coming[1] = Head(buffer)
  BY <1>2, <1>3, <1>4, <1>5 DEF b
<1>10. /\ \A k \in Places' : k \in Nat \ {0} /\ k + 1 \in Places /\ Coming'[k] = Coming[k + 1]
       /\ \A k \in Places : k # 1 => k - 1 \in Places' /\ Coming'[k - 1] = Coming[k]
       /\ 1 \in Places
  <2>1. Places' = 1 .. Len(Coming) - 1 /\ Places = 1 .. Len(Coming)
    BY <1>7 DEF Places
  <2>2. \A k \in 2 .. Len(Coming) : k - 1 \in 1 .. Len(Coming) - 1 /\ k - 1 + 1 = k
    BY <1>7
  <2> QED
    BY <2>1, <2>2, <1>7, <1>8
<1> QED
  BY <1>2, <1>3, <1>4, <1>7, <1>9, <1>10 DEF b

\* Steps that neither send nor take a message.
LEMMA QuietKeepsLists ==
  ASSUME Types, ListInv, Coming' = Coming, heap' = heap, callbacks' = callbacks,
         \A c \in Callbacks : /\ callback'[c].valid = callback[c].valid
                              /\ callback'[c].interface = callback[c].interface,
         \A c \in Held : Doomed(c) => Doomed(c)' /\ Len(buffer') = Len(buffer)
  PROVE  ListInv'
<1>1. /\ heap \subseteq Callbacks /\ Held \subseteq heap /\ Held' = Held /\ Places' = Places
      /\ \A k, c : IsAdd(k, c)' <=> IsAdd(k, c)
      /\ \A k, i : IsRemove(k, i)' <=> IsRemove(k, i)
      /\ \A c \in heap : /\ callback'[c].valid = callback[c].valid
                         /\ callback'[c].interface = callback[c].interface
  BY DEF Types, ListInv, AddedOnce, Held, Places, IsAdd, IsRemove
<1>2. HeapIsListed'
  BY <1>1 DEF ListInv, HeapIsListed
<1>3. AddedOnce'
  BY <1>1 DEF ListInv, AddedOnce
<1>4. OneEach'
  BY <1>1 DEF ListInv, OneEach
<1>5. HeldIsRemoved'
  BY <1>1 DEF ListInv, HeldIsRemoved
<1>6. AddedIsRemoved'
  BY <1>1 DEF ListInv, AddedIsRemoved
<1>7. InvalidIsRemoved'
  BY <1>1 DEF ListInv, InvalidIsRemoved
<1> QED
  BY <1>2, <1>3, <1>4, <1>5, <1>6, <1>7 DEF ListInv

\* Steps that send a message other than an Add; those that invalidate a
\* callback send the message that removes it.
LEMMA SentKeepsLists ==
  ASSUME Types, ListInv, NEW m \in Message, m.op # "Add",
         inbox' = Append(inbox, m), UNCHANGED <<buffer, heap, callbacks>>,
         \A c \in heap : /\ callback'[c].interface = callback[c].interface
                         /\ \/ callback'[c].valid = callback[c].valid
                            \/ m.op = "Remove" /\ m.interface = callback[c].interface,
         \A c \in Held : Doomed(c) => Doomed(c)'
  PROVE  ListInv'
<1>0. PICK z \in Nat : z = Len(Coming) + 1
  BY ComingFacts
<1>1. /\ Places' = Places \cup {z} /\ z \notin Places /\ z \in Nat
      /\ \A k \in Places : k < z /\ k \in Nat
  BY <1>0, SentPlaces, ComingFacts DEF Places
<1>2. /\ \A k \in Places : \A c : IsAdd(k, c)' <=> IsAdd(k, c)
      /\ \A k \in Places : \A i : IsRemove(k, i)' <=> IsRemove(k, i)
      /\ \A c : ~IsAdd(z, c)'
      /\ \A i : IsRemove(z, i)' <=> m.op = "Remove" /\ m.interface = i
  BY <1>0, SentPlaces DEF IsAdd, IsRemove
<1>3. Held' = Held /\ Held \subseteq heap
  BY DEF Held, ListInv, AddedOnce
<1>4. HeapIsListed'
  BY <1>1, <1>2, <1>3 DEF ListInv, HeapIsListed
<1>5. AddedOnce'
  BY <1>1, <1>2, <1>3 DEF ListInv, AddedOnce
<1>6. OneEach'
  BY <1>3 DEF ListInv, OneEach
<1>7. HeldIsRemoved'
  BY <1>1, <1>2, <1>3 DEF ListInv, HeldIsRemoved
<1>8. AddedIsRemoved'
  BY <1>1, <1>2, <1>3 DEF ListInv, AddedIsRemoved
<1>9. InvalidIsRemoved'
  <2>1. ASSUME NEW d \in Held, ~callback'[d].valid
        PROVE  Doomed(d)' \/ \E r \in Places' : IsRemove(r, callback[d].interface)'
    BY <2>1, <1>1, <1>2, <1>3 DEF ListInv, InvalidIsRemoved
  <2>2. ASSUME NEW d \in heap, NEW k \in Places, ~callback'[d].valid, IsAdd(k, d)
        PROVE  \E r \in Places' : k < r /\ IsRemove(r, callback[d].interface)'
    BY <2>2, <1>1, <1>2, <1>3 DEF ListInv, InvalidIsRemoved
  <2> QED
    BY <2>1, <2>2, <1>1, <1>2, <1>3 DEF InvalidIsRemoved
<1> QED
  BY <1>4, <1>5, <1>6, <1>7, <1>8, <1>9 DEF ListInv

\* The addition of a callback: a callback its interface had before is not
\* valid any more.
LEMMA AddKeepsLists ==
  ASSUME IInv, ListInv, NEW i \in Interfaces, NEW n \in Roots \cup {None},
         AddFrameCallback(i, n)
  PROVE  ListInv'
<1>1. PICK c \in Callbacks \ heap :
        /\ heap' = heap \cup {c}
        /\ callback' = [callback EXCEPT ![c] = [Unused EXCEPT !.interface = i, !.valid = TRUE]]
        /\ inbox' = Append(inbox, [op |-> "Add", callback |-> c, root |-> n])
  BY DEF AddFrameCallback
<1> DEFINE m == [op |-> "Add", callback |-> c, root |-> n]
<1>2. /\ link[i] = None /\ callbacks' = callbacks /\ buffer' = buffer
      /\ updatePc' = updatePc /\ position' = position /\ leaving' = leaving
  BY DEF AddFrameCallback, updateVars
<1>3. m \in Message /\ m.op = "Add" /\ m.callback = c
  BY DEF Message
<1> HIDE DEF m
<1>4. inbox' = Append(inbox, m)
  BY <1>1 DEF m
<1>5. Types
  BY DEF IInv
<1>0. PICK z \in Nat : z = Len(Coming) + 1
  BY <1>5, ComingFacts
<1>6. /\ Places' = Places \cup {z} /\ z \notin Places /\ z \in Nat
      /\ \A k \in Places : k < z /\ k \in Nat
      /\ z > Len(buffer)
  BY <1>0, <1>2, <1>3, <1>4, <1>5, SentPlaces, ComingFacts DEF Places, Types
<1>7. /\ \A k \in Places : \A d : IsAdd(k, d)' <=> IsAdd(k, d)
      /\ \A k \in Places : \A j : IsRemove(k, j)' <=> IsRemove(k, j)
      /\ \A d : IsAdd(z, d)' <=> d = c
      /\ \A j : ~IsRemove(z, j)'
  BY <1>0, <1>2, <1>3, <1>4, <1>5, SentPlaces DEF IsAdd, IsRemove
<1>8. Held' = Held /\ Held \subseteq heap /\ heap \subseteq Callbacks /\ c \notin heap
  BY <1>2, <1>5 DEF Held, ListInv, AddedOnce, Types
<1>9. /\ \A d \in heap : callback'[d] = callback[d]
      /\ callback'[c].valid /\ callback'[c].interface = i
  BY <1>1, <1>5 DEF Types, Unused, Callback
<1>10. \A d \in Held : Doomed(d)' <=> Doomed(d)
  BY <1>2, <1>8, <1>9 DEF Doomed
<1>11. \A d \in heap : callback[d].interface = i => ~callback[d].valid
  BY <1>2, <1>8, CallbackAssumption DEF IInv, Links, LinkIsExact
<1>12. \A k \in Places : ~IsAdd(k, c)
  BY <1>1 DEF ListInv, AddedOnce
<1>13. HeapIsListed'
  BY <1>1, <1>6, <1>7, <1>8, <1>9 DEF ListInv, HeapIsListed
<1>14. AddedOnce'
  BY <1>1, <1>6, <1>7, <1>8, <1>12 DEF ListInv, AddedOnce
<1>15. OneEach'
  BY <1>8, <1>9 DEF ListInv, OneEach
<1>16. HeldIsRemoved'
  <2> SUFFICES ASSUME NEW d \in Held, NEW e \in heap', NEW l \in Places',
                      IsAdd(l, e)', callback'[d].interface = callback'[e].interface
               PROVE  \/ \E r \in Places' : r < l /\ IsRemove(r, callback[d].interface)'
                      \/ Doomed(d)' /\ l > Len(buffer')
    BY <1>8 DEF HeldIsRemoved
  <2>1. CASE l = z
    <3>1. e = c /\ callback[d].interface = i
      BY <2>1, <1>7, <1>8, <1>9
    <3>2. Doomed(d) \/ \E r \in Places : IsRemove(r, i)
      BY <3>1, <1>8, <1>11 DEF ListInv, InvalidIsRemoved
    <3> QED
      BY <2>1, <3>1, <3>2, <1>2, <1>6, <1>7, <1>8, <1>9, <1>10
  <2>2. CASE l # z
    <3>1. l \in Places /\ IsAdd(l, e) /\ e \in heap
      BY <2>2, <1>1, <1>6, <1>7, <1>12
    <3>2. callback[d].interface = callback[e].interface
      BY <3>1, <1>8, <1>9
    <3>3. \/ \E r \in Places : r < l /\ IsRemove(r, callback[d].interface)
          \/ Doomed(d) /\ l > Len(buffer)
      BY <3>1, <3>2 DEF ListInv, HeldIsRemoved
    <3> QED
      BY <3>3, <1>2, <1>6, <1>7, <1>8, <1>9, <1>10
  <2> QED
    BY <2>1, <2>2
<1>17. AddedIsRemoved'
  <2> SUFFICES ASSUME NEW d \in heap', NEW e \in heap', NEW k \in Places', NEW l \in Places', k < l,
                      IsAdd(k, d)', IsAdd(l, e)', callback'[d].interface = callback'[e].interface
               PROVE  \E r \in Places' : k < r /\ r < l /\ IsRemove(r, callback[d].interface)'
    BY DEF AddedIsRemoved
  <2>1. k \in Places /\ IsAdd(k, d) /\ d \in heap
    BY <1>1, <1>6, <1>7, <1>12
  <2>2. CASE l = z
    <3>1. e = c /\ callback[d].interface = i
      BY <2>1, <2>2, <1>7, <1>8, <1>9
    <3>2. \E r \in Places : k < r /\ IsRemove(r, i)
      BY <2>1, <3>1, <1>11 DEF ListInv, InvalidIsRemoved
    <3> QED
      BY <2>1, <2>2, <3>1, <3>2, <1>6, <1>7, <1>9
  <2>3. CASE l # z
    <3>1. l \in Places /\ IsAdd(l, e) /\ e \in heap
      BY <2>3, <1>1, <1>6, <1>7, <1>12
    <3>2. callback[d].interface = callback[e].interface
      BY <2>1, <3>1, <1>9
    <3>3. \E r \in Places : k < r /\ r < l /\ IsRemove(r, callback[d].interface)
      BY <2>1, <3>1, <3>2 DEF ListInv, AddedIsRemoved
    <3> QED
      BY <2>1, <3>3, <1>6, <1>7, <1>9
  <2> QED
    BY <2>2, <2>3
<1>18. InvalidIsRemoved'
  <2>1. ASSUME NEW d \in Held, ~callback'[d].valid
        PROVE  Doomed(d)' \/ \E r \in Places' : IsRemove(r, callback[d].interface)'
    BY <2>1, <1>6, <1>7, <1>8, <1>9, <1>10 DEF ListInv, InvalidIsRemoved
  <2>2. ASSUME NEW d \in heap', NEW k \in Places', ~callback'[d].valid, IsAdd(k, d)'
        PROVE  \E r \in Places' : k < r /\ IsRemove(r, callback[d].interface)'
    <3>1. d \in heap /\ k \in Places /\ IsAdd(k, d)
      BY <2>2, <1>1, <1>6, <1>7, <1>9
    <3> QED
      BY <2>2, <3>1, <1>6, <1>7, <1>9 DEF ListInv, InvalidIsRemoved
  <2> QED
    BY <2>1, <2>2, <1>8 DEF InvalidIsRemoved
<1> QED
  BY <1>13, <1>14, <1>15, <1>16, <1>17, <1>18 DEF ListInv

\* What is left of the callbacks that are held when some are destroyed.
LEMMA DestroyLeaves ==
  ASSUME callbacks \in Seq(Callbacks), NEW s \in SUBSET Callbacks, Destroy(s)
  PROVE  /\ callbacks' \in Seq(Callbacks) /\ Held' = Held \ s /\ Held \subseteq Callbacks
         /\ heap' = heap \ s
<1>1. callbacks' = Only(callbacks, Callbacks \ s) /\ heap' = heap \ s
  BY DEF Destroy
<1>2. callbacks' \in Seq(Callbacks) /\ Held' = Held \cap (Callbacks \ s)
  BY <1>1, OnlyFacts DEF Held
<1>3. Held \subseteq Callbacks
  BY SequenceFacts DEF Held
<1> QED
  BY <1>1, <1>2, <1>3

\* Steps that take a message other than an Add.  The callbacks in s are
\* destroyed: none, or those the message removes.
LEMMA TakenKeepsLists ==
  ASSUME Types, ListInv, buffer # << >>, buffer' = Tail(buffer), inbox' = inbox,
         Head(buffer).op # "Add", updatePc = "messages", updatePc' = "messages",
         NEW s \in SUBSET Held, heap' = heap \ s, Held' = Held \ s,
         Head(buffer).op = "Remove" =>
           s = {c \in Held : callback[c].interface = Head(buffer).interface},
         \A c \in heap : /\ callback'[c].interface = callback[c].interface
                         /\ callback'[c].proxy => callback[c].proxy,
         \A c \in heap \ s : \/ callback'[c].valid = callback[c].valid
                             \/ c \in Held /\ ~callback'[c].proxy
  PROVE  ListInv'
<1>1. /\ 1 \in Places /\ Coming[1] = Head(buffer) /\ Places \subseteq Nat \ {0}
      /\ \A k \in Places' : k \in Nat \ {0} /\ k + 1 \in Places /\ Coming'[k] = Coming[k + 1]
      /\ \A k \in Places : k # 1 => k - 1 \in Places' /\ Coming'[k - 1] = Coming[k]
      /\ Len(buffer) \in Nat \ {0} /\ Len(buffer') = Len(buffer) - 1
  BY TakenPlaces, ComingFacts
<1>2. /\ \A k \in Places' : \A c : IsAdd(k, c)' <=> IsAdd(k + 1, c)
      /\ \A k \in Places' : \A i : IsRemove(k, i)' <=> IsRemove(k + 1, i)
      /\ \A c : ~IsAdd(1, c)
      /\ \A i : IsRemove(1, i) => s = {c \in Held : callback[c].interface = i}
  BY <1>1 DEF IsAdd, IsRemove
<1>3. /\ \A k \in Places : \A c : IsAdd(k, c) => k - 1 \in Places' /\ IsAdd(k - 1, c)'
      /\ \A k \in Places : \A i : k # 1 /\ IsRemove(k, i) => k - 1 \in Places' /\ IsRemove(k - 1, i)'
  <2>1. \A k \in Places : k - 1 + 1 = k
    BY <1>1
  <2> QED
    BY <1>1, <1>2, <2>1
<1>4. /\ heap \subseteq Callbacks /\ Held \subseteq heap /\ Held' \subseteq Held
      /\ heap' \subseteq heap
  BY DEF ListInv, AddedOnce, Types
<1>5. \A c \in Held : Doomed(c) => Doomed(c)'
  BY <1>4 DEF Doomed
<1>6. \A d \in Held' : ~IsRemove(1, callback[d].interface)
  BY <1>2
<1>7. HeapIsListed'
  BY <1>3, <1>4 DEF ListInv, HeapIsListed
<1>8. AddedOnce'
  <2>1. ASSUME NEW c \in Callbacks, NEW k \in Places', IsAdd(k, c)'
        PROVE  /\ c \in heap' /\ c \notin Held'
               /\ \A l \in Places' : IsAdd(l, c)' => l = k
    <3>1. k + 1 \in Places /\ IsAdd(k + 1, c)
      BY <2>1, <1>1, <1>2
    <3>2. /\ c \in heap /\ c \notin Held
          /\ \A l \in Places : IsAdd(l, c) => l = k + 1
      BY <3>1 DEF ListInv, AddedOnce
    <3>3. \A l \in Places' : IsAdd(l, c)' => l + 1 = k + 1
      BY <3>2, <1>1, <1>2
    <3>4. \A l \in Places' : l + 1 = k + 1 => l = k
      BY <1>1
    <3> QED
      BY <3>2, <3>3, <3>4, <1>4
  <2> QED
    BY <2>1, <1>4 DEF AddedOnce
<1>9. OneEach'
  BY <1>4 DEF ListInv, OneEach
<1>10. HeldIsRemoved'
  <2> SUFFICES ASSUME NEW d \in Held', NEW e \in heap', NEW l \in Places',
                      IsAdd(l, e)', callback'[d].interface = callback'[e].interface
               PROVE  \/ \E r \in Places' : r < l /\ IsRemove(r, callback[d].interface)'
                      \/ Doomed(d)' /\ l > Len(buffer')
    BY DEF HeldIsRemoved
  <2>1. l + 1 \in Places /\ IsAdd(l + 1, e) /\ callback[d].interface = callback[e].interface
    BY <1>1, <1>2, <1>4
  <2>2. \/ \E r \in Places : r < l + 1 /\ IsRemove(r, callback[d].interface)
        \/ Doomed(d) /\ l + 1 > Len(buffer)
    BY <2>1, <1>4 DEF ListInv, HeldIsRemoved
  <2>3. CASE Doomed(d) /\ l + 1 > Len(buffer)
    BY <2>3, <1>1, <1>4, <1>5
  <2>4. ASSUME NEW r \in Places, r < l + 1, IsRemove(r, callback[d].interface)
        PROVE  r - 1 \in Places' /\ r - 1 < l /\ IsRemove(r - 1, callback[d].interface)'
    <3>1. r # 1
      BY <2>4, <1>6
    <3>2. r - 1 < l
      BY <2>4, <1>1
    <3>3. callback'[d].interface = callback[d].interface
      BY <1>4
    <3> QED
      BY <2>4, <3>1, <3>2, <3>3, <1>3
  <2> QED
    BY <2>2, <2>3, <2>4
<1>11. AddedIsRemoved'
  <2> SUFFICES ASSUME NEW d \in heap', NEW e \in heap', NEW k \in Places', NEW l \in Places', k < l,
                      IsAdd(k, d)', IsAdd(l, e)', callback'[d].interface = callback'[e].interface
               PROVE  \E r \in Places' : k < r /\ r < l /\ IsRemove(r, callback[d].interface)'
    BY DEF AddedIsRemoved
  <2>1. /\ k + 1 \in Places /\ l + 1 \in Places /\ k + 1 < l + 1
        /\ IsAdd(k + 1, d) /\ IsAdd(l + 1, e) /\ callback[d].interface = callback[e].interface
    BY <1>1, <1>2, <1>4
  <2>2. PICK r \in Places : k + 1 < r /\ r < l + 1 /\ IsRemove(r, callback[d].interface)
    BY <2>1, <1>4 DEF ListInv, AddedIsRemoved
  <2>3. r # 1 /\ k < r - 1 /\ r - 1 < l
    BY <2>2, <1>1
  <2>4. callback'[d].interface = callback[d].interface
    BY <1>4
  <2> QED
    BY <2>2, <2>3, <2>4, <1>3
<1>12. InvalidIsRemoved'
  <2>1. ASSUME NEW d \in Held', ~callback'[d].valid
        PROVE  Doomed(d)' \/ \E r \in Places' : IsRemove(r, callback[d].interface)'
    <3>1. CASE ~callback'[d].proxy
      BY <3>1 DEF Doomed
    <3>2. CASE callback'[d].valid = callback[d].valid
      <4>1. Doomed(d) \/ \E r \in Places : IsRemove(r, callback[d].interface)
        BY <2>1, <3>2, <1>4 DEF ListInv, InvalidIsRemoved
      <4>2. callback'[d].interface = callback[d].interface
        BY <1>4
      <4> QED
        BY <4>1, <4>2, <1>3, <1>4, <1>5, <1>6
    <3> QED
      BY <3>1, <3>2, <1>4
  <2>2. ASSUME NEW d \in heap', NEW k \in Places', ~callback'[d].valid, IsAdd(k, d)'
        PROVE  \E r \in Places' : k < r /\ IsRemove(r, callback[d].interface)'
    <3>1. k + 1 \in Places /\ IsAdd(k + 1, d)
      BY <2>2, <1>1, <1>2
    <3>2. d \notin Held /\ ~callback[d].valid
      BY <2>2, <3>1, <1>4 DEF ListInv, AddedOnce
    <3>3. PICK r \in Places : k + 1 < r /\ IsRemove(r, callback[d].interface)
      BY <3>1, <3>2, <1>4 DEF ListInv, InvalidIsRemoved
    <3>4. r # 1 /\ k < r - 1
      BY <3>3, <1>1
    <3>5. callback'[d].interface = callback[d].interface
      BY <1>4
    <3> QED
      BY <3>3, <3>4, <3>5, <1>3
  <2> QED
    BY <2>1, <2>2 DEF InvalidIsRemoved
<1> QED
  BY <1>7, <1>8, <1>9, <1>10, <1>11, <1>12 DEF ListInv

\* The processor gets a callback, which is the only one of its interface.
LEMMA ProcessAddKeepsLists ==
  ASSUME Types, ListInv, callbacks \in Seq(Callbacks), ProcessAdd
  PROVE  ListInv'
<1>1. /\ updatePc = "messages" /\ buffer # << >> /\ Head(buffer).op = "Add"
      /\ buffer' = Tail(buffer) /\ inbox' = inbox /\ heap' = heap
      /\ updatePc' = "messages"
  BY DEF ProcessAdd, NextMessage
<1>2. PICK a : a = Head(buffer).callback
  OBVIOUS
<1>3. /\ callback' = [callback EXCEPT ![a].proxy = TRUE, ![a].root = Head(buffer).root]
      /\ callbacks' = Append(callbacks, a)
  BY <1>2 DEF ProcessAdd
<1>4. /\ 1 \in Places /\ Coming[1] = Head(buffer) /\ Places \subseteq Nat \ {0}
      /\ \A k \in Places' : k \in Nat \ {0} /\ k + 1 \in Places /\ Coming'[k] = Coming[k + 1]
      /\ \A k \in Places : k # 1 => k - 1 \in Places' /\ Coming'[k - 1] = Coming[k]
      /\ Len(buffer) \in Nat \ {0} /\ Len(buffer') = Len(buffer) - 1
      /\ Head(buffer) \in Message
  BY <1>1, TakenPlaces, ComingFacts
<1>5. /\ \A k \in Places' : \A c : IsAdd(k, c)' <=> IsAdd(k + 1, c)
      /\ \A k \in Places' : \A i : IsRemove(k, i)' <=> IsRemove(k + 1, i)
      /\ \A c : IsAdd(1, c) <=> c = a
      /\ \A i : ~IsRemove(1, i)
  BY <1>1, <1>2, <1>4 DEF IsAdd, IsRemove
<1>6. /\ \A k \in Places : \A c : k # 1 /\ IsAdd(k, c) => k - 1 \in Places' /\ IsAdd(k - 1, c)'
      /\ \A k \in Places : \A i : IsRemove(k, i) => k # 1 /\ k - 1 \in Places' /\ IsRemove(k - 1, i)'
  <2>1. \A k \in Places : k - 1 + 1 = k
    BY <1>4
  <2> QED
    BY <1>4, <1>5, <2>1
<1>7. a \in Callbacks
  BY <1>1, <1>2, <1>4 DEF Message
<1>8. Held' = Held \cup {a}
  BY <1>3, <1>7, AppendFacts DEF Held
<1>9. a \in heap /\ a \notin Held /\ \A l \in Places : IsAdd(l, a) => l = 1
  BY <1>4, <1>5, <1>7 DEF ListInv, AddedOnce
<1>10. heap \subseteq Callbacks /\ Held \subseteq heap
  BY DEF ListInv, AddedOnce, Types
<1>11. \A c \in Callbacks : /\ callback'[c].interface = callback[c].interface
                            /\ callback'[c].valid = callback[c].valid
                            /\ c # a => callback'[c] = callback[c]
  <2> SUFFICES ASSUME NEW c \in Callbacks
               PROVE  /\ callback'[c].interface = callback[c].interface
                      /\ callback'[c].valid = callback[c].valid
                      /\ c # a => callback'[c] = callback[c]
    OBVIOUS
  <2>1. callback[c] \in Callback /\ callback \in [Callbacks -> Callback]
    BY DEF Types
  <2> QED
    BY <2>1, <1>3, <1>7 DEF Callback
<1>12. \A c \in Held : Doomed(c) => Doomed(c)'
  BY <1>1, <1>9, <1>10, <1>11 DEF Doomed
<1>13. HeapIsListed'
  <2> SUFFICES ASSUME NEW c \in heap
               PROVE  /\ callback'[c].interface \in Interfaces
                      /\ c \in Held' \/ \E k \in Places' : IsAdd(k, c)'
    BY <1>1 DEF HeapIsListed
  <2>1. callback[c].interface \in Interfaces /\ (c \in Held \/ \E k \in Places : IsAdd(k, c))
    BY DEF ListInv, HeapIsListed
  <2> QED
    BY <2>1, <1>5, <1>6, <1>8, <1>10, <1>11
<1>14. AddedOnce'
  <2>1. ASSUME NEW c \in Callbacks, NEW k \in Places', IsAdd(k, c)'
        PROVE  /\ c \in heap' /\ c \notin Held'
               /\ \A l \in Places' : IsAdd(l, c)' => l = k
    <3>1. k + 1 \in Places /\ IsAdd(k + 1, c) /\ k + 1 # 1
      BY <2>1, <1>4, <1>5
    <3>2. /\ c \in heap /\ c \notin Held /\ c # a
          /\ \A l \in Places : IsAdd(l, c) => l = k + 1
      BY <3>1, <1>9 DEF ListInv, AddedOnce
    <3>3. \A l \in Places' : IsAdd(l, c)' => l + 1 = k + 1
      BY <3>2, <1>4, <1>5
    <3>4. \A l \in Places' : l + 1 = k + 1 => l = k
      BY <1>4
    <3> QED
      BY <3>2, <3>3, <3>4, <1>1, <1>8
  <2> QED
    BY <2>1, <1>1, <1>8, <1>9, <1>10 DEF AddedOnce
<1>15. \A d \in Held : callback[d].interface # callback[a].interface
  <2> SUFFICES ASSUME NEW d \in Held, callback[d].interface = callback[a].interface PROVE FALSE
    OBVIOUS
  <2>1. \/ \E r \in Places : r < 1 /\ IsRemove(r, callback[d].interface)
        \/ Doomed(d) /\ 1 > Len(buffer)
    BY <1>4, <1>5, <1>9, <1>10 DEF ListInv, HeldIsRemoved
  <2> QED
    BY <2>1, <1>4
<1>16. OneEach'
  BY <1>8, <1>10, <1>11, <1>15, <1>7 DEF ListInv, OneEach
<1>17. HeldIsRemoved'
  <2> SUFFICES ASSUME NEW d \in Held', NEW e \in heap, NEW l \in Places',
                      IsAdd(l, e)', callback'[d].interface = callback'[e].interface
               PROVE  \/ \E r \in Places' : r < l /\ IsRemove(r, callback[d].interface)'
                      \/ Doomed(d)' /\ l > Len(buffer')
    BY <1>1 DEF HeldIsRemoved
  <2>1. /\ l + 1 \in Places /\ IsAdd(l + 1, e) /\ callback[d].interface = callback[e].interface
        /\ 1 < l + 1 /\ callback'[d].interface = callback[d].interface
    BY <1>4, <1>5, <1>7, <1>8, <1>10, <1>11
  <2>2. ASSUME NEW r \in Places, r < l + 1, IsRemove(r, callback[d].interface)
        PROVE  r - 1 \in Places' /\ r - 1 < l /\ IsRemove(r - 1, callback[d].interface)'
    <3>1. r - 1 < l
      BY <2>2, <1>4
    <3> QED
      BY <2>1, <2>2, <3>1, <1>6
  <2>3. CASE d \in Held
    <3>1. \/ \E r \in Places : r < l + 1 /\ IsRemove(r, callback[d].interface)
          \/ Doomed(d) /\ l + 1 > Len(buffer)
      BY <2>1, <2>3 DEF ListInv, HeldIsRemoved
    <3>2. CASE Doomed(d) /\ l + 1 > Len(buffer)
      BY <2>3, <3>2, <1>4, <1>12
    <3> QED
      BY <3>1, <3>2, <2>2
  <2>4. CASE d = a
    <3>1. \E r \in Places : 1 < r /\ r < l + 1 /\ IsRemove(r, callback[d].interface)
      BY <2>1, <2>4, <1>4, <1>5, <1>9 DEF ListInv, AddedIsRemoved
    <3> QED
      BY <3>1, <2>2
  <2> QED
    BY <2>3, <2>4, <1>8
<1>18. AddedIsRemoved'
  <2> SUFFICES ASSUME NEW d \in heap, NEW e \in heap, NEW k \in Places', NEW l \in Places', k < l,
                      IsAdd(k, d)', IsAdd(l, e)', callback'[d].interface = callback'[e].interface
               PROVE  \E r \in Places' : k < r /\ r < l /\ IsRemove(r, callback[d].interface)'
    BY <1>1 DEF AddedIsRemoved
  <2>1. /\ k + 1 \in Places /\ l + 1 \in Places /\ k + 1 < l + 1
        /\ IsAdd(k + 1, d) /\ IsAdd(l + 1, e) /\ callback[d].interface = callback[e].interface
    BY <1>4, <1>5, <1>10, <1>11
  <2>2. PICK r \in Places : k + 1 < r /\ r < l + 1 /\ IsRemove(r, callback[d].interface)
    BY <2>1 DEF ListInv, AddedIsRemoved
  <2>3. k < r - 1 /\ r - 1 < l
    BY <2>2, <1>4
  <2> QED
    BY <2>2, <2>3, <1>6, <1>10, <1>11
<1>19. InvalidIsRemoved'
  <2>1. ASSUME NEW d \in Held', ~callback'[d].valid
        PROVE  Doomed(d)' \/ \E r \in Places' : IsRemove(r, callback[d].interface)'
    <3>1. ~callback[d].valid /\ callback'[d].interface = callback[d].interface
      BY <2>1, <1>7, <1>8, <1>10, <1>11
    <3>2. CASE d \in Held
      BY <3>1, <3>2, <1>6, <1>12 DEF ListInv, InvalidIsRemoved
    <3>3. CASE d = a
      BY <3>1, <3>3, <1>4, <1>5, <1>6, <1>9 DEF ListInv, InvalidIsRemoved
    <3> QED
      BY <3>2, <3>3, <1>8
  <2>2. ASSUME NEW d \in heap, NEW k \in Places', ~callback'[d].valid, IsAdd(k, d)'
        PROVE  \E r \in Places' : k < r /\ IsRemove(r, callback[d].interface)'
    <3>1. /\ k + 1 \in Places /\ IsAdd(k + 1, d) /\ ~callback[d].valid
          /\ callback'[d].interface = callback[d].interface
      BY <2>2, <1>4, <1>5, <1>10, <1>11
    <3>2. PICK r \in Places : k + 1 < r /\ IsRemove(r, callback[d].interface)
      BY <3>1 DEF ListInv, InvalidIsRemoved
    <3>3. k < r - 1
      BY <3>2, <1>4
    <3> QED
      BY <3>1, <3>2, <3>3, <1>6
  <2> QED
    BY <2>1, <2>2, <1>1 DEF InvalidIsRemoved
<1> QED
  BY <1>13, <1>14, <1>16, <1>17, <1>18, <1>19 DEF ListInv

\* The end of a frame: those that leave have been added, so no message is
\* waited for, and those that had lost their root are among them.
LEMMA EndKeepsLists ==
  ASSUME Types, ListInv, callbacks \in Seq(Callbacks), position \in Nat,
         leaving \subseteq Held, CallbacksEnd
  PROVE  ListInv'
<1>1. /\ updatePc = "callbacks" /\ position > Len(callbacks) /\ Destroy(leaving)
      /\ buffer' = buffer /\ inbox' = inbox
  BY DEF CallbacksEnd
<1>2. /\ heap \subseteq Callbacks /\ Held \subseteq heap /\ leaving \in SUBSET Callbacks
  BY DEF ListInv, AddedOnce, Types
<1>3. Held' = Held \ leaving /\ heap' = heap \ leaving
  BY <1>1, <1>2, DestroyLeaves
<1>4. \A c \in Held : Doomed(c) => c \in leaving
  <2>1. Len(callbacks) \in Nat
    OBVIOUS
  <2>2. \A k \in 1 .. Len(callbacks) : ~(position <= k)
    BY <1>1, <2>1
  <2> QED
    BY <1>1, <2>2 DEF Doomed
<1>5. \A c \in heap' : callback'[c] = callback[c]
  BY <1>1, <1>2, <1>3 DEF Destroy
<1>6. /\ Places' = Places
      /\ \A k, c : IsAdd(k, c)' <=> IsAdd(k, c)
      /\ \A k, i : IsRemove(k, i)' <=> IsRemove(k, i)
  BY <1>1 DEF Places, IsAdd, IsRemove, Coming
<1>7. HeapIsListed'
  BY <1>3, <1>5, <1>6 DEF ListInv, HeapIsListed
<1>8. AddedOnce'
  BY <1>3, <1>6 DEF ListInv, AddedOnce
<1>9. OneEach'
  BY <1>2, <1>3, <1>5 DEF ListInv, OneEach
<1>10. HeldIsRemoved'
  BY <1>2, <1>3, <1>4, <1>5, <1>6 DEF ListInv, HeldIsRemoved
<1>11. AddedIsRemoved'
  BY <1>3, <1>5, <1>6 DEF ListInv, AddedIsRemoved
<1>12. InvalidIsRemoved'
  BY <1>2, <1>3, <1>4, <1>5, <1>6 DEF ListInv, InvalidIsRemoved
<1> QED
  BY <1>7, <1>8, <1>9, <1>10, <1>11, <1>12 DEF ListInv

\* The types of the rest of the state.
CallTypes ==
  /\ callbacks \in Seq(Callbacks) /\ position \in Nat \ {0}
  /\ notified \in [Callbacks -> Seq(SyncPoints)] /\ popped \in [Callbacks -> Seq(SyncPoints)]

\* Messages are handled before callbacks are called; those that leave are
\* held until the frame ends; what is being called has its proxy.
FrameIsTidy ==
  /\ updatePc # "messages" => buffer = << >>
  /\ leaving \subseteq Held /\ (updatePc \in {"idle", "messages"} => leaving = {})
  /\ updatePc = "calling" => callback[callbacks[position]].proxy

\* The link that RemoveFrameCallback has read is one of its interface.
ReadLinkIsIts ==
  eventPc = "invalidate" /\ linked \in heap => callback[linked].interface = removing

\* Every number is behind those that were sent before it.
NumbersAscend ==
  /\ \A c \in Callbacks : Ascending(Here(c)) /\ \A n \in Elements(Here(c)) : n <= syncPoint
  /\ \A k \in Places : IsNotify(k) =>
       /\ Coming[k].syncPoint <= syncPoint
       /\ \A c \in Callbacks : \A n \in Elements(Here(c)) : n < Coming[k].syncPoint
       /\ \A l \in Places : k < l /\ IsNotify(l) => Coming[k].syncPoint < Coming[l].syncPoint

\* A number is in the callback, or on its way behind the addition of it.
Arrives(c, i, n) ==
  \/ n \in Elements(Here(c))
  \/ \E k \in Places : /\ IsNotify(k) /\ Coming[k].interface = i /\ Coming[k].syncPoint = n
                       /\ \A l \in Places : IsAdd(l, c) => l < k
NumbersArrive ==
  \A i \in Interfaces : link[i] # None =>
    \A n \in Elements(notified[link[i]]) : Arrives(link[i], i, n)

OrderInv == /\ IInv /\ CallTypes /\ ListInv /\ FrameIsTidy /\ ReadLinkIsIts
            /\ NumbersAscend /\ NumbersArrive

LEMMA HereFacts ==
  ASSUME Types, CallTypes, NEW c \in Callbacks
  PROVE  /\ callback[c].proxySyncPoints \in Seq(SyncPoints)
         /\ callback[c].syncPoints \in Seq(SyncPoints) /\ popped[c] \in Seq(SyncPoints)
         /\ Here(c) \in Seq(SyncPoints) /\ SyncPoints \subseteq Nat
<1>1. /\ callback[c].proxySyncPoints \in Seq(SyncPoints)
      /\ callback[c].syncPoints \in Seq(SyncPoints) /\ popped[c] \in Seq(SyncPoints)
  BY DEF Types, CallTypes, Callback
<1> QED
  BY <1>1 DEF Here, SyncPoints

\* Steps that leave the sync points of every callback alone, and send or take
\* no message that adds a callback or brings a sync point.
Apart == \/ Coming' = Coming
         \/ \E m \in Message : /\ m.op \notin {"Add", "Notify"}
                               /\ inbox' = Append(inbox, m) /\ buffer' = buffer
         \/ /\ buffer # << >> /\ Head(buffer).op # "Notify"
            /\ buffer' = Tail(buffer) /\ inbox' = inbox

LEMMA ApartKeepsNumbers ==
  ASSUME Types, NumbersAscend, NumbersArrive, syncPoint' = syncPoint, notified' = notified,
         \A c \in Callbacks : Here(c)' = Here(c),
         \A i \in Interfaces : link'[i] \in {link[i], None},
         Apart
  PROVE  NumbersAscend' /\ NumbersArrive'
<1>0. \A i \in Interfaces : link[i] \in Callbacks \cup {None}
  BY DEF Types
<1>1. CASE Coming' = Coming
  <2>1. /\ Places' = Places
        /\ \A k, c : IsAdd(k, c)' <=> IsAdd(k, c)
        /\ \A k : IsNotify(k)' <=> IsNotify(k)
    BY <1>1 DEF Places, IsAdd, IsNotify
  <2>2. NumbersAscend'
    BY <1>1, <2>1 DEF NumbersAscend
  <2>3. NumbersArrive'
    BY <1>0, <1>1, <2>1 DEF NumbersArrive, Arrives
  <2> QED
    BY <2>2, <2>3
<1>2. CASE \E m \in Message : /\ m.op \notin {"Add", "Notify"}
                              /\ inbox' = Append(inbox, m) /\ buffer' = buffer
  <2>1. PICK m \in Message : /\ m.op \notin {"Add", "Notify"}
                             /\ inbox' = Append(inbox, m) /\ buffer' = buffer
    BY <1>2
  <2>2. PICK z \in Nat : z = Len(Coming) + 1
    BY ComingFacts
  <2>3. /\ Places' = Places \cup {z} /\ Coming'[z] = m
        /\ \A k \in Places : Coming'[k] = Coming[k]
    BY <2>1, <2>2, SentPlaces
  <2>4. /\ \A k \in Places : \A c : IsAdd(k, c)' <=> IsAdd(k, c)
        /\ \A k \in Places : IsNotify(k)' <=> IsNotify(k)
        /\ ~IsNotify(z)' /\ \A c : ~IsAdd(z, c)'
    BY <2>1, <2>3 DEF IsAdd, IsNotify
  <2>5. NumbersAscend'
    BY <2>3, <2>4 DEF NumbersAscend
  <2>6. NumbersArrive'
    BY <1>0, <2>3, <2>4 DEF NumbersArrive, Arrives
  <2> QED
    BY <2>5, <2>6
<1>3. CASE /\ buffer # << >> /\ Head(buffer).op # "Notify"
           /\ buffer' = Tail(buffer) /\ inbox' = inbox
  <2>1. /\ 1 \in Places /\ Coming[1] = Head(buffer) /\ Places \subseteq Nat \ {0}
        /\ \A k \in Places' : k \in Nat \ {0} /\ k + 1 \in Places /\ Coming'[k] = Coming[k + 1]
        /\ \A k \in Places : k # 1 => k - 1 \in Places' /\ Coming'[k - 1] = Coming[k]
    BY <1>3, TakenPlaces, ComingFacts
  <2>2. /\ \A k \in Places' : \A c : IsAdd(k, c)' <=> IsAdd(k + 1, c)
        /\ \A k \in Places' : IsNotify(k)' <=> IsNotify(k + 1)
        /\ \A k \in Places : IsNotify(k) => k # 1 /\ k - 1 \in Places' /\ IsNotify(k - 1)'
    BY <1>3, <2>1 DEF IsAdd, IsNotify
  <2>3. NumbersAscend'
    <3>1. \A k, l \in Places' : k < l => k + 1 < l + 1
      BY <2>1
    <3> QED
      BY <2>1, <2>2, <3>1 DEF NumbersAscend
  <2>4. ASSUME NEW c \in Callbacks, NEW i \in Interfaces, NEW n, Arrives(c, i, n)
        PROVE  Arrives(c, i, n)'
    <3>1. CASE n \in Elements(Here(c))
      BY <3>1 DEF Arrives
    <3>2. ASSUME NEW k \in Places, IsNotify(k), Coming[k].interface = i,
                 Coming[k].syncPoint = n, \A l \in Places : IsAdd(l, c) => l < k
          PROVE  Arrives(c, i, n)'
      <4>1. k - 1 \in Places' /\ IsNotify(k - 1)' /\ Coming'[k - 1] = Coming[k]
        BY <3>2, <2>1, <2>2
      <4>2. \A l \in Places' : IsAdd(l, c)' => l < k - 1
        <5> SUFFICES ASSUME NEW l \in Places', IsAdd(l, c)' PROVE l < k - 1
          OBVIOUS
        <5>1. l + 1 < k
          BY <3>2, <2>1, <2>2
        <5> QED
          BY <5>1, <2>1
      <4> QED
        BY <3>2, <4>1, <4>2 DEF Arrives
    <3> QED
      BY <2>4, <3>1, <3>2 DEF Arrives
  <2>5. NumbersArrive'
    BY <1>0, <2>4 DEF NumbersArrive
  <2> QED
    BY <2>3, <2>5
<1> QED
  BY <1>1, <1>2, <1>3 DEF Apart

\* The parts of the invariant that the lemmas above do not speak of.
Rest == CallTypes /\ FrameIsTidy /\ ReadLinkIsIts /\ NumbersAscend /\ NumbersArrive

\* A new callback has no sync points, and its addition is behind those of the
\* others.
LEMMA AddKeepsRest ==
  ASSUME OrderInv, NEW i \in Interfaces, NEW n \in Roots \cup {None}, AddFrameCallback(i, n)
  PROVE  Rest'
<1>1. PICK a \in Callbacks \ heap :
        /\ heap' = heap \cup {a}
        /\ callback' = [callback EXCEPT ![a] = [Unused EXCEPT !.interface = i, !.valid = TRUE]]
        /\ link' = [link EXCEPT ![i] = a]
        /\ inbox' = Append(inbox, [op |-> "Add", callback |-> a, root |-> n])
        /\ notified' = [notified EXCEPT ![a] = << >>] /\ popped' = [popped EXCEPT ![a] = << >>]
  BY DEF AddFrameCallback
<1> DEFINE m == [op |-> "Add", callback |-> a, root |-> n]
<1>2. /\ eventPc' = "idle" /\ UNCHANGED <<callbacks, updatePc, buffer, position, leaving, syncPoint>>
      /\ Types /\ CallTypes
  BY DEF AddFrameCallback, Call, updateVars, removeVars, OrderInv, IInv
<1>3. m \in Message /\ m.op = "Add" /\ m.callback = a
  BY DEF Message
<1> HIDE DEF m
<1>4. inbox' = Append(inbox, m)
  BY <1>1 DEF m
<1>5. PICK z \in Nat : z = Len(Coming) + 1
  BY <1>2, ComingFacts
<1>6. /\ Places' = Places \cup {z} /\ Coming'[z] = m
      /\ \A k \in Places : k < z /\ Coming'[k] = Coming[k]
  BY <1>2, <1>3, <1>4, <1>5, SentPlaces
<1>7. /\ \A k \in Places : \A c : IsAdd(k, c)' <=> IsAdd(k, c)
      /\ \A k \in Places : IsNotify(k)' <=> IsNotify(k)
      /\ ~IsNotify(z)' /\ \A c : IsAdd(z, c)' <=> c = a
  BY <1>3, <1>6 DEF IsAdd, IsNotify
<1>8. /\ \A c \in Callbacks \ {a} : /\ callback'[c] = callback[c] /\ popped'[c] = popped[c]
                                    /\ notified'[c] = notified[c]
      /\ notified'[a] = << >> /\ popped'[a] = << >>
      /\ callback'[a].proxySyncPoints = << >> /\ callback'[a].syncPoints = << >>
  BY <1>1, <1>2 DEF Types, CallTypes, Unused, Callback
<1>9. /\ \A c \in Callbacks \ {a} : Here(c)' = Here(c)
      /\ Here(a)' = << >>
  <2>1. << >> \o << >> \o << >> = << >>
    BY ConcatEmptySeq, EmptySeq
  <2> QED
    BY <2>1, <1>8 DEF Here
<1>10. CallTypes'
  <2>1. << >> \in Seq(SyncPoints)
    BY SequenceFacts
  <2> QED
    BY <2>1, <1>1, <1>2 DEF CallTypes
<1>11. FrameIsTidy'
  <2>1. ASSUME updatePc = "calling" PROVE callback'[callbacks[position]].proxy
    <3>1. /\ callbacks[position] \in Callbacks /\ callback[callbacks[position]].valid
          /\ callback[callbacks[position]].proxy
      BY <2>1 DEF OrderInv, IInv, CalledIsValid, FrameIsTidy
    <3>2. callbacks[position] \in heap
      BY <3>1 DEF OrderInv, IInv, Links, ValidIsAllocated
    <3> QED
      BY <3>1, <3>2, <1>1, <1>8
  <2> QED
    BY <2>1, <1>2 DEF OrderInv, FrameIsTidy, Held
<1>12. ReadLinkIsIts'
  BY <1>2 DEF ReadLinkIsIts
<1>13. NumbersAscend'
  <2>1. Elements(<< >>) = {} /\ Ascending(<< >>)
    BY DEF Elements, Ascending
  <2>2. /\ \A c \in Callbacks : Ascending(Here(c)') /\ Elements(Here(c)') \subseteq Elements(Here(c))
    BY <2>1, <1>9 DEF OrderInv, NumbersAscend
  <2> QED
    BY <2>2, <1>2, <1>6, <1>7 DEF OrderInv, NumbersAscend
<1>14. NumbersArrive'
  <2> SUFFICES ASSUME NEW j \in Interfaces, link'[j] # None, NEW x \in Elements(notified'[link'[j]])
               PROVE  Arrives(link[j], j, x)'
    BY DEF NumbersArrive
  <2>1. Elements(<< >>) = {}
    BY DEF Elements
  <2>2. j # i /\ link'[j] = link[j] /\ link[j] # a /\ link[j] \in Callbacks
    <3>1. link \in [Interfaces -> Callbacks \cup {None}]
      BY <1>2 DEF Types
    <3>2. link'[i] = a /\ j # i
      BY <3>1, <2>1, <1>1, <1>8
    <3>3. link'[j] = link[j] /\ link[j] \in Callbacks
      BY <3>1, <3>2, <1>1
    <3>4. link[j] # a
      BY <3>3, <1>1 DEF OrderInv, IInv, Links, LinkIsExact
    <3> QED
      BY <3>2, <3>3, <3>4
  <2>3. PICK c \in Callbacks : c = link[j]
    BY <2>2
  <2>4. Arrives(c, j, x)
    BY <2>2, <2>3, <1>8 DEF OrderInv, NumbersArrive
  <2>5. Arrives(c, j, x)'
    BY <2>2, <2>3, <2>4, <1>6, <1>7, <1>9 DEF Arrives
  <2> QED
    BY <2>2, <2>3, <2>5
<1> QED
  BY <1>10, <1>11, <1>12, <1>13, <1>14 DEF Rest

\* The number that is sent is the largest, and behind the addition.
LEMMA NotifyKeepsRest ==
  ASSUME OrderInv, NEW i \in Interfaces, NotifyFrameCallback(i)
  PROVE  Rest'
<1>1. /\ syncPoint' = syncPoint + 1 /\ buffer' = buffer
      /\ inbox' = Append(inbox, [op |-> "Notify", interface |-> i, syncPoint |-> syncPoint'])
      /\ notified' = IF link[i] = None THEN notified
                     ELSE [notified EXCEPT ![link[i]] = Append(@, syncPoint')]
      /\ UNCHANGED <<link, heap, callback, callbacks, popped, updatePc, buffer, position, leaving,
                     eventPc, linked, removing>>
      /\ Types /\ CallTypes /\ syncPoint \in Nat /\ syncPoint < MaxCalls
  BY CallbackAssumption
  DEF NotifyFrameCallback, Call, updateVars, removeVars, OrderInv, IInv, Types
<1>2. PICK p \in SyncPoints : p = syncPoint + 1
  BY <1>1, CallbackAssumption DEF SyncPoints
<1> DEFINE m == [op |-> "Notify", interface |-> i, syncPoint |-> p]
<1>3. m \in Message /\ m.op = "Notify" /\ m.interface = i /\ m.syncPoint = p
  BY DEF Message
<1> HIDE DEF m
<1>4. inbox' = Append(inbox, m)
  BY <1>1, <1>2 DEF m
<1>5. PICK z \in Nat : z = Len(Coming) + 1
  BY <1>1, ComingFacts
<1>6. /\ Places' = Places \cup {z} /\ Coming'[z] = m /\ Places \subseteq Nat /\ z \notin Places
      /\ \A k \in Places : k < z /\ Coming'[k] = Coming[k] /\ Coming[k] \in Message
  BY <1>1, <1>3, <1>4, <1>5, SentPlaces, ComingFacts
<1>7. /\ \A k \in Places : \A c : IsAdd(k, c)' <=> IsAdd(k, c)
      /\ \A k \in Places : IsNotify(k)' <=> IsNotify(k)
      /\ IsNotify(z)' /\ \A c : ~IsAdd(z, c)'
  BY <1>3, <1>6 DEF IsAdd, IsNotify
<1>8. \A c : Here(c)' = Here(c)
  BY <1>1 DEF Here
<1>9. CallTypes'
  <2>1. CASE link[i] = None
    BY <2>1, <1>1 DEF CallTypes
  <2>2. CASE link[i] # None
    <3>1. link[i] \in Callbacks
      BY <2>2, <1>1 DEF Types
    <3>2. Append(notified[link[i]], p) \in Seq(SyncPoints)
      BY <3>1, <1>1, AppendFacts DEF CallTypes
    <3> QED
      BY <2>2, <3>1, <3>2, <1>1, <1>2 DEF CallTypes
  <2> QED
    BY <2>1, <2>2
<1>10. FrameIsTidy' /\ ReadLinkIsIts'
  BY <1>1 DEF OrderInv, FrameIsTidy, Held, ReadLinkIsIts
<1>11. NumbersAscend'
  <2>1. /\ \A c \in Callbacks : \A x \in Elements(Here(c)) : x \in Nat /\ x <= syncPoint /\ x < p
        /\ \A k \in Places : IsNotify(k) =>
             /\ Coming[k].syncPoint \in Nat
             /\ Coming[k].syncPoint <= syncPoint /\ Coming[k].syncPoint < p
    <3>1. \A c \in Callbacks : \A x \in Elements(Here(c)) : x \in Nat
      BY <1>1, HereFacts, SequenceFacts
    <3>2. ASSUME NEW k \in Places, IsNotify(k) PROVE Coming[k].syncPoint \in Nat
      <4>1. Coming[k] \in Message /\ Coming[k].op = "Notify"
        BY <3>2, <1>6 DEF IsNotify
      <4> QED
        BY <4>1 DEF Message, SyncPoints
    <3> QED
      BY <3>1, <3>2, <1>1, <1>2 DEF OrderInv, NumbersAscend
  <2>2. \A c \in Callbacks : Ascending(Here(c)) /\ \A x \in Elements(Here(c)) : x <= p
    <3>1. \A c \in Callbacks : Ascending(Here(c))
      BY DEF OrderInv, NumbersAscend
    <3>2. \A x \in Nat : x < p => x <= p
      BY CallbackAssumption DEF SyncPoints
    <3> QED
      BY <2>1, <3>1, <3>2
  <2>3. \A k \in Places : ~(z < k)
    BY <1>6
  <2> QED
    BY <2>1, <2>2, <2>3, <1>1, <1>2, <1>3, <1>6, <1>7, <1>8 DEF OrderInv, NumbersAscend
<1>12. NumbersArrive'
  <2> SUFFICES ASSUME NEW j \in Interfaces, link[j] # None, NEW x \in Elements(notified'[link[j]])
               PROVE  Arrives(link[j], j, x)'
    BY <1>1 DEF NumbersArrive
  <2>1. PICK c \in Callbacks : c = link[j]
    BY <1>1 DEF Types
  <2>2. CASE x \in Elements(notified[c])
    <3>1. Arrives(c, j, x)
      BY <2>1, <2>2 DEF OrderInv, NumbersArrive
    <3>2. Arrives(c, j, x)'
      BY <3>1, <1>6, <1>7, <1>8 DEF Arrives
    <3> QED
      BY <2>1, <3>2, <1>1
  <2>3. CASE x \notin Elements(notified[c])
    <3>1. link[i] = c /\ x = p
      <4>1. link[i] # None /\ notified' = [notified EXCEPT ![link[i]] = Append(@, p)]
        BY <2>1, <2>3, <1>1, <1>2
      <4>2. link[i] = c
        BY <4>1, <2>1, <2>3, <1>1 DEF CallTypes
      <4>3. notified'[c] = Append(notified[c], p) /\ notified[c] \in Seq(SyncPoints)
        BY <4>1, <4>2, <1>1 DEF CallTypes
      <4>4. Elements(Append(notified[c], p)) = Elements(notified[c]) \cup {p}
        BY <4>3, AppendFacts
      <4>5. x \in Elements(notified'[c])
        BY <2>1
      <4>6. x \in Elements(Append(notified[c], p))
        BY <4>3, <4>5, Zenon
      <4> QED
        BY <4>2, <4>4, <4>6, <2>3, Zenon
    <3>2. i = j
      BY <2>1, <3>1 DEF OrderInv, IInv, Links, LinkIsExact
    <3>3. \A l \in Places' : IsAdd(l, c)' => l < z
      BY <1>6, <1>7
    <3>4. Arrives(c, j, x)'
      BY <3>1, <3>2, <3>3, <1>3, <1>6, <1>7 DEF Arrives
    <3> QED
      BY <2>1, <3>4, <1>1
  <2> QED
    BY <2>2, <2>3
<1> QED
  BY <1>9, <1>10, <1>11, <1>12 DEF Rest

\* The calls that add nothing and send no sync point.
LEMMA CallsKeepOrder ==
  ASSUME OrderInv,
         \/ \E i \in Interfaces : RemoveFrameCallback(i)
         \/ \E n \in Roots : DropRoot(n)
  PROVE  ListInv' /\ Rest'
<1>0. /\ Types /\ CallTypes /\ ListInv /\ FrameIsTidy /\ NumbersAscend /\ NumbersArrive
      /\ heap \subseteq Callbacks /\ link \in [Interfaces -> Callbacks \cup {None}]
  BY DEF OrderInv, IInv, Types
<1>1. CASE \E i \in Interfaces : RemoveFrameCallback(i)
  <2>1. PICK i \in Interfaces : RemoveFrameCallback(i)
    BY <1>1
  <2>2. /\ removing' = i /\ linked' = link[i]
        /\ UNCHANGED <<link, heap, callback, callbacks, inbox, updatePc, buffer, position, leaving,
                       syncPoint, notified, popped>>
    BY <2>1 DEF RemoveFrameCallback, updateVars
  <2>3. Coming' = Coming /\ Held' = Held /\ \A c : (Doomed(c)' <=> Doomed(c)) /\ Here(c)' = Here(c)
    BY <2>2 DEF Coming, Held, Doomed, Here
  <2>4. ListInv'
    BY <1>0, <2>2, <2>3, QuietKeepsLists
  <2>5. NumbersAscend' /\ NumbersArrive'
    BY <1>0, <2>2, <2>3, ApartKeepsNumbers DEF Apart
  <2>6. CallTypes' /\ FrameIsTidy'
    BY <1>0, <2>2, <2>3 DEF CallTypes, FrameIsTidy
  <2>7. ReadLinkIsIts'
    BY <1>0, <2>2, CallbackAssumption DEF ReadLinkIsIts, OrderInv, IInv, Links, LinkIsExact
  <2> QED
    BY <2>4, <2>5, <2>6, <2>7 DEF Rest
<1>2. CASE \E n \in Roots : DropRoot(n)
  <2>1. PICK n \in Roots : DropRoot(n)
    BY <1>2
  <2>2. PICK m : m = [op |-> "Destroy", root |-> n]
    OBVIOUS
  <2>3. m \in Message /\ m.op = "Destroy"
    BY <2>2 DEF Message
  <2>4. /\ inbox' = Append(inbox, m)
        /\ UNCHANGED <<link, heap, callback, callbacks, updatePc, buffer, position, leaving,
                       eventPc, removing, linked, syncPoint, notified, popped>>
    BY <2>1, <2>2 DEF DropRoot, updateVars, removeVars
  <2>5. Held' = Held /\ \A c : (Doomed(c)' <=> Doomed(c)) /\ Here(c)' = Here(c)
    BY <2>4 DEF Held, Doomed, Here
  <2>6. ListInv'
    BY <1>0, <2>3, <2>4, <2>5, SentKeepsLists
  <2>7. NumbersAscend' /\ NumbersArrive'
    <3>1. Apart
      BY <2>3, <2>4 DEF Apart
    <3> QED
      BY <1>0, <2>4, <2>5, <3>1, ApartKeepsNumbers
  <2>8. CallTypes' /\ FrameIsTidy' /\ ReadLinkIsIts'
    BY <1>0, <2>4, <2>5 DEF CallTypes, FrameIsTidy, OrderInv, ReadLinkIsIts
  <2> QED
    BY <2>6, <2>7, <2>8 DEF Rest
<1> QED
  BY <1>1, <1>2

\* Cutting links makes none.
LEMMA CutOnlyCuts ==
  ASSUME NEW s, Cut(s)
  PROVE  \A i \in Interfaces : link'[i] \in {link[i], None}
  BY DEF Cut

\* What the event thread invalidates is of the interface it removes.
LEMMA InvalidateKeepsOrder ==
  ASSUME OrderInv, Invalidate
  PROVE  ListInv' /\ Rest'
<1>0. /\ Types /\ CallTypes /\ ListInv /\ FrameIsTidy /\ NumbersAscend /\ NumbersArrive
      /\ heap \subseteq Callbacks /\ callback \in [Callbacks -> Callback]
      /\ CalledIsValid
  BY DEF OrderInv, IInv, Types
<1>1. /\ eventPc = "invalidate" /\ eventPc' = "idle"
      /\ UNCHANGED <<heap, callbacks, updatePc, buffer, position, leaving, syncPoint, notified,
                     popped>>
  BY DEF Invalidate, updateVars
<1>2. PICK m : m = [op |-> "Remove", interface |-> removing]
  OBVIOUS
<1>3. m \in Message /\ m.op = "Remove" /\ m.interface = removing /\ inbox' = Append(inbox, m)
  BY <1>1, <1>2 DEF Invalidate, Message, OrderInv, IInv, ReadLinkIsGood
<1>4. \A i \in Interfaces : link'[i] \in {link[i], None}
  <2>1. CASE linked = None
    BY <2>1 DEF Invalidate
  <2>2. CASE linked # None
    BY <2>2, CutOnlyCuts DEF Invalidate
  <2> QED
    BY <2>1, <2>2
<1>5. \A c \in Callbacks : /\ c # linked => callback'[c] = callback[c]
                           /\ callback'[c].interface = callback[c].interface
                           /\ callback'[c].proxy = callback[c].proxy
                           /\ callback'[c].syncPoints = callback[c].syncPoints
                           /\ callback'[c].proxySyncPoints = callback[c].proxySyncPoints
  <2>1. callback' = callback \/ callback' = [callback EXCEPT ![linked].valid = FALSE]
    BY DEF Invalidate
  <2> SUFFICES ASSUME NEW c \in Callbacks
               PROVE  /\ c # linked => callback'[c] = callback[c]
                      /\ callback'[c].interface = callback[c].interface
                      /\ callback'[c].proxy = callback[c].proxy
                      /\ callback'[c].syncPoints = callback[c].syncPoints
                      /\ callback'[c].proxySyncPoints = callback[c].proxySyncPoints
    OBVIOUS
  <2>2. callback[c] \in Callback
    BY <1>0
  <2>3. callback'[c] = callback[c] \/ callback'[c] = [callback[c] EXCEPT !.valid = FALSE]
    BY <1>0, <2>1
  <2>4. c # linked => callback'[c] = callback[c]
    BY <1>0, <2>1
  <2> QED
    BY <2>2, <2>3, <2>4 DEF Callback
<1>6. Held' = Held /\ Held \subseteq heap
  BY <1>0, <1>1 DEF Held, ListInv, AddedOnce
<1>7. \A c \in Held : Doomed(c)' <=> Doomed(c)
  BY <1>0, <1>1, <1>5, <1>6 DEF Doomed
<1>8. \A c \in heap : \/ callback'[c].valid = callback[c].valid
                      \/ callback[c].interface = removing
  BY <1>0, <1>1, <1>5 DEF OrderInv, ReadLinkIsIts
<1>9. ListInv'
  <2>1. \A c \in heap : callback'[c].interface = callback[c].interface
    BY <1>0, <1>5
  <2> QED
    BY <1>0, <1>1, <1>3, <1>7, <1>8, <2>1, SentKeepsLists
<1>10. NumbersAscend' /\ NumbersArrive'
  <2>1. Apart
    BY <1>1, <1>3 DEF Apart
  <2>2. \A c \in Callbacks : Here(c)' = Here(c)
    BY <1>1, <1>5 DEF Here
  <2> QED
    BY <1>0, <1>1, <1>4, <2>1, <2>2, ApartKeepsNumbers
<1>11. CallTypes' /\ ReadLinkIsIts'
  BY <1>0, <1>1 DEF CallTypes, ReadLinkIsIts
<1>12. FrameIsTidy'
  BY <1>0, <1>1, <1>5, <1>6 DEF FrameIsTidy, CalledIsValid
<1> QED
  BY <1>9, <1>10, <1>11, <1>12 DEF Rest

\* Taking the first of the second sequence to the end of the first.
LEMMA MoveOne ==
  ASSUME NEW S, NEW s \in Seq(S), NEW t \in Seq(S), t # << >>
  PROVE  Append(s, Head(t)) \o Tail(t) = s \o t
<1> DEFINE a == Append(s, Head(t))
           b == Tail(t)
<1>1. /\ Head(t) = t[1] /\ Head(t) \in S /\ b \in Seq(S) /\ Len(b) = Len(t) - 1
      /\ \A k \in 1 .. Len(b) : b[k] = t[k + 1]
      /\ Len(t) \in Nat \ {0} /\ Len(s) \in Nat
  BY HeadTailProperties
<1>2. /\ a \in Seq(S) /\ Len(a) = Len(s) + 1 /\ a[Len(s) + 1] = Head(t)
      /\ \A k \in 1 .. Len(s) : a[k] = s[k]
  BY <1>1, AppendProperties
<1> HIDE DEF a, b
<1>3. /\ a \o b \in Seq(S) /\ Len(a \o b) = Len(a) + Len(b)
      /\ \A k \in 1 .. Len(a) + Len(b) :
           (a \o b)[k] = IF k <= Len(a) THEN a[k] ELSE b[k - Len(a)]
  BY <1>1, <1>2, ConcatProperties
<1>4. /\ s \o t \in Seq(S) /\ Len(s \o t) = Len(s) + Len(t)
      /\ \A k \in 1 .. Len(s) + Len(t) :
           (s \o t)[k] = IF k <= Len(s) THEN s[k] ELSE t[k - Len(s)]
  BY <1>1, ConcatProperties
<1>5. Len(a) + Len(b) = Len(s) + Len(t)
  BY <1>1, <1>2
<1>6. ASSUME NEW k \in 1 .. Len(s) + Len(t) PROVE (a \o b)[k] = (s \o t)[k]
  <2>1. CASE k <= Len(s)
    <3>1. k <= Len(a) /\ k \in 1 .. Len(s)
      BY <2>1, <1>1, <1>2
    <3> QED
      BY <3>1, <2>1, <1>2, <1>3, <1>4, <1>5
  <2>2. CASE k = Len(s) + 1
    <3>1. k <= Len(a) /\ ~(k <= Len(s)) /\ k - Len(s) = 1
      BY <2>2, <1>1, <1>2
    <3>2. (a \o b)[k] = Head(t)
      BY <2>2, <3>1, <1>2, <1>3, <1>5
    <3>3. (s \o t)[k] = t[1]
      BY <3>1, <1>4
    <3> QED
      BY <3>2, <3>3, <1>1
  <2>3. CASE k > Len(s) + 1
    <3>1. /\ ~(k <= Len(a)) /\ ~(k <= Len(s)) /\ k - Len(a) \in 1 .. Len(b)
          /\ k - Len(a) + 1 = k - Len(s)
      BY <2>3, <1>1, <1>2
    <3>2. (a \o b)[k] = b[k - Len(a)]
      BY <3>1, <1>3, <1>5
    <3>3. b[k - Len(a)] = t[k - Len(s)]
      BY <3>1, <1>1
    <3>4. (s \o t)[k] = t[k - Len(s)]
      BY <3>1, <1>4
    <3> QED
      BY <3>2, <3>3, <3>4
  <2>4. k <= Len(s) \/ k = Len(s) + 1 \/ k > Len(s) + 1
    BY <1>1
  <2> QED
    BY <2>1, <2>2, <2>3, <2>4
<1>7. a \o b = s \o t
  BY <1>3, <1>4, <1>5, <1>6, SeqEqual
<1> QED
  BY <1>7 DEF a, b

\* A frame that runs on, and the pops of the interface.
LEMMA FrameKeepsOrder ==
  ASSUME OrderInv,
         UpdateBegin \/ MessagesEnd \/ CallbackUpdate \/ PopSyncPoint \/ CallbackReturns
  PROVE  ListInv' /\ Rest'
<1>0. /\ Types /\ CallTypes /\ ListInv /\ FrameIsTidy /\ NumbersAscend /\ NumbersArrive
      /\ heap \subseteq Callbacks /\ callback \in [Callbacks -> Callback] /\ CalledIsValid
      /\ callbacks \in Seq(Callbacks) /\ position \in Nat \ {0} /\ Len(callbacks) \in Nat
      /\ Held \subseteq heap
  BY DEF OrderInv, IInv, Types, CallTypes, ListInv, AddedOnce
<1>1. /\ link' = link /\ heap' = heap /\ callbacks' = callbacks /\ notified' = notified
      /\ syncPoint' = syncPoint /\ UNCHANGED <<eventPc, removing, linked>>
  BY DEF UpdateBegin, MessagesEnd, CallbackUpdate, PopSyncPoint, CallbackReturns, removeVars,
         historyVars
<1>2. Coming' = Coming
  <2>1. CASE UpdateBegin
    <3>1. buffer = << >> /\ buffer' = inbox /\ inbox' = << >> /\ inbox \in Seq(Message)
      BY <2>1, <1>0 DEF UpdateBegin, FrameIsTidy, Types
    <3>2. << >> \o inbox = inbox /\ inbox \o << >> = inbox
      BY <3>1, ConcatEmptySeq
    <3> QED
      BY <3>1, <3>2 DEF Coming
  <2>2. CASE ~UpdateBegin
    BY <2>2 DEF MessagesEnd, CallbackUpdate, PopSyncPoint, CallbackReturns, updateVars, Coming
  <2> QED
    BY <2>1, <2>2
\* Parts that follow alike from what the step does to the callbacks.
<1>3. SUFFICES /\ \A c \in Callbacks : /\ callback'[c].valid = callback[c].valid
                                       /\ callback'[c].interface = callback[c].interface
                                       /\ Here(c)' = Here(c)
               /\ \A c \in Held : Doomed(c) => Doomed(c)' /\ Len(buffer') = Len(buffer)
               /\ popped' \in [Callbacks -> Seq(SyncPoints)] /\ position' \in Nat \ {0}
               /\ FrameIsTidy'
  <2> SUFFICES ASSUME /\ \A c \in Callbacks : /\ callback'[c].valid = callback[c].valid
                                              /\ callback'[c].interface = callback[c].interface
                                              /\ Here(c)' = Here(c)
                      /\ \A c \in Held : Doomed(c) => Doomed(c)' /\ Len(buffer') = Len(buffer)
                      /\ popped' \in [Callbacks -> Seq(SyncPoints)] /\ position' \in Nat \ {0}
                      /\ FrameIsTidy'
               PROVE  ListInv' /\ Rest'
    OBVIOUS
  <2>1. ListInv'
    BY <1>0, <1>1, <1>2, QuietKeepsLists
  <2>2. NumbersAscend' /\ NumbersArrive'
    BY <1>0, <1>1, <1>2, ApartKeepsNumbers DEF Apart
  <2>3. CallTypes' /\ ReadLinkIsIts'
    BY <1>0, <1>1 DEF CallTypes, OrderInv, ReadLinkIsIts
  <2> QED
    BY <2>1, <2>2, <2>3 DEF Rest
<1>4. Held' = Held
  BY <1>1 DEF Held
<1>5. CASE UpdateBegin
  <2>1. /\ updatePc = "idle" /\ updatePc' = "messages" /\ callback' = callback
        /\ popped' = popped /\ position' = position /\ leaving' = leaving
    BY <1>5 DEF UpdateBegin, historyVars
  <2>2. \A c : ~Doomed(c)
    BY <2>1 DEF Doomed
  <2> QED
    BY <1>0, <1>4, <2>1, <2>2 DEF Here, FrameIsTidy, CallTypes
<1>6. CASE MessagesEnd
  <2>1. /\ updatePc = "messages" /\ buffer = << >> /\ updatePc' = "callbacks" /\ position' = 1
        /\ callback' = callback /\ popped' = popped /\ leaving' = leaving /\ buffer' = buffer
    BY <1>6 DEF MessagesEnd, historyVars
  <2>2. \A c \in Held : Doomed(c) => Doomed(c)'
    <3> SUFFICES ASSUME NEW c \in Held, Doomed(c) PROVE Doomed(c)'
      OBVIOUS
    <3>1. PICK k \in 1 .. Len(callbacks) : callbacks[k] = c
      BY <1>0, Positions DEF Held
    <3>2. 1 <= k
      BY <1>0
    <3> QED
      BY <2>1, <3>1, <3>2, <1>1 DEF Doomed
  <2> QED
    BY <1>0, <1>4, <2>1, <2>2 DEF Here, FrameIsTidy, CallTypes
<1>7. CASE CallbackUpdate
  <2>1. PICK a \in Callbacks :
          /\ a = callbacks[position]
          /\ callback' = IF callback[a].proxy
                         THEN [callback EXCEPT ![a].proxySyncPoints = @ \o callback[a].syncPoints,
                                               ![a].syncPoints = << >>]
                         ELSE callback
          /\ IF callback[a].proxy /\ callback[a].valid
             THEN updatePc' = "calling" /\ UNCHANGED position
             ELSE position' = position + 1 /\ UNCHANGED updatePc
          /\ leaving' = IF Continues(a) THEN leaving ELSE leaving \cup {a}
    BY <1>7, Zenon DEF CallbackUpdate
  <2>2. /\ updatePc = "callbacks" /\ position <= Len(callbacks) /\ buffer' = buffer
        /\ popped' = popped
    BY <1>7, Zenon DEF CallbackUpdate, historyVars
  <2>3. \A c \in Callbacks : /\ callback'[c].valid = callback[c].valid
                             /\ callback'[c].interface = callback[c].interface
                             /\ callback'[c].proxy = callback[c].proxy
                             /\ c # a => callback'[c] = callback[c]
    <3> SUFFICES ASSUME NEW c \in Callbacks
                 PROVE  /\ callback'[c].valid = callback[c].valid
                        /\ callback'[c].interface = callback[c].interface
                        /\ callback'[c].proxy = callback[c].proxy
                        /\ c # a => callback'[c] = callback[c]
      OBVIOUS
    <3>1. callback[c] \in Callback
      BY <1>0
    <3> QED
      BY <3>1, <1>0, <2>1 DEF Callback
  <2>4. \A c \in Callbacks : Here(c)' = Here(c)
    <3>1. \A c \in Callbacks \ {a} : Here(c)' = Here(c)
      BY <2>2, <2>3 DEF Here
    <3>2. Here(a)' = Here(a)
      <4>1. CASE callback[a].proxy
        <5> DEFINE p == callback[a].proxySyncPoints
                   s == callback[a].syncPoints
                   q == popped[a]
        <5>1. p \in Seq(SyncPoints) /\ s \in Seq(SyncPoints) /\ q \in Seq(SyncPoints)
          BY <1>0, HereFacts
        <5>2. callback'[a].proxySyncPoints = p \o s /\ callback'[a].syncPoints = << >>
          <6>1. callback[a] \in Callback
            BY <1>0
          <6> QED
            BY <6>1, <4>1, <2>1, <1>0 DEF Callback
        <5>3. Here(a)' = q \o (p \o s) \o << >> /\ Here(a) = q \o p \o s
          BY <5>2, <2>2 DEF Here
        <5> HIDE DEF p, s, q
        <5>4. q \o (p \o s) = q \o p \o s /\ q \o (p \o s) \in Seq(SyncPoints)
          BY <5>1, ConcatAssociative, ConcatProperties
        <5>5. q \o (p \o s) \o << >> = q \o (p \o s)
          BY <5>4, ConcatEmptySeq
        <5> QED
          BY <5>3, <5>4, <5>5
      <4>2. CASE ~callback[a].proxy
        BY <4>2, <2>1, <2>2 DEF Here
      <4> QED
        BY <4>1, <4>2
    <3> QED
      BY <3>1, <3>2
  <2>5. ASSUME NEW c \in Held, Doomed(c) PROVE Doomed(c)'
    <3>1. ~callback'[c].proxy /\ ~callback[c].proxy
      BY <2>3, <2>5, <1>0 DEF Doomed
    <3>2. c \in leaving \/ \E k \in 1 .. Len(callbacks) : position <= k /\ callbacks[k] = c
      BY <2>2, <2>5 DEF Doomed
    <3>3. CASE c \in leaving
      BY <3>1, <3>3, <2>1, <2>2 DEF Doomed
    <3>4. ASSUME NEW k \in 1 .. Len(callbacks), position <= k, callbacks[k] = c
          PROVE  Doomed(c)'
      <4>1. CASE k = position
        <5>1. c = a /\ ~Continues(a)
          BY <4>1, <3>1, <3>4, <2>1 DEF Continues
        <5> QED
          BY <5>1, <3>1, <2>1, <2>2 DEF Doomed
      <4>2. CASE k # position
        <5>1. position' <= k
          BY <4>2, <3>4, <2>1, <1>0
        <5> QED
          BY <5>1, <3>1, <3>4, <2>1, <2>2, <1>1 DEF Doomed
      <4> QED
        BY <4>1, <4>2
    <3> QED
      BY <3>2, <3>3, <3>4
  <2>6. FrameIsTidy'
    <3>1. a \in Held
      <4>1. position # 0
        BY <1>0
      <4> QED
        BY <4>1, <2>1, <2>2, <1>0, Positions DEF Held
    <3>2. leaving' \subseteq Held
      BY <3>1, <2>1, <1>0 DEF FrameIsTidy
    <3> QED
      BY <3>2, <2>1, <2>2, <2>3, <1>0, <1>1, <1>4 DEF FrameIsTidy
  <2>7. popped' \in [Callbacks -> Seq(SyncPoints)] /\ position' \in Nat \ {0}
    BY <1>0, <2>1, <2>2 DEF CallTypes
  <2> QED
    BY <2>2, <2>3, <2>4, <2>5, <2>6, <2>7
<1>8. CASE PopSyncPoint
  <2> DEFINE a == callbacks[position]
             p == callback[a].proxySyncPoints
             s == callback[a].syncPoints
             q == popped[a]
  <2>1. /\ updatePc = "calling" /\ p # << >>
        /\ popped' = [popped EXCEPT ![a] = Append(@, Head(p))]
        /\ callback' = [callback EXCEPT ![a].proxySyncPoints = Tail(@)]
        /\ UNCHANGED <<updatePc, buffer, position, leaving>>
    BY <1>8 DEF PopSyncPoint, updateVars
  <2>2. a \in Callbacks
    BY <2>1, <1>0 DEF CalledIsValid
  <2>3. p \in Seq(SyncPoints) /\ s \in Seq(SyncPoints) /\ q \in Seq(SyncPoints)
    BY <2>2, <1>0, HereFacts
  <2>4. \A c \in Callbacks : /\ callback'[c].valid = callback[c].valid
                             /\ callback'[c].interface = callback[c].interface
                             /\ callback'[c].proxy = callback[c].proxy
                             /\ callback'[c].syncPoints = callback[c].syncPoints
                             /\ callback'[c].proxySyncPoints =
                                  IF c = a THEN Tail(p) ELSE callback[c].proxySyncPoints
    <3> SUFFICES ASSUME NEW c \in Callbacks
                 PROVE  /\ callback'[c].valid = callback[c].valid
                        /\ callback'[c].interface = callback[c].interface
                        /\ callback'[c].proxy = callback[c].proxy
                        /\ callback'[c].syncPoints = callback[c].syncPoints
                        /\ callback'[c].proxySyncPoints =
                             IF c = a THEN Tail(p) ELSE callback[c].proxySyncPoints
      OBVIOUS
    <3>1. callback[c] \in Callback
      BY <1>0
    <3>2. callback'[c] = IF c = a THEN [callback[c] EXCEPT !.proxySyncPoints = Tail(@)]
                         ELSE callback[c]
      BY <2>1, <1>0
    <3> QED
      BY <3>1, <3>2 DEF Callback
  <2>5. popped' \in [Callbacks -> Seq(SyncPoints)] /\ popped'[a] = Append(q, Head(p))
        /\ \A c \in Callbacks \ {a} : popped'[c] = popped[c]
    <3>1. Head(p) \in SyncPoints /\ Append(q, Head(p)) \in Seq(SyncPoints)
      BY <2>1, <2>3, SequenceFacts
    <3> QED
      BY <3>1, <2>1, <2>2, <1>0 DEF CallTypes
  <2>6. \A c \in Callbacks : Here(c)' = Here(c)
    <3>1. \A c \in Callbacks \ {a} : Here(c)' = Here(c)
      BY <2>4, <2>5 DEF Here
    <3>2. PICK d \in Callbacks : d = a
      BY <2>2
    <3>3. Here(d)' = Append(q, Head(p)) \o Tail(p) \o s /\ Here(d) = q \o p \o s
      BY <3>2, <2>4, <2>5 DEF Here
    <3> HIDE DEF p, q, s, a
    <3>4. Append(q, Head(p)) \o Tail(p) = q \o p
      BY <2>1, <2>3, MoveOne
    <3> QED
      BY <3>1, <3>2, <3>3, <3>4
  <2>7. \A c \in Held : Doomed(c) => Doomed(c)'
    BY <2>1, <2>4, <1>0, <1>1 DEF Doomed
  <2>8. FrameIsTidy'
    BY <2>1, <2>2, <2>4, <1>0, <1>1, <1>4 DEF FrameIsTidy
  <2>9. position' \in Nat \ {0} /\ buffer' = buffer
    BY <2>1, <1>0
  <2> QED
    BY <2>4, <2>5, <2>6, <2>7, <2>8, <2>9
<1>9. CASE CallbackReturns
  <2>1. /\ updatePc = "calling" /\ updatePc' = "callbacks" /\ position' = position + 1
        /\ callback' = callback /\ popped' = popped /\ leaving' = leaving /\ buffer' = buffer
    BY <1>9 DEF CallbackReturns, historyVars
  <2>2. ASSUME NEW c \in Held, Doomed(c) PROVE Doomed(c)'
    <3>1. ~callback[c].proxy
          /\ (c \in leaving \/ \E k \in 1 .. Len(callbacks) : position <= k /\ callbacks[k] = c)
      BY <2>1, <2>2 DEF Doomed
    <3>2. CASE c \in leaving
      BY <3>1, <3>2, <2>1 DEF Doomed
    <3>3. ASSUME NEW k \in 1 .. Len(callbacks), position <= k, callbacks[k] = c
          PROVE  Doomed(c)'
      <4>1. k # position
        BY <3>1, <3>3, <2>1, <1>0 DEF FrameIsTidy
      <4>2. position + 1 <= k
        BY <4>1, <3>3, <1>0
      <4> QED
        BY <4>2, <3>1, <3>3, <2>1, <1>1 DEF Doomed
    <3> QED
      BY <3>1, <3>2, <3>3
  <2>3. FrameIsTidy'
    BY <2>1, <1>0, <1>4 DEF FrameIsTidy
  <2> QED
    BY <1>0, <2>1, <2>2, <2>3 DEF Here, CallTypes
<1> QED
  BY <1>5, <1>6, <1>7, <1>8, <1>9

\* Destroying callbacks leaves the sync points and the proxies of all alone.
LEMMA DestroyFacts ==
  ASSUME Types, CallTypes, NEW s \in SUBSET Callbacks, Destroy(s), popped' = popped
  PROVE  /\ \A c \in Callbacks : /\ callback'[c].interface = callback[c].interface
                                 /\ callback'[c].proxy = callback[c].proxy
                                 /\ c \notin s => callback'[c] = callback[c]
                                 /\ Here(c)' = Here(c)
         /\ \A i \in Interfaces : link'[i] \in {link[i], None}
<1>1. callback' = [c \in Callbacks |-> IF c \in s THEN [callback[c] EXCEPT !.valid = FALSE]
                                       ELSE callback[c]]
  BY DEF Destroy
<1>2. \A c \in Callbacks : /\ callback'[c].interface = callback[c].interface
                           /\ callback'[c].proxy = callback[c].proxy
                           /\ c \notin s => callback'[c] = callback[c]
                           /\ callback'[c].syncPoints = callback[c].syncPoints
                           /\ callback'[c].proxySyncPoints = callback[c].proxySyncPoints
  BY <1>1 DEF Types, Callback
<1>3. \A c \in Callbacks : Here(c)' = Here(c)
  BY <1>2 DEF Here
<1> QED
  BY <1>2, <1>3, CutOnlyCuts DEF Destroy

\* The end of a frame.
LEMMA EndKeepsOrder ==
  ASSUME OrderInv, CallbacksEnd
  PROVE  ListInv' /\ Rest'
<1>0. /\ Types /\ CallTypes /\ ListInv /\ FrameIsTidy /\ NumbersAscend /\ NumbersArrive
      /\ callbacks \in Seq(Callbacks) /\ position \in Nat /\ leaving \subseteq Held
      /\ leaving \in SUBSET Callbacks
  BY DEF OrderInv, IInv, Types, CallTypes, FrameIsTidy
<1>1. /\ updatePc = "callbacks" /\ updatePc' = "idle" /\ position' = 1 /\ leaving' = {}
      /\ Destroy(leaving) /\ Coming' = Coming /\ buffer' = buffer
      /\ UNCHANGED <<eventPc, removing, linked, syncPoint, notified, popped>>
  BY DEF CallbacksEnd, removeVars, historyVars, Coming
<1>2. ListInv'
  BY <1>0, EndKeepsLists
<1>3. /\ \A c \in Callbacks : Here(c)' = Here(c) /\ callback'[c].interface = callback[c].interface
      /\ \A i \in Interfaces : link'[i] \in {link[i], None}
  BY <1>0, <1>1, DestroyFacts
<1>4. NumbersAscend' /\ NumbersArrive'
  BY <1>0, <1>1, <1>3, ApartKeepsNumbers DEF Apart
<1>5. callbacks' \in Seq(Callbacks) /\ heap' \subseteq heap /\ heap \subseteq Callbacks
  BY <1>0, <1>1, DestroyLeaves DEF Types
<1>6. CallTypes' /\ FrameIsTidy'
  BY <1>0, <1>1, <1>5 DEF CallTypes, FrameIsTidy
<1>7. ReadLinkIsIts'
  BY <1>1, <1>3, <1>5 DEF OrderInv, ReadLinkIsIts
<1> QED
  BY <1>2, <1>4, <1>6, <1>7 DEF Rest

\* The messages that bring no sync point.
LEMMA MessagesKeepOrder ==
  ASSUME OrderInv, ProcessAdd \/ ProcessRemove \/ ProcessDestroy
  PROVE  ListInv' /\ Rest'
<1>0. /\ Types /\ CallTypes /\ ListInv /\ FrameIsTidy /\ NumbersAscend /\ NumbersArrive
      /\ callbacks \in Seq(Callbacks) /\ heap \subseteq Callbacks
      /\ callback \in [Callbacks -> Callback] /\ Held \subseteq heap
  BY DEF OrderInv, IInv, Types, CallTypes, ListInv, AddedOnce
<1>1. /\ updatePc = "messages" /\ updatePc' = "messages" /\ buffer # << >>
      /\ Head(buffer).op \in {"Add", "Remove", "Destroy"}
      /\ buffer' = Tail(buffer) /\ inbox' = inbox
      /\ UNCHANGED <<eventPc, removing, linked, position, leaving, syncPoint, notified, popped>>
      /\ leaving = {} /\ Head(buffer) \in Message
  BY <1>0, SequenceFacts DEF ProcessAdd, ProcessRemove, ProcessDestroy, NextMessage, removeVars,
         historyVars, FrameIsTidy, Types
<1>2. SUFFICES /\ ListInv' /\ callbacks' \in Seq(Callbacks) /\ heap' \subseteq heap
               /\ \A c \in Callbacks : /\ Here(c)' = Here(c)
                                       /\ callback'[c].interface = callback[c].interface
               /\ \A i \in Interfaces : link'[i] \in {link[i], None}
  <2> SUFFICES ASSUME /\ ListInv' /\ callbacks' \in Seq(Callbacks) /\ heap' \subseteq heap
                      /\ \A c \in Callbacks : /\ Here(c)' = Here(c)
                                              /\ callback'[c].interface = callback[c].interface
                      /\ \A i \in Interfaces : link'[i] \in {link[i], None}
               PROVE  Rest'
    OBVIOUS
  <2>1. Apart
    BY <1>1 DEF Apart
  <2>2. NumbersAscend' /\ NumbersArrive'
    BY <1>0, <1>1, <2>1, ApartKeepsNumbers
  <2>3. CallTypes' /\ FrameIsTidy'
    BY <1>0, <1>1 DEF CallTypes, FrameIsTidy
  <2>4. ReadLinkIsIts'
    BY <1>0, <1>1 DEF OrderInv, ReadLinkIsIts
  <2> QED
    BY <2>2, <2>3, <2>4 DEF Rest
<1>3. CASE ProcessAdd
  <2>1. ListInv'
    BY <1>0, <1>3, ProcessAddKeepsLists
  <2>2. PICK a : a = Head(buffer).callback
    OBVIOUS
  <2>3. /\ callback' = [callback EXCEPT ![a].proxy = TRUE, ![a].root = Head(buffer).root]
        /\ callbacks' = Append(callbacks, a) /\ link' = link /\ heap' = heap
        /\ Head(buffer).op = "Add"
    BY <1>3, <2>2 DEF ProcessAdd, NextMessage
  <2>4. a \in Callbacks
    BY <1>1, <2>2, <2>3 DEF Message
  <2>5. callbacks' \in Seq(Callbacks)
    BY <1>0, <2>3, <2>4, AppendFacts
  <2>6. \A c \in Callbacks : /\ callback'[c].interface = callback[c].interface
                             /\ callback'[c].syncPoints = callback[c].syncPoints
                             /\ callback'[c].proxySyncPoints = callback[c].proxySyncPoints
    BY <1>0, <2>3, <2>4, ZenonT(30) DEF Callback
  <2>7. \A c \in Callbacks : Here(c)' = Here(c)
    BY <1>1, <2>6 DEF Here
  <2> QED
    BY <2>1, <2>3, <2>5, <2>6, <2>7
<1>4. CASE ProcessRemove
  <2>1. PICK s : s = OfInterface(Head(buffer).interface)
    OBVIOUS
  <2>2. Destroy(s) /\ Head(buffer).op = "Remove"
    BY <1>4, <2>1 DEF ProcessRemove, NextMessage
  <2>3. /\ s = {c \in Held : callback[c].interface = Head(buffer).interface}
        /\ s \in SUBSET Callbacks /\ s \in SUBSET Held
    BY <1>0, <2>1 DEF OfInterface, Held
  <2>4. callbacks' \in Seq(Callbacks) /\ Held' = Held \ s /\ heap' = heap \ s
    BY <1>0, <2>2, <2>3, DestroyLeaves
  <2>5. /\ \A c \in Callbacks : /\ callback'[c].interface = callback[c].interface
                                /\ callback'[c].proxy = callback[c].proxy
                                /\ c \notin s => callback'[c] = callback[c]
                                /\ Here(c)' = Here(c)
        /\ \A i \in Interfaces : link'[i] \in {link[i], None}
    BY <1>0, <1>1, <2>2, <2>3, DestroyFacts
  <2>6. ListInv'
    BY <1>0, <1>1, <2>2, <2>3, <2>4, <2>5, TakenKeepsLists
  <2> QED
    BY <2>4, <2>5, <2>6
<1>5. CASE ProcessDestroy
  <2> DEFINE s == {c \in Callbacks : /\ c \in Elements(callbacks)
                                     /\ callback[c].root = Head(buffer).root}
  <2>1. /\ Cut(s) /\ heap' = heap /\ callbacks' = callbacks /\ Head(buffer).op = "Destroy"
        /\ callback' = [c \in Callbacks |->
                          IF c \in s
                          THEN [callback[c] EXCEPT !.root = None, !.proxy = FALSE, !.valid = FALSE]
                          ELSE callback[c]]
    BY <1>5 DEF ProcessDestroy, NextMessage
  <2>2. s \subseteq Held
    BY DEF Held
  <2> HIDE DEF s
  <2>3. \A c \in Callbacks : /\ callback'[c].interface = callback[c].interface
                             /\ callback'[c].syncPoints = callback[c].syncPoints
                             /\ callback'[c].proxySyncPoints = callback[c].proxySyncPoints
                             /\ c \notin s => callback'[c] = callback[c]
                             /\ c \in s => ~callback'[c].proxy
    <3> SUFFICES ASSUME NEW c \in Callbacks
                 PROVE  /\ callback'[c].interface = callback[c].interface
                        /\ callback'[c].syncPoints = callback[c].syncPoints
                        /\ callback'[c].proxySyncPoints = callback[c].proxySyncPoints
                        /\ c \notin s => callback'[c] = callback[c]
                        /\ c \in s => ~callback'[c].proxy
      OBVIOUS
    <3>1. callback[c] \in Callback
      BY <1>0
    <3>2. CASE c \in s
      BY <3>1, <3>2, <2>1 DEF Callback
    <3>3. CASE c \notin s
      BY <3>3, <2>1
    <3> QED
      BY <3>2, <3>3
  <2>4. \A c \in Callbacks : Here(c)' = Here(c)
    BY <1>1, <2>3 DEF Here
  <2>5. Held' = Held \ {} /\ heap' = heap \ {} /\ {} \in SUBSET Held
    BY <2>1 DEF Held
  <2>6. /\ \A c \in heap : /\ callback'[c].interface = callback[c].interface
                           /\ callback'[c].proxy => callback[c].proxy
        /\ \A c \in heap \ {} : \/ callback'[c].valid = callback[c].valid
                                \/ c \in Held /\ ~callback'[c].proxy
    BY <1>0, <2>2, <2>3
  <2>7. ListInv'
    BY <1>0, <1>1, <2>1, <2>5, <2>6, TakenKeepsLists
  <2> QED
    BY <1>0, <2>1, <2>3, <2>4, <2>7, CutOnlyCuts
<1> QED
  BY <1>3, <1>4, <1>5

\* The number goes to the callback that is linked: it is held, and no other
\* that is held has the interface.
LEMMA ProcessNotifyKeepsOrder ==
  ASSUME OrderInv, ProcessNotify
  PROVE  ListInv' /\ Rest'
<1>0. /\ Types /\ CallTypes /\ ListInv /\ FrameIsTidy /\ NumbersAscend /\ NumbersArrive
      /\ callbacks \in Seq(Callbacks) /\ heap \subseteq Callbacks
      /\ callback \in [Callbacks -> Callback] /\ Held \subseteq heap
  BY DEF OrderInv, IInv, Types, CallTypes, ListInv, AddedOnce
<1>1. /\ updatePc = "messages" /\ updatePc' = "messages" /\ buffer # << >>
      /\ Head(buffer).op = "Notify" /\ buffer' = Tail(buffer) /\ inbox' = inbox
      /\ UNCHANGED <<link, heap, callbacks, eventPc, removing, linked, position, leaving,
                     syncPoint, notified, popped>>
      /\ leaving = {} /\ Head(buffer) \in Message
  BY <1>0, SequenceFacts DEF ProcessNotify, NextMessage, removeVars, historyVars, FrameIsTidy,
                             Types
<1>2. PICK i \in Interfaces, n \in SyncPoints :
        Head(buffer).interface = i /\ Head(buffer).syncPoint = n
  BY <1>1 DEF Message
<1> DEFINE found == Only(callbacks, OfInterface(i))
<1>3. found \in Seq(Callbacks) /\ Elements(found) = {c \in Held : callback[c].interface = i}
  <2>1. found \in Seq(Callbacks) /\ Elements(found) = Held \cap OfInterface(i)
    BY <1>0, OnlyFacts DEF Held
  <2> QED
    BY <1>0, <2>1 DEF OfInterface, Held
<1>4. callback' = IF found = << >> THEN callback
                  ELSE [callback EXCEPT ![found[1]].syncPoints = Append(@, n)]
  BY <1>2 DEF ProcessNotify, SyncPointLast
<1> HIDE DEF found
<1>5. found # << >> => found[1] \in Held /\ callback[found[1]].interface = i
  <2>1. found # << >> => found[1] \in Elements(found)
    BY <1>3, Positions
  <2> QED
    BY <1>3, <2>1
<1>6. \A c \in Callbacks :
        /\ callback'[c].valid = callback[c].valid /\ callback'[c].interface = callback[c].interface
        /\ callback'[c].proxy = callback[c].proxy
        /\ callback'[c].proxySyncPoints = callback[c].proxySyncPoints
        /\ callback'[c].syncPoints = IF found # << >> /\ c = found[1]
                                     THEN Append(callback[c].syncPoints, n)
                                     ELSE callback[c].syncPoints
  <2> SUFFICES ASSUME NEW c \in Callbacks
               PROVE  /\ callback'[c].valid = callback[c].valid
                      /\ callback'[c].interface = callback[c].interface
                      /\ callback'[c].proxy = callback[c].proxy
                      /\ callback'[c].proxySyncPoints = callback[c].proxySyncPoints
                      /\ callback'[c].syncPoints = IF found # << >> /\ c = found[1]
                                                   THEN Append(callback[c].syncPoints, n)
                                                   ELSE callback[c].syncPoints
    OBVIOUS
  <2>1. callback[c] \in Callback
    BY <1>0
  <2>2. CASE found # << >> /\ c = found[1]
    <3>1. callback'[c] = [callback[c] EXCEPT !.syncPoints = Append(@, n)]
      BY <2>2, <1>0, <1>4
    <3> QED
      BY <3>1, <2>1, <2>2 DEF Callback
  <2>3. CASE ~(found # << >> /\ c = found[1])
    <3>1. callback'[c] = callback[c]
      BY <2>3, <1>0, <1>4
    <3> QED
      BY <3>1, <2>3
  <2> QED
    BY <2>2, <2>3
<1>7. \A c \in Callbacks : Here(c)' = IF found # << >> /\ c = found[1] THEN Append(Here(c), n)
                                      ELSE Here(c)
  <2> SUFFICES ASSUME NEW c \in Callbacks
               PROVE  Here(c)' = IF found # << >> /\ c = found[1] THEN Append(Here(c), n)
                                 ELSE Here(c)
    OBVIOUS
  <2>1. CASE found # << >> /\ c = found[1]
    <3> DEFINE p == callback[c].proxySyncPoints
               s == callback[c].syncPoints
               q == popped[c]
    <3>1. p \in Seq(SyncPoints) /\ s \in Seq(SyncPoints) /\ q \in Seq(SyncPoints)
      BY <1>0, HereFacts
    <3>2. Here(c)' = (q \o p) \o Append(s, n) /\ Here(c) = (q \o p) \o s
      BY <2>1, <1>1, <1>6 DEF Here
    <3> HIDE DEF p, s, q
    <3>3. q \o p \in Seq(SyncPoints)
      BY <3>1, ConcatProperties
    <3>4. << n >> \in Seq(SyncPoints) /\ (q \o p) \o s \in Seq(SyncPoints)
      BY <3>1, <3>3, ConcatProperties
    <3>5. /\ Append(s, n) = s \o << n >>
          /\ Append((q \o p) \o s, n) = ((q \o p) \o s) \o << n >>
      BY <3>1, <3>4, AppendIsConcat
    <3>6. ((q \o p) \o s) \o << n >> = (q \o p) \o (s \o << n >>)
      BY <3>1, <3>3, <3>4, ConcatAssociative
    <3> QED
      BY <2>1, <3>2, <3>5, <3>6
  <2>2. CASE ~(found # << >> /\ c = found[1])
    BY <2>2, <1>1, <1>6 DEF Here
  <2> QED
    BY <2>1, <2>2
<1>8. ListInv'
  <2>1. Held' = Held \ {} /\ heap' = heap \ {} /\ {} \in SUBSET Held
    BY <1>1 DEF Held
  <2>2. /\ \A c \in heap : /\ callback'[c].interface = callback[c].interface
                           /\ callback'[c].proxy => callback[c].proxy
        /\ \A c \in heap \ {} : callback'[c].valid = callback[c].valid
    BY <1>0, <1>6
  <2> QED
    BY <1>0, <1>1, <2>1, <2>2, TakenKeepsLists
<1>9. CallTypes' /\ FrameIsTidy'
  BY <1>0, <1>1 DEF CallTypes, FrameIsTidy, Held
<1>10. ReadLinkIsIts'
  BY <1>0, <1>1, <1>6 DEF OrderInv, ReadLinkIsIts
<1>11. /\ 1 \in Places /\ Coming[1] = Head(buffer) /\ Places \subseteq Nat \ {0}
       /\ \A k \in Places' : k \in Nat \ {0} /\ k + 1 \in Places /\ Coming'[k] = Coming[k + 1]
       /\ \A k \in Places : k # 1 => k - 1 \in Places' /\ Coming'[k - 1] = Coming[k]
  BY <1>0, <1>1, TakenPlaces, ComingFacts
<1>12. /\ \A k \in Places' : \A c : IsAdd(k, c)' <=> IsAdd(k + 1, c)
       /\ \A k \in Places' : IsNotify(k)' <=> IsNotify(k + 1)
       /\ \A k \in Places : k # 1 /\ IsNotify(k) => IsNotify(k - 1)'
       /\ IsNotify(1) /\ Coming[1].interface = i /\ Coming[1].syncPoint = n
  BY <1>1, <1>2, <1>11 DEF IsAdd, IsNotify
<1>13. /\ n <= syncPoint
       /\ \A c \in Callbacks : \A x \in Elements(Here(c)) : x < n
       /\ \A k \in Places : k # 1 /\ IsNotify(k) => n < Coming[k].syncPoint
  <2>0. Places \subseteq Nat \ {0}
    BY <1>11
  <2>1. \A k \in Places : k # 1 => 1 < k
    BY <2>0
  <2> QED
    BY <1>0, <1>11, <1>12, <2>1 DEF NumbersAscend
<1>14. \A c \in Callbacks :
         /\ Elements(Here(c)') = IF found # << >> /\ c = found[1] THEN Elements(Here(c)) \cup {n}
                                 ELSE Elements(Here(c))
         /\ Ascending(Here(c)')
  <2> SUFFICES ASSUME NEW c \in Callbacks
               PROVE  /\ Elements(Here(c)') = IF found # << >> /\ c = found[1]
                                              THEN Elements(Here(c)) \cup {n}
                                              ELSE Elements(Here(c))
                      /\ Ascending(Here(c)')
    OBVIOUS
  <2>1. Here(c) \in Seq(SyncPoints) /\ SyncPoints \in SUBSET Nat /\ Ascending(Here(c))
    BY <1>0, HereFacts DEF NumbersAscend
  <2>2. /\ Elements(Append(Here(c), n)) = Elements(Here(c)) \cup {n}
        /\ Ascending(Append(Here(c), n))
    BY <1>13, <2>1, AppendFacts, AscendingAppend
  <2> QED
    BY <1>7, <2>1, <2>2
<1>15. NumbersAscend'
  <2>1. \A c \in Callbacks : \A x \in Elements(Here(c)') : x <= syncPoint'
    BY <1>0, <1>1, <1>13, <1>14 DEF NumbersAscend
  <2>2. ASSUME NEW k \in Places', IsNotify(k)'
        PROVE  /\ Coming'[k].syncPoint <= syncPoint'
               /\ \A c \in Callbacks : \A x \in Elements(Here(c)') : x < Coming'[k].syncPoint
               /\ \A l \in Places' : k < l /\ IsNotify(l)' =>
                    Coming'[k].syncPoint < Coming'[l].syncPoint
    <3>1. k + 1 \in Places /\ k + 1 # 1 /\ IsNotify(k + 1) /\ Coming'[k] = Coming[k + 1]
      BY <2>2, <1>11, <1>12
    <3>2. /\ Coming[k + 1].syncPoint <= syncPoint
          /\ \A c \in Callbacks : \A x \in Elements(Here(c)) : x < Coming[k + 1].syncPoint
          /\ \A l \in Places : k + 1 < l /\ IsNotify(l) =>
               Coming[k + 1].syncPoint < Coming[l].syncPoint
      BY <3>1, <1>0 DEF NumbersAscend
    <3>3. n < Coming[k + 1].syncPoint
      BY <3>1, <1>13
    <3>4. \A l \in Places' : k < l /\ IsNotify(l)' =>
            /\ l + 1 \in Places /\ k + 1 < l + 1 /\ IsNotify(l + 1) /\ Coming'[l] = Coming[l + 1]
      BY <1>11, <1>12
    <3> QED
      BY <3>1, <3>2, <3>3, <3>4, <1>1, <1>14
  <2> QED
    BY <2>1, <2>2, <1>14 DEF NumbersAscend
<1>16. NumbersArrive'
  <2> SUFFICES ASSUME NEW j \in Interfaces, link[j] # None, NEW x \in Elements(notified[link[j]])
               PROVE  Arrives(link[j], j, x)'
    BY <1>1 DEF NumbersArrive
  <2>1. PICK c \in Callbacks : c = link[j]
    BY <1>0 DEF Types
  <2>2. Arrives(c, j, x)
    BY <1>0, <2>1 DEF NumbersArrive
  <2>3. Elements(Here(c)) \subseteq Elements(Here(c)')
    BY <1>14
  <2>4. ASSUME x \in Elements(Here(c)) PROVE Arrives(c, j, x)'
    BY <2>3, <2>4 DEF Arrives
  <2>5. ASSUME NEW k \in Places, IsNotify(k), Coming[k].interface = j,
               Coming[k].syncPoint = x, \A l \in Places : IsAdd(l, c) => l < k
        PROVE  Arrives(c, j, x)'
    <3>1. CASE k # 1
      <4>1. k - 1 \in Places' /\ IsNotify(k - 1)' /\ Coming'[k - 1] = Coming[k]
        BY <3>1, <2>5, <1>11, <1>12
      <4>2. \A l \in Places' : IsAdd(l, c)' => l < k - 1
        <5> SUFFICES ASSUME NEW l \in Places', IsAdd(l, c)' PROVE l < k - 1
          OBVIOUS
        <5>1. l + 1 < k
          BY <2>5, <1>11, <1>12
        <5> QED
          BY <5>1, <1>11
      <4> QED
        BY <2>5, <4>1, <4>2 DEF Arrives
    <3>2. CASE k = 1
      <4>1. j = i /\ x = n
        BY <3>2, <2>5, <1>12
      <4>2. \A l \in Places : ~IsAdd(l, c)
        BY <3>2, <2>5, <1>11
      <4>3. c \in heap /\ callback[c].interface = i
        BY <2>1, <4>1 DEF OrderInv, IInv, Links, LinkIsExact
      <4>4. c \in Held
        BY <1>0, <4>2, <4>3 DEF ListInv, HeapIsListed
      <4>5. found # << >>
        <5>1. c \in Elements(found)
          BY <1>3, <4>3, <4>4
        <5> QED
          BY <5>1 DEF Elements
      <4>6. found[1] = c
        BY <1>0, <1>5, <4>3, <4>4, <4>5 DEF ListInv, OneEach
      <4>7. x \in Elements(Here(c)')
        BY <1>14, <4>1, <4>5, <4>6
      <4> QED
        BY <4>7 DEF Arrives
    <3> QED
      BY <3>1, <3>2
  <2>6. Arrives(c, j, x)'
    BY <2>2, <2>4, <2>5 DEF Arrives
  <2> QED
    BY <2>1, <2>6, <1>1
<1> QED
  BY <1>8, <1>9, <1>10, <1>15, <1>16 DEF Rest

LEMMA InitHasOrder == Init => OrderInv
<1> SUFFICES ASSUME Init PROVE OrderInv
  OBVIOUS
<1>1. /\ heap = {} /\ callbacks = << >> /\ buffer = << >> /\ inbox = << >> /\ leaving = {}
      /\ updatePc = "idle" /\ eventPc = "idle" /\ position = 1 /\ syncPoint = 0
      /\ link = [i \in Interfaces |-> None] /\ callback = [c \in Callbacks |-> Unused]
      /\ notified = [c \in Callbacks |-> << >>] /\ popped = [c \in Callbacks |-> << >>]
  BY DEF Init
<1>2. Elements(<< >>) = {} /\ Ascending(<< >>)
  BY DEF Elements, Ascending
<1>3. << >> \in Seq(Message) /\ << >> \in Seq(SyncPoints) /\ << >> \in Seq(Callbacks)
  BY SequenceFacts
<1>4. << >> \o << >> = << >> /\ Len(<< >>) = 0
  BY EmptySeq, ConcatEmptySeq
<1>5. Held = {} /\ Coming = << >> /\ Places = {}
  BY <1>1, <1>2, <1>4 DEF Held, Coming, Places
<1>6. \A c \in Callbacks : Here(c) = << >>
  BY <1>1, <1>4 DEF Here, Unused
<1>7. IInv
  BY InitHasIInv
<1>8. CallTypes
  BY <1>1, <1>3 DEF CallTypes
<1>9. ListInv
  BY <1>1, <1>5 DEF ListInv, HeapIsListed, AddedOnce, OneEach, HeldIsRemoved, AddedIsRemoved,
                    InvalidIsRemoved
<1>10. FrameIsTidy /\ ReadLinkIsIts
  BY <1>1, <1>5 DEF FrameIsTidy, ReadLinkIsIts
<1>11. NumbersAscend /\ NumbersArrive
  BY <1>1, <1>2, <1>5, <1>6 DEF NumbersAscend, NumbersArrive
<1> QED
  BY <1>7, <1>8, <1>9, <1>10, <1>11 DEF OrderInv

LEMMA StutterKeepsOrder ==
  ASSUME OrderInv, UNCHANGED vars
  PROVE  ListInv' /\ Rest'
<1>1. /\ UNCHANGED <<link, heap, callback, callbacks, inbox, buffer, updatePc, position, leaving,
                     eventPc, linked, removing, syncPoint, notified, popped>>
  BY DEF vars, removeVars, updateVars, historyVars
<1>2. /\ Held' = Held /\ Coming' = Coming /\ Places' = Places
      /\ \A c : (Doomed(c)' <=> Doomed(c)) /\ Here(c)' = Here(c)
  BY <1>1 DEF Held, Coming, Places, Doomed, Here
<1>3. ListInv'
  BY <1>1, <1>2, QuietKeepsLists DEF OrderInv, IInv
<1>4. NumbersAscend' /\ NumbersArrive'
  BY <1>1, <1>2, ApartKeepsNumbers DEF OrderInv, IInv, Apart
<1>5. CallTypes' /\ FrameIsTidy' /\ ReadLinkIsIts'
  BY <1>1, <1>2 DEF OrderInv, CallTypes, FrameIsTidy, ReadLinkIsIts
<1> QED
  BY <1>3, <1>4, <1>5 DEF Rest

LEMMA OrderIsInvariant == Spec => []OrderInv
<1>1. OrderInv /\ [Next]_vars => OrderInv'
  <2> SUFFICES ASSUME OrderInv, [Next]_vars PROVE OrderInv'
    OBVIOUS
  <2>1. IInv'
    BY CallsKeepIInv, InvalidateKeepsIInv, MessagesKeepIInv, FrameKeepsIInv, StutterKeepsIInv
    DEF Next, UpdateRuns, OrderInv
  <2>2. ListInv' /\ Rest'
    <3>1. CASE \E i \in Interfaces, n \in Roots \cup {None} : AddFrameCallback(i, n)
      BY <3>1, AddKeepsLists, AddKeepsRest DEF OrderInv
    <3>2. CASE \E i \in Interfaces : NotifyFrameCallback(i)
      <4>1. PICK i \in Interfaces : NotifyFrameCallback(i)
        BY <3>2
      <4>2. PICK m : m = [op |-> "Notify", interface |-> i, syncPoint |-> syncPoint']
        OBVIOUS
      <4>3. /\ inbox' = Append(inbox, m) /\ syncPoint' = syncPoint + 1
            /\ UNCHANGED <<heap, callback, callbacks, updateVars>>
            /\ calls < MaxCalls
        BY <4>1, <4>2 DEF NotifyFrameCallback, Call
      <4>4. syncPoint' \in SyncPoints
        BY <4>3, CallbackAssumption DEF OrderInv, IInv, Types, SyncPoints
      <4>5. m \in Message /\ m.op # "Add"
        BY <4>2, <4>4 DEF Message
      <4>6. \A c \in Held : Doomed(c) => Doomed(c)'
        BY <4>3 DEF Doomed, updateVars
      <4>7. ListInv'
        BY <4>3, <4>5, <4>6, SentKeepsLists DEF OrderInv, IInv, updateVars
      <4> QED
        BY <4>1, <4>7, NotifyKeepsRest
    <3>3. CASE \/ \E i \in Interfaces : RemoveFrameCallback(i)
               \/ \E n \in Roots : DropRoot(n)
      BY <3>3, CallsKeepOrder
    <3> QED
      BY <3>1, <3>2, <3>3, InvalidateKeepsOrder, FrameKeepsOrder, EndKeepsOrder,
         MessagesKeepOrder, ProcessNotifyKeepsOrder, StutterKeepsOrder
      DEF Next, EventCalls, UpdateRuns
  <2> QED
    BY <2>1, <2>2 DEF OrderInv, Rest
<1> QED
  BY <1>1, InitHasOrder, PTL DEF Spec

\* Every sync point sent while an interface is linked reaches its callback,
\* once and in order, however callbacks of the interface follow one another
\* (NotifyFrameCallback of the processor looks for the interface only).
THEOREM SyncPointsInOrderHolds == Spec => []SyncPointsInOrder
<1>1. ASSUME OrderInv PROVE SyncPointsInOrder
  <2> SUFFICES ASSUME NEW i \in Interfaces, link[i] # None
               PROVE  /\ Ascending(Here(link[i]))
                      /\ \A k \in OnTheWay(i) :
                           /\ \A n \in Elements(Here(link[i])) : n < Coming[k].syncPoint
                           /\ \A l \in OnTheWay(i) :
                                k < l => Coming[k].syncPoint < Coming[l].syncPoint
                      /\ Elements(notified[link[i]]) \subseteq
                           Elements(Here(link[i])) \cup {Coming[k].syncPoint : k \in OnTheWay(i)}
    BY DEF SyncPointsInOrder
  <2>1. PICK c \in Callbacks : c = link[i]
    BY <1>1 DEF OrderInv, IInv, Types
  <2>2. /\ \A k \in OnTheWay(i) : k \in Places /\ IsNotify(k)
        /\ \A k \in Places : IsNotify(k) /\ Coming[k].interface = i => k \in OnTheWay(i)
    <3>1. Coming \in Seq(Message)
      BY <1>1, ComingFacts DEF OrderInv, IInv
    <3>2. DOMAIN Coming = Places
      BY <3>1 DEF Places
    <3> QED
      BY <3>2 DEF OnTheWay, IsNotify
  <2>3. \A n \in Elements(notified[c]) : Arrives(c, i, n)
    BY <1>1, <2>1 DEF OrderInv, NumbersArrive
  <2>4. Elements(notified[c]) \subseteq
          Elements(Here(c)) \cup {Coming[k].syncPoint : k \in OnTheWay(i)}
    BY <2>2, <2>3 DEF Arrives
  <2>5. /\ Ascending(Here(c))
        /\ \A k \in OnTheWay(i) :
             /\ \A n \in Elements(Here(c)) : n < Coming[k].syncPoint
             /\ \A l \in OnTheWay(i) : k < l => Coming[k].syncPoint < Coming[l].syncPoint
    BY <1>1, <2>2 DEF OrderInv, NumbersAscend
  <2> QED
    BY <2>1, <2>4, <2>5
<1> QED
  BY <1>1, OrderIsInvariant, PTL

-----------------------------------------------------------------------------
(***************************************************************************)
(* The frame loop.  FrameInv says what a frame can rely on: the message    *)
(* that destroys a node is the last one about it, what is still looked at  *)
(* has not been freed, and a value that is clean is the one last drawn.    *)
(***************************************************************************)
Lives == {"on", "off", "gone"}
Property == [base : Int, value : Int, dirty : 0 .. 3, world : Int]
AnimationState == [state : {"Stopped", "Playing", "Paused", "Destroyed"},
                   animator : {"none", "live", "orphan"}, enabled : BOOLEAN,
                   playing : BOOLEAN, phase : 0 .. 2, isActive : BOOLEAN]
NodeMessages == [op : {"Connect", "Disconnect", "Destroy", "Bake"}, on : Nodes, colour : Int]
AnimationMessages == [op : {"Add", "Play", "Pause", "Stop", "Clear", "Remove"},
                      on : Animations, colour : Int]
Letters == NodeMessages \cup AnimationMessages

FrameTypes ==
  /\ actor \in [Nodes -> Lives] /\ node \in [Nodes -> Lives]
  /\ queue \in Seq(Letters) /\ messages \in Seq(Letters)
  /\ pc \in {"idle", "checked", "messages", "render"}
  /\ updateScene \in BOOLEAN /\ previousUpdateScene \in BOOLEAN /\ skipRendering \in BOOLEAN
  /\ animationFinishedDuringUpdate \in BOOLEAN /\ discardAnimationFinishedAge \in 0 .. 3
  /\ property \in [Nodes -> Property]
  /\ animations \in Seq(Animations) /\ animation \in [Animations -> AnimationState]
  /\ updatedOwners \subseteq Nodes

\* The messages of a frame are handled by a frame that updates the scene.
Handling == /\ pc # "messages" => messages = << >>
            /\ pc = "messages" /\ messages # << >> => updateScene

(***************************************************************************)
(* The end of a node: the message that destroys it is the last one about   *)
(* it, an animator has its node, and what is discarded has gone.           *)
(***************************************************************************)
About(m, n) == IF m.op = "Add" THEN Target[m.on] = n
               ELSE m.op \in {"Connect", "Disconnect", "Destroy", "Bake"} /\ m.on = n
Silent(s, n) == \A i \in 1 .. Len(s) : ~About(s[i], n)
Ends(s) == \A i \in 1 .. Len(s) : s[i].op = "Destroy" =>
             /\ actor[s[i].on] = "gone"
             /\ \A j \in 1 .. Len(s) : About(s[j], s[i].on) => j <= i

LastWords ==
  /\ Ends(queue) /\ Ends(messages)
  /\ \A i \in 1 .. Len(messages) : messages[i].op = "Destroy" => Silent(queue, messages[i].on)
  /\ \A n \in Nodes : node[n] = "gone" =>
       actor[n] = "gone" /\ Silent(messages, n) /\ Silent(queue, n)

Gone == {n \in Nodes : node[n] = "gone"}
OnScene == {n \in Nodes : node[n] = "on"}

\* The nodes that are still to be looked at are not yet freed.
Kept ==
  /\ \A a \in Animations : animation[a].animator = "live" => Target[a] \notin Gone
  /\ freed \cup discardQueue \subseteq Gone
  /\ updatedOwners \cap freed = {}
  /\ pc \in {"idle", "checked"} => updatedOwners = {}

\* What is drawn is what is on the scene.
Drawn == ~(pc = "messages" /\ updateScene) =>
           instructions = IF skipRendering THEN {} ELSE OnScene

(***************************************************************************)
(* The values.  A property that is clean, or was baked, is at its base; a  *)
(* clean one is what was last inherited; and all are when the frame has no *)
(* work under way.                                                         *)
(***************************************************************************)
Settled(p) == \A n \in Nodes : /\ p[n].dirty # 2 => p[n].value = p[n].base
                               /\ node[n] = "on" /\ p[n].dirty = 0 => p[n].world = p[n].value
Inherited == \A n \in OnScene : property[n].world = property[n].value
Working == pc \in {"checked", "messages"} /\ (updateScene \/ previousUpdateScene)

Values == Settled(property) /\ (~Working => Inherited) /\ ScreenIsRight

FrameInv == FrameTypes /\ Handling /\ LastWords /\ Kept /\ Drawn /\ Values

-----------------------------------------------------------------------------
(* The scene as the animations change it.                                    *)

SceneRecord == [property : [Nodes -> Property], animation : [Animations -> AnimationState],
                owners : SUBSET Nodes, finished : BOOLEAN, age : 0 .. 3,
                container : Seq(Animations)]

\* What no animation can break: no animator comes to life.
Sound(s) ==
  /\ s \in SceneRecord
  /\ Settled(s.property)
  /\ \A a \in Animations : s.animation[a].animator = "live" => Target[a] \notin Gone
  /\ s.owners \cap freed = {}

\* Setting and baking a value.
LEMMA ValueFacts ==
  ASSUME NEW p \in Property, NEW v \in Int
  PROVE  /\ SetValue(p, v) \in Property /\ SetValue(p, v).dirty = 2
         /\ BakeValue(p, v) \in Property /\ BakeValue(p, v).dirty \in {1, 3}
         /\ BakeValue(p, v).value = BakeValue(p, v).base
         /\ ResetToBaseValue(p) \in Property
         /\ ResetToBaseValue(p).world = p.world
         /\ p.dirty = 0 => ResetToBaseValue(p) = p
         /\ p.dirty # 0 => ResetToBaseValue(p).value = p.base /\ ResetToBaseValue(p).base = p.base
         /\ ResetToBaseValue(p).dirty = p.dirty \div 2
<1>1. p.dirty \in {0, 1, 2, 3}
  BY DEF Property
<1>2. 0 \div 2 = 0 /\ 1 \div 2 = 0 /\ 2 \div 2 = 1 /\ 3 \div 2 = 1
  OBVIOUS
<1>3. SetValue(p, v) \in Property /\ SetValue(p, v).dirty = 2
  <2> DEFINE d == 2
             q == [p EXCEPT !.value = v, !.dirty = d]
  <2>1. SetValue(p, v) = q /\ d \in 0 .. 3 /\ d = 2
    BY DEF SetValue
  <2> HIDE DEF d
  <2>2. q \in Property /\ q.dirty = d
    BY <2>1 DEF Property
  <2> QED
    BY <2>1, <2>2
<1>4. /\ BakeValue(p, v) \in Property /\ BakeValue(p, v).dirty \in {1, 3}
      /\ BakeValue(p, v).value = BakeValue(p, v).base
  <2> DEFINE d == 2 * (p.dirty \div 2) + 1
             q == [p EXCEPT !.value = v, !.base = v, !.dirty = d]
  <2>1. d \in {1, 3} /\ d \in 0 .. 3
    BY <1>1, <1>2
  <2>2. BakeValue(p, v) = q
    BY DEF BakeValue, Property
  <2> HIDE DEF d
  <2>3. q \in Property /\ q.dirty = d /\ q.value = v /\ q.base = v
    BY <2>1 DEF Property
  <2> QED
    BY <2>1, <2>2, <2>3
<1>5. /\ ResetToBaseValue(p) \in Property
      /\ ResetToBaseValue(p).world = p.world
      /\ p.dirty = 0 => ResetToBaseValue(p) = p
      /\ p.dirty # 0 => ResetToBaseValue(p).value = p.base /\ ResetToBaseValue(p).base = p.base
      /\ ResetToBaseValue(p).dirty = p.dirty \div 2
  <2> DEFINE d == p.dirty \div 2
  <2>1. d \in 0 .. 3 /\ (p.dirty = 0 => d = 0)
    BY <1>1, <1>2
  <2>2. CASE p.dirty = 0
    BY <2>1, <2>2 DEF ResetToBaseValue
  <2>3. CASE p.dirty # 0
    <3>1. ResetToBaseValue(p)
            = [base |-> p.base, value |-> p.base, dirty |-> d, world |-> p.world]
      BY <2>3 DEF ResetToBaseValue, Property
    <3> HIDE DEF d
    <3>2. /\ ResetToBaseValue(p) \in Property /\ ResetToBaseValue(p).world = p.world
          /\ ResetToBaseValue(p).value = p.base /\ ResetToBaseValue(p).base = p.base
          /\ ResetToBaseValue(p).dirty = d
      BY <2>1, <3>1 DEF Property
    <3> QED
      BY <2>3, <3>2 DEF d
  <2> QED
    BY <2>2, <2>3
<1> QED
  BY <1>3, <1>4, <1>5

\* An animator that is live changes a property of a node that has not gone.
LEMMA UpdateAnimatorsSound ==
  ASSUME NEW s, Sound(s), NEW a \in Animations, NEW p \in 0 .. 2,
         NEW bake \in BOOLEAN, NEW over \in BOOLEAN, freed \subseteq Gone
  PROVE  Sound(UpdateAnimators(s, a, p, bake, over))
<1> DEFINE A == s.animation[a]
           n == Target[a]
           applied == A.animator = "live" /\ A.enabled /\ p > 0
           q == s.property[n]
           new == IF bake THEN BakeValue(q, q.value + p) ELSE SetValue(q, q.value + p)
           B == [A EXCEPT !.isActive = applied /\ (p = 2 => a \notin ShortAnimators),
                          !.playing = @ /\ ~over,
                          !.animator = IF @ = "orphan" THEN "none" ELSE @]
           t == [s EXCEPT !.property[n] = IF applied THEN new ELSE @,
                          !.owners = IF applied THEN @ \cup {n} ELSE @,
                          !.animation[a] = B]
<1>0. s \in SceneRecord /\ A \in AnimationState /\ n \in Nodes /\ q \in Property /\ p \in Int
  BY UpdateAssumption DEF Sound, SceneRecord
<1>1. UpdateAnimators(s, a, p, bake, over) = t
  BY DEF UpdateAnimators
<1>2. new \in Property /\ (new.dirty \in {1, 2, 3} /\ (new.dirty # 2 => new.value = new.base))
  <2>1. q.value + p \in Int
    BY <1>0 DEF Property
  <2> QED
    BY <1>0, <2>1, ValueFacts
<1>3. B \in AnimationState /\ (B.animator = "live" => A.animator = "live")
  BY <1>0 DEF AnimationState
<1> HIDE DEF new, B
<1>4. /\ t \in SceneRecord
      /\ t.property = [s.property EXCEPT ![n] = IF applied THEN new ELSE @]
      /\ t.animation = [s.animation EXCEPT ![a] = B]
      /\ t.owners = IF applied THEN s.owners \cup {n} ELSE s.owners
  BY <1>0, <1>2, <1>3 DEF SceneRecord
<1> HIDE DEF t
<1>5. Settled(t.property)
  BY <1>0, <1>2, <1>4 DEF Settled, Sound, SceneRecord
<1>6. \A b \in Animations : t.animation[b].animator = "live" => Target[b] \notin Gone
  BY <1>0, <1>3, <1>4 DEF Sound, SceneRecord
<1>7. t.owners \cap freed = {}
  BY <1>0, <1>4 DEF Sound
<1> QED
  BY <1>1, <1>4, <1>5, <1>6, <1>7 DEF Sound

LEMMA EndAnimatorsSound ==
  ASSUME NEW s, Sound(s), NEW a \in Animations, freed \subseteq Gone
  PROVE  Sound(EndAnimators(s, a))
<1>0. s \in SceneRecord /\ s.animation[a] \in AnimationState
  BY DEF Sound, SceneRecord
<1>1. CASE ~Running(s, a)
  BY <1>1 DEF EndAnimators
<1>2. CASE Running(s, a) /\ EndAction[a] = "DISCARD"
  <2> DEFINE t == [s EXCEPT !.animation[a].playing = FALSE]
  <2>1. EndAnimators(s, a) = t
    BY <1>2 DEF EndAnimators
  <2>2. /\ t \in SceneRecord /\ t.property = s.property /\ t.owners = s.owners
        /\ \A b \in Animations : t.animation[b].animator = s.animation[b].animator
    BY <1>0 DEF SceneRecord, AnimationState
  <2> QED
    BY <2>1, <2>2 DEF Sound
<1>3. CASE Running(s, a) /\ EndAction[a] # "DISCARD"
  <2> DEFINE final == IF EndAction[a] = "BAKE" THEN s.animation[a].phase ELSE 2
  <2>1. final \in 0 .. 2
    BY <1>0 DEF AnimationState
  <2>2. EndAnimators(s, a) = UpdateAnimators(s, a, final, TRUE, TRUE)
    BY <1>3 DEF EndAnimators
  <2> QED
    BY <2>1, <2>2, UpdateAnimatorsSound
<1> QED
  BY <1>1, <1>2, <1>3

\* Changes of an animation that leave its animator alone.
LEMMA SameAnimator ==
  ASSUME NEW s, Sound(s), NEW a \in Animations, NEW x \in AnimationState,
         x.animator = "live" => s.animation[a].animator = "live"
  PROVE  Sound([s EXCEPT !.animation[a] = x])
<1> DEFINE t == [s EXCEPT !.animation[a] = x]
<1>1. /\ t \in SceneRecord /\ t.property = s.property /\ t.owners = s.owners
      /\ t.animation = [s.animation EXCEPT ![a] = x] /\ s \in SceneRecord
  BY DEF Sound, SceneRecord
<1> HIDE DEF t
<1>2. \A b \in Animations : t.animation[b].animator = "live" => Target[b] \notin Gone
  BY <1>1 DEF Sound, SceneRecord
<1> QED
  BY <1>1, <1>2 DEF Sound, t

LEMMA StoppedFacts ==
  ASSUME NEW x \in AnimationState
  PROVE  LET y == [x EXCEPT !.state = "Stopped", !.phase = 0]
         IN  y \in AnimationState /\ y.animator = x.animator
<1> DEFINE stop == "Stopped"
           k == 0
<1>1. stop = "Stopped" /\ k = 0
  OBVIOUS
<1> HIDE DEF stop, k
<1>2. LET y == [x EXCEPT !.state = stop, !.phase = k]
      IN  y \in AnimationState /\ y.animator = x.animator
  <2> DEFINE z == [x EXCEPT !.state = stop]
  <2>1. z \in AnimationState /\ z.animator = x.animator
    BY <1>1 DEF AnimationState
  <2> HIDE DEF z
  <2>2. [z EXCEPT !.phase = k] \in AnimationState /\ [z EXCEPT !.phase = k].animator = z.animator
    BY <1>1, <2>1 DEF AnimationState
  <2> QED
    BY <2>1, <2>2 DEF z
<1> QED
  BY <1>1, <1>2

LEMMA StopAnimationSound ==
  ASSUME NEW s, Sound(s), NEW a \in Animations, freed \subseteq Gone
  PROVE  Sound(StopAnimation(s, a))
<1> DEFINE t == EndAnimators(s, a)
           x == [t.animation[a] EXCEPT !.state = "Stopped", !.phase = 0]
<1>1. Sound(t)
  BY EndAnimatorsSound
<1>2. StopAnimation(s, a) = [t EXCEPT !.animation[a] = x]
  <2>1. t \in SceneRecord
    BY <1>1 DEF Sound
  <2> HIDE DEF t
  <2>2. [t EXCEPT !.animation[a].state = "Stopped", !.animation[a].phase = 0]
          = [t EXCEPT !.animation[a] = x]
    BY <2>1 DEF SceneRecord, AnimationState
  <2> QED
    BY <2>2 DEF StopAnimation, t
<1> HIDE DEF t
<1>3. x \in AnimationState /\ x.animator = t.animation[a].animator
  <2>1. t.animation[a] \in AnimationState
    BY <1>1 DEF Sound, SceneRecord
  <2> QED
    BY ONLY <2>1, StoppedFacts
<1> HIDE DEF x
<1> QED
  BY <1>1, <1>2, <1>3, SameAnimator

\* Whatever its state, an animation leaves a sound scene.
LEMMA UpdateAnimationSound ==
  ASSUME NEW s, Sound(s), NEW a \in Animations, NEW p \in 0 .. 3, freed \subseteq Gone
  PROVE  Sound(UpdateAnimation(s, a, p))
<1> DEFINE A == s.animation[a]
<1>0. s \in SceneRecord /\ A \in AnimationState /\ A.phase \in 0 .. 2
  BY DEF Sound, SceneRecord, AnimationState
<1>1. CASE A.state = "Paused"
  BY <1>0, <1>1, UpdateAnimatorsSound DEF UpdateAnimation
<1>2. CASE A.state = "Playing" /\ p < 3
  <2> DEFINE t == [s EXCEPT !.animation[a].phase = p]
             x == [A EXCEPT !.phase = p]
  <2>1. p \in 0 .. 2
    BY <1>2
  <2>2. x \in AnimationState /\ x.animator = A.animator
    BY <1>0, <2>1 DEF AnimationState
  <2>3. t = [s EXCEPT !.animation[a] = x]
    BY <1>0 DEF SceneRecord, AnimationState
  <2>4. Sound(t)
    BY <2>2, <2>3, SameAnimator
  <2>5. UpdateAnimation(s, a, p) = Advance(s, a, p)
    BY <1>2 DEF UpdateAnimation
  <2>6. Advance(s, a, p) = UpdateAnimators(t, a, p, FALSE, FALSE)
    BY DEF Advance
  <2> QED
    BY <2>1, <2>4, <2>5, <2>6, UpdateAnimatorsSound
<1>3. CASE A.state = "Playing" /\ p = 3
  <2> DEFINE bake == EndAction[a] # "DISCARD"
             t == UpdateAnimators(s, a, 2, bake, TRUE)
             x == [t.animation[a] EXCEPT !.state = "Stopped", !.phase = 0]
             u == [t EXCEPT !.animation[a] = x]
  <2>1. Sound(t)
    <3>1. 2 \in 0 .. 2 /\ bake \in BOOLEAN /\ TRUE \in BOOLEAN
      OBVIOUS
    <3> HIDE DEF bake
    <3> QED
      BY <3>1, UpdateAnimatorsSound
  <2>0. UpdateAnimation(s, a, p) = Complete(s, a)
    BY <1>3 DEF UpdateAnimation
  <2>2. Complete(s, a) = [t EXCEPT !.animation[a].state = "Stopped",
          !.animation[a].phase = 0, !.finished = TRUE, !.age = Discarded(a, @)]
    BY DEF Complete
  <2> HIDE DEF t
  <2>3. t \in SceneRecord /\ x \in AnimationState /\ x.animator = t.animation[a].animator
    <3>1. t \in SceneRecord /\ t.animation[a] \in AnimationState
      BY <2>1 DEF Sound, SceneRecord
    <3> QED
      BY ONLY <3>1, StoppedFacts
  <2>4. Sound(u)
    BY <2>1, <2>3, SameAnimator
  <2>5. Complete(s, a) = [u EXCEPT !.finished = TRUE, !.age = Discarded(a, @)]
    <3>1. [t EXCEPT !.animation[a].state = "Stopped", !.animation[a].phase = 0] = u
      BY <2>3 DEF SceneRecord, AnimationState
    <3> QED
      BY <2>2, <2>3, <3>1 DEF SceneRecord, AnimationState
  <2>6. \A n \in 0 .. 3 : Discarded(a, n) \in 0 .. 3
    BY DEF Discarded
  <2> HIDE DEF u
  <2> DEFINE w == [u EXCEPT !.finished = TRUE, !.age = Discarded(a, @)]
  <2>7. /\ w \in SceneRecord /\ w.property = u.property /\ w.animation = u.animation
        /\ w.owners = u.owners
    BY <2>4, <2>6 DEF Sound, SceneRecord
  <2> HIDE DEF w
  <2> QED
    BY <2>0, <2>4, <2>5, <2>7 DEF Sound, w
<1>4. CASE ~(A.state \in {"Paused", "Playing"})
  BY <1>4 DEF UpdateAnimation
<1> QED
  BY <1>1, <1>2, <1>3, <1>4

LEMMA AnimateSound ==
  ASSUME NEW s, Sound(s), NEW a \in Animations, NEW p \in 0 .. 3, freed \subseteq Gone
  PROVE  Sound(Animate(s, a, p))
<1> DEFINE u == UpdateAnimation(s, a, p)
           v == [u EXCEPT !.container = Append(@, a)]
<1>1. Sound(u)
  BY UpdateAnimationSound
<1>2. Animate(s, a, p) = IF u.animation[a].state = "Destroyed" THEN u ELSE v
  BY DEF Animate
<1> HIDE DEF u
<1>3. Sound(v)
  <2>1. u \in SceneRecord /\ Append(u.container, a) \in Seq(Animations)
    BY <1>1 DEF Sound, SceneRecord
  <2>2. /\ v \in SceneRecord /\ v.property = u.property /\ v.animation = u.animation
        /\ v.owners = u.owners
    BY <2>1 DEF SceneRecord
  <2> QED
    BY <1>1, <2>2 DEF Sound
<1> QED
  BY <1>1, <1>2, <1>3

\* The scene after each of the animations, the first N of them.
StepsOf(f, to, N) ==
  f = [k \in 0 .. N |-> IF k = 0 THEN Scene
                        ELSE Animate(f[k - 1], animations[k], to[animations[k]])]

\* The recursive definition in Animated has a solution.
LEMMA StepsExist ==
  ASSUME NEW to, NEW N \in Nat
  PROVE  \E f : StepsOf(f, to, N)
<1> DEFINE T == {j \in Nat : ~\E f : StepsOf(f, to, j)}
<1>1. SUFFICES ASSUME T # {} PROVE FALSE
  OBVIOUS
<1>2. PICK j \in T : \A i \in T : j <= i
  <2>1. T \subseteq Nat
    OBVIOUS
  <2> QED
    BY ONLY <1>1, <2>1, LeastExists
<1>3. j # 0
  <2>1. StepsOf([k \in 0 .. 0 |-> Scene], to, 0)
    BY DEF StepsOf
  <2> QED
    BY <2>1
<1>4. PICK f : StepsOf(f, to, j - 1)
  BY <1>2, <1>3
<1> DEFINE Turn(k) == Animate(f[k - 1], animations[k], to[animations[k]])
           g == [k \in 0 .. j |-> IF k = j THEN Turn(j) ELSE f[k]]
<1>5. /\ f = [k \in 0 .. j - 1 |-> IF k = 0 THEN Scene ELSE Turn(k)]
      /\ j \in Nat
  BY <1>4 DEF StepsOf
<1> HIDE DEF Turn
<1>6. \A k \in 0 .. j : g[k] = IF k = 0 THEN Scene ELSE Turn(k)
  BY <1>3, <1>5
<1>7. \A k \in 1 .. j : g[k - 1] = f[k - 1]
  BY <1>5
<1>8. StepsOf(g, to, j)
  <2>1. g = [k \in 0 .. j |-> IF k = 0 THEN Scene ELSE Turn(k)]
    BY <1>6
  <2>2. \A k \in 0 .. j : k # 0 =>
          Turn(k) = Animate(g[k - 1], animations[k], to[animations[k]])
    BY <1>5, <1>7 DEF Turn
  <2> HIDE DEF g
  <2>3. [k \in 0 .. j |-> IF k = 0 THEN Scene ELSE Turn(k)]
          = [k \in 0 .. j |-> IF k = 0 THEN Scene
                 ELSE Animate(g[k - 1], animations[k], to[animations[k]])]
    BY <2>2
  <2> QED
    BY <2>1, <2>3 DEF StepsOf
<1> QED
  BY <1>8

\* By the least turn that would not: if all are sound up to one turn, so is the next.
LEMMA AnimatedSound ==
  ASSUME Sound(Scene), animations \in Seq(Animations), freed \subseteq Gone,
         NEW to \in [Animations -> 0 .. 3]
  PROVE  Sound(Animated(to))
<1>1. Len(animations) \in Nat
  OBVIOUS
<1>2. PICK f : StepsOf(f, to, Len(animations)) /\ Animated(to) = f[Len(animations)]
  <2> DEFINE e == CHOOSE f : StepsOf(f, to, Len(animations))
  <2>1. StepsOf(e, to, Len(animations))
    BY <1>1, StepsExist
  <2>2. Animated(to) = e[Len(animations)]
    BY DEF Animated, StepsOf
  <2> QED
    BY <2>1, <2>2
<1>3. PICK N \in Nat : N = Len(animations)
  BY <1>1
<1> DEFINE T == {k \in 0 .. N : ~Sound(f[k])}
<1>4. ASSUME T # {} PROVE FALSE
  <2>1. T \subseteq Nat
    OBVIOUS
  <2>2. PICK k \in T : \A i \in T : k <= i
    BY ONLY <1>4, <2>1, LeastExists
  <2>3. k \in 0 .. N /\ ~Sound(f[k])
    OBVIOUS
  <2>4. f[k] = IF k = 0 THEN Scene
               ELSE Animate(f[k - 1], animations[k], to[animations[k]])
    BY <1>2, <1>3, <2>3 DEF StepsOf
  <2>5. k # 0
    BY <2>3, <2>4
  <2>6. k - 1 \in 0 .. N /\ k - 1 \notin T
    BY <2>2, <2>3, <2>5
  <2>7. Sound(f[k - 1])
    BY <2>6
  <2>8. animations[k] \in Animations /\ to[animations[k]] \in 0 .. 3
    BY <1>3, <2>3, <2>5
  <2>9. Sound(Animate(f[k - 1], animations[k], to[animations[k]]))
    BY ONLY freed \subseteq Gone, <2>7, <2>8, AnimateSound
  <2> QED
    BY <2>3, <2>4, <2>5, <2>9
<1> QED
  BY <1>1, <1>2, <1>3, <1>4

-----------------------------------------------------------------------------
(* The letters.                                                              *)

LEMMA LetterFacts == \A m \in Letters : m.op = "Destroy" => m.on \in Nodes
  BY DEF Letters, NodeMessages, AnimationMessages

\* A letter about a node that has not gone may follow any other one.
LEMMA AppendKeepsEnds ==
  ASSUME NEW s \in Seq(Letters), Ends(s), NEW m \in Letters,
         \A n \in Nodes : About(m, n) => actor[n] # "gone"
  PROVE  /\ \A i \in 1 .. Len(Append(s, m)), j \in 1 .. Len(Append(s, m)) :
              Append(s, m)[i].op = "Destroy" /\ About(Append(s, m)[j], Append(s, m)[i].on) => j <= i
         /\ \A i \in 1 .. Len(Append(s, m)) : Append(s, m)[i].op = "Destroy" =>
              \/ actor[Append(s, m)[i].on] = "gone"
              \/ m.op = "Destroy" /\ Append(s, m)[i] = m
         /\ \A n \in Nodes : actor[n] = "gone" /\ Silent(s, n) => Silent(Append(s, m), n)
<1> DEFINE t == Append(s, m)
<1>1. /\ Len(t) = Len(s) + 1 /\ Len(s) \in Nat /\ t[Len(s) + 1] = m
      /\ \A i \in 1 .. Len(s) : t[i] = s[i]
  BY AppendProperties
<1>2. \A i \in 1 .. Len(s) : s[i].op = "Destroy" => s[i].on \in Nodes /\ actor[s[i].on] = "gone"
  BY LetterFacts DEF Ends
<1> HIDE DEF t
<1>3. \A i \in 1 .. Len(t) : i \in 1 .. Len(s) \/ i = Len(s) + 1
  BY <1>1
<1>4. ASSUME NEW i \in 1 .. Len(t), NEW j \in 1 .. Len(t),
             t[i].op = "Destroy", About(t[j], t[i].on)
      PROVE  j <= i
  <2>1. CASE i \in 1 .. Len(s) /\ j \in 1 .. Len(s)
    BY <1>1, <1>4, <2>1 DEF Ends
  <2>2. CASE i \in 1 .. Len(s) /\ j = Len(s) + 1
    BY <1>1, <1>2, <1>4, <2>2
  <2>3. CASE i = Len(s) + 1
    BY <1>1, <2>3
  <2> QED
    BY <1>3, <2>1, <2>2, <2>3
<1>5. ASSUME NEW i \in 1 .. Len(t), t[i].op = "Destroy"
      PROVE  actor[t[i].on] = "gone" \/ (m.op = "Destroy" /\ t[i] = m)
  <2>1. CASE i \in 1 .. Len(s)
    BY <1>1, <1>2, <1>5, <2>1
  <2>2. CASE i = Len(s) + 1
    BY <1>1, <1>5, <2>2
  <2> QED
    BY <1>3, <2>1, <2>2
<1>6. ASSUME NEW n \in Nodes, actor[n] = "gone", Silent(s, n)
      PROVE  Silent(t, n)
  BY <1>1, <1>3, <1>6 DEF Silent
<1> QED
  BY <1>4, <1>5, <1>6 DEF t

\* A message that is handled says no more; one that destroys was the last.
LEMMA TailKeepsEnds ==
  ASSUME NEW s \in Seq(Letters), s # << >>
  PROVE  /\ Tail(s) \in Seq(Letters) /\ Head(s) \in Letters
         /\ Ends(s) => Ends(Tail(s))
         /\ \A n \in Nodes : Silent(s, n) => ~About(Head(s), n) /\ Silent(Tail(s), n)
         /\ Ends(s) /\ Head(s).op = "Destroy" =>
              actor[Head(s).on] = "gone" /\ Silent(Tail(s), Head(s).on)
         /\ \A i \in 1 .. Len(Tail(s)) : i + 1 \in 1 .. Len(s) /\ Tail(s)[i] = s[i + 1]
         /\ 1 \in 1 .. Len(s) /\ s[1] = Head(s)
<1> DEFINE t == Tail(s)
<1>1. /\ t \in Seq(Letters) /\ Len(t) = Len(s) - 1 /\ Len(s) \in Nat \ {0}
      /\ \A i \in 1 .. Len(t) : t[i] = s[i + 1]
      /\ Head(s) = s[1] /\ Head(s) \in Letters
  BY HeadTailProperties
<1> HIDE DEF t
<1>2. \A i \in 1 .. Len(t) : i + 1 \in 1 .. Len(s) /\ t[i] = s[i + 1]
  BY <1>1
<1>3. 1 \in 1 .. Len(s)
  BY <1>1
<1>4. Ends(s) => Ends(t)
  BY <1>2 DEF Ends
<1>5. \A n \in Nodes : Silent(s, n) => ~About(Head(s), n) /\ Silent(t, n)
  BY <1>1, <1>2, <1>3 DEF Silent
<1>6. ASSUME Ends(s), Head(s).op = "Destroy"
      PROVE  actor[Head(s).on] = "gone" /\ Silent(t, Head(s).on)
  <2>1. actor[s[1].on] = "gone" /\ \A j \in 1 .. Len(s) : About(s[j], s[1].on) => j <= 1
    BY <1>1, <1>3, <1>6 DEF Ends
  <2>2. \A i \in 1 .. Len(t) : i + 1 > 1
    OBVIOUS
  <2> QED
    BY <1>1, <1>2, <2>1, <2>2 DEF Silent
<1> QED
  BY <1>1, <1>2, <1>3, <1>4, <1>5, <1>6 DEF t

\* What the steps of the event thread leave alone.
NotTheScene ==
  UNCHANGED <<pc, messages, updateScene, previousUpdateScene, skipRendering, endVars, property,
              animations, animation, updatedOwners, node, freed, discardQueue, instructions, shown>>

\* Sending a letter.
LEMMA SendStep ==
  ASSUME FrameInv, NotTheScene, NEW m \in Letters, queue' = Append(queue, m),
         actor' \in [Nodes -> Lives],
         \A n \in Nodes : /\ About(m, n) => actor[n] # "gone"
                          /\ actor[n] = "gone" => actor'[n] = "gone",
         m.op = "Destroy" => actor'[m.on] = "gone"
  PROVE  FrameInv'
<1>1. queue \in Seq(Letters) /\ messages \in Seq(Letters) /\ LastWords
  BY DEF FrameInv, FrameTypes
<1>2. FrameTypes'
  <2>1. queue' \in Seq(Letters)
    BY <1>1
  <2> QED
    BY <2>1 DEF FrameInv, FrameTypes, NotTheScene, endVars
<1>3. LastWords'
  <2> DEFINE q == Append(queue, m)
  <2>1. Ends(queue) /\ messages' = messages /\ node' = node /\ queue' = q
    BY <1>1 DEF LastWords, NotTheScene
  <2>2. /\ \A i \in 1 .. Len(q), j \in 1 .. Len(q) :
             q[i].op = "Destroy" /\ About(q[j], q[i].on) => j <= i
        /\ \A i \in 1 .. Len(q) : q[i].op = "Destroy" =>
             \/ actor[q[i].on] = "gone"
             \/ m.op = "Destroy" /\ q[i] = m
        /\ \A n \in Nodes : actor[n] = "gone" /\ Silent(queue, n) => Silent(q, n)
    <3>1. \A n \in Nodes : About(m, n) => actor[n] # "gone"
      OBVIOUS
    <3> QED
      BY <1>1, <2>1, <3>1, AppendKeepsEnds, Zenon
  <2>3. q \in Seq(Letters)
    BY <1>1
  <2> HIDE DEF q
  <2>4. \A i \in 1 .. Len(q) : q[i].op = "Destroy" => q[i].on \in Nodes
    BY <2>3, LetterFacts
  <2>5. \A i \in 1 .. Len(q) : q[i].op = "Destroy" => actor'[q[i].on] = "gone"
    BY <2>2, <2>4
  <2>6. Ends(queue)'
    BY <2>1, <2>2, <2>5 DEF Ends
  <2>7. \A i \in 1 .. Len(messages) : messages[i].op = "Destroy" => messages[i].on \in Nodes
    BY <1>1, LetterFacts
  <2>8. Ends(messages)'
    BY <1>1, <2>1, <2>7 DEF LastWords, Ends
  <2>9. \A i \in 1 .. Len(messages) : messages[i].op = "Destroy" => Silent(q, messages[i].on)
    BY <1>1, <2>2, <2>7 DEF LastWords, Ends
  <2>10. \A n \in Nodes : node[n] = "gone" =>
           actor'[n] = "gone" /\ Silent(messages, n) /\ Silent(q, n)
    BY <1>1, <2>2 DEF LastWords
  <2>11. \A n : Silent(messages, n)' <=> Silent(messages, n)
    BY <2>1 DEF Silent
  <2>12. \A n : Silent(queue, n)' <=> Silent(q, n)
    BY <2>1 DEF Silent
  <2> QED
    BY <2>1, <2>6, <2>8, <2>9, <2>10, <2>12 DEF LastWords, Silent
<1>4. Handling' /\ Kept' /\ Drawn' /\ Values'
  BY DEF FrameInv, NotTheScene, Handling, Kept, Drawn, Values, Settled, Inherited, Working,
         OnScene, Gone, ScreenIsRight, ShownAsSet
<1> QED
  BY <1>2, <1>3, <1>4 DEF FrameInv

\* What sending leaves alone is all but the queue.
LEMMA SendFacts ==
  ASSUME NEW op, NEW x, NEW c, SendColour(op, x, c)
  PROVE  NotTheScene /\ queue' = Append(queue, [op |-> op, on |-> x, colour |-> c])
  BY DEF SendColour, NotTheScene, frameVars, drawVars, sceneVars

LEMMA NodeCallStep ==
  ASSUME FrameInv, NEW n \in Nodes,
         AddToScene(n) \/ RemoveFromScene(n) \/ DestroyActor(n) \/ SetColor(n)
  PROVE  FrameInv'
<1>0. actor \in [Nodes -> Lives]
  BY DEF FrameInv, FrameTypes
<1>1. ASSUME NEW op \in {"Connect", "Disconnect", "Destroy", "Bake"}, NEW c \in Int,
             SendColour(op, n, c), actor[n] # "gone", NEW life \in Lives,
             actor' = [actor EXCEPT ![n] = life], op = "Destroy" => life = "gone"
      PROVE  FrameInv'
  <2> DEFINE m == [op |-> op, on |-> n, colour |-> c]
  <2>1. m \in Letters /\ m.on = n /\ m.op = op
    BY DEF Letters, NodeMessages
  <2>2. NotTheScene /\ queue' = Append(queue, m)
    BY <1>1, SendFacts
  <2> HIDE DEF m
  <2>3. actor' \in [Nodes -> Lives]
    BY <1>0, <1>1
  <2>4. \A k \in Nodes : /\ About(m, k) => actor[k] # "gone"
                         /\ actor[k] = "gone" => actor'[k] = "gone"
    BY <1>0, <1>1, <2>1 DEF About
  <2>5. m.op = "Destroy" => actor'[m.on] = "gone"
    BY <1>0, <1>1, <2>1
  <2> QED
    BY <2>1, <2>2, <2>3, <2>4, <2>5, SendStep
<1>2. CASE AddToScene(n)
  BY <1>1, <1>2 DEF AddToScene, Send, Lives
<1>3. CASE RemoveFromScene(n)
  BY <1>1, <1>3 DEF RemoveFromScene, Send, Lives
<1>4. CASE DestroyActor(n)
  BY <1>1, <1>4 DEF DestroyActor, Send, Lives
<1>5. CASE SetColor(n)
  <2>1. PICK c \in Colours : SendColour("Bake", n, c)
    BY <1>5 DEF SetColor
  <2>2. c \in Int /\ actor[n] # "gone" /\ actor' = [actor EXCEPT ![n] = actor[n]]
    BY <1>0, <1>5, UpdateAssumption DEF SetColor
  <2>3. actor[n] \in Lives
    BY <1>0
  <2> QED
    BY <1>1, <2>1, <2>2, <2>3
<1> QED
  BY <1>2, <1>3, <1>4, <1>5

\* An animation is only made for an actor that is there.
LEMMA AnimationCallStep ==
  ASSUME FrameInv, NEW a \in Animations, NewAnimation(a) \/ Control(a) \/ ReleaseAnimation(a)
  PROVE  FrameInv'
<1>0. actor \in [Nodes -> Lives] /\ actor' = actor
  BY DEF FrameInv, FrameTypes, NewAnimation, Control, ReleaseAnimation
<1>1. ASSUME NEW op \in {"Add", "Play", "Pause", "Stop", "Clear", "Remove"},
             Send(op, a), op = "Add" => actor[Target[a]] # "gone"
      PROVE  FrameInv'
  <2> DEFINE m == [op |-> op, on |-> a, colour |-> 0]
  <2>1. m \in Letters /\ m.on = a /\ m.op = op
    BY DEF Letters, AnimationMessages
  <2>2. NotTheScene /\ queue' = Append(queue, m)
    BY <1>1, SendFacts DEF Send
  <2> HIDE DEF m
  <2>3. \A k \in Nodes : /\ About(m, k) => actor[k] # "gone"
                         /\ actor[k] = "gone" => actor'[k] = "gone"
    BY <1>0, <1>1, <2>1 DEF About
  <2>4. m.op # "Destroy"
    BY <2>1
  <2> QED
    BY <1>0, <2>1, <2>2, <2>3, <2>4, SendStep
<1>2. CASE NewAnimation(a)
  BY <1>1, <1>2 DEF NewAnimation
<1>3. CASE Control(a)
  <2>1. PICK op \in {"Play", "Pause", "Stop", "Clear"} : Send(op, a)
    BY <1>3 DEF Control
  <2> QED
    BY <1>1, <2>1
<1>4. CASE ReleaseAnimation(a)
  BY <1>1, <1>4 DEF ReleaseAnimation
<1> QED
  BY <1>2, <1>3, <1>4

\* A step that changes neither the letters nor the actors nor the scene.
LEMMA AsideStep ==
  ASSUME FrameInv, NotTheScene, UNCHANGED <<actor, queue>>
  PROVE  FrameInv'
<1>1. FrameTypes'
  BY DEF FrameInv, FrameTypes, NotTheScene, endVars
<1>2. LastWords'
  BY DEF FrameInv, NotTheScene, LastWords, Ends, Silent
<1>3. Handling' /\ Kept' /\ Drawn' /\ Values'
  BY DEF FrameInv, NotTheScene, Handling, Kept, Drawn, Values, Settled, Inherited, Working,
         OnScene, Gone, ScreenIsRight, ShownAsSet
<1> QED
  BY <1>1, <1>2, <1>3 DEF FrameInv

LEMMA RequestStep == ASSUME FrameInv, RequestUpdate PROVE FrameInv'
  BY AsideStep DEF RequestUpdate, NotTheScene, frameVars, drawVars, sceneVars

LEMMA FrameStutter == ASSUME FrameInv, UNCHANGED managerVars PROVE FrameInv'
  BY AsideStep DEF managerVars, NotTheScene, eventVars, frameVars, drawVars, sceneVars

-----------------------------------------------------------------------------
(* The frame.                                                                *)

\* Only a frame that does the work of the scene resets properties.
LEMMA BeginStep == ASSUME FrameInv, BeginUpdate PROVE FrameInv'
<1>0. /\ property \in [Nodes -> Property] /\ pc = "idle" /\ pc' = "checked"
      /\ Settled(property) /\ Inherited /\ previousUpdateScene \in BOOLEAN
  BY DEF FrameInv, FrameTypes, Values, Working, BeginUpdate
<1>1. UNCHANGED <<actor, node, queue, messages, previousUpdateScene, skipRendering, animations,
                  animation, updatedOwners, instructions, shown>>
  BY DEF BeginUpdate, eventVars, drawVars
<1>2. \A n \in Nodes : property'[n] \in {property[n], ResetToBaseValue(property[n])}
  BY <1>0 DEF BeginUpdate, ResetProperties
<1>3. property' \in [Nodes -> Property]
  <2>1. property' = [n \in Nodes |-> property'[n]]
    BY <1>0 DEF BeginUpdate, ResetProperties
  <2>2. \A n \in Nodes : ResetToBaseValue(property[n]) \in Property
    BY <1>0, ValueFacts
  <2> QED
    BY <1>0, <1>2, <2>1, <2>2
<1>4. updateScene' \in BOOLEAN /\ (endVars' = endVars \/ ResetProperties)
  BY DEF BeginUpdate, SceneUpdateRequired, IsAnimationRunning, FrameInv, FrameTypes
<1>5. animationFinishedDuringUpdate' \in BOOLEAN /\ discardAnimationFinishedAge' \in 0 .. 3
  <2>1. discardAnimationFinishedAge \in 0 .. 3 /\ animationFinishedDuringUpdate \in BOOLEAN
    BY DEF FrameInv, FrameTypes
  <2>2. discardAnimationFinishedAge \div 2 \in 0 .. 3
    BY <2>1
  <2> QED
    BY <1>4, <2>1, <2>2 DEF ResetProperties, endVars
<1>6. FrameTypes'
  BY <1>0, <1>1, <1>3, <1>4, <1>5 DEF FrameInv, FrameTypes
<1>7. Handling'
  BY <1>0, <1>1 DEF FrameInv, Handling
<1>8. LastWords'
  BY <1>1 DEF FrameInv, LastWords, Ends, Silent
<1>9. Kept'
  <2>1. /\ freed' = freed \cup discardQueue /\ discardQueue' = {} /\ updatedOwners = {}
        /\ Gone' = Gone
    BY <1>0, <1>1 DEF BeginUpdate, FrameInv, Kept, Gone
  <2> QED
    BY <1>0, <1>1, <2>1 DEF FrameInv, Kept
<1>10. Drawn'
  BY <1>0, <1>1 DEF FrameInv, Drawn, OnScene
<1>11. Values'
  <2>1. CASE property' = property
    BY <1>0, <1>1, <2>1 DEF Values, Settled, Inherited, OnScene, ScreenIsRight
  <2>2. CASE property' # property
    <3>1. Working'
      BY <1>0, <1>1, <2>2 DEF BeginUpdate, Working, FrameIsNeeded
    <3>2. ASSUME NEW n \in Nodes
          PROVE  /\ property'[n].dirty # 2 => property'[n].value = property'[n].base
                 /\ node[n] = "on" /\ property'[n].dirty = 0 =>
                      property'[n].world = property'[n].value
      <4>1. CASE property'[n] = property[n]
        BY <1>0, <4>1 DEF Settled
      <4>2. CASE property'[n] = ResetToBaseValue(property[n]) /\ property[n].dirty = 0
        BY <1>0, <4>2, ValueFacts DEF Settled
      <4>3. CASE property'[n] = ResetToBaseValue(property[n]) /\ property[n].dirty # 0
        <5> DEFINE p == property[n]
        <5>1. /\ property'[n].value = p.base /\ property'[n].base = p.base
              /\ property'[n].world = p.world /\ property'[n].dirty = p.dirty \div 2
          BY <1>0, <4>3, ValueFacts
        <5>2. p.dirty \in {1, 2, 3} /\ 2 \div 2 = 1
          BY <1>0, <4>3 DEF Property
        <5>3. property'[n].dirty = 0 => p.dirty # 2
          BY <5>1, <5>2
        <5>4. p.dirty # 2 => p.value = p.base
          BY <1>0 DEF Settled
        <5>5. node[n] = "on" => p.world = p.value
          BY <1>0 DEF Inherited, OnScene
        <5> QED
          BY <5>1, <5>3, <5>4, <5>5
      <4> QED
        BY <1>2, <4>1, <4>2, <4>3
    <3> QED
      BY <1>0, <1>1, <3>1, <3>2 DEF Values, Settled, ScreenIsRight
  <2> QED
    BY <2>1, <2>2
<1> QED
  BY <1>6, <1>7, <1>8, <1>9, <1>10, <1>11 DEF FrameInv

\* The messages taken make the frame one that updates the scene.
LEMMA TakeStep == ASSUME FrameInv, TakeMessages PROVE FrameInv'
<1>1. /\ pc = "checked" /\ pc' = "messages" /\ messages = << >>
      /\ messages' = queue /\ queue' = << >> /\ updateScene' = (updateScene \/ queue # << >>)
      /\ UNCHANGED <<actor, node, previousUpdateScene, skipRendering, endVars, property, animations,
                     animation, updatedOwners, freed, discardQueue, instructions, shown>>
  BY DEF TakeMessages, AfterTaking, FrameInv, Handling, eventVars, sceneVars, drawVars
<1>2. FrameTypes'
  <2>1. queue' \in Seq(Letters)
    BY <1>1
  <2>2. updateScene' \in BOOLEAN
    BY <1>1 DEF FrameInv, FrameTypes
  <2> QED
    BY <1>1, <2>1, <2>2 DEF FrameInv, FrameTypes, endVars
<1>3. Handling'
  BY <1>1 DEF Handling
<1>4. LastWords'
  <2>1. \A i \in 1 .. Len(queue') : FALSE
    BY <1>1
  <2>2. Ends(queue') /\ \A n : Silent(queue', n)
    BY <2>1 DEF Ends, Silent
  <2>3. Ends(queue)' /\ \A n : Silent(queue, n)'
    BY <2>1 DEF Ends, Silent
  <2>4. Ends(messages)'
    BY <1>1 DEF FrameInv, LastWords, Ends
  <2>5. \A n \in Nodes : Silent(queue, n) => Silent(messages, n)'
    BY <1>1 DEF Silent
  <2> QED
    BY <1>1, <2>3, <2>4, <2>5 DEF FrameInv, LastWords
<1>5. Kept' /\ Drawn' /\ Values'
  BY <1>1 DEF FrameInv, FrameTypes, Kept, Drawn, Values, Settled, Inherited, Working, OnScene, Gone,
              ScreenIsRight
<1> QED
  BY <1>2, <1>3, <1>4, <1>5 DEF FrameInv

LEMMA SkipStep == ASSUME FrameInv, SkipScene PROVE FrameInv'
<1>1. /\ pc = "messages" /\ pc' = "render" /\ messages = << >> /\ ~updateScene /\ ~previousUpdateScene
      /\ previousUpdateScene' = updateScene
      /\ UNCHANGED <<actor, node, queue, messages, updateScene, skipRendering, endVars, property,
                     animations, animation, updatedOwners, freed, discardQueue, instructions, shown>>
  BY DEF SkipScene, FrameIsNeeded, FinishUpdate, eventVars, sceneVars
<1>2. FrameTypes'
  BY <1>1 DEF FrameInv, FrameTypes, endVars
<1>3. LastWords'
  BY <1>1 DEF FrameInv, LastWords, Ends, Silent
<1>4. Handling' /\ Kept' /\ Drawn' /\ Values'
  BY <1>1 DEF FrameInv, Handling, Kept, Drawn, Values, Settled, Inherited, Working, OnScene, Gone,
              ScreenIsRight
<1> QED
  BY <1>2, <1>3, <1>4 DEF FrameInv

\* What is drawn is right since all that is on the scene is in the instructions.
LEMMA RenderStep == ASSUME FrameInv, Render PROVE FrameInv'
<1>1. /\ pc = "render" /\ pc' = "idle" /\ updatedOwners' = {}
      /\ UNCHANGED <<actor, node, queue, messages, updateScene, previousUpdateScene, skipRendering,
                     endVars, property, animations, animation, freed, discardQueue, instructions>>
  BY DEF Render, eventVars, frameVars
<1>2. FrameTypes'
  BY <1>1 DEF FrameInv, FrameTypes, endVars
<1>3. LastWords'
  BY <1>1 DEF FrameInv, LastWords, Ends, Silent
<1>4. Handling' /\ Kept' /\ Drawn'
  BY <1>1 DEF FrameInv, Handling, Kept, Drawn, OnScene, Gone
<1>5. ScreenIsRight'
  <2>1. Inherited /\ instructions = IF skipRendering THEN {} ELSE OnScene
    BY <1>1 DEF FrameInv, Values, Drawn, Working
  <2>2. ASSUME ~skipRendering, NEW n \in Nodes, node[n] = "on"
        PROVE  shown'[n] = property[n].value
    BY <2>1, <2>2 DEF Render, OnScene, Inherited
  <2> QED
    BY <1>1, <2>2 DEF ScreenIsRight, ShownAsSet
<1>6. Values'
  BY <1>1, <1>5 DEF FrameInv, Values, Settled, Inherited, Working, OnScene
<1> QED
  BY <1>2, <1>3, <1>4, <1>6 DEF FrameInv

\* The scene as it is is sound.
LEMMA SceneIsSound == FrameInv => Sound(Scene) /\ freed \subseteq Gone
<1> SUFFICES ASSUME FrameInv PROVE Sound(Scene) /\ freed \subseteq Gone
  OBVIOUS
<1>1. /\ Scene \in SceneRecord /\ Scene.property = property /\ Scene.animation = animation
      /\ Scene.owners = updatedOwners
  BY DEF Scene, SceneRecord, FrameInv, FrameTypes
<1>2. Settled(property) /\ Kept
  BY DEF FrameInv, Values
<1> QED
  BY <1>1, <1>2 DEF Sound, Kept

\* The animations leave a sound scene, and what they made dirty is inherited.
LEMMA UpdateSceneStep == ASSUME FrameInv, NEW to \in Advances, UpdateScene(to) PROVE FrameInv'
<1> DEFINE s == Animated(to)
           active == \E a \in Elements(animations) : s.animation[a].isActive
           destroyed == {a \in Elements(animations) : s.animation[a].state = "Destroyed"}
<1>1. Sound(s)
  <2>1. animations \in Seq(Animations) /\ to \in [Animations -> 0 .. 3]
    BY DEF FrameInv, FrameTypes, Advances
  <2> QED
    BY <2>1, SceneIsSound, AnimatedSound
<1>2. /\ pc = "messages" /\ pc' = "render" /\ messages = << >>
      /\ previousUpdateScene' = updateScene
      /\ UNCHANGED <<actor, node, queue, messages, updateScene, freed, discardQueue, shown>>
  BY DEF UpdateScene, FinishUpdate, eventVars
<1>3. /\ animations' = s.container /\ updatedOwners' = s.owners
      /\ animationFinishedDuringUpdate' = s.finished /\ discardAnimationFinishedAge' = s.age
      /\ property' = [n \in Nodes |-> UpdateNode(n, s.property[n])]
      /\ skipRendering' = ~IsDrawn(active)
      /\ instructions' = IF IsDrawn(active) THEN {n \in Nodes : node[n] = "on"} ELSE {}
  BY DEF UpdateScene
<1>4. animation' = [a \in Animations |-> IF a \in destroyed THEN NoAnimator ELSE s.animation[a]]
  BY DEF UpdateScene
<1> HIDE DEF s, active, destroyed
<1>5. /\ s.container \in Seq(Animations) /\ s.owners \subseteq Nodes /\ s.finished \in BOOLEAN
      /\ s.age \in 0 .. 3 /\ s.property \in [Nodes -> Property]
      /\ s.animation \in [Animations -> AnimationState]
  BY <1>1 DEF Sound, SceneRecord
<1>6. \A n \in Nodes : /\ property'[n] \in Property
                       /\ property'[n].dirty = s.property[n].dirty
                       /\ property'[n].value = s.property[n].value
                       /\ property'[n].base = s.property[n].base
                       /\ property'[n].world = IF node[n] = "on" /\ s.property[n].dirty # 0
                                               THEN s.property[n].value ELSE s.property[n].world
  <2> TAKE n \in Nodes
  <2>1. property'[n] = UpdateNode(n, s.property[n]) /\ s.property[n] \in Property
    BY <1>3, <1>5
  <2> QED
    BY <2>1 DEF UpdateNode, Property
<1>7. FrameTypes'
  <2>1. property' \in [Nodes -> Property]
    BY <1>3, <1>6
  <2>2. animation' \in [Animations -> AnimationState]
    <3>1. NoAnimator \in AnimationState
      BY DEF NoAnimator, AnimationState
    <3> QED
      BY <1>4, <1>5, <3>1
  <2>3. previousUpdateScene' \in BOOLEAN
    BY <1>2 DEF FrameInv, FrameTypes
  <2>4. skipRendering' \in BOOLEAN
    BY <1>3
  <2> QED
    BY <1>2, <1>3, <1>5, <2>1, <2>2, <2>3, <2>4 DEF FrameInv, FrameTypes
<1>8. LastWords'
  BY <1>2 DEF FrameInv, LastWords, Ends, Silent
<1>9. Handling'
  BY <1>2 DEF Handling
<1>10. Kept'
  <2>1. \A a \in Animations : animation'[a].animator = "live" => s.animation[a].animator = "live"
    BY <1>4 DEF NoAnimator
  <2>2. Gone' = Gone
    BY <1>2 DEF Gone
  <2> QED
    BY <1>1, <1>2, <1>3, <2>1, <2>2 DEF FrameInv, Kept, Sound
<1>11. Drawn'
  BY <1>2, <1>3 DEF Drawn, OnScene
<1>12. Values'
  <2>1. \A n \in Nodes : /\ s.property[n].dirty # 2 => s.property[n].value = s.property[n].base
                         /\ node[n] = "on" /\ s.property[n].dirty = 0 =>
                              s.property[n].world = s.property[n].value
    BY <1>1 DEF Sound, Settled
  <2>2. \A n \in Nodes : node[n] = "on" => property'[n].world = property'[n].value
    BY <1>6, <2>1
  <2>3. \A n \in Nodes : property'[n].dirty # 2 => property'[n].value = property'[n].base
    BY <1>6, <2>1
  <2> QED
    BY <1>2, <2>2, <2>3 DEF Values, Settled, Inherited, OnScene, ScreenIsRight
<1> QED
  BY <1>7, <1>8, <1>9, <1>10, <1>11, <1>12 DEF FrameInv

-----------------------------------------------------------------------------
(* The handlers.                                                             *)

\* What a handler leaves of the messages, whatever it does to the scene.
LEMMA HandleFacts ==
  ASSUME FrameInv, NEW op, Handle(op)
  PROVE  /\ messages # << >> /\ Head(messages) \in Letters /\ Head(messages).op = op
         /\ messages' \in Seq(Letters) /\ pc = "messages" /\ updateScene
         /\ UNCHANGED <<actor, queue, pc, updateScene, previousUpdateScene, skipRendering,
                        instructions, shown, freed>>
         /\ \A n \in Nodes : About(Head(messages), n) => n \notin Gone
         /\ Gone' \subseteq Gone \cup {n \in Nodes : op = "Destroy" /\ Subject = n} => LastWords'
<1>1. /\ messages # << >> /\ Head(messages).op = op /\ messages' = Tail(messages)
      /\ pc = "messages" /\ messages \in Seq(Letters) /\ LastWords
      /\ UNCHANGED <<actor, queue, pc, updateScene, previousUpdateScene, skipRendering,
                     instructions, shown, freed>>
  BY DEF Handle, FrameInv, FrameTypes, eventVars, frameVars, drawVars
<1>2. updateScene
  BY <1>1 DEF FrameInv, Handling
<1>3. /\ Tail(messages) \in Seq(Letters) /\ Head(messages) \in Letters
      /\ Ends(Tail(messages))
      /\ \A n \in Nodes : Silent(messages, n) =>
           ~About(Head(messages), n) /\ Silent(Tail(messages), n)
      /\ Head(messages).op = "Destroy" => /\ actor[Head(messages).on] = "gone"
                                          /\ Silent(Tail(messages), Head(messages).on)
      /\ \A i \in 1 .. Len(Tail(messages)) :
           i + 1 \in 1 .. Len(messages) /\ Tail(messages)[i] = messages[i + 1]
      /\ 1 \in 1 .. Len(messages) /\ messages[1] = Head(messages)
  BY <1>1, TailKeepsEnds DEF LastWords
<1>4. \A n \in Nodes : About(Head(messages), n) => n \notin Gone
  BY <1>1, <1>3 DEF LastWords, Gone
<1>5. ASSUME Gone' \subseteq Gone \cup {n \in Nodes : op = "Destroy" /\ Subject = n}
      PROVE  LastWords'
  <2>1. Ends(messages)' /\ Ends(queue)'
    BY <1>1, <1>3 DEF Ends, LastWords
  <2>2. \A i \in 1 .. Len(messages') : messages'[i].op = "Destroy" => Silent(queue, messages'[i].on)
    BY <1>1, <1>3 DEF LastWords
  <2>3. ASSUME NEW n \in Nodes, node'[n] = "gone"
        PROVE  actor[n] = "gone" /\ Silent(messages', n) /\ Silent(queue, n)
    <3>1. CASE n \in Gone
      BY <1>1, <1>3, <3>1 DEF LastWords, Gone
    <3>2. CASE op = "Destroy" /\ Subject = n
      <4>1. Silent(queue, n)
        BY <1>1, <1>3, <3>2 DEF LastWords, Subject
      <4> QED
        BY <1>1, <1>3, <3>2, <4>1 DEF Subject
    <3> QED
      BY <1>5, <2>3, <3>1, <3>2 DEF Gone
  <2>4. \A n : Silent(queue, n)' <=> Silent(queue, n)
    BY <1>1 DEF Silent
  <2>5. \A n : Silent(messages, n)' <=> Silent(messages', n)
    BY DEF Silent
  <2> QED
    BY <1>1, <2>1, <2>2, <2>3, <2>4, <2>5 DEF LastWords
<1> QED
  BY <1>1, <1>2, <1>3, <1>4, <1>5

\* While letters are handled nothing is drawn, and all work is still to be done.
LEMMA HandlerStep ==
  ASSUME FrameInv, NEW op, Handle(op),
         property' \in [Nodes -> Property], animations' \in Seq(Animations),
         animation' \in [Animations -> AnimationState], node' \in [Nodes -> Lives],
         animationFinishedDuringUpdate' \in BOOLEAN, discardAnimationFinishedAge' \in 0 .. 3,
         updatedOwners' \subseteq Nodes, updatedOwners' \cap freed = {},
         Gone \cup discardQueue' \subseteq Gone',
         Gone' \subseteq Gone \cup {n \in Nodes : op = "Destroy" /\ Subject = n},
         \A a \in Animations : animation'[a].animator = "live" => Target[a] \notin Gone',
         \A n \in Nodes : /\ property'[n].dirty # 2 => property'[n].value = property'[n].base
                          /\ node'[n] = "on" /\ property'[n].dirty = 0 =>
                               property'[n].world = property'[n].value
  PROVE  FrameInv'
<1>1. /\ messages' \in Seq(Letters) /\ pc = "messages" /\ updateScene /\ LastWords'
      /\ UNCHANGED <<actor, queue, pc, updateScene, previousUpdateScene, skipRendering,
                     instructions, shown, freed>>
  BY HandleFacts
<1>2. FrameTypes'
  BY <1>1 DEF FrameInv, FrameTypes
<1>3. Handling' /\ Drawn' /\ Values'
  BY <1>1 DEF Handling, Drawn, Values, Working, Settled, ScreenIsRight
<1>4. Kept'
  <2>1. freed \subseteq Gone
    BY DEF FrameInv, Kept
  <2> QED
    BY <1>1, <2>1 DEF Kept
<1> QED
  BY <1>1, <1>2, <1>3, <1>4 DEF FrameInv

\* What is known before a handler runs.
LEMMA BeforeHandler ==
  FrameInv => /\ property \in [Nodes -> Property] /\ animations \in Seq(Animations)
              /\ animation \in [Animations -> AnimationState] /\ node \in [Nodes -> Lives]
              /\ animationFinishedDuringUpdate \in BOOLEAN
              /\ discardAnimationFinishedAge \in 0 .. 3
              /\ updatedOwners \subseteq Nodes /\ updatedOwners \cap freed = {}
              /\ freed \subseteq Gone /\ discardQueue \subseteq Gone
              /\ \A a \in Animations : animation[a].animator = "live" => Target[a] \notin Gone
              /\ \A n \in Nodes : /\ property[n].dirty # 2 => property[n].value = property[n].base
                                  /\ node[n] = "on" /\ property[n].dirty = 0 =>
                                       property[n].world = property[n].value
  BY DEF FrameInv, FrameTypes, Kept, Values, Settled

\* The letters about nodes and those about animations.
LEMMA SubjectFacts ==
  ASSUME FrameInv, NEW op, Handle(op)
  PROVE  /\ op \in {"Connect", "Disconnect", "Destroy", "Bake"} =>
              Subject \in Nodes /\ Head(messages).colour \in Int
         /\ op \in {"Connect", "Disconnect", "Bake"} => Subject \in Nodes \ Gone
         /\ op \in {"Add", "Play", "Pause", "Stop", "Clear", "Remove"} => Subject \in Animations
         /\ op = "Add" => Target[Subject] \in Nodes \ Gone
<1>1. /\ Head(messages) \in Letters /\ Head(messages).op = op
      /\ \A n \in Nodes : About(Head(messages), n) => n \notin Gone
  BY HandleFacts
<1>2. op \in {"Connect", "Disconnect", "Destroy", "Bake"} =>
        Subject \in Nodes /\ Head(messages).colour \in Int
  BY <1>1 DEF Letters, NodeMessages, AnimationMessages, Subject
<1>3. op \in {"Add", "Play", "Pause", "Stop", "Clear", "Remove"} => Subject \in Animations
  BY <1>1 DEF Letters, NodeMessages, AnimationMessages, Subject
<1>4. op \in {"Connect", "Disconnect", "Bake"} => Subject \notin Gone
  BY <1>1, <1>2 DEF About, Subject
<1>5. op = "Add" => Target[Subject] \in Nodes \ Gone
  BY <1>1, <1>3, UpdateAssumption DEF About, Subject
<1> QED
  BY <1>2, <1>3, <1>4, <1>5

LEMMA ConnectStep == ASSUME FrameInv, ConnectNode PROVE FrameInv'
<1> DEFINE n == Subject
<1>1. Handle("Connect") /\ n \in Nodes \ Gone
  BY SubjectFacts DEF ConnectNode
<1>2. /\ node' = [node EXCEPT ![n] = "on"]
      /\ property' = [property EXCEPT ![n].dirty = 2]
      /\ animation' = [a \in Animations |-> [animation[a] EXCEPT
                        !.enabled = @ \/ a \in AnimatorsOf(n)]]
      /\ updatedOwners' = updatedOwners \cup {n}
      /\ UNCHANGED <<endVars, discardQueue, animations>>
  BY DEF ConnectNode
<1> HIDE DEF n
<1>3. node' \in [Nodes -> Lives] /\ Gone' = Gone /\ \A k \in Nodes : k # n => node'[k] = node[k]
  BY <1>1, <1>2, BeforeHandler DEF Gone, Lives
<1>4. /\ property' \in [Nodes -> Property] /\ property'[n].dirty = 2
      /\ \A k \in Nodes : k # n => property'[k] = property[k]
  <2>1. property \in [Nodes -> Property] /\ n \in Nodes
    BY <1>1, BeforeHandler
  <2> QED
    BY ONLY <1>2, <2>1 DEF Property
<1>5. animation' \in [Animations -> AnimationState]
      /\ \A a \in Animations : animation'[a].animator = animation[a].animator
  <2>1. animation \in [Animations -> AnimationState]
    BY BeforeHandler
  <2>2. \A a \in Animations : animation'[a] = [animation[a] EXCEPT !.enabled = @ \/ a \in AnimatorsOf(n)]
    BY <1>2
  <2> HIDE DEF AnimatorsOf
  <2>3. ASSUME NEW a \in Animations
        PROVE  animation'[a] \in AnimationState /\ animation'[a].animator = animation[a].animator
    <3> DEFINE e == animation[a].enabled \/ a \in AnimatorsOf(n)
    <3>1. animation[a] \in AnimationState
      BY <2>1
    <3>2. e \in BOOLEAN /\ animation'[a] = [animation[a] EXCEPT !.enabled = e]
      BY <2>2, <3>1 DEF AnimationState
    <3> HIDE DEF e
    <3> QED
      BY <3>1, <3>2 DEF AnimationState
  <2> QED
    BY <1>2, <2>3
<1>6. updatedOwners' \subseteq Nodes /\ updatedOwners' \cap freed = {}
  BY <1>1, <1>2, BeforeHandler
<1>7. \A k \in Nodes : /\ property'[k].dirty # 2 => property'[k].value = property'[k].base
                       /\ node'[k] = "on" /\ property'[k].dirty = 0 =>
                            property'[k].world = property'[k].value
  <2>1. \A k \in Nodes : /\ property[k].dirty # 2 => property[k].value = property[k].base
                         /\ node[k] = "on" /\ property[k].dirty = 0 =>
                              property[k].world = property[k].value
    BY BeforeHandler
  <2> QED
    BY ONLY <1>3, <1>4, <2>1
<1>8. \A a \in Animations : animation'[a].animator = "live" => Target[a] \notin Gone'
  BY <1>3, <1>5, BeforeHandler
<1>9. /\ animations' \in Seq(Animations) /\ animationFinishedDuringUpdate' \in BOOLEAN
      /\ discardAnimationFinishedAge' \in 0 .. 3
      /\ Gone \cup discardQueue' \subseteq Gone' /\ Gone' \subseteq Gone
  BY <1>2, <1>3, BeforeHandler DEF endVars
<1> QED
  BY <1>1, <1>3, <1>4, <1>5, <1>6, <1>7, <1>8, <1>9, HandlerStep

LEMMA DisconnectStep == ASSUME FrameInv, DisconnectNode PROVE FrameInv'
<1> DEFINE n == Subject
           baked == IF DisconnectAction = "DISCARD" THEN {}
                    ELSE {a \in AnimatorsOf(n) : animation[a].playing}
           v == property[n].value + 2 * Cardinality(baked)
<1>1. Handle("Disconnect") /\ n \in Nodes \ Gone
  BY SubjectFacts DEF DisconnectNode
<1>2. /\ node' = [node EXCEPT ![n] = "off"]
      /\ property' = [property EXCEPT ![n] = IF baked = {} THEN @ ELSE BakeValue(@, v)]
      /\ animation' = [a \in Animations |-> [animation[a] EXCEPT
                        !.enabled = @ /\ a \notin AnimatorsOf(n)]]
      /\ updatedOwners' = IF baked = {} THEN updatedOwners ELSE updatedOwners \cup {n}
      /\ UNCHANGED <<endVars, discardQueue, animations>>
  BY DEF DisconnectNode
<1>3. v \in Int
  <2>1. baked \subseteq Animations /\ IsFiniteSet(Animations)
    BY UpdateAssumption DEF AnimatorsOf
  <2>2. Cardinality(baked) \in Nat
    BY <2>1, FS_Subset, FS_CardinalityType
  <2>3. property[n].value \in Int
    BY <1>1, BeforeHandler DEF Property
  <2> QED
    BY <2>2, <2>3
<1> HIDE DEF n, baked, v
<1>4. /\ node' \in [Nodes -> Lives] /\ Gone' = Gone /\ node'[n] = "off"
      /\ \A k \in Nodes : k # n => node'[k] = node[k]
  BY <1>1, <1>2, BeforeHandler DEF Gone, Lives
<1>5. /\ property' \in [Nodes -> Property]
      /\ \A k \in Nodes : k # n => property'[k] = property[k]
      /\ property'[n].dirty # 2 => property'[n].value = property'[n].base
  <2>1. property \in [Nodes -> Property] /\ n \in Nodes
        /\ (property[n].dirty # 2 => property[n].value = property[n].base)
    BY <1>1, BeforeHandler
  <2>2. BakeValue(property[n], v) \in Property
        /\ BakeValue(property[n], v).value = BakeValue(property[n], v).base
    BY <1>3, <2>1, ValueFacts
  <2> QED
    BY ONLY <1>2, <2>1, <2>2
<1>6. animation' \in [Animations -> AnimationState]
      /\ \A a \in Animations : animation'[a].animator = animation[a].animator
  <2>1. animation \in [Animations -> AnimationState]
    BY BeforeHandler
  <2>2. \A a \in Animations :
          animation'[a] = [animation[a] EXCEPT !.enabled = @ /\ a \notin AnimatorsOf(n)]
    BY <1>2
  <2>3. ASSUME NEW a \in Animations
        PROVE  animation'[a] \in AnimationState /\ animation'[a].animator = animation[a].animator
    BY <2>1, <2>2 DEF AnimationState
  <2> QED
    BY <1>2, <2>3
<1>7. updatedOwners' \subseteq Nodes /\ updatedOwners' \cap freed = {}
  BY <1>1, <1>2, BeforeHandler
<1> QED
  BY <1>1, <1>2, <1>4, <1>5, <1>6, <1>7, BeforeHandler, HandlerStep DEF endVars

\* Nothing looks at a destroyed node but what has looked at it in this frame.
LEMMA DestroyStep == ASSUME FrameInv, DestroyNode PROVE FrameInv'
<1> DEFINE n == Subject
<1>1. Handle("Destroy") /\ n \in Nodes
  BY SubjectFacts DEF DestroyNode
<1>2. /\ node' = [node EXCEPT ![n] = "gone"] /\ discardQueue' = discardQueue \cup {n}
      /\ animation' = [a \in Animations |-> [animation[a] EXCEPT
                        !.animator = IF a \in AnimatorsOf(n) THEN "orphan" ELSE @]]
      /\ UNCHANGED <<endVars, property, animations, updatedOwners>>
  BY DEF DestroyNode
<1>3. node' \in [Nodes -> Lives] /\ Gone' = Gone \cup {n}
      /\ \A k \in Nodes : node'[k] = "on" => node[k] = "on"
  BY <1>1, <1>2, BeforeHandler DEF Gone, Lives
<1>4. animation' \in [Animations -> AnimationState]
      /\ \A a \in Animations : animation'[a].animator = "live" =>
           animation[a].animator = "live" /\ a \notin AnimatorsOf(n)
  <2>1. animation \in [Animations -> AnimationState]
    BY BeforeHandler
  <2>2. \A a \in Animations : animation'[a] =
          [animation[a] EXCEPT !.animator = IF a \in AnimatorsOf(n) THEN "orphan" ELSE @]
    BY <1>2
  <2>3. ASSUME NEW a \in Animations
        PROVE  /\ animation'[a] \in AnimationState
               /\ animation'[a].animator = "live" =>
                    animation[a].animator = "live" /\ a \notin AnimatorsOf(n)
    BY <2>1, <2>2 DEF AnimationState
  <2> QED
    BY <1>2, <2>3
<1>5. \A a \in Animations : animation'[a].animator = "live" => Target[a] \notin Gone'
  BY <1>3, <1>4, BeforeHandler DEF AnimatorsOf
<1>6. Gone \cup discardQueue' \subseteq Gone'
  BY <1>2, <1>3, BeforeHandler
<1>7. Gone' \subseteq Gone \cup {k \in Nodes : "Destroy" = "Destroy" /\ Subject = k}
  BY <1>1, <1>3
<1> QED
  BY <1>1, <1>2, <1>3, <1>4, <1>5, <1>6, <1>7, BeforeHandler, HandlerStep DEF endVars

LEMMA BakeStep == ASSUME FrameInv, BakeColour PROVE FrameInv'
<1> DEFINE n == Subject
           c == Head(messages).colour
<1>1. Handle("Bake") /\ n \in Nodes \ Gone /\ c \in Int
  BY SubjectFacts DEF BakeColour
<1>2. /\ property' = [property EXCEPT ![n] = BakeValue(@, c)]
      /\ updatedOwners' = updatedOwners \cup {n}
      /\ UNCHANGED <<endVars, discardQueue, node, animations, animation>>
  BY DEF BakeColour
<1> HIDE DEF n, c
<1>3. Gone' = Gone
  BY <1>2 DEF Gone
<1>4. /\ property' \in [Nodes -> Property]
      /\ \A k \in Nodes : k # n => property'[k] = property[k]
      /\ property'[n].dirty \in {1, 3} /\ property'[n].value = property'[n].base
  <2>1. property \in [Nodes -> Property] /\ n \in Nodes
    BY <1>1, BeforeHandler
  <2>2. /\ BakeValue(property[n], c) \in Property /\ BakeValue(property[n], c).dirty \in {1, 3}
        /\ BakeValue(property[n], c).value = BakeValue(property[n], c).base
    BY <1>1, <2>1, ValueFacts
  <2> QED
    BY ONLY <1>2, <2>1, <2>2
<1>5. updatedOwners' \subseteq Nodes /\ updatedOwners' \cap freed = {}
  BY <1>1, <1>2, BeforeHandler
<1> QED
  BY <1>1, <1>2, <1>3, <1>4, <1>5, BeforeHandler, HandlerStep DEF endVars

LEMMA AddStep == ASSUME FrameInv, AddAnimation PROVE FrameInv'
<1> DEFINE a == Subject
           x == [NoAnimator EXCEPT !.animator = "live", !.enabled = node[Target[a]] = "on"]
<1>1. Handle("Add") /\ a \in Animations /\ Target[a] \in Nodes \ Gone
  BY SubjectFacts DEF AddAnimation
<1>2. /\ animations' = Append(animations, a) /\ animation' = [animation EXCEPT ![a] = x]
      /\ updatedOwners' = updatedOwners \cup {Target[a]}
      /\ UNCHANGED <<endVars, discardQueue, node, property>>
  BY DEF AddAnimation
<1>3. x \in AnimationState
  <2> DEFINE e == node[Target[a]] = "on"
             y == [NoAnimator EXCEPT !.animator = "live"]
  <2>1. y \in AnimationState
    <3>1. NoAnimator \in AnimationState
      BY DEF NoAnimator, AnimationState
    <3> QED
      BY <3>1 DEF AnimationState
  <2>2. e \in BOOLEAN /\ x = [y EXCEPT !.enabled = e]
    OBVIOUS
  <2> HIDE DEF e, x, y
  <2> QED
    BY <2>1, <2>2 DEF AnimationState
<1> HIDE DEF a, x
<1>4. Gone' = Gone
  BY <1>2 DEF Gone
<1>5. animation' \in [Animations -> AnimationState] /\ animations' \in Seq(Animations)
  BY <1>1, <1>2, <1>3, BeforeHandler
<1>6. \A b \in Animations : animation'[b].animator = "live" => Target[b] \notin Gone
  BY <1>1, <1>2, BeforeHandler
<1>7. updatedOwners' \subseteq Nodes /\ updatedOwners' \cap freed = {}
  BY <1>1, <1>2, BeforeHandler
<1> QED
  BY <1>1, <1>2, <1>4, <1>5, <1>6, <1>7, BeforeHandler, HandlerStep DEF endVars

\* The handlers of the letters about animations make a sound scene of one.
LEMMA AnimationHandlerStep ==
  ASSUME FrameInv, NEW op, HandleAnimation(op), NEW s, Sound(s), Becomes(s),
         animationFinishedDuringUpdate' \in BOOLEAN
  PROVE  FrameInv'
<1>1. /\ Handle(op) /\ discardAnimationFinishedAge' = discardAnimationFinishedAge
      /\ discardQueue' = discardQueue /\ node' = node /\ animations' = animations
      /\ property' = s.property /\ animation' = s.animation /\ updatedOwners' = s.owners
  BY DEF HandleAnimation, Becomes
<1>2. Gone' = Gone
  BY <1>1 DEF Gone
<1>3. /\ s.property \in [Nodes -> Property] /\ s.animation \in [Animations -> AnimationState]
      /\ s.owners \subseteq Nodes /\ s.owners \cap freed = {}
      /\ \A a \in Animations : s.animation[a].animator = "live" => Target[a] \notin Gone
      /\ \A n \in Nodes : /\ s.property[n].dirty # 2 => s.property[n].value = s.property[n].base
                          /\ node[n] = "on" /\ s.property[n].dirty = 0 =>
                               s.property[n].world = s.property[n].value
  BY DEF Sound, SceneRecord, Settled
<1> QED
  BY <1>1, <1>2, <1>3, BeforeHandler, HandlerStep

LEMMA AnimationLettersStep ==
  ASSUME FrameInv, Play \/ Pause \/ Stop \/ Clear \/ RemoveAnimation
  PROVE  FrameInv'
<1> DEFINE a == Subject
<1>0. Sound(Scene) /\ freed \subseteq Gone /\ Scene \in SceneRecord
  BY SceneIsSound DEF Sound
<1>a. ASSUME NEW op \in {"Play", "Pause", "Stop", "Clear", "Remove"}, HandleAnimation(op)
      PROVE  a \in Animations
  BY <1>a, SubjectFacts DEF HandleAnimation
<1>b. animationFinishedDuringUpdate \in BOOLEAN
  BY BeforeHandler
<1>c. /\ Scene.property = property /\ Scene.animation = animation /\ Scene.owners = updatedOwners
      /\ animation \in [Animations -> AnimationState]
  BY BeforeHandler DEF Scene
\* A change of the state of one animation.
<1>d. ASSUME NEW op \in {"Play", "Pause"}, HandleAnimation(op), NEW x \in AnimationState,
             x.animator = animation[a].animator, animation' = [animation EXCEPT ![a] = x],
             UNCHANGED <<property, updatedOwners, animationFinishedDuringUpdate>>
      PROVE  FrameInv'
  <2> DEFINE s == [Scene EXCEPT !.animation[a] = x]
  <2>1. a \in Animations
    BY <1>a, <1>d
  <2> HIDE DEF a
  <2>2. Sound(s)
    BY <1>0, <1>c, <1>d, <2>1, SameAnimator
  <2>3. Becomes(s)
    BY <1>0, <1>c, <1>d DEF Becomes, SceneRecord
  <2> HIDE DEF s
  <2> QED
    BY <1>b, <1>d, <2>2, <2>3, AnimationHandlerStep
<1>1. CASE Play
  <2>1. HandleAnimation("Play") /\ a \in Animations
    BY <1>1, <1>a DEF Play
  <2>2. animation[a] \in AnimationState
    BY <1>c, <2>1
  <2> DEFINE x == [animation[a] EXCEPT !.state = "Playing", !.playing = TRUE]
  <2>3. x \in AnimationState /\ x.animator = animation[a].animator
    BY <2>2 DEF AnimationState
  <2>4. animation' = [animation EXCEPT ![a] = x]
    BY <1>1, <1>c, <2>1 DEF Play
  <2> HIDE DEF x, a
  <2> QED
    BY <1>1, <1>d, <2>1, <2>3, <2>4 DEF Play
<1>2. CASE Pause
  <2>1. HandleAnimation("Pause") /\ a \in Animations
    BY <1>2, <1>a DEF Pause
  <2>2. animation[a] \in AnimationState
    BY <1>c, <2>1
  <2> DEFINE x == [animation[a] EXCEPT !.state = IF @ = "Playing" THEN "Paused" ELSE @]
  <2>3. x \in AnimationState /\ x.animator = animation[a].animator
    BY <2>2 DEF AnimationState
  <2>4. animation' = [animation EXCEPT ![a] = x]
    BY <1>2, <1>c, <2>1 DEF Pause
  <2> HIDE DEF x, a
  <2> QED
    BY <1>2, <1>d, <2>1, <2>3, <2>4 DEF Pause
<1>3. CASE Stop
  <2>1. HandleAnimation("Stop") /\ a \in Animations
    BY <1>3, <1>a DEF Stop
  <2>2. /\ Becomes(StopAnimation(Scene, a))
        /\ animationFinishedDuringUpdate' = (animationFinishedDuringUpdate \/ Running(Scene, a))
    BY <1>3 DEF Stop
  <2>3. Sound(StopAnimation(Scene, a))
    BY <1>0, <2>1, StopAnimationSound
  <2>4. animationFinishedDuringUpdate' \in BOOLEAN
    BY <1>b, <2>2 DEF Running
  <2> QED
    BY <2>1, <2>2, <2>3, <2>4, AnimationHandlerStep
<1>4. CASE Clear
  <2> DEFINE t == StopAnimation(Scene, a)
             s == [t EXCEPT !.animation[a].animator = "none"]
             x == [t.animation[a] EXCEPT !.animator = "none"]
  <2>1. HandleAnimation("Clear") /\ a \in Animations
    BY <1>4, <1>a DEF Clear
  <2>2. Becomes(s) /\ animationFinishedDuringUpdate' = animationFinishedDuringUpdate
    BY <1>4 DEF Clear
  <2>3. Sound(t)
    BY <1>0, <2>1, StopAnimationSound
  <2> HIDE DEF t, a
  <2>4. t \in SceneRecord /\ t.animation[a] \in AnimationState
    BY <2>1, <2>3 DEF Sound, SceneRecord
  <2>5. x \in AnimationState /\ x.animator = "none"
    BY <2>4 DEF AnimationState
  <2>6. s = [t EXCEPT !.animation[a] = x]
    BY <2>1, <2>4 DEF SceneRecord, AnimationState
  <2> HIDE DEF x
  <2>7. Sound(s)
    BY <2>1, <2>3, <2>5, <2>6, SameAnimator
  <2> HIDE DEF s
  <2> QED
    BY <1>b, <2>1, <2>2, <2>7, AnimationHandlerStep
<1>5. CASE RemoveAnimation
  <2> DEFINE t == EndAnimators(Scene, a)
             s == [t EXCEPT !.animation[a].state = "Destroyed"]
             x == [t.animation[a] EXCEPT !.state = "Destroyed"]
  <2>1. HandleAnimation("Remove") /\ a \in Animations
    BY <1>5, <1>a DEF RemoveAnimation
  <2>2. Becomes(s) /\ animationFinishedDuringUpdate' = animationFinishedDuringUpdate
    BY <1>5 DEF RemoveAnimation
  <2>3. Sound(t)
    BY <1>0, <2>1, EndAnimatorsSound
  <2> HIDE DEF t, a
  <2>4. t \in SceneRecord /\ t.animation[a] \in AnimationState
    BY <2>1, <2>3 DEF Sound, SceneRecord
  <2>5. x \in AnimationState /\ x.animator = t.animation[a].animator
    BY <2>4 DEF AnimationState
  <2>6. s = [t EXCEPT !.animation[a] = x]
    BY <2>1, <2>4 DEF SceneRecord, AnimationState
  <2> HIDE DEF x
  <2>7. Sound(s)
    BY <2>1, <2>3, <2>5, <2>6, SameAnimator
  <2> HIDE DEF s
  <2> QED
    BY <1>b, <2>1, <2>2, <2>7, AnimationHandlerStep
<1> QED
  BY <1>1, <1>2, <1>3, <1>4, <1>5

-----------------------------------------------------------------------------
(* The invariant, and what a run checks of it.                               *)

LEMMA FrameStarts == FrameInit => FrameInv
<1> SUFFICES ASSUME FrameInit PROVE FrameInv
  OBVIOUS
<1> USE DEF FrameInit
<1>1. FrameTypes
  <2>1. /\ queue \in Seq(Letters) /\ messages \in Seq(Letters) /\ animations \in Seq(Animations)
        /\ actor \in [Nodes -> Lives] /\ node \in [Nodes -> Lives]
    BY DEF Lives
  <2>2. property \in [Nodes -> Property]
    BY DEF Property
  <2>3. animation \in [Animations -> AnimationState]
    BY DEF NoAnimator, AnimationState
  <2>4. pc \in {"idle", "checked", "messages", "render"} /\ discardAnimationFinishedAge \in 0 .. 3
        /\ updatedOwners \subseteq Nodes
    OBVIOUS
  <2>5. /\ updateScene \in BOOLEAN /\ previousUpdateScene \in BOOLEAN
        /\ skipRendering \in BOOLEAN /\ animationFinishedDuringUpdate \in BOOLEAN
    BY Zenon
  <2> QED
    BY ONLY <2>1, <2>2, <2>3, <2>4, <2>5 DEF FrameTypes
<1>2. Handling
  BY DEF Handling
<1>3. LastWords
  BY DEF LastWords, Ends, Silent
<1>4. Kept
  BY DEF Kept, Gone, NoAnimator
<1>5. Drawn
  BY DEF Drawn, OnScene
<1>6. Values
  BY DEF Values, Settled, Inherited, OnScene, ScreenIsRight, ShownAsSet
<1> QED
  BY <1>1, <1>2, <1>3, <1>4, <1>5, <1>6 DEF FrameInv

\* One step per action.
LEMMA FrameSteps == ASSUME FrameInv, [FrameNext]_managerVars PROVE FrameInv'
<1>1. ASSUME NEW n \in Nodes,
             AddToScene(n) \/ RemoveFromScene(n) \/ DestroyActor(n) \/ SetColor(n)
      PROVE  FrameInv'
  BY <1>1, NodeCallStep
<1>2. ASSUME NEW a \in Animations, NewAnimation(a) \/ Control(a) \/ ReleaseAnimation(a)
      PROVE  FrameInv'
  BY <1>2, AnimationCallStep
<1>3. CASE RequestUpdate
  BY <1>3, RequestStep
<1>4. CASE BeginUpdate
  BY <1>4, BeginStep
<1>5. CASE TakeMessages
  BY <1>5, TakeStep
<1>6. CASE HandleMessage
  BY <1>6, ConnectStep, DisconnectStep, DestroyStep, BakeStep, AddStep, AnimationLettersStep
     DEF HandleMessage
<1>7. CASE SkipScene
  BY <1>7, SkipStep
<1>8. ASSUME NEW to \in Advances, UpdateScene(to) PROVE FrameInv'
  BY <1>8, UpdateSceneStep
<1>9. CASE Render
  BY <1>9, RenderStep
<1>10. CASE UNCHANGED managerVars
  BY <1>10, FrameStutter
<1> QED
  BY <1>1, <1>2, <1>3, <1>4, <1>5, <1>6, <1>7, <1>8, <1>9, <1>10 DEF FrameNext, UpdateContinues

LEMMA FrameInvariant == FrameSpec => []FrameInv
<1>1. FrameInv /\ [FrameNext]_managerVars => FrameInv'
  BY FrameSteps
<1> QED
  BY FrameStarts, <1>1, PTL DEF FrameSpec

\* When a frame that was drawn is over, the screen shows every node with the
\* value its property has, however messages, resets, animations and frames that
\* leave the scene alone (UpdateManager::Update, previousUpdateScene) alternate.
THEOREM ScreenIsRightHolds == FrameSpec => []ScreenIsRight
<1>1. FrameInv => ScreenIsRight
  BY DEF FrameInv, Values
<1> QED
  BY FrameInvariant, <1>1, PTL

\* The nodes a frame draws and those whose flags PostRender resets have not been
\* deleted with the discard queue.
THEOREM NothingUsedIsFreedHolds == FrameSpec => []NothingUsedIsFreed
<1>1. FrameInv => NothingUsedIsFreed
  <2> SUFFICES ASSUME FrameInv, pc = "render"
               PROVE  (instructions \cup updatedOwners) \cap freed = {}
    BY DEF NothingUsedIsFreed
  <2>1. instructions \subseteq OnScene
    BY DEF FrameInv, Drawn
  <2>2. freed \subseteq Gone /\ updatedOwners \cap freed = {}
    BY DEF FrameInv, Kept
  <2>3. OnScene \cap Gone = {}
    BY DEF OnScene, Gone
  <2> QED
    BY <2>1, <2>2, <2>3
<1> QED
  BY FrameInvariant, <1>1, PTL

\* A frame that leaves nodes to be deleted asks for another.
DiscardsAnnounced == pc \in {"idle", "render"} /\ discardQueue # {} => keepUpdating

LEMMA DiscardSteps ==
  ASSUME DiscardsAnnounced, [FrameNext]_managerVars PROVE DiscardsAnnounced'
<1> USE DEF DiscardsAnnounced
<1>1. ASSUME NEW n \in Nodes,
             AddToScene(n) \/ RemoveFromScene(n) \/ DestroyActor(n) \/ SetColor(n)
      PROVE  DiscardsAnnounced'
  BY <1>1 DEF AddToScene, RemoveFromScene, DestroyActor, SetColor, Send, SendColour, frameVars
<1>2. ASSUME NEW a \in Animations, NewAnimation(a) \/ Control(a) \/ ReleaseAnimation(a)
      PROVE  DiscardsAnnounced'
  BY <1>2 DEF NewAnimation, Control, ReleaseAnimation, Send, SendColour, frameVars
<1>3. CASE RequestUpdate \/ Render \/ UNCHANGED managerVars
  BY <1>3 DEF RequestUpdate, Render, managerVars, frameVars
<1>4. CASE BeginUpdate \/ TakeMessages
  BY <1>4 DEF BeginUpdate, TakeMessages
<1>5. CASE HandleMessage
  <2>1. \E op : Handle(op)
    BY <1>5 DEF HandleMessage, ConnectNode, DisconnectNode, DestroyNode, BakeColour,
                AddAnimation, Play, Pause, Stop, Clear, RemoveAnimation, HandleAnimation
  <2> QED
    BY <2>1 DEF Handle
<1>6. CASE SkipScene \/ \E to \in Advances : UpdateScene(to)
  <2>1. FinishUpdate
    BY <1>6 DEF SkipScene, UpdateScene
  <2> QED
    BY <2>1 DEF FinishUpdate, ShouldKeepUpdating
<1> QED
  BY <1>1, <1>2, <1>3, <1>4, <1>5, <1>6 DEF FrameNext, UpdateContinues

\* The loop does not stop while a destroyed node waits to be deleted (the
\* OBJECT_DISCARDED reason of UpdateManager::KeepUpdatingCheck): a part of
\* RestIsClean, which a run checks.
THEOREM NothingDiscardedAtRestHolds == FrameSpec => []NothingDiscardedAtRest
<1>1. FrameInit => DiscardsAnnounced
  BY DEF FrameInit, DiscardsAnnounced
<1>2. DiscardsAnnounced /\ [FrameNext]_managerVars => DiscardsAnnounced'
  BY DiscardSteps
<1>3. DiscardsAnnounced => NothingDiscardedAtRest
  BY DEF DiscardsAnnounced, NothingDiscardedAtRest, AtRest
<1> QED
  BY <1>1, <1>2, <1>3, PTL DEF FrameSpec

-----------------------------------------------------------------------------
(***************************************************************************)
(* What is left behind when the loop stops.  Between frames a property     *)
(* that is not at its base has a resetter that will take it back; a frame  *)
(* that does the work of the scene starts from the base values, unless it  *)
(* was woken by messages that came after its first decision: and then      *)
(* another frame has been asked for.                                       *)
(***************************************************************************)
Handles == {"none", "held", "gone"}
Resetter == [running : 0 .. 2, active : 0 .. 2, disconnected : BOOLEAN]

\* An animation joins the container once: the letter that adds it is sent once.
NotAdded(s, a) == \A i \in 1 .. Len(s) : ~(s[i].op = "Add" /\ s[i].on = a)
SentOnce(s) == \A i, j \in 1 .. Len(s) :
  s[i].op = "Add" /\ s[j].op = "Add" /\ s[i].on = s[j].on => i = j

JoinsOnce ==
  /\ handle \in [Animations -> Handles]
  /\ NoRepeats(animations)
  /\ \A a \in Animations : animation[a].animator = "live" => a \in Elements(animations)
  /\ \A a \in Animations : handle[a] = "none" => a \notin Elements(animations)
  /\ \A a \in Animations : handle[a] = "none" \/ a \in Elements(animations) =>
       NotAdded(messages, a) /\ NotAdded(queue, a)
  /\ SentOnce(messages) /\ SentOnce(queue)
  /\ \A i \in 1 .. Len(messages) : messages[i].op = "Add" => NotAdded(queue, messages[i].on)

\* The resetter of an animator that is live is there, and at work while the
\* animator can change anything.
Attended ==
  /\ resetters \subseteq Animations /\ resetter \in [Animations -> Resetter]
  /\ \A a \in Animations : animation[a].animator = "live" =>
       /\ a \in resetters /\ resetter[a].running = 2
       /\ animation[a].enabled => resetter[a].active = 2 /\ ~resetter[a].disconnected

\* The nodes that a resetter of an animator will reset.
Reset == {Target[a] : a \in {b \in resetters : resetter[b].active > 0}}

TakenBack(p) == \A n \in Nodes \ Gone : p[n].value # p[n].base => n \in Reset
AtBase == \A n \in Nodes \ Gone : property[n].value = property[n].base
Rested == \A n \in OnScene : property[n].value = property[n].base + Cardinality(PausedSteps(n))
Asked == announcing \/ requested

Asking ==
  /\ announcing \in BOOLEAN /\ requested \in BOOLEAN
  /\ queue # << >> /\ ~(pc = "checked" /\ updateScene) => Asked

StartsAtBase ==
  /\ pc = "checked" /\ (updateScene \/ previousUpdateScene) => AtBase
  /\ pc = "messages" /\ previousUpdateScene => AtBase
  /\ pc = "messages" /\ updateScene => AtBase \/ Asked

NothingRuns == pc \in {"checked", "messages"} /\ ~updateScene =>
                 messages = << >> /\ ~IsAnimationRunning(animations, animation)

RestsOrGoesOn ==
  /\ pc \in {"checked", "messages"} /\ ~updateScene /\ ~previousUpdateScene => Rested
  /\ pc \in {"render", "idle"} /\ (~previousUpdateScene \/ (~keepUpdating /\ ~Asked)) => Rested

RestInv == /\ JoinsOnce /\ Attended /\ TakenBack(property)
           /\ Asking /\ StartsAtBase /\ NothingRuns /\ RestsOrGoesOn

-----------------------------------------------------------------------------
(* What the animations do to the scene, one at a time.                       *)

\* What the paused animator of animation a adds.
Adds(A) == IF A.animator = "live" /\ A.enabled THEN A.phase ELSE 0

\* Only animation a and the property of its node change.
Only1(s, t, a) ==
  /\ t \in SceneRecord /\ t.container = s.container
  /\ \A b \in Animations : b # a => t.animation[b] = s.animation[b]
  /\ \A n \in Nodes : n # Target[a] => t.property[n] = s.property[n]
  /\ t.animation[a].animator = "live" <=> s.animation[a].animator = "live"
  /\ t.animation[a].enabled = s.animation[a].enabled
  /\ ~(s.animation[a].animator = "live" /\ s.animation[a].enabled) => t.property = s.property
  /\ s.finished => t.finished

\* What follows from UpdateAnimators: the animator adds p, or bakes.
Effect(s, t, a, p, bake) ==
  LET n == Target[a]
      can == s.animation[a].animator = "live" /\ s.animation[a].enabled
  IN /\ Only1(s, t, a) /\ t.finished = s.finished
     /\ t.animation[a].state = s.animation[a].state
     /\ t.animation[a].phase = s.animation[a].phase
     /\ ~bake => /\ t.property[n].base = s.property[n].base
                 /\ t.property[n].value = s.property[n].value + (IF can THEN p ELSE 0)
     /\ bake => \/ t.property = s.property
                \/ t.property[n].value = t.property[n].base

LEMMA UpdateAnimatorsEffect ==
  ASSUME NEW s \in SceneRecord, NEW a \in Animations, NEW p \in 0 .. 2,
         NEW bake \in BOOLEAN, NEW over \in BOOLEAN,
         NEW r, r = UpdateAnimators(s, a, p, bake, over)
  PROVE  Effect(s, r, a, p, bake)
<1> DEFINE A == s.animation[a]
           n == Target[a]
           can == A.animator = "live" /\ A.enabled
           applied == can /\ p > 0
           q == s.property[n]
           new == IF bake THEN BakeValue(q, q.value + p) ELSE SetValue(q, q.value + p)
           B == [A EXCEPT !.isActive = applied /\ (p = 2 => a \notin ShortAnimators),
                          !.playing = @ /\ ~over,
                          !.animator = IF @ = "orphan" THEN "none" ELSE @]
           t == [s EXCEPT !.property[n] = IF applied THEN new ELSE @,
                          !.owners = IF applied THEN @ \cup {n} ELSE @,
                          !.animation[a] = B]
<1>0. A \in AnimationState /\ n \in Nodes /\ q \in Property /\ p \in Int /\ q.value \in Int
  BY UpdateAssumption DEF SceneRecord, Property
<1>1. UpdateAnimators(s, a, p, bake, over) = t
  BY <1>0 DEF UpdateAnimators
<1>2. new \in Property /\ (bake => new.value = new.base)
      /\ (~bake => new.value = q.value + p /\ new.base = q.base)
  <2>1. q.value + p \in Int
    BY <1>0
  <2>2. SetValue(q, q.value + p).value = q.value + p /\ SetValue(q, q.value + p).base = q.base
    BY <1>0, <2>1 DEF SetValue, Property
  <2> QED
    BY <1>0, <2>1, <2>2, ValueFacts
<1>3. /\ B \in AnimationState /\ (B.animator = "live" <=> A.animator = "live")
      /\ B.enabled = A.enabled /\ B.state = A.state /\ B.phase = A.phase
  BY <1>0 DEF AnimationState
<1>a. applied \in BOOLEAN /\ can \in BOOLEAN /\ (applied => can) /\ (can /\ ~applied => p = 0)
  BY <1>0 DEF AnimationState
<1> HIDE DEF new, B, applied, can
<1>4. /\ t \in SceneRecord
      /\ t.property = [s.property EXCEPT ![n] = IF applied THEN new ELSE @]
      /\ t.animation = [s.animation EXCEPT ![a] = B]
      /\ t.container = s.container /\ t.finished = s.finished
  BY <1>0, <1>2, <1>3 DEF SceneRecord
<1> HIDE DEF t
<1>5. /\ t.animation[a] = B /\ \A b \in Animations : b # a => t.animation[b] = s.animation[b]
      /\ t.property[n] = (IF applied THEN new ELSE q)
      /\ \A k \in Nodes : k # n => t.property[k] = s.property[k]
      /\ ~applied => t.property = s.property
  BY <1>0, <1>4 DEF SceneRecord
<1>6. /\ ~bake => /\ t.property[n].base = q.base
                  /\ t.property[n].value = q.value + (IF can THEN p ELSE 0)
      /\ bake => t.property = s.property \/ t.property[n].value = t.property[n].base
  BY <1>0, <1>2, <1>5, <1>a
<1>7. Only1(s, t, a)
  BY <1>3, <1>4, <1>5, <1>a DEF Only1, can
<1> HIDE DEF n
<1> QED
  BY <1>1, <1>3, <1>4, <1>5, <1>6, <1>7 DEF can, n, Effect

\* An animator that is only applied, and one that bakes.
LEMMA AppliedEffect ==
  ASSUME NEW s \in SceneRecord, NEW a \in Animations, NEW p \in 0 .. 2,
         NEW t, t = UpdateAnimators(s, a, p, FALSE, FALSE)
  PROVE  /\ Only1(s, t, a) /\ t.finished = s.finished
         /\ t.animation[a].state = s.animation[a].state
         /\ t.animation[a].phase = s.animation[a].phase
         /\ t.property[Target[a]].base = s.property[Target[a]].base
         /\ t.property[Target[a]].value = s.property[Target[a]].value +
              (IF s.animation[a].animator = "live" /\ s.animation[a].enabled THEN p ELSE 0)
<1>1. PICK no \in BOOLEAN : no = FALSE
  OBVIOUS
<1>2. t = UpdateAnimators(s, a, p, no, no) /\ ~no
  BY <1>1
<1>3. Effect(s, t, a, p, no)
  BY <1>2, UpdateAnimatorsEffect
<1> QED
  BY <1>2, <1>3 DEF Effect

LEMMA BakedEffect ==
  ASSUME NEW s \in SceneRecord, NEW a \in Animations, NEW p \in 0 .. 2, NEW bake \in BOOLEAN,
         NEW t, t = UpdateAnimators(s, a, p, bake, TRUE)
  PROVE  /\ Only1(s, t, a)
         /\ bake => \/ t.property = s.property
                    \/ t.property[Target[a]].value = t.property[Target[a]].base
<1>1. PICK yes \in BOOLEAN : yes = TRUE
  OBVIOUS
<1>2. t = UpdateAnimators(s, a, p, bake, yes)
  BY <1>1
<1>3. Effect(s, t, a, p, bake)
  BY <1>2, UpdateAnimatorsEffect
<1> QED
  BY <1>3 DEF Effect

\* Only1 of one step after another.
LEMMA OneAfterAnother ==
  ASSUME NEW s, NEW t, NEW u, NEW a \in Animations, s \in SceneRecord,
         Only1(s, t, a), Only1(t, u, a)
  PROVE  Only1(s, u, a)
  BY DEF Only1

\* Ending an animation leaves alone what it does not bake.
LEMMA EndEffect ==
  ASSUME NEW s \in SceneRecord, NEW a \in Animations
  PROVE  LET t == EndAnimators(s, a)
         IN  /\ Only1(s, t, a)
             /\ \/ t.property = s.property
                \/ t.property[Target[a]].value = t.property[Target[a]].base
<1>0. s.animation[a] \in AnimationState
  BY DEF SceneRecord
<1>1. CASE ~Running(s, a)
  BY <1>1 DEF EndAnimators, Only1
<1>2. CASE Running(s, a) /\ EndAction[a] = "DISCARD"
  <2> DEFINE no == FALSE
             x == [s.animation[a] EXCEPT !.playing = no]
             t == [s EXCEPT !.animation[a] = x]
  <2>0. no \in BOOLEAN
    OBVIOUS
  <2>1. EndAnimators(s, a) = t
    BY <1>0, <1>2 DEF EndAnimators, SceneRecord, AnimationState
  <2> HIDE DEF no
  <2>2. /\ x \in AnimationState /\ x.enabled = s.animation[a].enabled
        /\ x.animator = s.animation[a].animator
    BY <1>0, <2>0 DEF AnimationState
  <2> HIDE DEF x
  <2>3. /\ t \in SceneRecord /\ t.property = s.property /\ t.animation = [s.animation EXCEPT ![a] = x]
        /\ t.container = s.container /\ t.finished = s.finished
    BY <2>2 DEF SceneRecord
  <2> HIDE DEF t
  <2>4. t.animation[a] = x /\ \A b \in Animations : b # a => t.animation[b] = s.animation[b]
    BY <2>3 DEF SceneRecord
  <2> QED
    BY <2>1, <2>2, <2>3, <2>4 DEF Only1
<1>3. CASE Running(s, a) /\ EndAction[a] # "DISCARD"
  <2> DEFINE final == IF EndAction[a] = "BAKE" THEN s.animation[a].phase ELSE 2
  <2>1. final \in 0 .. 2
    BY <1>0 DEF AnimationState
  <2>2. PICK yes \in BOOLEAN : yes = TRUE
    OBVIOUS
  <2>3. EndAnimators(s, a) = UpdateAnimators(s, a, final, yes, TRUE)
    BY <1>3, <2>2 DEF EndAnimators
  <2> HIDE DEF final
  <2> QED
    BY <2>1, <2>2, <2>3, BakedEffect
<1> QED
  BY <1>1, <1>2, <1>3

\* A change of the state and the phase of an animation.
LEMMA RestateEffect ==
  ASSUME NEW s \in SceneRecord, NEW a \in Animations, NEW x \in AnimationState,
         x.animator = s.animation[a].animator, x.enabled = s.animation[a].enabled
  PROVE  LET t == [s EXCEPT !.animation[a] = x]
         IN  /\ Only1(s, t, a) /\ t.property = s.property /\ t.animation[a] = x
             /\ t.finished = s.finished /\ t.age = s.age /\ t.owners = s.owners
<1> DEFINE t == [s EXCEPT !.animation[a] = x]
<1>1. /\ t \in SceneRecord /\ t.property = s.property /\ t.animation = [s.animation EXCEPT ![a] = x]
      /\ t.container = s.container /\ t.finished = s.finished /\ t.age = s.age /\ t.owners = s.owners
  BY DEF SceneRecord
<1> HIDE DEF t
<1>2. t.animation[a] = x /\ \A b \in Animations : b # a => t.animation[b] = s.animation[b]
  BY <1>1 DEF SceneRecord
<1>3. Only1(s, t, a)
  BY <1>1, <1>2 DEF Only1
<1> QED
  BY <1>1, <1>2, <1>3 DEF t

LEMMA StopEffect ==
  ASSUME NEW s \in SceneRecord, NEW a \in Animations
  PROVE  LET t == StopAnimation(s, a)
         IN  /\ Only1(s, t, a)
             /\ \/ t.property = s.property
                \/ t.property[Target[a]].value = t.property[Target[a]].base
<1> DEFINE t == EndAnimators(s, a)
           x == [t.animation[a] EXCEPT !.state = "Stopped", !.phase = 0]
           u == [t EXCEPT !.animation[a] = x]
<1>1. /\ Only1(s, t, a) /\ t \in SceneRecord
      /\ \/ t.property = s.property
         \/ t.property[Target[a]].value = t.property[Target[a]].base
  BY EndEffect DEF Only1
<1>2. t.animation[a] \in AnimationState
  BY <1>1 DEF SceneRecord
<1> HIDE DEF t
<1>3. StopAnimation(s, a) = u
  <2>1. [t EXCEPT !.animation[a].state = "Stopped", !.animation[a].phase = 0] = u
    BY <1>1 DEF SceneRecord, AnimationState
  <2> QED
    BY <2>1 DEF StopAnimation, t
<1>4. x \in AnimationState /\ x.animator = t.animation[a].animator
  BY ONLY <1>2, StoppedFacts
<1>5. x.enabled = t.animation[a].enabled
  BY <1>2 DEF AnimationState
<1> HIDE DEF x
<1>6. Only1(t, u, a) /\ u.property = t.property
  BY <1>1, <1>4, <1>5, RestateEffect
<1> HIDE DEF u
<1>7. Only1(s, u, a)
  BY <1>1, <1>6, OneAfterAnother
<1> QED
  BY <1>1, <1>3, <1>6, <1>7

\* One turn: an animation that plays goes on, or is finished; one that is paused
\* adds its phase; another one does nothing.
LEMMA UpdateEffect ==
  ASSUME NEW s \in SceneRecord, NEW a \in Animations, NEW p \in 0 .. 3
  PROVE  LET t == UpdateAnimation(s, a, p)
             A == s.animation[a]
             B == t.animation[a]
             n == Target[a]
         IN  /\ Only1(s, t, a)
             /\ A.state = "Playing" => B.state = "Playing" \/ t.finished
             /\ A.state # "Playing" => B.state = A.state /\ B.phase = A.phase
             /\ A.state \notin {"Playing", "Paused"} => t = s
             /\ A.state = "Paused" => /\ t.property[n].base = s.property[n].base
                                      /\ t.property[n].value = s.property[n].value + Adds(A)
<1> DEFINE A == s.animation[a]
<1>0. A \in AnimationState /\ A.phase \in 0 .. 2
  BY DEF SceneRecord, AnimationState
<1>1. CASE A.state = "Paused"
  <2>1. UpdateAnimation(s, a, p) = UpdateAnimators(s, a, A.phase, FALSE, FALSE)
    BY <1>1 DEF UpdateAnimation
  <2> QED
    BY <1>0, <1>1, <2>1, AppliedEffect DEF Adds
<1>2. CASE A.state = "Playing" /\ p < 3
  <2> DEFINE x == [A EXCEPT !.phase = p]
             t == [s EXCEPT !.animation[a] = x]
             u == UpdateAnimators(t, a, p, FALSE, FALSE)
  <2>1. p \in 0 .. 2
    BY <1>2
  <2>2. /\ x \in AnimationState /\ x.animator = A.animator /\ x.enabled = A.enabled
        /\ x.state = A.state
    BY <1>0, <2>1 DEF AnimationState
  <2>3. UpdateAnimation(s, a, p) = u
    <3>1. t = [s EXCEPT !.animation[a].phase = p]
      BY <1>0 DEF SceneRecord, AnimationState
    <3>2. UpdateAnimation(s, a, p) = Advance(s, a, p)
      BY <1>2 DEF UpdateAnimation
    <3> HIDE DEF t
    <3> QED
      BY <3>1, <3>2 DEF Advance
  <2> HIDE DEF x
  <2>4. Only1(s, t, a) /\ t \in SceneRecord /\ t.animation[a] = x
    BY <2>2, RestateEffect DEF Only1
  <2> HIDE DEF t
  <2>5. Only1(t, u, a) /\ u.animation[a].state = x.state
    BY <2>1, <2>4, AppliedEffect
  <2> HIDE DEF u
  <2>6. Only1(s, u, a)
    BY <2>4, <2>5, OneAfterAnother
  <2> QED
    BY <1>2, <2>2, <2>3, <2>5, <2>6
<1>3. CASE A.state = "Playing" /\ p = 3
  <2> DEFINE bake == EndAction[a] # "DISCARD"
             t == UpdateAnimators(s, a, 2, bake, TRUE)
             x == [t.animation[a] EXCEPT !.state = "Stopped", !.phase = 0]
             u == [t EXCEPT !.animation[a] = x]
             w == [u EXCEPT !.finished = TRUE, !.age = Discarded(a, @)]
  <2>1. Only1(s, t, a) /\ t \in SceneRecord
    <3>0. bake \in BOOLEAN
      OBVIOUS
    <3> HIDE DEF bake
    <3>1. PICK b \in BOOLEAN : b = bake
      BY <3>0, Zenon
    <3>2. PICK k \in 0 .. 2 : t = UpdateAnimators(s, a, k, b, TRUE)
      BY <3>1
    <3> HIDE DEF t
    <3>3. Only1(s, t, a)
      BY <3>2, BakedEffect
    <3> QED
      BY <3>3 DEF Only1
  <2>2. UpdateAnimation(s, a, p) = Complete(s, a)
    BY <1>3 DEF UpdateAnimation
  <2>3. Complete(s, a) = [t EXCEPT !.animation[a].state = "Stopped",
          !.animation[a].phase = 0, !.finished = TRUE, !.age = Discarded(a, @)]
    BY DEF Complete
  <2> HIDE DEF t
  <2>4. t.animation[a] \in AnimationState
    BY <2>1 DEF SceneRecord
  <2>5. x \in AnimationState /\ x.animator = t.animation[a].animator
    BY ONLY <2>4, StoppedFacts
  <2>6. x.enabled = t.animation[a].enabled
    BY <2>4 DEF AnimationState
  <2>7. Complete(s, a) = w
    <3>1. [t EXCEPT !.animation[a].state = "Stopped", !.animation[a].phase = 0] = u
      BY <2>1 DEF SceneRecord, AnimationState
    <3> QED
      BY <2>1, <2>3, <3>1 DEF SceneRecord, AnimationState
  <2> HIDE DEF x
  <2>8. Only1(t, u, a) /\ u \in SceneRecord
    BY <2>1, <2>5, <2>6, RestateEffect DEF Only1
  <2> HIDE DEF u
  <2>9. Only1(s, u, a)
    BY <2>1, <2>8, OneAfterAnother
  <2>10. \A n \in 0 .. 3 : Discarded(a, n) \in 0 .. 3
    BY DEF Discarded
  <2>11. /\ w \in SceneRecord /\ w.property = u.property /\ w.animation = u.animation
         /\ w.container = u.container /\ w.finished
    BY <2>8, <2>10 DEF SceneRecord
  <2> HIDE DEF w
  <2>12. Only1(s, w, a)
    BY <2>9, <2>11 DEF Only1
  <2> QED
    BY <1>3, <2>2, <2>7, <2>11, <2>12
<1>4. CASE ~(A.state \in {"Paused", "Playing"})
  <2>1. UpdateAnimation(s, a, p) = s
    BY <1>4 DEF UpdateAnimation
  <2>2. Only1(s, s, a)
    BY DEF Only1
  <2> QED
    BY <1>4, <2>1, <2>2
<1> QED
  BY <1>1, <1>2, <1>3, <1>4

\* A turn of Animate: the animation stays in the container unless it is destroyed.
TurnEffect(s, t, a, A) ==
  /\ t \in SceneRecord
  /\ t.container = IF t.animation[a].state = "Destroyed" THEN s.container
                                                         ELSE Append(s.container, a)
  /\ \A b \in Animations : b # a => t.animation[b] = s.animation[b]
  /\ \A n \in Nodes : n # Target[a] => t.property[n] = s.property[n]
  /\ t.animation[a].animator = "live" <=> A.animator = "live"
  /\ t.animation[a].enabled = A.enabled
  /\ ~(A.animator = "live" /\ A.enabled) => t.property = s.property
  /\ s.finished => t.finished
  /\ A.state = "Playing" => t.animation[a].state = "Playing" \/ t.finished
  /\ A.state # "Playing" => t.animation[a].state = A.state /\ t.animation[a].phase = A.phase
  /\ A.state \notin {"Playing", "Paused"} => t.property = s.property
  /\ A.state = "Paused" =>
       /\ t.property[Target[a]].base = s.property[Target[a]].base
       /\ t.property[Target[a]].value = s.property[Target[a]].value + Adds(A)

LEMMA AnimateEffect ==
  ASSUME NEW s \in SceneRecord, NEW a \in Animations, NEW p \in 0 .. 3,
         NEW t, t = Animate(s, a, p), NEW A, A = s.animation[a]
  PROVE  TurnEffect(s, t, a, A)
<1>1. PICK u : u = UpdateAnimation(s, a, p)
  OBVIOUS
<1>2. /\ Only1(s, u, a)
      /\ s.animation[a].state = "Playing" => u.animation[a].state = "Playing" \/ u.finished
      /\ s.animation[a].state # "Playing" => /\ u.animation[a].state = s.animation[a].state
                                             /\ u.animation[a].phase = s.animation[a].phase
      /\ s.animation[a].state \notin {"Playing", "Paused"} => u = s
      /\ s.animation[a].state = "Paused" =>
           /\ u.property[Target[a]].base = s.property[Target[a]].base
           /\ u.property[Target[a]].value = s.property[Target[a]].value + Adds(s.animation[a])
  BY <1>1, UpdateEffect
<1>3. /\ u \in SceneRecord /\ u.container = s.container
      /\ Append(u.container, a) \in Seq(Animations)
  BY <1>2 DEF Only1, SceneRecord
<1>4. t = IF u.animation[a].state = "Destroyed" THEN u
                                                ELSE [u EXCEPT !.container = Append(@, a)]
  BY <1>1 DEF Animate
<1>5. /\ t \in SceneRecord /\ t.property = u.property /\ t.animation = u.animation
      /\ t.finished = u.finished
      /\ t.container = IF u.animation[a].state = "Destroyed" THEN s.container
                                                             ELSE Append(s.container, a)
  BY <1>3, <1>4 DEF SceneRecord
<1> QED
  BY <1>2, <1>5 DEF Only1, TurnEffect

\* The animations that have had their turn, and what the paused ones of them add.
Done(k) == {animations[i] : i \in 1 .. k}
StepsOfDone(k, n) == UNION {{a} \X (1 .. animation[a].phase) : a \in PausedOn(n) \cap Done(k)}

LEMMA StepsGrow ==
  ASSUME animations \in Seq(Animations), NoRepeats(animations),
         animation \in [Animations -> AnimationState],
         NEW k \in 1 .. Len(animations), NEW n \in Nodes
  PROVE  /\ Cardinality(StepsOfDone(k, n)) \in Nat /\ Cardinality(StepsOfDone(k - 1, n)) \in Nat
         /\ Done(k) = Done(k - 1) \cup {animations[k]} /\ animations[k] \notin Done(k - 1)
         /\ animations[k] \in PausedOn(n) =>
              Cardinality(StepsOfDone(k, n))
                = Cardinality(StepsOfDone(k - 1, n)) + animation[animations[k]].phase
         /\ animations[k] \notin PausedOn(n) => StepsOfDone(k, n) = StepsOfDone(k - 1, n)
<1>1. PICK a \in Animations : a = animations[k]
  OBVIOUS
<1>2. Done(k) = Done(k - 1) \cup {a} /\ a \notin Done(k - 1)
  <2>1. \A i \in 1 .. k - 1 : animations[i] # animations[k]
    BY Positions
  <2>2. 1 .. k = (1 .. k - 1) \cup {k}
    OBVIOUS
  <2> QED
    BY <1>1, <2>1, <2>2 DEF Done
<1>3. \A j \in {k - 1, k} : /\ IsFiniteSet(StepsOfDone(j, n))
                            /\ Cardinality(StepsOfDone(j, n)) \in Nat
  <2> TAKE j \in {k - 1, k}
  <2>1. IsFiniteSet(Animations \X (1 .. 2))
    <3>1. IsFiniteSet(Animations)
      BY UpdateAssumption
    <3>2. 1 \in Int /\ 2 \in Int
      OBVIOUS
    <3>3. IsFiniteSet(1 .. 2)
      BY ONLY <3>2, FS_Interval
    <3> QED
      BY <3>1, <3>3, FS_Product
  <2>2. StepsOfDone(j, n) \subseteq Animations \X (1 .. 2)
    <3>1. \A b \in PausedOn(n) : b \in Animations /\ animation[b].phase \in 0 .. 2
      BY DEF PausedOn, AnimatorsOf, AnimationState
    <3>2. \A b \in PausedOn(n) : {b} \X (1 .. animation[b].phase) \subseteq Animations \X (1 .. 2)
      BY <3>1
    <3> QED
      BY <3>2 DEF StepsOfDone
  <2> QED
    BY <2>1, <2>2, FS_Subset, FS_CardinalityType
<1>4. CASE a \notin PausedOn(n)
  <2>1. PausedOn(n) \cap Done(k) = PausedOn(n) \cap Done(k - 1)
    BY <1>2, <1>4
  <2>2. StepsOfDone(k, n) = StepsOfDone(k - 1, n)
    BY <2>1 DEF StepsOfDone
  <2> QED
    BY <1>1, <1>2, <1>3, <1>4, <2>2
<1>5. CASE a \in PausedOn(n)
  <2> DEFINE new == {a} \X (1 .. animation[a].phase)
  <2>1. PausedOn(n) \cap Done(k) = (PausedOn(n) \cap Done(k - 1)) \cup {a}
    BY <1>2, <1>5
  <2>2. StepsOfDone(k, n) = StepsOfDone(k - 1, n) \cup new
    BY <2>1 DEF StepsOfDone
  <2>3. IsFiniteSet(new) /\ Cardinality(new) = animation[a].phase
    <3>1. animation[a].phase \in 0 .. 2
      BY DEF AnimationState
    <3>2. IsFiniteSet(1 .. animation[a].phase)
          /\ Cardinality(1 .. animation[a].phase) = animation[a].phase
      <4>1. PICK m \in 0 .. 2 : m = animation[a].phase
        BY <3>1
      <4>2. m \in Int /\ 1 \in Int /\ (IF 1 > m THEN 0 ELSE m - 1 + 1) = m
        OBVIOUS
      <4>3. IsFiniteSet(1 .. m) /\ Cardinality(1 .. m) = m
        BY ONLY <4>2, FS_Interval
      <4> QED
        BY <4>1, <4>3
    <3>3. IsFiniteSet({a}) /\ Cardinality({a}) = 1
      BY FS_Singleton
    <3>4. IsFiniteSet(new) /\ Cardinality(new) = 1 * animation[a].phase
      BY <3>2, <3>3, FS_Product
    <3> QED
      BY <3>1, <3>4
  <2>4. \A b : b # a => ({b} \X (1 .. animation[b].phase)) \cap new = {}
    OBVIOUS
  <2>5. StepsOfDone(k - 1, n) \cap new = {}
    BY <1>2, <2>4 DEF StepsOfDone
  <2> HIDE DEF new
  <2>6. Cardinality(StepsOfDone(k - 1, n) \cup new)
          = Cardinality(StepsOfDone(k - 1, n)) + Cardinality(new)
    <3>1. Cardinality({}) = 0
      BY FS_EmptySet
    <3>2. PICK S : S = StepsOfDone(k - 1, n)
      OBVIOUS
    <3>3. IsFiniteSet(S) /\ Cardinality(S) \in Nat /\ S \cap new = {}
      BY <1>3, <2>5, <3>2
    <3>4. Cardinality(S \cup new) = Cardinality(S) + Cardinality(new) - Cardinality(S \cap new)
      BY ONLY <2>3, <3>3, FS_Union
    <3>5. Cardinality(new) \in Nat
      BY <2>3, FS_CardinalityType
    <3>6. Cardinality(S \cap new) = 0
      BY <3>1, <3>3, Zenon
    <3>7. Cardinality(S \cup new) = Cardinality(S) + Cardinality(new)
      BY ONLY <3>3, <3>4, <3>5, <3>6
    <3> QED
      BY ONLY <3>2, <3>7
  <2> QED
    BY <1>1, <1>2, <1>3, <1>5, <2>2, <2>3, <2>6
<1> QED
  BY <1>4, <1>5

\* The scene when the first k animations have had their turn.
Turned(s, k) ==
  /\ s \in SceneRecord /\ NoRepeats(s.container)
  /\ Elements(s.container) = {a \in Done(k) : s.animation[a].state # "Destroyed"}
  /\ \A a \in Animations :
       /\ a \notin Done(k) => s.animation[a] = animation[a]
       /\ s.animation[a].animator = "live" <=> animation[a].animator = "live"
       /\ s.animation[a].enabled = animation[a].enabled
       /\ a \in Done(k) /\ animation[a].state = "Playing" =>
            s.animation[a].state = "Playing" \/ s.finished
       /\ animation[a].state # "Playing" => /\ s.animation[a].state = animation[a].state
                                            /\ s.animation[a].phase = animation[a].phase
  /\ TakenBack(s.property)
  /\ (\A a \in Elements(animations) : animation[a].state # "Playing") =>
       \A n \in Nodes : /\ s.property[n].base = property[n].base
                        /\ s.property[n].value = property[n].value + Cardinality(StepsOfDone(k, n))

LEMMA TurnStep ==
  ASSUME FrameInv, JoinsOnce, Attended, NEW k \in 1 .. Len(animations), NEW s, Turned(s, k - 1),
         NEW p \in 0 .. 3
  PROVE  Turned(Animate(s, animations[k], p), k)
<1>0. /\ animations \in Seq(Animations) /\ NoRepeats(animations)
      /\ animation \in [Animations -> AnimationState] /\ property \in [Nodes -> Property]
  BY DEF FrameInv, FrameTypes, JoinsOnce
<1>1. PICK a \in Animations : a = animations[k]
  BY <1>0
<1>2. PICK t : t = Animate(s, a, p)
  OBVIOUS
<1>3. /\ Done(k) = Done(k - 1) \cup {a} /\ a \notin Done(k - 1)
      /\ \A n \in Nodes :
           /\ Cardinality(StepsOfDone(k, n)) \in Nat /\ Cardinality(StepsOfDone(k - 1, n)) \in Nat
           /\ a \in PausedOn(n) => Cardinality(StepsOfDone(k, n))
                = Cardinality(StepsOfDone(k - 1, n)) + animation[a].phase
           /\ a \notin PausedOn(n) => StepsOfDone(k, n) = StepsOfDone(k - 1, n)
  <2>1. \A n \in Nodes :
          /\ Cardinality(StepsOfDone(k, n)) \in Nat /\ Cardinality(StepsOfDone(k - 1, n)) \in Nat
          /\ a \in PausedOn(n) => Cardinality(StepsOfDone(k, n))
               = Cardinality(StepsOfDone(k - 1, n)) + animation[a].phase
          /\ a \notin PausedOn(n) => StepsOfDone(k, n) = StepsOfDone(k - 1, n)
    BY <1>0, <1>1, StepsGrow
  <2>2. Nodes # {}
    BY <1>1, UpdateAssumption
  <2>3. Done(k) = Done(k - 1) \cup {a} /\ a \notin Done(k - 1)
    BY <1>0, <1>1, <2>2, StepsGrow
  <2> QED
    BY <2>1, <2>3
<1>4. s \in SceneRecord /\ s.animation[a] = animation[a]
  BY <1>3 DEF Turned
<1>5. /\ t \in SceneRecord
      /\ t.container = IF t.animation[a].state = "Destroyed" THEN s.container
                                                             ELSE Append(s.container, a)
      /\ \A b \in Animations : b # a => t.animation[b] = s.animation[b]
      /\ \A n \in Nodes : n # Target[a] => t.property[n] = s.property[n]
      /\ t.animation[a].animator = "live" <=> animation[a].animator = "live"
      /\ t.animation[a].enabled = animation[a].enabled
      /\ ~(animation[a].animator = "live" /\ animation[a].enabled) => t.property = s.property
      /\ s.finished => t.finished
      /\ animation[a].state = "Playing" => t.animation[a].state = "Playing" \/ t.finished
      /\ animation[a].state # "Playing" => /\ t.animation[a].state = animation[a].state
                                           /\ t.animation[a].phase = animation[a].phase
      /\ animation[a].state \notin {"Playing", "Paused"} => t.property = s.property
      /\ animation[a].state = "Paused" =>
           /\ t.property[Target[a]].base = s.property[Target[a]].base
           /\ t.property[Target[a]].value = s.property[Target[a]].value + Adds(animation[a])
  <2>1. TurnEffect(s, t, a, animation[a])
    BY <1>2, <1>4, AnimateEffect
  <2> QED
    BY <2>1 DEF TurnEffect
<1>6. /\ NoRepeats(t.container)
      /\ Elements(t.container) = {b \in Done(k) : t.animation[b].state # "Destroyed"}
  <2>0. /\ s.container \in Seq(Animations) /\ NoRepeats(s.container)
        /\ Elements(s.container) = {b \in Done(k - 1) : s.animation[b].state # "Destroyed"}
    BY DEF Turned, SceneRecord
  <2>1. Done(k - 1) \subseteq Animations
    BY <1>0 DEF Done
  <2>2. {b \in Done(k - 1) : t.animation[b].state # "Destroyed"} = Elements(s.container)
    BY <1>3, <1>5, <2>0, <2>1
  <2>3. a \notin Elements(s.container)
    BY <1>3, <2>0
  <2>4. /\ Elements(Append(s.container, a)) = Elements(s.container) \cup {a}
        /\ NoRepeats(Append(s.container, a))
    BY <2>0, <2>3, AppendFacts
  <2>5. CASE t.animation[a].state = "Destroyed"
    BY <1>3, <1>5, <2>0, <2>2, <2>5
  <2>6. CASE t.animation[a].state # "Destroyed"
    BY <1>3, <1>5, <2>2, <2>4, <2>6
  <2> QED
    BY <2>5, <2>6
<1>7. ASSUME NEW b \in Animations
      PROVE  /\ b \notin Done(k) => t.animation[b] = animation[b]
             /\ t.animation[b].animator = "live" <=> animation[b].animator = "live"
             /\ t.animation[b].enabled = animation[b].enabled
             /\ b \in Done(k) /\ animation[b].state = "Playing" =>
                  t.animation[b].state = "Playing" \/ t.finished
             /\ animation[b].state # "Playing" => /\ t.animation[b].state = animation[b].state
                                                  /\ t.animation[b].phase = animation[b].phase
  <2>1. CASE b = a
    BY <1>3, <1>5, <2>1
  <2>2. CASE b # a
    BY <1>3, <1>5, <2>2 DEF Turned
  <2> QED
    BY <2>1, <2>2
<1>8. TakenBack(t.property)
  <2>1. TakenBack(s.property)
    BY DEF Turned
  <2>2. ASSUME NEW n \in Nodes \ Gone, t.property[n].value # t.property[n].base
        PROVE  n \in Reset
    <3>1. CASE t.property[n] = s.property[n]
      BY <2>1, <2>2, <3>1 DEF TakenBack
    <3>2. CASE t.property[n] # s.property[n]
      <4>1. n = Target[a] /\ animation[a].animator = "live" /\ animation[a].enabled
        BY <1>5, <3>2
      <4>2. a \in resetters /\ resetter[a].active = 2
        BY <4>1 DEF Attended
      <4> QED
        BY <4>1, <4>2 DEF Reset
    <3> QED
      BY <3>1, <3>2
  <2> QED
    BY <2>2 DEF TakenBack
<1>9. ASSUME \A b \in Elements(animations) : animation[b].state # "Playing", NEW n \in Nodes
      PROVE  /\ t.property[n].base = property[n].base
             /\ t.property[n].value = property[n].value + Cardinality(StepsOfDone(k, n))
  <2>1. /\ s.property[n].base = property[n].base
        /\ s.property[n].value = property[n].value + Cardinality(StepsOfDone(k - 1, n))
    BY <1>9 DEF Turned
  <2>2. animation[a].state # "Playing"
    BY <1>1, <1>9 DEF Elements
  <2>3. a \in PausedOn(n) <=> /\ Target[a] = n /\ animation[a].animator = "live"
                              /\ animation[a].state = "Paused" /\ animation[a].enabled
    BY DEF PausedOn, AnimatorsOf
  <2>4. CASE a \notin PausedOn(n)
    <3>1. t.property[n] = s.property[n]
      BY <1>5, <2>2, <2>3, <2>4
    <3> QED
      BY <1>3, <2>1, <2>4, <3>1
  <2>5. CASE a \in PausedOn(n)
    <3>1. /\ t.property[n].base = s.property[n].base
          /\ t.property[n].value = s.property[n].value + animation[a].phase
      BY <1>5, <2>3, <2>5 DEF Adds
    <3>2. animation[a].phase \in Nat
      <4>1. animation[a].phase \in 0 .. 2
        BY <1>0 DEF AnimationState
      <4> QED
        BY <4>1
    <3>3. property[n].value \in Int
      BY <1>0 DEF Property
    <3> QED
      BY <1>3, <2>1, <2>5, <3>1, <3>2, <3>3
  <2> QED
    BY <2>4, <2>5
<1>10. Turned(t, k)
  BY <1>5, <1>6, <1>7, <1>8, <1>9 DEF Turned
<1> QED
  BY <1>1, <1>2, <1>10

\* By the least turn after which it would not be so.
LEMMA AnimatedTurned ==
  ASSUME FrameInv, JoinsOnce, Attended, TakenBack(property), NEW to \in [Animations -> 0 .. 3]
  PROVE  Turned(Animated(to), Len(animations))
<1>1. animations \in Seq(Animations) /\ Len(animations) \in Nat
  BY DEF FrameInv, FrameTypes
<1>2. PICK f : StepsOf(f, to, Len(animations)) /\ Animated(to) = f[Len(animations)]
  <2> DEFINE e == CHOOSE f : StepsOf(f, to, Len(animations))
  <2>1. StepsOf(e, to, Len(animations))
    BY <1>1, StepsExist
  <2>2. Animated(to) = e[Len(animations)]
    BY DEF Animated, StepsOf
  <2> QED
    BY <2>1, <2>2
<1>3. PICK N \in Nat : N = Len(animations)
  BY <1>1
<1>4. Turned(Scene, 0)
  <2>1. Scene \in SceneRecord
    BY SceneIsSound DEF Sound
  <2>2. /\ Scene.property = property /\ Scene.animation = animation /\ Scene.container = << >>
        /\ property \in [Nodes -> Property]
    BY DEF Scene, FrameInv, FrameTypes
  <2>3. Done(0) = {}
    BY DEF Done
  <2>4. NoRepeats(<< >>) /\ Elements(<< >>) = {}
    BY DEF NoRepeats, Elements
  <2>5. \A n \in Nodes : StepsOfDone(0, n) = {} /\ property[n].value \in Int
    BY <2>2, <2>3 DEF StepsOfDone, Property
  <2>6. Cardinality({}) = 0
    BY FS_EmptySet
  <2>7. \A n \in Nodes : property[n].value = property[n].value + Cardinality(StepsOfDone(0, n))
    BY <2>5, <2>6
  <2> QED
    BY <2>1, <2>2, <2>3, <2>4, <2>7 DEF Turned
<1> DEFINE T == {k \in 0 .. N : ~Turned(f[k], k)}
<1>5. ASSUME T # {} PROVE FALSE
  <2>1. T \subseteq Nat
    OBVIOUS
  <2>2. PICK k \in T : \A i \in T : k <= i
    BY ONLY <1>5, <2>1, LeastExists
  <2>3. k \in 0 .. N /\ ~Turned(f[k], k)
    OBVIOUS
  <2>4. f[k] = IF k = 0 THEN Scene
               ELSE Animate(f[k - 1], animations[k], to[animations[k]])
    BY <1>2, <1>3, <2>3 DEF StepsOf
  <2>5. k # 0
    BY <1>4, <2>3, <2>4
  <2>6. k - 1 \in 0 .. N /\ k - 1 \notin T
    BY <2>2, <2>3, <2>5
  <2>7. Turned(f[k - 1], k - 1)
    BY <2>6
  <2>8. k \in 1 .. Len(animations) /\ to[animations[k]] \in 0 .. 3
    BY <1>1, <1>3, <2>3, <2>5
  <2>9. Turned(Animate(f[k - 1], animations[k], to[animations[k]]), k)
    BY ONLY FrameInv, JoinsOnce, Attended, <2>7, <2>8, TurnStep
  <2> QED
    BY <2>3, <2>4, <2>5, <2>9
<1> QED
  BY <1>1, <1>2, <1>3, <1>5

-----------------------------------------------------------------------------
(* The steps: an animation joins once.                                       *)

LEMMA LettersSent ==
  ASSUME NEW s \in Seq(Letters), NEW m \in Letters
  PROVE  LET t == Append(s, m)
         IN  /\ \A a : NotAdded(t, a) <=> NotAdded(s, a) /\ ~(m.op = "Add" /\ m.on = a)
             /\ SentOnce(s) /\ (m.op = "Add" => NotAdded(s, m.on)) => SentOnce(t)
<1> DEFINE t == Append(s, m)
<1>1. /\ Len(t) = Len(s) + 1 /\ Len(s) \in Nat /\ t[Len(s) + 1] = m
      /\ \A i \in 1 .. Len(s) : t[i] = s[i]
  BY AppendProperties
<1> HIDE DEF t
<1>2. \A i \in 1 .. Len(t) : i \in 1 .. Len(s) \/ i = Len(s) + 1
  BY <1>1
<1>3. Len(s) + 1 \in 1 .. Len(t) /\ \A i \in 1 .. Len(s) : i \in 1 .. Len(t)
  BY <1>1
<1>4. ASSUME NEW a
      PROVE  NotAdded(t, a) <=> NotAdded(s, a) /\ ~(m.op = "Add" /\ m.on = a)
  <2>1. NotAdded(t, a) => NotAdded(s, a) /\ ~(m.op = "Add" /\ m.on = a)
    BY <1>1, <1>3 DEF NotAdded
  <2>2. NotAdded(s, a) /\ ~(m.op = "Add" /\ m.on = a) => NotAdded(t, a)
    BY <1>1, <1>2 DEF NotAdded
  <2> QED
    BY <2>1, <2>2
<1>5. ASSUME SentOnce(s), m.op = "Add" => NotAdded(s, m.on)
      PROVE  SentOnce(t)
  <2> SUFFICES ASSUME NEW i \in 1 .. Len(t), NEW j \in 1 .. Len(t),
                      t[i].op = "Add", t[j].op = "Add", t[i].on = t[j].on
               PROVE  i = j
    BY DEF SentOnce
  <2>1. CASE i \in 1 .. Len(s) /\ j \in 1 .. Len(s)
    BY <1>1, <1>5, <2>1 DEF SentOnce
  <2>2. CASE i \in 1 .. Len(s) /\ j = Len(s) + 1
    BY <1>1, <1>5, <2>2 DEF NotAdded
  <2>3. CASE j \in 1 .. Len(s) /\ i = Len(s) + 1
    BY <1>1, <1>5, <2>3 DEF NotAdded
  <2> QED
    BY <1>2, <2>1, <2>2, <2>3
<1> QED
  BY <1>4, <1>5 DEF t

LEMMA LettersHandled ==
  ASSUME NEW s \in Seq(Letters), s # << >>
  PROVE  /\ \A a : NotAdded(s, a) => NotAdded(Tail(s), a) /\ ~(Head(s).op = "Add" /\ Head(s).on = a)
         /\ SentOnce(s) => SentOnce(Tail(s))
         /\ SentOnce(s) /\ Head(s).op = "Add" => NotAdded(Tail(s), Head(s).on)
         /\ \A i \in 1 .. Len(Tail(s)) : i + 1 \in 1 .. Len(s) /\ Tail(s)[i] = s[i + 1]
         /\ 1 \in 1 .. Len(s) /\ s[1] = Head(s)
<1> DEFINE t == Tail(s)
<1>1. /\ \A i \in 1 .. Len(t) : i + 1 \in 1 .. Len(s) /\ t[i] = s[i + 1]
      /\ 1 \in 1 .. Len(s) /\ s[1] = Head(s) /\ Len(t) \in Nat
  <2>1. t \in Seq(Letters)
    BY TailKeepsEnds
  <2> QED
    BY <2>1, TailKeepsEnds
<1> HIDE DEF t
<1>2. \A a : NotAdded(s, a) => NotAdded(t, a) /\ ~(Head(s).op = "Add" /\ Head(s).on = a)
  BY <1>1 DEF NotAdded
<1>3. SentOnce(s) => SentOnce(t)
  <2> SUFFICES ASSUME SentOnce(s), NEW i \in 1 .. Len(t), NEW j \in 1 .. Len(t),
                      t[i].op = "Add", t[j].op = "Add", t[i].on = t[j].on
               PROVE  i = j
    BY DEF SentOnce
  <2>1. i + 1 = j + 1
    BY <1>1 DEF SentOnce
  <2> QED
    BY <1>1, <2>1
<1>4. ASSUME SentOnce(s), Head(s).op = "Add"
      PROVE  NotAdded(t, Head(s).on)
  <2> SUFFICES ASSUME NEW i \in 1 .. Len(t), t[i].op = "Add", t[i].on = Head(s).on
               PROVE  FALSE
    BY DEF NotAdded
  <2>1. i + 1 = 1
    BY <1>1, <1>4 DEF SentOnce
  <2> QED
    BY <1>1, <2>1
<1> QED
  BY <1>1, <1>2, <1>3, <1>4 DEF t

\* What JoinsOnce says of one state, in terms of the values of the variables.
Joins(h, mine, live, in, q) ==
  /\ h \in [Animations -> Handles] /\ NoRepeats(mine)
  /\ \A a \in Animations : live[a].animator = "live" => a \in Elements(mine)
  /\ \A a \in Animations : h[a] = "none" => a \notin Elements(mine)
  /\ \A a \in Animations : h[a] = "none" \/ a \in Elements(mine) =>
       NotAdded(in, a) /\ NotAdded(q, a)
  /\ SentOnce(in) /\ SentOnce(q)
  /\ \A i \in 1 .. Len(in) : in[i].op = "Add" => NotAdded(q, in[i].on)

LEMMA JoinsMeans ==
  /\ JoinsOnce <=> Joins(handle, animations, animation, messages, queue)
  /\ Joins(handle', animations', animation', messages', queue') => JoinsOnce'
<1>1. JoinsOnce <=> Joins(handle, animations, animation, messages, queue)
  BY DEF JoinsOnce, Joins
<1>2. Joins(handle', animations', animation', messages', queue') => JoinsOnce'
  BY DEF JoinsOnce, Joins, NotAdded, SentOnce
<1> QED
  BY <1>1, <1>2

\* A letter that adds an animation is the first about it.
LEMMA JoinsSend ==
  ASSUME NEW h, NEW mine, NEW live, NEW in, NEW q \in Seq(Letters), Joins(h, mine, live, in, q),
         NEW m \in Letters, NEW g \in [Animations -> Handles],
         \A a \in Animations : g[a] = "none" => h[a] = "none",
         m.op = "Add" => m.on \in Animations /\ h[m.on] = "none" /\ g[m.on] # "none"
  PROVE  Joins(g, mine, live, in, Append(q, m))
<1>1. /\ \A a : NotAdded(Append(q, m), a) <=> NotAdded(q, a) /\ ~(m.op = "Add" /\ m.on = a)
      /\ SentOnce(q) /\ (m.op = "Add" => NotAdded(q, m.on)) => SentOnce(Append(q, m))
  BY LettersSent
<1>2. m.op = "Add" => NotAdded(q, m.on) /\ NotAdded(in, m.on) /\ m.on \notin Elements(mine)
  BY DEF Joins
<1>3. \A a \in Animations : g[a] = "none" \/ a \in Elements(mine) =>
        NotAdded(in, a) /\ NotAdded(Append(q, m), a)
  BY <1>1, <1>2 DEF Joins
<1>4. \A i \in 1 .. Len(in) : in[i].op = "Add" => NotAdded(Append(q, m), in[i].on)
  BY <1>1, <1>2 DEF Joins, NotAdded
<1> QED
  BY <1>1, <1>2, <1>3, <1>4 DEF Joins

\* A letter that is handled, and adds its animation or none.
LEMMA JoinsHandle ==
  ASSUME NEW h, NEW mine \in Seq(Animations), NEW live, NEW in \in Seq(Letters), NEW q,
         Joins(h, mine, live, in, q), in # << >>, NEW new,
         \A a \in Animations : new[a].animator = "live" =>
           live[a].animator = "live" \/ (Head(in).op = "Add" /\ a = Head(in).on),
         NEW list,
         list = IF Head(in).op = "Add" THEN Append(mine, Head(in).on) ELSE mine,
         Head(in).op = "Add" => Head(in).on \in Animations
  PROVE  Joins(h, list, new, Tail(in), q)
<1>1. /\ \A a : NotAdded(in, a) => NotAdded(Tail(in), a) /\ ~(Head(in).op = "Add" /\ Head(in).on = a)
      /\ SentOnce(Tail(in))
      /\ Head(in).op = "Add" => NotAdded(Tail(in), Head(in).on) /\ NotAdded(q, Head(in).on)
      /\ \A i \in 1 .. Len(Tail(in)) : Tail(in)[i].op = "Add" => NotAdded(q, Tail(in)[i].on)
  BY LettersHandled DEF Joins
<1>2. Head(in).op = "Add" =>
        /\ h[Head(in).on] # "none" /\ Head(in).on \notin Elements(mine)
        /\ Elements(list) = Elements(mine) \cup {Head(in).on} /\ NoRepeats(list)
  BY <1>1, AppendFacts DEF Joins
<1>3. CASE Head(in).op = "Add"
  BY <1>1, <1>2, <1>3 DEF Joins
<1>4. CASE Head(in).op # "Add"
  BY <1>1, <1>4 DEF Joins
<1> QED
  BY <1>3, <1>4

-----------------------------------------------------------------------------
(* The steps: the handlers.                                                  *)

\* A handler leaves a value alone, or at its base, and a resetter at work as
\* long as it has a node.
LEMMA HandlerRest ==
  ASSUME FrameInv, RestInv, NEW op, Handle(op), Gone \subseteq Gone',
         \A n \in Nodes \ Gone' :
           \/ property'[n].value = property[n].value /\ property'[n].base = property[n].base
           \/ property'[n].value = property'[n].base,
         resetters \subseteq resetters', resetters' \subseteq Animations,
         resetter' \in [Animations -> Resetter],
         \A a \in resetters : Target[a] \notin Gone' /\ resetter[a].active > 0 =>
           resetter'[a].active > 0,
         \A a \in Animations : animation'[a].animator = "live" =>
           /\ a \in resetters' /\ resetter'[a].running = 2
           /\ animation'[a].enabled => resetter'[a].active = 2 /\ ~resetter'[a].disconnected,
         \A a \in Animations : animation'[a].animator = "live" =>
           animation[a].animator = "live" \/ (op = "Add" /\ a = Subject),
         animations' = IF op = "Add" THEN Append(animations, Subject) ELSE animations
  PROVE  RestInv'
<1>1. /\ pc = "messages" /\ pc' = pc /\ updateScene /\ updateScene' = updateScene
      /\ messages # << >> /\ Head(messages).op = op /\ messages' = Tail(messages)
      /\ messages \in Seq(Letters) /\ animations \in Seq(Animations)
      /\ UNCHANGED <<announcing, requested, queue, handle, previousUpdateScene>>
  BY HandleFacts DEF Handle, FrameInv, FrameTypes, eventVars, frameVars
<1>2. JoinsOnce'
  <2>1. op = "Add" => Subject \in Animations
    BY SubjectFacts
  <2>2. Joins(handle, animations, animation, messages, queue)
    BY JoinsMeans DEF RestInv
  <2>3. Joins(handle, animations', animation', Tail(messages), queue)
    BY <1>1, <2>1, <2>2, JoinsHandle DEF Subject
  <2> QED
    BY <1>1, <2>3, JoinsMeans
<1>3. Attended'
  BY DEF Attended
<1>4. \A n \in Nodes \ Gone' : property'[n].value # property'[n].base => n \in Reset'
  <2> SUFFICES ASSUME NEW n \in Nodes \ Gone', property'[n].value # property'[n].base
               PROVE  n \in Reset'
    OBVIOUS
  <2>1. n \in Reset
    BY DEF RestInv, TakenBack
  <2>2. PICK a \in resetters : resetter[a].active > 0 /\ Target[a] = n
    BY <2>1 DEF Reset
  <2> QED
    BY <2>2 DEF Reset
<1>5. TakenBack(property)'
  BY <1>4 DEF TakenBack
<1>6. AtBase => AtBase'
  BY DEF AtBase
<1>7. Asking' /\ StartsAtBase' /\ NothingRuns' /\ RestsOrGoesOn'
  BY <1>1, <1>6 DEF RestInv, Asking, Asked, StartsAtBase, NothingRuns, RestsOrGoesOn
<1> QED
  BY <1>2, <1>3, <1>5, <1>7 DEF RestInv

\* What is known of the resetters before a handler runs.
LEMMA BeforeReset ==
  RestInv => /\ resetters \subseteq Animations /\ resetter \in [Animations -> Resetter]
             /\ \A a \in Animations : animation[a].animator = "live" =>
                  /\ a \in resetters /\ resetter[a].running = 2
                  /\ animation[a].enabled => resetter[a].active = 2 /\ ~resetter[a].disconnected
  BY DEF RestInv, Attended

LEMMA ConnectRest == ASSUME FrameInv, RestInv, ConnectNode PROVE RestInv'
<1>1. PICK n \in Nodes \ Gone : n = Subject
  BY SubjectFacts DEF ConnectNode
<1>2. /\ Handle("Connect") /\ node' = [node EXCEPT ![n] = "on"]
      /\ property' = [property EXCEPT ![n].dirty = 2]
      /\ resetter' = [a \in Animations |-> IF a \in ResettersOf(n)
                        THEN [resetter[a] EXCEPT !.active = 2, !.disconnected = FALSE]
                        ELSE resetter[a]]
      /\ animation' = [a \in Animations |-> [animation[a] EXCEPT
                        !.enabled = @ \/ a \in AnimatorsOf(n)]]
      /\ resetters' = resetters /\ animations' = animations
  BY <1>1 DEF ConnectNode
<1>3. Gone' = Gone
  BY <1>1, <1>2, BeforeHandler DEF Gone, Lives
<1>4. \A k \in Nodes : property'[k].value = property[k].value /\ property'[k].base = property[k].base
  <2>1. property \in [Nodes -> Property] /\ n \in Nodes
    BY <1>1, BeforeHandler
  <2> QED
    BY ONLY <1>2, <2>1 DEF Property
<1>5. ASSUME NEW a \in Animations
      PROVE  /\ animation'[a].animator = animation[a].animator
             /\ animation'[a].enabled <=> animation[a].enabled \/ a \in AnimatorsOf(n)
  BY <1>2, BeforeHandler DEF AnimationState
<1>6. ASSUME NEW a \in Animations
      PROVE  /\ resetter'[a] \in Resetter /\ resetter'[a].running = resetter[a].running
             /\ a \in ResettersOf(n) => resetter'[a].active = 2 /\ ~resetter'[a].disconnected
             /\ a \notin ResettersOf(n) => resetter'[a] = resetter[a]
  <2>1. resetter[a] \in Resetter
    BY BeforeReset
  <2>2. resetter'[a] = IF a \in ResettersOf(n)
                       THEN [resetter[a] EXCEPT !.active = 2, !.disconnected = FALSE]
                       ELSE resetter[a]
    BY <1>2
  <2> HIDE DEF ResettersOf
  <2>3. CASE a \in ResettersOf(n)
    <3> DEFINE no == FALSE
               two == 2
    <3>1. no \in BOOLEAN /\ ~no /\ two \in 0 .. 2 /\ two = 2
      OBVIOUS
    <3>2. resetter'[a] = [resetter[a] EXCEPT !.active = two, !.disconnected = no]
      BY <2>2, <2>3
    <3> HIDE DEF no, two
    <3> QED
      BY <2>1, <2>3, <3>1, <3>2 DEF Resetter
  <2>4. CASE a \notin ResettersOf(n)
    BY <2>1, <2>2, <2>4
  <2> QED
    BY <2>3, <2>4
<1>7. resetter' \in [Animations -> Resetter]
  BY <1>2, <1>6
<1>8. \A a \in Animations : animation'[a].animator = "live" =>
        /\ a \in resetters' /\ resetter'[a].running = 2
        /\ animation'[a].enabled => resetter'[a].active = 2 /\ ~resetter'[a].disconnected
  <2>1. \A a \in Animations : animation[a].animator = "live" /\ a \in AnimatorsOf(n) =>
          a \in ResettersOf(n)
    BY BeforeReset DEF AnimatorsOf, ResettersOf
  <2> QED
    BY <1>2, <1>5, <1>6, <2>1, BeforeReset
<1>9. \A a \in resetters : resetter[a].active > 0 => resetter'[a].active > 0
  BY <1>6, BeforeReset
<1> QED
  BY <1>2, <1>3, <1>4, <1>5, <1>7, <1>8, <1>9, BeforeReset, HandlerRest

LEMMA DisconnectRest == ASSUME FrameInv, RestInv, DisconnectNode PROVE RestInv'
<1> DEFINE n == Subject
           baked == IF DisconnectAction = "DISCARD" THEN {}
                    ELSE {a \in AnimatorsOf(n) : animation[a].playing}
           v == property[n].value + 2 * Cardinality(baked)
<1>1. Handle("Disconnect") /\ n \in Nodes \ Gone
  BY SubjectFacts DEF DisconnectNode
<1>2. /\ node' = [node EXCEPT ![n] = "off"]
      /\ property' = [property EXCEPT ![n] = IF baked = {} THEN @ ELSE BakeValue(@, v)]
      /\ resetter' = [a \in Animations |-> [resetter[a] EXCEPT
                       !.disconnected = @ \/ a \in ResettersOf(n)]]
      /\ animation' = [a \in Animations |-> [animation[a] EXCEPT
                       !.enabled = @ /\ a \notin AnimatorsOf(n)]]
      /\ resetters' = resetters /\ animations' = animations
  BY DEF DisconnectNode
<1>3. v \in Int
  <2>1. baked \subseteq Animations /\ IsFiniteSet(Animations)
    BY UpdateAssumption DEF AnimatorsOf
  <2>2. Cardinality(baked) \in Nat
    BY <2>1, FS_Subset, FS_CardinalityType
  <2>3. property[n].value \in Int
    BY <1>1, BeforeHandler DEF Property
  <2> QED
    BY <2>2, <2>3
<1> HIDE DEF n, baked, v
<1>4. Gone' = Gone
  BY <1>1, <1>2, BeforeHandler DEF Gone, Lives
<1>5. /\ \A k \in Nodes : k # n => property'[k] = property[k]
      /\ property'[n] = property[n] \/ property'[n].value = property'[n].base
  <2>1. property \in [Nodes -> Property] /\ n \in Nodes
    BY <1>1, BeforeHandler
  <2>2. BakeValue(property[n], v).value = BakeValue(property[n], v).base
    BY <1>3, <2>1, ValueFacts
  <2> QED
    BY ONLY <1>2, <2>1, <2>2
<1>6. ASSUME NEW a \in Animations
      PROVE  /\ animation'[a].animator = animation[a].animator
             /\ animation'[a].enabled <=> animation[a].enabled /\ a \notin AnimatorsOf(n)
  BY <1>2, BeforeHandler DEF AnimationState
<1>7. ASSUME NEW a \in Animations
      PROVE  /\ resetter'[a] \in Resetter /\ resetter'[a].running = resetter[a].running
             /\ resetter'[a].active = resetter[a].active
             /\ resetter'[a].disconnected <=> resetter[a].disconnected \/ a \in ResettersOf(n)
  <2> DEFINE d == resetter[a].disconnected \/ a \in ResettersOf(n)
  <2>1. resetter[a] \in Resetter
    BY BeforeReset
  <2>2. resetter'[a] = [resetter[a] EXCEPT !.disconnected = d] /\ d \in BOOLEAN
    BY <1>2, <2>1 DEF Resetter
  <2>3. d <=> resetter[a].disconnected \/ a \in ResettersOf(n)
    OBVIOUS
  <2> HIDE DEF d
  <2> QED
    BY <2>1, <2>2, <2>3 DEF Resetter
<1>8. resetter' \in [Animations -> Resetter]
  BY <1>2, <1>7
<1>9. \A a \in Animations : animation'[a].animator = "live" =>
        /\ a \in resetters' /\ resetter'[a].running = 2
        /\ animation'[a].enabled => resetter'[a].active = 2 /\ ~resetter'[a].disconnected
  <2>1. \A a \in Animations : animation[a].animator = "live" /\ a \in ResettersOf(n) =>
          a \in AnimatorsOf(n)
    BY DEF AnimatorsOf, ResettersOf
  <2> QED
    BY <1>2, <1>6, <1>7, <2>1, BeforeReset
<1>10. \A a \in resetters : resetter[a].active > 0 => resetter'[a].active > 0
  BY <1>7, BeforeReset
<1> QED
  BY <1>1, <1>2, <1>4, <1>5, <1>6, <1>8, <1>9, <1>10, BeforeReset, HandlerRest

LEMMA DestroyRest == ASSUME FrameInv, RestInv, DestroyNode PROVE RestInv'
<1>1. PICK n \in Nodes : n = Subject
  BY SubjectFacts DEF DestroyNode
<1>2. /\ Handle("Destroy") /\ node' = [node EXCEPT ![n] = "gone"]
      /\ resetter' = [a \in Animations |-> IF a \in ResettersOf(n)
                        THEN [running |-> 0, active |-> 0, disconnected |-> TRUE]
                        ELSE resetter[a]]
      /\ animation' = [a \in Animations |-> [animation[a] EXCEPT
                        !.animator = IF a \in AnimatorsOf(n) THEN "orphan" ELSE @]]
      /\ property' = property /\ resetters' = resetters /\ animations' = animations
  BY <1>1 DEF DestroyNode
<1>3. Gone' = Gone \cup {n}
  BY <1>1, <1>2, BeforeHandler DEF Gone, Lives
<1>4. ASSUME NEW a \in Animations
      PROVE  /\ animation'[a].animator = "live" =>
                  animation[a].animator = "live" /\ a \notin AnimatorsOf(n)
             /\ animation'[a].enabled = animation[a].enabled
  BY <1>2, BeforeHandler DEF AnimationState
<1>5. ASSUME NEW a \in Animations
      PROVE  /\ resetter'[a] \in Resetter
             /\ a \notin ResettersOf(n) => resetter'[a] = resetter[a]
  <2>1. [running |-> 0, active |-> 0, disconnected |-> TRUE] \in Resetter
    BY DEF Resetter
  <2> QED
    BY <1>2, <2>1, BeforeReset
<1>6. resetter' \in [Animations -> Resetter]
  BY <1>2, <1>5
<1>7. \A a \in Animations : animation'[a].animator = "live" =>
        /\ a \in resetters' /\ resetter'[a].running = 2
        /\ animation'[a].enabled => resetter'[a].active = 2 /\ ~resetter'[a].disconnected
  <2>1. \A a \in Animations : animation[a].animator = "live" /\ a \notin AnimatorsOf(n) =>
          a \notin ResettersOf(n)
    BY DEF AnimatorsOf, ResettersOf
  <2> QED
    BY <1>2, <1>4, <1>5, <2>1, BeforeReset
<1>8. \A a \in resetters : Target[a] \notin Gone' /\ resetter[a].active > 0 =>
        resetter'[a].active > 0
  BY <1>3, <1>5, BeforeReset DEF ResettersOf
<1> QED
  BY <1>2, <1>3, <1>4, <1>6, <1>7, <1>8, BeforeReset, HandlerRest

LEMMA BakeRest == ASSUME FrameInv, RestInv, BakeColour PROVE RestInv'
<1>1. PICK n \in Nodes, c \in Int : n = Subject /\ c = Head(messages).colour
  BY SubjectFacts DEF BakeColour
<1>2. /\ Handle("Bake") /\ property' = [property EXCEPT ![n] = BakeValue(@, c)]
      /\ UNCHANGED <<resetters, resetter, node, animations, animation>>
  BY <1>1 DEF BakeColour
<1>3. /\ \A k \in Nodes : k # n => property'[k] = property[k]
      /\ property'[n].value = property'[n].base
  <2>1. property \in [Nodes -> Property]
    BY BeforeHandler
  <2>2. BakeValue(property[n], c).value = BakeValue(property[n], c).base
    BY <2>1, ValueFacts
  <2> QED
    BY ONLY <1>2, <2>1, <2>2
<1>4. Gone' = Gone
  BY <1>2 DEF Gone
<1> QED
  BY <1>2, <1>3, <1>4, BeforeReset, HandlerRest

LEMMA AddRest == ASSUME FrameInv, RestInv, AddAnimation PROVE RestInv'
<1>1. PICK a \in Animations : a = Subject
  BY SubjectFacts DEF AddAnimation
<1> DEFINE x == [NoAnimator EXCEPT !.animator = "live", !.enabled = node[Target[a]] = "on"]
<1>2. /\ Handle("Add") /\ animations' = Append(animations, a)
      /\ animation' = [animation EXCEPT ![a] = x]
      /\ resetters' = resetters \cup {a} /\ resetter' = [resetter EXCEPT ![a] = NewResetter]
      /\ UNCHANGED <<node, property>>
  BY <1>1 DEF AddAnimation
<1> HIDE DEF x
<1>3. /\ NewResetter \in Resetter /\ NewResetter.running = 2 /\ NewResetter.active = 2
      /\ ~NewResetter.disconnected
  BY DEF NewResetter, Resetter
<1>4. /\ resetter' \in [Animations -> Resetter] /\ resetter'[a] = NewResetter
      /\ \A b \in Animations : b # a => resetter'[b] = resetter[b] /\ animation'[b] = animation[b]
  BY <1>2, <1>3, BeforeHandler, BeforeReset
<1>5. Gone' = Gone
  BY <1>2 DEF Gone
<1>6. \A b \in Animations : animation'[b].animator = "live" =>
        /\ b \in resetters' /\ resetter'[b].running = 2
        /\ animation'[b].enabled => resetter'[b].active = 2 /\ ~resetter'[b].disconnected
  BY <1>2, <1>3, <1>4, BeforeReset
<1>7. \A b \in resetters : resetter[b].active > 0 => resetter'[b].active > 0
  BY <1>3, <1>4, BeforeReset
<1>8. \A b \in Animations : animation'[b].animator = "live" =>
        animation[b].animator = "live" \/ ("Add" = "Add" /\ b = Subject)
  BY <1>1, <1>4
<1> QED
  BY <1>1, <1>2, <1>4, <1>5, <1>6, <1>7, <1>8, BeforeReset, HandlerRest

\* The letters about an animation change its property, if any, and its resetter
\* only when its animator has gone.
LEMMA AnimationLetterRest ==
  ASSUME FrameInv, RestInv, NEW op, HandleAnimation(op), op # "Add", NEW a \in Animations,
         \A b \in Animations : b # a => animation'[b] = animation[b],
         animation'[a].animator = "live" =>
           animation[a].animator = "live" /\ animation'[a].enabled = animation[a].enabled,
         \A n \in Nodes : n # Target[a] => property'[n] = property[n],
         property' = property \/ property'[Target[a]].value = property'[Target[a]].base,
         resetter' = resetter \/ (AnimatorsDestroyed({a}) /\ animation'[a].animator # "live")
  PROVE  RestInv'
<1>1. Handle(op) /\ UNCHANGED <<resetters, node, animations>>
  BY DEF HandleAnimation
<1>2. Gone' = Gone
  BY <1>1 DEF Gone
<1>3. /\ resetter' \in [Animations -> Resetter]
      /\ \A b \in Animations : /\ resetter'[b].active = resetter[b].active
                               /\ resetter'[b] = resetter[b] \/ animation'[b].animator # "live"
  <2>1. CASE resetter' = resetter
    BY <2>1, BeforeReset
  <2>2. CASE AnimatorsDestroyed({a}) /\ animation'[a].animator # "live"
    <3>1. resetter' = [b \in Animations |-> IF b \in {a} /\ animation[b].animator = "live"
                                            THEN [resetter[b] EXCEPT !.running = @ - 1]
                                            ELSE resetter[b]]
      BY <2>2 DEF AnimatorsDestroyed
    <3>2. ASSUME NEW b \in Animations
          PROVE  /\ resetter'[b] \in Resetter /\ resetter'[b].active = resetter[b].active
                 /\ resetter'[b] = resetter[b] \/ animation'[b].animator # "live"
      <4>1. resetter[b] \in Resetter
            /\ (animation[b].animator = "live" => resetter[b].running = 2)
        BY BeforeReset
      <4>2. CASE b = a /\ animation[b].animator = "live"
        <5>1. resetter'[b] = [resetter[b] EXCEPT !.running = 1]
          BY <3>1, <4>1, <4>2
        <5> QED
          BY <2>2, <4>1, <4>2, <5>1 DEF Resetter
      <4>3. CASE ~(b = a /\ animation[b].animator = "live")
        BY <3>1, <4>1, <4>3
      <4> QED
        BY <4>2, <4>3
    <3> QED
      BY <3>1, <3>2
  <2> QED
    BY <2>1, <2>2
<1>4. \A b \in Animations : animation'[b].animator = "live" =>
        animation[b].animator = "live" /\ animation'[b].enabled = animation[b].enabled
  OBVIOUS
<1>5. \A b \in Animations : animation'[b].animator = "live" =>
        /\ b \in resetters' /\ resetter'[b].running = 2
        /\ animation'[b].enabled => resetter'[b].active = 2 /\ ~resetter'[b].disconnected
  BY <1>1, <1>3, <1>4, BeforeReset
<1>6. \A n \in Nodes : \/ property'[n] = property[n] \/ property'[n].value = property'[n].base
  OBVIOUS
<1>7. \A n \in Nodes :
        \/ property'[n].value = property[n].value /\ property'[n].base = property[n].base
        \/ property'[n].value = property'[n].base
  BY <1>6
<1>8. \A b \in resetters : resetter[b].active > 0 => resetter'[b].active > 0
  BY <1>3, BeforeReset
<1> HIDE DEF AnimatorsDestroyed
<1> QED
  BY <1>1, <1>2, <1>3, <1>4, <1>5, <1>7, <1>8, BeforeReset, HandlerRest

LEMMA AnimationLettersRest ==
  ASSUME FrameInv, RestInv, Play \/ Pause \/ Stop \/ Clear \/ RemoveAnimation
  PROVE  RestInv'
<1> DEFINE a == Subject
<1>0. /\ Scene \in SceneRecord /\ Scene.property = property /\ Scene.animation = animation
      /\ animation \in [Animations -> AnimationState]
  BY SceneIsSound, BeforeHandler DEF Sound, Scene
<1>a. ASSUME NEW op \in {"Play", "Pause", "Stop", "Clear", "Remove"}, HandleAnimation(op)
      PROVE  a \in Animations
  BY <1>a, SubjectFacts DEF HandleAnimation
\* An animation that was ended, and then changed once more.
<1>b. ASSUME NEW t, Only1(Scene, t, a), a \in Animations,
             t.property = property \/ t.property[Target[a]].value = t.property[Target[a]].base,
             NEW x \in AnimationState, x.enabled = t.animation[a].enabled,
             x.animator \in {t.animation[a].animator, "none"},
             property' = t.property, animation' = [t.animation EXCEPT ![a] = x]
      PROVE  /\ \A b \in Animations : b # a => animation'[b] = animation[b]
             /\ animation'[a].animator = "live" =>
                  animation[a].animator = "live" /\ animation'[a].enabled = animation[a].enabled
             /\ \A n \in Nodes : n # Target[a] => property'[n] = property[n]
             /\ property' = property \/ property'[Target[a]].value = property'[Target[a]].base
             /\ animation'[a] = x
  <2>1. t.animation \in [Animations -> AnimationState]
    BY <1>b DEF Only1, SceneRecord
  <2>2. animation'[a] = x /\ \A b \in Animations : b # a => animation'[b] = t.animation[b]
    BY <1>b, <2>1
  <2> HIDE DEF a
  <2> QED
    BY <1>0, <1>b, <2>2 DEF Only1
<1>1. CASE Play
  <2>1. HandleAnimation("Play") /\ a \in Animations
    BY <1>1, <1>a DEF Play
  <2>2. /\ animation' = [animation EXCEPT ![a].state = "Playing", ![a].playing = TRUE]
        /\ property' = property /\ resetter' = resetter
    BY <1>1 DEF Play
  <2> HIDE DEF a
  <2>3. /\ \A b \in Animations : b # a => animation'[b] = animation[b]
        /\ animation'[a].animator = animation[a].animator
        /\ animation'[a].enabled = animation[a].enabled
    BY <1>0, <2>1, <2>2 DEF AnimationState
  <2> QED
    BY <2>1, <2>2, <2>3, AnimationLetterRest
<1>2. CASE Pause
  <2>1. HandleAnimation("Pause") /\ a \in Animations
    BY <1>2, <1>a DEF Pause
  <2>2. /\ animation' = [animation EXCEPT ![a].state = IF @ = "Playing" THEN "Paused" ELSE @]
        /\ property' = property /\ resetter' = resetter
    BY <1>2 DEF Pause
  <2> HIDE DEF a
  <2>3. /\ \A b \in Animations : b # a => animation'[b] = animation[b]
        /\ animation'[a].animator = animation[a].animator
        /\ animation'[a].enabled = animation[a].enabled
    BY <1>0, <2>1, <2>2 DEF AnimationState
  <2> QED
    BY <2>1, <2>2, <2>3, AnimationLetterRest
<1>3. CASE Stop
  <2>1. HandleAnimation("Stop") /\ a \in Animations
    BY <1>3, <1>a DEF Stop
  <2> DEFINE t == StopAnimation(Scene, a)
  <2>2. property' = t.property /\ animation' = t.animation /\ resetter' = resetter
    BY <1>3 DEF Stop, Becomes
  <2>3. /\ Only1(Scene, t, a)
        /\ t.property = property \/ t.property[Target[a]].value = t.property[Target[a]].base
    BY <1>0, <2>1, StopEffect
  <2> HIDE DEF t, a
  <2>4. t.animation[a] \in AnimationState /\ animation' = [t.animation EXCEPT ![a] = t.animation[a]]
    BY <2>1, <2>2, <2>3 DEF Only1, SceneRecord
  <2> QED
    BY <1>b, <2>1, <2>2, <2>3, <2>4, AnimationLetterRest
<1>4. CASE Clear
  <2>1. HandleAnimation("Clear") /\ a \in Animations
    BY <1>4, <1>a DEF Clear
  <2> DEFINE t == StopAnimation(Scene, a)
             s == [t EXCEPT !.animation[a].animator = "none"]
             x == [t.animation[a] EXCEPT !.animator = "none"]
  <2>2. property' = s.property /\ animation' = s.animation /\ AnimatorsDestroyed({a})
    BY <1>4 DEF Clear, Becomes
  <2>3. /\ Only1(Scene, t, a)
        /\ t.property = property \/ t.property[Target[a]].value = t.property[Target[a]].base
    BY <1>0, <2>1, StopEffect
  <2> HIDE DEF t, a
  <2>4. t \in SceneRecord /\ t.animation[a] \in AnimationState
    BY <2>1, <2>3 DEF Only1, SceneRecord
  <2>5. x \in AnimationState /\ x.animator = "none" /\ x.enabled = t.animation[a].enabled
    BY <2>4 DEF AnimationState
  <2>6. s.property = t.property /\ s.animation = [t.animation EXCEPT ![a] = x]
    BY <2>1, <2>4 DEF SceneRecord, AnimationState
  <2> HIDE DEF s, x
  <2>7. animation'[a] = x
    BY <1>b, <2>1, <2>2, <2>3, <2>5, <2>6
  <2> QED
    BY <1>b, <2>1, <2>2, <2>3, <2>5, <2>6, <2>7, AnimationLetterRest
<1>5. CASE RemoveAnimation
  <2>1. HandleAnimation("Remove") /\ a \in Animations
    BY <1>5, <1>a DEF RemoveAnimation
  <2> DEFINE t == EndAnimators(Scene, a)
             s == [t EXCEPT !.animation[a].state = "Destroyed"]
             x == [t.animation[a] EXCEPT !.state = "Destroyed"]
  <2>2. property' = s.property /\ animation' = s.animation /\ resetter' = resetter
    BY <1>5 DEF RemoveAnimation, Becomes
  <2>3. /\ Only1(Scene, t, a)
        /\ t.property = property \/ t.property[Target[a]].value = t.property[Target[a]].base
    BY <1>0, <2>1, EndEffect
  <2> HIDE DEF t, a
  <2>4. t \in SceneRecord /\ t.animation[a] \in AnimationState
    BY <2>1, <2>3 DEF Only1, SceneRecord
  <2>5. /\ x \in AnimationState /\ x.animator = t.animation[a].animator
        /\ x.enabled = t.animation[a].enabled
    BY <2>4 DEF AnimationState
  <2>6. s.property = t.property /\ s.animation = [t.animation EXCEPT ![a] = x]
    BY <2>1, <2>4 DEF SceneRecord, AnimationState
  <2> HIDE DEF s, x
  <2> QED
    BY <1>b, <2>1, <2>2, <2>3, <2>5, <2>6, AnimationLetterRest
<1> QED
  BY <1>1, <1>2, <1>3, <1>4, <1>5

-----------------------------------------------------------------------------
(* The steps: the event thread, and the frame.                               *)

\* What Rested speaks of is left alone.
LEMMA SameRest ==
  ASSUME UNCHANGED <<node, property, animation>>
  PROVE  /\ Rested' <=> Rested
         /\ AtBase' <=> AtBase
<1>1. \A n : PausedSteps(n)' = PausedSteps(n)
  BY DEF PausedSteps, PausedOn, AnimatorsOf
<1>2. OnScene' = OnScene /\ Gone' = Gone
  BY DEF OnScene, Gone
<1>3. Rested' <=> \A n \in OnScene :
        property[n].value = property[n].base + Cardinality(PausedSteps(n))
  BY <1>1, <1>2 DEF Rested
<1> QED
  BY <1>2, <1>3 DEF Rested, AtBase

LEMMA SameResetters ==
  ASSUME Attended, TakenBack(property), UNCHANGED <<node, property, animation, resetters, resetter>>
  PROVE  Attended' /\ TakenBack(property)'
<1>1. Attended'
  BY DEF Attended
<1>2. Gone' = Gone /\ Reset' = Reset
  BY DEF Gone, Reset
<1> QED
  BY <1>1, <1>2 DEF TakenBack

\* A letter is sent: an update will be requested.
LEMMA SendRest ==
  ASSUME FrameInv, RestInv, NEW op, NEW x, NEW c, SendColour(op, x, c),
         [op |-> op, on |-> x, colour |-> c] \in Letters, handle' \in [Animations -> Handles],
         \A a \in Animations : handle'[a] = "none" => handle[a] = "none",
         op = "Add" => x \in Animations /\ handle[x] = "none" /\ handle'[x] # "none"
  PROVE  RestInv'
<1> DEFINE m == [op |-> op, on |-> x, colour |-> c]
<1>1. /\ m \in Letters /\ m.op = op /\ m.on = x /\ queue' = Append(queue, m) /\ announcing' = TRUE
      /\ UNCHANGED <<requested, pc, messages, updateScene, previousUpdateScene, keepUpdating,
                     node, property, animations, animation, resetters, resetter>>
  BY DEF SendColour, frameVars, resetVars, sceneVars
<1> HIDE DEF m
<1>2. JoinsOnce'
  <2>1. Joins(handle, animations, animation, messages, queue) /\ queue \in Seq(Letters)
    BY JoinsMeans DEF RestInv, FrameInv, FrameTypes
  <2>2. Joins(handle', animations, animation, messages, Append(queue, m))
    BY <1>1, <2>1, JoinsSend
  <2> QED
    BY <1>1, <2>2, JoinsMeans
<1>3. Attended' /\ TakenBack(property)'
  BY <1>1, SameResetters DEF RestInv
<1>4. (Rested' <=> Rested) /\ (AtBase' <=> AtBase)
  BY <1>1, SameRest
<1>5. Asked'
  BY <1>1 DEF Asked
<1>6. Asking' /\ StartsAtBase' /\ NothingRuns' /\ RestsOrGoesOn'
  BY <1>1, <1>4, <1>5 DEF RestInv, Asking, StartsAtBase, NothingRuns, RestsOrGoesOn, IsAnimationRunning
<1> QED
  BY <1>2, <1>3, <1>6 DEF RestInv

LEMMA NodeCallRest ==
  ASSUME FrameInv, RestInv, NEW n \in Nodes,
         AddToScene(n) \/ RemoveFromScene(n) \/ DestroyActor(n) \/ SetColor(n)
  PROVE  RestInv'
<1>0. handle \in [Animations -> Handles]
  BY DEF RestInv, JoinsOnce
<1>1. ASSUME NEW op \in {"Connect", "Disconnect", "Destroy", "Bake"}, NEW c \in Int,
             SendColour(op, n, c), handle' = handle
      PROVE  RestInv'
  <2>1. [op |-> op, on |-> n, colour |-> c] \in Letters
    BY DEF Letters, NodeMessages
  <2>2. op # "Add"
    BY <1>1
  <2> QED
    BY <1>0, <1>1, <2>1, <2>2, SendRest
<1>2. CASE AddToScene(n)
  BY <1>1, <1>2 DEF AddToScene, Send
<1>3. CASE RemoveFromScene(n)
  BY <1>1, <1>3 DEF RemoveFromScene, Send
<1>4. CASE DestroyActor(n)
  BY <1>1, <1>4 DEF DestroyActor, Send
<1>5. CASE SetColor(n)
  BY <1>1, <1>5, UpdateAssumption DEF SetColor
<1> QED
  BY <1>2, <1>3, <1>4, <1>5

LEMMA AnimationCallRest ==
  ASSUME FrameInv, RestInv, NEW a \in Animations,
         NewAnimation(a) \/ Control(a) \/ ReleaseAnimation(a)
  PROVE  RestInv'
<1>0. handle \in [Animations -> Handles]
  BY DEF RestInv, JoinsOnce
<1>1. ASSUME NEW op \in {"Add", "Play", "Pause", "Stop", "Clear", "Remove"}, Send(op, a),
             handle' \in [Animations -> Handles],
             \A b \in Animations : handle'[b] = "none" => handle[b] = "none",
             op = "Add" => handle[a] = "none" /\ handle'[a] # "none"
      PROVE  RestInv'
  <2>1. [op |-> op, on |-> a, colour |-> 0] \in Letters
    BY DEF Letters, AnimationMessages
  <2>2. SendColour(op, a, 0)
    BY <1>1 DEF Send
  <2> QED
    BY <1>1, <2>1, <2>2, SendRest
<1>2. CASE NewAnimation(a)
  BY <1>0, <1>1, <1>2 DEF NewAnimation, Handles
<1>3. CASE Control(a)
  BY <1>0, <1>1, <1>3 DEF Control
<1>4. CASE ReleaseAnimation(a)
  BY <1>0, <1>1, <1>4 DEF ReleaseAnimation, Handles
<1> QED
  BY <1>2, <1>3, <1>4

\* The steps that leave letters, animations and resetters alone.
LEMMA AsideRest ==
  ASSUME RestInv, Asking', StartsAtBase', NothingRuns', RestsOrGoesOn',
         UNCHANGED <<handle, queue, messages, node, property, animations, animation,
                     resetters, resetter>>
  PROVE  RestInv'
<1>1. JoinsOnce'
  BY JoinsMeans DEF RestInv
<1>2. Attended' /\ TakenBack(property)'
  BY SameResetters DEF RestInv
<1> QED
  BY <1>1, <1>2 DEF RestInv

LEMMA RequestRest == ASSUME RestInv, RequestUpdate \/ UNCHANGED managerVars PROVE RestInv'
<1>1. /\ UNCHANGED <<handle, queue, messages, node, property, animations, animation,
                     resetters, resetter>>
      /\ UNCHANGED <<pc, updateScene, previousUpdateScene, keepUpdating>>
      /\ \/ announcing' = FALSE /\ requested' = TRUE
         \/ UNCHANGED <<announcing, requested>>
  BY DEF RequestUpdate, managerVars, eventVars, frameVars, resetVars, sceneVars
<1>2. (Rested' <=> Rested) /\ (AtBase' <=> AtBase) /\ (Asked => Asked')
  BY <1>1, SameRest DEF Asked
<1>3. Asking' /\ StartsAtBase' /\ NothingRuns' /\ RestsOrGoesOn'
  BY <1>1, <1>2 DEF RestInv, Asking, StartsAtBase, NothingRuns, RestsOrGoesOn, IsAnimationRunning
<1> QED
  BY <1>1, <1>3, AsideRest

LEMMA RenderRest == ASSUME RestInv, Render PROVE RestInv'
<1>1. /\ UNCHANGED <<handle, queue, messages, node, property, animations, animation,
                     resetters, resetter>>
      /\ UNCHANGED <<updateScene, previousUpdateScene, keepUpdating, announcing, requested>>
      /\ pc = "render" /\ pc' = "idle"
  BY DEF Render, eventVars, frameVars, resetVars
<1>2. (Rested' <=> Rested) /\ (Asked <=> Asked')
  BY <1>1, SameRest DEF Asked
<1>3. Asking' /\ StartsAtBase' /\ NothingRuns' /\ RestsOrGoesOn'
  BY <1>1, <1>2 DEF RestInv, Asking, StartsAtBase, NothingRuns, RestsOrGoesOn
<1> QED
  BY <1>1, <1>3, AsideRest

LEMMA SkipRest == ASSUME RestInv, SkipScene PROVE RestInv'
<1>1. /\ UNCHANGED <<handle, queue, messages, node, property, animations, animation,
                     resetters, resetter>>
      /\ UNCHANGED <<announcing, requested>>
      /\ pc = "messages" /\ pc' = "render" /\ ~updateScene /\ ~previousUpdateScene
  BY DEF SkipScene, FrameIsNeeded, FinishUpdate, eventVars, resetVars, sceneVars
<1>2. Rested' /\ (Asked <=> Asked')
  BY <1>1, SameRest DEF Asked, RestInv, RestsOrGoesOn
<1>3. Asking' /\ StartsAtBase' /\ NothingRuns' /\ RestsOrGoesOn'
  BY <1>1, <1>2 DEF RestInv, Asking, StartsAtBase, NothingRuns, RestsOrGoesOn
<1> QED
  BY <1>1, <1>3, AsideRest

\* Letters that wake a frame which has reset nothing have asked for another.
LEMMA TakeRest == ASSUME FrameInv, RestInv, TakeMessages PROVE RestInv'
<1>1. /\ UNCHANGED <<handle, node, property, animations, animation, resetters, resetter>>
      /\ UNCHANGED <<announcing, requested, previousUpdateScene>>
      /\ pc = "checked" /\ pc' = "messages" /\ messages' = queue /\ queue' = << >>
      /\ updateScene' = (updateScene \/ queue # << >>) /\ messages = << >>
  BY DEF TakeMessages, AfterTaking, eventVars, resetVars, sceneVars, FrameInv, Handling
<1>2. JoinsOnce'
  <2>1. \A a : NotAdded(<< >>, a)
    BY DEF NotAdded
  <2>2. SentOnce(<< >>)
    BY DEF SentOnce
  <2>3. Joins(handle, animations, animation, messages, queue)
    BY JoinsMeans DEF RestInv
  <2>4. Joins(handle, animations, animation, queue, << >>)
    BY <2>1, <2>2, <2>3 DEF Joins
  <2> QED
    BY <1>1, <2>4, JoinsMeans
<1>3. Attended' /\ TakenBack(property)'
  BY <1>1, SameResetters DEF RestInv
<1>4. (Rested' <=> Rested) /\ (AtBase' <=> AtBase) /\ (Asked <=> Asked')
  BY <1>1, SameRest DEF Asked
<1>5. Asking' /\ StartsAtBase' /\ NothingRuns' /\ RestsOrGoesOn'
  BY <1>1, <1>4 DEF RestInv, Asking, StartsAtBase, NothingRuns, RestsOrGoesOn, IsAnimationRunning
<1> QED
  BY <1>2, <1>3, <1>5 DEF RestInv

\* The resetters take back all that is not at its base.
LEMMA ResetRest ==
  ASSUME FrameInv, RestInv, ResetProperties, node' = node, animation' = animation
  PROVE  AtBase' /\ Attended' /\ TakenBack(property)'
<1>0. property \in [Nodes -> Property] /\ Settled(property) /\ Gone' = Gone
  BY DEF FrameInv, FrameTypes, Values, Gone
<1>1. ASSUME NEW n \in Nodes \ Gone
      PROVE  property'[n].value = property'[n].base
  <2>1. property'[n] = IF n \in ResetRequested THEN ResetToBaseValue(property[n]) ELSE property[n]
    BY DEF ResetProperties
  <2>2. property[n].value # property[n].base => n \in ResetRequested /\ property[n].dirty = 2
    BY <1>0 DEF RestInv, TakenBack, Reset, ResetRequested, Settled
  <2>3. CASE n \in ResetRequested /\ property[n].dirty # 0
    BY <1>0, <2>1, <2>3, ValueFacts
  <2>4. CASE n \in ResetRequested /\ property[n].dirty = 0
    BY <1>0, <2>1, <2>2, <2>4, ValueFacts
  <2>5. CASE n \notin ResetRequested
    BY <2>1, <2>2, <2>5
  <2> QED
    BY <2>3, <2>4, <2>5
<1>2. AtBase' /\ TakenBack(property)'
  BY <1>0, <1>1 DEF AtBase, TakenBack
<1>3. /\ resetters' = {a \in resetters : resetter[a].running > 0}
      /\ resetter' = [a \in Animations |->
           IF a \notin resetters THEN resetter[a]
           ELSE [resetter[a] EXCEPT
                  !.active  = IF @ > 0 /\ resetter[a].disconnected THEN @ - 1 ELSE @,
                  !.running = IF @ = 1 THEN 0 ELSE @]]
  BY DEF ResetProperties, ResettersAge
<1>4. ASSUME NEW a \in Animations
      PROVE  /\ resetter'[a] \in Resetter /\ resetter'[a].disconnected = resetter[a].disconnected
             /\ resetter[a].running = 2 => resetter'[a].running = 2
             /\ ~resetter[a].disconnected => resetter'[a].active = resetter[a].active
  <2>1. resetter[a] \in Resetter
    BY BeforeReset
  <2>2. CASE a \notin resetters
    BY <1>3, <2>1, <2>2
  <2>3. CASE a \in resetters
    <3> DEFINE r == resetter[a]
               x == IF r.active > 0 /\ r.disconnected THEN r.active - 1 ELSE r.active
               y == IF r.running = 1 THEN 0 ELSE r.running
    <3>1. resetter'[a] = [r EXCEPT !.active = x, !.running = y]
      BY <1>3, <2>1, <2>3 DEF Resetter
    <3>2. /\ x \in 0 .. 2 /\ y \in 0 .. 2 /\ (r.running = 2 => y = 2)
          /\ ~r.disconnected => x = r.active
      BY <2>1 DEF Resetter
    <3> HIDE DEF x, y
    <3> QED
      BY <2>1, <3>1, <3>2 DEF Resetter
  <2> QED
    BY <2>2, <2>3
<1>5. resetter' \in [Animations -> Resetter] /\ resetters' \subseteq Animations
  BY <1>3, <1>4, BeforeReset
<1>6. \A a \in Animations : animation[a].animator = "live" => a \in resetters'
  <2>1. \A a \in Animations : animation[a].animator = "live" =>
          a \in resetters /\ resetter[a].running = 2
    BY BeforeReset
  <2>2. resetters' = {a \in resetters : resetter[a].running > 0}
    BY <1>3
  <2> QED
    BY ONLY <2>1, <2>2
<1>7. Attended'
  BY <1>4, <1>5, <1>6, BeforeReset DEF Attended
<1> QED
  BY <1>2, <1>7

LEMMA BeginRest == ASSUME FrameInv, RestInv, BeginUpdate PROVE RestInv'
<1>1. /\ UNCHANGED <<handle, queue, messages, node, animations, animation, announcing,
                     previousUpdateScene>>
      /\ pc = "idle" /\ pc' = "checked" /\ messages = << >>
      /\ updateScene' = SceneUpdateRequired /\ requested' = FALSE
  BY DEF BeginUpdate, eventVars, FrameInv, Handling
<1>2. JoinsOnce'
  BY <1>1, JoinsMeans DEF RestInv
<1>3. requested' \in BOOLEAN /\ announcing' \in BOOLEAN
  BY <1>1 DEF RestInv, Asking
<1>4. CASE FrameIsNeeded(SceneUpdateRequired)
  <2>1. ResetProperties
    BY <1>4 DEF BeginUpdate
  <2>2. AtBase' /\ Attended' /\ TakenBack(property)'
    BY <1>1, <2>1, ResetRest
  <2>3. Asking' /\ StartsAtBase' /\ NothingRuns' /\ RestsOrGoesOn'
    BY <1>1, <1>3, <1>4, <2>2 DEF Asking, StartsAtBase, NothingRuns, RestsOrGoesOn,
       SceneUpdateRequired, FrameIsNeeded, IsAnimationRunning
  <2> QED
    BY <1>2, <2>2, <2>3 DEF RestInv
<1>5. CASE ~FrameIsNeeded(SceneUpdateRequired)
  <2>1. UNCHANGED <<property, resetters, resetter>>
    BY <1>5 DEF BeginUpdate, resetVars
  <2>2. Attended' /\ TakenBack(property)'
    BY <1>1, <2>1, SameResetters DEF RestInv
  <2>3. Rested' <=> Rested
    BY <1>1, <2>1, SameRest
  <2>4. ~updateScene' /\ ~previousUpdateScene
    BY <1>1, <1>5 DEF FrameIsNeeded
  <2>5. Asking' /\ StartsAtBase' /\ NothingRuns' /\ RestsOrGoesOn'
    BY <1>1, <1>3, <1>5, <2>3, <2>4 DEF RestInv, Asking, StartsAtBase, NothingRuns, RestsOrGoesOn,
       SceneUpdateRequired, FrameIsNeeded, IsAnimationRunning
  <2> QED
    BY <1>2, <2>2, <2>5 DEF RestInv
<1> QED
  BY <1>4, <1>5

\* A frame that starts from the base values, and in which nothing plays, ends
\* with what the paused animators add.
LEMMA UpdateSceneRest ==
  ASSUME FrameInv, RestInv, NEW to \in Advances, UpdateScene(to)
  PROVE  RestInv'
<1> DEFINE s == Animated(to)
           N == Len(animations)
           destroyed == {a \in Elements(animations) : s.animation[a].state = "Destroyed"}
<1>0. Turned(s, N)
  <2>1. to \in [Animations -> 0 .. 3]
    BY DEF Advances
  <2> QED
    BY <2>1, AnimatedTurned DEF RestInv
<1>1. /\ pc = "messages" /\ pc' = "render" /\ messages = << >>
      /\ updateScene \/ previousUpdateScene
      /\ previousUpdateScene' = updateScene
      /\ keepUpdating' = ShouldKeepUpdating
      /\ UNCHANGED <<handle, node, queue, messages, updateScene, announcing, requested, resetters>>
  BY DEF UpdateScene, FrameIsNeeded, FinishUpdate, eventVars
<1>2. /\ animations' = s.container
      /\ animationFinishedDuringUpdate' = s.finished
      /\ property' = [n \in Nodes |-> UpdateNode(n, s.property[n])]
      /\ animation' = [a \in Animations |-> IF a \in destroyed THEN NoAnimator ELSE s.animation[a]]
      /\ AnimatorsDestroyed(destroyed)
  BY DEF UpdateScene
<1>3. Done(N) = Elements(animations) /\ Elements(animations) \subseteq Animations
  <2>1. animations \in Seq(Animations)
    BY DEF FrameInv, FrameTypes
  <2> QED
    BY <2>1, Positions DEF Done, Elements
<1> HIDE DEF s, N, destroyed
<1>4. /\ s \in SceneRecord /\ NoRepeats(s.container) /\ destroyed \subseteq Elements(animations)
      /\ Elements(s.container) = Elements(animations) \ destroyed
  BY <1>0, <1>3 DEF Turned, destroyed
<1>5. \A n \in Nodes : property'[n].value = s.property[n].value
                       /\ property'[n].base = s.property[n].base
  <2> TAKE n \in Nodes
  <2>1. property'[n] = UpdateNode(n, s.property[n]) /\ s.property[n] \in Property
    BY <1>2, <1>4 DEF SceneRecord
  <2> QED
    BY <2>1 DEF UpdateNode, Property
<1>6. ASSUME NEW a \in Animations
      PROVE  /\ a \in destroyed => animation'[a].animator = "none"
             /\ a \notin destroyed => animation'[a] = s.animation[a]
             /\ animation'[a].animator = "live" =>
                  a \notin destroyed /\ animation[a].animator = "live"
             /\ a \notin destroyed => animation'[a].enabled = animation[a].enabled
  <2>1. NoAnimator.animator = "none"
    BY DEF NoAnimator
  <2> QED
    BY <1>0, <1>2, <2>1 DEF Turned
<1>7. JoinsOnce'
  <2>1. Joins(handle, animations, animation, messages, queue)
    BY JoinsMeans DEF RestInv
  <2>2. Joins(handle, animations', animation', messages, queue)
    BY <1>2, <1>4, <1>6, <2>1 DEF Joins
  <2> QED
    BY <1>1, <2>2, JoinsMeans
<1>8. /\ resetter' \in [Animations -> Resetter]
      /\ \A a \in Animations : /\ resetter'[a].active = resetter[a].active
                               /\ a \notin destroyed => resetter'[a] = resetter[a]
  <2>1. resetter' = [a \in Animations |-> IF a \in destroyed /\ animation[a].animator = "live"
                                          THEN [resetter[a] EXCEPT !.running = @ - 1]
                                          ELSE resetter[a]]
    BY <1>2 DEF AnimatorsDestroyed
  <2>2. ASSUME NEW a \in Animations
        PROVE  /\ resetter'[a] \in Resetter /\ resetter'[a].active = resetter[a].active
               /\ a \notin destroyed => resetter'[a] = resetter[a]
    <3>1. resetter[a] \in Resetter
          /\ (animation[a].animator = "live" => resetter[a].running = 2)
      BY BeforeReset
    <3>2. CASE a \in destroyed /\ animation[a].animator = "live"
      <4>1. resetter'[a] = [resetter[a] EXCEPT !.running = 1]
        BY <2>1, <3>1, <3>2
      <4> QED
        BY <3>1, <3>2, <4>1 DEF Resetter
    <3>3. CASE ~(a \in destroyed /\ animation[a].animator = "live")
      BY <2>1, <3>1, <3>3
    <3> QED
      BY <3>2, <3>3
  <2> QED
    BY <2>1, <2>2
<1>9. Attended'
  BY <1>1, <1>6, <1>8, BeforeReset DEF Attended
<1>10. TakenBack(property)'
  <2>1. Gone' = Gone /\ Reset' = Reset
    BY <1>1, <1>8, BeforeReset DEF Gone, Reset
  <2> QED
    BY <1>0, <1>5, <2>1 DEF Turned, TakenBack
<1>11. ASSUME AtBase, \A a \in Elements(animations) : animation[a].state # "Playing"
       PROVE  Rested'
  <2> SUFFICES ASSUME NEW n \in OnScene
               PROVE  property'[n].value = property'[n].base + Cardinality(PausedSteps(n)')
    BY <1>1 DEF Rested, OnScene
  <2>1. n \in Nodes \ Gone /\ property[n].value = property[n].base
    BY <1>11 DEF OnScene, Gone, AtBase
  <2>2. property'[n].value = property'[n].base + Cardinality(StepsOfDone(N, n))
    BY <1>0, <1>5, <1>11, <2>1 DEF Turned
  <2>3. ASSUME NEW a \in Animations
        PROVE  /\ a \in PausedOn(n)' <=> a \in PausedOn(n) \cap Done(N)
               /\ a \in PausedOn(n) => animation'[a].phase = animation[a].phase
    <3>1. a \in PausedOn(n) <=> /\ Target[a] = n /\ animation[a].animator = "live"
                                /\ animation[a].state = "Paused" /\ animation[a].enabled
      BY DEF PausedOn, AnimatorsOf
    <3>2. a \in PausedOn(n)' <=> /\ Target[a] = n /\ animation'[a].animator = "live"
                                 /\ animation'[a].state = "Paused" /\ animation'[a].enabled
      BY DEF PausedOn, AnimatorsOf
    <3>3. animation[a].animator = "live" => a \in Elements(animations)
      BY DEF RestInv, JoinsOnce
    <3>4. animation[a].animator = "live" =>
            /\ s.animation[a].state = animation[a].state /\ s.animation[a].phase = animation[a].phase
            /\ s.animation[a].animator = "live" /\ s.animation[a].enabled = animation[a].enabled
      BY <1>0, <1>11, <3>3 DEF Turned
    <3>5. animation[a].animator = "live" /\ animation[a].state = "Paused" => a \notin destroyed
      BY <3>4 DEF destroyed
    <3> QED
      BY <1>3, <1>6, <3>1, <3>2, <3>3, <3>4, <3>5
  <2>4. PausedSteps(n)' = StepsOfDone(N, n)
    <3>1. PausedOn(n)' = PausedOn(n) \cap Done(N)
      <4>1. PausedOn(n)' \subseteq Animations /\ PausedOn(n) \subseteq Animations
        BY DEF PausedOn, AnimatorsOf
      <4> QED
        BY <2>3, <4>1
    <3>2. \A a \in PausedOn(n) \cap Done(N) : animation'[a].phase = animation[a].phase
      <4>1. PausedOn(n) \subseteq Animations
        BY DEF PausedOn, AnimatorsOf
      <4> QED
        BY <2>3, <4>1
    <3>3. PausedSteps(n)' = UNION {{a} \X (1 .. animation'[a].phase) : a \in PausedOn(n)'}
      BY DEF PausedSteps
    <3>4. PausedSteps(n)' =
            UNION {{a} \X (1 .. animation'[a].phase) : a \in PausedOn(n) \cap Done(N)}
      BY <3>1, <3>3
    <3>5. {{a} \X (1 .. animation'[a].phase) : a \in PausedOn(n) \cap Done(N)}
            = {{a} \X (1 .. animation[a].phase) : a \in PausedOn(n) \cap Done(N)}
      BY <3>2
    <3> QED
      BY <3>4, <3>5 DEF StepsOfDone
  <2> QED
    BY <2>2, <2>4
<1>12. updateScene \/ Rested'
  <2>1. ASSUME ~updateScene
        PROVE  AtBase /\ \A a \in Elements(animations) : animation[a].state # "Playing"
    BY <1>1, <2>1 DEF RestInv, StartsAtBase, NothingRuns, IsAnimationRunning
  <2> QED
    BY <1>11, <2>1
<1>13. ASSUME updateScene, ~keepUpdating', ~Asked
       PROVE  Rested'
  <2>1. AtBase
    BY <1>1, <1>13 DEF RestInv, StartsAtBase
  <2>2. ~s.finished /\ ~IsAnimationRunning(animations', animation')
    BY <1>1, <1>2, <1>13 DEF ShouldKeepUpdating, AnimationsKeepUpdating
  <2>3. ASSUME NEW a \in Elements(animations), animation[a].state = "Playing"
        PROVE  FALSE
    <3>1. a \in Animations /\ s.animation[a].state = "Playing"
      BY <1>0, <1>3, <2>2, <2>3 DEF Turned
    <3>2. a \notin destroyed
      BY <3>1 DEF destroyed
    <3>3. a \in Elements(animations') /\ animation'[a].state = "Playing"
      BY <1>2, <1>4, <1>6, <3>1, <3>2
    <3> QED
      BY <2>2, <3>3 DEF IsAnimationRunning
  <2> QED
    BY <1>11, <2>1, <2>3
<1>14. Asked' <=> Asked
  BY <1>1 DEF Asked
<1>15. Asking' /\ StartsAtBase' /\ NothingRuns' /\ RestsOrGoesOn'
  BY <1>1, <1>12, <1>13, <1>14 DEF RestInv, Asking, StartsAtBase, NothingRuns, RestsOrGoesOn
<1> QED
  BY <1>7, <1>9, <1>10, <1>15 DEF RestInv

-----------------------------------------------------------------------------
(* The invariant, and what a run checks of it.                               *)

LEMMA RestStarts == FrameInit => RestInv
<1> SUFFICES ASSUME FrameInit PROVE RestInv
  OBVIOUS
<1> USE DEF FrameInit
<1>1. JoinsOnce
  <2>1. /\ handle \in [Animations -> Handles] /\ \A a \in Animations : animation[a].animator = "none"
        /\ animations = << >> /\ queue = << >> /\ messages = << >>
    BY DEF Handles, NoAnimator
  <2> QED
    BY <2>1 DEF JoinsOnce, NoRepeats, Elements, NotAdded, SentOnce
<1>2. Attended
  BY DEF Attended, Resetter, NewResetter, NoAnimator
<1>3. \A n \in Nodes : property[n].value = property[n].base /\ property[n].value = 0
  OBVIOUS
<1>4. \A n \in Nodes : PausedSteps(n) = {}
  BY DEF PausedSteps, PausedOn, AnimatorsOf, NoAnimator
<1>5. Rested
  <2>1. Cardinality({}) = 0
    BY FS_EmptySet
  <2>2. OnScene \subseteq Nodes
    BY DEF OnScene
  <2>3. \A n \in Nodes : property[n].value = property[n].base + 0
    OBVIOUS
  <2> QED
    BY ONLY <1>4, <2>1, <2>2, <2>3 DEF Rested
<1>6. TakenBack(property)
  BY <1>3 DEF TakenBack
<1>7. Asking /\ StartsAtBase /\ NothingRuns /\ RestsOrGoesOn
  BY <1>5 DEF Asking, StartsAtBase, NothingRuns, RestsOrGoesOn
<1> QED
  BY <1>1, <1>2, <1>6, <1>7 DEF RestInv

\* One step per action.
LEMMA RestSteps == ASSUME FrameInv, RestInv, [FrameNext]_managerVars PROVE RestInv'
<1>1. ASSUME NEW n \in Nodes,
             AddToScene(n) \/ RemoveFromScene(n) \/ DestroyActor(n) \/ SetColor(n)
      PROVE  RestInv'
  BY <1>1, NodeCallRest
<1>2. ASSUME NEW a \in Animations, NewAnimation(a) \/ Control(a) \/ ReleaseAnimation(a)
      PROVE  RestInv'
  BY <1>2, AnimationCallRest
<1>3. CASE RequestUpdate \/ UNCHANGED managerVars
  BY <1>3, RequestRest
<1>4. CASE BeginUpdate
  BY <1>4, BeginRest
<1>5. CASE TakeMessages
  BY <1>5, TakeRest
<1>6. CASE HandleMessage
  BY <1>6, ConnectRest, DisconnectRest, DestroyRest, BakeRest, AddRest, AnimationLettersRest
     DEF HandleMessage
<1>7. CASE SkipScene
  BY <1>7, SkipRest
<1>8. ASSUME NEW to \in Advances, UpdateScene(to) PROVE RestInv'
  BY <1>8, UpdateSceneRest
<1>9. CASE Render
  BY <1>9, RenderRest
<1> QED
  BY <1>1, <1>2, <1>3, <1>4, <1>5, <1>6, <1>7, <1>8, <1>9 DEF FrameNext, UpdateContinues

\* When the loop stops, every property on the scene is at its base value but for
\* what the paused animators add, and no destroyed node is left: resets, messages
\* that wake a frame late, discarded and baked animations and disconnected nodes
\* (UpdateManager::Update, ResetProperties, KeepUpdatingCheck) leave nothing behind.
THEOREM RestIsCleanHolds == FrameSpec => []RestIsClean
<1>1. RestInv => RestsAtBase
  <2> SUFFICES ASSUME RestInv, AtRest, NEW n \in Nodes, node[n] = "on"
               PROVE  property[n].value = property[n].base + Cardinality(PausedSteps(n))
    BY DEF RestsAtBase
  <2>1. Rested
    BY DEF AtRest, RestInv, RestsOrGoesOn, Asked
  <2> QED
    BY <2>1 DEF Rested, OnScene
<1>2. FrameInv /\ RestInv /\ [FrameNext]_managerVars => RestInv'
  BY RestSteps
<1>3. RestsAtBase /\ NothingDiscardedAtRest => RestIsClean
  BY DEF RestIsClean
<1> QED
  BY FrameInvariant, NothingDiscardedAtRestHolds, RestStarts, <1>1, <1>2, <1>3, PTL DEF FrameSpec
=============================================================================
