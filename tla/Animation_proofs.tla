--------------------------- MODULE Animation_proofs ---------------------------
(***************************************************************************)
(* For every number of animations and calls: neither half of an animation  *)
(* is destroyed while the other one or a message needs it, an animation    *)
(* that is over is not kept, a cleared one does not emit, and the halves   *)
(* agree once everything has arrived.  The first two of these are not      *)
(* inductive: Referenced says who keeps the event object alive, and        *)
(* RemoveIsLast that nothing is sent behind the message that destroys the  *)
(* scene object.  Neither is the last one: Foretold says what it means for *)
(* a message to be on its way.                                             *)
(***************************************************************************)
EXTENDS Animation, Queues_proofs

Types ==
  /\ state \in [Animations -> InternalState] /\ sceneState \in [Animations -> SceneState]
  /\ alive \subseteq Animations
  /\ finished \in Seq(Animations) /\ toEmit \in Seq(Animations)
  /\ queue \in Seq(Messages) /\ flushed \in Seq(Messages) /\ buffer \in Seq(Messages)

\* Where the containers of NotifyCompleted and of Update are empty.
Control ==
  /\ eventPc \in {"idle", "events", "notify"} => toEmit = << >>
  /\ eventPc \in {"idle", "events"} => finished = << >>
  /\ finished = << >> => toEmit = << >>
  /\ eventPc = "callback" => toEmit # << >>
  /\ updatePc \in {"idle", "completed"} => buffer = << >>

\* What keeps an event object alive is the application, the playlist and the
\* list of those that have just finished.
Referenced ==
  /\ held \cup playlist \cup Elements(finished) \subseteq alive
  /\ Elements(toEmit) \subseteq Elements(finished)

\* A finished animation that is cleared in a callback is ignored by this loop.
ClearedIsIgnored ==
  \A a \in Elements(finished) : state[a] = "CLEARED" => a \in ignored

EventInv == Types /\ Control /\ Referenced /\ ClearedIsIgnored /\ OverIsUnreferenced

\* The message that destroys a scene object is sent when the event object
\* goes, and is the last one to that animation.
RemoveIsLast ==
  /\ \A i \in DOMAIN InFlight : InFlight[i].op = "Remove" => InFlight[i].to \notin alive
  /\ \A i, j \in DOMAIN InFlight :
       i < j /\ InFlight[i].op = "Remove" => InFlight[j].to # InFlight[i].to

IInv == EventInv /\ RemoveIsLast /\ SceneObjectOutlives

\* InternalStateConverter: an animation that is over gets over by Stop only
\* when it was over before.
LEMMA ConvertFacts ==
  ASSUME NEW s \in InternalState
  PROVE  /\ Convert(s, "PLAYING") \in InternalState \ {"STOPPED", "CLEARED"}
         /\ Convert(s, "PAUSED") \in InternalState \ {"STOPPED", "CLEARED"}
         /\ Convert(s, "STOPPED") # s =>
              Convert(s, "STOPPED") \in InternalState \ {"STOPPED", "CLEARED"}
  BY DEF Convert, InternalState, Stopping

\* A notification leaves no animation cleared.
LEMMA AfterFinishFacts ==
  ASSUME NEW s \in DOMAIN AfterFinish
  PROVE  AfterFinish[s] \in {"STOPPED", "PLAYING", "PAUSED"}
  BY DEF AfterFinish

\* What a message on its way is.
LEMMA SendFacts ==
  ASSUME Types, NEW op \in {"Play", "Pause", "Stop", "Clear", "Remove"}, NEW a \in Animations,
         Send(op, a)
  PROVE  queue' \in Seq(Messages)
<1>1. [op |-> op, to |-> a] \in Messages
  BY DEF Messages
<1> QED
  BY <1>1, SequenceFacts DEF Types, Send

\* Calls are made for animations that are alive.
LEMMA CallFacts ==
  ASSUME EventInv, NEW a \in Animations, Call(a)
  PROVE  /\ a \in alive
         /\ UNCHANGED <<eventPc, taken, finished, toEmit, flushed, buffer, updatePc, sceneState>>
<1>1. a \in held \cup Elements(toEmit)
  <2>1. CASE eventPc = "callback"
    <3>1. Head(toEmit) \in Elements(toEmit)
      BY <2>1, SequenceFacts DEF EventInv, Types, Control
    <3> QED
      BY <2>1, <3>1 DEF Call
  <2>2. CASE eventPc # "callback"
    BY <2>2 DEF Call
  <2> QED
    BY <2>1, <2>2
<1> QED
  BY <1>1 DEF EventInv, Referenced, Call, notifyVars, updateVars, sceneVars

LEMMA ApplicationKeepsEventInv ==
  ASSUME EventInv, NEW a \in Animations, Application(a)
  PROVE  EventInv'
<1>0. Call(a)
  BY DEF Application, Play, Pause, Stop, Clear, Release
<1>1. /\ a \in alive
      /\ UNCHANGED <<eventPc, taken, finished, toEmit, flushed, buffer, updatePc, sceneState>>
  BY <1>0, CallFacts
<1>2. Control'
  BY <1>1 DEF EventInv, Control
<1>3. Elements(toEmit') \subseteq Elements(finished')
  BY <1>1 DEF EventInv, Referenced
<1>4. CASE Play(a) \/ Pause(a) \/ Stop(a)
  <2>1. PICK t \in {"PLAYING", "PAUSED", "STOPPED"} :
          /\ state' = [state EXCEPT ![a] = Convert(@, t)]
          /\ t = "STOPPED" => Convert(state[a], t) # state[a]
    BY <1>4 DEF Play, Pause, Stop, Become, Changes
  <2>2. state[a] \in InternalState
    BY DEF EventInv, Types
  <2>3. Convert(state[a], t) \in InternalState \ {"STOPPED", "CLEARED"}
    BY <2>1, <2>2, ConvertFacts
  <2>4. /\ alive' = alive /\ held' = held /\ ignored' = ignored
        /\ playlist' \subseteq playlist \cup {a}
    BY <1>4 DEF Play, Pause, Stop
  <2>5. queue' \in Seq(Messages)
    BY <1>4, SendFacts DEF EventInv, Play, Pause, Stop
  <2>6. Types'
    BY <1>1, <2>1, <2>3, <2>4, <2>5 DEF EventInv, Types
  <2>7. Referenced'
    BY <1>1, <1>3, <2>4 DEF EventInv, Referenced
  <2>8. ClearedIsIgnored'
    BY <1>1, <2>1, <2>2, <2>3, <2>4 DEF EventInv, Types, ClearedIsIgnored
  <2>9. OverIsUnreferenced'
    BY <2>1, <2>2, <2>3, <2>4 DEF EventInv, Types, OverIsUnreferenced
  <2> QED
    BY <1>2, <2>6, <2>7, <2>8, <2>9 DEF EventInv
<1>5. CASE Clear(a)
  <2>1. /\ state' = [state EXCEPT ![a] = "CLEARED"]
        /\ playlist' = playlist \ {a} /\ ignored' = ignored \cup {a}
        /\ alive' = alive /\ held' = held
    BY <1>5 DEF Clear, Forget
  <2>2. queue' \in Seq(Messages)
    BY <1>5, SendFacts DEF EventInv, Clear
  <2>3. Types'
    BY <1>1, <2>1, <2>2 DEF EventInv, Types, InternalState
  <2>4. Referenced'
    BY <1>1, <1>3, <2>1 DEF EventInv, Referenced
  <2>5. ClearedIsIgnored' /\ OverIsUnreferenced'
    BY <1>1, <2>1 DEF EventInv, Types, ClearedIsIgnored, OverIsUnreferenced
  <2> QED
    BY <1>2, <2>3, <2>4, <2>5 DEF EventInv
<1>6. CASE Release(a)
  <2>1. /\ held' = held \ {a} /\ Drop(a, playlist \cup Elements(finished))
        /\ UNCHANGED <<state, playlist, ignored>>
    BY <1>6 DEF Release
  <2>2. queue' \in Seq(Messages)
    BY <2>1, SendFacts DEF EventInv, Types, Drop
  <2>3. Types'
    BY <1>1, <2>1, <2>2 DEF EventInv, Types, Drop
  <2>4. Referenced'
    BY <1>1, <1>3, <2>1 DEF EventInv, Referenced, Drop
  <2>5. ClearedIsIgnored' /\ OverIsUnreferenced'
    BY <1>1, <2>1 DEF EventInv, ClearedIsIgnored, OverIsUnreferenced
  <2> QED
    BY <1>2, <2>3, <2>4, <2>5 DEF EventInv
<1> QED
  BY <1>4, <1>5, <1>6 DEF Application

\* The event thread's own steps.  Only CheckFinished and DropFinished change
\* who is referenced.
LEMMA EventThreadKeepsEventInv ==
  ASSUME EventInv, EventThread
  PROVE  EventInv'
<1> USE DEF EventInv
<1>1. CASE CheckFinished
  <2>1. PICK a :
          IF Concerns(a) /\ HasFinished(a)
          THEN /\ state' = [state EXCEPT ![a] = AfterFinish[@]]
               /\ finished' = Append(finished, a)
               /\ playlist' = playlist \ {a}
          ELSE UNCHANGED <<state, finished, playlist>>
    BY <1>1 DEF CheckFinished
  <2>2. UNCHANGED <<alive, held, ignored, eventPc, toEmit, queue, flushed, buffer, updatePc,
                    sceneState>> /\ eventPc = "notify"
    BY <1>1 DEF CheckFinished, updateVars, sceneVars
  <2>3. CASE ~(Concerns(a) /\ HasFinished(a))
    BY <2>1, <2>2, <2>3 DEF Types, Control, Referenced, ClearedIsIgnored, OverIsUnreferenced
  <2>4. CASE Concerns(a) /\ HasFinished(a)
    <3>1. a \in alive /\ a \notin ignored /\ state[a] \in DOMAIN AfterFinish
      BY <2>4 DEF Concerns, HasFinished
    <3>2. AfterFinish[state[a]] \in {"STOPPED", "PLAYING", "PAUSED"}
      BY <3>1, AfterFinishFacts
    <3>3. a \in Animations
      BY <3>1 DEF Types
    <3>4. /\ finished' \in Seq(Animations) /\ finished' # << >>
          /\ Elements(finished') = Elements(finished) \cup {a}
      <4>1. finished \in Seq(Animations) /\ finished' = Append(finished, a)
        BY <2>1, <2>4 DEF Types
      <4> QED
        BY ONLY <4>1, <3>3, SequenceFacts
    <3>5. Elements(finished) \subseteq Animations
      BY DEF Referenced, Types
    <3>6. Types'
      BY <2>1, <2>2, <2>4, <3>2, <3>4 DEF Types, InternalState
    <3>7. Control'
      BY <2>2, <3>4 DEF Control
    <3>8. Referenced'
      BY <2>1, <2>2, <2>4, <3>1, <3>4 DEF Referenced
    <3>9. ClearedIsIgnored'
      <4>1. ASSUME NEW b \in Elements(finished'), state'[b] = "CLEARED" PROVE b \in ignored
        <5>1. state' = [state EXCEPT ![a] = AfterFinish[state[a]]]
          BY <2>1, <2>4
        <5>2. b # a
          BY <5>1, <4>1, <3>2, <3>3 DEF Types
        <5>3. b \in Elements(finished) /\ state[b] = "CLEARED"
          BY <5>1, <5>2, <4>1, <3>4, <3>5 DEF Types
        <5> QED
          BY <5>3 DEF ClearedIsIgnored
      <4> QED
        BY <4>1, <2>2 DEF ClearedIsIgnored
    <3>10. OverIsUnreferenced'
      BY <2>1, <2>2, <2>4, <3>2 DEF Types, OverIsUnreferenced
    <3> QED
      BY <3>6, <3>7, <3>8, <3>9, <3>10
  <2> QED
    BY <2>3, <2>4
<1>2. CASE DropFinished
  <2> DEFINE a == Head(finished)
  <2>1. /\ eventPc = "emit" /\ toEmit = << >> /\ finished # << >> /\ finished' = Tail(finished)
        /\ Drop(a, held \cup playlist \cup Elements(finished'))
        /\ UNCHANGED <<state, held, playlist, ignored, eventPc, toEmit, flushed, buffer, updatePc,
                       sceneState>>
    BY <1>2 DEF DropFinished, apiVars, updateVars, sceneVars
  <2>2. /\ a \in Animations /\ finished' \in Seq(Animations)
        /\ Elements(finished) = {a} \cup Elements(finished')
    BY <2>1, SequenceFacts DEF Types
  <2>3. queue' \in Seq(Messages)
    BY <2>1, <2>2, SendFacts DEF Types, Drop
  <2>4. Types'
    BY <2>1, <2>2, <2>3 DEF Types, Drop
  <2>5. Control'
    BY <2>1 DEF Control
  <2>6. Elements(toEmit') = {}
    BY <2>1, SequenceFacts DEF Types
  <2>7. Referenced'
    BY <2>1, <2>2, <2>6 DEF Referenced, Drop
  <2>8. ClearedIsIgnored' /\ OverIsUnreferenced'
    BY <2>1, <2>2 DEF ClearedIsIgnored, OverIsUnreferenced
  <2> QED
    BY <2>4, <2>5, <2>7, <2>8
<1>3. CASE EventLoopFinished
  <2>1. /\ eventPc = "events" /\ eventPc' = "idle" /\ queue' = << >> /\ flushed' = flushed \o queue
        /\ UNCHANGED <<state, alive, held, playlist, finished, toEmit, buffer, updatePc, sceneState>>
    BY <1>3 DEF EventLoopFinished, updateVars, sceneVars
  <2>2. flushed' \in Seq(Messages) /\ queue' \in Seq(Messages) /\ Elements(finished) = {}
    BY <2>1, SequenceFacts DEF Types, Control
  <2> QED
    BY <2>1, <2>2 DEF Types, Control, Referenced, ClearedIsIgnored, OverIsUnreferenced
<1>4. CASE ListChecked
  <2>1. /\ eventPc = "notify" /\ eventPc' = "emit" /\ toEmit' = finished
        /\ UNCHANGED <<apiVars, alive, finished, queue, flushed, updateVars, sceneVars>>
    BY <1>4 DEF ListChecked
  <2> QED
    BY <2>1 DEF Types, Control, Referenced, ClearedIsIgnored, OverIsUnreferenced, apiVars,
                updateVars, sceneVars
<1>5. CASE SkipCleared \/ CallbackReturns
  <2>1. /\ toEmit # << >> /\ toEmit' = Tail(toEmit) /\ eventPc' = "emit"
        /\ UNCHANGED <<apiVars, alive, finished, queue, flushed, updateVars, sceneVars>>
    BY <1>5 DEF SkipCleared, CallbackReturns, Control
  <2>2. toEmit' \in Seq(Animations) /\ Elements(toEmit') \subseteq Elements(toEmit)
    BY <2>1, SequenceFacts DEF Types
  <2>3. finished # << >>
    BY <2>1 DEF Control
  <2> QED
    BY <2>1, <2>2, <2>3 DEF Types, Control, Referenced, ClearedIsIgnored, OverIsUnreferenced,
                            apiVars, updateVars, sceneVars
<1>6. CASE ProcessMessages \/ Emit \/ ListDone
  <2>1. /\ UNCHANGED <<apiVars, alive, finished, toEmit, queue, flushed, updateVars, sceneVars>>
        /\ \/ eventPc = "idle" /\ eventPc' \in {"events", "notify"}
           \/ eventPc = "emit" /\ toEmit # << >> /\ eventPc' = "callback"
           \/ eventPc = "emit" /\ finished = << >> /\ eventPc' \in {"events", "notify"}
    BY <1>6 DEF ProcessMessages, Emit, ListDone
  <2> QED
    BY <2>1 DEF Types, Control, Referenced, ClearedIsIgnored, OverIsUnreferenced, apiVars,
                updateVars, sceneVars
<1> QED
  BY <1>1, <1>2, <1>3, <1>4, <1>5, <1>6 DEF EventThread

LEMMA UpdateThreadKeepsEventInv ==
  ASSUME EventInv, UpdateThread
  PROVE  EventInv'
<1> USE DEF EventInv
<1>0. /\ UNCHANGED eventThreadVars
      /\ Control => Control'
      /\ flushed' \in Seq(Messages) /\ buffer' \in Seq(Messages)
  <2>1. CASE UpdateBegin
    BY <2>1, SequenceFacts DEF UpdateBegin, Control, Types, eventThreadVars, notifyVars
  <2>2. CASE ProcessMessage
    BY <2>2, SequenceFacts DEF ProcessMessage, Control, Types, eventThreadVars, notifyVars
  <2>3. CASE UpdateCompleted
    BY <2>3 DEF UpdateCompleted, Control, Types, eventThreadVars, notifyVars
  <2>4. CASE \E complete \in SUBSET Animations : Animate(complete)
    BY <2>4 DEF Animate, Control, Types, eventThreadVars, notifyVars
  <2> QED
    BY <2>1, <2>2, <2>3, <2>4 DEF UpdateThread
<1>1. sceneState' \in [Animations -> SceneState]
  <2>1. CASE UpdateBegin \/ UpdateCompleted
    BY <2>1 DEF UpdateBegin, UpdateCompleted, sceneVars, Types
  <2>2. CASE ProcessMessage
    <3>1. PICK s \in SceneState : sceneState' = [sceneState EXCEPT ![Head(buffer).to] = s]
      <4>1. Head(buffer).to \in Animations
        <5>1. buffer \in Seq(Messages) /\ buffer # << >>
          BY <2>2 DEF ProcessMessage, Types
        <5>2. Head(buffer) \in Messages
          BY ONLY <5>1, SequenceFacts
        <5> QED
          BY <5>2 DEF Messages
      <4>2. sceneState[Head(buffer).to] \in SceneState
        BY <4>1 DEF Types
      <4> QED
        BY <2>2, <4>2 DEF ProcessMessage, SceneBecomes, SceneStop, SceneClear, SceneState
    <3> QED
      BY <3>1 DEF Types
  <2>3. CASE \E complete \in SUBSET Animations : Animate(complete)
    BY <2>3 DEF Animate, Types, SceneState
  <2> QED
    BY <2>1, <2>2, <2>3 DEF UpdateThread
<1>2. Types'
  BY <1>0, <1>1 DEF Types, eventThreadVars, apiVars, notifyVars
<1>3. Referenced' /\ ClearedIsIgnored' /\ OverIsUnreferenced'
  BY <1>0 DEF Referenced, ClearedIsIgnored, OverIsUnreferenced, eventThreadVars, apiVars, notifyVars
<1> QED
  BY <1>0, <1>2, <1>3

LEMMA EventInvStep ==
  ASSUME EventInv, [Next]_vars
  PROVE  EventInv'
<1>1. CASE UNCHANGED vars
  BY <1>1 DEF EventInv, Types, Control, Referenced, ClearedIsIgnored, OverIsUnreferenced, vars,
              apiVars, notifyVars, updateVars, sceneVars
<1> QED
  BY <1>1, ApplicationKeepsEventInv, EventThreadKeepsEventInv, UpdateThreadKeepsEventInv DEF Next

\* What is on its way changes by an Append when something is sent, by a Tail
\* when a message is processed, and not when queues move.
LEMMA InFlightFacts ==
  ASSUME Types
  PROVE  /\ InFlight \in Seq(Messages)
         /\ \A m \in Messages : buffer \o flushed \o Append(queue, m) = Append(InFlight, m)
         /\ buffer # << >> => /\ InFlight # << >> /\ Head(InFlight) = Head(buffer)
                             /\ Tail(buffer) \o flushed \o queue = Tail(InFlight)
         /\ buffer \o (flushed \o queue) \o << >> = InFlight
         /\ buffer = << >> => flushed \o << >> \o queue = InFlight
<1> DEFINE b == buffer f == flushed q == queue
<1>1. b \in Seq(Messages) /\ f \in Seq(Messages) /\ q \in Seq(Messages)
  BY DEF Types
<1> HIDE DEF b, f, q
<1>2. (b \o f) \o q \in Seq(Messages)
  BY <1>1, SequenceFacts
<1>3. ASSUME NEW m \in Messages PROVE (b \o f) \o Append(q, m) = Append((b \o f) \o q, m)
  <2>1. Append(q, m) = q \o << m >> /\ << m >> \in Seq(Messages)
    BY <1>1, AppendIsConcat
  <2>2. b \o f \in Seq(Messages)
    BY <1>1
  <2>3. (b \o f) \o (q \o << m >>) = ((b \o f) \o q) \o << m >>
    BY <1>1, <2>1, <2>2, ConcatAssociative
  <2>4. Append((b \o f) \o q, m) = ((b \o f) \o q) \o << m >>
    BY <1>2, AppendIsConcat
  <2> QED
    BY <2>1, <2>3, <2>4
<1>4. ASSUME b # << >>
      PROVE  /\ (b \o f) \o q # << >> /\ Head((b \o f) \o q) = Head(b)
             /\ (Tail(b) \o f) \o q = Tail((b \o f) \o q)
  <2>1. /\ f \o q \in Seq(Messages) /\ Tail(b) \in Seq(Messages)
        /\ (b \o f) \o q = b \o (f \o q) /\ (Tail(b) \o f) \o q = Tail(b) \o (f \o q)
    BY <1>1, <1>4, ConcatAssociative, SequenceFacts, SMTT(30)
  <2>2. ASSUME NEW t \in Seq(Messages)
        PROVE  b \o t # << >> /\ Head(b \o t) = Head(b) /\ Tail(b \o t) = Tail(b) \o t
    BY <1>1, <1>4
  <2>3. /\ b \o (f \o q) # << >> /\ Head(b \o (f \o q)) = Head(b)
        /\ Tail(b \o (f \o q)) = Tail(b) \o (f \o q)
    BY ONLY <2>1, <2>2
  <2> QED
    BY ONLY <2>1, <2>3
<1>5. (b \o (f \o q)) \o << >> = (b \o f) \o q
  BY <1>1, <1>2, ConcatAssociative, ConcatEmptySeq
<1>6. b = << >> => (f \o << >>) \o q = (b \o f) \o q
  BY <1>1, ConcatEmptySeq
<1> QED
  BY <1>2, <1>3, <1>4, <1>5, <1>6 DEF InFlight, b, f, q

\* Sending to an animation that is alive, and that stays alive unless it is
\* told to go.
LEMMA SendKeepsOrder ==
  ASSUME IInv, NEW a \in alive, NEW op \in {"Play", "Pause", "Stop", "Clear", "Remove"},
         Send(op, a), UNCHANGED <<buffer, flushed, sceneState>>,
         alive' = IF op = "Remove" THEN alive \ {a} ELSE alive
  PROVE  RemoveIsLast' /\ SceneObjectOutlives'
<1> DEFINE m == [op |-> op, to |-> a] s == InFlight t == InFlight'
<1>1. m \in Messages
  BY DEF Messages, IInv, EventInv, Types
<1>2. s \in Seq(Messages) /\ t = Append(s, m)
  BY <1>1, InFlightFacts DEF IInv, EventInv, Send, InFlight
<1>3. m.op = op /\ m.to = a
  OBVIOUS
<1>4. /\ \A i \in DOMAIN s : s[i].op = "Remove" => s[i].to \notin alive
      /\ \A i, j \in DOMAIN s : i < j /\ s[i].op = "Remove" => s[j].to # s[i].to
      /\ \A i \in DOMAIN s : sceneState[s[i].to] \notin {"Destroyed", "Freed"}
      /\ \A b \in alive : sceneState[b] \notin {"Destroyed", "Freed"}
  BY DEF IInv, RemoveIsLast, SceneObjectOutlives
<1> HIDE DEF m, s, t
<1>5. /\ DOMAIN s = 1 .. Len(s) /\ Len(s) \in Nat /\ DOMAIN t = 1 .. Len(s) + 1
      /\ \A i \in 1 .. Len(s) : t[i] = s[i]
      /\ t[Len(s) + 1] = m
  BY <1>1, <1>2
<1>6. \A i \in DOMAIN t : t[i].op = "Remove" => t[i].to \notin alive'
  BY <1>3, <1>4, <1>5
<1>7. \A i, j \in DOMAIN t : i < j /\ t[i].op = "Remove" => t[j].to # t[i].to
  BY <1>3, <1>4, <1>5
<1>8. \A i \in DOMAIN t : sceneState[t[i].to] \notin {"Destroyed", "Freed"}
  BY <1>3, <1>4, <1>5
<1>9. \A b \in alive' : sceneState[b] \notin {"Destroyed", "Freed"}
  BY <1>4
<1> QED
  BY <1>6, <1>7, <1>8, <1>9 DEF RemoveIsLast, SceneObjectOutlives, t

\* Processing a message: the scene object it is for is there, and is destroyed
\* only by the last message for it, when its event object is gone.
LEMMA ProcessKeepsOrder ==
  ASSUME IInv, ProcessMessage
  PROVE  RemoveIsLast' /\ SceneObjectOutlives'
<1> DEFINE m == Head(buffer) s == InFlight t == InFlight'
<1>1. /\ buffer # << >> /\ buffer' = Tail(buffer) /\ UNCHANGED <<alive, flushed, queue>>
      /\ \E x \in SceneState :
           /\ sceneState' = [sceneState EXCEPT ![m.to] = x]
           /\ m.op # "Remove" /\ x \in {"Destroyed", "Freed"} => x = sceneState[m.to]
  <2>1. buffer # << >> /\ buffer' = Tail(buffer) /\ UNCHANGED <<alive, flushed, queue>>
    BY DEF ProcessMessage, eventThreadVars, apiVars
  <2>2. m \in Messages
    BY <2>1, SequenceFacts DEF IInv, EventInv, Types
  <2>3. sceneState[m.to] \in SceneState
    BY <2>2 DEF IInv, EventInv, Types, Messages
  <2> QED
    BY <2>1, <2>3 DEF ProcessMessage, SceneBecomes, SceneStop, SceneClear, SceneState
<1>2. s \in Seq(Messages) /\ s # << >> /\ Head(s) = m /\ t = Tail(s)
  BY <1>1, InFlightFacts DEF IInv, EventInv, InFlight
<1>3. /\ \A i \in DOMAIN s : s[i].op = "Remove" => s[i].to \notin alive
      /\ \A i, j \in DOMAIN s : i < j /\ s[i].op = "Remove" => s[j].to # s[i].to
      /\ \A i \in DOMAIN s : sceneState[s[i].to] \notin {"Destroyed", "Freed"}
      /\ \A b \in alive : sceneState[b] \notin {"Destroyed", "Freed"}
      /\ sceneState \in [Animations -> SceneState] /\ alive \subseteq Animations
  BY DEF IInv, EventInv, Types, RemoveIsLast, SceneObjectOutlives
<1> HIDE DEF m, s, t
<1>4. /\ DOMAIN s = 1 .. Len(s) /\ Len(s) \in Nat \ {0} /\ s[1] = m /\ Len(t) = Len(s) - 1
      /\ DOMAIN t = 1 .. Len(s) - 1
      /\ \A i \in 1 .. Len(s) - 1 : t[i] = s[i + 1] /\ t[i].to \in Animations
  <2>1. /\ Len(s) \in Nat \ {0} /\ s[1] = m /\ t \in Seq(Messages) /\ Len(t) = Len(s) - 1
        /\ \A i \in 1 .. Len(s) - 1 : t[i] = s[i + 1]
    BY <1>2
  <2>2. DOMAIN s = 1 .. Len(s) /\ DOMAIN t = 1 .. Len(s) - 1
    BY <1>2, <2>1
  <2>3. \A i \in 1 .. Len(s) - 1 : t[i] \in Messages
    BY <2>1
  <2> QED
    BY <2>1, <2>2, <2>3 DEF Messages
<1>5. PICK x \in SceneState :
        /\ sceneState' = [sceneState EXCEPT ![m.to] = x]
        /\ m.op # "Remove" /\ x \in {"Destroyed", "Freed"} => x = sceneState[m.to]
  BY <1>1
<1>6. sceneState[m.to] \notin {"Destroyed", "Freed"} /\ (m.op = "Remove" => m.to \notin alive)
  BY <1>3, <1>4
<1>7. \A b \in Animations : sceneState'[b] \in {"Destroyed", "Freed"} =>
        sceneState[b] \in {"Destroyed", "Freed"} \/ (b = m.to /\ m.op = "Remove")
  <2>1. ASSUME NEW b \in Animations, sceneState'[b] \in {"Destroyed", "Freed"},
               sceneState[b] \notin {"Destroyed", "Freed"}
        PROVE  b = m.to /\ m.op = "Remove"
    <3>1. b = m.to /\ sceneState'[b] = x
      BY <1>3, <1>5, <2>1
    <3>2. x # sceneState[m.to]
      BY <3>1, <2>1
    <3>3. x \in {"Destroyed", "Freed"}
      BY <3>1, <2>1
    <3>4. m.op = "Remove"
      BY <3>2, <3>3, <1>5
    <3> QED
      BY <3>1, <3>4
  <2> QED
    BY <2>1
<1>8. \A i \in DOMAIN t : m.op = "Remove" => t[i].to # m.to
  <2>1. ASSUME NEW i \in DOMAIN t, m.op = "Remove" PROVE t[i].to # m.to
    <3>1. i + 1 \in DOMAIN s /\ 1 \in DOMAIN s /\ 1 < i + 1 /\ t[i] = s[i + 1]
      BY <1>4
    <3> QED
      BY <3>1, <2>1, <1>3, <1>4
  <2> QED
    BY <2>1
<1>9. \A i \in DOMAIN t : sceneState'[t[i].to] \notin {"Destroyed", "Freed"}
  <2>1. ASSUME NEW i \in DOMAIN t PROVE sceneState[t[i].to] \notin {"Destroyed", "Freed"}
    <3>1. i + 1 \in DOMAIN s /\ t[i] = s[i + 1]
      BY <1>4
    <3> QED
      BY <3>1, <1>3
  <2> QED
    BY <2>1, <1>4, <1>7, <1>8
<1>10. \A b \in alive : sceneState'[b] \notin {"Destroyed", "Freed"}
  BY <1>3, <1>6, <1>7
<1>11. /\ \A i \in DOMAIN t : t[i].op = "Remove" => t[i].to \notin alive
       /\ \A i, j \in DOMAIN t : i < j /\ t[i].op = "Remove" => t[j].to # t[i].to
  <2>1. \A i \in DOMAIN t : i + 1 \in DOMAIN s /\ i \in Nat /\ t[i] = s[i + 1]
    BY <1>4
  <2>2. \A i, j \in DOMAIN t : i < j => i + 1 < j + 1
    BY <1>4
  <2> QED
    BY <2>1, <2>2, <1>3
<1> QED
  BY <1>1, <1>9, <1>10, <1>11 DEF RemoveIsLast, SceneObjectOutlives, t

\* All other steps.
LEMMA QuietKeepsOrder ==
  ASSUME IInv, InFlight' = InFlight, alive' = alive,
         \A a \in Animations : sceneState'[a] \in {"Destroyed", "Freed"} =>
                               sceneState[a] \in {"Destroyed", "Freed"}
  PROVE  RemoveIsLast' /\ SceneObjectOutlives'
<1>1. RemoveIsLast'
  BY DEF IInv, RemoveIsLast
<1>2. \A i \in DOMAIN InFlight : InFlight[i].to \in Animations
  <2>1. InFlight \in Seq(Messages)
    BY InFlightFacts DEF IInv, EventInv
  <2>2. \A i \in DOMAIN InFlight : InFlight[i] \in Messages
    BY ONLY <2>1
  <2> QED
    BY <2>2 DEF Messages
<1>3. SceneObjectOutlives'
  BY <1>2 DEF IInv, EventInv, Types, SceneObjectOutlives
<1> QED
  BY <1>1, <1>3

LEMMA OrderStep ==
  ASSUME IInv, [Next]_vars
  PROVE  RemoveIsLast' /\ SceneObjectOutlives'
<1> USE DEF IInv
<1>1. ASSUME NEW a \in Animations, Application(a) PROVE RemoveIsLast' /\ SceneObjectOutlives'
  <2>0. Call(a)
    BY <1>1 DEF Application, Play, Pause, Stop, Clear, Release
  <2>1. a \in alive /\ UNCHANGED <<buffer, flushed, sceneState>>
    BY <2>0, CallFacts
  <2>2. CASE \E op \in {"Play", "Pause", "Stop", "Clear"} : Send(op, a) /\ alive' = alive
    BY <2>1, <2>2, SendKeepsOrder
  <2>3. CASE Release(a)
    <3>1. CASE Send("Remove", a) /\ alive' = alive \ {a}
      BY <2>1, <3>1, SendKeepsOrder
    <3>2. CASE UNCHANGED <<alive, queue>>
      BY <2>1, <3>2, QuietKeepsOrder DEF InFlight
    <3> QED
      BY <2>3, <3>1, <3>2 DEF Release, Drop
  <2> QED
    BY <1>1, <2>2, <2>3 DEF Application, Play, Pause, Stop, Clear
<1>2. CASE DropFinished
  <2>1. Head(finished) \in alive
    <3>1. finished \in Seq(Animations) /\ finished # << >>
      BY <1>2 DEF DropFinished, EventInv, Types
    <3>2. Head(finished) \in Elements(finished)
      BY ONLY <3>1, SequenceFacts
    <3> QED
      BY <3>2 DEF EventInv, Referenced
  <2>2. UNCHANGED <<buffer, flushed, sceneState>>
    BY <1>2 DEF DropFinished, updateVars, sceneVars
  <2>3. CASE Send("Remove", Head(finished)) /\ alive' = alive \ {Head(finished)}
    BY <2>1, <2>2, <2>3, SendKeepsOrder
  <2>4. CASE UNCHANGED <<alive, queue>>
    BY <2>2, <2>4, QuietKeepsOrder DEF InFlight
  <2> QED
    BY <1>2, <2>3, <2>4 DEF DropFinished, Drop
<1>3. CASE EventLoopFinished
  <2>1. /\ flushed' = flushed \o queue /\ queue' = << >>
        /\ UNCHANGED <<alive, buffer, sceneState>>
    BY <1>3 DEF EventLoopFinished, updateVars, sceneVars
  <2>2. InFlight' = InFlight
    BY <2>1, InFlightFacts DEF EventInv, InFlight
  <2> QED
    BY <2>1, <2>2, QuietKeepsOrder
<1>4. CASE UpdateBegin
  <2>1. /\ buffer = << >> /\ buffer' = flushed /\ flushed' = << >>
        /\ UNCHANGED <<alive, queue, sceneState>>
    BY <1>4 DEF UpdateBegin, EventInv, Control, eventThreadVars, sceneVars
  <2>2. InFlight' = InFlight
    BY <2>1, InFlightFacts DEF EventInv, InFlight
  <2> QED
    BY <2>1, <2>2, QuietKeepsOrder
<1>5. CASE \E complete \in SUBSET Animations : Animate(complete)
  <2>1. PICK complete \in SUBSET Animations : Animate(complete)
    BY <1>5
  <2>2. /\ UNCHANGED <<alive, queue, flushed, buffer>>
        /\ \A a \in Animations :
             sceneState'[a] = IF a \in complete THEN "Stopped"
                              ELSE IF Erasable(a) THEN "Freed" ELSE sceneState[a]
    BY <2>1 DEF Animate, eventThreadVars
  <2>3. \A a \in Animations : sceneState'[a] \in {"Destroyed", "Freed"} =>
                               sceneState[a] \in {"Destroyed", "Freed"}
    BY <2>2 DEF Erasable
  <2> QED
    BY <2>2, <2>3, QuietKeepsOrder DEF InFlight
<1>6. CASE \/ ProcessMessages \/ CheckFinished \/ ListChecked \/ Emit \/ SkipCleared
           \/ CallbackReturns \/ ListDone \/ UpdateCompleted \/ UNCHANGED vars
  <2>1. UNCHANGED <<alive, queue, flushed, buffer, sceneState>>
    BY <1>6 DEF ProcessMessages, CheckFinished, ListChecked, Emit, SkipCleared, CallbackReturns,
                ListDone, UpdateCompleted, vars, updateVars, sceneVars, eventThreadVars
  <2> QED
    BY <2>1, QuietKeepsOrder DEF InFlight
<1> QED
  BY <1>1, <1>2, <1>3, <1>4, <1>5, <1>6, ProcessKeepsOrder
  DEF Next, EventThread, UpdateThread

LEMMA InitHasIInv == Init => IInv
<1> SUFFICES ASSUME Init PROVE IInv
  OBVIOUS
<1>1. Types /\ Control
  BY DEF Init, Types, Control, InternalState, SceneState
<1>2. Referenced /\ ClearedIsIgnored /\ OverIsUnreferenced
  BY DEF Init, Referenced, ClearedIsIgnored, OverIsUnreferenced, Elements
<1>3. InFlight = << >>
  BY DEF Init, InFlight
<1>4. RemoveIsLast /\ SceneObjectOutlives
  BY <1>3 DEF Init, RemoveIsLast, SceneObjectOutlives
<1> QED
  BY <1>1, <1>2, <1>4 DEF IInv, EventInv

LEMMA IInvIsInvariant == Spec => []IInv
<1>1. IInv /\ [Next]_vars => IInv'
  BY EventInvStep, OrderStep DEF IInv
<1> QED
  BY <1>1, InitHasIInv, PTL DEF Spec

\* The scene object of an animation outlives the event object that points to
\* it and every message for it (~Animation sends the message that destroys
\* it), and an animation that is over is not kept by the playlist.
THEOREM LifetimesAgreeHolds == Spec => []LifetimesAgree
<1>1. IInv => LifetimesAgree
  BY DEF IInv, EventInv, LifetimesAgree
<1> QED
  BY <1>1, IInvIsInvariant, PTL

\* No Finished signal for an animation whose last call was Clear, whichever
\* callback of the same list made the call (NotifyCompleted, OnClear).
THEOREM ClearedIsSilentHolds == Spec => ClearedIsSilent
<1>1. ASSUME IInv, Emit PROVE state[Head(toEmit)] # "CLEARED"
  <2>1. toEmit # << >> /\ toEmit \in Seq(Animations) /\ Head(toEmit) \notin ignored
    BY <1>1 DEF Emit, MayEmit, IInv, EventInv, Types
  <2>2. Head(toEmit) \in Elements(toEmit)
    BY ONLY <2>1, SequenceFacts
  <2> QED
    BY <1>1, <2>1, <2>2 DEF IInv, EventInv, Referenced, ClearedIsIgnored
<1>2. IInv => [Emit => state[Head(toEmit)] # "CLEARED"]_vars
  BY <1>1
<1> QED
  BY <1>2, IInvIsInvariant, PTL DEF ClearedIsSilent

(***************************************************************************)
(* The two halves.  What an animation is shown as is foretold by the last  *)
(* message on its way to the scene animation, and by the scene animation   *)
(* itself when there is none: the state the call left it in, or what a     *)
(* notification makes of it.                                               *)
(***************************************************************************)
LeftBy(op) == CASE op = "Play"  -> {"PLAYING", "PLAYING_DURING_STOPPING", "STOPPED"}
                [] op = "Pause" -> {"PAUSED", "PAUSED_DURING_STOPPING"}
                [] op = "Stop"  -> {"STOPPING", "STOPPED"}
                [] op = "Clear" -> {"CLEARED"}
                [] OTHER        -> {}
ShownFor(s) == CASE s = "Playing" -> LeftBy("Play")
                 [] s = "Paused"  -> LeftBy("Pause")
                 [] OTHER         -> InternalState

Last(i, s) == \A j \in DOMAIN s : i < j => s[j].to # s[i].to

Foretold ==
  \A a \in alive :
    /\ \A i \in DOMAIN InFlight :
         InFlight[i].to = a /\ Last(i, InFlight) => state[a] \in LeftBy(InFlight[i].op)
    /\ (\A i \in DOMAIN InFlight : InFlight[i].to # a) => state[a] \in ShownFor(sceneState[a])

\* What a call leaves, and that a notification does not lead out of it.
LEMMA LeftByFacts ==
  ASSUME NEW s \in InternalState
  PROVE  /\ Convert(s, "PLAYING") \in LeftBy("Play")
         /\ Convert(s, "PAUSED") \in LeftBy("Pause")
         /\ Convert(s, "STOPPED") # s => Convert(s, "STOPPED") \in LeftBy("Stop")
         /\ "CLEARED" \in LeftBy("Clear")
         /\ s \in DOMAIN AfterFinish =>
              /\ AfterFinish[s] \in InternalState
              /\ \A op \in {"Play", "Pause", "Stop", "Clear", "Remove"} :
                   s \in LeftBy(op) => AfterFinish[s] \in LeftBy(op)
<1>1. /\ Convert(s, "PLAYING") \in LeftBy("Play")
      /\ Convert(s, "PAUSED") \in LeftBy("Pause")
      /\ Convert(s, "STOPPED") # s => Convert(s, "STOPPED") \in LeftBy("Stop")
      /\ "CLEARED" \in LeftBy("Clear")
  <2>1. Convert(s, "PLAYING") \in LeftBy("Play")
    BY DEF Convert, InternalState, Stopping, LeftBy
  <2>2. Convert(s, "PAUSED") \in LeftBy("Pause")
    BY DEF Convert, InternalState, Stopping, LeftBy
  <2>3. Convert(s, "STOPPED") # s => Convert(s, "STOPPED") \in LeftBy("Stop")
    <3>1. Convert(s, "STOPPED") = IF s \in {"CLEARED", "STOPPED"} THEN s ELSE "STOPPING"
      BY DEF Convert
    <3>2. "STOPPING" \in LeftBy("Stop")
      BY DEF LeftBy
    <3> QED
      BY <3>1, <3>2
  <2>4. "CLEARED" \in LeftBy("Clear")
    BY DEF LeftBy
  <2> QED
    BY <2>1, <2>2, <2>3, <2>4
<1>2. ASSUME s \in DOMAIN AfterFinish
      PROVE  /\ AfterFinish[s] \in InternalState
             /\ \A op \in {"Play", "Pause", "Stop", "Clear", "Remove"} :
                  s \in LeftBy(op) => AfterFinish[s] \in LeftBy(op)
  BY <1>2 DEF AfterFinish, InternalState, Stopping, LeftBy
<1> QED
  BY <1>1, <1>2

\* A step that sends and processes nothing.
LEMMA QuietForetells ==
  ASSUME IInv, IInv', Foretold, InFlight' = InFlight, alive' \subseteq alive,
         \A a \in Animations : \/ state'[a] = state[a]
                               \/ state[a] \in DOMAIN AfterFinish /\ state'[a] = AfterFinish[state[a]],
         \A a \in Animations : sceneState'[a] \in {sceneState[a], "Stopped", "Freed"}
  PROVE  Foretold'
<1> SUFFICES ASSUME NEW a \in alive'
             PROVE  /\ \A i \in DOMAIN InFlight :
                         InFlight[i].to = a /\ Last(i, InFlight) => state'[a] \in LeftBy(InFlight[i].op)
                    /\ (\A i \in DOMAIN InFlight : InFlight[i].to # a) =>
                         state'[a] \in ShownFor(sceneState'[a])
  BY DEF Foretold
<1>1. /\ a \in alive /\ a \in Animations /\ state[a] \in InternalState
      /\ state'[a] \in InternalState
  BY DEF IInv, EventInv, Types
<1>2. ASSUME NEW op \in {"Play", "Pause", "Stop", "Clear", "Remove"}, state[a] \in LeftBy(op)
      PROVE  state'[a] \in LeftBy(op)
  BY <1>1, <1>2, LeftByFacts
<1>3. ASSUME NEW i \in DOMAIN InFlight, InFlight[i].to = a, Last(i, InFlight)
      PROVE  state'[a] \in LeftBy(InFlight[i].op)
  <2>1. state[a] \in LeftBy(InFlight[i].op)
    BY <1>1, <1>3 DEF Foretold
  <2>2. InFlight \in Seq(Messages)
    BY InFlightFacts DEF IInv, EventInv
  <2>3. InFlight[i] \in Messages
    BY ONLY <1>3, <2>2
  <2>4. InFlight[i].op \in {"Play", "Pause", "Stop", "Clear", "Remove"}
    BY <2>3 DEF Messages
  <2> QED
    BY <1>2, <2>1, <2>4
<1>4. ASSUME \A i \in DOMAIN InFlight : InFlight[i].to # a
      PROVE  state'[a] \in ShownFor(sceneState'[a])
  <2>1. state[a] \in ShownFor(sceneState[a])
    BY <1>1, <1>4 DEF Foretold
  <2>2. CASE sceneState'[a] = "Playing"
    <3>1. sceneState[a] = "Playing"
      BY <1>1, <2>2
    <3> QED
      BY <1>2, <2>1, <2>2, <3>1 DEF ShownFor
  <2>3. CASE sceneState'[a] = "Paused"
    <3>1. sceneState[a] = "Paused"
      BY <1>1, <2>3
    <3> QED
      BY <1>2, <2>1, <2>3, <3>1 DEF ShownFor
  <2>4. CASE sceneState'[a] \notin {"Playing", "Paused"}
    BY <1>1, <2>4 DEF ShownFor
  <2> QED
    BY <2>2, <2>3, <2>4
<1> QED
  BY <1>3, <1>4

\* The last message for an animation is the one that was sent last.
LEMMA SendForetells ==
  ASSUME IInv, Foretold, NEW a \in alive, NEW op \in {"Play", "Pause", "Stop", "Clear", "Remove"},
         Send(op, a), UNCHANGED <<buffer, flushed, sceneState>>, alive' \subseteq alive,
         \A b \in Animations \ {a} : state'[b] = state[b],
         a \in alive' => state'[a] \in LeftBy(op)
  PROVE  Foretold'
<1> DEFINE m == [op |-> op, to |-> a]
           s == InFlight
           t == InFlight'
<1>1. m \in Messages /\ alive \subseteq Animations
  BY DEF Messages, IInv, EventInv, Types
<1>2. s \in Seq(Messages) /\ t = Append(s, m)
  BY <1>1, InFlightFacts DEF IInv, EventInv, Send, InFlight
<1>3. m.op = op /\ m.to = a
  OBVIOUS
<1>4. \A b \in alive :
        /\ \A i \in DOMAIN s : s[i].to = b /\ Last(i, s) => state[b] \in LeftBy(s[i].op)
        /\ (\A i \in DOMAIN s : s[i].to # b) => state[b] \in ShownFor(sceneState[b])
  BY DEF Foretold
<1>5. Foretold' <=>
        \A b \in alive' :
          /\ \A i \in DOMAIN t : t[i].to = b /\ Last(i, t) => state'[b] \in LeftBy(t[i].op)
          /\ (\A i \in DOMAIN t : t[i].to # b) => state'[b] \in ShownFor(sceneState[b])
  BY DEF Foretold
<1> HIDE DEF m, s, t
<1>6. /\ DOMAIN s = 1 .. Len(s) /\ Len(s) \in Nat /\ DOMAIN t = 1 .. Len(s) + 1
      /\ \A i \in 1 .. Len(s) : t[i] = s[i]
      /\ t[Len(s) + 1] = m
  BY <1>1, <1>2
<1>7. ASSUME NEW b \in alive', NEW i \in DOMAIN t, t[i].to = b, Last(i, t)
      PROVE  state'[b] \in LeftBy(t[i].op)
  <2>1. CASE i = Len(s) + 1
    BY <1>3, <1>6, <1>7, <2>1
  <2>2. CASE i \in 1 .. Len(s)
    <3>1. b # a
      <4>1. Len(s) + 1 \in DOMAIN t /\ i < Len(s) + 1
        BY <1>6, <2>2
      <4> QED
        BY <1>3, <1>6, <1>7, <4>1 DEF Last
    <3>2. s[i].to = b /\ Last(i, s) /\ i \in DOMAIN s /\ t[i] = s[i]
      BY <1>6, <1>7, <2>2 DEF Last
    <3> QED
      BY <1>1, <1>4, <3>1, <3>2
  <2> QED
    BY <1>6, <2>1, <2>2
<1>8. ASSUME NEW b \in alive', \A i \in DOMAIN t : t[i].to # b
      PROVE  state'[b] \in ShownFor(sceneState[b])
  <2>1. b # a
    BY <1>3, <1>6, <1>8
  <2>2. \A i \in DOMAIN s : s[i].to # b
    BY <1>6, <1>8
  <2> QED
    BY <1>1, <1>4, <2>1, <2>2
<1> QED
  BY <1>5, <1>7, <1>8

\* The scene animation does what the last message for it says.
LEMMA ProcessForetells ==
  ASSUME IInv, Foretold, ProcessMessage
  PROVE  Foretold'
<1> DEFINE m == Head(buffer)
           s == InFlight
           t == InFlight'
<1>1. /\ buffer # << >> /\ buffer' = Tail(buffer) /\ UNCHANGED <<alive, state, flushed, queue>>
  BY DEF ProcessMessage, eventThreadVars, apiVars
<1>2. m \in Messages
  BY <1>1, SequenceFacts DEF IInv, EventInv, Types
<1>3. /\ m.to \in Animations /\ sceneState \in [Animations -> SceneState]
      /\ state \in [Animations -> InternalState] /\ alive \subseteq Animations
  BY <1>2 DEF IInv, EventInv, Types, Messages
<1>4. PICK x \in SceneState :
        /\ sceneState' = [sceneState EXCEPT ![m.to] = x]
        /\ x = "Playing" => m.op = "Play"
        /\ x = "Paused" => m.op = "Pause"
  BY <1>2, <1>3 DEF ProcessMessage, SceneBecomes, SceneStop, SceneClear, SceneState
<1>5. s \in Seq(Messages) /\ s # << >> /\ Head(s) = m /\ t = Tail(s)
  BY <1>1, InFlightFacts DEF IInv, EventInv, InFlight
<1>6. \A b \in alive :
        /\ \A i \in DOMAIN s : s[i].to = b /\ Last(i, s) => state[b] \in LeftBy(s[i].op)
        /\ (\A i \in DOMAIN s : s[i].to # b) => state[b] \in ShownFor(sceneState[b])
  BY DEF Foretold
<1>7. Foretold' <=>
        \A b \in alive :
          /\ \A i \in DOMAIN t : t[i].to = b /\ Last(i, t) => state[b] \in LeftBy(t[i].op)
          /\ (\A i \in DOMAIN t : t[i].to # b) => state[b] \in ShownFor(sceneState'[b])
  BY <1>1 DEF Foretold
<1> HIDE DEF m, s, t
<1>8. /\ DOMAIN s = 1 .. Len(s) /\ Len(s) \in Nat \ {0} /\ s[1] = m
      /\ DOMAIN t = 1 .. Len(s) - 1
      /\ \A i \in 1 .. Len(s) - 1 : t[i] = s[i + 1]
  <2>1. /\ Len(s) \in Nat \ {0} /\ s[1] = m /\ t \in Seq(Messages) /\ Len(t) = Len(s) - 1
        /\ \A i \in 1 .. Len(s) - 1 : t[i] = s[i + 1]
    BY <1>5
  <2> QED
    BY <1>5, <2>1
<1>9. \A j \in 2 .. Len(s) : j - 1 \in DOMAIN t /\ t[j - 1] = s[j]
  BY <1>8
<1>10. ASSUME NEW b \in alive, NEW i \in DOMAIN t, t[i].to = b, Last(i, t)
       PROVE  state[b] \in LeftBy(t[i].op)
  <2>1. i + 1 \in DOMAIN s /\ t[i] = s[i + 1]
    BY <1>8
  <2>2. ASSUME NEW j \in DOMAIN s, i + 1 < j PROVE s[j].to # s[i + 1].to
    <3>1. j \in 2 .. Len(s) /\ i < j - 1
      BY <1>8, <2>2
    <3> QED
      BY <1>9, <1>10, <2>1, <3>1 DEF Last
  <2>3. Last(i + 1, s)
    BY <2>2 DEF Last
  <2> QED
    BY <1>6, <1>10, <2>1, <2>3
<1>11. ASSUME NEW b \in alive, \A i \in DOMAIN t : t[i].to # b
       PROVE  state[b] \in ShownFor(sceneState'[b])
  <2>1. \A j \in DOMAIN s : j = 1 \/ s[j].to # b
    BY <1>8, <1>9, <1>11
  <2>2. CASE m.to # b
    <3>1. \A j \in DOMAIN s : s[j].to # b
      BY <1>8, <2>1, <2>2
    <3>2. sceneState'[b] = sceneState[b]
      BY <1>3, <1>4, <2>2
    <3> QED
      BY <1>6, <3>1, <3>2
  <2>3. CASE m.to = b
    <3>1. 1 \in DOMAIN s /\ s[1].to = b /\ Last(1, s)
      BY <1>8, <2>1, <2>3 DEF Last
    <3>2. state[b] \in LeftBy(m.op)
      BY <1>6, <1>8, <3>1
    <3>3. sceneState'[b] = x
      BY <1>3, <1>4, <2>3
    <3>4. state[b] \in InternalState
      BY <1>3
    <3>5. CASE x = "Playing"
      BY <1>4, <3>2, <3>3, <3>5 DEF ShownFor
    <3>6. CASE x = "Paused"
      BY <1>4, <3>2, <3>3, <3>6 DEF ShownFor
    <3>7. CASE x \notin {"Playing", "Paused"}
      BY <3>3, <3>4, <3>7 DEF ShownFor
    <3> QED
      BY <3>5, <3>6, <3>7
  <2> QED
    BY <2>2, <2>3
<1> QED
  BY <1>7, <1>10, <1>11

LEMMA ApplicationForetells ==
  ASSUME IInv, Foretold, NEW a \in Animations, Application(a)
  PROVE  Foretold'
<1>0. Call(a)
  BY DEF Application, Play, Pause, Stop, Clear, Release
<1>1. a \in alive /\ UNCHANGED <<buffer, flushed, sceneState>>
  BY <1>0, CallFacts DEF IInv
<1>2. state \in [Animations -> InternalState] /\ state[a] \in InternalState
  BY DEF IInv, EventInv, Types
<1>3. ASSUME NEW op \in {"Play", "Pause", "Stop", "Clear"}, NEW x \in LeftBy(op),
             Send(op, a), alive' = alive, state' = [state EXCEPT ![a] = x]
      PROVE  Foretold'
  BY <1>1, <1>2, <1>3, SendForetells
<1>4. CASE Play(a)
  BY <1>2, <1>3, <1>4, LeftByFacts DEF Play, Become
<1>5. CASE Pause(a)
  BY <1>2, <1>3, <1>5, LeftByFacts DEF Pause, Become
<1>6. CASE Stop(a)
  BY <1>2, <1>3, <1>6, LeftByFacts DEF Stop, Become, Changes
<1>7. CASE Clear(a)
  BY <1>2, <1>3, <1>7, LeftByFacts DEF Clear
<1>8. CASE Release(a)
  <2>1. state' = state
    BY <1>8 DEF Release
  <2>2. CASE Send("Remove", a) /\ alive' = alive \ {a}
    BY <1>1, <2>1, <2>2, SendForetells
  <2>3. CASE UNCHANGED <<alive, queue>>
    <3>1. InFlight' = InFlight
      BY <1>1, <2>3 DEF InFlight
    <3>2. IInv'
      BY EventInvStep, OrderStep DEF IInv, Next
    <3> QED
      BY <1>1, <2>1, <2>3, <3>1, <3>2, QuietForetells
  <2> QED
    BY <1>8, <2>2, <2>3 DEF Release, Drop
<1> QED
  BY <1>4, <1>5, <1>6, <1>7, <1>8 DEF Application

LEMMA ForetoldStep == IInv /\ IInv' /\ Foretold /\ [Next]_vars => Foretold'
<1> SUFFICES ASSUME IInv, IInv', Foretold, [Next]_vars PROVE Foretold'
  OBVIOUS
<1>1. CASE DropFinished
  <2>1. UNCHANGED <<buffer, flushed, sceneState, state>>
    BY <1>1 DEF DropFinished, updateVars, sceneVars, apiVars
  <2>2. Head(finished) \in alive
    <3>1. finished \in Seq(Animations) /\ finished # << >>
      BY <1>1 DEF DropFinished, IInv, EventInv, Types
    <3>2. Head(finished) \in Elements(finished)
      BY ONLY <3>1, SequenceFacts
    <3> QED
      BY <3>2 DEF IInv, EventInv, Referenced
  <2>3. CASE Send("Remove", Head(finished)) /\ alive' = alive \ {Head(finished)}
    BY <2>1, <2>2, <2>3, SendForetells
  <2>4. CASE UNCHANGED <<alive, queue>>
    BY <2>1, <2>4, QuietForetells DEF InFlight
  <2> QED
    BY <1>1, <2>3, <2>4 DEF DropFinished, Drop
<1>2. CASE EventLoopFinished
  <2>1. /\ flushed' = flushed \o queue /\ queue' = << >>
        /\ UNCHANGED <<alive, buffer, sceneState, state>>
    BY <1>2 DEF EventLoopFinished, updateVars, sceneVars
  <2>2. InFlight' = InFlight
    BY <2>1, InFlightFacts DEF IInv, EventInv, InFlight
  <2> QED
    BY <2>1, <2>2, QuietForetells
<1>3. CASE UpdateBegin
  <2>1. /\ buffer = << >> /\ buffer' = flushed /\ flushed' = << >>
        /\ UNCHANGED <<alive, queue, sceneState, state>>
    BY <1>3 DEF UpdateBegin, IInv, EventInv, Control, eventThreadVars, sceneVars, apiVars
  <2>2. InFlight' = InFlight
    BY <2>1, InFlightFacts DEF IInv, EventInv, InFlight
  <2> QED
    BY <2>1, <2>2, QuietForetells
<1>4. CASE \E complete \in SUBSET Animations : Animate(complete)
  <2>1. /\ UNCHANGED <<alive, queue, flushed, buffer, state>>
        /\ \A a \in Animations : sceneState'[a] \in {sceneState[a], "Stopped", "Freed"}
    BY <1>4 DEF Animate, eventThreadVars, apiVars
  <2> QED
    BY <2>1, QuietForetells DEF InFlight
<1>5. CASE CheckFinished
  <2>1. /\ UNCHANGED <<alive, queue, flushed, buffer, sceneState>>
        /\ \/ state' = state
           \/ \E a \in Animations : /\ state[a] \in DOMAIN AfterFinish
                                    /\ state' = [state EXCEPT ![a] = AfterFinish[state[a]]]
    BY <1>5 DEF CheckFinished, Concerns, HasFinished, updateVars, sceneVars, IInv, EventInv, Types
  <2>2. state \in [Animations -> InternalState]
    BY DEF IInv, EventInv, Types
  <2>3. \A a \in Animations : \/ state'[a] = state[a]
                              \/ state[a] \in DOMAIN AfterFinish /\ state'[a] = AfterFinish[state[a]]
    BY <2>1, <2>2
  <2> QED
    BY <2>1, <2>3, QuietForetells DEF InFlight
<1>6. CASE \/ ProcessMessages \/ ListChecked \/ Emit \/ SkipCleared
           \/ CallbackReturns \/ ListDone \/ UpdateCompleted \/ UNCHANGED vars
  <2>1. UNCHANGED <<alive, queue, flushed, buffer, sceneState, state>>
    BY <1>6 DEF ProcessMessages, ListChecked, Emit, SkipCleared, CallbackReturns,
                ListDone, UpdateCompleted, vars, updateVars, sceneVars, eventThreadVars, apiVars
  <2> QED
    BY <2>1, QuietForetells DEF InFlight
<1> QED
  BY <1>1, <1>2, <1>3, <1>4, <1>5, <1>6, ApplicationForetells, ProcessForetells
  DEF Next, EventThread, UpdateThread

\* Once everything has arrived the two halves do not contradict each other.
THEOREM HalvesAgreeHolds == Spec => []HalvesAgree
<1>1. Init => Foretold
  <2> SUFFICES ASSUME Init PROVE Foretold
    OBVIOUS
  <2>1. InFlight = << >> /\ \A a \in Animations : state[a] = "CLEARED" /\ sceneState[a] = "Stopped"
    BY DEF Init, InFlight
  <2>2. alive = Animations
    BY DEF Init
  <2> QED
    BY <2>1, <2>2 DEF Foretold, ShownFor, InternalState
<1>2. ASSUME IInv, Foretold PROVE HalvesAgree
  <2> SUFFICES ASSUME NEW a \in alive, Settled(a)
               PROVE  /\ sceneState[a] = "Paused" => state[a] \in {"PAUSED", "PAUSED_DURING_STOPPING"}
                      /\ sceneState[a] = "Playing" =>
                           state[a] \notin {"PAUSED", "PAUSED_DURING_STOPPING", "CLEARED"}
                      /\ state[a] \in {"CLEARED", "STOPPING"} => sceneState[a] = "Stopped"
    BY DEF HalvesAgree
  <2>1. state[a] \in ShownFor(sceneState[a])
    BY <1>2 DEF Settled, Foretold
  <2>2. sceneState[a] \in {"Stopped", "Playing", "Paused"}
    BY <1>2 DEF IInv, EventInv, Types, SceneObjectOutlives, SceneState
  <2> QED
    BY <2>1, <2>2 DEF ShownFor, LeftBy
<1>3. IInv /\ [Next]_vars => IInv'
  BY EventInvStep, OrderStep DEF IInv
<1> QED
  BY <1>1, <1>2, <1>3, InitHasIInv, ForetoldStep, PTL DEF Spec
================================================================================
