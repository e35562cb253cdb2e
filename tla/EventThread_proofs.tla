-------------------------- MODULE EventThread_proofs --------------------------
(***************************************************************************)
(* The properties of what runs on the event thread only, each for any      *)
(* values of its constants: first the event loop of CoreEvents, then the   *)
(* tree of actors of ActorTree, which shares nothing with it.              *)
(***************************************************************************)
EXTENDS CoreEvents, ActorTree, Queues_proofs

LEMMA ElementsOfList == \A s : ToSet(s) = Elements(s)
  BY DEF ToSet, Elements

-----------------------------------------------------------------------------
(***************************************************************************)
(* The event loop, for any processors and any number of list entries.      *)
(* Nested says how far calls can be nested: nothing is started within a    *)
(* relayout that is past its notifications, so that there are at most two  *)
(* calls, and the inner one is such a relayout.  WillFlush says that a     *)
(* message that is not announced has a FlushQueue before it.  Looping says *)
(* what a processor loop knows of the lists: without the flag of           *)
(* unregistered processors all it found is still there, and with it all    *)
(* but what the history notes as unregistered.                             *)
(***************************************************************************)
PCs == Callbacks \cup {"end", "once", "list", "size", "flush"}

Relaying(f) == f.call \in Phases /\ f.pc # "notify"

Nested ==
  /\ processing = (stack # << >>) /\ coreEvents = processing /\ queueing = processing
  /\ Len(stack) <= 2
  /\ stack # << >> => (stack[1].call # "events" <=> stack[1].faked)
  /\ Len(stack) = 2 => ~Relaying(stack[1]) /\ Relaying(stack[2]) /\ ~stack[2].faked
  /\ flushing = (stack # << >> /\ Relaying(Top))

WillFlush ==
  unflushed /\ ~idleRequested => stack # << >> /\ ~(Top.call = "events" /\ Top.pc = "end")

\* The loop in progress belongs to the innermost call.
InTop == /\ stack # << >> /\ Top.call = loop.phase /\ Top.pc = loop.kind
         /\ loop.kind \in {"once", "list"} /\ loop.phase \in Phases
         /\ loop.at \in 1 .. Len(loop.copy) + 1
         /\ loop.running => loop.at <= Len(loop.copy)

\* What the loop knows of its list.
Knows ==
  /\ loop.kind = "once" => loop.index = 1 - onceIndex[loop.phase]
  /\ ToSet(loop.copy) \ erased \subseteq ToSet(RunList(loop))
  /\ ~unregistered[loop.phase] => ToSet(loop.copy) \subseteq ToSet(RunList(loop))

Looping == IF loop = NoLoop THEN ran = << >> /\ erased = {}
           ELSE InTop /\ Knows /\ NoneForgotten /\ EachKeptOneRuns

IInv == TypeOK /\ Nested /\ WillFlush /\ Looping

-----------------------------------------------------------------------------
(* Sequences and lists.                                                      *)

\* Erasing the first entry of a processor keeps all the others, adds none, and
\* does nothing to a list without it.
LEMMA EraseFromList ==
  ASSUME NEW P, NEW s \in Seq(P), NEW p
  PROVE  /\ EraseFirst(s, p) \in Seq(P)
         /\ ToSet(EraseFirst(s, p)) \subseteq ToSet(s)
         /\ ToSet(s) \ {p} \subseteq ToSet(EraseFirst(s, p))
         /\ p \notin ToSet(s) => EraseFirst(s, p) = s
  BY EraseFirstFacts, ElementsOfList

\* The stack after a call, a return, and a step of the innermost call.
LEMMA StackFacts ==
  ASSUME NEW F, NEW s \in Seq(F)
  PROVE  /\ Len(s) \in Nat /\ (s = << >> <=> Len(s) = 0)
         /\ s # << >> => s[Len(s)] \in F
         /\ \A f \in F : /\ Append(s, f) \in Seq(F) /\ Append(s, f) # << >>
                         /\ Len(Append(s, f)) = Len(s) + 1
                         /\ Append(s, f)[Len(s) + 1] = f
                         /\ \A i \in 1 .. Len(s) : Append(s, f)[i] = s[i]
         /\ s # << >> => /\ Front(s) \in Seq(F) /\ Len(Front(s)) = Len(s) - 1
                         /\ \A i \in 1 .. Len(s) - 1 : Front(s)[i] = s[i]
         /\ s # << >> => \A f \in F :
              /\ [s EXCEPT ![Len(s)] = f] \in Seq(F)
              /\ Len([s EXCEPT ![Len(s)] = f]) = Len(s) /\ [s EXCEPT ![Len(s)] = f] # << >>
              /\ [s EXCEPT ![Len(s)] = f][Len(s)] = f
              /\ \A i \in 1 .. Len(s) - 1 : [s EXCEPT ![Len(s)] = f][i] = s[i]
<1>1. Len(s) \in Nat /\ (s = << >> <=> Len(s) = 0)
  OBVIOUS
<1>2. s # << >> => s[Len(s)] \in F
  BY <1>1, ElementOfSeq
<1>3. ASSUME NEW f \in F
      PROVE  /\ Append(s, f) \in Seq(F) /\ Append(s, f) # << >>
             /\ Len(Append(s, f)) = Len(s) + 1
             /\ Append(s, f)[Len(s) + 1] = f
             /\ \A i \in 1 .. Len(s) : Append(s, f)[i] = s[i]
  BY AppendProperties
<1>4. s # << >> => /\ Front(s) \in Seq(F) /\ Len(Front(s)) = Len(s) - 1
                   /\ \A i \in 1 .. Len(s) - 1 : Front(s)[i] = s[i]
  <2> SUFFICES ASSUME s # << >>
               PROVE  /\ Front(s) \in Seq(F) /\ Len(Front(s)) = Len(s) - 1
                      /\ \A i \in 1 .. Len(s) - 1 : Front(s)[i] = s[i]
    OBVIOUS
  <2>1. PICK n \in Nat : n = Len(s) - 1
    BY <1>1
  <2> DEFINE front == SubSeq(s, 1, n)
  <2>2. 1 \in Int /\ n \in Int /\ \A i \in 1 .. n : s[i] \in F
    BY <2>1, <1>1, ElementOfSeq
  <2>3. /\ front \in Seq(F)
        /\ Len(front) = IF 1 <= n THEN n - 1 + 1 ELSE 0
        /\ \A i \in 1 .. n - 1 + 1 : front[i] = s[1 + i - 1]
    BY <2>2, SubSeqProperties
  <2>4. Front(s) = front
    BY <2>1 DEF Front
  <2> HIDE DEF front
  <2>5. Len(front) = n
    BY ONLY <2>3, n \in Nat
  <2>6. \A i \in 1 .. n : front[i] = s[i]
    <3> SUFFICES ASSUME NEW i \in 1 .. n PROVE front[i] = s[i]
      OBVIOUS
    <3>1. i \in 1 .. n - 1 + 1 /\ 1 + i - 1 = i
      BY n \in Nat
    <3> QED
      BY <3>1, <2>3
  <2> QED
    BY <2>1, <2>3, <2>4, <2>5, <2>6
<1>5. ASSUME s # << >>, NEW f \in F
      PROVE  /\ [s EXCEPT ![Len(s)] = f] \in Seq(F)
             /\ Len([s EXCEPT ![Len(s)] = f]) = Len(s) /\ [s EXCEPT ![Len(s)] = f] # << >>
             /\ [s EXCEPT ![Len(s)] = f][Len(s)] = f
             /\ \A i \in 1 .. Len(s) - 1 : [s EXCEPT ![Len(s)] = f][i] = s[i]
  BY <1>1, <1>5, ExceptSeq
<1> QED
  BY <1>1, <1>2, <1>3, <1>4, <1>5

\* What a call does when it goes on to another of its steps.
LEMMA GoToFacts ==
  ASSUME stack \in Seq(Frame), stack # << >>, NEW place \in PCs, GoTo(place)
  PROVE  /\ stack' \in Seq(Frame) /\ Len(stack') = Len(stack) /\ stack' # << >>
         /\ Top' = [Top EXCEPT !.pc = place]
         /\ \A i \in 1 .. Len(stack) - 1 : stack'[i] = stack[i]
<1>1. stack' = [stack EXCEPT ![Len(stack)] = [Top EXCEPT !.pc = place]]
  BY DEF GoTo, Top
<1>2. Top \in Frame
  BY StackFacts DEF Top
<1>3. [Top EXCEPT !.pc = place] \in Frame
  BY <1>2 DEF Frame, PCs
<1>4. /\ stack' \in Seq(Frame) /\ Len(stack') = Len(stack) /\ stack' # << >>
      /\ stack'[Len(stack)] = [Top EXCEPT !.pc = place]
      /\ \A i \in 1 .. Len(stack) - 1 : stack'[i] = stack[i]
  BY <1>1, <1>3, StackFacts
<1> QED
  BY <1>4 DEF Top

-----------------------------------------------------------------------------
(* Types.                                                                    *)

ListTypes == /\ list \in [Phases -> Seq(Processors)]
             /\ once \in [Phases -> [0 .. 1 -> Seq(Processors)]]
             /\ onceIndex \in [Phases -> 0 .. 1] /\ unregistered \in [Phases -> BOOLEAN]
FlagTypes == /\ processing \in BOOLEAN /\ flushing \in BOOLEAN /\ coreEvents \in BOOLEAN
             /\ enabled \in BOOLEAN /\ relayoutFlag \in BOOLEAN /\ queueing \in BOOLEAN
             /\ unflushed \in BOOLEAN /\ idleRequested \in BOOLEAN
LoopTypes == loop \in Loop /\ ran \in Seq(Nat) /\ erased \in SUBSET Processors

LEMMA TypeParts == TypeOK <=> ListTypes /\ FlagTypes /\ stack \in Seq(Frame) /\ LoopTypes
  BY DEF TypeOK, ListTypes, FlagTypes, LoopTypes

LEMMA NoLoopFacts == NoLoop \in Loop /\ NoLoop.kind = "none" /\ NoLoop.running = FALSE
  BY DEF NoLoop, Loop, Phases

\* The lists hold processors.
LEMMA ListTypesStep == TypeOK /\ [Next]_vars => ListTypes'
<1> SUFFICES ASSUME TypeOK, [Next]_vars PROVE ListTypes'
  OBVIOUS
<1>1. ListTypes /\ stack \in Seq(Frame) /\ LoopTypes
  BY TypeParts
<1> USE DEF ListTypes, Phases
<1>2. CASE RegisterProcessor
  BY <1>1, <1>2, AppendFacts DEF RegisterProcessor
<1>3. CASE UnregisterProcessor
  <2>1. PICK p \in Processors, ph \in Phases :
          /\ list' = [list EXCEPT ![ph] = EraseFirst(@, p)]
          /\ unregistered' = [unregistered EXCEPT ![ph] = TRUE]
    BY <1>3 DEF UnregisterProcessor
  <2>2. EraseFirst(list[ph], p) \in Seq(Processors)
    BY <1>1, EraseFromList
  <2>3. list' \in [Phases -> Seq(Processors)]
    BY <1>1, <2>1, <2>2
  <2> QED
    BY <1>1, <1>3, <2>1, <2>3 DEF UnregisterProcessor
<1>4. CASE RegisterProcessorOnce
  <2>1. PICK p \in Processors, ph \in Phases :
          once' = [once EXCEPT ![ph][onceIndex[ph]] = Append(@, p)]
    BY <1>4 DEF RegisterProcessorOnce
  <2>2. Append(once[ph][onceIndex[ph]], p) \in Seq(Processors)
    BY <1>1
  <2>3. [once[ph] EXCEPT ![onceIndex[ph]] = Append(@, p)] \in [0 .. 1 -> Seq(Processors)]
    BY <1>1, <2>2
  <2>4. once' \in [Phases -> [0 .. 1 -> Seq(Processors)]]
    BY <1>1, <2>1, <2>3
  <2> QED
    BY <1>1, <1>4, <2>4 DEF RegisterProcessorOnce
<1>5. CASE UnregisterProcessorOnce
  <2>1. PICK p \in Processors, ph \in Phases :
          /\ once' = [once EXCEPT ![ph] = [i \in 0 .. 1 |-> EraseFirst(@[i], p)]]
          /\ unregistered' = [unregistered EXCEPT ![ph] = MarkOnce(p, ph)]
    BY <1>5 DEF UnregisterProcessorOnce
  <2>2. [i \in 0 .. 1 |-> EraseFirst(once[ph][i], p)] \in [0 .. 1 -> Seq(Processors)]
    <3> SUFFICES ASSUME NEW i \in 0 .. 1 PROVE EraseFirst(once[ph][i], p) \in Seq(Processors)
      OBVIOUS
    <3>1. once[ph][i] \in Seq(Processors)
      BY <1>1
    <3> QED
      BY <3>1, EraseFromList
  <2>3. once' \in [Phases -> [0 .. 1 -> Seq(Processors)]]
    BY <1>1, <2>1, <2>2
  <2>4. MarkOnce(p, ph) \in BOOLEAN
    BY <1>1, Zenon DEF MarkOnce
  <2>5. unregistered' \in [Phases -> BOOLEAN]
    BY <1>1, <2>1, <2>4
  <2> QED
    BY <1>1, <1>5, <2>3, <2>5 DEF UnregisterProcessorOnce
<1>6. CASE SceneDestroyed
  <2>1. [p \in Phases |-> << >>] \in [Phases -> Seq(Processors)]
    BY EmptySeq
  <2>2. [i \in 0 .. 1 |-> << >>] \in [0 .. 1 -> Seq(Processors)]
    BY EmptySeq
  <2> QED
    BY <1>1, <1>6, <2>1, <2>2 DEF SceneDestroyed
<1>7. CASE BeginLoop
  <2>1. PICK kind \in {"once", "list"} :
          /\ InLoops(kind)
          /\ onceIndex' = IF kind = "once" THEN Swapped(Top.call) ELSE onceIndex
          /\ unregistered' = [unregistered EXCEPT ![Top.call] = FALSE]
    BY <1>7, Zenon DEF BeginLoop
  <2>2. Top.call \in Phases
    BY <2>1 DEF InLoops
  <2>3. Swapped(Top.call) \in [Phases -> 0 .. 1]
    BY <1>1, <2>2 DEF Swapped
  <2> QED
    BY <1>1, <1>7, <2>1, <2>2, <2>3 DEF BeginLoop
<1>8. CASE EndLoop
  <2>1. loop.phase \in Phases /\ loop.index \in 0 .. 1
    BY <1>1 DEF LoopTypes, Loop
  <2>2. << >> \in Seq(Processors)
    BY EmptySeq
  <2>3. [once[loop.phase] EXCEPT ![loop.index] = << >>] \in [0 .. 1 -> Seq(Processors)]
    BY <1>1, <2>1, <2>2
  <2>4. once' \in [Phases -> [0 .. 1 -> Seq(Processors)]]
    BY <1>1, <1>8, <2>1, <2>3 DEF EndLoop
  <2> QED
    BY <1>1, <1>8, <2>4 DEF EndLoop
<1>9. CASE UNCHANGED processorVars
  BY <1>1, <1>9 DEF processorVars
<1>10. ASSUME \/ QueueMessage \/ RequestRelayout \/ ProcessEvents \/ RefuseProcessEvents
              \/ ForceRelayout \/ EventsStep \/ EventsRelayout \/ EventsEnd
              \/ NotificationsDone \/ SkipLoop \/ RunProcessor \/ SkipProcessor
              \/ ProcessReturns \/ Relayout \/ Negotiated \/ FlushQueue
       PROVE  UNCHANGED processorVars
  BY <1>10, Zenon
     DEF QueueMessage, RequestRelayout, ProcessEvents, RefuseProcessEvents, ForceRelayout,
         RelayoutAndFlush, EventsStep, EventsRelayout, EventsEnd, NotificationsDone, SkipLoop,
         RunProcessor, SkipProcessor, ProcessReturns, Relayout, Negotiated, FlushQueue
<1>11. CASE UNCHANGED vars
  BY <1>9, <1>11 DEF vars
<1> QED
  BY <1>2, <1>3, <1>4, <1>5, <1>6, <1>7, <1>8, <1>9, <1>10, <1>11, Zenon DEF Next

\* The flags are flags.
LEMMA FlagTypesStep == TypeOK /\ [Next]_vars => FlagTypes'
<1> SUFFICES ASSUME TypeOK, [Next]_vars PROVE FlagTypes'
  OBVIOUS
<1>1. FlagTypes
  BY TypeParts
<1> USE DEF FlagTypes
<1>2. CASE UNCHANGED flagVars
  BY <1>1, <1>2, Zenon DEF flagVars, relayoutVars, messageVars
<1>3. ASSUME \/ RegisterProcessor \/ UnregisterProcessor
             \/ RegisterProcessorOnce \/ UnregisterProcessorOnce
             \/ EventsStep \/ SkipLoop \/ BeginLoop \/ RunProcessor \/ SkipProcessor
             \/ ProcessReturns \/ EndLoop \/ Negotiated \/ UNCHANGED vars
      PROVE  UNCHANGED flagVars
  BY <1>3, Zenon
     DEF RegisterProcessor, UnregisterProcessor, RegisterProcessorOnce, UnregisterProcessorOnce,
         EventsStep, SkipLoop, BeginLoop, RunProcessor, SkipProcessor, ProcessReturns, EndLoop,
         Negotiated, vars
<1>4. CASE SceneDestroyed
  BY <1>1, <1>4, Zenon DEF SceneDestroyed, messageVars
<1>5. CASE QueueMessage
  BY <1>1, <1>5, Zenon DEF QueueMessage, Announced, relayoutVars
<1>6. CASE RequestRelayout
  BY <1>1, <1>6, Zenon DEF RequestRelayout, Announced, messageVars
<1>7. CASE ProcessEvents
  BY <1>1, <1>7, Zenon DEF ProcessEvents, SetProcessing
<1>8. CASE RefuseProcessEvents
  BY <1>1, <1>8, Zenon DEF RefuseProcessEvents, relayoutVars, messageVars
<1>9. CASE ForceRelayout
  BY <1>1, <1>9, Zenon DEF ForceRelayout, RelayoutAndFlush, SetProcessing
<1>10. CASE EventsRelayout
  BY <1>1, <1>10, Zenon DEF EventsRelayout, relayoutVars, messageVars
<1>11. CASE EventsEnd
  BY <1>1, <1>11, Zenon DEF EventsEnd, SetProcessing
<1>12. CASE NotificationsDone
  BY <1>1, <1>12, Zenon DEF NotificationsDone, relayoutVars, messageVars
<1>13. CASE Relayout
  BY <1>1, <1>13, Zenon DEF Relayout, messageVars
<1>14. CASE FlushQueue
  BY <1>1, <1>14, Zenon DEF FlushQueue, SetProcessing
<1> QED
  BY <1>2, <1>3, <1>4, <1>5, <1>6, <1>7, <1>8, <1>9, <1>10, <1>11, <1>12, <1>13, <1>14, Zenon
     DEF Next

-----------------------------------------------------------------------------
(* Calls.                                                                    *)

LEMMA NewFrames ==
  /\ [call |-> "events", pc |-> "scenes", faked |-> FALSE] \in Frame
  /\ \A b \in BOOLEAN, place \in {"once", "notify"} : [call |-> "pre", faked |-> b, pc |-> place] \in Frame
  /\ \A b \in BOOLEAN, place \in {"once", "notify"} : [call |-> "pre", pc |-> place, faked |-> b] \in Frame
  BY DEF Frame, Callbacks, Phases

\* A call goes on: what it needs to do to keep Nested.
Moved(f) == /\ stack' \in Seq(Frame) /\ Len(stack') = Len(stack) /\ stack' # << >>
            /\ Top' = f
            /\ \A i \in 1 .. Len(stack) - 1 : stack'[i] = stack[i]

LEMMA MovedKeepsNested ==
  ASSUME stack \in Seq(Frame), stack # << >>, Nested, NEW f, Moved(f),
         f.faked = Top.faked, f.call = "events" <=> Top.call = "events",
         Len(stack) = 2 => Relaying(f), flushing' = Relaying(f),
         processing' = processing, coreEvents' = coreEvents, queueing' = queueing
  PROVE  Nested'
<1>1. Len(stack) \in 1 .. 2
  <2>1. Len(stack) \in Nat /\ Len(stack) # 0
    BY StackFacts
  <2>2. Len(stack) <= 2
    BY DEF Nested
  <2>3. PICK n \in Nat : n = Len(stack)
    BY <2>1
  <2>4. n \in 1 .. 2
    BY <2>1, <2>2, <2>3
  <2> QED
    BY <2>3, <2>4
<1>2. CASE Len(stack) = 1
  <2>1. stack'[1] = f /\ stack[1] = Top /\ Len(stack') = 1
    BY <1>2 DEF Moved, Top
  <2>2. (stack[1].call # "events" <=> stack[1].faked) /\ processing = TRUE /\ coreEvents /\ queueing
    BY DEF Nested
  <2>3. stack'[1].call # "events" <=> stack'[1].faked
    BY <2>1, <2>2
  <2>4. stack' # << >> /\ Top' = f
    BY DEF Moved
  <2>5. processing' = (stack' # << >>) /\ coreEvents' = processing' /\ queueing' = processing'
    BY <2>4 DEF Nested
  <2>6. flushing' = (stack' # << >> /\ Relaying(Top'))
    BY <2>4, Zenon DEF Relaying
  <2> QED
    BY <2>1, <2>3, <2>5, <2>6 DEF Nested
<1>3. CASE Len(stack) = 2
  <2>1. stack'[2] = f /\ stack[2] = Top /\ Len(stack') = 2 /\ stack'[1] = stack[1]
    BY <1>3 DEF Moved, Top
  <2>2. /\ stack[1].call # "events" <=> stack[1].faked
        /\ processing = TRUE /\ coreEvents /\ queueing
        /\ ~Relaying(stack[1]) /\ ~stack[2].faked
    BY <1>3 DEF Nested
  <2>3. ~Relaying(stack'[1]) /\ Relaying(stack'[2]) /\ ~stack'[2].faked
    BY <1>3, <2>1, <2>2
  <2> QED
    BY <2>1, <2>2, <2>3 DEF Nested, Moved
<1> QED
  BY <1>1, <1>2, <1>3

\* The steps that stay within the innermost call.
MovingSteps == EventsStep \/ NotificationsDone \/ SkipLoop \/ EndLoop \/ Relayout \/ Negotiated

\* Where they lead: a relayout goes on behind its notifications, a ProcessEvents
\* comes to its next step.
LEMMA MovingFacts ==
  ASSUME TypeOK, MovingSteps
  PROVE  /\ stack # << >>
         /\ \E f \in Frame :
              /\ Moved(f) /\ f.faked = Top.faked
              /\ \/ Top.call = "events" /\ f.call = "events" /\ f.pc \in {"notify", "finished"}
                 \/ Top.call \in Phases /\ Relaying(f)
<1>a. stack \in Seq(Frame) /\ LoopTypes
  BY TypeParts
<1>b. ASSUME stack # << >> PROVE Top \in Frame
  BY <1>a, <1>b, StackFacts DEF Top
<1>c. ASSUME stack # << >>, NEW place \in PCs, GoTo(place)
      PROVE  [Top EXCEPT !.pc = place] \in Frame /\ Moved([Top EXCEPT !.pc = place])
  <2>1. [Top EXCEPT !.pc = place] \in Frame
    BY <1>b, <1>c DEF Frame, PCs
  <2> QED
    BY <1>a, <1>c, <2>1, GoToFacts DEF Moved
<1>d. ASSUME stack # << >>, NEW place \in PCs, GoTo(place)
      PROVE  LET f == [Top EXCEPT !.pc = place]
             IN  f \in Frame /\ Moved(f) /\ f.faked = Top.faked /\ f.call = Top.call /\ f.pc = place
  <2>1. Top \in Frame
    BY <1>b, <1>d
  <2>2. LET f == [Top EXCEPT !.pc = place] IN f.faked = Top.faked /\ f.call = Top.call /\ f.pc = place
    BY <2>1 DEF Frame
  <2> QED
    BY <1>c, <1>d, <2>2
<1>e. ASSUME stack # << >>,
             stack' = [stack EXCEPT ![Len(stack)].call = "post", ![Len(stack)].pc = "once"]
      PROVE  \E f \in Frame : /\ Moved(f) /\ f.faked = Top.faked
                              /\ f.call = "post" /\ f.pc = "once"
  <2> DEFINE f == [Top EXCEPT !.call = "post", !.pc = "once"]
  <2>1. f \in Frame /\ f.faked = Top.faked /\ f.call = "post" /\ f.pc = "once"
    BY <1>b, <1>e DEF Frame, Phases, Callbacks
  <2>2. stack' = [stack EXCEPT ![Len(stack)] = f]
    BY <1>e, <1>a DEF Top
  <2>3. Moved(f)
    <3> HIDE DEF f
    <3>1. /\ stack' \in Seq(Frame) /\ Len(stack') = Len(stack) /\ stack' # << >>
          /\ stack'[Len(stack)] = f
          /\ \A i \in 1 .. Len(stack) - 1 : stack'[i] = stack[i]
      <4> DEFINE s == [stack EXCEPT ![Len(stack)] = f]
      <4>1. /\ s \in Seq(Frame) /\ Len(s) = Len(stack) /\ s # << >>
            /\ s[Len(stack)] = f /\ \A i \in 1 .. Len(stack) - 1 : s[i] = stack[i]
        BY <1>a, <1>e, <2>1, StackFacts
      <4>2. stack' = s
        BY <2>2
      <4> HIDE DEF s
      <4> QED
        BY <4>1, <4>2
    <3> QED
      BY <3>1 DEF Moved, Top
  <2> QED
    BY <2>1, <2>3
<1>1. CASE EventsStep
  <2>1. PICK place \in {"notify", "finished"} : GoTo(place)
    BY <1>1 DEF EventsStep
  <2>2. stack # << >> /\ Top.call = "events" /\ place \in PCs
    BY <1>1 DEF EventsStep, AtStep, PCs, Callbacks
  <2> QED
    BY <1>d, <2>1, <2>2
<1>2. CASE NotificationsDone
  <2>1. stack # << >> /\ Top.call \in Phases /\ GoTo("once") /\ "once" \in PCs
    BY <1>2 DEF NotificationsDone, InLoops, PCs
  <2> QED
    BY <1>d, <2>1 DEF Relaying
<1>3. ASSUME NEW kind, NEW ph, stack # << >>, Top.call \in Phases, GoTo(AfterLoop(kind, ph))
      PROVE  /\ stack # << >>
             /\ \E f \in Frame : /\ Moved(f) /\ f.faked = Top.faked
                                 /\ Top.call \in Phases /\ Relaying(f)
  <2>1. AfterLoop(kind, ph) \in PCs /\ AfterLoop(kind, ph) # "notify"
    BY DEF AfterLoop, PCs
  <2> QED
    BY <1>3, <1>d, <2>1 DEF Relaying
<1>4. CASE SkipLoop
  BY <1>3, <1>4 DEF SkipLoop, InLoops
<1>5. CASE EndLoop
  BY <1>3, <1>5 DEF EndLoop, InLoop, InLoops
<1>6. CASE Relayout
  <2>1. stack # << >> /\ Top.call \in Phases
    BY <1>6 DEF Relayout, InLoops
  <2>2. CASE GoTo("negotiate")
    <3>1. "negotiate" \in PCs
      BY DEF PCs, Callbacks
    <3> QED
      BY <1>d, <2>1, <2>2, <3>1 DEF Relaying
  <2>3. CASE stack' = [stack EXCEPT ![Len(stack)].call = "post", ![Len(stack)].pc = "once"]
    BY <1>e, <2>1, <2>3 DEF Relaying, Phases
  <2> QED
    BY <1>6, <2>2, <2>3, Zenon DEF Relayout
<1>7. CASE Negotiated
  BY <1>7, <1>e DEF Negotiated, InLoops, Relaying, Phases
<1> QED
  BY <1>1, <1>2, <1>4, <1>5, <1>6, <1>7 DEF MovingSteps

\* The steps that leave the calls alone.
StandingSteps ==
  \/ RegisterProcessor \/ UnregisterProcessor
  \/ RegisterProcessorOnce \/ UnregisterProcessorOnce \/ SceneDestroyed
  \/ QueueMessage \/ RequestRelayout \/ RefuseProcessEvents
  \/ BeginLoop \/ RunProcessor \/ SkipProcessor \/ ProcessReturns \/ UNCHANGED vars

LEMMA StandingFacts ==
  StandingSteps => UNCHANGED <<stack, processing, flushing, coreEvents, queueing>>
  BY Zenon
     DEF StandingSteps, RegisterProcessor, UnregisterProcessor, RegisterProcessorOnce,
         UnregisterProcessorOnce, SceneDestroyed, QueueMessage, RequestRelayout,
         RefuseProcessEvents, BeginLoop, RunProcessor, SkipProcessor, ProcessReturns,
         flagVars, relayoutVars, messageVars, vars

\* A call begins or ends.
LEMMA StackTypesStep == TypeOK /\ [Next]_vars => stack' \in Seq(Frame)
<1> SUFFICES ASSUME TypeOK, [Next]_vars PROVE stack' \in Seq(Frame)
  OBVIOUS
<1>a. stack \in Seq(Frame) /\ processing \in BOOLEAN
  BY TypeParts DEF FlagTypes
<1>1. CASE MovingSteps
  BY <1>1, MovingFacts DEF Moved
<1>2. CASE StandingSteps
  BY <1>a, <1>2, StandingFacts
<1>3. CASE ProcessEvents
  BY <1>a, <1>3, NewFrames, StackFacts DEF ProcessEvents
<1>4. CASE ForceRelayout
  <2>1. PICK b \in BOOLEAN, place \in {"once", "notify"} :
          stack' = Append(stack, [call |-> "pre", faked |-> b, pc |-> place])
    BY <1>a, <1>4 DEF ForceRelayout, RelayoutAndFlush
  <2> QED
    BY <1>a, <2>1, NewFrames, StackFacts
<1>5. CASE EventsRelayout
  <2> DEFINE f == [Top EXCEPT !.pc = "end"]
             below == [stack EXCEPT ![Len(stack)] = f]
             g == [call |-> "pre", pc |-> "once", faked |-> FALSE]
  <2>1. stack # << >> /\ stack' = Append(below, g)
    BY <1>5 DEF EventsRelayout, AtStep, Top
  <2>2. f \in Frame
    <3>1. Top \in Frame
      BY <1>a, <2>1, StackFacts DEF Top
    <3> QED
      BY <3>1 DEF Frame
  <2>3. below \in Seq(Frame) /\ g \in Frame
    <3> HIDE DEF f
    <3> QED
      BY <1>a, <2>1, <2>2, StackFacts, NewFrames
  <2> HIDE DEF below, g
  <2> QED
    BY <2>1, <2>3, StackFacts
<1>6. CASE EventsEnd \/ FlushQueue
  <2>1. stack # << >> /\ stack' = Front(stack)
    BY <1>6 DEF EventsEnd, FlushQueue, AtStep, InLoops
  <2> QED
    BY <1>a, <2>1, StackFacts
<1> QED
  BY <1>1, <1>2, <1>3, <1>4, <1>5, <1>6, Zenon DEF Next, MovingSteps, StandingSteps

\* Every step keeps calls nested as they are.
LEMMA NestedStep == TypeOK /\ Nested /\ [Next]_vars => Nested'
<1> SUFFICES ASSUME TypeOK, Nested, [Next]_vars PROVE Nested'
  OBVIOUS
<1>a. stack \in Seq(Frame) /\ FlagTypes
  BY TypeParts
<1>b. /\ processing = (stack # << >>) /\ coreEvents = processing /\ queueing = processing
      /\ flushing = (stack # << >> /\ Relaying(Top))
  BY DEF Nested
<1>c. Len(stack) \in {0, 1, 2} /\ (stack = << >> <=> Len(stack) = 0)
  <2>1. PICK n \in Nat : n = Len(stack)
    BY <1>a
  <2>2. n <= 2
    BY <2>1 DEF Nested
  <2>3. n \in {0, 1, 2}
    BY <2>2
  <2> QED
    BY <2>1, <2>3, <1>a, StackFacts
<1>d. /\ stack # << >> => (stack[1].call # "events" <=> stack[1].faked)
      /\ Len(stack) = 1 => Top = stack[1]
      /\ Len(stack) = 2 => /\ Top = stack[2]
                           /\ ~Relaying(stack[1]) /\ Relaying(stack[2]) /\ ~stack[2].faked
  BY DEF Nested, Top
<1>1. CASE MovingSteps
  <2>1. stack # << >>
    BY <1>1, MovingFacts
  <2>2. PICK f \in Frame :
          /\ Moved(f) /\ f.faked = Top.faked
          /\ \/ Top.call = "events" /\ f.call = "events" /\ f.pc \in {"notify", "finished"}
             \/ Top.call \in Phases /\ Relaying(f)
    BY <1>1, MovingFacts
  <2>3. f.call = "events" <=> Top.call = "events"
    BY <2>2 DEF Relaying, Phases
  <2>4. Len(stack) = 2 => Relaying(f)
    <3>1. Len(stack) = 2 => Top.call # "events"
      BY <1>d DEF Relaying, Phases
    <3> QED
      BY <2>2, <3>1
  <2>5. UNCHANGED <<processing, coreEvents, queueing>>
    BY <1>1, Zenon DEF MovingSteps, EventsStep, NotificationsDone, SkipLoop, EndLoop, Relayout,
       Negotiated, flagVars, relayoutVars, messageVars
  <2>6. flushing' = Relaying(f)
    <3>1. CASE NotificationsDone
      <4>1. flushing' = TRUE /\ Top.call # "events"
        BY <3>1 DEF NotificationsDone, InLoops, Phases
      <4> QED
        BY <2>2, <4>1, Zenon DEF Relaying
    <3>2. CASE EventsStep
      <4>1. flushing' = flushing /\ Top.call = "events"
        BY <3>2 DEF EventsStep, AtStep, flagVars
      <4>2. "events" \notin Phases
        BY DEF Phases
      <4>3. ~Relaying(Top)
        BY <4>1, <4>2 DEF Relaying
      <4>4. ~Relaying(f)
        BY <2>2, <4>1, <4>2 DEF Relaying
      <4> QED
        BY <1>b, <4>1, <4>3, <4>4, Zenon DEF Relaying
    <3>3. CASE SkipLoop \/ EndLoop \/ Relayout \/ Negotiated
      <4>1. flushing' = flushing /\ Top.call \in Phases /\ Top.call # "events"
        BY <3>3, Zenon DEF SkipLoop, EndLoop, Relayout, Negotiated, InLoop, InLoops, flagVars, Phases
      <4>2. Top.pc # "notify"
        <5>1. CASE SkipLoop
          BY <5>1 DEF SkipLoop, InLoops
        <5>2. CASE EndLoop
          BY <5>2, TypeParts DEF EndLoop, InLoop, InLoops, LoopTypes, Loop
        <5>3. CASE Relayout \/ Negotiated
          BY <5>3 DEF Relayout, Negotiated, InLoops
        <5> QED
          BY <3>3, <5>1, <5>2, <5>3
      <4>3. Relaying(Top)
        BY <4>1, <4>2 DEF Relaying
      <4>4. Relaying(f)
        BY <2>2, <4>1
      <4> QED
        BY <1>b, <2>1, <4>1, <4>3, <4>4, Zenon
    <3> QED
      BY <1>1, <3>1, <3>2, <3>3 DEF MovingSteps
  <2> QED
    BY <1>a, <2>1, <2>2, <2>3, <2>4, <2>5, <2>6, MovedKeepsNested
<1>2. CASE StandingSteps
  <2>1. UNCHANGED <<stack, processing, flushing, coreEvents, queueing>>
    BY <1>2, StandingFacts
  <2> QED
    BY <2>1 DEF Nested, Top, Relaying
<1>3. CASE ProcessEvents
  <2> DEFINE f == [call |-> "events", pc |-> "scenes", faked |-> FALSE]
  <2>1. stack = << >> /\ stack' = Append(stack, f) /\ SetProcessing(TRUE) /\ flushing' = flushing
    BY <1>3, <1>b DEF ProcessEvents
  <2>2. f.call = "events" /\ f.faked = FALSE /\ ~Relaying(f)
    BY DEF Relaying, Phases
  <2> HIDE DEF f
  <2>3. Len(stack') = 1 /\ stack'[1] = f /\ stack' # << >>
    BY <2>1, SMT
  <2>4. Top' = f /\ flushing = FALSE
    BY <2>1, <2>3, <1>b DEF Top
  <2>5. flushing' = (stack' # << >> /\ Relaying(Top'))
    BY <2>1, <2>2, <2>3, <2>4, Zenon DEF Relaying
  <2>6. processing' = (stack' # << >>) /\ coreEvents' = processing' /\ queueing' = processing'
    BY <2>1, <2>3, Zenon DEF SetProcessing
  <2>7. stack'[1].call # "events" <=> stack'[1].faked
    BY <2>2, <2>3
  <2> QED
    BY <2>3, <2>5, <2>6, <2>7 DEF Nested
<1>4. CASE ForceRelayout
  <2> DEFINE f == [call |-> "pre", faked |-> ~processing,
                   pc |-> IF processing THEN "once" ELSE "notify"]
  <2>1. ~flushing /\ stack' = Append(stack, f) /\ SetProcessing(TRUE) /\ flushing' = processing
    BY <1>4 DEF ForceRelayout, RelayoutAndFlush, RelayoutMayStart
  <2>2. f.call = "pre" /\ f.faked = ~processing
        /\ f.pc = (IF processing THEN "once" ELSE "notify") /\ (processing \in BOOLEAN)
    BY <1>a DEF FlagTypes
  <2>3. Relaying(f) = processing
    BY <2>2, Zenon DEF Relaying, Phases
  <2> HIDE DEF f
  <2>4. Len(stack) \in {0, 1}
    BY <1>b, <1>c, <1>d, <2>1
  <2>5. Len(stack') = Len(stack) + 1 /\ Top' = f /\ stack' # << >>
        /\ stack'[Len(stack) + 1] = f /\ \A i \in 1 .. Len(stack) : stack'[i] = stack[i]
    BY <1>a, <2>1, <2>4 DEF Top
  <2>6. flushing' = (stack' # << >> /\ Relaying(Top'))
    <3>1. flushing' = Relaying(f)
      BY <2>1, <2>3, Zenon
    <3>2. Relaying(f) \in BOOLEAN
      BY Zenon DEF Relaying
    <3> QED
      BY <2>5, <3>1, <3>2, Zenon
  <2>a. processing' = (stack' # << >>) /\ coreEvents' = processing' /\ queueing' = processing'
    BY <2>1, <2>5, Zenon DEF SetProcessing
  <2>7. CASE Len(stack) = 0
    <3>1. Len(stack') = 1 /\ stack'[1] = f
      BY <2>5, <2>7
    <3>3. processing = FALSE
      BY <1>b, <1>c, <2>7
    <3>2. stack'[1].call # "events" <=> stack'[1].faked
      BY <2>2, <3>1, <3>3
    <3> QED
      BY <2>a, <2>6, <3>1, <3>2 DEF Nested
  <2>8. CASE Len(stack) = 1
    <3>1. Len(stack') = 2 /\ stack'[1] = stack[1] /\ stack'[2] = f
      <4>1. 1 \in 1 .. Len(stack) /\ Len(stack) + 1 = 2
        BY <2>8
      <4> QED
        BY <2>5, <4>1
    <3>5. processing = TRUE
      <4>1. stack # << >>
        BY <1>c, <2>8
      <4> QED
        BY <1>b, <4>1, Zenon
    <3>2. ~Relaying(stack[1])
      BY <1>b, <1>c, <1>d, <2>1, <2>8
    <3>3. stack'[1].call # "events" <=> stack'[1].faked
      BY <1>c, <1>d, <2>8, <3>1
    <3>4. ~Relaying(stack'[1]) /\ Relaying(stack'[2]) /\ ~stack'[2].faked
      BY <2>2, <2>3, <3>1, <3>2, <3>5
    <3> QED
      BY <2>a, <2>6, <3>1, <3>3, <3>4 DEF Nested
  <2> QED
    BY <2>4, <2>7, <2>8
<1>5. CASE EventsRelayout
  <2> DEFINE f == [Top EXCEPT !.pc = "end"]
             below == [stack EXCEPT ![Len(stack)] = f]
             g == [call |-> "pre", pc |-> "once", faked |-> FALSE]
  <2>1. stack # << >> /\ Top.call = "events" /\ stack' = Append(below, g)
        /\ UNCHANGED <<processing, coreEvents, queueing>> /\ flushing' = TRUE
    BY <1>5 DEF EventsRelayout, AtStep, Top, relayoutVars, messageVars
  <2>2. Top \in Frame
    BY <1>a, <2>1, StackFacts DEF Top
  <2>3. f \in Frame /\ f.call = "events" /\ f.faked = Top.faked
    BY <2>1, <2>2 DEF Frame
  <2>4. ~Relaying(f) /\ ~Relaying(Top)
    BY <2>1, <2>3 DEF Relaying, Phases
  <2>5. Len(stack) = 1 /\ Top = stack[1] /\ ~f.faked
    BY <2>1, <2>3, <2>4, <1>c, <1>d
  <2>6. g \in Frame /\ Relaying(g) /\ g.faked = FALSE
    BY NewFrames DEF Relaying, Phases
  <2> HIDE DEF f, g
  <2>7. below \in Seq(Frame) /\ Len(below) = 1 /\ below[1] = f
    BY <1>a, <2>1, <2>3, <2>5, StackFacts
  <2> HIDE DEF below
  <2>8. Len(stack') = 2 /\ stack'[1] = f /\ stack'[2] = g /\ stack' # << >>
    <3>1. /\ Append(below, g) # << >> /\ Len(Append(below, g)) = 1 + 1
          /\ Append(below, g)[1 + 1] = g /\ Append(below, g)[1] = below[1]
      <4>1. /\ Append(below, g) # << >> /\ Len(Append(below, g)) = Len(below) + 1
            /\ Append(below, g)[Len(below) + 1] = g
            /\ \A i \in 1 .. Len(below) : Append(below, g)[i] = below[i]
        <5>1. g \in Frame
          BY <2>6
        <5>2. below \in Seq(Frame)
          BY <2>7
        <5> QED
          BY ONLY <5>1, <5>2, AppendProperties
      <4>2. 1 \in 1 .. Len(below) /\ Len(below) = 1
        BY <2>7
      <4> QED
        BY <4>1, <4>2
    <3> QED
      BY <2>1, <2>7, <3>1
  <2>9. Top' = g
    BY <2>8 DEF Top
  <2>10. flushing' = (stack' # << >> /\ Relaying(Top'))
    BY <2>1, <2>6, <2>8, <2>9, Zenon DEF Relaying
  <2>11. (stack'[1].call # "events" <=> stack'[1].faked)
    BY <2>3, <2>5, <2>8
  <2>12. ~Relaying(stack'[1]) /\ Relaying(stack'[2]) /\ ~stack'[2].faked
    BY <2>4, <2>6, <2>8
  <2> QED
    BY <1>b, <2>1, <2>8, <2>10, <2>11, <2>12 DEF Nested
<1>6. CASE EventsEnd
  <2>1. stack # << >> /\ Top.call = "events" /\ stack' = Front(stack)
        /\ SetProcessing(FALSE) /\ flushing' = flushing
    BY <1>6 DEF EventsEnd, AtStep
  <2>2. ~Relaying(Top)
    BY <2>1 DEF Relaying, Phases
  <2>3. Len(stack) = 1
    BY <2>1, <2>2, <1>c, <1>d
  <2>4. stack' = << >> /\ Len(stack') = 0
    BY <1>a, <2>1, <2>3, StackFacts
  <2>5. flushing' = FALSE
    BY <1>b, <2>1, <2>2
  <2>6. processing' = (stack' # << >>) /\ coreEvents' = processing' /\ queueing' = processing'
    BY <2>1, <2>4, Zenon DEF SetProcessing
  <2>7. flushing' = (stack' # << >> /\ Relaying(Top'))
    BY <2>4, <2>5, Zenon
  <2>8. Len(stack') <= 2 /\ Len(stack') # 2
    BY <2>4
  <2> QED
    BY <2>4, <2>6, <2>7, <2>8, Zenon DEF Nested, Relaying
<1>7. CASE FlushQueue
  <2>1. stack # << >> /\ Top.call \in Phases /\ Top.pc = "flush" /\ stack' = Front(stack)
        /\ flushing' = FALSE
    BY <1>7 DEF FlushQueue, InLoops
  <2>2. IF Top.faked THEN SetProcessing(FALSE) ELSE UNCHANGED <<processing, coreEvents, queueing>>
    BY <1>7, Zenon DEF FlushQueue
  <2>3. /\ stack' \in Seq(Frame) /\ Len(stack') = Len(stack) - 1
        /\ (stack' = << >> <=> Len(stack') = 0)
        /\ \A i \in 1 .. Len(stack) - 1 : stack'[i] = stack[i]
    BY <1>a, <2>1, StackFacts
  <2>4. CASE Len(stack) = 1
    <3>1. Top = stack[1] /\ Top.call # "events" /\ stack' = << >> /\ Len(stack') = 0
      BY <1>d, <2>1, <2>3, <2>4 DEF Phases
    <3>2. SetProcessing(FALSE)
      BY <1>d, <2>1, <2>2, <3>1
    <3>3. processing' = (stack' # << >>) /\ coreEvents' = processing' /\ queueing' = processing'
      BY <3>1, <3>2, Zenon DEF SetProcessing
    <3>4. flushing' = (stack' # << >> /\ Relaying(Top'))
      BY <2>1, <3>1, Zenon
    <3>5. Len(stack') <= 2 /\ Len(stack') # 2
      BY <3>1
    <3> QED
      BY <3>1, <3>3, <3>4, <3>5, Zenon DEF Nested, Relaying
  <2>5. CASE Len(stack) = 2
    <3>1. Len(stack') = 1 /\ stack'[1] = stack[1] /\ stack' # << >> /\ ~Top.faked
      BY <1>d, <2>3, <2>5
    <3>2. Top' = stack[1] /\ ~Relaying(stack[1])
      BY <1>d, <2>5, <3>1 DEF Top
    <3>3. flushing' = (stack' # << >> /\ Relaying(Top'))
      BY <2>1, <3>2, Zenon
    <3>4. UNCHANGED <<processing, coreEvents, queueing>>
      BY <2>2, <3>1
    <3>5. stack'[1].call # "events" <=> stack'[1].faked
      BY <1>d, <2>1, <3>1
    <3> QED
      BY <1>b, <2>1, <3>1, <3>3, <3>4, <3>5 DEF Nested
  <2> QED
    BY <1>c, <2>1, <2>4, <2>5
<1> QED
  BY <1>1, <1>2, <1>3, <1>4, <1>5, <1>6, <1>7, Zenon DEF Next, MovingSteps, StandingSteps

-----------------------------------------------------------------------------
(* Loops.                                                                    *)

\* The steps that leave the loop and its history alone.
LoopIdleSteps ==
  \/ RegisterProcessor \/ RegisterProcessorOnce \/ QueueMessage \/ RequestRelayout
  \/ ProcessEvents \/ RefuseProcessEvents \/ ForceRelayout \/ EventsStep \/ EventsRelayout
  \/ EventsEnd \/ NotificationsDone \/ SkipLoop \/ Relayout \/ Negotiated \/ FlushQueue
  \/ UNCHANGED vars

LEMMA LoopIdleFacts == LoopIdleSteps => UNCHANGED <<loop, ran, erased>>
  BY Zenon
     DEF LoopIdleSteps, RegisterProcessor, RegisterProcessorOnce, QueueMessage, RequestRelayout,
         ProcessEvents, RefuseProcessEvents, ForceRelayout, RelayoutAndFlush, EventsStep,
         EventsRelayout, EventsEnd, NotificationsDone, SkipLoop, Relayout, Negotiated,
         FlushQueue, loopVars, vars

\* The loop and its history have their types.
LEMMA LoopTypesStep == TypeOK /\ Looping /\ [Next]_vars => LoopTypes'
<1> SUFFICES ASSUME TypeOK, Looping, [Next]_vars PROVE LoopTypes'
  OBVIOUS
<1>a. LoopTypes /\ ListTypes
  BY TypeParts
<1>b. loop \in Loop /\ loop.at \in Nat /\ ran \in Seq(Nat) /\ erased \subseteq Processors
  BY <1>a DEF LoopTypes, Loop
<1>c. ASSUME NEW p \in Processors, NEW kind, NEW ph, Erases(p, kind, ph), UNCHANGED <<loop, ran>>
      PROVE  LoopTypes'
  BY <1>b, <1>c DEF Erases, LoopTypes
<1>d. << >> \in Seq(Nat)
  BY EmptySeq
<1>1. CASE LoopIdleSteps
  BY <1>a, <1>1, LoopIdleFacts DEF LoopTypes
<1>2. CASE UnregisterProcessor
  BY <1>2, <1>c DEF UnregisterProcessor
<1>3. CASE UnregisterProcessorOnce
  BY <1>3, <1>c DEF UnregisterProcessorOnce
<1>4. CASE SceneDestroyed
  BY <1>4, <1>b DEF SceneDestroyed, LoopTypes
<1>5. CASE BeginLoop
  <2>1. PICK kind \in {"once", "list"} :
          /\ InLoops(kind)
          /\ loop' = [kind |-> kind, phase |-> Top.call, index |-> onceIndex[Top.call],
                      copy |-> ListToRun(kind, Top.call), at |-> 1, running |-> FALSE]
    BY <1>5, Zenon DEF BeginLoop
  <2>2. Top.call \in Phases
    BY <2>1 DEF InLoops
  <2>3. onceIndex[Top.call] \in 0 .. 1 /\ list[Top.call] \in Seq(Processors)
    BY <1>a, <2>2 DEF ListTypes
  <2>4. once[Top.call][onceIndex[Top.call]] \in Seq(Processors)
    BY <1>a, <2>2, <2>3 DEF ListTypes
  <2>5. ListToRun(kind, Top.call) \in Seq(Processors)
    BY <2>3, <2>4 DEF ListToRun
  <2>6. loop' \in Loop
    BY <2>1, <2>2, <2>3, <2>5 DEF Loop
  <2>7. ran' = << >> /\ erased' = {}
    BY <1>5 DEF BeginLoop
  <2> QED
    BY <1>d, <2>6, <2>7 DEF LoopTypes
<1>6. CASE RunProcessor
  <2>1. loop' \in Loop
    BY <1>b, <1>6 DEF RunProcessor, Loop
  <2>2. ran' \in Seq(Nat) /\ erased' = erased
    BY <1>b, <1>6 DEF RunProcessor
  <2> QED
    BY <1>b, <2>1, <2>2 DEF LoopTypes
<1>7. CASE SkipProcessor
  BY <1>b, <1>7 DEF SkipProcessor, Loop, LoopTypes
<1>8. CASE ProcessReturns
  <2> DEFINE stopped == [loop EXCEPT !.running = FALSE]
  <2>1. stopped \in Loop /\ stopped.at = loop.at
    BY <1>b DEF Loop
  <2>2. loop' = [stopped EXCEPT !.at = @ + 1]
    BY <1>8 DEF ProcessReturns
  <2> HIDE DEF stopped
  <2>3. loop' \in Loop
    BY <1>b, <2>1, <2>2 DEF Loop
  <2> QED
    BY <1>b, <1>8, <2>3 DEF ProcessReturns, LoopTypes
<1>9. CASE EndLoop
  BY <1>d, <1>9, NoLoopFacts DEF EndLoop, LoopTypes
<1> QED
  BY <1>1, <1>2, <1>3, <1>4, <1>5, <1>6, <1>7, <1>8, <1>9, Zenon DEF Next, LoopIdleSteps

LEMMA TypeStep == TypeOK /\ Looping /\ [Next]_vars => TypeOK'
<1> SUFFICES ASSUME TypeOK, Looping, [Next]_vars PROVE TypeOK'
  OBVIOUS
<1>1. ListTypes' /\ FlagTypes' /\ stack' \in Seq(Frame) /\ LoopTypes'
  BY ListTypesStep, FlagTypesStep, StackTypesStep, LoopTypesStep
<1> QED
  BY <1>1 DEF TypeOK, ListTypes, FlagTypes, LoopTypes

\* A loop is in progress only in a relayout that is past its notifications.
LEMMA InLoopFacts ==
  ASSUME Nested, Looping, loop # NoLoop
  PROVE  /\ stack # << >> /\ Top.call \in Phases /\ Top.call # "events" /\ Top.pc = loop.kind
         /\ Top.pc \in {"once", "list"} /\ flushing = TRUE /\ processing = TRUE
<1>1. InTop
  BY DEF Looping
<1>2. stack # << >> /\ Top.call \in Phases /\ Top.call # "events"
      /\ Top.pc = loop.kind /\ Top.pc \in {"once", "list"}
  BY <1>1 DEF InTop, Phases
<1>3. Relaying(Top)
  BY <1>2 DEF Relaying
<1>4. flushing = TRUE /\ processing = TRUE
  BY <1>2, <1>3, Zenon DEF Nested, Relaying
<1> QED
  BY <1>2, <1>4

\* A message that nobody announced has a FlushQueue before it.
LEMMA WillFlushStep == TypeOK /\ Nested /\ WillFlush /\ Looping /\ [Next]_vars => WillFlush'
<1> SUFFICES ASSUME TypeOK, Nested, WillFlush, Looping, [Next]_vars PROVE WillFlush'
  OBVIOUS
<1>a. stack \in Seq(Frame)
  BY TypeParts
<1>b. ASSUME NEW f, stack' # << >>, Top' = f, ~(f.call = "events" /\ f.pc = "end")
      PROVE  WillFlush'
  BY <1>b DEF WillFlush
<1>1. CASE MovingSteps
  <2>1. PICK f \in Frame : /\ Moved(f)
                           /\ \/ f.call = "events" /\ f.pc \in {"notify", "finished"}
                              \/ Relaying(f)
    BY <1>1, MovingFacts
  <2> QED
    BY <1>b, <2>1 DEF Moved, Relaying, Phases
<1>2. CASE QueueMessage
  <2>1. CASE queueing
    <3>1. stack # << >>
      BY <2>1, Zenon DEF Nested
    <3>2. loop.running \/ Top.pc \in Callbacks
      BY <1>2, <3>1 DEF QueueMessage, Application
    <3>3. loop.running => Top.call # "events"
      BY InLoopFacts, NoLoopFacts
    <3>4. ~(Top.call = "events" /\ Top.pc = "end")
      BY <3>2, <3>3 DEF Callbacks
    <3> QED
      BY <1>2, <3>1, <3>4 DEF QueueMessage, WillFlush, Top
  <2>2. CASE ~queueing
    BY <1>2, <2>2, Zenon DEF QueueMessage, Announced, WillFlush
  <2> QED
    BY <2>1, <2>2
<1>3. CASE RequestRelayout
  <2>1. idleRequested => idleRequested'
    BY <1>3, Zenon DEF RequestRelayout, Announced
  <2> QED
    BY <1>3, <2>1 DEF RequestRelayout, messageVars, WillFlush, Top
<1>4. CASE RefuseProcessEvents
  BY <1>4 DEF RefuseProcessEvents, WillFlush
<1>5. ASSUME \/ RegisterProcessor \/ UnregisterProcessor
             \/ RegisterProcessorOnce \/ UnregisterProcessorOnce \/ SceneDestroyed
             \/ BeginLoop \/ RunProcessor \/ SkipProcessor \/ ProcessReturns \/ UNCHANGED vars
      PROVE  UNCHANGED <<unflushed, idleRequested, stack>>
  BY <1>5, Zenon
     DEF RegisterProcessor, UnregisterProcessor, RegisterProcessorOnce, UnregisterProcessorOnce,
         SceneDestroyed, BeginLoop, RunProcessor, SkipProcessor, ProcessReturns, flagVars,
         messageVars, vars
<1>6. CASE UNCHANGED <<unflushed, idleRequested, stack>>
  BY <1>6 DEF WillFlush, Top
<1>7. CASE ProcessEvents \/ ForceRelayout
  <2>1. PICK f \in Frame : stack' = Append(stack, f) /\ ~(f.call = "events" /\ f.pc = "end")
    <3>1. CASE ProcessEvents
      BY <3>1, NewFrames DEF ProcessEvents
    <3>2. CASE ForceRelayout
      <4>1. PICK b \in BOOLEAN, place \in {"once", "notify"} :
              stack' = Append(stack, [call |-> "pre", faked |-> b, pc |-> place])
        BY <3>2, TypeParts DEF ForceRelayout, RelayoutAndFlush, FlagTypes
      <4> QED
        BY <4>1, NewFrames
    <3> QED
      BY <1>7, <3>1, <3>2
  <2>2. stack' # << >> /\ Top' = f
    BY <1>a, <2>1, AppendProperties DEF Top
  <2> QED
    BY <1>b, <2>1, <2>2
<1>8. CASE EventsRelayout
  <2> DEFINE below == [stack EXCEPT ![Len(stack)].pc = "end"]
             g == [call |-> "pre", pc |-> "once", faked |-> FALSE]
  <2>1. stack' = Append(below, g)
    BY <1>8 DEF EventsRelayout
  <2>2. g \in Frame /\ g.call = "pre"
    BY NewFrames
  <2>3. below \in Seq(Frame)
    <3>1. stack # << >>
      BY <1>8 DEF EventsRelayout, AtStep
    <3>2. Top \in Frame
      BY <1>a, <3>1, StackFacts DEF Top
    <3>3. [Top EXCEPT !.pc = "end"] \in Frame
      BY <3>2 DEF Frame
    <3>4. below = [stack EXCEPT ![Len(stack)] = [Top EXCEPT !.pc = "end"]]
      BY DEF Top
    <3> HIDE DEF below
    <3>5. \A f \in Frame : [stack EXCEPT ![Len(stack)] = f] \in Seq(Frame)
      BY <1>a, <3>1, StackFacts
    <3> QED
      BY <3>3, <3>4, <3>5
  <2> HIDE DEF below, g
  <2>4. stack' # << >> /\ Top' = g
    BY <2>1, <2>2, <2>3, AppendProperties DEF Top
  <2> QED
    BY <1>b, <2>2, <2>4
<1>9. CASE EventsEnd
  BY <1>9 DEF EventsEnd, AtStep, WillFlush
<1>10. CASE FlushQueue
  BY <1>10 DEF FlushQueue, WillFlush
<1> QED
  BY <1>1, <1>2, <1>3, <1>4, <1>5, <1>6, <1>7, <1>8, <1>9, <1>10, Zenon DEF Next, MovingSteps

\* The lists may change under a loop as long as it knows what is gone.
LEMMA ListsMayChange ==
  ASSUME Looping, loop # NoLoop, UNCHANGED <<stack, loop, ran, onceIndex>>,
         erased \subseteq erased',
         ToSet(loop.copy) \ erased' \subseteq ToSet(RunList(loop)'),
         ~unregistered'[loop.phase] => ToSet(loop.copy) \subseteq ToSet(RunList(loop)'),
         loop.kind = "once" => ToSet(RunList(loop)') \subseteq ToSet(loop.copy)
  PROVE  Looping'
<1>1. InTop /\ Knows /\ EachKeptOneRuns
  BY DEF Looping
<1>2. InTop'
  BY <1>1 DEF InTop, Top
<1>4. Knows'
  BY <1>1 DEF Knows, RunList
<1>5. NoneForgotten'
  BY DEF NoneForgotten, RunList
<1>6. EachKeptOneRuns'
  BY <1>1 DEF EachKeptOneRuns, Done
<1> QED
  BY <1>2, <1>4, <1>5, <1>6 DEF Looping

\* Every step keeps what the loop knows, and keeps its history true.
LEMMA LoopingStep == TypeOK /\ Nested /\ Looping /\ [Next]_vars => Looping'
<1> SUFFICES ASSUME TypeOK, Nested, Looping, [Next]_vars PROVE Looping'
  OBVIOUS
<1>a. ListTypes /\ loop \in Loop /\ ran \in Seq(Nat) /\ erased \subseteq Processors
  BY TypeParts DEF LoopTypes
<1>b. loop = NoLoop => ran = << >> /\ erased = {} /\ loop.kind = "none"
  BY NoLoopFacts DEF Looping
<1>c. loop # NoLoop => InTop /\ Knows /\ NoneForgotten /\ EachKeptOneRuns
  BY DEF Looping
<1>d. /\ loop.phase \in Phases /\ loop.copy \in Seq(Processors) /\ loop.at \in Nat
      /\ loop.index \in 0 .. 1 /\ ToSet(loop.copy) \subseteq Processors
      /\ list[loop.phase] \in Seq(Processors) /\ onceIndex[loop.phase] \in 0 .. 1
      /\ once[loop.phase][0] \in Seq(Processors) /\ once[loop.phase][1] \in Seq(Processors)
      /\ RunList(loop) \in Seq(Processors)
  <2>1. /\ loop.phase \in Phases /\ loop.copy \in Seq(Processors) /\ loop.at \in Nat
        /\ loop.index \in 0 .. 1
    BY <1>a DEF Loop
  <2>2. once[loop.phase] \in [0 .. 1 -> Seq(Processors)]
    BY <1>a, <2>1 DEF ListTypes
  <2>3. once[loop.phase][loop.index] \in Seq(Processors) /\ list[loop.phase] \in Seq(Processors)
    BY <1>a, <2>1, <2>2 DEF ListTypes
  <2>4. ToSet(loop.copy) \subseteq Processors
    BY <2>1, ElementOfSeq DEF ToSet
  <2> QED
    BY <1>a, <2>1, <2>2, <2>3, <2>4 DEF ListTypes, RunList
<1>e. ASSUME loop = NoLoop, UNCHANGED <<loop, ran, erased>> PROVE Looping'
  BY <1>b, <1>e DEF Looping
<1>1. CASE UNCHANGED <<processorVars, stack, loop, ran, erased>>
  <2>1. CASE loop = NoLoop
    BY <1>1, <1>e, <2>1
  <2>2. CASE loop # NoLoop
    <3>1. RunList(loop)' = RunList(loop) /\ UNCHANGED <<unregistered, onceIndex>>
      BY <1>1 DEF RunList, processorVars
    <3> QED
      BY <1>1, <1>c, <2>2, <3>1, ListsMayChange DEF Knows, NoneForgotten
  <2> QED
    BY <2>1, <2>2
<1>2. ASSUME QueueMessage \/ RequestRelayout \/ RefuseProcessEvents \/ UNCHANGED vars
      PROVE  UNCHANGED <<processorVars, stack, loop, ran, erased>>
  BY <1>2, Zenon DEF QueueMessage, RequestRelayout, RefuseProcessEvents, vars, loopVars
<1>3. ASSUME \/ ProcessEvents \/ ForceRelayout \/ EventsStep \/ EventsRelayout \/ EventsEnd
             \/ NotificationsDone \/ SkipLoop \/ Relayout \/ Negotiated \/ FlushQueue
      PROVE  Looping'
  <2>1. LoopIdleSteps
    BY <1>3, Zenon DEF LoopIdleSteps
  <2>2. loop = NoLoop
    <3> SUFFICES ASSUME loop # NoLoop PROVE FALSE
      OBVIOUS
    <3>1. /\ stack # << >> /\ Top.call # "events" /\ Top.pc \in {"once", "list"}
          /\ flushing = TRUE /\ processing = TRUE
      BY InLoopFacts
    <3> QED
      BY <1>3, <3>1, Zenon
         DEF ProcessEvents, ForceRelayout, RelayoutAndFlush, RelayoutMayStart, EventsStep, AtStep,
             EventsRelayout, EventsEnd, NotificationsDone, SkipLoop, InLoops, Relayout,
             Negotiated, FlushQueue
  <2> QED
    BY <1>e, <2>1, <2>2, LoopIdleFacts
<1>4. CASE RegisterProcessor
  <2>1. PICK p \in Processors, ph \in Phases : list' = [list EXCEPT ![ph] = Append(@, p)]
    BY <1>4 DEF RegisterProcessor
  <2>2. UNCHANGED <<once, onceIndex, unregistered, stack, loop, ran, erased>>
    BY <1>4 DEF RegisterProcessor, loopVars
  <2>3. CASE loop # NoLoop
    <3>1. loop.kind = "once" => RunList(loop)' = RunList(loop)
      BY <2>2 DEF RunList
    <3>2. loop.kind # "once" => ToSet(RunList(loop)) \subseteq ToSet(RunList(loop)')
      <4>1. list'[loop.phase] = list[loop.phase] \/ list'[loop.phase] = Append(list[loop.phase], p)
        BY <2>1, <1>a, <1>d DEF ListTypes
      <4>2. Elements(Append(list[loop.phase], p)) = Elements(list[loop.phase]) \cup {p}
        BY <1>d, AppendFacts
      <4>3. ToSet(list[loop.phase]) \subseteq ToSet(list'[loop.phase])
        BY <4>1, <4>2, ElementsOfList
      <4> QED
        BY <2>2, <4>3 DEF RunList
    <3>3. /\ ToSet(loop.copy) \ erased \subseteq ToSet(RunList(loop)')
          /\ ~unregistered[loop.phase] => ToSet(loop.copy) \subseteq ToSet(RunList(loop)')
      BY <1>c, <2>3, <3>1, <3>2 DEF Knows
    <3>4. loop.kind = "once" => ToSet(RunList(loop)') \subseteq ToSet(loop.copy)
      BY <1>c, <2>3, <3>1 DEF NoneForgotten
    <3> QED
      BY <2>2, <2>3, <3>3, <3>4, ListsMayChange
  <2> QED
    BY <1>e, <2>2, <2>3
<1>5. CASE UnregisterProcessor
  <2>1. PICK p \in Processors, ph \in Phases :
          /\ list' = [list EXCEPT ![ph] = EraseFirst(@, p)]
          /\ unregistered' = [unregistered EXCEPT ![ph] = TRUE]
          /\ Erases(p, "list", ph)
    BY <1>5 DEF UnregisterProcessor
  <2>2. UNCHANGED <<once, onceIndex, stack, loop, ran>>
    BY <1>5 DEF UnregisterProcessor
  <2>3. CASE loop = NoLoop
    <3>1. erased' = erased
      BY <1>b, <2>1, <2>3 DEF Erases
    <3> QED
      BY <1>e, <2>2, <2>3, <3>1
  <2>4. CASE loop # NoLoop /\ loop.kind = "list" /\ loop.phase = ph
    <3>1. RunList(loop)' = EraseFirst(RunList(loop), p) /\ unregistered'[loop.phase] = TRUE
      BY <1>a, <1>d, <2>1, <2>2, <2>4 DEF RunList, ListTypes
    <3>2. erased' = erased \cup {p}
      BY <2>1, <2>4 DEF Erases
    <3>3. ToSet(RunList(loop)) \ {p} \subseteq ToSet(RunList(loop)')
      BY <1>d, <3>1, EraseFromList
    <3>4. ToSet(loop.copy) \ erased' \subseteq ToSet(RunList(loop)')
      BY <1>c, <2>4, <3>2, <3>3 DEF Knows
    <3> QED
      BY <2>2, <2>4, <3>1, <3>2, <3>4, ListsMayChange
  <2>5. CASE loop # NoLoop /\ ~(loop.kind = "list" /\ loop.phase = ph)
    <3>1. loop.kind \in {"once", "list"}
      BY <1>c, <2>5 DEF InTop
    <3>2. RunList(loop)' = RunList(loop)
      BY <1>a, <1>d, <2>1, <2>2, <2>5, <3>1 DEF RunList, ListTypes
    <3>3. erased' = erased
      BY <2>1, <2>5 DEF Erases
    <3>4. ~unregistered'[loop.phase] => ~unregistered[loop.phase]
      BY <1>a, <1>d, <2>1 DEF ListTypes
    <3>5. /\ ToSet(loop.copy) \ erased' \subseteq ToSet(RunList(loop)')
          /\ ~unregistered'[loop.phase] => ToSet(loop.copy) \subseteq ToSet(RunList(loop)')
          /\ loop.kind = "once" => ToSet(RunList(loop)') \subseteq ToSet(loop.copy)
      BY <1>c, <2>5, <3>2, <3>3, <3>4 DEF Knows, NoneForgotten
    <3> QED
      BY <2>2, <2>5, <3>3, <3>5, ListsMayChange
  <2> QED
    BY <2>3, <2>4, <2>5
<1>6. CASE RegisterProcessorOnce
  <2>1. PICK p \in Processors, ph \in Phases :
          once' = [once EXCEPT ![ph][onceIndex[ph]] = Append(@, p)]
    BY <1>6 DEF RegisterProcessorOnce
  <2>2. UNCHANGED <<list, onceIndex, unregistered, stack, loop, ran, erased>>
    BY <1>6 DEF RegisterProcessorOnce, loopVars
  <2>3. CASE loop # NoLoop
    <3>1. RunList(loop)' = RunList(loop)
      <4>1. CASE loop.kind = "once"
        <5>1. loop.index = 1 - onceIndex[loop.phase]
          BY <1>c, <2>3, <4>1 DEF Knows
        <5>2. loop.index # onceIndex[loop.phase]
          BY <5>1, <1>d
        <5>3. once[loop.phase] \in [0 .. 1 -> Seq(Processors)] /\ once \in [Phases -> [0 .. 1 -> Seq(Processors)]]
          BY <1>a, <1>d DEF ListTypes
        <5>4. CASE ph = loop.phase
          <6>1. once'[ph] = [once[ph] EXCEPT ![onceIndex[ph]] = Append(@, p)]
            BY <2>1, <5>3, <5>4, <1>d
          <6>2. once'[ph][loop.index] = once[ph][loop.index]
            BY <6>1, <5>2, <5>3, <5>4, <1>d
          <6> QED
            BY <2>2, <4>1, <5>4, <6>2 DEF RunList
        <5>5. CASE ph # loop.phase
          <6>1. once'[loop.phase] = once[loop.phase]
            BY <2>1, <5>3, <5>5, <1>d
          <6> QED
            BY <2>2, <4>1, <6>1 DEF RunList
        <5> QED
          BY <5>4, <5>5
      <4>2. CASE loop.kind # "once"
        BY <2>2, <4>2 DEF RunList
      <4> QED
        BY <4>1, <4>2
    <3>2. /\ ToSet(loop.copy) \ erased \subseteq ToSet(RunList(loop)')
          /\ ~unregistered[loop.phase] => ToSet(loop.copy) \subseteq ToSet(RunList(loop)')
          /\ loop.kind = "once" => ToSet(RunList(loop)') \subseteq ToSet(loop.copy)
      BY <1>c, <2>3, <3>1 DEF Knows, NoneForgotten
    <3> QED
      BY <2>2, <2>3, <3>2, ListsMayChange
  <2> QED
    BY <1>e, <2>2, <2>3
<1>7. CASE UnregisterProcessorOnce
  <2>1. PICK p \in Processors, ph \in Phases :
          /\ once' = [once EXCEPT ![ph] = [i \in 0 .. 1 |-> EraseFirst(@[i], p)]]
          /\ unregistered' = [unregistered EXCEPT ![ph] = MarkOnce(p, ph)]
          /\ Erases(p, "once", ph)
    BY <1>7 DEF UnregisterProcessorOnce
  <2>2. UNCHANGED <<list, onceIndex, stack, loop, ran>>
    BY <1>7 DEF UnregisterProcessorOnce
  <2>3. CASE loop = NoLoop
    <3>1. erased' = erased
      BY <1>b, <2>1, <2>3 DEF Erases
    <3> QED
      BY <1>e, <2>2, <2>3, <3>1
  <2>4. CASE loop # NoLoop /\ loop.kind = "once" /\ loop.phase = ph
    <3>1. RunList(loop)' = EraseFirst(RunList(loop), p)
      <4>1. once'[ph] = [i \in 0 .. 1 |-> EraseFirst(once[ph][i], p)]
        BY <1>a, <2>1 DEF ListTypes
      <4> QED
        BY <1>d, <2>2, <2>4, <4>1 DEF RunList
    <3>2. erased' = erased \cup {p}
      BY <2>1, <2>4 DEF Erases
    <3>3. /\ ToSet(RunList(loop)) \ {p} \subseteq ToSet(RunList(loop)')
          /\ ToSet(RunList(loop)') \subseteq ToSet(RunList(loop))
      BY <1>d, <3>1, EraseFromList
    <3>4. ToSet(loop.copy) \ erased' \subseteq ToSet(RunList(loop)')
      BY <1>c, <2>4, <3>2, <3>3 DEF Knows
    <3>5. ToSet(RunList(loop)') \subseteq ToSet(loop.copy)
      BY <1>c, <2>4, <3>3 DEF NoneForgotten
    <3>6. ASSUME ~unregistered'[loop.phase]
          PROVE  ToSet(loop.copy) \subseteq ToSet(RunList(loop)')
      <4>1. ~MarkOnce(p, ph)
        BY <3>6, <1>a, <2>1, <2>4 DEF ListTypes
      <4>2. loop.index = 1 - onceIndex[ph]
        BY <1>c, <2>4 DEF Knows
      <4>3. ~unregistered[loop.phase] /\ p \notin ToSet(RunList(loop))
        BY <4>1, <4>2, <2>4 DEF MarkOnce, RunList
      <4>4. RunList(loop)' = RunList(loop)
        BY <1>d, <3>1, <4>3, EraseFromList
      <4> QED
        BY <1>c, <2>4, <4>3, <4>4 DEF Knows
    <3> QED
      BY <2>2, <2>4, <3>2, <3>4, <3>5, <3>6, ListsMayChange
  <2>5. CASE loop # NoLoop /\ ~(loop.kind = "once" /\ loop.phase = ph)
    <3>1. RunList(loop)' = RunList(loop)
      <4>1. ph # loop.phase => once'[loop.phase] = once[loop.phase]
        BY <1>a, <1>d, <2>1 DEF ListTypes
      <4> QED
        BY <2>2, <2>5, <4>1 DEF RunList
    <3>2. erased' = erased
      BY <2>1, <2>5 DEF Erases
    <3>3. ~unregistered'[loop.phase] => ~unregistered[loop.phase]
      <4>1. CASE ph # loop.phase
        BY <1>a, <1>d, <2>1, <4>1 DEF ListTypes
      <4>2. CASE ph = loop.phase
        <5>1. unregistered'[ph] = MarkOnce(p, ph)
          BY <1>a, <2>1 DEF ListTypes
        <5> QED
          BY <4>2, <5>1, Zenon DEF MarkOnce
      <4> QED
        BY <4>1, <4>2
    <3>4. /\ ToSet(loop.copy) \ erased' \subseteq ToSet(RunList(loop)')
          /\ ~unregistered'[loop.phase] => ToSet(loop.copy) \subseteq ToSet(RunList(loop)')
          /\ loop.kind = "once" => ToSet(RunList(loop)') \subseteq ToSet(loop.copy)
      BY <1>c, <2>5, <3>1, <3>2, <3>3 DEF Knows, NoneForgotten
    <3> QED
      BY <2>2, <2>5, <3>2, <3>4, ListsMayChange
  <2> QED
    BY <2>3, <2>4, <2>5
<1>8. CASE SceneDestroyed
  <2>1. CASE loop = NoLoop
    BY <1>8, <1>e, <2>1 DEF SceneDestroyed
  <2>2. CASE loop # NoLoop
    <3>1. /\ UNCHANGED <<stack, loop, ran, onceIndex>> /\ erased' = Processors
          /\ list' = [p \in Phases |-> << >>] /\ unregistered' = [p \in Phases |-> TRUE]
          /\ once' = [p \in Phases |-> [i \in 0 .. 1 |-> << >>]]
      BY <1>8, <2>2 DEF SceneDestroyed
    <3>2. unregistered'[loop.phase] = TRUE /\ RunList(loop)' = << >>
      BY <1>d, <3>1 DEF RunList
    <3>3. ToSet(RunList(loop)') = {}
      BY <3>2 DEF ToSet
    <3>4. ToSet(loop.copy) \ erased' = {} /\ erased \subseteq erased'
      BY <1>a, <1>d, <3>1
    <3> QED
      BY <2>2, <3>1, <3>2, <3>3, <3>4, ListsMayChange
  <2> QED
    BY <2>1, <2>2
<1>9. CASE BeginLoop
  <2>1. PICK kind \in {"once", "list"} :
          /\ InLoops(kind)
          /\ loop' = [kind |-> kind, phase |-> Top.call, index |-> onceIndex[Top.call],
                      copy |-> ListToRun(kind, Top.call), at |-> 1, running |-> FALSE]
          /\ onceIndex' = IF kind = "once" THEN Swapped(Top.call) ELSE onceIndex
    BY <1>9, Zenon DEF BeginLoop
  <2>2. ran' = << >> /\ erased' = {} /\ UNCHANGED <<list, once, stack>>
    BY <1>9 DEF BeginLoop
  <2>3. stack # << >> /\ Top.call \in Phases /\ Top.pc = kind
    BY <2>1 DEF InLoops
  <2>4. /\ loop'.kind = kind /\ loop'.phase = Top.call /\ loop'.index = onceIndex[Top.call]
        /\ loop'.copy = ListToRun(kind, Top.call) /\ loop'.at = 1 /\ loop'.running = FALSE
    BY <2>1
  <2>5. Len(loop'.copy) \in Nat
    <3>1. loop' \in Loop
      BY LoopTypesStep DEF LoopTypes
    <3> QED
      BY <3>1 DEF Loop
  <2>6. loop' # NoLoop /\ InTop'
    <3>1. loop'.at \in 1 .. Len(loop'.copy) + 1
      BY <2>4, <2>5
    <3>2. loop' # NoLoop
      BY <2>4, NoLoopFacts
    <3> QED
      BY <2>2, <2>3, <2>4, <3>1, <3>2 DEF InTop, Top
  <2>7. RunList(loop)' = loop'.copy
    BY <2>2, <2>4 DEF RunList, ListToRun
  <2>8. kind = "once" => loop'.index = 1 - onceIndex'[Top.call]
    <3>1. kind = "once" => onceIndex'[Top.call] = 1 - onceIndex[Top.call]
      BY <1>a, <2>1, <2>3 DEF Swapped, ListTypes
    <3>2. onceIndex[Top.call] \in 0 .. 1
      BY <1>a, <2>3 DEF ListTypes
    <3> QED
      BY <2>4, <3>1, <3>2
  <2>9. Knows' /\ NoneForgotten'
    BY <2>4, <2>7, <2>8 DEF Knows, NoneForgotten
  <2>10. EachKeptOneRuns'
    <3>1. Done' = {}
      BY <2>4 DEF Done
    <3>2. Ascending(ran') /\ ToSet(ran') = {}
      BY <2>2 DEF Ascending, ToSet
    <3> QED
      BY <3>1, <3>2 DEF EachKeptOneRuns
  <2> QED
    BY <2>6, <2>9, <2>10 DEF Looping
<1>10. CASE RunProcessor
  <2>1. /\ loop' = [loop EXCEPT !.running = TRUE] /\ ran' = Append(ran, loop.at)
        /\ loop # NoLoop /\ ~loop.running /\ loop.at <= Len(loop.copy)
        /\ UNCHANGED <<processorVars, stack, erased>>
    BY <1>10, Zenon DEF RunProcessor, InLoop
  <2>2. /\ loop'.kind = loop.kind /\ loop'.phase = loop.phase /\ loop'.index = loop.index
        /\ loop'.copy = loop.copy /\ loop'.at = loop.at /\ loop'.running = TRUE
    BY <1>a, <2>1 DEF Loop
  <2>3. loop' # NoLoop
    BY <2>2, NoLoopFacts
  <2>4. InTop' /\ Knows' /\ NoneForgotten'
    BY <1>c, <2>1, <2>2 DEF InTop, Top, Knows, NoneForgotten, RunList, processorVars
  <2>5. Done = 1 .. loop.at - 1 /\ Done' = 1 .. loop.at
    BY <2>1, <2>2 DEF Done
  <2>6. /\ Ascending(ran) /\ ToSet(ran) \subseteq 1 .. loop.at - 1
        /\ \A i \in 1 .. loop.at - 1 : loop.copy[i] \notin erased => i \in ToSet(ran)
    BY <1>c, <2>1, <2>5 DEF EachKeptOneRuns
  <2>7. Ascending(ran') /\ ToSet(ran') = ToSet(ran) \cup {loop.at}
    <3>1. \A y \in Elements(ran) : y < loop.at
      BY <1>d, <2>6, ElementsOfList
    <3>2. Ascending(Append(ran, loop.at))
      BY <1>a, <1>d, <2>6, <3>1, AscendingAppend
    <3>3. Elements(Append(ran, loop.at)) = Elements(ran) \cup {loop.at}
      <4>1. loop.at \in Nat /\ ran \in Seq(Nat)
        BY <1>a, <1>d
      <4> QED
        BY ONLY <4>1, AppendFacts
    <3> QED
      BY <2>1, <3>2, <3>3, ElementsOfList
  <2>8. loop.at >= 1
    BY <1>c, <1>d, <2>1 DEF InTop
  <2>9. EachKeptOneRuns'
    <3>1. ToSet(ran') \subseteq 1 .. loop.at
      BY <1>d, <2>6, <2>7, <2>8
    <3>2. \A i \in 1 .. loop.at : loop.copy[i] \notin erased => i \in ToSet(ran')
      <4>1. \A i \in 1 .. loop.at : i = loop.at \/ i \in 1 .. loop.at - 1
        BY <1>d
      <4> QED
        BY <2>6, <2>7, <4>1
    <3> QED
      BY <2>1, <2>2, <2>5, <2>7, <3>1, <3>2 DEF EachKeptOneRuns
  <2> QED
    BY <2>3, <2>4, <2>9 DEF Looping
<1>11. CASE SkipProcessor
  <2>1. /\ loop' = [loop EXCEPT !.at = @ + 1] /\ ~MayRun
        /\ loop # NoLoop /\ ~loop.running /\ loop.at <= Len(loop.copy)
        /\ UNCHANGED <<processorVars, stack, ran, erased>>
    BY <1>11, Zenon DEF SkipProcessor, InLoop
  <2>2. /\ loop'.kind = loop.kind /\ loop'.phase = loop.phase /\ loop'.index = loop.index
        /\ loop'.copy = loop.copy /\ loop'.at = loop.at + 1 /\ loop'.running = FALSE
    BY <1>a, <2>1 DEF Loop
  <2>3. loop' # NoLoop /\ loop.at \in 1 .. Len(loop.copy)
    <3>1. loop'.kind # "none" /\ loop.at \in 1 .. Len(loop.copy) + 1
      BY <1>c, <2>1, <2>2 DEF InTop
    <3>2. PICK n \in Nat : n = Len(loop.copy)
      BY <1>d
    <3>3. loop.at \in 1 .. n
      BY <1>d, <2>1, <3>1, <3>2
    <3> QED
      BY <3>1, <3>2, <3>3, NoLoopFacts
  <2>4. InTop'
    <3>1. loop.at + 1 \in 1 .. Len(loop.copy) + 1
      <4>1. PICK n \in Nat : n = Len(loop.copy)
        BY <1>d
      <4>2. loop.at + 1 \in 1 .. n + 1
        BY <2>3, <4>1
      <4> QED
        BY <4>1, <4>2
    <3> QED
      BY <1>c, <2>1, <2>2, <3>1 DEF InTop, Top
  <2>5. Knows' /\ NoneForgotten'
    BY <1>c, <2>1, <2>2 DEF Knows, NoneForgotten, RunList, processorVars
  <2>6. Done = 1 .. loop.at - 1 /\ Done' = 1 .. loop.at
    <3>1. loop'.at - 1 = loop.at
      BY <1>d, <2>2
    <3> QED
      BY <2>1, <2>2, <3>1 DEF Done
  <2>7. loop.copy[loop.at] \in erased
    <3>1. Candidate \notin ToSet(RunList(loop))
      BY <2>1 DEF MayRun
    <3>2. Candidate \in ToSet(loop.copy)
      BY <2>3 DEF Candidate, ToSet
    <3> QED
      BY <1>c, <2>1, <3>1, <3>2 DEF Knows, Candidate
  <2>8. EachKeptOneRuns'
    <3>1. /\ Ascending(ran) /\ ToSet(ran) \subseteq 1 .. loop.at - 1
          /\ \A i \in 1 .. loop.at - 1 : loop.copy[i] \notin erased => i \in ToSet(ran)
      BY <1>c, <2>1, <2>6 DEF EachKeptOneRuns
    <3>2. \A i \in 1 .. loop.at : i = loop.at \/ i \in 1 .. loop.at - 1
      BY <1>d
    <3>3. 1 .. loop.at - 1 \subseteq 1 .. loop.at
      BY <1>d
    <3> QED
      BY <2>1, <2>2, <2>6, <2>7, <3>1, <3>2, <3>3 DEF EachKeptOneRuns
  <2> QED
    BY <2>3, <2>4, <2>5, <2>8 DEF Looping
<1>12. CASE ProcessReturns
  <2>1. /\ loop' = [loop EXCEPT !.running = FALSE, !.at = @ + 1] /\ loop.running
        /\ UNCHANGED <<processorVars, stack, ran, erased>>
    BY <1>12, Zenon DEF ProcessReturns
  <2>2. /\ loop'.kind = loop.kind /\ loop'.phase = loop.phase /\ loop'.index = loop.index
        /\ loop'.copy = loop.copy /\ loop'.at = loop.at + 1 /\ loop'.running = FALSE
    BY <1>a, <2>1 DEF Loop
  <2>3. loop # NoLoop
    BY <2>1, NoLoopFacts
  <2>4. loop' # NoLoop /\ InTop'
    <3>1. loop.at \in 1 .. Len(loop.copy) + 1 /\ loop.at <= Len(loop.copy)
      BY <1>c, <2>1, <2>3 DEF InTop
    <3>2. loop.at + 1 \in 1 .. Len(loop.copy) + 1
      BY <1>d, <3>1
    <3>3. loop'.kind # "none"
      BY <1>c, <2>2, <2>3 DEF InTop
    <3> QED
      BY <1>c, <2>1, <2>2, <2>3, <3>2, <3>3, NoLoopFacts DEF InTop, Top
  <2>5. Knows' /\ NoneForgotten'
    BY <1>c, <2>1, <2>2, <2>3 DEF Knows, NoneForgotten, RunList, processorVars
  <2>6. Done' = Done
    <3>1. loop'.at - 1 = loop.at
      BY <1>d, <2>2
    <3> QED
      BY <2>1, <2>2, <3>1 DEF Done
  <2>7. EachKeptOneRuns'
    BY <1>c, <2>1, <2>2, <2>3, <2>6 DEF EachKeptOneRuns
  <2> QED
    BY <2>4, <2>5, <2>7 DEF Looping
<1>13. CASE EndLoop
  BY <1>13 DEF EndLoop, Looping
<1> QED
  BY <1>1, <1>2, <1>3, <1>4, <1>5, <1>6, <1>7, <1>8, <1>9, <1>10, <1>11, <1>12, <1>13, Zenon
     DEF Next

-----------------------------------------------------------------------------
(* The theorems.                                                             *)

LEMMA InitInv == Init => IInv
<1> SUFFICES ASSUME Init PROVE IInv
  OBVIOUS
<1> USE DEF Init
<1>a. << >> \in Seq(Processors) /\ << >> \in Seq(Frame) /\ << >> \in Seq(Nat)
  BY EmptySeq
<1>1. ListTypes
  <2>1. [i \in 0 .. 1 |-> << >>] \in [0 .. 1 -> Seq(Processors)]
    BY <1>a
  <2> QED
    BY <1>a, <2>1 DEF ListTypes
<1>2. FlagTypes /\ LoopTypes
  BY <1>a, NoLoopFacts DEF FlagTypes, LoopTypes
<1>3. TypeOK
  BY <1>a, <1>1, <1>2, TypeParts
<1>4. stack = << >> /\ Len(stack) <= 2 /\ Len(stack) # 2
  BY <1>a
<1>5. Nested
  BY <1>4, Zenon DEF Nested, Relaying
<1>6. WillFlush /\ Looping
  BY DEF WillFlush, Looping
<1> QED
  BY <1>3, <1>5, <1>6 DEF IInv

LEMMA IInvHolds == Spec => []IInv
<1>1. IInv /\ [Next]_vars => IInv'
  <2> SUFFICES ASSUME IInv, [Next]_vars PROVE IInv'
    OBVIOUS
  <2>1. TypeOK /\ Nested /\ WillFlush /\ Looping
    BY DEF IInv
  <2>2. TypeOK' /\ Nested' /\ WillFlush' /\ Looping'
    BY <2>1, TypeStep, NestedStep, WillFlushStep, LoopingStep
  <2> QED
    BY <2>2 DEF IInv
<1> QED
  BY <1>1, InitInv, PTL DEF Spec

\* The flags that guard ProcessEvents and RelayoutAndFlush against re-entrance
\* say what is on the stack, and at most one relayout is past its notifications,
\* however the application nests its calls.
THEOREM FlagsMatchCallsHolds == Spec => []FlagsMatchCalls
<1>1. IInv => FlagsMatchCalls
  <2> SUFFICES ASSUME IInv PROVE FlagsMatchCalls
    OBVIOUS
  <2>a. stack \in Seq(Frame) /\ Nested
    BY TypeParts DEF IInv
  <2>b. Len(stack) \in {0, 1, 2} /\ (stack = << >> <=> Len(stack) = 0) /\ DOMAIN stack = 1 .. Len(stack)
    <3>1. PICK n \in Nat : n = Len(stack)
      BY <2>a
    <3>2. n <= 2
      BY <2>a, <3>1 DEF Nested
    <3>3. n \in {0, 1, 2}
      BY <3>2
    <3> QED
      BY <3>1, <3>3, <2>a, StackFacts
  <2>1. processing = (stack # << >>) /\ coreEvents = processing /\ queueing = processing
    BY <2>a DEF Nested
  <2>2. \A i : i \in Flushing <=> i \in 1 .. Len(stack) /\ Relaying(stack[i])
    BY <2>b DEF Flushing, Relaying
  <2>3. Flushing \subseteq {Len(stack)}
    <3> SUFFICES ASSUME NEW i \in 1 .. Len(stack), Relaying(stack[i]) PROVE i = Len(stack)
      BY <2>2
    <3>1. PICK n \in {0, 1, 2} : n = Len(stack)
      BY <2>b
    <3>2. i \in 1 .. n
      BY <3>1
    <3>3. n = 2 => ~Relaying(stack[1])
      BY <2>a, <3>1 DEF Nested
    <3>4. i # n => n = 2 /\ i = 1
      BY <3>1, <3>2
    <3> QED
      BY <3>1, <3>3, <3>4
  <2>4. Len(stack) \in Flushing <=> stack # << >> /\ Relaying(Top)
    BY <2>2, <2>b DEF Top
  <2>5. flushing = (Flushing # {})
    <3>1. (Flushing # {}) <=> (stack # << >> /\ Relaying(Top))
      BY <2>3, <2>4
    <3>2. flushing = (stack # << >> /\ Relaying(Top))
      BY <2>a DEF Nested
    <3> QED
      BY <3>1, <3>2, Zenon
  <2>6. Cardinality(Flushing) <= 1
    <3>1. IsFiniteSet({Len(stack)}) /\ Cardinality({Len(stack)}) = 1
      BY FS_Singleton
    <3> QED
      BY <2>3, <3>1, FS_Subset
  <2>7. Len(stack) > 1 => \A i \in 2 .. Len(stack) : ~stack[i].faked
    BY <2>a, <2>b DEF Nested
  <2> QED
    BY <2>1, <2>5, <2>6, <2>7 DEF FlagsMatchCalls
<1> QED
  BY <1>1, IInvHolds, PTL

\* When no call is in progress on the event thread, a message that has not been
\* flushed has been announced to the adaptor.
THEOREM UnflushedIsAnnouncedHolds == Spec => []UnflushedIsAnnounced
<1>1. IInv => UnflushedIsAnnounced
  BY DEF IInv, WillFlush, UnflushedIsAnnounced
<1> QED
  BY <1>1, IInvHolds, PTL

\* A loop calls only processors that are registered then, calls each it found
\* and that stays registered once and in order, and clears none it did not find.
THEOREM LoopRunsItsProcessorsHolds == Spec => LoopRunsItsProcessors
<1>1. IInv /\ [Next]_vars => OnlyRegisteredRuns
  <2> SUFFICES ASSUME IInv, [Next]_vars, ~loop.running, loop'.running
               PROVE  Candidate \in ToSet(RunList(loop))
    BY DEF OnlyRegisteredRuns
  <2>a. LoopTypes /\ Looping
    BY TypeParts DEF IInv
  <2>1. ~UNCHANGED loop
    OBVIOUS
  <2>2. RunProcessor
    <3>1. ~LoopIdleSteps
      BY <2>1, LoopIdleFacts
    <3>2. ~(UnregisterProcessor \/ UnregisterProcessorOnce \/ SceneDestroyed)
      BY <2>1 DEF UnregisterProcessor, UnregisterProcessorOnce, SceneDestroyed
    <3>3. ~BeginLoop
      <4> SUFFICES ASSUME BeginLoop PROVE FALSE
        OBVIOUS
      <4>1. PICK kind \in {"once", "list"} :
              loop' = [kind |-> kind, phase |-> Top.call, index |-> onceIndex[Top.call],
                       copy |-> ListToRun(kind, Top.call), at |-> 1, running |-> FALSE]
        BY Zenon DEF BeginLoop
      <4> QED
        BY <4>1
    <3>4. ~(SkipProcessor \/ ProcessReturns \/ EndLoop)
      BY <2>a, NoLoopFacts DEF SkipProcessor, ProcessReturns, EndLoop, LoopTypes, Loop
    <3> QED
      BY <3>1, <3>2, <3>3, <3>4, Zenon DEF Next, LoopIdleSteps
  <2>3. loop # NoLoop /\ loop.at <= Len(loop.copy) /\ MayRun
    BY <2>2 DEF RunProcessor, InLoop
  <2>4. Knows /\ loop.at \in 1 .. Len(loop.copy) + 1
    BY <2>a, <2>3 DEF Looping, InTop
  <2>5. Candidate \in ToSet(loop.copy)
    <3>1. loop.copy \in Seq(Processors) /\ loop.at \in DOMAIN loop.copy
      BY <2>a, <2>3, <2>4 DEF LoopTypes, Loop
    <3> QED
      BY <3>1 DEF Candidate, ToSet
  <2> QED
    BY <2>3, <2>4, <2>5 DEF MayRun, Knows
<1>2. IInv => EachKeptOneRuns /\ NoneForgotten
  BY NoLoopFacts DEF IInv, Looping, EachKeptOneRuns, NoneForgotten
<1> QED
  BY <1>1, <1>2, IInvHolds, PTL DEF Spec, LoopRunsItsProcessors

-----------------------------------------------------------------------------
(* The stack of calls, innermost first.                                      *)

\* Pushing a call, and the innermost of them and those below.
LEMMA PushFacts ==
  ASSUME NEW F, NEW s \in Seq(F)
  PROVE  /\ \A f \in F : /\ << f >> \o s \in Seq(F) /\ << f >> \o s # << >>
                         /\ Len(<< f >> \o s) = Len(s) + 1
                         /\ (<< f >> \o s)[1] = f
                         /\ \A k \in 1 .. Len(s) : (<< f >> \o s)[k + 1] = s[k]
                         /\ \A k \in 2 .. Len(s) + 1 : (<< f >> \o s)[k] = s[k - 1]
         /\ s # << >> => /\ s[1] \in F /\ Tail(s) \in Seq(F) /\ s = << s[1] >> \o Tail(s)
         /\ << >> \o s = s
<1>1. ASSUME NEW f \in F
      PROVE  /\ << f >> \o s \in Seq(F) /\ << f >> \o s # << >>
             /\ Len(<< f >> \o s) = Len(s) + 1
             /\ (<< f >> \o s)[1] = f
             /\ \A k \in 1 .. Len(s) : (<< f >> \o s)[k + 1] = s[k]
             /\ \A k \in 2 .. Len(s) + 1 : (<< f >> \o s)[k] = s[k - 1]
  <2>1. << f >> \in Seq(F) /\ Len(<< f >>) = 1 /\ << f >>[1] = f
    OBVIOUS
  <2> DEFINE t == << f >> \o s
  <2>2. t \in Seq(F) /\ Len(t) = 1 + Len(s) /\ Len(s) \in Nat
        /\ \A k \in 1 .. Len(t) : t[k] = IF k <= 1 THEN << f >>[k] ELSE s[k - 1]
    BY <2>1, ConcatProperties
  <2> HIDE DEF t
  <2>3. t # << >> /\ t[1] = f
    BY <2>1, <2>2
  <2>4. \A k \in 1 .. Len(s) : t[k + 1] = s[k]
    BY <2>2
  <2>5. \A k \in 2 .. Len(s) + 1 : t[k] = s[k - 1]
    BY <2>2
  <2> QED
    BY <2>2, <2>3, <2>4, <2>5 DEF t
<1>2. ASSUME s # << >> PROVE s[1] \in F /\ Tail(s) \in Seq(F) /\ s = << s[1] >> \o Tail(s)
  <2>1. s[1] \in F /\ Tail(s) \in Seq(F) /\ Len(Tail(s)) = Len(s) - 1 /\ Len(s) \in Nat \ {0}
        /\ \A k \in 1 .. Len(Tail(s)) : Tail(s)[k] = s[k + 1]
    BY <1>2, HeadTailProperties
  <2> DEFINE t == Tail(s)
             u == << s[1] >> \o t
  <2>2. /\ u \in Seq(F) /\ Len(u) = Len(t) + 1 /\ u[1] = s[1]
        /\ \A k \in 2 .. Len(t) + 1 : u[k] = t[k - 1]
    <3>1. << s[1] >> \in Seq(F) /\ Len(<< s[1] >>) = 1 /\ << s[1] >>[1] = s[1]
      BY <2>1
    <3>2. u \in Seq(F) /\ Len(u) = 1 + Len(t) /\ Len(t) \in Nat
          /\ \A k \in 1 .. Len(u) : u[k] = IF k <= 1 THEN << s[1] >>[k] ELSE t[k - 1]
      BY <2>1, <3>1, ConcatProperties
    <3> HIDE DEF u, t
    <3> QED
      BY <3>1, <3>2
  <2> HIDE DEF u, t
  <2>3. \A k \in 1 .. Len(s) : u[k] = s[k]
    BY <2>1, <2>2 DEF t
  <2>4. Len(u) = Len(s)
    BY <2>1, <2>2 DEF t
  <2>5. s = u
    BY <2>2, <2>3, <2>4, SeqEqual
  <2> QED
    BY <2>1, <2>5 DEF u, t
<1>3. << >> \o s = s
  OBVIOUS
<1> QED
  BY <1>1, <1>2, <1>3

\* Pushing two at once, either way of writing it.
LEMMA PushBoth ==
  ASSUME NEW F, NEW s \in Seq(F), NEW f \in F, NEW g \in F
  PROVE  /\ << f, g >> \o s = << f >> \o (<< g >> \o s)
         /\ << f >> \o << g >> \o s = << f >> \o (<< g >> \o s)
<1>1. << f, g >> = << f >> \o << g >>
  <2> DEFINE t == << f >> \o << g >>
  <2>1. /\ t \in Seq(F) /\ Len(t) = 2 /\ t[1] = f /\ t[2] = g
    <3>1. << f >> \in Seq(F) /\ << g >> \in Seq(F) /\ Len(<< f >>) = 1 /\ Len(<< g >>) = 1
          /\ << f >>[1] = f /\ << g >>[1] = g
      OBVIOUS
    <3>2. t \in Seq(F) /\ Len(t) = 1 + 1
          /\ \A i \in 1 .. 1 + 1 : t[i] = IF i <= 1 THEN << f >>[i] ELSE << g >>[i - 1]
      BY <3>1, ConcatProperties
    <3> HIDE DEF t
    <3> QED
      BY <3>1, <3>2
  <2>2. << f, g >> \in Seq(F) /\ Len(<< f, g >>) = 2 /\ << f, g >>[1] = f /\ << f, g >>[2] = g
    OBVIOUS
  <2> HIDE DEF t
  <2> DEFINE pair == << f, g >>
  <2> HIDE DEF pair
  <2>3. \A i \in 1 .. Len(t) : t[i] = pair[i]
    BY <2>1, <2>2 DEF pair
  <2>4. t = pair
    BY <2>1, <2>2, <2>3, SeqEqual DEF pair
  <2> QED
    BY <2>4 DEF t, pair
<1>2. << f >> \o << g >> \o s = << f >> \o (<< g >> \o s)
  OBVIOUS
<1> QED
  BY <1>1, <1>2

-----------------------------------------------------------------------------
(***************************************************************************)
(* The inductive invariant.  Sound says what a call under way looks like;  *)
(* what the calls of a stack have taken out of mChildren and not yet       *)
(* detached, PendingIn, is with no two of them (Apart) and still has the   *)
(* owner of its call as its parent (Owned); Ranked says that the parents   *)
(* make a forest; Told that whoever's signalled flag is not its state is   *)
(* in a list that a call goes through to tell it.                          *)
(***************************************************************************)
Detaching(f) == IF f.pc = "cut" THEN f.list ELSE Tail(f.list)

Sound == {f \in CallFrame :
            /\ f.op = "Remove" => /\ f.list # << >> /\ NoRepeats(Detaching(f))
                                  /\ ~f.notify => Tail(f.list) = << >>
            /\ f.op \in Notices /\ f.pc = "callback" => f.list # << >>}

PendingIn(s) == UNION {Pending(s[k]) : k \in 1 .. Len(s)}
Apart(s) == \A k, l \in 1 .. Len(s) : k # l => Pending(s[k]) \cap Pending(s[l]) = {}
Owned(up, s) == \A k \in 1 .. Len(s) : \A c \in Pending(s[k]) : up[c] = s[k].owner

Listed(op, s) == {a \in Actors : \E k \in 1 .. Len(s) : s[k].op = op /\ a \in Elements(s[k].list)}

Under(up, a) == {x \in Family : IsUnder(up, x, a)}

Climbs(up, depth) == \A x \in Family : up[x] # None => depth[up[x]] < depth[x]
Ranked(up) == \E M \in Nat : \E depth \in [Family -> 0 .. M] : Climbs(up, depth)

TreeTypes ==
  /\ parent \in [Family -> Family \cup {None}] /\ parent[Root] = None
  /\ children \in [Family -> Seq(Actors)]
  /\ onScene \subseteq Family /\ scene \subseteq Family /\ signalled \subseteq Family
  /\ nodeParent \in [Family -> Family \cup {None}]
  /\ callStack \in Seq(Sound)
  /\ calls \in 0 .. MaxCalls
  /\ failed \subseteq Assertions /\ cutShort \in BOOLEAN

Listing ==
  /\ \A p \in Family : /\ NoRepeats(children[p])
                       /\ Elements(children[p]) =
                            {c \in Actors : parent[c] = p /\ c \notin PendingIn(callStack)}
  /\ Apart(callStack) /\ Owned(parent, callStack)

Told == /\ (onScene \ signalled) \cap Actors \subseteq Listed("Connected", callStack)
        /\ (signalled \ onScene) \cap Actors \subseteq Listed("Disconnected", callStack)

Following ==
  ~cutShort => /\ failed = {}
               /\ onScene = Under(parent, Root)
               /\ nodeParent = [a \in Family |-> IF a \in onScene THEN parent[a] ELSE None]

TreeInv == TreeTypes /\ Ranked(parent) /\ Listing /\ Told /\ Following

\* What pushing a call does to what the calls of a stack are about.
LEMMA PushSplits ==
  ASSUME NEW s \in Seq(Sound), NEW f \in Sound
  PROVE  /\ PendingIn(<< f >> \o s) = Pending(f) \cup PendingIn(s)
         /\ Apart(<< f >> \o s) <=> Apart(s) /\ Pending(f) \cap PendingIn(s) = {}
         /\ \A up : Owned(up, << f >> \o s) <=>
              Owned(up, s) /\ \A c \in Pending(f) : up[c] = f.owner
         /\ \A op : Listed(op, << f >> \o s) =
              Listed(op, s) \cup (IF f.op = op THEN Elements(f.list) \cap Actors ELSE {})
<1> DEFINE t == << f >> \o s
<1>1. /\ t \in Seq(Sound) /\ Len(t) = Len(s) + 1 /\ t[1] = f /\ Len(s) \in Nat
      /\ \A k \in 1 .. Len(s) : t[k + 1] = s[k]
      /\ \A k \in 2 .. Len(s) + 1 : t[k] = s[k - 1]
  BY PushFacts
<1> HIDE DEF t
<1>2. ASSUME NEW k \in 1 .. Len(t) PROVE k = 1 \/ (k - 1 \in 1 .. Len(s) /\ t[k] = s[k - 1])
  BY <1>1
<1>3. /\ 1 \in 1 .. Len(t)
      /\ \A k \in 1 .. Len(s) : k + 1 \in 1 .. Len(t) /\ k + 1 # 1
  BY <1>1
<1>4. PendingIn(t) = Pending(f) \cup PendingIn(s)
  <2>1. ASSUME NEW c \in PendingIn(t) PROVE c \in Pending(f) \cup PendingIn(s)
    <3>1. PICK k \in 1 .. Len(t) : c \in Pending(t[k])
      BY <2>1 DEF PendingIn
    <3> QED
      BY <3>1, <1>1, <1>2 DEF PendingIn
  <2>2. ASSUME NEW c \in PendingIn(s) PROVE c \in PendingIn(t)
    <3>1. PICK k \in 1 .. Len(s) : c \in Pending(s[k])
      BY <2>2 DEF PendingIn
    <3>2. k + 1 \in 1 .. Len(t) /\ c \in Pending(t[k + 1])
      BY <3>1, <1>1, <1>3
    <3> QED
      BY <3>2 DEF PendingIn
  <2>3. Pending(f) \subseteq PendingIn(t)
    BY <1>1, <1>3 DEF PendingIn
  <2> QED
    BY <2>1, <2>2, <2>3
<1>5. ASSUME Apart(t) PROVE Apart(s) /\ Pending(f) \cap PendingIn(s) = {}
  <2>1. \A k, l \in 1 .. Len(s) : k # l => k + 1 # l + 1
    BY <1>1
  <2>2. Apart(s)
    BY <1>1, <1>3, <1>5, <2>1 DEF Apart
  <2>3. Pending(f) \cap PendingIn(s) = {}
    BY <1>1, <1>3, <1>5 DEF Apart, PendingIn
  <2> QED
    BY <2>2, <2>3
<1>6. ASSUME Apart(s), Pending(f) \cap PendingIn(s) = {} PROVE Apart(t)
  <2>1. \A k \in 1 .. Len(s) : Pending(f) \cap Pending(s[k]) = {}
    BY <1>6 DEF PendingIn
  <2> SUFFICES ASSUME NEW k \in 1 .. Len(t), NEW l \in 1 .. Len(t), k # l
               PROVE  Pending(t[k]) \cap Pending(t[l]) = {}
    BY DEF Apart
  <2>2. CASE k = 1
    BY <2>1, <2>2, <1>1, <1>2
  <2>3. CASE l = 1
    BY <2>1, <2>3, <1>1, <1>2
  <2>4. CASE k # 1 /\ l # 1
    <3>1. k - 1 # l - 1
      BY <1>1
    <3> QED
      BY <3>1, <2>4, <1>2, <1>6 DEF Apart
  <2> QED
    BY <2>2, <2>3, <2>4
<1>7. ASSUME NEW up
      PROVE  Owned(up, t) <=> Owned(up, s) /\ \A c \in Pending(f) : up[c] = f.owner
  <2>1. ASSUME Owned(up, t) PROVE Owned(up, s) /\ \A c \in Pending(f) : up[c] = f.owner
    <3>1. \A c \in Pending(f) : up[c] = f.owner
      BY <2>1, <1>1, <1>3 DEF Owned
    <3>2. ASSUME NEW k \in 1 .. Len(s), NEW c \in Pending(s[k]) PROVE up[c] = s[k].owner
      <4>1. k + 1 \in 1 .. Len(t) /\ t[k + 1] = s[k]
        BY <1>1, <1>3
      <4> QED
        BY <4>1, <3>2, <2>1 DEF Owned
    <3> QED
      BY <3>1, <3>2 DEF Owned
  <2>2. ASSUME Owned(up, s), \A c \in Pending(f) : up[c] = f.owner PROVE Owned(up, t)
    <3> SUFFICES ASSUME NEW k \in 1 .. Len(t) PROVE \A c \in Pending(t[k]) : up[c] = t[k].owner
      BY DEF Owned
    <3>1. CASE k = 1
      BY <3>1, <2>2, <1>1
    <3>2. CASE k - 1 \in 1 .. Len(s) /\ t[k] = s[k - 1]
      BY <3>2, <2>2 DEF Owned
    <3> QED
      BY <3>1, <3>2, <1>2
  <2> QED
    BY <2>1, <2>2
<1>8. ASSUME NEW op
      PROVE  Listed(op, t) = Listed(op, s) \cup (IF f.op = op THEN Elements(f.list) \cap Actors ELSE {})
  <2> DEFINE new == IF f.op = op THEN Elements(f.list) \cap Actors ELSE {}
  <2>1. ASSUME NEW a \in Listed(op, t) PROVE a \in Listed(op, s) \cup new
    <3>1. a \in Actors /\ \E k \in 1 .. Len(t) : t[k].op = op /\ a \in Elements(t[k].list)
      BY <2>1 DEF Listed
    <3>2. PICK k \in 1 .. Len(t) : t[k].op = op /\ a \in Elements(t[k].list)
      BY <3>1
    <3>3. CASE k = 1
      BY <3>1, <3>2, <3>3, <1>1
    <3>4. CASE k - 1 \in 1 .. Len(s) /\ t[k] = s[k - 1]
      BY <3>1, <3>2, <3>4 DEF Listed
    <3> QED
      BY <3>3, <3>4, <1>2
  <2>2. ASSUME NEW a \in Listed(op, s) PROVE a \in Listed(op, t)
    <3>1. a \in Actors /\ \E k \in 1 .. Len(s) : s[k].op = op /\ a \in Elements(s[k].list)
      BY <2>2 DEF Listed
    <3>2. PICK k \in 1 .. Len(s) : s[k].op = op /\ a \in Elements(s[k].list)
      BY <3>1
    <3>3. k + 1 \in 1 .. Len(t) /\ t[k + 1].op = op /\ a \in Elements(t[k + 1].list)
      BY <3>2, <1>1, <1>3
    <3> QED
      BY <3>1, <3>3 DEF Listed
  <2>3. ASSUME NEW a \in new PROVE a \in Listed(op, t)
    BY <2>3, <1>1, <1>3 DEF Listed
  <2> QED
    BY <2>1, <2>2, <2>3
<1> QED
  BY <1>4, <1>5, <1>6, <1>7, <1>8 DEF t

\* The same of pushing two, which AddChild and SetParent do.
OnTop(t, f, g, s) ==
  /\ t \in Seq(Sound)
  /\ PendingIn(t) = Pending(f) \cup Pending(g) \cup PendingIn(s)
  /\ Apart(t) <=> /\ Apart(s) /\ Pending(g) \cap PendingIn(s) = {}
                  /\ Pending(f) \cap (Pending(g) \cup PendingIn(s)) = {}
  /\ \A up : Owned(up, t) <=> /\ Owned(up, s)
                              /\ \A c \in Pending(f) : up[c] = f.owner
                              /\ \A c \in Pending(g) : up[c] = g.owner
  /\ \A op : Listed(op, t) =
       Listed(op, s) \cup (IF f.op = op THEN Elements(f.list) \cap Actors ELSE {})
                     \cup (IF g.op = op THEN Elements(g.list) \cap Actors ELSE {})

LEMMA PushTwo ==
  ASSUME NEW s \in Seq(Sound), NEW f \in Sound, NEW g \in Sound,
         NEW t, t = << f >> \o (<< g >> \o s)
  PROVE  OnTop(t, f, g, s)
<1> DEFINE u == << g >> \o s
<1>0. t = << f >> \o u
  OBVIOUS
<1>1. u \in Seq(Sound)
  BY PushFacts
<1>2. t \in Seq(Sound)
  BY <1>0, <1>1, PushFacts
<1>4. /\ PendingIn(u) = Pending(g) \cup PendingIn(s)
      /\ Apart(u) <=> Apart(s) /\ Pending(g) \cap PendingIn(s) = {}
      /\ \A up : Owned(up, u) <=> Owned(up, s) /\ \A c \in Pending(g) : up[c] = g.owner
      /\ \A op : Listed(op, u) =
           Listed(op, s) \cup (IF g.op = op THEN Elements(g.list) \cap Actors ELSE {})
  BY PushSplits
<1> HIDE DEF u
<1>5. /\ PendingIn(t) = Pending(f) \cup PendingIn(u)
      /\ Apart(t) <=> Apart(u) /\ Pending(f) \cap PendingIn(u) = {}
      /\ \A up : Owned(up, t) <=> Owned(up, u) /\ \A c \in Pending(f) : up[c] = f.owner
      /\ \A op : Listed(op, t) =
           Listed(op, u) \cup (IF f.op = op THEN Elements(f.list) \cap Actors ELSE {})
  <2>1. /\ PendingIn(<< f >> \o u) = Pending(f) \cup PendingIn(u)
        /\ Apart(<< f >> \o u) <=> Apart(u) /\ Pending(f) \cap PendingIn(u) = {}
        /\ \A up : Owned(up, << f >> \o u) <=> Owned(up, u) /\ \A c \in Pending(f) : up[c] = f.owner
        /\ \A op : Listed(op, << f >> \o u) =
             Listed(op, u) \cup (IF f.op = op THEN Elements(f.list) \cap Actors ELSE {})
    BY <1>1, PushSplits
  <2> QED
    BY ONLY <1>0, <2>1, Zenon
<1>6. PendingIn(t) = Pending(f) \cup Pending(g) \cup PendingIn(s)
  BY <1>4, <1>5
<1>7. Apart(t) <=> /\ Apart(s) /\ Pending(g) \cap PendingIn(s) = {}
                   /\ Pending(f) \cap (Pending(g) \cup PendingIn(s)) = {}
  BY <1>4, <1>5
<1>8. \A up : Owned(up, t) <=> /\ Owned(up, s)
                               /\ \A c \in Pending(f) : up[c] = f.owner
                               /\ \A c \in Pending(g) : up[c] = g.owner
  BY <1>4, <1>5
<1>9. ASSUME NEW op
      PROVE  Listed(op, t) =
               Listed(op, s) \cup (IF f.op = op THEN Elements(f.list) \cap Actors ELSE {})
                             \cup (IF g.op = op THEN Elements(g.list) \cap Actors ELSE {})
  <2> DEFINE new(x) == IF x.op = op THEN Elements(x.list) \cap Actors ELSE {}
  <2>1. Listed(op, t) = Listed(op, u) \cup new(f) /\ Listed(op, u) = Listed(op, s) \cup new(g)
    BY <1>4, <1>5, Zenon
  <2> HIDE DEF new
  <2>2. Listed(op, t) = Listed(op, s) \cup new(f) \cup new(g)
    BY <2>1
  <2> QED
    BY <2>2 DEF new
<1> QED
  BY <1>2, <1>6, <1>7, <1>8, <1>9 DEF OnTop

\* No call, no obligations.
LEMMA EmptyStack ==
  /\ PendingIn(<< >>) = {} /\ Apart(<< >>) /\ \A up : Owned(up, << >>)
  /\ \A op : Listed(op, << >>) = {}
  BY DEF PendingIn, Apart, Owned, Listed

\* The innermost call and those below.
LEMMA InnerFacts ==
  ASSUME callStack \in Seq(Sound), callStack # << >>
  PROVE  /\ Inner \in Sound /\ Below \in Seq(Sound) /\ callStack = << Inner >> \o Below
         /\ PendingIn(callStack) = Pending(Inner) \cup PendingIn(Below)
         /\ Apart(callStack) <=> Apart(Below) /\ Pending(Inner) \cap PendingIn(Below) = {}
         /\ \A up : Owned(up, callStack) <=>
              Owned(up, Below) /\ \A c \in Pending(Inner) : up[c] = Inner.owner
         /\ \A op : Listed(op, callStack) =
              Listed(op, Below) \cup (IF Inner.op = op THEN Elements(Inner.list) \cap Actors ELSE {})
<1>1. Inner \in Sound /\ Below \in Seq(Sound) /\ callStack = << Inner >> \o Below
  BY PushFacts DEF Inner, Below
<1> DEFINE f == Inner
           s == Below
<1>2. f \in Sound /\ s \in Seq(Sound) /\ callStack = << f >> \o s
  BY <1>1
<1> HIDE DEF f, s
<1>3. /\ PendingIn(<< f >> \o s) = Pending(f) \cup PendingIn(s)
      /\ Apart(<< f >> \o s) <=> Apart(s) /\ Pending(f) \cap PendingIn(s) = {}
      /\ \A up : Owned(up, << f >> \o s) <=>
           Owned(up, s) /\ \A c \in Pending(f) : up[c] = f.owner
      /\ \A op : Listed(op, << f >> \o s) =
           Listed(op, s) \cup (IF f.op = op THEN Elements(f.list) \cap Actors ELSE {})
  BY <1>2, PushSplits
<1> QED
  BY <1>2, <1>3 DEF f, s

-----------------------------------------------------------------------------
(* Joining the walks of the children.                                        *)

Joins(f, ss, N) == f = [i \in 1 .. N |-> IF i = 1 THEN ss[i] ELSE f[i - 1] \o ss[i]]

\* The recursive definition in FlattenSeq has a solution.
LEMMA JoinsExist ==
  ASSUME NEW ss, NEW N \in Nat
  PROVE  \E f : Joins(f, ss, N)
<1> DEFINE P == {n \in Nat : \E f : Joins(f, ss, n)}
<1>1. 0 \in P
  <2> DEFINE e == [i \in 1 .. 0 |-> ss[i]]
  <2>1. Joins(e, ss, 0)
    BY DEF Joins
  <2> QED
    BY <2>1
<1>2. ASSUME NEW n \in Nat, n \in P PROVE n + 1 \in P
  <2>1. PICK f : Joins(f, ss, n)
    BY <1>2
  <2> DEFINE last == IF n + 1 = 1 THEN ss[n + 1] ELSE f[n] \o ss[n + 1]
             g == [i \in 1 .. n + 1 |-> IF i = n + 1 THEN last ELSE f[i]]
             h == [i \in 1 .. n + 1 |-> IF i = 1 THEN ss[i] ELSE g[i - 1] \o ss[i]]
  <2>2. \A i \in 1 .. n : f[i] = IF i = 1 THEN ss[i] ELSE f[i - 1] \o ss[i]
    BY <2>1 DEF Joins
  <2>3. \A i \in 2 .. n + 1 : g[i - 1] = f[i - 1]
    OBVIOUS
  <2>4. ASSUME NEW i \in 1 .. n + 1 PROVE g[i] = IF i = 1 THEN ss[i] ELSE g[i - 1] \o ss[i]
    <3>1. CASE i = n + 1
      <4>1. g[i] = last
        BY <3>1
      <4>2. i # 1 => g[i - 1] = f[n]
        BY <3>1, <2>3
      <4> QED
        BY <3>1, <4>1, <4>2
    <3>2. CASE i # n + 1
      <4>1. g[i] = f[i] /\ i \in 1 .. n /\ (i # 1 => g[i - 1] = f[i - 1])
        BY <3>2, <2>3
      <4> HIDE DEF g
      <4> QED
        BY <4>1, <2>2
    <3> QED
      BY <3>1, <3>2
  <2>5. g = h
    <3>1. g = [i \in 1 .. n + 1 |-> g[i]]
      OBVIOUS
    <3> HIDE DEF g
    <3> QED
      BY <3>1, <2>4
  <2>6. Joins(g, ss, n + 1)
    BY <2>5 DEF Joins
  <2> QED
    BY <2>6
<1> HIDE DEF P
<1>3. Nat \subseteq P
  BY <1>1, <1>2, Counting
<1> QED
  BY <1>3 DEF P

\* FlattenSeq holds what the sequences hold.
LEMMA FlattenFacts ==
  ASSUME NEW S, NEW ss \in Seq(Seq(S))
  PROVE  /\ FlattenSeq(ss) \in Seq(S)
         /\ Elements(FlattenSeq(ss)) = UNION {Elements(ss[k]) : k \in 1 .. Len(ss)}
<1>1. PICK N \in Nat : N = Len(ss)
  OBVIOUS
<1>2. CASE N = 0
  <2>1. ss = << >>
    BY <1>1, <1>2, Positions
  <2>2. FlattenSeq(ss) = << >>
    BY <2>1 DEF FlattenSeq
  <2> QED
    BY <1>1, <1>2, <2>2 DEF Elements
<1>3. CASE N # 0
  <2>1. PICK f : Joins(f, ss, N) /\ FlattenSeq(ss) = f[N]
    <3> DEFINE e == CHOOSE f : Joins(f, ss, Len(ss))
    <3>1. Joins(e, ss, N)
      BY <1>1, JoinsExist
    <3>2. FlattenSeq(ss) = e[N]
      BY <1>1, <1>3 DEF FlattenSeq, Joins
    <3> QED
      BY <3>1, <3>2
  <2>2. \A i \in 1 .. N : f[i] = IF i = 1 THEN ss[i] ELSE f[i - 1] \o ss[i]
    BY <2>1 DEF Joins
  <2>3. \A i \in 1 .. N : ss[i] \in Seq(S)
    BY <1>1
  <2> DEFINE held(n) == UNION {Elements(ss[k]) : k \in 1 .. n}
             P == {n \in Nat : n + 1 \in 1 .. N =>
                     f[n + 1] \in Seq(S) /\ Elements(f[n + 1]) = held(n + 1)}
  <2>4. \A n \in Nat : held(n + 1) = held(n) \cup Elements(ss[n + 1])
    <3> SUFFICES ASSUME NEW n \in Nat PROVE held(n + 1) = held(n) \cup Elements(ss[n + 1])
      OBVIOUS
    <3>1. 1 .. n + 1 = (1 .. n) \cup {n + 1}
      OBVIOUS
    <3> QED
      BY <3>1
  <2>5. held(0) = {}
    OBVIOUS
  <2> HIDE DEF held
  <2>6. 0 \in P
    <3>1. 0 + 1 = 1 /\ 0 \in Nat /\ held(1) = held(0) \cup Elements(ss[1])
      BY <2>4
    <3>2. 1 \in 1 .. N => f[1] = ss[1] /\ ss[1] \in Seq(S)
      BY <2>2, <2>3
    <3> QED
      BY <3>1, <3>2, <2>5
  <2>7. ASSUME NEW n \in Nat, n \in P PROVE n + 1 \in P
    <3> SUFFICES ASSUME n + 1 + 1 \in 1 .. N
                 PROVE  f[n + 1 + 1] \in Seq(S) /\ Elements(f[n + 1 + 1]) = held(n + 1 + 1)
      OBVIOUS
    <3>1. n + 1 \in 1 .. N /\ n + 1 \in Nat /\ n + 1 + 1 # 1 /\ n + 1 + 1 - 1 = n + 1
      OBVIOUS
    <3>2. f[n + 1] \in Seq(S) /\ Elements(f[n + 1]) = held(n + 1)
      BY <2>7, <3>1
    <3>3. PICK m \in 1 .. N : m = n + 1 + 1
      OBVIOUS
    <3>4. m # 1 /\ m - 1 = n + 1
      BY <3>1, <3>3
    <3>5. f[m] = f[n + 1] \o ss[m] /\ ss[m] \in Seq(S)
      BY <3>4, <2>2, <2>3
    <3>6. held(m) = held(n + 1) \cup Elements(ss[m])
      BY <3>1, <3>3, <2>4
    <3>7. f[m] \in Seq(S) /\ Elements(f[m]) = held(m)
      BY ONLY <3>2, <3>5, <3>6, ConcatFacts
    <3> QED
      BY <3>3, <3>7
  <2> HIDE DEF P
  <2>8. Nat \subseteq P
    BY <2>6, <2>7, Counting
  <2>9. N - 1 \in P /\ N - 1 + 1 = N /\ N \in 1 .. N
    BY <1>3, <2>8
  <2>10. f[N] \in Seq(S) /\ Elements(f[N]) = held(N)
    BY <2>9 DEF P
  <2> QED
    BY <2>1, <2>10, <1>1 DEF held
<1> QED
  BY <1>2, <1>3

-----------------------------------------------------------------------------
(* Under an actor, and forests.                                              *)

\* All under an actor: the least set with it and, with each of its members,
\* those whose parent that is.
LEMMA UnderFacts ==
  ASSUME NEW up, NEW a \in Family
  PROVE  /\ Under(up, a) \subseteq Family /\ a \in Under(up, a)
         /\ \A y \in Family : up[y] \in Under(up, a) => y \in Under(up, a)
         /\ \A y \in Under(up, a) : y = a \/ up[y] \in Under(up, a)
         /\ \A S \in SUBSET Family :
              a \in S /\ (\A y \in Family : up[y] \in S => y \in S) => Under(up, a) \subseteq S
<1>1. Under(up, a) \subseteq Family /\ a \in Under(up, a)
  BY DEF Under, IsUnder
<1>2. \A S \in SUBSET Family :
        a \in S /\ (\A y \in Family : up[y] \in S => y \in S) => Under(up, a) \subseteq S
  BY DEF Under, IsUnder
<1>3. ASSUME NEW y \in Family, up[y] \in Under(up, a) PROVE y \in Under(up, a)
  <2> SUFFICES ASSUME NEW S \in SUBSET Family, a \in S, \A z \in Family : up[z] \in S => z \in S
               PROVE  y \in S
    BY DEF Under, IsUnder
  <2>1. up[y] \in S
    BY <1>2, <1>3
  <2> QED
    BY <2>1
<1>4. ASSUME NEW y \in Under(up, a), y # a, up[y] \notin Under(up, a) PROVE FALSE
  <2> DEFINE S == Under(up, a) \ {y}
  <2>1. S \in SUBSET Family /\ a \in S
    BY <1>1, <1>4
  <2>2. ASSUME NEW z \in Family, up[z] \in S PROVE z \in S
    BY <2>2, <1>3, <1>4
  <2>3. Under(up, a) \subseteq S
    BY <2>1, <2>2, <1>2
  <2> QED
    BY <2>3, <1>4
<1> QED
  BY <1>1, <1>2, <1>3, <1>4

\* The last of these, by itself.
LEMMA UnderLeast ==
  ASSUME NEW up, NEW a \in Family, NEW S \in SUBSET Family, a \in S,
         \A y \in Family : up[y] \in S => y \in S
  PROVE  Under(up, a) \subseteq S
  BY DEF Under, IsUnder

-----------------------------------------------------------------------------
(* The walk of the tree under an actor.                                      *)

Deepens(depth) == \A p \in Family : \A c \in Elements(children[p]) : depth[p] < depth[c]

Branches(w, x) == FlattenSeq([k \in DOMAIN children[x] |-> w[children[x][k]]])
Walks(w, order, D) == w = [x \in D |-> Visit(order, x, Branches(w, x))]

\* From the leaves to the root: the recursive definition in Walk has a solution.
LEMMA WalksExist ==
  ASSUME NEW M \in Nat, NEW depth \in [Family -> 0 .. M], Deepens(depth),
         children \in [Family -> Seq(Actors)], NEW order
  PROVE  \E w : Walks(w, order, Family)
<1> DEFINE D(n) == {x \in Family : depth[x] + n > M}
           P == {n \in Nat : \E w : Walks(w, order, D(n))}
<1>0. \A x \in Family : depth[x] \in Nat /\ depth[x] <= M
  OBVIOUS
<1>1. 0 \in P
  <2> DEFINE e == [x \in {} |-> Visit(order, x, Branches(<< >>, x))]
  <2>1. D(0) = {}
    BY <1>0
  <2>2. Walks(e, order, {})
    BY DEF Walks
  <2> QED
    BY <2>1, <2>2
<1>2. ASSUME NEW n \in Nat, n \in P PROVE n + 1 \in P
  <2>1. PICK w : Walks(w, order, D(n))
    BY <1>2
  <2> DEFINE v == [x \in D(n + 1) |-> Visit(order, x, Branches(w, x))]
             u == [x \in D(n + 1) |-> Visit(order, x, Branches(v, x))]
  <2>2. \A x \in D(n) : w[x] = Visit(order, x, Branches(w, x))
    BY <2>1 DEF Walks
  <2>3. D(n) \subseteq D(n + 1)
    BY <1>0
  <2>4. \A x \in D(n) : v[x] = w[x]
    BY <2>2, <2>3
  <2>5. ASSUME NEW x \in D(n + 1) PROVE Branches(v, x) = Branches(w, x)
    <3>1. \A k \in DOMAIN children[x] : children[x][k] \in D(n)
      <4> SUFFICES ASSUME NEW k \in DOMAIN children[x] PROVE children[x][k] \in D(n)
        OBVIOUS
      <4>1. children[x][k] \in Elements(children[x]) /\ children[x][k] \in Family
        BY DEF Elements, Family
      <4>2. depth[x] < depth[children[x][k]]
        BY <4>1 DEF Deepens
      <4> QED
        BY <4>1, <4>2, <1>0
    <3>2. \A k \in DOMAIN children[x] : v[children[x][k]] = w[children[x][k]]
      BY <3>1, <2>4
    <3> HIDE DEF v
    <3>3. [k \in DOMAIN children[x] |-> v[children[x][k]]]
            = [k \in DOMAIN children[x] |-> w[children[x][k]]]
      BY <3>2
    <3> QED
      BY <3>3 DEF Branches
  <2>6. v = u
    <3>1. \A x \in D(n + 1) : Visit(order, x, Branches(w, x)) = Visit(order, x, Branches(v, x))
      BY <2>5
    <3> HIDE DEF D
    <3> DEFINE left(x) == Visit(order, x, Branches(w, x))
               right(x) == Visit(order, x, Branches(v, x))
    <3>2. \A x \in D(n + 1) : left(x) = right(x)
      BY <3>1
    <3> HIDE DEF left, right
    <3>3. [x \in D(n + 1) |-> left(x)] = [x \in D(n + 1) |-> right(x)]
      BY <3>2
    <3> QED
      BY <3>3 DEF left, right
  <2>7. Walks(v, order, D(n + 1))
    BY <2>6 DEF Walks
  <2> HIDE DEF D, v
  <2> QED
    BY <2>7
<1> HIDE DEF P
<1>3. Nat \subseteq P
  BY <1>1, <1>2, Counting
<1>4. D(M + 1) = Family
  BY <1>0
<1>5. M + 1 \in P
  BY <1>3
<1> HIDE DEF D
<1>6. \E w : Walks(w, order, D(M + 1))
  BY <1>5 DEF P
<1> QED
  BY <1>4, <1>6

\* A walk visits just the actors that the children lead to, and only those:
\* the least set with the first and with the children of all in it.
LEMMA WalkFacts ==
  ASSUME NEW M \in Nat, NEW depth \in [Family -> 0 .. M], Deepens(depth),
         children \in [Family -> Seq(Actors)], NEW order, NEW a \in Actors
  PROVE  /\ Walk(order, a) \in Seq(Actors)
         /\ a \in Elements(Walk(order, a))
         /\ \A y \in Elements(Walk(order, a)) : Elements(children[y]) \subseteq Elements(Walk(order, a))
         /\ \A S : a \in S /\ (\A y \in S \cap Family : Elements(children[y]) \subseteq S)
                     => Elements(Walk(order, a)) \subseteq S
<1>1. PICK w : Walks(w, order, Family) /\ Walk(order, a) = w[a]
  <2> DEFINE e == CHOOSE w : Walks(w, order, Family)
  <2>1. Walks(e, order, Family)
    BY WalksExist
  <2>2. Walk(order, a) = e[a]
    BY DEF Walk, Walks, Branches
  <2> QED
    BY <2>1, <2>2
<1>2. \A x \in Family : w[x] = Visit(order, x, Branches(w, x))
  BY <1>1 DEF Walks
<1>3. \A x \in Family : depth[x] \in Nat /\ depth[x] <= M
  OBVIOUS
<1> DEFINE D(n) == {x \in Family : depth[x] + n > M}
           Visits(x) == /\ w[x] \in Seq(Family)
                        /\ Elements(w[x]) = {x} \cup UNION {Elements(w[c]) : c \in Elements(children[x])}
           P == {n \in Nat : \A x \in D(n) : Visits(x)}
<1>4. 0 \in P
  BY <1>3
<1>5. ASSUME NEW n \in Nat, n \in P PROVE n + 1 \in P
  <2> SUFFICES ASSUME NEW x \in D(n + 1) PROVE Visits(x)
    <3> HIDE DEF D, Visits
    <3> QED
      OBVIOUS
  <2> DEFINE ss == [k \in DOMAIN children[x] |-> w[children[x][k]]]
  <2>1. children[x] \in Seq(Actors) /\ Len(children[x]) \in Nat
        /\ DOMAIN children[x] = 1 .. Len(children[x])
    OBVIOUS
  <2>2. \A c \in Elements(children[x]) : c \in D(n)
    <3> SUFFICES ASSUME NEW c \in Elements(children[x]) PROVE c \in D(n)
      OBVIOUS
    <3>1. c \in Family
      BY <2>1 DEF Elements, Family
    <3>2. depth[x] < depth[c]
      BY DEF Deepens
    <3> QED
      BY <3>1, <3>2, <1>3
  <2>3. \A c \in Elements(children[x]) : w[c] \in Seq(Family)
    BY <2>2, <1>5
  <2>4. ss \in Seq(Seq(Family)) /\ Len(ss) = Len(children[x])
    <3>1. \A k \in 1 .. Len(children[x]) : w[children[x][k]] \in Seq(Family)
      BY <2>1, <2>3 DEF Elements
    <3> QED
      BY <3>1, <2>1
  <2>5. /\ FlattenSeq(ss) \in Seq(Family)
        /\ Elements(FlattenSeq(ss)) = UNION {Elements(ss[k]) : k \in 1 .. Len(ss)}
    BY <2>4, FlattenFacts
  <2>6. UNION {Elements(ss[k]) : k \in 1 .. Len(ss)}
          = UNION {Elements(w[c]) : c \in Elements(children[x])}
    <3>1. \A k \in 1 .. Len(children[x]) : ss[k] = w[children[x][k]]
      BY <2>1
    <3>2. \A c : c \in Elements(children[x]) <=> \E k \in 1 .. Len(children[x]) : children[x][k] = c
      BY <2>1, Positions
    <3>3. DOMAIN ss = 1 .. Len(children[x]) /\ Len(ss) = Len(children[x])
      BY <2>1, <2>4
    <3> HIDE DEF ss
    <3>4. ASSUME NEW y, NEW k \in 1 .. Len(ss), y \in Elements(ss[k])
          PROVE  \E c \in Elements(children[x]) : y \in Elements(w[c])
      BY <3>1, <3>2, <3>3, <3>4
    <3>5. ASSUME NEW y, NEW c \in Elements(children[x]), y \in Elements(w[c])
          PROVE  \E k \in 1 .. Len(ss) : y \in Elements(ss[k])
      BY <3>1, <3>2, <3>3, <3>5
    <3> QED
      BY <3>4, <3>5
  <2>7. /\ << x >> \in Seq(Family) /\ Elements(<< x >>) = {x}
    BY DEF Elements
  <2>8. w[x] = Visit(order, x, FlattenSeq(ss))
    BY <1>2 DEF Branches
  <2> DEFINE rest == FlattenSeq(ss)
  <2> HIDE DEF ss, rest
  <2>9. /\ << x >> \o rest \in Seq(Family) /\ rest \o << x >> \in Seq(Family)
        /\ Elements(<< x >> \o rest) = {x} \cup Elements(rest)
        /\ Elements(rest \o << x >>) = Elements(rest) \cup {x}
    <3>1. rest \in Seq(Family)
      BY <2>5 DEF rest
    <3> DEFINE one == << x >>
    <3>2. one \in Seq(Family) /\ Elements(one) = {x}
      BY <2>7
    <3> HIDE DEF one
    <3>3. /\ one \o rest \in Seq(Family) /\ rest \o one \in Seq(Family)
          /\ Elements(one \o rest) = Elements(one) \cup Elements(rest)
          /\ Elements(rest \o one) = Elements(rest) \cup Elements(one)
      BY <3>1, <3>2, ConcatFacts
    <3> QED
      BY <3>2, <3>3 DEF one
  <2>10. w[x] \in Seq(Family) /\ Elements(w[x]) = {x} \cup Elements(rest)
    BY <2>8, <2>9 DEF rest, Visit
  <2> QED
    BY <2>5, <2>6, <2>10 DEF rest
<1> HIDE DEF P
<1>6. Nat \subseteq P
  BY <1>4, <1>5, Counting
<1>7. ASSUME NEW x \in Family PROVE Visits(x)
  <2>1. M + 1 \in P /\ x \in D(M + 1)
    BY <1>3, <1>6
  <2> QED
    BY <2>1 DEF P
<1> DEFINE Closed(x) == \A y \in Elements(w[x]) : Elements(children[y]) \subseteq Elements(w[x])
           Least(x) == \A S : x \in S /\ (\A y \in S \cap Family : Elements(children[y]) \subseteq S)
                                => Elements(w[x]) \subseteq S
           Q == {n \in Nat : \A x \in D(n) : Closed(x) /\ Least(x)}
<1>8. 0 \in Q
  BY <1>3
<1>9. ASSUME NEW n \in Nat, n \in Q PROVE n + 1 \in Q
  <2> SUFFICES ASSUME NEW x \in D(n + 1) PROVE Closed(x) /\ Least(x)
    <3> HIDE DEF D, Closed, Least
    <3> QED
      OBVIOUS
  <2>1. ASSUME NEW c \in Elements(children[x])
        PROVE  c \in Family /\ Closed(c) /\ Least(c) /\ Elements(w[c]) \subseteq Elements(w[x])
               /\ c \in Elements(w[c])
    <3>1. c \in Family
      BY DEF Elements, Family
    <3>2. depth[x] < depth[c]
      BY DEF Deepens
    <3>3. c \in D(n)
      BY <3>1, <3>2, <1>3
    <3>4. Closed(c) /\ Least(c)
      BY <3>3, <1>9
    <3>5. Visits(x) /\ Visits(c)
      BY <3>1, <1>7
    <3> QED
      BY ONLY <3>1, <3>4, <3>5, <2>1
  <2>2. Elements(w[x]) = {x} \cup UNION {Elements(w[c]) : c \in Elements(children[x])}
    BY <1>7
  <2>3. Closed(x)
    <3> SUFFICES ASSUME NEW y \in Elements(w[x]), NEW z \in Elements(children[y])
                 PROVE  z \in Elements(w[x])
      OBVIOUS
    <3>1. CASE y = x
      BY <3>1, <2>1
    <3>2. CASE y # x
      <4>1. PICK c \in Elements(children[x]) : y \in Elements(w[c])
        BY <3>2, <2>2
      <4> QED
        BY <4>1, <2>1
    <3> QED
      BY <3>1, <3>2
  <2>4. Least(x)
    <3> SUFFICES ASSUME NEW S, x \in S, \A y \in S \cap Family : Elements(children[y]) \subseteq S
                 PROVE  Elements(w[x]) \subseteq S
      OBVIOUS
    <3>1. x \in Family /\ Elements(children[x]) \subseteq S
      OBVIOUS
    <3>2. \A c \in Elements(children[x]) : Elements(w[c]) \subseteq S
      BY <3>1, <2>1
    <3> QED
      BY <3>2, <2>2
  <2> QED
    BY <2>3, <2>4
<1> HIDE DEF Q
<1>10. Nat \subseteq Q
  BY <1>8, <1>9, Counting
<1>11. a \in Family
  BY DEF Family
<1>12. Closed(a) /\ Least(a)
  <2>1. M + 1 \in Q /\ a \in D(M + 1)
    BY <1>3, <1>10, <1>11
  <2> QED
    BY <2>1 DEF Q
<1>13. w[a] \in Seq(Family) /\ a \in Elements(w[a])
  BY <1>7, <1>11
<1>14. \A y \in Family : Elements(children[y]) \subseteq Actors
  BY DEF Elements
<1>15. Elements(w[a]) \subseteq Actors
  BY <1>12, <1>14
<1>16. w[a] \in Seq(Actors)
  <2>1. \A k \in 1 .. Len(w[a]) : w[a][k] \in Actors
    BY <1>13, <1>15, Positions
  <2> DEFINE s == w[a]
  <2>2. s \in Seq(Family) /\ \A k \in 1 .. Len(s) : s[k] \in Actors
    BY <2>1, <1>13
  <2> HIDE DEF s
  <2>3. Len(s) \in Nat /\ s = [k \in 1 .. Len(s) |-> s[k]]
    BY <2>2
  <2>4. s \in Seq(Actors)
    BY <2>2, <2>3
  <2> QED
    BY <2>4 DEF s
<1> QED
  BY <1>1, <1>12, <1>13, <1>16

-----------------------------------------------------------------------------
(* What attaching and cutting off do to a forest.                            *)

Parents == {up \in [Family -> Family \cup {None}] : up[Root] = None}

\* Nothing is above the root, and nothing under an actor is above it.
LEMMA AboveFacts ==
  ASSUME NEW up \in Parents
  PROVE  /\ \A a \in Family : Root \in Under(up, a) => a = Root
         /\ \A M \in Nat : \A depth \in [Family -> 0 .. M] :
              Climbs(up, depth) => \A a \in Family : \A y \in Under(up, a) : depth[a] <= depth[y]
<1>0. None \notin Family /\ Root \in Family
  BY ActorAssumption DEF Family
<1>1. ASSUME NEW a \in Family, Root \in Under(up, a) PROVE a = Root
  <2>1. Root = a \/ up[Root] \in Under(up, a)
    BY <1>1, UnderFacts
  <2> QED
    BY <1>0, <2>1, UnderFacts DEF Parents
<1>2. ASSUME NEW M \in Nat, NEW depth \in [Family -> 0 .. M], Climbs(up, depth), NEW a \in Family
      PROVE  \A y \in Under(up, a) : depth[a] <= depth[y]
  <2> DEFINE S == {y \in Family : depth[a] <= depth[y]}
  <2>1. \A y \in Family : depth[y] \in Nat
    OBVIOUS
  <2>2. a \in S
    BY <2>1
  <2>3. ASSUME NEW y \in Family, up[y] \in S PROVE y \in S
    <3>1. up[y] # None
      BY <1>0, <2>3
    <3>2. depth[up[y]] < depth[y]
      BY <1>2, <3>1 DEF Climbs
    <3> QED
      BY <2>1, <2>3, <3>2
  <2>4. S \in SUBSET Family
    OBVIOUS
  <2>5. Under(up, a) \subseteq S
    BY <2>2, <2>3, <2>4, UnderFacts
  <2> QED
    BY <2>5
<1> QED
  BY <1>1, <1>2

\* A subtree is under the root or has nothing in common with what is.
LEMMA SubtreeFacts ==
  ASSUME NEW up \in Parents, NEW c \in Family
  PROVE  /\ c \in Under(up, Root) => Under(up, c) \subseteq Under(up, Root)
         /\ c \notin Under(up, Root) => Under(up, c) \cap Under(up, Root) = {}
<1>0. None \notin Family /\ Root \in Family /\ up[Root] = None
  BY ActorAssumption DEF Family, Parents
<1>1. ASSUME c \in Under(up, Root) PROVE Under(up, c) \subseteq Under(up, Root)
  <2>1. Under(up, Root) \in SUBSET Family /\ \A y \in Family : up[y] \in Under(up, Root) => y \in Under(up, Root)
    BY <1>0, UnderFacts
  <2> QED
    BY <1>1, <2>1, UnderFacts
<1>2. ASSUME c \notin Under(up, Root) PROVE Under(up, c) \cap Under(up, Root) = {}
  <2> DEFINE S == Family \ Under(up, Root)
  <2>1. ASSUME NEW y \in Family, up[y] \in S PROVE y \in S
    <3>1. y # Root
      BY <1>0, <2>1
    <3> QED
      BY <1>0, <2>1, <3>1, UnderFacts
  <2>2. c \in S /\ S \in SUBSET Family
    BY <1>2
  <2>3. Under(up, c) \subseteq S
    <3> HIDE DEF S
    <3> QED
      BY <2>1, <2>2, UnderLeast
  <2> QED
    BY <2>3
<1> QED
  BY <1>1, <1>2

\* An actor without a parent is put under one that is not under it.
LEMMA AttachFacts ==
  ASSUME NEW up \in Parents, NEW c \in Actors, NEW p \in Family,
         up[c] = None, p \notin Under(up, c)
  PROVE  LET new == [up EXCEPT ![c] = p]
         IN  /\ new \in Parents
             /\ Ranked(up) => Ranked(new)
             /\ c \notin Under(up, Root)
             /\ p \in Under(up, Root) => Under(new, Root) = Under(up, Root) \cup Under(up, c)
             /\ p \notin Under(up, Root) => Under(new, Root) = Under(up, Root)
<1> DEFINE new == [up EXCEPT ![c] = p]
<1>0. /\ None \notin Family /\ Root \in Family /\ up[Root] = None /\ c # Root /\ c \in Family
      /\ up \in [Family -> Family \cup {None}]
  BY ActorAssumption DEF Family, Parents
<1>1. /\ new \in [Family -> Family \cup {None}] /\ new[c] = p
      /\ \A y \in Family : y # c => new[y] = up[y]
  BY <1>0
<1> HIDE DEF new
<1>2. new \in Parents
  BY <1>0, <1>1 DEF Parents
<1>3. ASSUME Ranked(up) PROVE Ranked(new)
  <2>0. PICK M \in Nat : \E depth \in [Family -> 0 .. M] : Climbs(up, depth)
    BY <1>3 DEF Ranked
  <2>1. PICK depth \in [Family -> 0 .. M] : Climbs(up, depth)
    BY <2>0
  <2> DEFINE deeper == [y \in Family |-> IF y \in Under(up, c) THEN depth[y] + M + 1 ELSE depth[y]]
  <2>2. \A y \in Family : depth[y] \in Nat /\ depth[y] <= M
    OBVIOUS
  <2>3. M + M + 1 \in Nat /\ deeper \in [Family -> 0 .. M + M + 1]
    BY <2>2
  <2>4. \A y \in Family : deeper[y] = IF y \in Under(up, c) THEN depth[y] + M + 1 ELSE depth[y]
    OBVIOUS
  <2> HIDE DEF deeper
  <2>5. ASSUME NEW y \in Family, new[y] # None PROVE deeper[new[y]] < deeper[y]
    <3>1. CASE y = c
      <4>1. new[y] = p /\ y \in Under(up, c)
        BY <3>1, <1>0, <1>1, UnderFacts
      <4> QED
        BY <4>1, <2>2, <2>4
    <3>2. CASE y # c
      <4>1. new[y] = up[y] /\ up[y] \in Family
        BY <3>2, <2>5, <1>0, <1>1
      <4>2. depth[up[y]] < depth[y]
        BY <4>1, <2>1, <2>5 DEF Climbs
      <4>3. up[y] \in Under(up, c) <=> y \in Under(up, c)
        BY <4>1, <3>2, <1>0, UnderFacts
      <4> QED
        BY <4>1, <4>2, <4>3, <2>2, <2>4
    <3> QED
      BY <3>1, <3>2
  <2>6. Climbs(new, deeper)
    BY <2>5 DEF Climbs
  <2> QED
    BY <2>3, <2>6 DEF Ranked
<1>4. c \notin Under(up, Root)
  BY <1>0, UnderFacts
<1>5. Under(up, Root) \subseteq Under(new, Root)
  <2>1. ASSUME NEW y \in Family, up[y] \in Under(new, Root) PROVE y \in Under(new, Root)
    <3>1. y # c
      BY <2>1, <1>0, UnderFacts
    <3> QED
      BY <2>1, <3>1, <1>0, <1>1, UnderFacts
  <2>2. Root \in Under(new, Root) /\ Under(new, Root) \in SUBSET Family
    BY <1>0, UnderFacts
  <2> QED
    BY <2>1, <2>2, <1>0, UnderFacts
<1>6. ASSUME p \in Under(up, Root) PROVE Under(new, Root) = Under(up, Root) \cup Under(up, c)
  <2> DEFINE S == Under(up, Root) \cup Under(up, c)
  <2>1. c \in Under(new, Root)
    <3>1. new[c] \in Under(new, Root)
      BY <1>1, <1>5, <1>6
    <3> QED
      BY <3>1, <1>0, UnderFacts
  <2>2. Under(up, c) \subseteq Under(new, Root)
    <3>1. ASSUME NEW y \in Family, up[y] \in Under(new, Root) PROVE y \in Under(new, Root)
      <4>1. y # c
        BY <3>1, <1>0, UnderFacts
      <4> QED
        BY <3>1, <4>1, <1>0, <1>1, UnderFacts
    <3>2. Under(new, Root) \in SUBSET Family
      BY <1>0, UnderFacts
    <3> QED
      BY <2>1, <3>1, <3>2, <1>0, UnderFacts
  <2>3. ASSUME NEW y \in Family, new[y] \in S PROVE y \in S
    <3>1. CASE y = c
      BY <3>1, <1>0, UnderFacts
    <3>2. CASE y # c
      BY <2>3, <3>2, <1>0, <1>1, UnderFacts
    <3> QED
      BY <3>1, <3>2
  <2>4. Root \in S /\ S \in SUBSET Family
    BY <1>0, UnderFacts
  <2>5. Under(new, Root) \subseteq S
    <3> HIDE DEF S
    <3> QED
      BY <2>3, <2>4, <1>0, UnderLeast
  <2> QED
    BY <2>2, <2>5, <1>5
<1>7. ASSUME p \notin Under(up, Root) PROVE Under(new, Root) = Under(up, Root)
  <2>1. ASSUME NEW y \in Family, new[y] \in Under(up, Root) PROVE y \in Under(up, Root)
    <3>1. y # c
      BY <2>1, <1>1, <1>7
    <3> QED
      BY <2>1, <3>1, <1>0, <1>1, UnderFacts
  <2>2. Root \in Under(up, Root) /\ Under(up, Root) \in SUBSET Family
    BY <1>0, UnderFacts
  <2>3. Under(new, Root) \subseteq Under(up, Root)
    BY <2>1, <2>2, <1>0, UnderFacts
  <2> QED
    BY <2>3, <1>5
<1> QED
  BY <1>2, <1>3, <1>4, <1>6, <1>7 DEF new

\* An actor loses its parent.
LEMMA CutOffFacts ==
  ASSUME NEW up \in Parents, NEW c \in Actors
  PROVE  LET new == [up EXCEPT ![c] = None]
         IN  /\ new \in Parents
             /\ Ranked(up) => Ranked(new)
             /\ c \in Under(up, Root) => Under(new, Root) = Under(up, Root) \ Under(up, c)
             /\ c \notin Under(up, Root) => Under(new, Root) = Under(up, Root)
<1> DEFINE new == [up EXCEPT ![c] = None]
<1>0. /\ None \notin Family /\ Root \in Family /\ up[Root] = None /\ c # Root /\ c \in Family
      /\ up \in [Family -> Family \cup {None}]
  BY ActorAssumption DEF Family, Parents
<1>1. /\ new \in [Family -> Family \cup {None}] /\ new[c] = None
      /\ \A y \in Family : y # c => new[y] = up[y]
  BY <1>0
<1> HIDE DEF new
<1>2. new \in Parents
  BY <1>0, <1>1 DEF Parents
<1>3. ASSUME Ranked(up) PROVE Ranked(new)
  <2>0. PICK M \in Nat : \E depth \in [Family -> 0 .. M] : Climbs(up, depth)
    BY <1>3 DEF Ranked
  <2>1. PICK depth \in [Family -> 0 .. M] : Climbs(up, depth)
    BY <2>0
  <2>2. Climbs(new, depth)
    BY <2>1, <1>1 DEF Climbs
  <2> QED
    BY <2>2 DEF Ranked
<1>4. Under(new, Root) \subseteq Under(up, Root)
  <2>1. ASSUME NEW y \in Family, new[y] \in Under(up, Root) PROVE y \in Under(up, Root)
    <3>1. y # c
      BY <2>1, <1>0, <1>1, UnderFacts
    <3> QED
      BY <2>1, <3>1, <1>0, <1>1, UnderFacts
  <2>2. Root \in Under(up, Root) /\ Under(up, Root) \in SUBSET Family
    BY <1>0, UnderFacts
  <2> QED
    BY <2>1, <2>2, <1>0, UnderFacts
<1>5. ASSUME c \in Under(up, Root) PROVE Under(new, Root) = Under(up, Root) \ Under(up, c)
  <2> DEFINE S == Under(up, Root) \ Under(up, c)
             T == Under(new, Root) \cup Under(up, c)
  <2>1. Root \notin Under(up, c)
    BY <1>0, AboveFacts
  <2>2. ASSUME NEW y \in Family, new[y] \in S PROVE y \in S
    <3>1. y # c
      BY <2>2, <1>0, <1>1, UnderFacts
    <3>2. up[y] \in Under(up, Root) /\ up[y] \notin Under(up, c)
      BY <2>2, <3>1, <1>1
    <3> QED
      BY <3>1, <3>2, <1>0, UnderFacts
  <2>3. Root \in S /\ S \in SUBSET Family
    BY <2>1, <1>0, UnderFacts
  <2>4. Under(new, Root) \subseteq S
    <3> HIDE DEF S
    <3> QED
      BY <2>2, <2>3, <1>0, UnderLeast
  <2>5. ASSUME NEW y \in Family, up[y] \in T PROVE y \in T
    <3>1. CASE y = c
      BY <3>1, <1>0, UnderFacts
    <3>2. CASE y # c
      BY <3>2, <2>5, <1>0, <1>1, UnderFacts
    <3> QED
      BY <3>1, <3>2
  <2>6. Root \in T /\ T \in SUBSET Family
    BY <1>0, UnderFacts
  <2>7. Under(up, Root) \subseteq T
    <3> HIDE DEF T
    <3> QED
      BY <2>5, <2>6, <1>0, UnderLeast
  <2> QED
    BY <2>4, <2>7
<1>6. ASSUME c \notin Under(up, Root) PROVE Under(new, Root) = Under(up, Root)
  <2>1. ASSUME NEW y \in Family, up[y] \in Under(new, Root) PROVE y \in Under(new, Root)
    <3>1. y # c
      BY <2>1, <1>0, <1>4, <1>6, UnderFacts
    <3> QED
      BY <2>1, <3>1, <1>0, <1>1, UnderFacts
  <2>2. Root \in Under(new, Root) /\ Under(new, Root) \in SUBSET Family
    BY <1>0, UnderFacts
  <2>3. Under(up, Root) \subseteq Under(new, Root)
    BY <2>1, <2>2, <1>0, UnderFacts
  <2> QED
    BY <2>3, <1>4
<1> QED
  BY <1>2, <1>3, <1>5, <1>6 DEF new

\* The nodes on the scene have the parents of their actors, so that the same
\* is under each of them.
LEMMA SameUnder ==
  ASSUME NEW up \in Parents, NEW c \in Under(up, Root),
         NEW nodes, nodes = [a \in Family |-> IF a \in Under(up, Root) THEN up[a] ELSE None]
  PROVE  Under(nodes, c) = Under(up, c)
<1>0. /\ None \notin Family /\ Root \in Family /\ c \in Family
      /\ \A y \in Family : nodes[y] = IF y \in Under(up, Root) THEN up[y] ELSE None
  BY ActorAssumption, UnderFacts DEF Family
<1>1. Under(nodes, c) \subseteq Under(up, c)
  <2>1. ASSUME NEW y \in Family, nodes[y] \in Under(up, c) PROVE y \in Under(up, c)
    BY <2>1, <1>0, UnderFacts
  <2>2. c \in Under(up, c) /\ Under(up, c) \in SUBSET Family
    BY <1>0, UnderFacts
  <2> QED
    BY <2>1, <2>2, <1>0, UnderFacts
<1>2. Under(up, c) \subseteq Under(nodes, c)
  <2> DEFINE S == Under(nodes, c) \cap Under(up, Root)
  <2>1. ASSUME NEW y \in Family, up[y] \in S PROVE y \in S
    <3>1. y \in Under(up, Root)
      BY <2>1, <1>0, UnderFacts
    <3>2. nodes[y] = up[y]
      BY <3>1, <1>0
    <3> QED
      BY <2>1, <3>1, <3>2, <1>0, UnderFacts
  <2>2. c \in S /\ S \in SUBSET Family
    BY <1>0, UnderFacts
  <2>3. Under(up, c) \subseteq S
    BY <2>1, <2>2, <1>0, UnderFacts
  <2> QED
    BY <2>3
<1> QED
  BY <1>1, <1>2

-----------------------------------------------------------------------------
(* What a call under way becomes with its next step.                         *)

\* The fields of each kind of call.
LEMMA CallKinds ==
  ASSUME NEW f \in CallFrame
  PROVE  /\ f.op \in {"Add", "Remove", "Connected", "Disconnected"} /\ f.notify \in BOOLEAN
         /\ f.op = "Add" =>
              /\ f.owner \in Family /\ f.child \in Actors /\ f.pc \in {"attach", "callback"}
              /\ f = [op |-> "Add", owner |-> f.owner, child |-> f.child, notify |-> f.notify,
                      pc |-> f.pc]
         /\ f.op = "Remove" =>
              /\ f.owner \in Family /\ f.list \in Seq(Actors)
              /\ f.pc \in {"cut", "uncouple", "callback"}
              /\ f = [op |-> "Remove", owner |-> f.owner, list |-> f.list, notify |-> f.notify,
                      pc |-> f.pc]
         /\ f.op \in Notices =>
              /\ f.list \in Seq(Actors) /\ f.pc \in {"next", "callback"}
              /\ f = [op |-> f.op, list |-> f.list, notify |-> f.notify, pc |-> f.pc]
  BY DEF CallFrame, Notices

\* Going on with another list.
LEMMA NextInList ==
  ASSUME NEW f \in CallFrame, f.op # "Add", NEW x, NEW y,
         NEW g, g = [f EXCEPT !.pc = x, !.list = y]
  PROVE  /\ f.op = "Remove" =>
              g = [op |-> "Remove", owner |-> f.owner, list |-> y, notify |-> f.notify, pc |-> x]
         /\ f.op \in Notices => g = [op |-> f.op, list |-> y, notify |-> f.notify, pc |-> x]
<1>1. ASSUME f.op = "Remove"
      PROVE  g = [op |-> "Remove", owner |-> f.owner, list |-> y, notify |-> f.notify, pc |-> x]
  <2>1. f = [op |-> "Remove", owner |-> f.owner, list |-> f.list, notify |-> f.notify, pc |-> f.pc]
    BY <1>1, CallKinds
  <2>2. g.op = "Remove" /\ g.owner = f.owner /\ g.list = y /\ g.notify = f.notify /\ g.pc = x
    BY <2>1
  <2>3. g = [k \in {"op", "owner", "list", "notify", "pc"} |-> g[k]]
    BY <2>1
  <2>4. g = [op |-> g.op, owner |-> g.owner, list |-> g.list, notify |-> g.notify, pc |-> g.pc]
    BY ONLY <2>3
  <2> QED
    BY ONLY <2>2, <2>4
<1>2. ASSUME f.op \in Notices
      PROVE  g = [op |-> f.op, list |-> y, notify |-> f.notify, pc |-> x]
  <2>1. f = [op |-> f.op, list |-> f.list, notify |-> f.notify, pc |-> f.pc]
    BY <1>2, CallKinds
  <2>2. g.op = f.op /\ g.list = y /\ g.notify = f.notify /\ g.pc = x
    BY <2>1
  <2>3. g = [k \in {"op", "list", "notify", "pc"} |-> g[k]]
    BY <2>1
  <2>4. g = [op |-> g.op, list |-> g.list, notify |-> g.notify, pc |-> g.pc]
    BY ONLY <2>3
  <2> QED
    BY ONLY <2>2, <2>4
<1> QED
  BY <1>1, <1>2

\* Add: attached or told.
LEMMA AddCall ==
  ASSUME NEW p \in Family, NEW c \in Actors, NEW notify \in BOOLEAN,
         NEW place \in {"attach", "callback"}
  PROVE  LET f == [op |-> "Add", owner |-> p, child |-> c, notify |-> notify, pc |-> place]
         IN  f \in Sound /\ f.op = "Add" /\ Pending(f) = {}
  BY DEF Sound, CallFrame, Pending, Notices

\* Remove: what it still has to detach depends on where it is.
LEMMA RemoveCall ==
  ASSUME NEW p \in Family, NEW row \in Seq(Actors), NEW notify \in BOOLEAN, row # << >>,
         NEW place \in {"cut", "uncouple", "callback"},
         NoRepeats(IF place = "cut" THEN row ELSE Tail(row)),
         ~notify => Tail(row) = << >>
  PROVE  LET f == RemoveFrame(p, row, notify, place)
         IN  /\ f \in Sound /\ f.op = "Remove" /\ f.owner = p
             /\ Pending(f) = Elements(IF place = "cut" THEN row ELSE Tail(row))
<1> DEFINE f == RemoveFrame(p, row, notify, place)
<1>1. /\ f \in CallFrame /\ f.op = "Remove" /\ f.owner = p /\ f.list = row /\ f.pc = place
      /\ f.notify = notify
  BY DEF RemoveFrame, CallFrame
<1> HIDE DEF f
<1>2. Detaching(f) = IF place = "cut" THEN row ELSE Tail(row)
  BY <1>1 DEF Detaching
<1>3. Pending(f) = Elements(Detaching(f))
  BY <1>1, ElementsOfList DEF Pending, Detaching
<1>4. f \in Sound
  BY <1>1, <1>2 DEF Sound, Notices
<1> QED
  BY <1>1, <1>2, <1>3, <1>4 DEF f

\* The notifications after a change of the scene.
LEMMA NoticeCall ==
  ASSUME NEW op \in Notices, NEW row \in Seq(Actors), NEW notify \in BOOLEAN,
         NEW place \in {"next", "callback"}, place = "callback" => row # << >>
  PROVE  LET f == [op |-> op, list |-> row, notify |-> notify, pc |-> place]
         IN  f \in Sound /\ f.op = op /\ f.list = row /\ Pending(f) = {}
  BY DEF Sound, CallFrame, Pending, Notices

\* What the conditions of a step say of the innermost call.
LEMMA InnerIs ==
  ASSUME callStack \in Seq(Sound), callStack # << >>
  PROVE  /\ Inner \in CallFrame
         /\ Inner.op = "Add" => Pending(Inner) = {}
         /\ Inner.op \in Notices => /\ Pending(Inner) = {}
                                    /\ Inner.pc = "callback" => Inner.list # << >>
         /\ Inner.op = "Remove" =>
              /\ Inner.list # << >> /\ (~Inner.notify => Tail(Inner.list) = << >>)
              /\ Inner.pc = "cut" => /\ Pending(Inner) = Elements(Inner.list)
                                     /\ NoRepeats(Inner.list)
              /\ Inner.pc # "cut" => /\ Pending(Inner) = Elements(Tail(Inner.list))
                                     /\ NoRepeats(Tail(Inner.list))
<1>1. Inner \in Sound
  BY InnerFacts
<1> QED
  BY <1>1, ElementsOfList DEF Sound, Pending, Detaching, Notices

\* A step that only has the innermost call go on, with the same to detach.
LEMMA InnerGoesOn ==
  ASSUME TreeTypes, Listing, callStack # << >>, UNCHANGED treeVars, NEW g \in Sound,
         Pending(g) = Pending(Inner), Pending(g) # {} => g.owner = Inner.owner,
         callStack' = << g >> \o Below
  PROVE  callStack' \in Seq(Sound) /\ Listing'
<1>1. callStack \in Seq(Sound)
  BY DEF TreeTypes
<1> DEFINE t == << g >> \o Below
<1>2. /\ Below \in Seq(Sound) /\ t \in Seq(Sound)
      /\ PendingIn(callStack) = Pending(Inner) \cup PendingIn(Below)
      /\ PendingIn(t) = Pending(g) \cup PendingIn(Below)
  BY <1>1, InnerFacts, PushFacts, PushSplits
<1>3. Apart(t)
  <2>1. Apart(Below) /\ Pending(Inner) \cap PendingIn(Below) = {}
    BY <1>1, InnerFacts DEF Listing
  <2> QED
    BY <1>2, <2>1, PushSplits
<1>4. Owned(parent, t)
  <2>1. Owned(parent, Below) /\ \A c \in Pending(Inner) : parent[c] = Inner.owner
    BY <1>1, InnerFacts DEF Listing
  <2>2. \A c \in Pending(g) : parent[c] = g.owner
    BY <2>1
  <2> QED
    BY <1>2, <2>1, <2>2, PushSplits
<1>5. callStack' = t
  OBVIOUS
<1> HIDE DEF t
<1>6. PendingIn(callStack') = PendingIn(callStack)
  BY <1>2, <1>5
<1> QED
  BY <1>2, <1>3, <1>4, <1>5, <1>6 DEF Listing, treeVars

\* A step that only ends the innermost call, which has nothing to detach.
LEMMA InnerEnds ==
  ASSUME TreeTypes, Listing, callStack # << >>, UNCHANGED treeVars, Pending(Inner) = {},
         callStack' = Below
  PROVE  callStack' \in Seq(Sound) /\ Listing'
<1>1. callStack \in Seq(Sound)
  BY DEF TreeTypes
<1>2. /\ Below \in Seq(Sound)
      /\ PendingIn(callStack) = PendingIn(Below)
      /\ Apart(Below) /\ Owned(parent, Below)
  BY <1>1, InnerFacts DEF Listing
<1> QED
  BY <1>2 DEF Listing, treeVars

-----------------------------------------------------------------------------
(* The steps that leave the tree as it is.                                   *)

\* The forest, and what the scene knows of it, are not touched.
LEMMA TreeStands ==
  ASSUME TreeInv, UNCHANGED <<parent, onScene, nodeParent, failed, cutShort>>
  PROVE  Ranked(parent') /\ Following'
  BY DEF TreeInv, Following

\* Everything but the stack and the scene pointers is as it was.
LEMMA StackMoves ==
  ASSUME TreeInv, UNCHANGED <<treeVars, onScene, signalled, nodeParent, historyVars>>,
         scene' \subseteq Family, callStack' \in Seq(Sound), Listing',
         \A op \in Notices : Listed(op, callStack) \subseteq Listed(op, callStack')
  PROVE  TreeInv'
<1>1. Ranked(parent') /\ Following'
  BY TreeStands DEF treeVars, historyVars
<1>2. TreeTypes'
  BY DEF TreeInv, TreeTypes, treeVars, historyVars
<1>3. Told'
  <2>1. Listed("Connected", callStack) \subseteq Listed("Connected", callStack')
        /\ Listed("Disconnected", callStack) \subseteq Listed("Disconnected", callStack')
    BY DEF Notices
  <2> QED
    BY <2>1 DEF TreeInv, Told
<1> QED
  BY <1>1, <1>2, <1>3 DEF TreeInv

\* What pushing and popping do to who is listed to be told.
LEMMA ListedFacts ==
  ASSUME callStack \in Seq(Sound), callStack # << >>
  PROVE  /\ \A op \in Notices : Inner.op # op => Listed(op, Below) = Listed(op, callStack)
         /\ \A g \in Sound, op \in Notices : Inner.op # op =>
              Listed(op, callStack) \subseteq Listed(op, << g >> \o Below)
<1>1. /\ Below \in Seq(Sound)
      /\ \A op : Listed(op, callStack) =
           Listed(op, Below) \cup (IF Inner.op = op THEN Elements(Inner.list) \cap Actors ELSE {})
  BY InnerFacts
<1>2. ASSUME NEW op \in Notices, Inner.op # op PROVE Listed(op, Below) = Listed(op, callStack)
  BY <1>1, <1>2
<1>3. ASSUME NEW g \in Sound, NEW op \in Notices, Inner.op # op
      PROVE  Listed(op, callStack) \subseteq Listed(op, << g >> \o Below)
  <2>1. Listed(op, << g >> \o Below) =
          Listed(op, Below) \cup (IF g.op = op THEN Elements(g.list) \cap Actors ELSE {})
    BY <1>1, PushSplits
  <2> QED
    BY <2>1, <1>2, <1>3
<1> QED
  BY <1>2, <1>3

LEMMA AddEnds ==
  ASSUME TreeInv, Skip \/ AddReturns
  PROVE  TreeInv'
<1>1. /\ callStack # << >> /\ callStack \in Seq(Sound) /\ Inner.op = "Add" /\ callStack' = Below
      /\ UNCHANGED <<treeVars, onSceneVars, signalled, nodeParent, historyVars>>
  BY DEF Skip, AddReturns, At, TreeInv, TreeTypes
<1>2. Pending(Inner) = {}
  BY <1>1, InnerIs
<1>3. callStack' \in Seq(Sound) /\ Listing'
  BY <1>1, <1>2, InnerEnds DEF TreeInv
<1>4. \A op \in Notices : Listed(op, callStack) \subseteq Listed(op, callStack')
  BY <1>1, ListedFacts DEF Notices
<1> QED
  BY <1>1, <1>3, <1>4, StackMoves DEF onSceneVars, TreeInv, TreeTypes

LEMMA NotifyEndStep ==
  ASSUME TreeInv, NotifyEnd
  PROVE  TreeInv'
<1>1. /\ callStack # << >> /\ callStack \in Seq(Sound) /\ Inner.op \in Notices /\ callStack' = Below
      /\ Inner.list = << >>
      /\ UNCHANGED <<treeVars, onSceneVars, signalled, nodeParent, historyVars>>
  BY DEF NotifyEnd, At, TreeInv, TreeTypes
<1>2. Pending(Inner) = {}
  BY <1>1, InnerIs
<1>3. callStack' \in Seq(Sound) /\ Listing'
  BY <1>1, <1>2, InnerEnds DEF TreeInv
<1>4. \A op : Listed(op, callStack) = Listed(op, Below)
  <2>1. Elements(Inner.list) = {}
    BY <1>1, SequenceFacts DEF Elements
  <2> QED
    BY <1>1, <2>1, InnerFacts
<1> QED
  BY <1>1, <1>3, <1>4, StackMoves DEF onSceneVars, TreeInv, TreeTypes

LEMMA UncoupleStep ==
  ASSUME TreeInv, Uncouple
  PROVE  TreeInv'
<1>1. /\ callStack # << >> /\ callStack \in Seq(Sound) /\ Inner.op = "Remove" /\ Inner.pc = "uncouple"
      /\ callStack' = << InnerAt("callback") >> \o Below
      /\ UNCHANGED <<treeVars, onScene, signalled, nodeParent, historyVars>>
      /\ scene' \subseteq scene
  BY DEF Uncouple, At, TreeInv, TreeTypes
<1> DEFINE g == RemoveFrame(Inner.owner, Inner.list, Inner.notify, "callback")
<1>2. InnerAt("callback") = g
  BY <1>1, InnerIs, CallKinds DEF InnerAt, RemoveFrame
<1>3. /\ Inner.owner \in Family /\ Inner.list \in Seq(Actors) /\ Inner.notify \in BOOLEAN
      /\ Inner.list # << >> /\ (~Inner.notify => Tail(Inner.list) = << >>)
      /\ NoRepeats(Tail(Inner.list)) /\ Pending(Inner) = Elements(Tail(Inner.list))
  BY <1>1, InnerIs, CallKinds
<1>4. g \in Sound /\ g.owner = Inner.owner /\ Pending(g) = Pending(Inner)
  BY <1>3, RemoveCall
<1> HIDE DEF g
<1>5. callStack' = << g >> \o Below
  BY <1>1, <1>2
<1>6. callStack' \in Seq(Sound) /\ Listing'
  BY <1>1, <1>4, <1>5, InnerGoesOn DEF TreeInv
<1>7. \A op \in Notices : Listed(op, callStack) \subseteq Listed(op, callStack')
  BY <1>1, <1>4, <1>5, ListedFacts DEF Notices
<1>8. scene' \subseteq Family
  BY <1>1 DEF TreeInv, TreeTypes
<1> QED
  BY <1>1, <1>6, <1>7, <1>8, StackMoves

LEMMA RemoveReturnsStep ==
  ASSUME TreeInv, RemoveReturns
  PROVE  TreeInv'
<1>1. /\ callStack # << >> /\ callStack \in Seq(Sound) /\ Inner.op = "Remove" /\ Inner.pc = "callback"
      /\ UNCHANGED <<treeVars, onSceneVars, signalled, nodeParent, historyVars>>
  BY DEF RemoveReturns, At, TreeInv, TreeTypes
<1>2. /\ Inner.owner \in Family /\ Inner.list \in Seq(Actors) /\ Inner.notify \in BOOLEAN
      /\ Inner.list # << >> /\ (~Inner.notify => Tail(Inner.list) = << >>)
      /\ NoRepeats(Tail(Inner.list)) /\ Pending(Inner) = Elements(Tail(Inner.list))
      /\ Inner = [op |-> "Remove", owner |-> Inner.owner, list |-> Inner.list,
                  notify |-> Inner.notify, pc |-> Inner.pc]
  BY <1>1, InnerIs, CallKinds
<1>3. Tail(Inner.list) \in Seq(Actors) /\ (Len(Inner.list) > 1 <=> Tail(Inner.list) # << >>)
      /\ Len(Inner.list) \in Nat \ {0}
  BY <1>2, TailFacts, Positions
<1>4. CASE Len(Inner.list) = 1
  <2>1. callStack' = Below
    BY <1>4 DEF RemoveReturns
  <2>2. Pending(Inner) = {}
    BY <1>2, <1>3, <1>4 DEF Elements
  <2>3. callStack' \in Seq(Sound) /\ Listing'
    BY <1>1, <2>1, <2>2, InnerEnds DEF TreeInv
  <2>4. \A op \in Notices : Listed(op, callStack) \subseteq Listed(op, callStack')
    BY <1>1, <2>1, ListedFacts DEF Notices
  <2> QED
    BY <1>1, <2>3, <2>4, StackMoves DEF onSceneVars, TreeInv, TreeTypes
<1>5. CASE Len(Inner.list) # 1
  <2> DEFINE rest == Tail(Inner.list)
             g == RemoveFrame(Inner.owner, rest, Inner.notify, "cut")
  <2>1. rest # << >> /\ rest \in Seq(Actors) /\ Inner.notify
    <3>1. rest # << >> /\ rest \in Seq(Actors)
      <4>1. Len(Inner.list) > 1
        <5> DEFINE n == Len(Inner.list)
        <5>1. n \in Nat \ {0} /\ n # 1
          BY <1>3, <1>5
        <5> HIDE DEF n
        <5>2. n > 1
          BY <5>1
        <5> QED
          BY <5>2 DEF n
      <4> QED
        BY <1>3, <4>1, Zenon
    <3> QED
      BY <1>2, <3>1, Zenon
  <2>2. callStack' = << g >> \o Below
    <3> DEFINE h == [Inner EXCEPT !.pc = "cut", !.list = Tail(@)]
    <3>1. callStack' = << h >> \o Below
      BY <1>5 DEF RemoveReturns
    <3>2. h = [Inner EXCEPT !.pc = "cut", !.list = rest] /\ Inner \in CallFrame
      BY <1>1, InnerIs
    <3> HIDE DEF h, rest
    <3>3. h = g
      BY <3>2, <1>1, NextInList DEF RemoveFrame
    <3> QED
      BY <3>1, <3>3
  <2>3. g \in Sound /\ g.owner = Inner.owner /\ Pending(g) = Pending(Inner)
    <3>1. NoRepeats(rest) /\ Inner.owner \in Family /\ TRUE \in BOOLEAN /\ Inner.notify = TRUE
      BY <1>2, <2>1
    <3> HIDE DEF rest
    <3> QED
      BY <1>2, <2>1, <3>1, RemoveCall DEF rest
  <2> HIDE DEF g
  <2>4. callStack' \in Seq(Sound) /\ Listing'
    BY <1>1, <2>2, <2>3, InnerGoesOn DEF TreeInv
  <2>5. \A op \in Notices : Listed(op, callStack) \subseteq Listed(op, callStack')
    BY <1>1, <2>2, <2>3, ListedFacts DEF Notices
  <2> QED
    BY <1>1, <2>4, <2>5, StackMoves DEF onSceneVars, TreeInv, TreeTypes
<1> QED
  BY <1>4, <1>5

\* An actor is told, or need not be: it leaves the list of those to tell, and
\* its flag is right.
LEMMA ToldFurther ==
  ASSUME TreeInv, callStack # << >>, Inner.op \in Notices, Inner.list \in Seq(Actors),
         Inner.list # << >>, NEW g \in Sound, g.op = Inner.op, g.list = Tail(Inner.list),
         callStack' = << g >> \o Below, onScene' = onScene,
         Inner.op = "Connected" => /\ signalled \subseteq signalled'
                                   /\ signalled' \subseteq signalled \cup onScene
                                   /\ Head(Inner.list) \notin onScene \ signalled',
         Inner.op = "Disconnected" => /\ signalled' \subseteq signalled
                                      /\ signalled \subseteq signalled' \cup (Family \ onScene)
                                      /\ Head(Inner.list) \notin signalled' \ onScene
  PROVE  Told'
<1>1. callStack \in Seq(Sound) /\ Below \in Seq(Sound) /\ << g >> \o Below \in Seq(Sound)
  BY InnerFacts, PushFacts DEF TreeInv, TreeTypes
<1>2. Elements(Inner.list) = {Head(Inner.list)} \cup Elements(g.list)
  BY TailFacts
<1>3. \A op : Listed(op, callStack) =
                Listed(op, Below) \cup (IF Inner.op = op THEN Elements(Inner.list) \cap Actors ELSE {})
  BY <1>1, InnerFacts
<1>4. \A op : Listed(op, callStack') =
                Listed(op, Below) \cup (IF g.op = op THEN Elements(g.list) \cap Actors ELSE {})
  BY <1>1, PushSplits
<1>5. \A op : Listed(op, callStack) \subseteq
                Listed(op, callStack') \cup (IF Inner.op = op THEN {Head(Inner.list)} ELSE {})
  <2> SUFFICES ASSUME NEW op
               PROVE  Listed(op, callStack) \subseteq
                        Listed(op, callStack') \cup (IF Inner.op = op THEN {Head(Inner.list)} ELSE {})
    OBVIOUS
  <2>1. CASE Inner.op = op
    BY <2>1, <1>2, <1>3, <1>4
  <2>2. CASE Inner.op # op
    BY <2>2, <1>3, <1>4
  <2> QED
    BY <2>1, <2>2
<1>6. /\ (onScene \ signalled) \cap Actors \subseteq Listed("Connected", callStack)
      /\ (signalled \ onScene) \cap Actors \subseteq Listed("Disconnected", callStack)
      /\ signalled \subseteq Family
  BY DEF TreeInv, Told, TreeTypes
<1>7. CASE Inner.op = "Connected"
  <2>1. /\ Listed("Connected", callStack) \subseteq Listed("Connected", callStack') \cup {Head(Inner.list)}
        /\ Listed("Disconnected", callStack) \subseteq Listed("Disconnected", callStack')
    BY <1>7, <1>5
  <2> QED
    BY ONLY <1>6, <1>7, <2>1, onScene' = onScene, Inner.op = "Connected" =>
              /\ signalled \subseteq signalled' /\ signalled' \subseteq signalled \cup onScene
              /\ Head(Inner.list) \notin onScene \ signalled' DEF Told
<1>8. CASE Inner.op = "Disconnected"
  <2>1. /\ Listed("Disconnected", callStack) \subseteq Listed("Disconnected", callStack') \cup {Head(Inner.list)}
        /\ Listed("Connected", callStack) \subseteq Listed("Connected", callStack')
    BY <1>8, <1>5
  <2> QED
    BY ONLY <1>6, <1>8, <2>1, onScene' = onScene, Inner.op = "Disconnected" =>
              /\ signalled' \subseteq signalled
              /\ signalled \subseteq signalled' \cup (Family \ onScene)
              /\ Head(Inner.list) \notin signalled' \ onScene DEF Told
<1> QED
  BY <1>7, <1>8 DEF Notices

LEMMA SignalledAfterFacts ==
  ASSUME TreeTypes, NEW a \in Actors, NEW op \in Notices,
         NEW after, after = SignalledAfter(op, a)
  PROVE  /\ after \subseteq Family
         /\ op = "Connected" => /\ signalled \subseteq after /\ after \subseteq signalled \cup onScene
                                /\ a \notin onScene \ after
         /\ op = "Disconnected" => /\ after \subseteq signalled
                                   /\ signalled \subseteq after \cup (Family \ onScene)
                                   /\ a \notin after \ onScene
  BY DEF SignalledAfter, Notices, TreeTypes, Family

\* The parts of the invariant that a step of a notification cannot touch.
LEMMA NoticeMoves ==
  ASSUME TreeInv, callStack # << >>, Inner.op \in Notices, NEW g \in Sound, Pending(g) = {},
         callStack' = << g >> \o Below, signalled' \subseteq Family, Told',
         UNCHANGED <<treeVars, onSceneVars, nodeParent, historyVars>>
  PROVE  TreeInv'
<1>1. callStack \in Seq(Sound)
  BY DEF TreeInv, TreeTypes
<1>2. Pending(Inner) = {}
  BY <1>1, InnerIs
<1>3. callStack' \in Seq(Sound) /\ Listing'
  BY <1>2, InnerGoesOn DEF TreeInv
<1>4. Ranked(parent') /\ Following'
  BY TreeStands DEF treeVars, onSceneVars, historyVars
<1>5. TreeTypes'
  BY <1>3 DEF TreeInv, TreeTypes, treeVars, onSceneVars, historyVars
<1> QED
  BY <1>3, <1>4, <1>5 DEF TreeInv

LEMMA NotifyNextStep ==
  ASSUME TreeInv, NotifyNext
  PROVE  TreeInv'
<1> DEFINE a == Head(Inner.list)
           tell == MustTell(Inner.op, a)
<1>1. /\ callStack # << >> /\ callStack \in Seq(Sound) /\ Inner.op \in Notices /\ Inner.pc = "next"
      /\ Inner.list # << >>
      /\ UNCHANGED <<treeVars, onSceneVars, nodeParent, historyVars>>
      /\ callStack' = << IF tell /\ Inner.notify THEN InnerAt("callback")
                         ELSE [Inner EXCEPT !.list = Tail(@)] >> \o Below
      /\ signalled' = IF tell /\ ~Inner.notify THEN SignalledAfter(Inner.op, a) ELSE signalled
  BY DEF NotifyNext, At, TreeInv, TreeTypes, historyVars
<1>2. /\ Inner.list \in Seq(Actors) /\ Inner.notify \in BOOLEAN
      /\ Inner = [op |-> Inner.op, list |-> Inner.list, notify |-> Inner.notify, pc |-> Inner.pc]
  BY <1>1, InnerIs, CallKinds
<1>3. a \in Actors /\ Tail(Inner.list) \in Seq(Actors)
  BY <1>1, <1>2, TailFacts
<1>4. signalled \subseteq Family /\ TreeTypes /\ onScene' = onScene
  BY <1>1 DEF TreeInv, TreeTypes, onSceneVars
<1>5. CASE tell /\ Inner.notify
  <2> DEFINE g == [op |-> Inner.op, list |-> Inner.list, notify |-> Inner.notify, pc |-> "callback"]
  <2>1. callStack' = << g >> \o Below
    <3>1. InnerAt("callback") = g
      BY <1>2 DEF InnerAt
    <3> QED
      BY <1>1, <1>5, <3>1
  <2>2. g \in Sound /\ g.op = Inner.op /\ g.list = Inner.list /\ Pending(g) = {}
    BY <1>1, <1>2, NoticeCall
  <2> HIDE DEF g
  <2>3. signalled' = signalled
    BY <1>1, <1>5, Zenon
  <2>4. \A op : Listed(op, callStack') = Listed(op, callStack)
    <3>1. Below \in Seq(Sound)
      BY <1>1, InnerFacts
    <3>2. \A op : Listed(op, << g >> \o Below) =
            Listed(op, Below) \cup (IF g.op = op THEN Elements(g.list) \cap Actors ELSE {})
      BY <2>2, <3>1, PushSplits
    <3>3. \A op : Listed(op, callStack) =
            Listed(op, Below) \cup (IF Inner.op = op THEN Elements(Inner.list) \cap Actors ELSE {})
      BY <1>1, InnerFacts
    <3> QED
      BY <2>1, <2>2, <3>2, <3>3
  <2>5. Told'
    BY <2>3, <2>4, <1>4 DEF TreeInv, Told
  <2> QED
    BY <1>1, <1>4, <2>1, <2>2, <2>3, <2>5, NoticeMoves
<1>6. CASE ~(tell /\ Inner.notify)
  <2> DEFINE g == [op |-> Inner.op, list |-> Tail(Inner.list), notify |-> Inner.notify, pc |-> "next"]
  <2>1. callStack' = << g >> \o Below
    <3> DEFINE f == [op |-> Inner.op, list |-> Inner.list, notify |-> Inner.notify, pc |-> Inner.pc]
               h == [f EXCEPT !.list = Tail(Inner.list)]
    <3>1. h.op = Inner.op /\ h.list = Tail(Inner.list) /\ h.notify = Inner.notify /\ h.pc = "next"
      BY <1>1
    <3>2. h = [k \in {"op", "list", "notify", "pc"} |-> h[k]]
      OBVIOUS
    <3>3. h = [op |-> h.op, list |-> h.list, notify |-> h.notify, pc |-> h.pc]
      <4> HIDE DEF h
      <4> QED
        BY <3>2
    <3>4. h = g
      BY <3>1, <3>3
    <3>5. Inner = f
      BY <1>2
    <3>6. [Inner EXCEPT !.list = Tail(@)] = h
      <4> HIDE DEF f
      <4> QED
        BY <3>5
    <3> QED
      BY <1>1, <1>6, <3>4, <3>6, Zenon
  <2>2. g \in Sound /\ g.op = Inner.op /\ g.list = Tail(Inner.list) /\ Pending(g) = {}
    BY <1>1, <1>2, <1>3, NoticeCall
  <2> HIDE DEF g
  <2>3. /\ signalled' \subseteq Family
        /\ Inner.op = "Connected" => /\ signalled \subseteq signalled'
                                     /\ signalled' \subseteq signalled \cup onScene
                                     /\ a \notin onScene \ signalled'
        /\ Inner.op = "Disconnected" => /\ signalled' \subseteq signalled
                                        /\ signalled \subseteq signalled' \cup (Family \ onScene)
                                        /\ a \notin signalled' \ onScene
    <3>1. CASE tell
      <4>1. signalled' = SignalledAfter(Inner.op, a)
        BY <1>1, <1>2, <1>6, <3>1, Zenon
      <4> QED
        BY <4>1, <1>1, <1>3, <1>4, SignalledAfterFacts
    <3>2. CASE ~tell
      <4>1. signalled' = signalled
        BY <1>1, <3>2, Zenon
      <4>2. /\ Inner.op = "Connected" => a \notin onScene \ signalled
            /\ Inner.op = "Disconnected" => a \notin signalled \ onScene
        BY <3>2 DEF MustTell
      <4> QED
        BY <4>1, <4>2, <1>4
    <3> QED
      BY <3>1, <3>2
  <2>4. Told'
    BY <1>1, <1>2, <1>4, <2>1, <2>2, <2>3, ToldFurther
  <2> QED
    BY <1>1, <2>1, <2>2, <2>3, <2>4, NoticeMoves
<1> QED
  BY <1>5, <1>6

LEMMA NotifyReturnsStep ==
  ASSUME TreeInv, NotifyReturns
  PROVE  TreeInv'
<1> DEFINE a == Head(Inner.list)
           g == [op |-> Inner.op, list |-> Tail(Inner.list), notify |-> Inner.notify, pc |-> "next"]
           h == [Inner EXCEPT !.pc = "next", !.list = Tail(@)]
<1>1. /\ callStack # << >> /\ callStack \in Seq(Sound) /\ Inner.op \in Notices /\ Inner.pc = "callback"
      /\ UNCHANGED <<treeVars, onSceneVars, nodeParent, historyVars>>
      /\ callStack' = << h >> \o Below
      /\ signalled' = SignalledAfter(Inner.op, a)
  BY DEF NotifyReturns, At, TreeInv, TreeTypes, historyVars
<1>2. /\ Inner.list \in Seq(Actors) /\ Inner.notify \in BOOLEAN /\ Inner.list # << >>
      /\ Inner \in CallFrame
  BY <1>1, InnerIs, CallKinds
<1>3. a \in Actors /\ Tail(Inner.list) \in Seq(Actors)
  BY <1>2, TailFacts
<1>4. TreeTypes /\ onScene' = onScene
  BY <1>1 DEF TreeInv, onSceneVars
<1>5. h = g
  <2> DEFINE rest == Tail(Inner.list)
  <2>1. h = [Inner EXCEPT !.pc = "next", !.list = rest]
    OBVIOUS
  <2> HIDE DEF h, rest
  <2>2. Inner.op # "Add"
    BY <1>1 DEF Notices
  <2>3. h = [op |-> Inner.op, list |-> rest, notify |-> Inner.notify, pc |-> "next"]
    BY <1>1, <1>2, <2>1, <2>2, NextInList
  <2> QED
    BY <2>3 DEF rest
<1>6. g \in Sound /\ g.op = Inner.op /\ g.list = Tail(Inner.list) /\ Pending(g) = {}
  BY <1>1, <1>2, <1>3, NoticeCall
<1> HIDE DEF g, h
<1>7. /\ signalled' \subseteq Family
      /\ Inner.op = "Connected" => /\ signalled \subseteq signalled'
                                   /\ signalled' \subseteq signalled \cup onScene
                                   /\ a \notin onScene \ signalled'
      /\ Inner.op = "Disconnected" => /\ signalled' \subseteq signalled
                                      /\ signalled \subseteq signalled' \cup (Family \ onScene)
                                      /\ a \notin signalled' \ onScene
  BY <1>1, <1>3, <1>4, SignalledAfterFacts
<1>8. callStack' = << g >> \o Below
  BY <1>1, <1>5
<1>9. Told'
  BY <1>1, <1>2, <1>4, <1>6, <1>7, <1>8, ToldFurther
<1> QED
  BY <1>1, <1>6, <1>7, <1>8, <1>9, NoticeMoves

-----------------------------------------------------------------------------
(* The calls of the application.                                             *)

\* What a call takes out of mChildren is what it now has to detach.
LEMMA CallPushes ==
  ASSUME TreeInv, Call, callStack' \in Seq(Sound), NEW D,
         children' \in [Family -> Seq(Actors)],
         \A p \in Family : /\ NoRepeats(children'[p])
                           /\ Elements(children'[p]) = Elements(children[p]) \ D,
         PendingIn(callStack') = PendingIn(callStack) \cup D,
         Apart(callStack'), Owned(parent, callStack'),
         \A op : Listed(op, callStack) \subseteq Listed(op, callStack')
  PROVE  TreeInv'
<1>1. /\ UNCHANGED <<parent, onScene, scene, signalled, nodeParent, failed, cutShort>>
      /\ calls' \in 0 .. MaxCalls
  BY ActorAssumption DEF Call, onSceneVars, TreeInv, TreeTypes
<1>2. Ranked(parent') /\ Following'
  BY <1>1, TreeStands
<1>3. TreeTypes'
  BY <1>1 DEF TreeInv, TreeTypes
<1>4. Told'
  BY <1>1 DEF TreeInv, Told
<1>5. ASSUME NEW p \in Family
      PROVE  Elements(children'[p]) = {c \in Actors : parent'[c] = p /\ c \notin PendingIn(callStack')}
  <2>1. Elements(children[p]) = {c \in Actors : parent[c] = p /\ c \notin PendingIn(callStack)}
    BY DEF TreeInv, Listing
  <2> QED
    BY <2>1, <1>1
<1>6. Listing'
  BY <1>1, <1>5 DEF Listing
<1> QED
  BY <1>2, <1>3, <1>4, <1>6 DEF TreeInv

\* Taking a child out of the list of its parent.
LEMMA ErasedFacts ==
  ASSUME TreeTypes, Listing, NEW c \in Actors, NEW q \in Family, parent[c] = q
  PROVE  /\ Erased(q, c) \in [Family -> Seq(Actors)]
         /\ \A p \in Family : /\ NoRepeats(Erased(q, c)[p])
                              /\ Elements(Erased(q, c)[p]) = Elements(children[p]) \ {c}
         /\ c \notin Elements(children[q]) => Erased(q, c) = children /\ c \in PendingIn(callStack)
         /\ c \in Elements(children[q]) => c \notin PendingIn(callStack)
<1>1. /\ children \in [Family -> Seq(Actors)]
      /\ \A p \in Family : /\ NoRepeats(children[p])
                           /\ Elements(children[p]) =
                                {d \in Actors : parent[d] = p /\ d \notin PendingIn(callStack)}
  BY DEF TreeTypes, Listing
<1> DEFINE rest == EraseFirst(children[q], c)
<1>2. /\ rest \in Seq(Actors) /\ NoRepeats(rest) /\ Elements(rest) = Elements(children[q]) \ {c}
      /\ c \notin Elements(children[q]) => rest = children[q]
  BY <1>1, EraseFirstFacts
<1>3. Erased(q, c) = [children EXCEPT ![q] = rest]
  BY DEF Erased
<1> HIDE DEF rest
<1>4. /\ Erased(q, c) \in [Family -> Seq(Actors)] /\ Erased(q, c)[q] = rest
      /\ \A p \in Family : p # q => Erased(q, c)[p] = children[p]
  BY <1>1, <1>2, <1>3
<1>5. ASSUME NEW p \in Family
      PROVE  NoRepeats(Erased(q, c)[p]) /\ Elements(Erased(q, c)[p]) = Elements(children[p]) \ {c}
  <2>1. CASE p = q
    BY <2>1, <1>2, <1>4
  <2>2. CASE p # q
    <3>1. c \notin Elements(children[p])
      BY <2>2, <1>1
    <3> QED
      BY <2>2, <3>1, <1>1, <1>4
  <2> QED
    BY <2>1, <2>2
<1>6. ASSUME c \notin Elements(children[q]) PROVE Erased(q, c) = children /\ c \in PendingIn(callStack)
  <2>1. [children EXCEPT ![q] = children[q]] = children
    BY <1>1
  <2> QED
    BY <2>1, <1>1, <1>2, <1>3, <1>6
<1> QED
  BY <1>1, <1>4, <1>5, <1>6

\* The call of Remove, which has the child to detach if it found it.
LEMMA RemoveOfFacts ==
  ASSUME TreeTypes, NEW q \in Family, NEW c \in Actors, NEW notify \in BOOLEAN
  PROVE  LET f == RemoveOf(q, c, notify)
         IN  /\ f \in Sound /\ f.op = "Remove" /\ f.owner = q
             /\ Pending(f) = IF c \in Elements(children[q]) THEN {c} ELSE {}
<1> DEFINE place == IF c \in Elements(children[q]) THEN "cut" ELSE "callback"
           one == << c >>
           f == RemoveFrame(q, one, notify, place)
<1>1. one \in Seq(Actors) /\ one # << >> /\ Tail(one) = << >> /\ Elements(one) = {c}
      /\ NoRepeats(one) /\ NoRepeats(<< >>) /\ Elements(<< >>) = {}
  BY DEF Elements, NoRepeats
<1>2. RemoveOf(q, c, notify) = f
  BY ElementsOfList DEF RemoveOf
<1>3. place \in {"cut", "uncouple", "callback"} /\ (place = "cut" <=> c \in Elements(children[q]))
  OBVIOUS
<1> HIDE DEF place, one
<1>4. /\ f \in Sound /\ f.op = "Remove" /\ f.owner = q
      /\ Pending(f) = Elements(IF place = "cut" THEN one ELSE Tail(one))
  <2>1. NoRepeats(IF place = "cut" THEN one ELSE Tail(one)) /\ (~notify => Tail(one) = << >>)
    BY <1>1
  <2> QED
    BY <1>1, <1>3, <2>1, RemoveCall
<1> HIDE DEF f
<1>5. Pending(f) = IF c \in Elements(children[q]) THEN {c} ELSE {}
  BY <1>1, <1>3, <1>4
<1> QED
  BY <1>2, <1>4, <1>5

\* One call under way more, with nothing to detach that another has.
LEMMA PushOne ==
  ASSUME TreeInv, Call, NEW f \in Sound, callStack' = << f >> \o callStack, f.owner \in Family,
         Pending(f) \cap PendingIn(callStack) = {}, \A c \in Pending(f) : parent[c] = f.owner,
         children' \in [Family -> Seq(Actors)],
         \A p \in Family : /\ NoRepeats(children'[p])
                           /\ Elements(children'[p]) = Elements(children[p]) \ Pending(f)
  PROVE  TreeInv'
<1>1. callStack \in Seq(Sound) /\ Apart(callStack) /\ Owned(parent, callStack)
  BY DEF TreeInv, TreeTypes, Listing
<1> DEFINE t == << f >> \o callStack
<1>2. /\ t \in Seq(Sound) /\ PendingIn(t) = PendingIn(callStack) \cup Pending(f)
      /\ Apart(t) /\ Owned(parent, t) /\ \A op : Listed(op, callStack) \subseteq Listed(op, t)
  BY <1>1, PushFacts, PushSplits
<1>3. callStack' = t
  OBVIOUS
<1> HIDE DEF t
<1> QED
  BY <1>2, <1>3, CallPushes

LEMMA UnparentStep ==
  ASSUME TreeInv, NEW c \in Actors, Unparent(c)
  PROVE  TreeInv'
<1> DEFINE q == parent[c]
           f == RemoveOf(q, c, TRUE)
<1>1. /\ Call /\ q # None /\ children' = Erased(q, c) /\ callStack' = << f >> \o callStack
      /\ TreeTypes /\ Listing
  BY DEF Unparent, TreeInv
<1>2. q \in Family /\ parent[c] = q
  BY <1>1 DEF TreeTypes, Family
<1>3. /\ f \in Sound /\ f.owner = q
      /\ Pending(f) = IF c \in Elements(children[q]) THEN {c} ELSE {}
  BY <1>1, <1>2, RemoveOfFacts
<1> HIDE DEF f, q
<1>4. /\ Erased(q, c) \in [Family -> Seq(Actors)]
      /\ \A p \in Family : /\ NoRepeats(Erased(q, c)[p])
                           /\ Elements(Erased(q, c)[p]) = Elements(children[p]) \ {c}
      /\ c \notin Elements(children[q]) => Erased(q, c) = children
      /\ c \in Elements(children[q]) => c \notin PendingIn(callStack)
  BY <1>1, <1>2, ErasedFacts
<1>5. \A p \in Family : Elements(children'[p]) = Elements(children[p]) \ Pending(f)
  <2>1. CASE c \in Elements(children[q])
    BY <2>1, <1>1, <1>3, <1>4
  <2>2. CASE c \notin Elements(children[q])
    BY <2>2, <1>1, <1>3, <1>4
  <2> QED
    BY <2>1, <2>2
<1>6. Pending(f) \cap PendingIn(callStack) = {} /\ \A d \in Pending(f) : parent[d] = f.owner
  BY <1>2, <1>3, <1>4
<1> QED
  BY <1>1, <1>2, <1>3, <1>4, <1>5, <1>6, PushOne

LEMMA RemoveAllStep ==
  ASSUME TreeInv, NEW p \in Family, RemoveAll(p)
  PROVE  TreeInv'
<1> DEFINE row == children[p]
           f == RemoveFrame(p, row, TRUE, "cut")
<1>1. /\ Call /\ row # << >> /\ children' = [children EXCEPT ![p] = << >>]
      /\ callStack' = << f >> \o callStack /\ TreeTypes /\ Listing
  BY DEF RemoveAll, TreeInv
<1>2. /\ children \in [Family -> Seq(Actors)] /\ row \in Seq(Actors) /\ NoRepeats(row)
      /\ \A q \in Family : /\ NoRepeats(children[q])
                           /\ Elements(children[q]) =
                                {c \in Actors : parent[c] = q /\ c \notin PendingIn(callStack)}
  BY <1>1 DEF TreeTypes, Listing
<1>3. f \in Sound /\ f.owner = p /\ Pending(f) = Elements(row)
  <2> HIDE DEF row
  <2>1. row \in Seq(Actors) /\ row # << >> /\ NoRepeats(row) /\ TRUE \in BOOLEAN
    BY <1>1, <1>2
  <2> QED
    BY <2>1, RemoveCall
<1> HIDE DEF f
<1>4. /\ children' \in [Family -> Seq(Actors)] /\ children'[p] = << >>
      /\ \A q \in Family : q # p => children'[q] = children[q]
  BY <1>1, <1>2
<1>5. NoRepeats(<< >>) /\ Elements(<< >>) = {}
  BY DEF NoRepeats, Elements
<1>6. ASSUME NEW q \in Family
      PROVE  NoRepeats(children'[q]) /\ Elements(children'[q]) = Elements(children[q]) \ Pending(f)
  <2>1. CASE q = p
    BY <2>1, <1>3, <1>4, <1>5
  <2>2. CASE q # p
    <3>1. Elements(children[q]) \cap Pending(f) = {}
      BY <2>2, <1>2, <1>3
    <3> QED
      BY <2>2, <3>1, <1>2, <1>4
  <2> QED
    BY <2>1, <2>2
<1>7. Pending(f) \cap PendingIn(callStack) = {} /\ \A c \in Pending(f) : parent[c] = f.owner
  BY <1>2, <1>3
<1> QED
  BY <1>1, <1>3, <1>4, <1>6, <1>7, PushOne

LEMMA AddChildStep ==
  ASSUME TreeInv, NEW p \in Family, NEW c \in Actors, NEW notify \in BOOLEAN, AddChild(p, c, notify)
  PROVE  TreeInv'
<1> DEFINE q == parent[c]
           f == RemoveOf(q, c, notify)
           g == AddFrame(p, c, notify)
<1>1. Call /\ TreeTypes /\ Listing /\ callStack \in Seq(Sound) /\ children \in [Family -> Seq(Actors)]
      /\ \A x \in Family : NoRepeats(children[x])
  BY DEF AddChild, TreeInv, TreeTypes, Listing
<1>2. g \in Sound /\ Pending(g) = {} /\ g.owner = p
  <2>1. g.owner = p
    BY DEF AddFrame
  <2> QED
    BY <2>1, AddCall DEF AddFrame
<1>3. CASE q = None
  <2>1. children' = children /\ callStack' = << g >> \o callStack
    BY <1>3 DEF AddChild
  <2> HIDE DEF g
  <2> QED
    BY <1>1, <1>2, <2>1, PushOne
<1>4. CASE q # None
  <2>1. q \in Family /\ parent[c] = q
    BY <1>1, <1>4 DEF TreeTypes, Family
  <2>2. /\ children' = Erased(q, c)
        /\ callStack' = (IF notify \/ c \in Elements(children[q]) THEN << f >> ELSE << >>)
                          \o << g >> \o callStack
    BY <1>4, ElementsOfList DEF AddChild
  <2>3. /\ f \in Sound /\ f.owner = q
        /\ Pending(f) = IF c \in Elements(children[q]) THEN {c} ELSE {}
    BY <1>1, <2>1, RemoveOfFacts
  <2>4. /\ Erased(q, c) \in [Family -> Seq(Actors)]
        /\ \A x \in Family : /\ NoRepeats(Erased(q, c)[x])
                             /\ Elements(Erased(q, c)[x]) = Elements(children[x]) \ {c}
        /\ c \notin Elements(children[q]) => Erased(q, c) = children
        /\ c \in Elements(children[q]) => c \notin PendingIn(callStack)
    BY <1>1, <2>1, ErasedFacts
  <2> HIDE DEF f, g, q
  <2>5. CASE notify \/ c \in Elements(children[q])
    <3> DEFINE t == << f >> \o (<< g >> \o callStack)
    <3>1. callStack' = t
      <4>1. callStack' = << f >> \o << g >> \o callStack
        BY <2>2, <2>5, Zenon
      <4>2. << f >> \o << g >> \o callStack = << f >> \o (<< g >> \o callStack)
        <5>1. f \in Sound /\ g \in Sound /\ callStack \in Seq(Sound)
          BY <1>1, <1>2, <2>3
        <5> QED
          BY ONLY <5>1, PushBoth, Zenon
      <4> QED
        BY <4>1, <4>2
    <3>2. Apart(callStack) /\ Owned(parent, callStack)
      BY <1>1 DEF Listing
    <3>3. Pending(f) \cap PendingIn(callStack) = {} /\ \A d \in Pending(f) : parent[d] = f.owner
      BY <2>1, <2>3, <2>4
    <3>4. OnTop(t, f, g, callStack)
      <4>1. /\ f \in Sound /\ g \in Sound /\ callStack \in Seq(Sound)
            /\ t = << f >> \o (<< g >> \o callStack)
        BY <1>1, <1>2, <2>3
      <4> HIDE DEF t
      <4> QED
        BY ONLY <4>1, PushTwo
    <3> HIDE DEF t
    <3>5. /\ t \in Seq(Sound) /\ PendingIn(t) = PendingIn(callStack) \cup Pending(f)
          /\ Apart(t) /\ Owned(parent, t) /\ \A op : Listed(op, callStack) \subseteq Listed(op, t)
      BY <1>2, <3>2, <3>3, <3>4 DEF OnTop
    <3>6. \A x \in Family : /\ NoRepeats(children'[x])
                            /\ Elements(children'[x]) = Elements(children[x]) \ Pending(f)
      <4>1. CASE c \in Elements(children[q])
        BY <4>1, <2>2, <2>3, <2>4
      <4>2. CASE c \notin Elements(children[q])
        BY <4>2, <1>1, <2>2, <2>3, <2>4
      <4> QED
        BY <4>1, <4>2
    <3> QED
      BY <1>1, <2>2, <2>4, <3>1, <3>5, <3>6, CallPushes
  <2>6. CASE ~(notify \/ c \in Elements(children[q]))
    <3>1. callStack' = << g >> \o callStack /\ children' = children
      <4>1. callStack' = << >> \o << g >> \o callStack
        BY <2>2, <2>6, Zenon
      <4>2. << g >> \in Seq(Sound)
        BY <1>2
      <4>3. << >> \o << g >> = << g >>
        BY <4>2
      <4>4. c \notin Elements(children[q])
        BY <2>6, Zenon
      <4> QED
        BY <4>1, <4>3, <4>4, <2>2, <2>4, Zenon
    <3> QED
      BY <1>1, <1>2, <3>1, PushOne
  <2> QED
    BY <2>5, <2>6
<1> QED
  BY <1>3, <1>4

-----------------------------------------------------------------------------
(* The steps that change the tree.                                           *)

\* What a call has still to detach are actors, whose owner is one.
LEMMA PendingOwners ==
  ASSUME NEW up, NEW s \in Seq(Sound), Owned(up, s)
  PROVE  \A d \in PendingIn(s) : d \in Actors /\ up[d] \in Family
<1> SUFFICES ASSUME NEW k \in 1 .. Len(s), NEW d \in Pending(s[k])
             PROVE  d \in Actors /\ up[d] \in Family
  BY DEF PendingIn
<1>1. s[k] \in Sound /\ up[d] = s[k].owner
  BY DEF Owned
<1>2. s[k] \in CallFrame /\ s[k].op = "Remove"
  BY <1>1 DEF Sound, Pending
<1>3. s[k].owner \in Family /\ s[k].list \in Seq(Actors) /\ s[k].list # << >>
  BY <1>1, <1>2, CallKinds DEF Sound
<1>4. d \in Elements(s[k].list) \/ d \in Elements(Tail(s[k].list))
  BY <1>2, ElementsOfList DEF Pending
<1>5. Tail(s[k].list) \in Seq(Actors)
  BY <1>3
<1>6. d \in Actors
  BY <1>3, <1>4, <1>5 DEF Elements
<1> QED
  BY <1>1, <1>3, <1>6

\* The walk of the children stays under the actor where it starts, and reaches
\* all that is there unless a child is taken out of the list and not detached.
LEMMA WalkIsUnder ==
  ASSUME TreeTypes, Ranked(parent), Listing, NEW order, NEW c \in Actors
  PROVE  /\ Walk(order, c) \in Seq(Actors)
         /\ c \in Elements(Walk(order, c))
         /\ Elements(Walk(order, c)) \subseteq Under(parent, c)
         /\ (\A d \in PendingIn(callStack) : parent[d] \notin Elements(Walk(order, c)))
              => Elements(Walk(order, c)) = Under(parent, c)
<1>1. PICK M \in Nat : \E depth \in [Family -> 0 .. M] : Climbs(parent, depth)
  BY DEF Ranked
<1>2. PICK depth \in [Family -> 0 .. M] : Climbs(parent, depth)
  BY <1>1
<1>3. /\ children \in [Family -> Seq(Actors)] /\ None \notin Family /\ c \in Family
      /\ Actors \subseteq Family /\ parent[Root] = None
      /\ \A p \in Family : Elements(children[p]) =
                             {d \in Actors : parent[d] = p /\ d \notin PendingIn(callStack)}
  BY ActorAssumption DEF TreeTypes, Listing, Family
<1>4. Deepens(depth)
  <2> SUFFICES ASSUME NEW p \in Family, NEW d \in Elements(children[p])
               PROVE  depth[p] < depth[d]
    BY DEF Deepens
  <2>1. d \in Family /\ parent[d] = p /\ p # None
    BY <1>3
  <2> QED
    BY <1>2, <2>1 DEF Climbs
<1> DEFINE w == Walk(order, c)
<1>5. /\ w \in Seq(Actors) /\ c \in Elements(w)
      /\ \A y \in Elements(w) : Elements(children[y]) \subseteq Elements(w)
      /\ \A S : c \in S /\ (\A y \in S \cap Family : Elements(children[y]) \subseteq S)
                  => Elements(w) \subseteq S
  BY <1>3, <1>4, WalkFacts
<1> HIDE DEF w
<1>6. Elements(w) \subseteq Under(parent, c)
  <2>1. c \in Under(parent, c) /\ \A y \in Family : parent[y] \in Under(parent, c) => y \in Under(parent, c)
    BY <1>3, UnderFacts
  <2>2. ASSUME NEW y \in Under(parent, c) \cap Family
        PROVE  Elements(children[y]) \subseteq Under(parent, c)
    BY <1>3, <2>1
  <2> QED
    BY <1>5, <2>1, <2>2
<1>7. ASSUME \A d \in PendingIn(callStack) : parent[d] \notin Elements(w)
      PROVE  Under(parent, c) \subseteq Elements(w)
  <2>1. Elements(w) \subseteq Actors
    BY <1>5 DEF Elements
  <2>2. ASSUME NEW y \in Family, parent[y] \in Elements(w) PROVE y \in Elements(w)
    <3>1. y \in Actors /\ parent[y] \in Family
      BY <1>3, <2>1, <2>2 DEF Family
    <3>2. y \in Elements(children[parent[y]])
      BY <1>3, <1>7, <2>2, <3>1
    <3> QED
      BY <1>5, <2>2, <3>2
  <2>3. Elements(w) \in SUBSET Family
    BY <1>3, <2>1
  <2> QED
    BY <1>3, <1>5, <2>2, <2>3, UnderLeast
<1> QED
  BY <1>5, <1>6, <1>7 DEF w

\* What it means that the subtree holds no actor whose RemoveAll is under way.
LEMMA NotCutShort ==
  ASSUME callStack \in Seq(Sound), callStack # << >>, Owned(parent, Below), NEW sub, ~CutsShort(sub)
  PROVE  \A d \in PendingIn(Below) : parent[d] \notin sub
<1>1. /\ Below \in Seq(Sound) /\ Len(Below) = Len(callStack) - 1 /\ Len(callStack) \in Nat \ {0}
      /\ \A k \in 1 .. Len(Below) : Below[k] = callStack[k + 1]
  BY HeadTailProperties DEF Below
<1> SUFFICES ASSUME NEW k \in 1 .. Len(Below), NEW d \in Pending(Below[k])
             PROVE  parent[d] \notin sub
  BY DEF PendingIn
<1>2. k + 1 \in 2 .. Len(callStack) /\ Below[k] = callStack[k + 1]
  BY <1>1
<1>3. parent[d] = Below[k].owner
  BY DEF Owned
<1>4. Pending(callStack[k + 1]) # {}
  BY <1>2
<1> QED
  BY <1>2, <1>3, <1>4 DEF CutsShort

\* Attach: the calls after it have what there was to detach, and nothing more.
LEMMA AttachStack ==
  ASSUME TreeInv, Attach
  PROVE  /\ callStack' \in Seq(Sound) /\ PendingIn(callStack') = PendingIn(callStack)
         /\ PendingIn(callStack) = PendingIn(Below)
         /\ Apart(callStack') /\ Owned(parent, callStack')
         /\ \A op \in Notices : Listed(op, callStack) \subseteq Listed(op, callStack')
         /\ Inner.owner \in onScene =>
              Elements(PreOrder(Inner.child)) \cap Actors \subseteq Listed("Connected", callStack')
<1>1. /\ callStack # << >> /\ callStack \in Seq(Sound) /\ Inner.op = "Add"
      /\ Apart(callStack) /\ Owned(parent, callStack)
      /\ TreeTypes /\ Ranked(parent) /\ Listing
  BY DEF Attach, At, TreeInv, TreeTypes, Listing
<1>2. /\ Inner \in CallFrame /\ Pending(Inner) = {} /\ Inner.owner \in Family /\ Inner.child \in Actors
      /\ Inner.notify \in BOOLEAN
      /\ Inner = [op |-> "Add", owner |-> Inner.owner, child |-> Inner.child,
                  notify |-> Inner.notify, pc |-> Inner.pc]
  BY <1>1, InnerIs, CallKinds
<1> DEFINE g == InnerAt("callback")
           row == PreOrder(Inner.child)
           f == Notification("Connected", row, Inner.notify)
<1>3. g \in Sound /\ g.op = "Add" /\ Pending(g) = {}
  <2>1. g = [op |-> "Add", owner |-> Inner.owner, child |-> Inner.child,
             notify |-> Inner.notify, pc |-> "callback"]
    BY <1>2 DEF InnerAt
  <2> HIDE DEF g
  <2> QED
    BY <1>2, <2>1, AddCall
<1>4. row \in Seq(Actors)
  BY <1>1, <1>2, WalkIsUnder DEF PreOrder
<1>5. f \in Sound /\ f.op = "Connected" /\ f.list = row /\ Pending(f) = {}
  <2> HIDE DEF row
  <2> QED
    BY <1>2, <1>4, NoticeCall DEF Notification, Notices
<1>6. /\ Below \in Seq(Sound) /\ Apart(Below) /\ Owned(parent, Below)
      /\ PendingIn(Below) = PendingIn(callStack)
      /\ \A op \in Notices : Listed(op, Below) = Listed(op, callStack)
  BY <1>1, <1>2, InnerFacts, ListedFacts DEF Notices
<1>7. CASE Inner.owner \in onScene
  <2>1. callStack' = << f, g >> \o Below
    BY <1>7 DEF Attach
  <2> HIDE DEF f, g, row
  <2> DEFINE t == << f >> \o (<< g >> \o Below)
  <2>2. callStack' = t
    <3>1. f \in Sound /\ g \in Sound /\ Below \in Seq(Sound)
      BY <1>3, <1>5, <1>6
    <3>2. << f, g >> \o Below = t
      BY ONLY <3>1, PushBoth
    <3> QED
      BY <2>1, <3>2
  <2>3. OnTop(t, f, g, Below)
    <3>1. f \in Sound /\ g \in Sound /\ Below \in Seq(Sound) /\ t = << f >> \o (<< g >> \o Below)
      BY <1>3, <1>5, <1>6
    <3> HIDE DEF t
    <3> QED
      BY ONLY <3>1, PushTwo
  <2> HIDE DEF t
  <2>4. /\ t \in Seq(Sound) /\ PendingIn(t) = PendingIn(Below) /\ Apart(t) /\ Owned(parent, t)
    BY <1>3, <1>5, <1>6, <2>3 DEF OnTop
  <2>5. /\ \A op : Listed(op, Below) \subseteq Listed(op, t)
        /\ Elements(row) \cap Actors \subseteq Listed("Connected", t)
    BY <1>3, <1>5, <2>3 DEF OnTop
  <2> QED
    BY <1>6, <2>2, <2>4, <2>5 DEF row
<1>8. CASE Inner.owner \notin onScene
  <2>1. callStack' = IF Inner.notify THEN << g >> \o Below ELSE Below
    BY <1>8 DEF Attach
  <2> HIDE DEF g
  <2>2. /\ << g >> \o Below \in Seq(Sound) /\ PendingIn(<< g >> \o Below) = PendingIn(Below)
        /\ Apart(<< g >> \o Below) /\ Owned(parent, << g >> \o Below)
        /\ \A op : Listed(op, Below) \subseteq Listed(op, << g >> \o Below)
    <3>1. g \in Sound /\ Below \in Seq(Sound)
      BY <1>3, <1>6
    <3>2. << g >> \o Below \in Seq(Sound)
      BY ONLY <3>1, PushFacts
    <3>3. /\ PendingIn(<< g >> \o Below) = Pending(g) \cup PendingIn(Below)
          /\ Apart(<< g >> \o Below) <=> Apart(Below) /\ Pending(g) \cap PendingIn(Below) = {}
      BY ONLY <3>1, PushSplits
    <3>4. Owned(parent, << g >> \o Below) <=>
            Owned(parent, Below) /\ \A d \in Pending(g) : parent[d] = g.owner
      BY ONLY <3>1, PushSplits
    <3>5. \A op : Listed(op, Below) \subseteq Listed(op, << g >> \o Below)
      BY ONLY <3>1, PushSplits
    <3> QED
      BY <1>3, <1>6, <3>2, <3>3, <3>4, <3>5
  <2> QED
    BY <1>6, <1>8, <2>1, <2>2
<1> QED
  BY <1>7, <1>8

LEMMA AttachStep ==
  ASSUME TreeInv, Attach
  PROVE  TreeInv'
<1> DEFINE p == Inner.owner
           c == Inner.child
           row == PreOrder(c)
           sub == Elements(row)
<1>1. /\ callStack # << >> /\ callStack \in Seq(Sound) /\ Inner.op = "Add"
      /\ TreeTypes /\ Ranked(parent) /\ Listing /\ Told /\ Following
      /\ parent[c] = None /\ ~IsUnder(parent, p, c)
      /\ children' = [children EXCEPT ![p] = Append(@, c)]
      /\ parent' = [parent EXCEPT ![c] = p]
      /\ UNCHANGED <<signalled, calls>>
  BY DEF Attach, At, MayAttach, TreeInv, TreeTypes
<1>2. p \in Family /\ c \in Actors /\ c \in Family /\ c # Root /\ None \notin Family /\ p # None
  BY <1>1, InnerIs, CallKinds, ActorAssumption DEF Family
<1>3. ToSet(row) = sub
  BY ElementsOfList
<1>4. p \in onScene =>
        /\ onScene' = onScene \cup sub
        /\ scene' = IF p \in scene THEN scene \cup sub ELSE scene \ sub
        /\ nodeParent' = [a \in Family |-> IF a \in sub THEN parent'[a] ELSE nodeParent[a]]
        /\ failed' = failed \cup Failing("SetParent", parent[c] # None)
                       \cup Failing("RecursiveConnectToScene", sub \cap onScene # {})
                       \cup Failing("ConnectNode", ~NodesConnect(p, row))
        /\ cutShort' = (cutShort \/ CutsShort(sub))
  BY <1>3 DEF Attach
<1>5. p \notin onScene =>
        /\ scene' = IF p \in scene THEN scene \cup {c} ELSE scene \ {c}
        /\ failed' = failed \cup Failing("SetParent", parent[c] # None)
        /\ UNCHANGED <<onScene, nodeParent, cutShort>>
  BY DEF Attach
<1>6. /\ callStack' \in Seq(Sound) /\ PendingIn(callStack') = PendingIn(callStack)
      /\ PendingIn(callStack) = PendingIn(Below)
      /\ Apart(callStack') /\ Owned(parent, callStack')
      /\ \A op \in Notices : Listed(op, callStack) \subseteq Listed(op, callStack')
      /\ p \in onScene => sub \cap Actors \subseteq Listed("Connected", callStack')
  BY AttachStack
<1>7. /\ row \in Seq(Actors) /\ c \in sub /\ sub \subseteq Under(parent, c)
      /\ (\A d \in PendingIn(callStack) : parent[d] \notin sub) => sub = Under(parent, c)
  BY <1>1, <1>2, WalkIsUnder DEF PreOrder
<1>8. sub \subseteq Actors /\ sub \subseteq Family
  BY <1>7 DEF Elements, Family
<1> HIDE DEF p, c, row, sub
<1>9. /\ parent \in Parents /\ p \notin Under(parent, c)
      /\ parent \in [Family -> Family \cup {None}]
      /\ children \in [Family -> Seq(Actors)]
      /\ onScene \subseteq Family /\ scene \subseteq Family
      /\ nodeParent \in [Family -> Family \cup {None}]
      /\ failed \subseteq Assertions /\ cutShort \in BOOLEAN
  BY <1>1 DEF TreeTypes, Parents, Under
<1>10. /\ parent' \in Parents
       /\ Ranked(parent')
       /\ c \notin Under(parent, Root)
       /\ p \in Under(parent, Root) => Under(parent', Root) = Under(parent, Root) \cup Under(parent, c)
       /\ p \notin Under(parent, Root) => Under(parent', Root) = Under(parent, Root)
  BY <1>1, <1>2, <1>9, AttachFacts
<1>11. TreeTypes'
  <2>1. parent' \in [Family -> Family \cup {None}] /\ parent'[Root] = None
    BY <1>10 DEF Parents
  <2>2. children' \in [Family -> Seq(Actors)]
    BY <1>1, <1>2, <1>9
  <2>3. onScene' \subseteq Family /\ scene' \subseteq Family /\ cutShort' \in BOOLEAN
    BY <1>2, <1>4, <1>5, <1>8, <1>9
  <2>4. nodeParent' \in [Family -> Family \cup {None}]
    <3>1. CASE p \in onScene
      BY <3>1, <1>4, <1>9, <2>1
    <3>2. CASE p \notin onScene
      BY <3>2, <1>5, <1>9
    <3> QED
      BY <3>1, <3>2
  <2>5. failed' \subseteq Assertions
    BY <1>4, <1>5, <1>9 DEF Failing, Assertions
  <2> QED
    BY <1>1, <1>6, <2>1, <2>2, <2>3, <2>4, <2>5 DEF TreeTypes
<1>12. Listing'
  <2>1. /\ \A q \in Family : /\ NoRepeats(children[q])
                             /\ Elements(children[q]) =
                                  {d \in Actors : parent[d] = q /\ d \notin PendingIn(callStack)}
        /\ Owned(parent, callStack)
    BY <1>1 DEF Listing
  <2>2. \A d \in PendingIn(callStack) : d \in Actors /\ parent[d] \in Family
    BY <1>1, <2>1, PendingOwners
  <2>3. c \notin PendingIn(callStack) /\ c \notin Elements(children[p])
    BY <1>1, <1>2, <2>1, <2>2
  <2>4. children'[p] = Append(children[p], c) /\ \A q \in Family : q # p => children'[q] = children[q]
    BY <1>1, <1>2, <1>9
  <2>5. NoRepeats(children'[p]) /\ Elements(children'[p]) = Elements(children[p]) \cup {c}
    <3>1. children[p] \in Seq(Actors)
      BY <1>2, <1>9
    <3> QED
      BY <1>2, <2>1, <2>3, <2>4, <3>1, AppendFacts
  <2>6. parent'[c] = p /\ \A d \in Family : d # c => parent'[d] = parent[d]
    BY <1>1, <1>2, <1>9
  <2>7. ASSUME NEW q \in Family
        PROVE  /\ NoRepeats(children'[q])
               /\ Elements(children'[q]) = {d \in Actors : parent'[d] = q /\ d \notin PendingIn(callStack')}
    <3>1. \A d \in Actors : d # c => parent'[d] = parent[d]
      BY <2>6 DEF Family
    <3>2. CASE q = p
      BY <3>1, <3>2, <1>2, <1>6, <2>1, <2>3, <2>5, <2>6
    <3>3. CASE q # p
      BY <3>1, <3>3, <1>1, <1>2, <1>6, <2>1, <2>4, <2>6
    <3> QED
      BY <3>2, <3>3
  <2>8. Owned(parent', callStack')
    <3> SUFFICES ASSUME NEW k \in 1 .. Len(callStack'), NEW d \in Pending(callStack'[k])
                 PROVE  parent'[d] = callStack'[k].owner
      BY DEF Owned
    <3>1. d \in PendingIn(callStack')
      BY DEF PendingIn
    <3>2. d \in Family /\ d # c
      BY <3>1, <1>6, <2>2, <2>3 DEF Family
    <3> QED
      BY <3>2, <1>6, <2>6 DEF Owned
  <2> QED
    BY <1>6, <2>7, <2>8 DEF Listing
<1>13. Told'
  <2>1. /\ (onScene \ signalled) \cap Actors \subseteq Listed("Connected", callStack')
        /\ (signalled \ onScene) \cap Actors \subseteq Listed("Disconnected", callStack')
    BY <1>1, <1>6 DEF Told, Notices
  <2> QED
    BY <1>1, <1>4, <1>5, <1>6, <2>1 DEF Told
<1>14. Following'
  <2> SUFFICES ASSUME ~cutShort'
               PROVE  /\ failed' = {}
                      /\ onScene' = Under(parent', Root)
                      /\ nodeParent' = [a \in Family |-> IF a \in onScene' THEN parent'[a] ELSE None]
    BY DEF Following
  <2>1. ~cutShort /\ (p \in onScene => ~CutsShort(sub))
    <3>1. CASE p \in onScene
      <4>1. cutShort' = (cutShort \/ CutsShort(sub))
        BY <3>1, <1>4
      <4>2. ~(cutShort \/ CutsShort(sub))
        BY <4>1, Zenon
      <4> QED
        BY <4>2, Zenon
    <3>2. CASE p \notin onScene
      <4>1. cutShort' = cutShort
        BY <3>2, <1>5
      <4> QED
        BY <3>2, <4>1, Zenon
    <3> QED
      BY <3>1, <3>2, Zenon
  <2>2. /\ failed = {} /\ onScene = Under(parent, Root)
        /\ nodeParent = [a \in Family |-> IF a \in onScene THEN parent[a] ELSE None]
    BY <1>1, <2>1 DEF Following
  <2>3. parent'[c] = p /\ \A d \in Family : d # c => parent'[d] = parent[d]
    BY <1>1, <1>2, <1>9
  <2>4. CASE p \in onScene
    <3>1. \A d \in PendingIn(Below) : parent[d] \notin sub
      <4>1. Owned(parent, callStack)
        BY <1>1 DEF Listing
      <4>2. Owned(parent, Below)
        BY <1>1, <4>1, InnerFacts
      <4> QED
        BY <1>1, <2>1, <2>4, <4>2, NotCutShort
    <3>2. sub = Under(parent, c)
      BY <1>6, <1>7, <3>1
    <3>3. sub \cap onScene = {}
      BY <1>2, <1>9, <1>10, <2>2, <3>2, SubtreeFacts
    <3>4. NodesConnect(p, row)
      <4>1. \A k \in DOMAIN row : row[k] \in sub
        BY DEF sub, Elements
      <4>2. \A k \in DOMAIN row : nodeParent[row[k]] = None
        BY <1>8, <2>2, <3>3, <4>1
      <4>3. p = Root \/ parent[p] \in Under(parent, Root)
        <5>1. Root \in Family
          BY DEF Family
        <5> QED
          BY <2>2, <2>4, <5>1, UnderFacts
      <4>4. p = Root \/ nodeParent[p] # None
        BY <1>2, <1>9, <2>2, <2>4, <4>3
      <4> QED
        BY <4>2, <4>4 DEF NodesConnect
    <3>5. failed' = {}
      BY <1>1, <1>4, <2>2, <2>4, <3>3, <3>4 DEF Failing
    <3>6. onScene' = Under(parent', Root)
      BY <1>4, <1>10, <2>2, <2>4, <3>2
    <3>7. \A a \in Family : (IF a \in sub THEN parent'[a] ELSE nodeParent[a]) =
                              (IF a \in onScene' THEN parent'[a] ELSE None)
      BY <1>4, <1>7, <2>2, <2>3, <2>4
    <3> QED
      BY <1>4, <2>4, <3>5, <3>6, <3>7
  <2>5. CASE p \notin onScene
    <3>1. failed' = {} /\ onScene' = onScene /\ nodeParent' = nodeParent
      BY <1>1, <1>5, <2>2, <2>5 DEF Failing
    <3>2. onScene' = Under(parent', Root)
      BY <1>10, <2>2, <2>5, <3>1
    <3>3. \A a \in Family : a \in onScene => parent'[a] = parent[a]
      BY <1>10, <2>2, <2>3
    <3> QED
      BY <2>2, <3>1, <3>2, <3>3
  <2> QED
    BY <2>4, <2>5
<1> QED
  BY <1>10, <1>11, <1>12, <1>13, <1>14 DEF TreeInv

\* Cut: the calls after it have all there was to detach, but for the actor
\* that is detached.
LEMMA CutStack ==
  ASSUME TreeInv, Cut, NEW c, c = Head(Inner.list)
  PROVE  /\ c \in Actors /\ c \in PendingIn(callStack) /\ Inner.owner = parent[c]
         /\ parent[c] \in Family /\ parent[c] \notin Under(parent, c)
         /\ PendingIn(callStack) = Pending(Inner) \cup PendingIn(Below)
         /\ callStack' \in Seq(Sound) /\ PendingIn(callStack') = PendingIn(callStack) \ {c}
         /\ Apart(callStack') /\ Owned(parent, callStack')
         /\ \A op \in Notices : Listed(op, callStack) \subseteq Listed(op, callStack')
         /\ c \in onScene =>
              Elements(Leaving(c)) \cap Actors \subseteq Listed("Disconnected", callStack')
<1> DEFINE l == Inner.list
           later == Tail(l)
           p == Inner.owner
<1>1. /\ callStack # << >> /\ callStack \in Seq(Sound) /\ Inner.op = "Remove" /\ Inner.pc = "cut"
      /\ Apart(callStack) /\ Owned(parent, callStack)
      /\ TreeTypes /\ Ranked(parent) /\ Listing
  BY DEF Cut, At, TreeInv, TreeTypes, Listing
<1>2. /\ Inner \in CallFrame /\ Pending(Inner) = Elements(l) /\ p \in Family /\ l \in Seq(Actors)
      /\ l # << >> /\ NoRepeats(l) /\ (~Inner.notify => later = << >>)
      /\ Inner.notify \in BOOLEAN
      /\ Inner = [op |-> "Remove", owner |-> p, list |-> l, notify |-> Inner.notify, pc |-> Inner.pc]
  BY <1>1, InnerIs, CallKinds
<1>3. /\ c \in Actors /\ later \in Seq(Actors) /\ Elements(l) = {c} \cup Elements(later)
      /\ NoRepeats(later) /\ c \notin Elements(later)
  BY <1>2, TailFacts
<1>4. /\ Below \in Seq(Sound) /\ Apart(Below) /\ Owned(parent, Below)
      /\ Elements(l) \cap PendingIn(Below) = {} /\ \A d \in Elements(l) : parent[d] = p
      /\ PendingIn(callStack) = Elements(l) \cup PendingIn(Below)
      /\ \A op \in Notices : Listed(op, Below) = Listed(op, callStack)
  BY <1>1, <1>2, InnerFacts, ListedFacts DEF Notices
<1>5. p \notin Under(parent, c)
  <2>1. PICK M \in Nat : \E depth \in [Family -> 0 .. M] : Climbs(parent, depth)
    BY <1>1 DEF Ranked
  <2>2. PICK depth \in [Family -> 0 .. M] : Climbs(parent, depth)
    BY <2>1
  <2>3. c \in Family /\ parent \in Parents /\ parent[c] = p /\ p # None
    BY <1>1, <1>2, <1>3, <1>4, ActorAssumption DEF Family, TreeTypes, Parents
  <2>4. depth[p] < depth[c]
    BY <2>2, <2>3 DEF Climbs
  <2>5. \A y \in Under(parent, c) : depth[c] <= depth[y]
    BY <2>2, <2>3, AboveFacts
  <2>6. depth[p] \in Nat /\ depth[c] \in Nat
    BY <1>2, <2>3
  <2> QED
    BY <2>4, <2>5, <2>6
<1> DEFINE g == InnerAt("uncouple")
           h == InnerAt("callback")
           row == Leaving(c)
           f == Notification("Disconnected", row, Inner.notify)
<1>6. ASSUME NEW x \in {"uncouple", "callback"}
      PROVE  /\ InnerAt(x) \in Sound /\ InnerAt(x).op = "Remove" /\ InnerAt(x).owner = p
             /\ Pending(InnerAt(x)) = Elements(later)
  <2>1. InnerAt(x) = RemoveFrame(p, l, Inner.notify, x)
    BY <1>2 DEF InnerAt, RemoveFrame
  <2>2. x # "cut" /\ x \in {"cut", "uncouple", "callback"}
    OBVIOUS
  <2> HIDE DEF l, p
  <2>3. NoRepeats(IF x = "cut" THEN l ELSE Tail(l))
    BY <1>3, <2>2
  <2>4. LET e == RemoveFrame(p, l, Inner.notify, x)
        IN  /\ e \in Sound /\ e.op = "Remove" /\ e.owner = p
            /\ Pending(e) = Elements(IF x = "cut" THEN l ELSE Tail(l))
    BY <1>2, <2>2, <2>3, RemoveCall
  <2> QED
    BY <2>1, <2>2, <2>4
<1>7. /\ g \in Sound /\ g.op = "Remove" /\ g.owner = p /\ Pending(g) = Elements(later)
      /\ h \in Sound /\ h.op = "Remove" /\ h.owner = p /\ Pending(h) = Elements(later)
  BY <1>6
<1>8. f \in Sound /\ f.op = "Disconnected" /\ f.list = row /\ Pending(f) = {}
  <2>1. row \in Seq(Actors)
    BY <1>1, <1>3, WalkIsUnder DEF Leaving, PostOrder
  <2> HIDE DEF row
  <2> QED
    BY <1>2, <2>1, NoticeCall DEF Notification, Notices
<1> HIDE DEF l, later, p, f, g, h, row
<1>9. Elements(later) \cap PendingIn(Below) = {} /\ \A d \in Elements(later) : parent[d] = p
  BY <1>3, <1>4
<1>10. ASSUME NEW e \in Sound, e.owner = p, Pending(e) = Elements(later)
       PROVE  /\ << e >> \o Below \in Seq(Sound)
              /\ PendingIn(<< e >> \o Below) = PendingIn(callStack) \ {c}
              /\ Apart(<< e >> \o Below) /\ Owned(parent, << e >> \o Below)
              /\ \A op : Listed(op, Below) \subseteq Listed(op, << e >> \o Below)
  <2>1. e \in Sound /\ Below \in Seq(Sound)
    BY <1>4, <1>10
  <2>2. << e >> \o Below \in Seq(Sound)
    BY ONLY <2>1, PushFacts
  <2>3. /\ PendingIn(<< e >> \o Below) = Pending(e) \cup PendingIn(Below)
        /\ Apart(<< e >> \o Below) <=> Apart(Below) /\ Pending(e) \cap PendingIn(Below) = {}
    BY ONLY <2>1, PushSplits
  <2>4. Owned(parent, << e >> \o Below) <=>
          Owned(parent, Below) /\ \A d \in Pending(e) : parent[d] = e.owner
    BY ONLY <2>1, PushSplits
  <2>5. \A op : Listed(op, Below) \subseteq Listed(op, << e >> \o Below)
    BY ONLY <2>1, PushSplits
  <2>6. Owned(parent, << e >> \o Below)
    BY <1>4, <1>9, <1>10, <2>4
  <2>7. Apart(<< e >> \o Below)
    BY <1>4, <1>9, <1>10, <2>3
  <2>8. PendingIn(<< e >> \o Below) = PendingIn(callStack) \ {c}
    BY <1>3, <1>4, <1>10, <2>3
  <2> QED
    BY <2>2, <2>5, <2>6, <2>7, <2>8
<1>11. CASE c \in onScene
  <2>1. callStack' = << f, g >> \o Below
    BY <1>11 DEF Cut, f, g, row
  <2> DEFINE t == << f >> \o (<< g >> \o Below)
  <2>2. callStack' = t
    <3>1. f \in Sound /\ g \in Sound /\ Below \in Seq(Sound)
      BY <1>4, <1>7, <1>8
    <3>2. << f, g >> \o Below = t
      BY ONLY <3>1, PushBoth
    <3> QED
      BY <2>1, <3>2
  <2>3. OnTop(t, f, g, Below)
    <3>1. f \in Sound /\ g \in Sound /\ Below \in Seq(Sound) /\ t = << f >> \o (<< g >> \o Below)
      BY <1>4, <1>7, <1>8
    <3> HIDE DEF t
    <3> QED
      BY ONLY <3>1, PushTwo
  <2> HIDE DEF t
  <2>4. /\ t \in Seq(Sound) /\ PendingIn(t) = PendingIn(callStack) \ {c}
        /\ Apart(t) /\ Owned(parent, t)
    BY <1>3, <1>4, <1>7, <1>8, <1>9, <2>3 DEF OnTop
  <2>5. /\ \A op : Listed(op, Below) \subseteq Listed(op, t)
        /\ Elements(row) \cap Actors \subseteq Listed("Disconnected", t)
    BY <1>7, <1>8, <2>3 DEF OnTop
  <2>6. callStack' \in Seq(Sound) /\ PendingIn(callStack') = PendingIn(callStack) \ {c}
    BY <2>2, <2>4
  <2> QED
    BY <1>2, <1>3, <1>4, <1>5, <2>2, <2>4, <2>5, <2>6 DEF row, p
<1>12. CASE c \notin onScene
  <2>1. callStack' = IF Inner.notify THEN << h >> \o Below ELSE Below
    BY <1>12 DEF Cut, h
  <2>2. CASE Inner.notify
    <3>1. callStack' = << h >> \o Below
      BY <2>1, <2>2
    <3> QED
      BY <1>2, <1>3, <1>4, <1>5, <1>7, <1>10, <1>12, <3>1 DEF p
  <2>3. CASE ~Inner.notify
    <3>1. callStack' = Below
      BY <2>1, <2>3
    <3>2. Elements(later) = {}
      BY <1>2, <2>3, SequenceFacts
    <3>3. PendingIn(Below) = PendingIn(callStack) \ {c}
      BY <1>3, <1>4, <3>2
    <3> QED
      BY <1>2, <1>3, <1>4, <1>5, <1>12, <3>1, <3>3 DEF p
  <2> QED
    BY <2>2, <2>3
<1> QED
  BY <1>11, <1>12

LEMMA CutStep ==
  ASSUME TreeInv, Cut
  PROVE  TreeInv'
<1> DEFINE c == Head(Inner.list)
           row == Leaving(c)
           sub == Elements(row)
<1>1. /\ callStack # << >> /\ callStack \in Seq(Sound)
      /\ TreeTypes /\ Ranked(parent) /\ Listing /\ Told /\ Following
      /\ parent' = [parent EXCEPT ![c] = None]
      /\ UNCHANGED <<children, signalled, calls>>
  BY DEF Cut, At, TreeInv, TreeTypes
<1>2. ToSet(row) = sub
  BY ElementsOfList
<1>3. c \in onScene =>
        /\ onScene' = onScene \ sub /\ scene' = scene \ sub
        /\ nodeParent' = [a \in Family |-> IF IsUnder(nodeParent, a, c) THEN None ELSE nodeParent[a]]
        /\ failed' = failed \cup Failing("DisconnectNode", nodeParent[c] = None)
        /\ cutShort' = (cutShort \/ CutsShort(sub))
  BY <1>2 DEF Cut
<1>4. c \notin onScene => scene' = scene \ {c} /\ UNCHANGED <<onScene, nodeParent, failed, cutShort>>
  BY DEF Cut
<1>5. /\ c \in Actors /\ c \in PendingIn(callStack) /\ Inner.owner = parent[c]
      /\ parent[c] \in Family /\ parent[c] \notin Under(parent, c)
      /\ PendingIn(callStack) = Pending(Inner) \cup PendingIn(Below)
      /\ callStack' \in Seq(Sound) /\ PendingIn(callStack') = PendingIn(callStack) \ {c}
      /\ Apart(callStack') /\ Owned(parent, callStack')
      /\ \A op \in Notices : Listed(op, callStack) \subseteq Listed(op, callStack')
      /\ c \in onScene => sub \cap Actors \subseteq Listed("Disconnected", callStack')
  BY CutStack
<1>6. /\ row \in Seq(Actors) /\ c \in sub /\ sub \subseteq Under(parent, c)
      /\ (\A d \in PendingIn(callStack) : parent[d] \notin sub) => sub = Under(parent, c)
  BY <1>1, <1>5, WalkIsUnder DEF Leaving, PostOrder
<1> HIDE DEF c, row, sub
<1>7. /\ parent \in Parents /\ c \in Family /\ c # Root /\ None \notin Family
      /\ parent \in [Family -> Family \cup {None}]
      /\ onScene \subseteq Family /\ scene \subseteq Family
      /\ nodeParent \in [Family -> Family \cup {None}]
      /\ failed \subseteq Assertions /\ cutShort \in BOOLEAN
  BY <1>1, <1>5, ActorAssumption DEF TreeTypes, Parents, Family
<1>8. /\ parent' \in Parents
      /\ Ranked(parent')
      /\ c \in Under(parent, Root) => Under(parent', Root) = Under(parent, Root) \ Under(parent, c)
      /\ c \notin Under(parent, Root) => Under(parent', Root) = Under(parent, Root)
  BY <1>1, <1>5, <1>7, CutOffFacts
<1>9. parent'[c] = None /\ \A d \in Family : d # c => parent'[d] = parent[d]
  BY <1>1, <1>7
<1>10. TreeTypes'
  <2>1. parent' \in [Family -> Family \cup {None}] /\ parent'[Root] = None
    BY <1>8 DEF Parents
  <2>2. onScene' \subseteq Family /\ scene' \subseteq Family /\ cutShort' \in BOOLEAN
    BY <1>3, <1>4, <1>7
  <2>3. nodeParent' \in [Family -> Family \cup {None}]
    <3>1. CASE c \in onScene
      BY <3>1, <1>3, <1>7
    <3>2. CASE c \notin onScene
      BY <3>2, <1>4, <1>7
    <3> QED
      BY <3>1, <3>2
  <2>4. failed' \subseteq Assertions
    BY <1>3, <1>4, <1>7 DEF Failing, Assertions
  <2> QED
    BY <1>1, <1>5, <2>1, <2>2, <2>3, <2>4 DEF TreeTypes
<1>11. Listing'
  <2>1. /\ \A q \in Family : /\ NoRepeats(children[q])
                             /\ Elements(children[q]) =
                                  {d \in Actors : parent[d] = q /\ d \notin PendingIn(callStack)}
        /\ Owned(parent, callStack)
    BY <1>1 DEF Listing
  <2>2. ASSUME NEW q \in Family
        PROVE  Elements(children[q]) = {d \in Actors : parent'[d] = q /\ d \notin PendingIn(callStack')}
    <3>1. \A d \in Actors : d # c => parent'[d] = parent[d]
      BY <1>9 DEF Family
    <3> QED
      BY <3>1, <1>5, <1>7, <1>9, <2>1
  <2>3. Owned(parent', callStack')
    <3> SUFFICES ASSUME NEW k \in 1 .. Len(callStack'), NEW d \in Pending(callStack'[k])
                 PROVE  parent'[d] = callStack'[k].owner
      BY DEF Owned
    <3>1. d \in PendingIn(callStack')
      BY DEF PendingIn
    <3>2. \A e \in PendingIn(callStack) : e \in Actors
      BY <1>1, <2>1, PendingOwners
    <3>3. d \in Family /\ d # c
      BY <3>1, <3>2, <1>5 DEF Family
    <3> QED
      BY <3>3, <1>5, <1>9 DEF Owned
  <2> QED
    BY <1>1, <1>5, <2>1, <2>2, <2>3 DEF Listing
<1>12. Told'
  <2>1. /\ (onScene \ signalled) \cap Actors \subseteq Listed("Connected", callStack')
        /\ (signalled \ onScene) \cap Actors \subseteq Listed("Disconnected", callStack')
    BY <1>1, <1>5 DEF Told, Notices
  <2> QED
    BY <1>1, <1>3, <1>4, <1>5, <2>1 DEF Told
<1>13. Following'
  <2> SUFFICES ASSUME ~cutShort'
               PROVE  /\ failed' = {}
                      /\ onScene' = Under(parent', Root)
                      /\ nodeParent' = [a \in Family |-> IF a \in onScene' THEN parent'[a] ELSE None]
    BY DEF Following
  <2>1. ~cutShort /\ (c \in onScene => ~CutsShort(sub))
    <3>1. CASE c \in onScene
      <4>1. cutShort' = (cutShort \/ CutsShort(sub))
        BY <3>1, <1>3
      <4>2. ~(cutShort \/ CutsShort(sub))
        BY <4>1, Zenon
      <4> QED
        BY <4>2, Zenon
    <3>2. CASE c \notin onScene
      <4>1. cutShort' = cutShort
        BY <3>2, <1>4
      <4> QED
        BY <3>2, <4>1, Zenon
    <3> QED
      BY <3>1, <3>2, Zenon
  <2>2. /\ failed = {} /\ onScene = Under(parent, Root)
        /\ nodeParent = [a \in Family |-> IF a \in onScene THEN parent[a] ELSE None]
    BY <1>1, <2>1 DEF Following
  <2>3. CASE c \in onScene
    <3>1. Owned(parent, callStack)
      BY <1>1 DEF Listing
    <3>2. \A d \in PendingIn(Below) : parent[d] \notin sub
      <4>1. Owned(parent, Below)
        BY <1>1, <3>1, InnerFacts
      <4> QED
        BY <1>1, <2>1, <2>3, <4>1, NotCutShort
    <3>3. \A d \in Pending(Inner) : parent[d] \notin sub
      <4>1. \A d \in Pending(Inner) : parent[d] = Inner.owner
        BY <1>1, <3>1, InnerFacts
      <4> QED
        BY <4>1, <1>5, <1>6
    <3>4. sub = Under(parent, c)
      BY <1>5, <1>6, <3>2, <3>3
    <3>5. Under(nodeParent, c) = Under(parent, c)
      <4>1. nodeParent = [a \in Family |-> IF a \in Under(parent, Root) THEN parent[a] ELSE None]
        BY <2>2
      <4> QED
        BY <1>7, <2>2, <2>3, <4>1, SameUnder
    <3>6. \A a \in Family : IsUnder(nodeParent, a, c) <=> a \in sub
      BY <3>4, <3>5 DEF Under
    <3>7. failed' = {}
      BY <1>3, <1>5, <1>7, <2>2, <2>3 DEF Failing
    <3>8. onScene' = Under(parent', Root)
      BY <1>3, <1>8, <2>2, <2>3, <3>4
    <3>9. \A a \in Family : (IF IsUnder(nodeParent, a, c) THEN None ELSE nodeParent[a]) =
                              (IF a \in onScene' THEN parent'[a] ELSE None)
      BY <1>3, <1>6, <1>9, <2>2, <2>3, <3>6
    <3> QED
      BY <1>3, <2>3, <3>7, <3>8, <3>9
  <2>4. CASE c \notin onScene
    <3>1. failed' = {} /\ onScene' = onScene /\ nodeParent' = nodeParent
      BY <1>4, <2>2, <2>4
    <3>2. onScene' = Under(parent', Root)
      BY <1>8, <2>2, <2>4, <3>1
    <3>3. \A a \in Family : a \in onScene => parent'[a] = parent[a]
      BY <1>9, <2>4
    <3> QED
      BY <2>2, <3>1, <3>2, <3>3
  <2> QED
    BY <2>3, <2>4
<1> QED
  BY <1>8, <1>10, <1>11, <1>12, <1>13 DEF TreeInv

-----------------------------------------------------------------------------
(* The invariant, and what follows from it.                                  *)

\* The trees a behaviour starts from: the pointers to the parents agree with
\* the lists, and the depth of an actor shows that there is no cycle.
LEMMA TreeStarts == TreeInit => TreeInv
<1> SUFFICES ASSUME TreeInit PROVE TreeInv
  OBVIOUS
<1>1. /\ IsFiniteSet(Actors) /\ Root \notin Actors /\ None \notin Family /\ MaxCalls \in Nat
      /\ IsForest(children)
  BY ActorAssumption DEF TreeInit
<1>2. /\ children \in [Family -> Seq(Actors)]
      /\ \A p, q \in Family : /\ NoRepeats(children[p])
                              /\ p # q => Elements(children[p]) \cap Elements(children[q]) = {}
  BY <1>1 DEF IsForest
<1>3. \A p \in Family : Elements(children[p]) \subseteq Actors
  BY <1>2 DEF Elements
<1>4. /\ parent \in [Family -> Family \cup {None}]
      /\ \A a \in Family, p \in Family : parent[a] = p <=> a \in Elements(children[p])
  <2>1. parent = [a \in Family |-> ParentIn(children, a)]
    BY DEF TreeInit
  <2>2. ASSUME NEW a \in Family
        PROVE  /\ ParentIn(children, a) \in Family \cup {None}
               /\ \A p \in Family : ParentIn(children, a) = p <=> a \in Elements(children[p])
    <3>1. CASE \E p \in Family : a \in ToSet(children[p])
      <4> DEFINE q == CHOOSE p \in Family : a \in ToSet(children[p])
      <4>1. ParentIn(children, a) = q
        BY <3>1 DEF ParentIn
      <4>2. q \in Family /\ a \in ToSet(children[q])
        BY <3>1
      <4> HIDE DEF q
      <4>3. a \in Elements(children[q])
        BY <4>2, ElementsOfList
      <4> QED
        BY <1>2, <4>1, <4>2, <4>3
    <3>2. CASE ~ \E p \in Family : a \in ToSet(children[p])
      <4>1. ParentIn(children, a) = None
        BY <3>2 DEF ParentIn
      <4>2. \A p \in Family : a \notin Elements(children[p])
        BY <3>2, ElementsOfList
      <4> QED
        BY <1>1, <4>1, <4>2
    <3> QED
      BY <3>1, <3>2
  <2> QED
    BY <2>1, <2>2
<1>5. parent[Root] = None
  BY <1>1, <1>3, <1>4 DEF Family
<1>6. callStack = << >> /\ onScene = Under(parent, Root) /\ signalled = onScene
      /\ scene = onScene /\ calls = 0 /\ failed = {} /\ cutShort = FALSE
      /\ nodeParent = [a \in Family |-> IF a \in onScene THEN parent[a] ELSE None]
  BY DEF TreeInit, Under
<1>7. onScene \subseteq Family
  BY <1>6 DEF Under
<1>8. TreeTypes
  <2>1. nodeParent \in [Family -> Family \cup {None}]
    BY <1>4, <1>6
  <2>2. callStack \in Seq(Sound)
    BY <1>6
  <2> QED
    <3>1. calls \in 0 .. MaxCalls
      BY <1>1, <1>6
    <3>2. failed \subseteq Assertions /\ cutShort \in BOOLEAN /\ scene \subseteq Family
          /\ signalled \subseteq Family
      BY <1>6, <1>7
    <3> QED
      BY <1>2, <1>4, <1>5, <1>7, <2>1, <2>2, <3>1, <3>2 DEF TreeTypes
<1>9. Ranked(parent)
  <2>1. Cardinality(Actors) \in Nat
    BY <1>1, FS_CardinalityType
  <2>2. PICK depth \in [Family -> 0 .. Cardinality(Actors)] :
          \A p \in Family, c \in Actors : c \in Elements(children[p]) => depth[p] < depth[c]
    BY <1>1 DEF IsForest
  <2>3. Climbs(parent, depth)
    <3> SUFFICES ASSUME NEW x \in Family, parent[x] # None PROVE depth[parent[x]] < depth[x]
      BY DEF Climbs
    <3>1. parent[x] \in Family /\ x \in Elements(children[parent[x]])
      BY <1>4
    <3>2. x \in Actors
      BY <3>1, <1>3
    <3> QED
      BY <3>1, <3>2, <2>2
  <2> QED
    BY <2>1, <2>2, <2>3 DEF Ranked
<1>10. Listing
  <2>1. PendingIn(callStack) = {} /\ Apart(callStack) /\ Owned(parent, callStack)
    BY <1>6, EmptyStack
  <2>2. ASSUME NEW p \in Family
        PROVE  Elements(children[p]) = {d \in Actors : parent[d] = p /\ d \notin PendingIn(callStack)}
    BY <1>3, <1>4, <2>1 DEF Family
  <2> QED
    BY <1>2, <2>1, <2>2 DEF Listing
<1>11. Told /\ Following
  BY <1>6 DEF Told, Following
<1> QED
  BY <1>8, <1>9, <1>10, <1>11 DEF TreeInv

\* A step of the model, one of its actions at a time.
LEMMA TreeSteps == TreeInv /\ [TreeNext]_actorVars => TreeInv'
<1> SUFFICES ASSUME TreeInv, [TreeNext]_actorVars PROVE TreeInv'
  OBVIOUS
<1>1. CASE UNCHANGED actorVars
  BY <1>1 DEF actorVars, treeVars, onSceneVars, historyVars, TreeInv, TreeTypes, Listing, Told,
              Following
<1>2. ASSUME NEW p \in Family, NEW c \in Actors, Add(p, c) PROVE TreeInv'
  BY <1>2, AddChildStep DEF Add
<1>3. ASSUME NEW p \in Family, NEW c \in Actors, SwitchParent(p, c) PROVE TreeInv'
  BY <1>3, AddChildStep DEF SwitchParent
<1>4. ASSUME NEW c \in Actors, Unparent(c) PROVE TreeInv'
  BY <1>4, UnparentStep
<1>5. ASSUME NEW p \in Family, RemoveAll(p) PROVE TreeInv'
  BY <1>5, RemoveAllStep
<1>6. CASE Calls
  BY <1>2, <1>3, <1>4, <1>5, <1>6 DEF Calls
<1>7. CASE Runs
  BY <1>7, AddEnds, AttachStep, CutStep, UncoupleStep, NotifyNextStep, NotifyReturnsStep,
     NotifyEndStep, RemoveReturnsStep DEF Runs
<1> QED
  BY <1>1, <1>6, <1>7 DEF TreeNext

\* The tree, the scene and the notifications fit together at all times, during
\* and between the calls of the application: ActorParentImpl, Actor::SetParent.
THEOREM TreeInvariant == TreeSpec => []TreeInv
<1> QED
  BY TreeStarts, TreeSteps, PTL DEF TreeSpec

\* Every field has a value of its type, and each call under way is one of
\* Add, Remove and the two notifications, in a place that its code has.
THEOREM TreeTypeCorrect == TreeSpec => []TreeTypeOK
<1>1. TreeInv => TreeTypeOK
  <2>1. ASSUME callStack \in Seq(Sound) PROVE callStack \in Seq(CallFrame)
    BY <2>1 DEF Sound
  <2> QED
    BY <2>1 DEF TreeInv, TreeTypes, TreeTypeOK
<1> QED
  BY <1>1, TreeInvariant, PTL

\* However callbacks nest Add, Remove, RemoveAll and SwitchParent: the list of
\* children of an actor holds, once each, those whose parent it is, but for the
\* ones that a RemoveAll has taken out and not yet detached.
THEOREM ChildrenAgreeHolds == TreeSpec => []ChildrenAgree
<1>1. TreeInv => ChildrenAgree
  <2> SUFFICES ASSUME TreeInv PROVE ChildrenAgree
    OBVIOUS
  <2>1. AllPending = PendingIn(callStack)
    <3>1. DOMAIN callStack = 1 .. Len(callStack)
      BY DEF TreeInv, TreeTypes
    <3> QED
      BY <3>1 DEF AllPending, PendingIn
  <2> QED
    BY <2>1, ElementsOfList DEF TreeInv, Listing, ChildrenAgree
<1> QED
  BY <1>1, TreeInvariant, PTL

\* Unless the parent of a RemoveAll enters or leaves the scene in one of its
\* callbacks, the actors on the scene are those under the root, the nodes have
\* the parents of their actors, and no assertion of SetParent or of the
\* connection of nodes has failed: in every callback.
THEOREM NodesFollowActorsHolds == TreeSpec => []NodesFollowActors
<1>1. TreeInv => NodesFollowActors
  BY DEF TreeInv, Following, NodesFollowActors, Under
<1> QED
  BY <1>1, TreeInvariant, PTL

\* An actor whose mSceneConnectedSignalled differs from mIsOnScene is in the list
\* of a notification that is under way.  When all calls have ended the flag,
\* which decides whether the next change is told, is right for every actor: none
\* is left deaf.  Which signals an actor has received is not part of it: one that
\* is added again in its own SceneDisconnected callback is not told Connected.
THEOREM SignalledWhenSettledHolds == TreeSpec => []SignalledWhenSettled
<1>1. TreeInv => SignalledWhenSettled
  <2> SUFFICES ASSUME TreeInv, NEW a \in Actors, ~(a \in signalled <=> a \in onScene)
               PROVE  \E k \in DOMAIN callStack :
                        callStack[k].op \in Notices /\ a \in ToSet(callStack[k].list)
    BY DEF SignalledWhenSettled
  <2>1. DOMAIN callStack = 1 .. Len(callStack)
    BY DEF TreeInv, TreeTypes
  <2>2. a \in Listed("Connected", callStack) \/ a \in Listed("Disconnected", callStack)
    BY DEF TreeInv, Told
  <2> QED
    BY <2>1, <2>2, ElementsOfList DEF Listed, Notices
<1> QED
  BY <1>1, TreeInvariant, PTL
================================================================================
