----------------------------- MODULE CoreEvents -----------------------------
(***************************************************************************)
(* dali/internal/common/core-impl.cpp on the event thread: ProcessEvents,  *)
(* ForceRelayout, and the processors they run before and after the size    *)
(* negotiation.  One thread; application code is called back from scene    *)
(* events, notifications, signals, processors and the negotiation itself,  *)
(* and may register and unregister processors, ask for a relayout, queue   *)
(* messages for the update thread, or call ProcessEvents and ForceRelayout *)
(* again.  A frame of the stack is one call of ProcessEvents or of         *)
(* RelayoutAndFlush.  Behaviours start when the adaptor has called         *)
(* SceneCreated and is about to process events for the first time.         *)
(***************************************************************************)
EXTENDS Naturals, FiniteSets, Sequences, SequencesExt, Queues

CONSTANTS
  Processors,
  MaxEntries      \* bound: entries of all the processor lists together

ASSUME CoreAssumption == MaxEntries \in Nat

VARIABLES
  list,           \* mProcessors and mPostProcessors
  once,           \* mProcessorsOnce[2] and mPostProcessorsOnce[2]
  onceIndex,      \* mProcessorOnceIndex and mPostProcessorOnceIndex
  unregistered,   \* mProcessorUnregistered and mPostProcessorUnregistered
  processing,     \* mProcessingEvent
  flushing,       \* mRelayoutFlush
  coreEvents,     \* RelayoutController::mProcessingCoreEvents
  enabled,        \* RelayoutController::mEnabled
  relayoutFlag,   \* RelayoutController::mRelayoutFlag
  queueing,       \* MessageQueue: between EventProcessingStarted and Finished
  unflushed,      \* MessageQueue: the current buffer holds messages
  idleRequested,  \* RequestProcessEventsOnIdle, until the adaptor processes events
  stack,          \* the calls in progress, innermost last
  loop,           \* the processor loop in progress
  ran, erased     \* history of that loop: the places run, and who has been unregistered

processorVars == <<list, once, onceIndex, unregistered>>
relayoutVars  == <<coreEvents, enabled, relayoutFlag>>
messageVars   == <<queueing, unflushed>>
flagVars      == <<processing, flushing, relayoutVars, messageVars, idleRequested>>
loopVars      == <<loop, ran, erased>>
vars == <<processorVars, flagVars, stack, loopVars>>

Phases == {"pre", "post"}
NoLoop == [kind |-> "none", phase |-> "pre", index |-> 0, copy |-> << >>, at |-> 0, running |-> FALSE]

Init == /\ list = [p \in Phases |-> << >>]
        /\ once = [p \in Phases |-> [i \in 0 .. 1 |-> << >>]]
        /\ onceIndex = [p \in Phases |-> 0]
        /\ unregistered = [p \in Phases |-> FALSE]
        /\ processing = FALSE /\ flushing = FALSE /\ coreEvents = FALSE
        /\ enabled = TRUE /\ relayoutFlag = TRUE
        /\ queueing = FALSE /\ unflushed = FALSE /\ idleRequested = TRUE
        /\ stack = << >> /\ loop = NoLoop /\ ran = << >> /\ erased = {}

Top == stack[Len(stack)]
GoTo(pc) == stack' = [stack EXCEPT ![Len(stack)].pc = pc]
AtStep(call, pc) == stack # << >> /\ Top.call = call /\ Top.pc = pc /\ ~loop.running

\* The steps that call the application back.
Callbacks == {"scenes", "notify", "finished", "negotiate"}

\* Application code runs: in a processor, in a callback, or from the idle loop.
Application == stack # << >> => (loop.running \/ Top.pc \in Callbacks)

-----------------------------------------------------------------------------
(* Registering processors.  std::find: the first entry is the one erased.    *)

Entries == Len(list["pre"]) + Len(list["post"])
           + Len(once["pre"][0]) + Len(once["pre"][1]) + Len(once["post"][0]) + Len(once["post"][1])

\* The history notes who leaves the list that is being run.
Erases(p, kind, phase) ==
  erased' = IF loop.kind = kind /\ loop.phase = phase THEN erased \cup {p} ELSE erased

RegisterProcessor ==
  /\ Application /\ Entries < MaxEntries
  /\ \E p \in Processors, ph \in Phases : list' = [list EXCEPT ![ph] = Append(@, p)]
  /\ UNCHANGED <<once, onceIndex, unregistered, flagVars, stack, loopVars>>

UnregisterProcessor ==
  /\ Application
  /\ \E p \in Processors, ph \in Phases :
       /\ p \in ToSet(list[ph])
       /\ list' = [list EXCEPT ![ph] = EraseFirst(@, p)]
       /\ unregistered' = [unregistered EXCEPT ![ph] = TRUE]
       /\ Erases(p, "list", ph)
  /\ UNCHANGED <<once, onceIndex, flagVars, stack, loop, ran>>

RegisterProcessorOnce ==
  /\ Application /\ Entries < MaxEntries
  /\ \E p \in Processors, ph \in Phases :
       once' = [once EXCEPT ![ph][onceIndex[ph]] = Append(@, p)]
  /\ UNCHANGED <<list, onceIndex, unregistered, flagVars, stack, loopVars>>

\* Leaving the list that is not collecting may be leaving the loop in progress.
MarkOnce(p, ph) == unregistered[ph] \/ p \in ToSet(once[ph][1 - onceIndex[ph]])

UnregisterProcessorOnce ==
  /\ Application
  /\ \E p \in Processors, ph \in Phases :
       /\ \E i \in 0 .. 1 : p \in ToSet(once[ph][i])
       /\ once' = [once EXCEPT ![ph] = [i \in 0 .. 1 |-> EraseFirst(@[i], p)]]
       /\ unregistered' = [unregistered EXCEPT ![ph] = MarkOnce(p, ph)]
       /\ Erases(p, "once", ph)
  /\ UNCHANGED <<list, onceIndex, flagVars, stack, loop, ran>>

\* SceneDestroyed unregisters everything and closes the relayout controller.
SceneDestroyed ==
  /\ Application
  /\ list' = [p \in Phases |-> << >>]
  /\ once' = [p \in Phases |-> [i \in 0 .. 1 |-> << >>]]
  /\ unregistered' = [p \in Phases |-> TRUE]
  /\ enabled' = FALSE
  /\ erased' = IF loop = NoLoop THEN erased ELSE Processors
  /\ UNCHANGED <<onceIndex, processing, flushing, coreEvents, relayoutFlag, messageVars,
                 idleRequested, stack, loop, ran>>

-----------------------------------------------------------------------------
(* What else the application does.                                           *)

\* Nobody is told.
NotAnnounced(busy) == UNCHANGED idleRequested

Announced(busy) == idleRequested' = (idleRequested \/ ~busy)

\* ReserveMessageSlot: outside event processing nobody would flush the queue.
QueueMessage == /\ Application
                /\ unflushed' = TRUE
                /\ Announced(queueing)
                /\ UNCHANGED <<processorVars, processing, flushing, relayoutVars, queueing,
                               stack, loopVars>>

\* RelayoutController::RequestRelayout.
RequestRelayout == /\ Application /\ enabled
                   /\ relayoutFlag' = TRUE
                   /\ Announced(coreEvents)
                   /\ UNCHANGED <<processorVars, processing, flushing, coreEvents, enabled,
                                  messageVars, stack, loopVars>>

SetProcessing(on) == /\ processing' = on /\ coreEvents' = on /\ queueing' = on

\* The adaptor calls ProcessEvents, which serves every idle request so far.
ProcessEvents == /\ Application /\ ~processing
                 /\ SetProcessing(TRUE)
                 /\ idleRequested' = FALSE
                 /\ stack' = Append(stack, [call |-> "events", pc |-> "scenes", faked |-> FALSE])
                 /\ UNCHANGED <<processorVars, flushing, enabled, relayoutFlag, unflushed, loopVars>>

\* A call of ProcessEvents from within is postponed.
RefuseProcessEvents == /\ Application /\ processing
                       /\ idleRequested' = TRUE
                       /\ UNCHANGED <<processorVars, processing, flushing, relayoutVars,
                                      messageVars, stack, loopVars>>

\* Relayouts are nested.
RelayoutAlways == TRUE

RelayoutMayStart == ~flushing

\* RelayoutAndFlush, which refuses to run inside itself.  Outside ProcessEvents
\* it does what ProcessEvents would: it "fakes" being in it.
RelayoutAndFlush ==
  /\ RelayoutMayStart
  /\ stack' = Append(stack, [call |-> "pre", faked |-> ~processing,
                             pc |-> IF processing THEN "once" ELSE "notify"])
  /\ flushing' = processing
  /\ SetProcessing(TRUE)
  /\ UNCHANGED <<processorVars, enabled, relayoutFlag, unflushed, idleRequested, loopVars>>

ForceRelayout == Application /\ RelayoutAndFlush

-----------------------------------------------------------------------------
(* ProcessEvents, step by step.                                              *)

EventsStep == /\ \/ AtStep("events", "scenes") /\ GoTo("notify")
                 \/ AtStep("events", "notify") /\ GoTo("finished")
              /\ UNCHANGED <<processorVars, flagVars, loopVars>>

\* The frame below waits for the relayout at its step "end".
EventsRelayout ==
  /\ AtStep("events", "finished") /\ ~flushing
  /\ stack' = Append([stack EXCEPT ![Len(stack)].pc = "end"],
                     [call |-> "pre", pc |-> "once", faked |-> FALSE])
  /\ flushing' = TRUE
  /\ UNCHANGED <<processorVars, processing, relayoutVars, messageVars, idleRequested, loopVars>>

EventsEnd == /\ AtStep("events", "end")
             /\ SetProcessing(FALSE)
             /\ stack' = Front(stack)
             /\ UNCHANGED <<processorVars, flushing, enabled, relayoutFlag, unflushed,
                            idleRequested, loopVars>>

-----------------------------------------------------------------------------
(* RelayoutAndFlush, step by step.  A frame is "pre" up to the negotiation   *)
(* and "post" behind it.                                                     *)

InLoops(pc) == stack # << >> /\ Top.call \in Phases /\ Top.pc = pc /\ ~loop.running

NotificationsDone == /\ InLoops("notify")
                     /\ flushing' = TRUE
                     /\ GoTo("once")
                     /\ UNCHANGED <<processorVars, processing, relayoutVars, messageVars,
                                    idleRequested, loopVars>>

AfterLoop(kind, ph) == IF kind = "once" THEN "list" ELSE IF ph = "pre" THEN "size" ELSE "flush"

\* The lookup searches the list that is collecting.
RunListCollecting(l) == IF l.kind = "once" THEN once[l.phase][1 - l.index] ELSE list[l.phase]

\* The list a loop is running, as it is now, and the list a loop will run.
RunList(l) == IF l.kind = "once" THEN once[l.phase][l.index] ELSE list[l.phase]
ListToRun(kind, ph) == IF kind = "once" THEN once[ph][onceIndex[ph]] ELSE list[ph]

\* New once-processors are collected in the other list from now on.
Swapped(ph) == [onceIndex EXCEPT ![ph] = 1 - @]

\* Nothing to run: the flag of unregistered processors is left as it is.
SkipLoop == /\ loop = NoLoop
            /\ \E kind \in {"once", "list"} :
                 /\ InLoops(kind) /\ ListToRun(kind, Top.call) = << >>
                 /\ GoTo(AfterLoop(kind, Top.call))
            /\ UNCHANGED <<processorVars, flagVars, loopVars>>

BeginLoop ==
  /\ loop = NoLoop
  /\ \E kind \in {"once", "list"} :
       LET ph == Top.call
       IN /\ InLoops(kind) /\ ListToRun(kind, ph) # << >>
          /\ loop' = [kind |-> kind, phase |-> ph, index |-> onceIndex[ph],
                      copy |-> ListToRun(kind, ph), at |-> 1, running |-> FALSE]
          /\ onceIndex' = IF kind = "once" THEN Swapped(ph) ELSE onceIndex
          /\ unregistered' = [unregistered EXCEPT ![ph] = FALSE]
  /\ ran' = << >> /\ erased' = {}
  /\ UNCHANGED <<list, once, flagVars, stack>>

InLoop == loop # NoLoop /\ ~loop.running /\ InLoops(loop.kind)
Candidate == loop.copy[loop.at]

\* A processor that may have been unregistered is looked up before it is run.
MayRun == unregistered[loop.phase] => Candidate \in ToSet(RunList(loop))

RunProcessor == /\ InLoop /\ loop.at <= Len(loop.copy) /\ MayRun
                /\ loop' = [loop EXCEPT !.running = TRUE]
                /\ ran' = Append(ran, loop.at)
                /\ UNCHANGED <<processorVars, flagVars, stack, erased>>

SkipProcessor == /\ InLoop /\ loop.at <= Len(loop.copy) /\ ~MayRun
                 /\ loop' = [loop EXCEPT !.at = @ + 1]
                 /\ UNCHANGED <<processorVars, flagVars, stack, ran, erased>>

ProcessReturns == /\ loop.running
                  /\ loop' = [loop EXCEPT !.running = FALSE, !.at = @ + 1]
                  /\ UNCHANGED <<processorVars, flagVars, stack, ran, erased>>

EndLoop == /\ InLoop /\ loop.at > Len(loop.copy)
           /\ once' = IF loop.kind = "once"
                      THEN [once EXCEPT ![loop.phase][loop.index] = << >>] ELSE once
           /\ loop' = NoLoop /\ ran' = << >> /\ erased' = {}
           /\ GoTo(AfterLoop(loop.kind, loop.phase))
           /\ UNCHANGED <<list, onceIndex, unregistered, flagVars>>

\* Relayout: the flag is cleared first, then the negotiation calls back.
Relayout ==
  /\ InLoops("size")
  /\ IF enabled /\ relayoutFlag
     THEN relayoutFlag' = FALSE /\ GoTo("negotiate")
     ELSE UNCHANGED relayoutFlag
          /\ stack' = [stack EXCEPT ![Len(stack)].call = "post", ![Len(stack)].pc = "once"]
  /\ UNCHANGED <<processorVars, processing, flushing, coreEvents, enabled, messageVars,
                 idleRequested, loopVars>>

Negotiated == /\ InLoops("negotiate")
              /\ stack' = [stack EXCEPT ![Len(stack)].call = "post", ![Len(stack)].pc = "once"]
              /\ UNCHANGED <<processorVars, flagVars, loopVars>>

\* FlushQueue and the end of RelayoutAndFlush, which undoes what it faked.
FlushQueue == /\ InLoops("flush")
              /\ unflushed' = FALSE /\ flushing' = FALSE
              /\ IF Top.faked
                 THEN SetProcessing(FALSE)
                 ELSE UNCHANGED <<processing, coreEvents, queueing>>
              /\ stack' = Front(stack)
              /\ UNCHANGED <<processorVars, enabled, relayoutFlag, idleRequested, loopVars>>

Next == \/ RegisterProcessor \/ UnregisterProcessor
        \/ RegisterProcessorOnce \/ UnregisterProcessorOnce \/ SceneDestroyed
        \/ QueueMessage \/ RequestRelayout
        \/ ProcessEvents \/ RefuseProcessEvents \/ ForceRelayout
        \/ EventsStep \/ EventsRelayout \/ EventsEnd \/ NotificationsDone
        \/ SkipLoop \/ BeginLoop \/ RunProcessor \/ SkipProcessor \/ ProcessReturns \/ EndLoop
        \/ Relayout \/ Negotiated \/ FlushQueue

Spec == Init /\ [][Next]_vars
-----------------------------------------------------------------------------
Frame == [call : {"events"} \cup Phases, faked : BOOLEAN,
          pc : Callbacks \cup {"end", "once", "list", "size", "flush"}]
Loop == [kind : {"none", "once", "list"}, phase : Phases, index : 0 .. 1,
         copy : Seq(Processors), at : Nat, running : BOOLEAN]

\* Every variable has its type.
TypeOK == /\ list \in [Phases -> Seq(Processors)]
          /\ once \in [Phases -> [0 .. 1 -> Seq(Processors)]]
          /\ onceIndex \in [Phases -> 0 .. 1]
          /\ unregistered \in [Phases -> BOOLEAN]
          /\ {processing, flushing, coreEvents, enabled, relayoutFlag,
              queueing, unflushed, idleRequested} \subseteq BOOLEAN
          /\ stack \in Seq(Frame) /\ loop \in Loop
          /\ ran \in Seq(Nat) /\ erased \in SUBSET Processors

\* A processor that was unregistered may be gone: whenever Process is called,
\* the processor is registered in the list that is being run.
OnlyRegisteredRuns ==
  ~loop.running /\ loop'.running => Candidate \in ToSet(RunList(loop))

\* A loop runs the processors it found, in the order of their registration and
\* as often as they were registered, except those unregistered meanwhile.
Done == 1 .. IF loop.running THEN loop.at ELSE loop.at - 1
EachKeptOneRuns ==
  loop # NoLoop => /\ Ascending(ran) /\ ToSet(ran) \subseteq Done
                   /\ \A i \in Done : loop.copy[i] \notin erased => i \in ToSet(ran)

\* A processor registered once while the once-processors run is neither run nor
\* forgotten with them: the list to be cleared holds only what the loop found.
NoneForgotten == loop.kind = "once" => ToSet(RunList(loop)) \subseteq ToSet(loop.copy)

\* A loop over the processors, whatever its processors register and
\* unregister: none that is gone is called, none is left out or called twice.
LoopRunsItsProcessors ==
  [][OnlyRegisteredRuns /\ EachKeptOneRuns' /\ NoneForgotten']_vars

Flushing == {i \in DOMAIN stack : stack[i].call \in Phases /\ stack[i].pc # "notify"}

\* The flags that guard against re-entrance say exactly what is on the stack,
\* however calls are nested: at most one relayout is past its notifications,
\* and the message queue and the relayout controller are told of every end.
FlagsMatchCalls ==
  /\ processing = (stack # << >>) /\ coreEvents = processing /\ queueing = processing
  /\ flushing = (Flushing # {}) /\ Cardinality(Flushing) <= 1
  /\ Len(stack) > 1 => \A i \in 2 .. Len(stack) : ~stack[i].faked

\* When the event thread is idle, messages that have not been flushed have been
\* announced: the adaptor will process events and flush them.
UnflushedIsAnnounced == stack = << >> /\ unflushed => idleRequested
=============================================================================
