--------------------------- MODULE SignalPromise ---------------------------
(***************************************************************************)
(* What a signal promises to the code that connects slots to it.  A signal *)
(* has a sequence of connected slots.  Emitting it calls the slots that    *)
(* were connected when the emission began, in the order in which they were *)
(* connected, each once, except those disconnected before their turn.      *)
(* While a slot runs it may do anything a signal allows, to any signal:    *)
(* connect, disconnect, emit another one, destroy the one being emitted.   *)
(*                                                                         *)
(* BaseSignal implements this specification step by step.                  *)
(***************************************************************************)
EXTENDS Naturals, Sequences, Queues

CONSTANTS Signals, Slots

VARIABLES
  connected,    \* the slots of each signal, in connection order
  emissions,    \* the emissions in progress, innermost last: what each has to call
  inSlot        \* a slot of the innermost emission is running

vars == <<connected, emissions, inSlot>>

Without(slots, gone) == Only(slots, Slots \ gone)

\* Only the running slot, or the application when there is none, acts.
Free == emissions # << >> => inSlot

Init == /\ connected = [s \in Signals |-> << >>]
        /\ emissions = << >>
        /\ inSlot = FALSE

\* A slot that is connected to an emitting signal waits for the next emission.
Connect == /\ Free
           /\ \E s \in Signals, slot \in Slots :
                /\ connected[s] = Without(connected[s], {slot})
                /\ connected' = [connected EXCEPT ![s] = Append(@, slot)]
           /\ UNCHANGED <<emissions, inSlot>>

\* Slots disappear from some signals, and from what these still have to call.
Disconnect == /\ Free
              /\ \E gone \in [Signals -> SUBSET Slots] :
                   /\ connected' = [s \in Signals |-> Without(connected[s], gone[s])]
                   /\ emissions' = [i \in DOMAIN emissions |->
                        [emissions[i] EXCEPT !.todo = Without(@, gone[emissions[i].signal])]]
              /\ UNCHANGED inSlot

\* A signal that is being emitted cannot be emitted again.
Emit == /\ Free
        /\ \E s \in Signals :
             /\ \A i \in DOMAIN emissions : emissions[i].signal # s
             /\ emissions' = Append(emissions, [signal |-> s, todo |-> connected[s]])
        /\ inSlot' = FALSE
        /\ UNCHANGED connected

Innermost == emissions[Len(emissions)]

\* The innermost emission calls the next slot it has to call.
Call == /\ emissions # << >> /\ ~inSlot /\ Innermost.todo # << >>
        /\ emissions' = [emissions EXCEPT ![Len(emissions)].todo = Tail(@)]
        /\ inSlot' = TRUE
        /\ UNCHANGED connected

\* The slot returns.
Return == /\ inSlot
          /\ inSlot' = FALSE
          /\ UNCHANGED <<connected, emissions>>

\* The emission has called everything; the slot that emitted, if any, goes on.
Finish == /\ emissions # << >> /\ ~inSlot /\ Innermost.todo = << >>
          /\ emissions' = SubSeq(emissions, 1, Len(emissions) - 1)
          /\ inSlot' = (Len(emissions) > 1)
          /\ UNCHANGED connected

Next == Connect \/ Disconnect \/ Emit \/ Call \/ Return \/ Finish

Spec == Init /\ [][Next]_vars
=============================================================================
