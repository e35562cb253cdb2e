------------------------ MODULE LocklessPointerRing ------------------------
(***************************************************************************)
(* dali/internal/common/lockless-pointer-ring.h, one action per access to  *)
(* the shared atomics.  The producer thread calls Push, the consumer       *)
(* thread calls Drain, and either of them GetApproximateDepth.             *)
(*                                                                         *)
(* The indices are of an unsigned type of IndexModulus values (size_t in   *)
(* the code) and wrap: all index arithmetic below is modulo IndexModulus.  *)
(*                                                                         *)
(* An access happens at once and is seen at once by the other thread.  The *)
(* acquire/release pairs of the code give that as far as the slots go: a   *)
(* slot is stored before the index that publishes it.  A load that the     *)
(* hardware satisfies with an older value is the same load done earlier.   *)
(***************************************************************************)
EXTENDS Naturals, Sequences

CONSTANTS
  Pointers,      \* the objects handed over
  Null,          \* nullptr
  Capacity,      \* number of slots
  MaxOut,        \* size of the array the consumer passes to Drain
  IndexModulus   \* number of values of the index type (2^64 in the code)

ASSUME RingAssumption ==
  /\ Capacity \in Nat \ {0}
  /\ IndexModulus \in Nat
  /\ IndexModulus > Capacity
  /\ IndexModulus % Capacity = 0     \* both are powers of 2 (static_assert)
  /\ MaxOut \in Nat \ {0}
  /\ Null \notin Pointers

VARIABLES
  slots, writeIndex, readIndex,      \* mSlots, mWriteIndex, mReadIndex
  producer,                          \* the producer's call: pc and locals
  consumer                           \* the consumer's call: pc and locals

vars == <<slots, writeIndex, readIndex, producer, consumer>>

Index == 0 .. IndexModulus - 1

Minus(a, b) == (a + IndexModulus - b) % IndexModulus
Plus(a, b)  == (a + b) % IndexModulus
Slot(i)     == i % Capacity          \* i & (Capacity - 1)

ProducerIdle == [pc |-> "idle", value |-> Null, write |-> 0]
ConsumerIdle == [pc |-> "idle", write |-> 0, count |-> 0, out |-> << >>]

Init == /\ slots = [s \in 0 .. Capacity - 1 |-> Null]
        /\ writeIndex = 0
        /\ readIndex = 0
        /\ producer = ProducerIdle
        /\ consumer = ConsumerIdle

(***************************************************************************)
(* Push                                                                    *)
(***************************************************************************)
\* Mutant of Occupied: > for >=.
OccupiedOffByOne(w, r) == Minus(w, r) > Capacity

Occupied(w, r) == Minus(w, r) >= Capacity

\* The loads of the indices, with room: the value will be stored.  The
\* producer's own index does not move between its two loads.
PushBegin(p) ==
  /\ producer.pc = "idle"
  /\ ~Occupied(writeIndex, readIndex)
  /\ producer' = [pc |-> "store", value |-> p, write |-> writeIndex]
  /\ UNCHANGED <<slots, writeIndex, readIndex, consumer>>

\* The loads of the indices, without room: Push returns false.
PushFull ==
  /\ producer.pc = "idle"
  /\ Occupied(writeIndex, readIndex)
  /\ UNCHANGED vars

PushStore ==
  /\ producer.pc = "store"
  /\ slots' = [slots EXCEPT ![Slot(producer.write)] = producer.value]
  /\ producer' = [producer EXCEPT !.pc = "publish"]
  /\ UNCHANGED <<writeIndex, readIndex, consumer>>

PushPublish ==
  /\ producer.pc = "publish"
  /\ writeIndex' = Plus(producer.write, 1)
  /\ producer' = ProducerIdle
  /\ UNCHANGED <<slots, readIndex, consumer>>

(***************************************************************************)
(* Drain                                                                   *)
(***************************************************************************)
Least(a, b) == IF a < b THEN a ELSE b

\* Mutant of DrainBegin: takes MaxOut pointers without looking at how many are
\* available.
DrainBeginUnchecked ==
  /\ consumer.pc = "idle"
  /\ consumer' = [ConsumerIdle EXCEPT !.pc = "copy", !.count = MaxOut]
  /\ UNCHANGED <<slots, writeIndex, readIndex, producer>>

\* The loads of the indices; with nothing available Drain stores its own
\* index back unchanged and returns 0.
DrainBegin ==
  /\ consumer.pc = "idle"
  /\ LET count == Least(Minus(writeIndex, readIndex), MaxOut)
     IN  consumer' = IF count = 0 THEN ConsumerIdle
                     ELSE [ConsumerIdle EXCEPT !.pc = "copy", !.count = count]
  /\ UNCHANGED <<slots, writeIndex, readIndex, producer>>

DrainCopy ==
  /\ consumer.pc = "copy"
  /\ Len(consumer.out) < consumer.count
  /\ consumer' = [consumer EXCEPT
       !.out = Append(@, slots[Slot(Plus(readIndex, Len(consumer.out)))])]
  /\ UNCHANGED <<slots, writeIndex, readIndex, producer>>

DrainEnd ==
  /\ consumer.pc = "copy"
  /\ Len(consumer.out) = consumer.count
  /\ readIndex' = Plus(readIndex, consumer.count)
  /\ consumer' = ConsumerIdle
  /\ UNCHANGED <<slots, writeIndex, producer>>

(***************************************************************************)
(* GetApproximateDepth: mWriteIndex is loaded first, then mReadIndex.      *)
(***************************************************************************)
ProducerDepthBegin ==
  /\ producer.pc = "idle"
  /\ producer' = [ProducerIdle EXCEPT !.pc = "depth", !.write = writeIndex]
  /\ UNCHANGED <<slots, writeIndex, readIndex, consumer>>

ProducerDepthEnd ==
  /\ producer.pc = "depth"
  /\ producer' = ProducerIdle
  /\ UNCHANGED <<slots, writeIndex, readIndex, consumer>>

ConsumerDepthBegin ==
  /\ consumer.pc = "idle"
  /\ consumer' = [ConsumerIdle EXCEPT !.pc = "depth", !.write = writeIndex]
  /\ UNCHANGED <<slots, writeIndex, readIndex, producer>>

ConsumerDepthEnd ==
  /\ consumer.pc = "depth"
  /\ consumer' = ConsumerIdle
  /\ UNCHANGED <<slots, writeIndex, readIndex, producer>>

\* The value a depth call in progress would return with its second load now.
Depth(call) == Minus(call.write, readIndex)

Next == \/ \E p \in Pointers : PushBegin(p)
        \/ PushFull \/ PushStore \/ PushPublish
        \/ DrainBegin \/ DrainCopy \/ DrainEnd
        \/ ProducerDepthBegin \/ ProducerDepthEnd
        \/ ConsumerDepthBegin \/ ConsumerDepthEnd

Spec == Init /\ [][Next]_vars

(***************************************************************************)
(* Properties                                                              *)
(***************************************************************************)
\* The pointers between the indices, oldest first: the abstract channel.
Pending == [i \in 1 .. Minus(writeIndex, readIndex) |->
              slots[Slot(Plus(readIndex, i - 1))]]

\* GetApproximateDepth "may be called from EITHER thread": its two loads are
\* not a snapshot, and an mReadIndex read late enough to overtake the
\* mWriteIndex read before it would give a difference near 2^64.  From the
\* two threads of the ring it never does.
DepthDoesNotWrap ==
  /\ producer.pc = "depth" => Depth(producer) <= Capacity
  /\ consumer.pc = "depth" => Depth(consumer) <= Capacity

\* The ring is a bounded FIFO channel: every step of the two threads is a
\* step of SpscChannel or invisible to it.
Channel == INSTANCE SpscChannel
             WITH pending <- Pending,
                  claimed <- IF consumer.pc = "copy" THEN consumer.count ELSE 0

ImplementsChannel == Channel!Spec
=============================================================================
