--------------------------- MODULE Primitives_proofs ---------------------------
(***************************************************************************)
(* What the rest of the core is built on: the two structures that threads  *)
(* share without a lock, and signals.                                      *)
(*                                                                         *)
(* LocklessPointerRing implements the channel, and its depth does not      *)
(* wrap, for every capacity, width of the indices, and size of the         *)
(* consumer's array.                                                       *)
(*                                                                         *)
(* The properties of LocklessBuffer hold for every buffer size and every   *)
(* number of Writes.  The inductive invariant says where the two sides     *)
(* are: the held buffer is always the one that is not written, only the    *)
(* reader moves the write buffer, and which buffer has the newest byte     *)
(* follows from the UPDATED bit.                                           *)
(*                                                                         *)
(* The pool and the list of every BaseSignal are consistent, and trackers  *)
(* agree with signals, for any signals, slots and trackers, as long as the *)
(* number of a place fits its 16 bits.  The invariant gives the places of  *)
(* a list an order, of which the links are the neighbours: appending a     *)
(* place, taking one out and walking along the list are then steps on that *)
(* order.  So is what an emission still has to call, and with it every     *)
(* signal implements SignalPromise, under the same condition.              *)
(***************************************************************************)
EXTENDS LocklessPointerRing, LocklessBuffer, BaseSignal, Queues_proofs

\* A sum of two indices wraps at most once.
LEMMA WrapsOnce ==
  ASSUME NEW m \in Nat \ {0}, NEW x \in 0 .. 2 * m - 1
  PROVE  (x < m => x % m = x) /\ (x >= m => x % m = x - m)
<1>1. CASE x < m
  BY <1>1
<1>2. CASE x >= m
  BY <1>2
<1> QED
  BY <1>1, <1>2

\* Indices within Capacity of each other: what Minus and Plus compute.
LEMMA IndexFacts ==
  /\ IndexModulus \in Nat \ {0} /\ Capacity \in Nat \ {0} /\ Capacity < IndexModulus
  /\ \A a, b \in Index :
       /\ Minus(a, b) = IF b <= a THEN a - b ELSE a + IndexModulus - b
       /\ Minus(a, b) \in Index
       /\ Plus(b, Minus(a, b)) = a
  /\ \A a \in Index, n \in 0 .. IndexModulus :
       /\ Plus(a, n) = IF a + n < IndexModulus THEN a + n ELSE a + n - IndexModulus
       /\ Plus(a, n) \in Index
<1>1. /\ IndexModulus \in Nat \ {0} /\ Capacity \in Nat \ {0} /\ Capacity < IndexModulus
  BY RingAssumption
<1>2. ASSUME NEW a \in Index, NEW b \in Index
      PROVE  Minus(a, b) = IF b <= a THEN a - b ELSE a + IndexModulus - b
  <2>1. a + IndexModulus - b \in 0 .. 2 * IndexModulus - 1
    BY <1>1 DEF Index
  <2> QED
    <3> DEFINE x == a + IndexModulus - b
    <3>1. /\ x < IndexModulus => x % IndexModulus = x
          /\ x >= IndexModulus => x % IndexModulus = x - IndexModulus
      BY ONLY <1>1, <2>1, WrapsOnce, Zenon
    <3> QED
      BY <3>1, <1>1 DEF Index, Minus
<1>3. ASSUME NEW a \in Index, NEW n \in 0 .. IndexModulus
      PROVE  Plus(a, n) = IF a + n < IndexModulus THEN a + n ELSE a + n - IndexModulus
  <2>1. a + n \in 0 .. 2 * IndexModulus - 1
    BY <1>1 DEF Index
  <2> QED
    <3> DEFINE x == a + n
    <3>1. /\ x < IndexModulus => x % IndexModulus = x
          /\ x >= IndexModulus => x % IndexModulus = x - IndexModulus
      BY ONLY <1>1, <2>1, WrapsOnce, Zenon
    <3> QED
      BY <3>1, <1>1 DEF Index, Plus
<1>4. ASSUME NEW a \in Index, NEW b \in Index
      PROVE  Minus(a, b) \in Index /\ Plus(b, Minus(a, b)) = a
  BY <1>1, <1>2, <1>3 DEF Index
<1>5. ASSUME NEW a \in Index, NEW n \in 0 .. IndexModulus PROVE Plus(a, n) \in Index
  BY <1>1, <1>3 DEF Index
<1> QED
  BY <1>1, <1>2, <1>3, <1>4, <1>5

\* The distance of the two indices counts pushes and drains.
LEMMA DistanceFacts ==
  ASSUME NEW w \in Index, NEW r \in Index
  PROVE  /\ Minus(w, r) < Capacity => Minus(Plus(w, 1), r) = Minus(w, r) + 1
         /\ \A n \in 0 .. Minus(w, r) :
              /\ Minus(w, Plus(r, n)) = Minus(w, r) - n
              /\ \A i \in 0 .. Minus(w, r) - n : Plus(Plus(r, n), i) = Plus(r, n + i)
<1>1. /\ Minus(w, r) = IF r <= w THEN w - r ELSE w + IndexModulus - r
      /\ IndexModulus \in Nat \ {0} /\ Capacity \in Nat \ {0} /\ Capacity < IndexModulus
      /\ w \in 0 .. IndexModulus - 1 /\ r \in 0 .. IndexModulus - 1
  BY IndexFacts DEF Index
<1>2. /\ Plus(w, 1) = IF w + 1 < IndexModulus THEN w + 1 ELSE w + 1 - IndexModulus
      /\ Plus(w, 1) \in Index
  BY IndexFacts
<1>3. Minus(Plus(w, 1), r) = IF r <= Plus(w, 1) THEN Plus(w, 1) - r
                             ELSE Plus(w, 1) + IndexModulus - r
  BY <1>2, IndexFacts
<1>4. Minus(w, r) < Capacity => Minus(Plus(w, 1), r) = Minus(w, r) + 1
  BY ONLY <1>1, <1>2, <1>3
<1>5. ASSUME NEW n \in 0 .. Minus(w, r) 
      PROVE  /\ Minus(w, Plus(r, n)) = Minus(w, r) - n
             /\ \A i \in 0 .. Minus(w, r) - n : Plus(Plus(r, n), i) = Plus(r, n + i)
  <2>1. /\ Plus(r, n) = IF r + n < IndexModulus THEN r + n ELSE r + n - IndexModulus
        /\ Plus(r, n) \in Index
    <3>1. n \in 0 .. IndexModulus
      BY <1>1
    <3> QED
      BY <3>1, IndexFacts
  <2>2. Minus(w, Plus(r, n)) = IF Plus(r, n) <= w THEN w - Plus(r, n)
                               ELSE w + IndexModulus - Plus(r, n)
    BY <2>1, IndexFacts
  <2>3. Minus(w, Plus(r, n)) = Minus(w, r) - n
    BY ONLY <1>1, <2>1, <2>2, n \in 0 .. Minus(w, r)
  <2>4. ASSUME NEW i \in 0 .. Minus(w, r) - n PROVE Plus(Plus(r, n), i) = Plus(r, n + i)
    <3>1. i \in 0 .. IndexModulus /\ n + i \in 0 .. IndexModulus
      BY <1>1
    <3>2. /\ Plus(r, n + i) = IF r + (n + i) < IndexModulus THEN r + (n + i)
                              ELSE r + (n + i) - IndexModulus
          /\ Plus(Plus(r, n), i) = IF Plus(r, n) + i < IndexModulus THEN Plus(r, n) + i
                                   ELSE Plus(r, n) + i - IndexModulus
      BY <3>1, <2>1, IndexFacts
    <3> QED
      BY ONLY <1>1, <2>1, <3>1, <3>2, n \in 0 .. Minus(w, r), i \in 0 .. Minus(w, r) - n
  <2> QED
    BY <2>3, <2>4
<1> QED
  BY <1>4, <1>5

\* Two slots that coincide are a multiple of the capacity apart.
LEMMA SameRemainder ==
  ASSUME NEW c \in Int, c > 0, NEW x \in Int, NEW y \in Int, x % c = y % c
  PROVE  \E z \in Int : x - y = c * z
<1>1. x % c = x - c * (x \div c) /\ x \div c \in Int
  BY SMTT(30)
<1>2. y % c = y - c * (y \div c) /\ y \div c \in Int
  BY SMTT(30)
<1>3. ASSUME NEW p \in Int, NEW q \in Int, x - c * p = y - c * q PROVE x - y = c * (p - q)
  BY <1>3, SMTT(30)
<1>4. x - c * (x \div c) = y - c * (y \div c)
  BY <1>1, <1>2
<1>5. x - y = c * ((x \div c) - (y \div c))
  BY ONLY <1>1, <1>2, <1>3, <1>4, Zenon
<1>6. (x \div c) - (y \div c) \in Int
  BY <1>1, <1>2
<1> QED
  BY ONLY <1>5, <1>6, Zenon

\* The slot that the producer fills is not that of a pending pointer.  This is
\* where the capacity has to divide the number of indices.
LEMMA SlotsDiffer ==
  ASSUME NEW w \in Index, NEW r \in Index, Minus(w, r) < Capacity, NEW i \in 0 .. Minus(w, r) - 1
  PROVE  Slot(Plus(r, i)) # Slot(w)
<1> SUFFICES ASSUME Slot(Plus(r, i)) = Slot(w) PROVE FALSE
  OBVIOUS
<1> DEFINE d == Minus(w, r) a == Plus(r, i)
<1>1. /\ d = IF r <= w THEN w - r ELSE w + IndexModulus - r
      /\ IndexModulus \in Nat \ {0} /\ Capacity \in Nat \ {0} /\ Capacity < IndexModulus
      /\ w \in 0 .. IndexModulus - 1 /\ r \in 0 .. IndexModulus - 1
  BY IndexFacts DEF Index
<1>2. i \in 0 .. IndexModulus /\ i < d
  BY <1>1
<1>3. a \in Int /\ a = IF r + i < IndexModulus THEN r + i ELSE r + i - IndexModulus
  BY <1>1, <1>2, IndexFacts DEF Index
<1>4. PICK z \in Int : a - w = Capacity * z
  <2>1. a % Capacity = w % Capacity
    BY DEF Slot
  <2>2. Capacity \in Int /\ Capacity > 0 /\ a \in Int /\ w \in Int
    BY <1>1, <1>3
  <2> HIDE DEF a
  <2> QED
    BY ONLY <2>1, <2>2, SameRemainder, Zenon
<1>5. PICK q \in Int : IndexModulus = Capacity * q
  <2>1. IndexModulus % Capacity = 0 % Capacity
    BY <1>1, RingAssumption
  <2>2. PICK q \in Int : IndexModulus - 0 = Capacity * q
    BY <2>1, <1>1, SameRemainder
  <2> QED
    BY <2>2, <1>1
<1> HIDE DEF d, a
<1>6. d \in Int /\ d - i \in 1 .. Capacity - 1
  BY <1>1, <1>2 DEF d
<1>7. i - d \in {Capacity * z, Capacity * z + Capacity * q, Capacity * z - Capacity * q}
  BY ONLY <1>1, <1>2, <1>3, <1>4, <1>5
<1>8. \E u \in Int : i - d = Capacity * u
  <2>1. /\ Capacity * z + Capacity * q = Capacity * (z + q)
        /\ Capacity * z - Capacity * q = Capacity * (z - q)
    BY <1>1
  <2> QED
    BY <1>7, <2>1
<1>9. PICK u \in Int : i - d = Capacity * u
  BY <1>8
<1>10. CASE u >= 0
  <2>1. Capacity * u >= 0
    BY <1>10, <1>1
  <2> QED
    BY <2>1, <1>9, <1>6
<1>11. CASE u <= -1
  <2>1. Capacity * u <= -Capacity
    BY <1>11, <1>1
  <2> QED
    BY <2>1, <1>9, <1>6, <1>1
<1> QED
  BY <1>10, <1>11

Values == Pointers \cup {Null}
Used == Minus(writeIndex, readIndex)

Types ==
  /\ writeIndex \in Index /\ readIndex \in Index
  /\ slots \in [0 .. Capacity - 1 -> Values]
  /\ producer \in [pc : {"idle", "store", "publish", "depth"}, value : Values, write : Index]
  /\ consumer \in [pc : {"idle", "copy", "depth"}, write : Index, count : Nat, out : Seq(Values)]

\* What the calls in progress know of the indices: each thread moves only its
\* own, so the room that Push has seen and the pointers that Drain has seen
\* are still there.
Calls ==
  /\ Used <= Capacity
  /\ producer.pc # "idle" => producer.write = writeIndex
  /\ producer.pc \in {"store", "publish"} => Used < Capacity /\ producer.value \in Pointers
  /\ producer.pc = "publish" => slots[Slot(writeIndex)] = producer.value
  /\ consumer.pc = "copy" => consumer.count \in 1 .. Used
  /\ consumer.pc = "depth" => Minus(consumer.write, readIndex) <= Capacity

IInv == Types /\ Calls

\* What lies between two indices, as a sequence.
Content(sl, w, r) == [i \in 1 .. Minus(w, r) |-> sl[Slot(Plus(r, i - 1))]]

LEMMA ContentFacts ==
  ASSUME NEW sl \in [0 .. Capacity - 1 -> Values], NEW w \in Index, NEW r \in Index
  PROVE  /\ \A i \in Index : Slot(i) \in 0 .. Capacity - 1
         /\ Minus(w, r) \in Nat
         /\ Content(sl, w, r) \in Seq(Values) /\ Len(Content(sl, w, r)) = Minus(w, r)
         /\ \A i \in 1 .. Minus(w, r) : Content(sl, w, r)[i] = sl[Slot(Plus(r, i - 1))]
<1>1. /\ IndexModulus \in Nat \ {0} /\ Capacity \in Nat \ {0}
      /\ Minus(w, r) \in 0 .. IndexModulus - 1
  BY IndexFacts DEF Index
<1>2. \A i \in Index : Slot(i) \in 0 .. Capacity - 1
  BY <1>1 DEF Slot, Index
<1>3. \A i \in 1 .. Minus(w, r) : Plus(r, i - 1) \in Index
  <2>1. ASSUME NEW i \in 1 .. Minus(w, r) PROVE i - 1 \in 0 .. IndexModulus
    BY <1>1
  <2> QED
    BY <2>1, IndexFacts
<1>4. Content(sl, w, r) \in [1 .. Minus(w, r) -> Values]
  BY <1>2, <1>3 DEF Content
<1>5. Content(sl, w, r) \in Seq(Values) /\ Len(Content(sl, w, r)) = Minus(w, r)
  BY <1>1, <1>4
<1> QED
  BY <1>1, <1>2, <1>5 DEF Content

\* The slot of an index, and the abstract channel.
LEMMA PendingFacts ==
  ASSUME Types
  PROVE  /\ \A i \in Index : Slot(i) \in 0 .. Capacity - 1
         /\ Used \in Nat /\ Used \in Index
         /\ Pending = Content(slots, writeIndex, readIndex)
         /\ Pending \in Seq(Values) /\ Len(Pending) = Used
<1>1. Pending = Content(slots, writeIndex, readIndex)
  BY DEF Pending, Content
<1>2. /\ slots \in [0 .. Capacity - 1 -> Values] /\ writeIndex \in Index /\ readIndex \in Index
  BY DEF Types
<1>3. Used \in Index
  BY <1>2, IndexFacts DEF Used
<1>4. /\ \A i \in Index : Slot(i) \in 0 .. Capacity - 1
      /\ Used \in Nat /\ Content(slots, writeIndex, readIndex) \in Seq(Values)
      /\ Len(Content(slots, writeIndex, readIndex)) = Used
  BY <1>2, ContentFacts DEF Used
<1> QED
  BY <1>1, <1>3, <1>4

LEMMA InitHasIInv == Init => IInv
<1>1. 0 \in Index /\ Minus(0, 0) = 0
  BY IndexFacts DEF Index
<1> QED
  BY <1>1, IndexFacts DEF Init, IInv, Types, Calls, Values, Used, ProducerIdle, ConsumerIdle

LEMMA PushKeepsIInv ==
  ASSUME IInv, (\E p \in Pointers : PushBegin(p)) \/ PushFull \/ PushStore \/ PushPublish
  PROVE  IInv'
<1>0. /\ 0 \in Index /\ Capacity \in Nat \ {0} /\ Used \in Nat
      /\ \A i \in Index : Slot(i) \in 0 .. Capacity - 1
  BY PendingFacts, IndexFacts DEF IInv, Index
<1>1. CASE \E p \in Pointers : PushBegin(p)
  <2>1. PICK p \in Pointers : PushBegin(p)
    BY <1>1
  <2>2. Used < Capacity
    BY <2>1, <1>0 DEF PushBegin, Occupied, Used
  <2>3. Types'
    BY <2>1 DEF PushBegin, IInv, Types, Values
  <2>4. Calls'
    BY <2>1, <2>2 DEF PushBegin, IInv, Calls, Used
  <2> QED
    BY <2>3, <2>4 DEF IInv
<1>2. CASE PushFull
  BY <1>2 DEF PushFull, vars, IInv, Types, Calls, Used
<1>3. CASE PushStore
  <2>1. /\ producer.pc = "store" /\ slots' = [slots EXCEPT ![Slot(producer.write)] = producer.value]
        /\ producer' = [producer EXCEPT !.pc = "publish"]
        /\ UNCHANGED <<writeIndex, readIndex, consumer>>
    BY <1>3 DEF PushStore
  <2>2. Types'
    BY <2>1 DEF IInv, Types
  <2>3. slots'[Slot(writeIndex)] = producer.value
    BY <2>1, <1>0 DEF IInv, Types, Calls
  <2>4. Calls'
    BY <2>1, <2>3 DEF IInv, Types, Calls, Used
  <2> QED
    BY <2>2, <2>4 DEF IInv
<1>4. CASE PushPublish
  <2>1. /\ producer.pc = "publish" /\ writeIndex' = Plus(writeIndex, 1) /\ producer' = ProducerIdle
        /\ UNCHANGED <<slots, readIndex, consumer>>
    BY <1>4 DEF PushPublish, IInv, Calls
  <2>2. 1 \in 0 .. IndexModulus
    BY IndexFacts
  <2>3. writeIndex' \in Index
    BY <2>1, <2>2, IndexFacts DEF IInv, Types
  <2>4. Used' = Used + 1 /\ Used < Capacity
    BY <2>1, DistanceFacts DEF IInv, Types, Calls, Used
  <2>5. Types'
    BY <2>1, <2>3, <1>0 DEF IInv, Types, Values, ProducerIdle
  <2>6. Calls'
    <3> HIDE DEF Used
    <3> QED
      BY <2>1, <2>4, <1>0 DEF IInv, Types, Calls, ProducerIdle
  <2> QED
    BY <2>5, <2>6 DEF IInv
<1> QED
  BY <1>1, <1>2, <1>3, <1>4

LEMMA DrainKeepsIInv ==
  ASSUME IInv, DrainBegin \/ DrainCopy \/ DrainEnd
  PROVE  IInv'
<1>0. /\ 0 \in Index /\ Capacity \in Nat \ {0} /\ Used \in Nat /\ MaxOut \in Nat \ {0}
      /\ \A i \in Index : Slot(i) \in 0 .. Capacity - 1
  BY PendingFacts, IndexFacts, RingAssumption DEF IInv, Index
<1>1. CASE DrainBegin
  <2> DEFINE count == Least(Used, MaxOut)
  <2>1. /\ consumer.pc = "idle" /\ UNCHANGED <<slots, writeIndex, readIndex, producer>>
        /\ consumer' = IF count = 0 THEN ConsumerIdle
                       ELSE [ConsumerIdle EXCEPT !.pc = "copy", !.count = count]
    BY <1>1 DEF DrainBegin, Used
  <2>2. count \in Nat /\ count <= Used
    BY <1>0 DEF Least
  <2> HIDE DEF count
  <2>3. Types'
    <3>1. << >> \in Seq(Values)
      OBVIOUS
    <3>2. consumer' \in [pc : {"idle", "copy", "depth"}, write : Index, count : Nat, out : Seq(Values)]
      <4>1. CASE count = 0
        BY <4>1, <3>1, <2>1, <1>0 DEF ConsumerIdle
      <4>2. CASE count # 0
        BY <4>2, <3>1, <2>1, <2>2, <1>0 DEF ConsumerIdle
      <4> QED
        BY <4>1, <4>2
    <3> QED
      BY <2>1, <3>2 DEF IInv, Types
  <2>4. Used' = Used
    BY <2>1 DEF Used
  <2>5. Calls'
    BY <2>1, <2>2, <2>4, <1>0 DEF IInv, Calls, ConsumerIdle
  <2> QED
    BY <2>3, <2>5 DEF IInv
<1>2. CASE DrainCopy
  <2> DEFINE i == Len(consumer.out)
  <2>1. /\ consumer.pc = "copy" /\ i < consumer.count
        /\ consumer' = [consumer EXCEPT !.out = Append(@, slots[Slot(Plus(readIndex, i))])]
        /\ UNCHANGED <<slots, writeIndex, readIndex, producer>>
    BY <1>2 DEF DrainCopy
  <2>2. i \in 0 .. IndexModulus
    <3>1. Used \in 0 .. IndexModulus - 1 /\ IndexModulus \in Nat /\ consumer.count \in 1 .. Used
      BY <2>1, PendingFacts, IndexFacts DEF IInv, Calls, Index
    <3>2. i \in Nat
      BY DEF IInv, Types
    <3> QED
      BY <3>1, <3>2, <2>1
  <2>3. slots[Slot(Plus(readIndex, i))] \in Values
    BY <2>2, <1>0, IndexFacts DEF IInv, Types
  <2>4. Append(consumer.out, slots[Slot(Plus(readIndex, i))]) \in Seq(Values)
    BY <2>3 DEF IInv, Types
  <2>5. Types'
    BY <2>1, <2>4 DEF IInv, Types
  <2>6. Calls'
    BY <2>1 DEF IInv, Types, Calls, Used
  <2> QED
    BY <2>5, <2>6 DEF IInv
<1>3. CASE DrainEnd
  <2>1. /\ consumer.pc = "copy" /\ readIndex' = Plus(readIndex, consumer.count)
        /\ consumer' = ConsumerIdle /\ UNCHANGED <<slots, writeIndex, producer>>
    BY <1>3 DEF DrainEnd
  <2>2. consumer.count \in 0 .. Used /\ consumer.count \in 0 .. IndexModulus
    <3>1. consumer.count \in 1 .. Used
      BY <2>1 DEF IInv, Calls
    <3>2. Used \in 0 .. IndexModulus - 1 /\ IndexModulus \in Nat
      BY PendingFacts, IndexFacts DEF IInv, Index
    <3> QED
      BY ONLY <3>1, <3>2
  <2>3. readIndex' \in Index /\ Used' = Used - consumer.count
    BY <2>1, <2>2, IndexFacts, DistanceFacts DEF IInv, Types, Used
  <2>4. Types'
    BY <2>1, <2>3, <1>0 DEF IInv, Types, ConsumerIdle
  <2>5. Calls'
    <3> HIDE DEF Used
    <3> QED
      BY <2>1, <2>2, <2>3, <1>0 DEF IInv, Types, Calls, ConsumerIdle
  <2> QED
    BY <2>4, <2>5 DEF IInv
<1> QED
  BY <1>1, <1>2, <1>3

LEMMA DepthKeepsIInv ==
  ASSUME IInv, ProducerDepthBegin \/ ProducerDepthEnd \/ ConsumerDepthBegin \/ ConsumerDepthEnd
  PROVE  IInv'
<1>0. 0 \in Index
  BY IndexFacts DEF Index
<1>1. UNCHANGED <<slots, writeIndex, readIndex>>
  BY DEF ProducerDepthBegin, ProducerDepthEnd, ConsumerDepthBegin, ConsumerDepthEnd
<1>2. CASE ProducerDepthBegin
  <2>1. /\ producer.pc = "idle" /\ UNCHANGED consumer
        /\ producer' = [pc |-> "depth", value |-> Null, write |-> writeIndex]
    BY <1>2 DEF ProducerDepthBegin, ProducerIdle
  <2>2. Types'
    BY <1>1, <2>1 DEF IInv, Types, Values
  <2>3. Calls'
    BY <1>1, <2>1 DEF IInv, Calls, Used
  <2> QED
    BY <2>2, <2>3 DEF IInv
<1>3. CASE ProducerDepthEnd
  <2>1. UNCHANGED consumer /\ producer' = [pc |-> "idle", value |-> Null, write |-> 0]
    BY <1>3 DEF ProducerDepthEnd, ProducerIdle
  <2>2. Types'
    BY <1>0, <1>1, <2>1 DEF IInv, Types, Values
  <2>3. Calls'
    BY <1>1, <2>1 DEF IInv, Calls, Used
  <2> QED
    BY <2>2, <2>3 DEF IInv
<1>4. CASE ConsumerDepthBegin \/ ConsumerDepthEnd
  <2>1. PICK pc \in {"idle", "depth"}, write \in {0, writeIndex} :
          /\ consumer' = [pc |-> pc, write |-> write, count |-> 0, out |-> << >>]
          /\ pc = "depth" => write = writeIndex
          /\ UNCHANGED producer
    BY <1>4 DEF ConsumerDepthBegin, ConsumerDepthEnd, ConsumerIdle
  <2>2. << >> \in Seq(Values)
    OBVIOUS
  <2>3. Types'
    BY <1>0, <1>1, <2>1, <2>2 DEF IInv, Types
  <2>4. Calls'
    BY <1>1, <2>1 DEF IInv, Calls, Used
  <2> QED
    BY <2>3, <2>4 DEF IInv
<1> QED
  BY <1>2, <1>3, <1>4

LEMMA IInvIsInvariant == Spec => []IInv
<1>1. ASSUME IInv, UNCHANGED vars PROVE IInv'
  BY <1>1 DEF vars, IInv, Types, Calls, Used
<1>2. IInv /\ [Next]_vars => IInv'
  BY <1>1, PushKeepsIInv, DrainKeepsIInv, DepthKeepsIInv DEF Next
<1> QED
  BY <1>2, InitHasIInv, PTL DEF Spec

\* GetApproximateDepth never wraps, from either thread.
THEOREM DepthDoesNotWrapHolds == Spec => []DepthDoesNotWrap
<1>1. IInv => DepthDoesNotWrap
  BY DEF IInv, Calls, DepthDoesNotWrap, Depth, Used
<1> QED
  BY <1>1, IInvIsInvariant, PTL

Claimed == IF consumer.pc = "copy" THEN consumer.count ELSE 0

\* The steps that the channel sees.
LEMMA PublishIsPush ==
  ASSUME IInv, PushPublish
  PROVE  Channel!Push(producer.value) /\ producer.value \in Pointers
<1> DEFINE w == writeIndex r == readIndex v == producer.value
<1>1. /\ w \in Index /\ r \in Index /\ slots \in [0 .. Capacity - 1 -> Values]
      /\ Minus(w, r) < Capacity /\ v \in Pointers /\ v \in Values /\ slots[Slot(w)] = v
      /\ writeIndex' = Plus(w, 1) /\ UNCHANGED <<slots, readIndex, consumer>>
  BY DEF PushPublish, IInv, Types, Calls, Used, Values
<1>2. /\ Plus(w, 1) \in Index /\ Minus(Plus(w, 1), r) = Minus(w, r) + 1
      /\ Minus(w, r) \in Nat /\ Plus(r, Minus(w, r)) = w
  <2>1. 1 \in 0 .. IndexModulus
    BY IndexFacts
  <2> QED
    BY <1>1, <2>1, IndexFacts, DistanceFacts DEF Index
<1>3. /\ Pending = Content(slots, w, r) /\ Pending' = Content(slots, Plus(w, 1), r)
  BY <1>1 DEF Pending, Content
<1> DEFINE n == Minus(w, r)
<1>4. /\ Pending \in Seq(Values) /\ Len(Pending) = n
      /\ \A i \in 1 .. n : Pending[i] = slots[Slot(Plus(r, i - 1))]
  BY <1>1, <1>3, ContentFacts
<1>5. /\ Pending' \in Seq(Values) /\ Len(Pending') = n + 1
      /\ \A i \in 1 .. n + 1 : Pending'[i] = slots[Slot(Plus(r, i - 1))]
  <2> DEFINE next == Plus(w, 1)
             after == Content(slots, next, r)
  <2>1. next \in Index /\ Minus(next, r) = n + 1 /\ Pending' = after
    BY ONLY <1>2, <1>3
  <2> HIDE DEF next, n
  <2>2. /\ after \in Seq(Values) /\ Len(after) = Minus(next, r)
        /\ \A i \in 1 .. Minus(next, r) : after[i] = slots[Slot(Plus(r, i - 1))]
    BY ONLY <1>1, <2>1, ContentFacts
  <2> HIDE DEF after
  <2> QED
    BY ONLY <2>1, <2>2
<1>6. Pending'[n + 1] = v
  BY <1>1, <1>2, <1>5
<1> HIDE DEF n, w, r, v
<1>7. Pending' = Append(Pending, v)
  <2>1. Append(Pending, v) \in Seq(Values) /\ Len(Append(Pending, v)) = n + 1
    BY <1>1, <1>4
  <2>2. \A i \in 1 .. n + 1 : Append(Pending, v)[i] = Pending'[i]
    BY <1>1, <1>2, <1>4, <1>5, <1>6 DEF n
  <2> QED
    BY <1>5, <2>1, <2>2, SeqEqual
<1>8. ~Channel!Full
  BY <1>1, <1>2, <1>4, IndexFacts DEF Channel!Full, n, w, r
<1>9. UNCHANGED Claimed
  BY <1>1 DEF Claimed
<1> QED
  BY <1>1, <1>7, <1>8, <1>9 DEF Channel!Push, Claimed, v

LEMMA DrainEndIsRelease ==
  ASSUME IInv, DrainEnd
  PROVE  Channel!Release
<1> DEFINE w == writeIndex r == readIndex c == consumer.count n == Minus(w, r)
<1>1. /\ w \in Index /\ r \in Index /\ slots \in [0 .. Capacity - 1 -> Values]
      /\ consumer.pc = "copy" /\ c \in 1 .. n /\ consumer' = ConsumerIdle
      /\ readIndex' = Plus(r, c) /\ UNCHANGED <<slots, writeIndex>>
  BY DEF DrainEnd, IInv, Types, Calls, Used
<1>2. /\ n \in Nat /\ Plus(r, c) \in Index /\ Minus(w, Plus(r, c)) = n - c
      /\ \A i \in 0 .. n - c : Plus(Plus(r, c), i) = Plus(r, c + i)
  <2>1. n \in 0 .. IndexModulus - 1 /\ IndexModulus \in Nat
    BY <1>1, IndexFacts DEF Index
  <2>2. c \in 0 .. IndexModulus /\ c \in 0 .. n
    BY <1>1, <2>1
  <2>3. Plus(r, c) \in Index
    BY <1>1, <2>2, IndexFacts
  <2>4. /\ Minus(w, Plus(r, c)) = n - c
        /\ \A i \in 0 .. n - c : Plus(Plus(r, c), i) = Plus(r, c + i)
    BY <1>1, <2>2, DistanceFacts
  <2> QED
    BY <2>1, <2>3, <2>4
<1>3. Pending = Content(slots, w, r) /\ Pending' = Content(slots, w, Plus(r, c))
  BY <1>1 DEF Pending, Content
<1>4. /\ Pending \in Seq(Values) /\ Len(Pending) = n
      /\ \A i \in 1 .. n : Pending[i] = slots[Slot(Plus(r, i - 1))]
  BY <1>1, <1>3, ContentFacts
<1>5. /\ Pending' \in Seq(Values) /\ Len(Pending') = n - c
      /\ \A i \in 1 .. n - c : Pending'[i] = slots[Slot(Plus(Plus(r, c), i - 1))]
  <2> DEFINE e == Plus(r, c)
  <2>1. e \in Index /\ Minus(w, e) = n - c /\ Pending' = Content(slots, w, e)
    BY <1>2, <1>3
  <2> HIDE DEF e
  <2>2. /\ Content(slots, w, e) \in Seq(Values) /\ Len(Content(slots, w, e)) = Minus(w, e)
        /\ \A i \in 1 .. Minus(w, e) : Content(slots, w, e)[i] = slots[Slot(Plus(e, i - 1))]
    BY <1>1, <2>1, ContentFacts
  <2> QED
    BY <2>1, <2>2 DEF e
<1> HIDE DEF n, w, r, c
<1>6. ASSUME NEW i \in 1 .. n - c PROVE Pending'[i] = Pending[c + i]
  <2>1. i - 1 \in 0 .. n - c /\ c + i \in 1 .. n /\ c + (i - 1) = (c + i) - 1
    BY <1>1, <1>2
  <2>2. Pending'[i] = slots[Slot(Plus(r, c + (i - 1)))]
    BY <1>2, <1>5, <2>1
  <2> QED
    BY <2>1, <2>2, <1>4
<1>7. Pending' = SubSeq(Pending, c + 1, n)
  <2> DEFINE t == SubSeq(Pending, c + 1, n)
  <2>1. t \in Seq(Values) /\ Len(t) = n - c /\ \A i \in 1 .. n - c : t[i] = Pending[c + i]
    BY <1>1, <1>2, <1>4
  <2> HIDE DEF t
  <2>2. Len(t) = Len(Pending') /\ \A i \in 1 .. Len(t) : t[i] = Pending'[i]
    BY <2>1, <1>5, <1>6
  <2>3. t = Pending'
    BY <2>1, <2>2, <1>5, SeqEqual
  <2> QED
    BY <2>3 DEF t
<1>8. c > 0
  BY <1>1, <1>2
<1> QED
  BY <1>1, <1>4, <1>7, <1>8 DEF Channel!Release, ConsumerIdle, c

LEMMA DrainBeginIsClaim ==
  ASSUME IInv, DrainBegin
  PROVE  [Channel!Next]_(Channel!vars)
<1> DEFINE count == Least(Used, MaxOut)
<1>1. /\ consumer.pc = "idle" /\ UNCHANGED <<slots, writeIndex, readIndex, producer>>
      /\ consumer' = IF count = 0 THEN ConsumerIdle
                     ELSE [ConsumerIdle EXCEPT !.pc = "copy", !.count = count]
  BY DEF DrainBegin, Used
<1>2. Pending' = Pending /\ Len(Pending) = Used /\ Used \in Nat /\ MaxOut \in Nat \ {0}
  BY <1>1, PendingFacts, RingAssumption DEF IInv, Pending
<1>3. count \in Nat /\ count = Channel!Available
  BY <1>2 DEF Least, Channel!Available
<1> HIDE DEF count
<1>4. CASE count = 0
  BY <1>1, <1>2, <1>4 DEF Channel!vars, ConsumerIdle
<1>5. CASE count # 0
  <2>1. Channel!Claim
    BY <1>1, <1>2, <1>3, <1>5 DEF Channel!Claim, ConsumerIdle
  <2> QED
    BY <2>1 DEF Channel!Next
<1> QED
  BY <1>4, <1>5

\* The steps that it does not see.
LEMMA OthersStutter ==
  ASSUME IInv,
         \/ \E p \in Pointers : PushBegin(p)
         \/ PushFull \/ PushStore \/ DrainCopy \/ ProducerDepthBegin \/ ProducerDepthEnd
         \/ ConsumerDepthBegin \/ ConsumerDepthEnd \/ UNCHANGED vars
  PROVE  UNCHANGED Channel!vars
<1>1. CASE PushStore
  <2>1. /\ slots' = [slots EXCEPT ![Slot(writeIndex)] = producer.value]
        /\ UNCHANGED <<writeIndex, readIndex, consumer>> /\ Used < Capacity
    BY <1>1 DEF PushStore, IInv, Calls
  <2>2. ASSUME NEW i \in 1 .. Used
        PROVE  slots'[Slot(Plus(readIndex, i - 1))] = slots[Slot(Plus(readIndex, i - 1))]
    <3>1. i - 1 \in 0 .. Used - 1 /\ i - 1 \in 0 .. IndexModulus
      <4>1. Used \in 0 .. IndexModulus - 1 /\ IndexModulus \in Nat
        BY PendingFacts, IndexFacts DEF IInv, Index
      <4> QED
        BY <4>1
    <3>2. Slot(Plus(readIndex, i - 1)) # Slot(writeIndex)
      BY <3>1, <2>1, SlotsDiffer DEF IInv, Types, Used
    <3>3. Slot(Plus(readIndex, i - 1)) \in 0 .. Capacity - 1
      BY <3>1, PendingFacts, IndexFacts DEF IInv, Types
    <3> QED
      BY <2>1, <3>2, <3>3 DEF IInv, Types
  <2>3. Pending' = Pending
    BY <2>1, <2>2 DEF Pending, Used
  <2> QED
    BY <2>1, <2>3 DEF Channel!vars
<1>2. CASE ~PushStore
  <2>1. UNCHANGED <<slots, writeIndex, readIndex>>
    BY <1>2 DEF PushBegin, PushFull, DrainCopy, ProducerDepthBegin, ProducerDepthEnd,
                ConsumerDepthBegin, ConsumerDepthEnd, vars
  <2>2. Pending' = Pending
    BY <2>1 DEF Pending
  <2>3. Claimed' = Claimed
    <3>1. CASE DrainCopy
      BY <3>1 DEF Claimed, DrainCopy, IInv, Types
    <3>2. CASE ConsumerDepthBegin \/ ConsumerDepthEnd
      <4>1. consumer.pc \in {"idle", "depth"}
        BY <3>2 DEF ConsumerDepthBegin, ConsumerDepthEnd
      <4>2. consumer'.pc \in {"idle", "depth"}
        <5>1. \E pc \in {"idle", "depth"}, write \in {0, writeIndex} :
                consumer' = [pc |-> pc, write |-> write, count |-> 0, out |-> << >>]
          BY <3>2 DEF ConsumerDepthBegin, ConsumerDepthEnd, ConsumerIdle
        <5> QED
          BY <5>1
      <4> QED
        BY <4>1, <4>2 DEF Claimed
    <3>3. CASE UNCHANGED consumer
      BY <3>3 DEF Claimed
    <3> QED
      BY <1>2, <3>1, <3>2, <3>3 DEF PushBegin, PushFull, ProducerDepthBegin, ProducerDepthEnd, vars
  <2> QED
    BY <2>2, <2>3 DEF Channel!vars, Claimed
<1> QED
  BY <1>1, <1>2

\* The ring implements the bounded FIFO channel that MessageQueue and
\* NotificationManager are written against: whatever the two threads are in
\* the middle of, no pointer is lost, overwritten, doubled or reordered.
THEOREM ImplementsChannelHolds == Spec => ImplementsChannel
<1>1. Init => Channel!Init
  <2>1. Minus(0, 0) = 0
    BY IndexFacts DEF Index
  <2> QED
    BY <2>1 DEF Init, Channel!Init, Pending, ConsumerIdle
<1>2. IInv /\ [Next]_vars => [Channel!Next]_(Channel!vars)
  BY PublishIsPush, DrainEndIsRelease, DrainBeginIsClaim, OthersStutter DEF Next, Channel!Next
<1> QED
  BY <1>1, <1>2, IInvIsInvariant, PTL DEF Spec, ImplementsChannel, Channel!Spec

-----------------------------------------------------------------------------
(* The buffer.                                                               *)

\* The two sides agree on the roles of the buffers.
BufferRoles ==
  /\ held = Other(mState.writeBuffer)
  /\ writer.pc = "idle" => mState.writing = 0
  /\ writer.pc = "copy" => mState = Expected /\ writer.size > 0
  /\ reader.pc = "swap" => /\ reader.seen.writeBuffer = mState.writeBuffer
                           /\ mState.updated = 1
                           /\ alone = 1 => writer.pc = "idle"

\* Where the newest complete first byte is.
NewestByte ==
  /\ completed <= writes
  /\ mBuffer[held][1] <= completed
  /\ writer.pc = "idle" => completed = writes
  /\ writer.pc = "idle" /\ mState.updated = 1 => mBuffer[mState.writeBuffer][1] = completed
  /\ mState.updated = 0 => mBuffer[held][1] = completed
  /\ writer.pc = "copy" /\ writer.done > 0 => mBuffer[mState.writeBuffer][1] = writes

BufferInv == TypeOK /\ BufferRoles /\ NewestByte

\* The initial state has the invariant.
LEMMA BufferInvAtFirst == BufferInit => BufferInv
<1> SUFFICES ASSUME BufferInit PROVE BufferInv
  OBVIOUS
<1> USE BufferAssumption
    DEF BufferAssumption, BufferInit, Bit, Buffers, Other, State, States, WriterPCs, ReaderPCs
<1>1. TypeOK
  <2>1. mBuffer \in [Buffers -> [1 .. Cells -> Nat]]
    OBVIOUS
  <2>2. writer \in [pc : WriterPCs, seen : States, size : 0 .. Cells, done : 0 .. Cells]
    OBVIOUS
  <2>3. mState \in States /\ reader \in [pc : ReaderPCs, seen : States]
    OBVIOUS
  <2> QED
    BY <2>1, <2>2, <2>3 DEF TypeOK
<1>2. BufferRoles
  BY DEF BufferRoles, Expected
<1>3. NewestByte
  BY DEF NewestByte
<1> QED
  BY <1>1, <1>2, <1>3 DEF BufferInv

\* Setting the WRITING bit keeps a state a state, and other facts on records
\* that the steps use.
LEMMA BufferStates ==
  /\ \A b \in Buffers, w \in Bit, u \in Bit : State(b, w, u) \in States
  /\ \A s \in States : /\ [s EXCEPT !.writing = 1] = State(s.writeBuffer, 1, s.updated)
                       /\ s = State(s.writeBuffer, s.writing, s.updated)
                       /\ s.writeBuffer \in Buffers
  /\ \A b \in Buffers : Other(b) \in Buffers /\ Other(Other(b)) = b /\ Other(b) # b
  BY DEF State, States, Bit, Buffers, Other

\* Every step of either thread keeps the types.
LEMMA BufferTypes == BufferInv /\ [BufferNext]_bufferVars => TypeOK'
<1> SUFFICES ASSUME BufferInv, [BufferNext]_bufferVars PROVE TypeOK'
  OBVIOUS
<1> USE BufferAssumption DEF BufferAssumption, BufferInv, TypeOK, WriterPCs, ReaderPCs
<1>1. ASSUME NEW size \in 1 .. Cells, WriteBegin(size) PROVE TypeOK'
  <2>1. mState' \in States
    BY <1>1, BufferStates DEF WriteBegin, States, Bit
  <2>2. writer' \in [pc : WriterPCs, seen : States, size : 0 .. Cells, done : 0 .. Cells]
    BY <1>1 DEF WriteBegin
  <2> QED
    BY <1>1, <2>1, <2>2 DEF WriteBegin, Bit
<1>2. CASE WriteCopy
  <2>1. writer.seen.writeBuffer \in Buffers /\ writer.done + 1 \in 1 .. Cells
    BY <1>2 DEF WriteCopy, States, Buffers
  <2>2. mBuffer' \in [Buffers -> [1 .. Cells -> Nat]]
    BY <1>2, <2>1 DEF WriteCopy
  <2>3. writer' \in [pc : WriterPCs, seen : States, size : 0 .. Cells, done : 0 .. Cells]
    <3>1. writer \in [pc : WriterPCs, seen : States, size : 0 .. Cells, done : 0 .. Cells]
      OBVIOUS
    <3>2. writer.done + 1 \in 0 .. Cells /\ writer' = [writer EXCEPT !.done = writer.done + 1]
      BY <1>2, <2>1 DEF WriteCopy
    <3> HIDE DEF BufferInv, TypeOK, BufferAssumption
    <3> QED
      BY <3>1, <3>2
  <2> QED
    BY <1>2, <2>2, <2>3 DEF WriteCopy
<1>3. CASE WriteEnd
  <2>1. mState' \in States
    BY <1>3, BufferStates DEF WriteEnd, States, Bit, Buffers
  <2>2. writer' \in [pc : WriterPCs, seen : States, size : 0 .. Cells, done : 0 .. Cells]
    BY <1>3 DEF WriteEnd
  <2> QED
    BY <1>3, <2>1, <2>2 DEF WriteEnd
<1>4. CASE ReadBegin
  <2>1. reader' \in [pc : ReaderPCs, seen : States]
    BY <1>4 DEF ReadBegin
  <2>2. held' \in Buffers
    BY <1>4, BufferStates DEF ReadBegin
  <2> QED
    BY <1>4, <2>1, <2>2 DEF ReadBegin, Bit
<1>5. CASE ReadSwap
  <2>1. mState' \in States /\ held' \in Buffers
    BY <1>5, BufferStates, ZenonT(30) DEF ReadSwap, Bit, Buffers
  <2>2. reader' \in [pc : ReaderPCs, seen : States]
    BY <1>5 DEF ReadSwap
  <2> QED
    BY <1>5, <2>1, <2>2 DEF ReadSwap
<1>6. CASE UNCHANGED bufferVars
  BY <1>6 DEF bufferVars
<1> QED
  BY <1>1, <1>2, <1>3, <1>4, <1>5, <1>6 DEF BufferNext

\* Every step of either thread keeps the roles of the buffers.
LEMMA BufferRolesStep == BufferInv /\ [BufferNext]_bufferVars => BufferRoles'
<1> SUFFICES ASSUME BufferInv, [BufferNext]_bufferVars PROVE BufferRoles'
  OBVIOUS
<1> USE BufferAssumption DEF BufferAssumption, BufferInv, TypeOK, BufferRoles, Bit, Buffers, Other, State, States, WriterPCs,
        ReaderPCs, Expected
<1>1. ASSUME NEW size \in 1 .. Cells, WriteBegin(size) PROVE BufferRoles'
  BY <1>1 DEF WriteBegin
<1>2. CASE WriteCopy
  BY <1>2 DEF WriteCopy
<1>3. CASE WriteEnd
  BY <1>3 DEF WriteEnd
<1>4. CASE ReadBegin
  BY <1>4 DEF ReadBegin
<1>5. CASE ReadSwap
  BY <1>5 DEF ReadSwap
<1>6. CASE UNCHANGED bufferVars
  BY <1>6 DEF bufferVars
<1> QED
  BY <1>1, <1>2, <1>3, <1>4, <1>5, <1>6 DEF BufferNext

\* Both buffers have a first byte, and the reader and the writer name
\* different buffers.
LEMMA FirstByte ==
  ASSUME BufferInv
  PROVE  /\ writes \in Nat /\ completed \in Nat
         /\ \A b \in Buffers : mBuffer[b][1] \in Nat
         /\ held \in Buffers /\ mState.writeBuffer \in Buffers /\ held # mState.writeBuffer
<1>1. 1 \in 1 .. Cells
  BY BufferAssumption DEF BufferAssumption
<1>2. \A b \in Buffers : mBuffer[b] \in [1 .. Cells -> Nat]
  BY DEF BufferInv, TypeOK
<1>3. held \in Buffers /\ mState.writeBuffer \in Buffers /\ held # mState.writeBuffer
  BY DEF BufferInv, TypeOK, BufferRoles, States, Buffers, Bit, Other
<1> QED
  BY <1>1, <1>2, <1>3 DEF BufferInv, TypeOK

\* Every step of either thread keeps the account of the newest byte.
LEMMA NewestByteStep == BufferInv /\ [BufferNext]_bufferVars => NewestByte'
<1> SUFFICES ASSUME BufferInv, [BufferNext]_bufferVars PROVE NewestByte'
  OBVIOUS
<1>a. /\ writes \in Nat /\ completed \in Nat
      /\ \A b \in Buffers : mBuffer[b][1] \in Nat
      /\ held \in Buffers /\ mState.writeBuffer \in Buffers /\ held # mState.writeBuffer
  BY FirstByte
<1> USE DEF BufferInv, BufferRoles, NewestByte, Expected
<1>1. ASSUME NEW size \in 1 .. Cells, WriteBegin(size) PROVE NewestByte'
  <2>1. mState'.writeBuffer = mState.writeBuffer /\ mState'.updated = mState.updated
    BY <1>1 DEF WriteBegin, TypeOK, States
  <2> QED
    BY <1>1, <1>a, <2>1 DEF WriteBegin
<1>2. CASE WriteCopy
  <2>1. writer.pc = "copy" /\ writer.seen.writeBuffer = mState.writeBuffer
    BY <1>2 DEF WriteCopy, TypeOK, States
  <2>2. mBuffer'[held] = mBuffer[held]
    BY <1>2, <1>a, <2>1 DEF WriteCopy, TypeOK, Buffers, Bit
  <2>3. mBuffer'[mState.writeBuffer][1] = writes
    <3>1. CASE writer.done = 0
      BY <1>2, <1>a, <2>1, <3>1, BufferAssumption DEF BufferAssumption, WriteCopy, TypeOK
    <3>2. CASE writer.done > 0
      BY <1>2, <1>a, <2>1, <3>2, BufferAssumption DEF BufferAssumption, WriteCopy, TypeOK
    <3> QED
      BY <3>1, <3>2 DEF TypeOK
  <2> QED
    BY <1>2, <1>a, <2>1, <2>2, <2>3 DEF WriteCopy
<1>3. CASE WriteEnd
  <2>1. writer.seen.writeBuffer = mState.writeBuffer /\ writer.done > 0
    BY <1>3 DEF WriteEnd, TypeOK, States
  <2> QED
    BY <1>3, <1>a, <2>1 DEF WriteEnd, State
<1>4. CASE ReadBegin
  <2>1. held' = held
    BY <1>4 DEF ReadBegin
  <2> QED
    BY <1>4, <1>a, <2>1 DEF ReadBegin
<1>5. CASE ReadSwap
  <2>1. CASE mState = State(reader.seen.writeBuffer, 0, 1)
    <3>1. /\ mState.writeBuffer = reader.seen.writeBuffer /\ mState.writing = 0
          /\ mState.updated = 1 /\ writer.pc # "copy"
      BY <2>1 DEF State, TypeOK, States
    <3>2. held' = mState.writeBuffer /\ mState'.updated = 0
      BY <1>5, <2>1, <3>1 DEF ReadSwap, State
    <3>3. writer.pc = "idle"
      BY <3>1 DEF TypeOK, WriterPCs
    <3> QED
      BY <1>5, <1>a, <3>1, <3>2, <3>3 DEF ReadSwap
  <2>2. CASE mState # State(reader.seen.writeBuffer, 0, 1)
    BY <1>5, <1>a, <2>2 DEF ReadSwap
  <2> QED
    BY <2>1, <2>2
<1>6. CASE UNCHANGED bufferVars
  BY <1>6 DEF bufferVars
<1> QED
  BY <1>1, <1>2, <1>3, <1>4, <1>5, <1>6 DEF BufferNext

\* The invariant holds in every behaviour.
LEMMA BufferInvHolds == BufferSpec => []BufferInv
<1>1. BufferInv /\ [BufferNext]_bufferVars => BufferInv'
  BY BufferTypes, BufferRolesStep, NewestByteStep DEF BufferInv
<1> QED
  BY BufferInvAtFirst, <1>1, PTL DEF BufferSpec

\* The buffer a Read returned is never the one a Write fills.
THEOREM ReaderNeverMeetsWriterHolds == BufferSpec => []ReaderNeverMeetsWriter
<1>1. BufferInv => ReaderNeverMeetsWriter
  BY DEF BufferInv, TypeOK, BufferRoles, Expected, ReaderNeverMeetsWriter, States, Bit, Buffers, Other
<1> QED
  BY BufferInvHolds, <1>1, PTL

\* The compare-and-swap that ends a Write always succeeds.
THEOREM WriteAlwaysPublishesHolds == BufferSpec => []WriteAlwaysPublishes
<1>1. BufferInv => WriteAlwaysPublishes
  BY DEF BufferInv, BufferRoles, WriteAlwaysPublishes
<1> QED
  BY BufferInvHolds, <1>1, PTL

\* What a Read returned is stable as long as it is held.
THEOREM HeldIsStableHolds == BufferSpec => HeldIsStable
<1>1. BufferInv /\ [BufferNext]_bufferVars => [held' = held => mBuffer'[held] = mBuffer[held]]_bufferVars
  <2> SUFFICES ASSUME BufferInv, BufferNext PROVE mBuffer'[held] = mBuffer[held]
    BY DEF bufferVars
  <2>1. CASE WriteCopy
    BY <2>1 DEF BufferInv, TypeOK, BufferRoles, WriteCopy, Expected, States, Bit, Buffers, Other
  <2> QED
    BY <2>1 DEF BufferNext, WriteBegin, WriteEnd, ReadBegin, ReadSwap
<1> QED
  BY BufferInvHolds, <1>1, PTL DEF BufferSpec, HeldIsStable

\* A Read that no Write overlapped returns the newest Write.
THEOREM UndisturbedReadIsFreshHolds == BufferSpec => UndisturbedReadIsFresh
<1>1. BufferInv /\ [BufferNext]_bufferVars => [Returns /\ alone' = 1 => mBuffer'[held'][1] = completed]_bufferVars
  <2> SUFFICES ASSUME BufferInv, Returns, alone' = 1 PROVE mBuffer'[held'][1] = completed
    OBVIOUS
  <2> USE DEF BufferInv, TypeOK, BufferRoles, NewestByte, Bit, Buffers, Other, State, States, WriterPCs,
              ReaderPCs, Expected
  <2>1. CASE ReadBegin /\ mState.updated = 0
    BY <2>1 DEF ReadBegin
  <2>2. CASE ReadSwap
    BY <2>2 DEF ReadSwap
  <2> QED
    BY <2>1, <2>2 DEF Returns
<1> QED
  BY BufferInvHolds, <1>1, PTL DEF BufferSpec, UndisturbedReadIsFresh

\* A later Read never returns an older Write than an earlier one did.
THEOREM ReadsAreMonotonicHolds == BufferSpec => ReadsAreMonotonic
<1>1. BufferInv /\ [BufferNext]_bufferVars => [mBuffer'[held'][1] >= mBuffer[held][1]]_bufferVars
  <2> SUFFICES ASSUME BufferInv, BufferNext PROVE mBuffer'[held'][1] >= mBuffer[held][1]
    OBVIOUS
  <2>a. /\ \A b \in Buffers : mBuffer[b][1] \in Nat
        /\ held \in Buffers /\ mState.writeBuffer \in Buffers /\ held # mState.writeBuffer
    BY FirstByte
  <2>1. CASE ReadSwap
    <3>1. CASE mState = State(reader.seen.writeBuffer, 0, 1)
      <4>1. /\ held' = mState.writeBuffer /\ mState.updated = 1 /\ mState.writing = 0
            /\ mBuffer' = mBuffer
        BY <2>1, <3>1 DEF ReadSwap, State
      <4>2. writer.pc = "idle"
        BY <4>1 DEF BufferInv, TypeOK, BufferRoles, Expected, States, WriterPCs
      <4> QED
        BY <4>1, <4>2, <2>a DEF BufferInv, TypeOK, NewestByte
    <3>2. CASE mState # State(reader.seen.writeBuffer, 0, 1)
      <4>1. held' = held /\ mBuffer' = mBuffer
        BY <2>1, <3>2 DEF ReadSwap, BufferInv, BufferRoles
      <4> QED
        BY <4>1, <2>a
    <3> QED
      BY <3>1, <3>2
  <2>2. CASE WriteCopy
    <3>1. writer.seen.writeBuffer = mState.writeBuffer
      BY <2>2 DEF WriteCopy, BufferInv, BufferRoles, Expected, TypeOK, States
    <3>2. mBuffer'[held] = mBuffer[held] /\ held' = held
      BY <2>2, <3>1, <2>a DEF WriteCopy, BufferInv, TypeOK
    <3> QED
      BY <3>2, <2>a
  <2>3. CASE ReadBegin
    <3>1. held' = held /\ mBuffer' = mBuffer
      BY <2>3 DEF ReadBegin, BufferInv, BufferRoles
    <3> QED
      BY <3>1, <2>a
  <2>4. ASSUME NEW size \in 1 .. Cells, WriteBegin(size) \/ WriteEnd
        PROVE mBuffer'[held'][1] >= mBuffer[held][1]
    <3>1. held' = held /\ mBuffer' = mBuffer
      BY <2>4 DEF WriteBegin, WriteEnd
    <3> QED
      BY <3>1, <2>a
  <2> QED
    BY <2>1, <2>2, <2>3, <2>4, BufferAssumption DEF BufferNext, BufferAssumption
<1> QED
  BY BufferInvHolds, <1>1, PTL DEF BufferSpec, ReadsAreMonotonic

-----------------------------------------------------------------------------
(***************************************************************************)
(* A doubly linked list of places, away from the pool: behind[i] are the   *)
(* places of the list that come after i.                                   *)
(***************************************************************************)
IsFirst(i, part, L, behind) ==
  \/ i = INVALID_INDEX /\ part = {}
  \/ i \in L /\ i \in part /\ \A j \in part : j = i \/ j \in behind[i]
IsLast(i, part, L, behind) ==
  \/ i = INVALID_INDEX /\ part = {}
  \/ i \in L /\ i \in part /\ \A j \in part : j = i \/ i \in behind[j]

Ahead(i, L, behind) == {j \in L : i \in behind[j]}

StrictOrder(L, behind) ==
  /\ behind \in [L -> SUBSET L]
  /\ \A i, j \in L : j \in behind[i] => i # j /\ i \notin behind[j]
  /\ \A i, j \in L : i = j \/ i \in behind[j] \/ j \in behind[i]
  /\ \A i, j, k \in L : j \in behind[i] /\ k \in behind[j] => k \in behind[i]

Linked(L, behind, next, prev, head, tail) ==
  /\ StrictOrder(L, behind)
  /\ IsFirst(head, L, L, behind) /\ IsLast(tail, L, L, behind)
  /\ \A i \in L : /\ IsFirst(next[i], behind[i], L, behind)
                  /\ IsLast(prev[i], Ahead(i, L, behind), L, behind)

\* Place i is linked behind the last place of the list.
LinksBehind(i, L, next, prev, head, tail, next2, prev2, head2, tail2) ==
  /\ i \notin L /\ i # INVALID_INDEX
  /\ \A j \in L : /\ prev2[j] = prev[j]
                  /\ next2[j] = IF j = tail THEN i ELSE next[j]
  /\ next2[i] = INVALID_INDEX /\ prev2[i] = tail /\ tail2 = i
  /\ head2 = IF tail = INVALID_INDEX THEN i ELSE head

\* The order of the places, and i behind them all.
Lengthened(i, L, behind) == [j \in L \cup {i} |-> IF j = i THEN {} ELSE behind[j] \cup {i}]

\* AppendToEmitList: the new place is behind all others.
LEMMA LinkedAppend ==
  ASSUME NEW L, NEW behind, NEW next, NEW prev, NEW head, NEW tail, INVALID_INDEX \notin L,
         Linked(L, behind, next, prev, head, tail),
         NEW i, NEW next2, NEW prev2, NEW head2, NEW tail2,
         LinksBehind(i, L, next, prev, head, tail, next2, prev2, head2, tail2)
  PROVE  Linked(L \cup {i}, Lengthened(i, L, behind), next2, prev2, head2, tail2)
<1> USE DEF LinksBehind
<1> DEFINE M == L \cup {i}
           b == Lengthened(i, L, behind)
<1>1. /\ b \in [M -> SUBSET M] /\ b[i] = {}
      /\ \A j \in L : b[j] = behind[j] \cup {i} /\ behind[j] \subseteq L
  BY DEF Linked, StrictOrder, Lengthened
<1> HIDE DEF b
<1>2. StrictOrder(M, b)
  BY <1>1 DEF Linked, StrictOrder
<1>3. IsFirst(head2, M, M, b) /\ IsLast(tail2, M, M, b)
  BY <1>1 DEF Linked, IsFirst, IsLast
<1>4. ASSUME NEW j \in M PROVE IsFirst(next2[j], b[j], M, b)
  <2>1. CASE j = i
    BY <2>1, <1>1 DEF IsFirst
  <2>2. CASE j # i /\ j = tail
    <3>1. behind[j] = {}
      BY <2>2, <1>1 DEF Linked, IsLast, StrictOrder
    <3> QED
      BY <2>2, <3>1, <1>1 DEF IsFirst
  <2>3. CASE j # i /\ j # tail
    <3>1. j \in L /\ IsFirst(next[j], behind[j], L, behind) /\ next2[j] = next[j]
      BY <2>3 DEF Linked
    <3>2. tail \in behind[j]
      BY <2>3, <3>1 DEF Linked, IsLast
    <3> QED
      BY <3>1, <3>2, <1>1 DEF IsFirst
  <2> QED
    BY <2>1, <2>2, <2>3
<1>5. ASSUME NEW j \in M PROVE IsLast(prev2[j], Ahead(j, M, b), M, b)
  <2>1. CASE j = i
    <3>1. Ahead(j, M, b) = L
      BY <2>1, <1>1 DEF Ahead
    <3>2. prev2[j] = tail /\ IsLast(tail, L, L, behind)
      BY <2>1 DEF Linked
    <3>3. IsLast(tail, L, M, b)
      BY <1>1, <3>2 DEF IsLast
    <3> QED
      BY <3>1, <3>2, <3>3
  <2>2. CASE j # i
    <3>1. Ahead(j, M, b) = Ahead(j, L, behind) /\ Ahead(j, L, behind) \subseteq L
      BY <2>2, <1>1 DEF Ahead
    <3>2. j \in L /\ IsLast(prev[j], Ahead(j, L, behind), L, behind) /\ prev2[j] = prev[j]
      BY <2>2 DEF Linked
    <3> QED
      BY <3>1, <3>2, <1>1 DEF IsLast
  <2> QED
    BY <2>1, <2>2
<1> QED
  BY <1>2, <1>3, <1>4, <1>5 DEF Linked, b

\* UnlinkFromEmitList: the others stay in their order.
LEMMA LinkedUnlink ==
  ASSUME NEW L, NEW behind, NEW next, NEW prev, NEW head, NEW tail, INVALID_INDEX \notin L,
         Linked(L, behind, next, prev, head, tail),
         NEW i \in L, NEW next2, NEW prev2, NEW head2, NEW tail2,
         \A j \in L \ {i} : next2[j] = IF j = prev[i] THEN next[i] ELSE next[j],
         \A j \in L \ {i} : prev2[j] = IF j = next[i] THEN prev[i] ELSE prev[j],
         head2 = IF prev[i] = INVALID_INDEX THEN next[i] ELSE head,
         tail2 = IF next[i] = INVALID_INDEX THEN prev[i] ELSE tail,
         NEW b, b = [j \in L \ {i} |-> behind[j] \ {i}]
  PROVE  Linked(L \ {i}, b, next2, prev2, head2, tail2)
<1> DEFINE M == L \ {i}
<1>1. /\ b \in [M -> SUBSET M] /\ M \subseteq L /\ \A j \in M : b[j] = behind[j] \ {i}
      /\ \A j \in L : behind[j] \subseteq L
  BY DEF Linked, StrictOrder
<1>2. StrictOrder(M, b)
  BY <1>1 DEF Linked, StrictOrder
<1>3. IsFirst(next[i], behind[i], L, behind) /\ IsLast(prev[i], Ahead(i, L, behind), L, behind)
  BY DEF Linked
<1>4. /\ StrictOrder(L, behind) /\ IsFirst(head, L, L, behind) /\ IsLast(tail, L, L, behind)
      /\ \A j \in M : j = i \/ j \in behind[i] \/ i \in behind[j]
  BY DEF Linked, StrictOrder
<1>5. IsFirst(head2, M, M, b)
  BY <1>1, <1>3, <1>4 DEF IsFirst, IsLast, Ahead, StrictOrder
<1>6. IsLast(tail2, M, M, b)
  BY <1>1, <1>3, <1>4 DEF IsFirst, IsLast, Ahead, StrictOrder
<1>7. ASSUME NEW j \in M PROVE IsFirst(next2[j], b[j], M, b)
  <2>1. IsFirst(next[j], behind[j], L, behind)
    BY <1>1 DEF Linked
  <2>2. CASE j = prev[i]
    BY <2>1, <2>2, <1>1, <1>3, <1>4 DEF IsFirst, IsLast, Ahead, StrictOrder
  <2>3. CASE j # prev[i]
    BY <2>1, <2>3, <1>1, <1>3, <1>4 DEF IsFirst, IsLast, Ahead, StrictOrder
  <2> QED
    BY <2>2, <2>3
<1>8. ASSUME NEW j \in M PROVE IsLast(prev2[j], Ahead(j, M, b), M, b)
  <2>1. IsLast(prev[j], Ahead(j, L, behind), L, behind)
    BY <1>1 DEF Linked
  <2>2. Ahead(j, M, b) = Ahead(j, L, behind) \ {i}
    BY <1>1 DEF Ahead
  <2>3. CASE j = next[i]
    BY <2>1, <2>2, <2>3, <1>1, <1>3, <1>4 DEF IsFirst, IsLast, Ahead, StrictOrder
  <2>4. CASE j # next[i]
    BY <2>1, <2>2, <2>4, <1>1, <1>3, <1>4 DEF IsFirst, IsLast, Ahead, StrictOrder
  <2> QED
    BY <2>3, <2>4
<1> QED
  BY <1>2, <1>5, <1>6, <1>7, <1>8 DEF Linked

-----------------------------------------------------------------------------
(***************************************************************************)
(* The pool.                                                               *)
(***************************************************************************)
PoolNode == [slot : Slots \cup {None}, next : Int, prev : Int]

Pool == [node : Seq(PoolNode), free : Seq(Nat), head : Int, tail : Int, active : Nat,
         nulls : Nat, emitting : BOOLEAN, hasCache : BOOLEAN, cache : SUBSET (Slots \X Nat)]

\* The fields that the links do not touch.
SameBooks(q, r) == /\ r.active = q.active /\ r.nulls = q.nulls /\ r.emitting = q.emitting
                   /\ r.hasCache = q.hasCache /\ r.cache = q.cache

LEMMA NodeFacts ==
  ASSUME NEW q \in Pool
  PROVE  /\ Len(q.node) \in Nat /\ Places(q) \subseteq Nat /\ INVALID_INDEX \notin Places(q)
         /\ INVALID_INDEX \in Int
         /\ \A i \in Places(q) : /\ i + 1 \in 1 .. Len(q.node) /\ At(q, i) = q.node[i + 1]
                                 /\ At(q, i) \in PoolNode
  BY DEF Pool, Places, At, INVALID_INDEX

\* One node of the pool changes.
LEMMA PoolChanges ==
  ASSUME NEW q \in Pool, NEW i \in Places(q), NEW x \in PoolNode, NEW r,
         r = [q EXCEPT !.node[i + 1] = x]
  PROVE  /\ r \in Pool /\ Len(r.node) = Len(q.node) /\ Places(r) = Places(q) /\ SameBooks(q, r)
         /\ r.free = q.free /\ r.head = q.head /\ r.tail = q.tail
         /\ \A j \in Places(q) : At(r, j) = IF j = i THEN x ELSE At(q, j)
<1>1. /\ q.node \in Seq(PoolNode) /\ Len(q.node) \in Nat /\ i + 1 \in 1 .. Len(q.node)
      /\ Places(q) \subseteq Nat /\ \A j \in Places(q) : j + 1 \in 1 .. Len(q.node)
  BY NodeFacts DEF Pool
<1> DEFINE node == [q.node EXCEPT ![i + 1] = x]
<1>2. /\ node \in Seq(PoolNode) /\ Len(node) = Len(q.node)
      /\ \A k \in 1 .. Len(q.node) : node[k] = IF k = i + 1 THEN x ELSE q.node[k]
  BY <1>1
<1>3. r = [q EXCEPT !.node = node]
  BY DEF Pool
<1> HIDE DEF node
<1>4. /\ r \in Pool /\ r.node = node /\ SameBooks(q, r)
      /\ r.free = q.free /\ r.head = q.head /\ r.tail = q.tail
  BY <1>2, <1>3 DEF Pool, SameBooks
<1>5. ASSUME NEW j \in Places(q) PROVE At(r, j) = IF j = i THEN x ELSE At(q, j)
  <2>1. j + 1 \in 1 .. Len(q.node) /\ (j + 1 = i + 1 <=> j = i)
    BY <1>1
  <2> QED
    BY <2>1, <1>2, <1>4 DEF At
<1> QED
  BY <1>2, <1>4, <1>5 DEF Places

LEMMA NextSet ==
  ASSUME NEW q \in Pool, NEW p \in Places(q) \cup {INVALID_INDEX}, NEW n \in Int
  PROVE  LET r == SetNext(q, p, n)
         IN  /\ r \in Pool /\ Len(r.node) = Len(q.node) /\ Places(r) = Places(q) /\ SameBooks(q, r)
             /\ r.free = q.free /\ r.tail = q.tail
             /\ r.head = IF p = INVALID_INDEX THEN n ELSE q.head
             /\ \A j \in Places(q) : /\ At(r, j).slot = At(q, j).slot /\ At(r, j).prev = At(q, j).prev
                                     /\ At(r, j).next = IF j = p THEN n ELSE At(q, j).next
<1> DEFINE r == SetNext(q, p, n)
<1>1. CASE p = INVALID_INDEX
  <2>1. r = [q EXCEPT !.head = n] /\ p \notin Places(q)
    BY <1>1, NodeFacts DEF SetNext
  <2> HIDE DEF r
  <2>2. /\ r \in Pool /\ r.node = q.node /\ r.free = q.free /\ r.tail = q.tail /\ r.head = n
        /\ SameBooks(q, r)
    BY <2>1 DEF Pool, SameBooks
  <2>3. /\ Places(r) = Places(q) /\ \A j : At(r, j) = At(q, j)
    BY <2>2 DEF Places, At
  <2> QED
    BY <1>1, <2>1, <2>2, <2>3 DEF r
<1>2. CASE p # INVALID_INDEX
  <2>1. PICK x : x = [At(q, p) EXCEPT !.next = n]
    OBVIOUS
  <2>2. p \in Places(q) /\ At(q, p) \in PoolNode /\ At(q, p) = q.node[p + 1]
    BY <1>2, NodeFacts
  <2>3. r = [q EXCEPT !.node[p + 1] = x]
    BY <1>2, <2>1, <2>2 DEF SetNext
  <2>4. x \in PoolNode /\ x.next = n /\ x.slot = At(q, p).slot /\ x.prev = At(q, p).prev
    BY <2>1, <2>2 DEF PoolNode
  <2> HIDE DEF r
  <2>5. /\ r \in Pool /\ Len(r.node) = Len(q.node) /\ Places(r) = Places(q) /\ SameBooks(q, r)
        /\ r.free = q.free /\ r.head = q.head /\ r.tail = q.tail
        /\ \A j \in Places(q) : At(r, j) = IF j = p THEN x ELSE At(q, j)
    BY <2>2, <2>3, <2>4, PoolChanges
  <2> QED
    BY <1>2, <2>4, <2>5 DEF r
<1> QED
  BY <1>1, <1>2

LEMMA PrevSet ==
  ASSUME NEW q \in Pool, NEW n \in Places(q) \cup {INVALID_INDEX}, NEW p \in Int
  PROVE  LET r == SetPrev(q, n, p)
         IN  /\ r \in Pool /\ Len(r.node) = Len(q.node) /\ Places(r) = Places(q) /\ SameBooks(q, r)
             /\ r.free = q.free /\ r.head = q.head
             /\ r.tail = IF n = INVALID_INDEX THEN p ELSE q.tail
             /\ \A j \in Places(q) : /\ At(r, j).slot = At(q, j).slot /\ At(r, j).next = At(q, j).next
                                     /\ At(r, j).prev = IF j = n THEN p ELSE At(q, j).prev
<1> DEFINE r == SetPrev(q, n, p)
<1>1. CASE n = INVALID_INDEX
  <2>1. r = [q EXCEPT !.tail = p] /\ n \notin Places(q)
    BY <1>1, NodeFacts DEF SetPrev
  <2> HIDE DEF r
  <2>2. /\ r \in Pool /\ r.node = q.node /\ r.free = q.free /\ r.head = q.head /\ r.tail = p
        /\ SameBooks(q, r)
    BY <2>1 DEF Pool, SameBooks
  <2>3. /\ Places(r) = Places(q) /\ \A j : At(r, j) = At(q, j)
    BY <2>2 DEF Places, At
  <2> QED
    BY <1>1, <2>1, <2>2, <2>3 DEF r
<1>2. CASE n # INVALID_INDEX
  <2>1. PICK x : x = [At(q, n) EXCEPT !.prev = p]
    OBVIOUS
  <2>2. n \in Places(q) /\ At(q, n) \in PoolNode /\ At(q, n) = q.node[n + 1]
    BY <1>2, NodeFacts
  <2>3. r = [q EXCEPT !.node[n + 1] = x]
    BY <1>2, <2>1, <2>2 DEF SetPrev
  <2>4. x \in PoolNode /\ x.prev = p /\ x.slot = At(q, n).slot /\ x.next = At(q, n).next
    BY <2>1, <2>2 DEF PoolNode
  <2> HIDE DEF r
  <2>5. /\ r \in Pool /\ Len(r.node) = Len(q.node) /\ Places(r) = Places(q) /\ SameBooks(q, r)
        /\ r.free = q.free /\ r.head = q.head /\ r.tail = q.tail
        /\ \A j \in Places(q) : At(r, j) = IF j = n THEN x ELSE At(q, j)
    BY <2>2, <2>3, <2>4, PoolChanges
  <2> QED
    BY <1>2, <2>4, <2>5 DEF r
<1> QED
  BY <1>1, <1>2

LEMMA UnlinkFacts ==
  ASSUME NEW q \in Pool, NEW i \in Places(q), NEW p, NEW n,
         p = At(q, i).prev, n = At(q, i).next,
         p \in (Places(q) \ {i}) \cup {INVALID_INDEX}, n \in (Places(q) \ {i}) \cup {INVALID_INDEX},
         NEW r, r = UnlinkFromEmitList(q, i)
  PROVE  /\ r \in Pool /\ Len(r.node) = Len(q.node) /\ Places(r) = Places(q) /\ SameBooks(q, r)
         /\ r.free = q.free
         /\ \A j \in Places(q) : At(r, j).slot = At(q, j).slot
         /\ \A j \in Places(q) \ {i} :
              /\ At(r, j).next = IF j = p THEN n ELSE At(q, j).next
              /\ At(r, j).prev = IF j = n THEN p ELSE At(q, j).prev
         /\ r.head = IF p = INVALID_INDEX THEN n ELSE q.head
         /\ r.tail = IF n = INVALID_INDEX THEN p ELSE q.tail
<1> DEFINE a == SetNext(q, p, n)
           b == SetPrev(a, n, p)
           c == SetPrev(b, i, INVALID_INDEX)
<1>1. r = SetNext(c, i, INVALID_INDEX)
  BY DEF UnlinkFromEmitList
<1>2. /\ p \in Int /\ n \in Int /\ INVALID_INDEX \in Int /\ i # INVALID_INDEX
      /\ p \in Places(q) \cup {INVALID_INDEX} /\ n \in Places(q) \cup {INVALID_INDEX}
  BY NodeFacts
<1>3. /\ a \in Pool /\ Len(a.node) = Len(q.node) /\ Places(a) = Places(q)
      /\ a.free = q.free /\ SameBooks(q, a) /\ a.tail = q.tail
      /\ a.head = IF p = INVALID_INDEX THEN n ELSE q.head
      /\ \A j \in Places(q) : /\ At(a, j).slot = At(q, j).slot /\ At(a, j).prev = At(q, j).prev
                              /\ At(a, j).next = IF j = p THEN n ELSE At(q, j).next
  BY <1>2, NextSet
<1> HIDE DEF a
<1>4. /\ b \in Pool /\ Len(b.node) = Len(q.node) /\ Places(b) = Places(q)
      /\ b.free = q.free /\ SameBooks(a, b) /\ b.head = a.head
      /\ b.tail = IF n = INVALID_INDEX THEN p ELSE a.tail
      /\ \A j \in Places(q) : /\ At(b, j).slot = At(a, j).slot /\ At(b, j).next = At(a, j).next
                              /\ At(b, j).prev = IF j = n THEN p ELSE At(a, j).prev
  BY <1>2, <1>3, PrevSet
<1> HIDE DEF b
<1>5. /\ c \in Pool /\ Len(c.node) = Len(q.node) /\ Places(c) = Places(q)
      /\ c.free = q.free /\ SameBooks(b, c) /\ c.head = b.head /\ c.tail = b.tail
      /\ \A j \in Places(q) : /\ At(c, j).slot = At(b, j).slot /\ At(c, j).next = At(b, j).next
                              /\ j # i => At(c, j).prev = At(b, j).prev
  BY <1>2, <1>4, PrevSet
<1> HIDE DEF c
<1>6. /\ r \in Pool /\ Len(r.node) = Len(q.node) /\ Places(r) = Places(q)
      /\ r.free = q.free /\ SameBooks(c, r) /\ r.head = c.head /\ r.tail = c.tail
      /\ \A j \in Places(q) : /\ At(r, j).slot = At(c, j).slot /\ At(r, j).prev = At(c, j).prev
                              /\ j # i => At(r, j).next = At(c, j).next
  BY <1>1, <1>2, <1>5, NextSet
<1>7. SameBooks(q, r)
  BY <1>3, <1>4, <1>5, <1>6 DEF SameBooks
<1> QED
  BY <1>3, <1>4, <1>5, <1>6, <1>7

LEMMA AppendLinks ==
  ASSUME NEW q \in Pool, NEW i \in Places(q), q.tail \in (Places(q) \ {i}) \cup {INVALID_INDEX},
         NodeToIndex(i) = i, NEW r, r = AppendToEmitList(q, i)
  PROVE  /\ r \in Pool /\ Len(r.node) = Len(q.node) /\ Places(r) = Places(q) /\ SameBooks(q, r)
         /\ r.free = q.free
         /\ \A j \in Places(q) : At(r, j).slot = At(q, j).slot
         /\ \A j \in Places(q) \ {i} : /\ At(r, j).next = IF j = q.tail THEN i ELSE At(q, j).next
                                      /\ At(r, j).prev = At(q, j).prev
         /\ At(r, i).next = INVALID_INDEX /\ At(r, i).prev = q.tail
         /\ r.head = IF q.tail = INVALID_INDEX THEN i ELSE q.head
         /\ r.tail = i
<1> DEFINE a == SetPrev(q, i, q.tail)
           b == SetNext(a, i, INVALID_INDEX)
           c == SetNext(b, q.tail, i)
<1>1. r = SetPrev(c, INVALID_INDEX, i)
  BY DEF AppendToEmitList
<1>2. /\ INVALID_INDEX \in Int /\ i # INVALID_INDEX /\ i \in Int /\ q.tail \in Int
      /\ q.tail \in Places(q) \cup {INVALID_INDEX} /\ q.tail # i
  BY NodeFacts
<1>3. /\ a \in Pool /\ Len(a.node) = Len(q.node) /\ Places(a) = Places(q)
      /\ a.free = q.free /\ SameBooks(q, a) /\ a.tail = q.tail /\ a.head = q.head
      /\ \A j \in Places(q) : /\ At(a, j).slot = At(q, j).slot /\ At(a, j).next = At(q, j).next
                              /\ At(a, j).prev = IF j = i THEN q.tail ELSE At(q, j).prev
  BY <1>2, PrevSet
<1> HIDE DEF a
<1>4. /\ b \in Pool /\ Len(b.node) = Len(q.node) /\ Places(b) = Places(q)
      /\ b.free = q.free /\ SameBooks(a, b) /\ b.head = a.head /\ b.tail = a.tail
      /\ \A j \in Places(q) : /\ At(b, j).slot = At(a, j).slot /\ At(b, j).prev = At(a, j).prev
                              /\ At(b, j).next = IF j = i THEN INVALID_INDEX ELSE At(a, j).next
  BY <1>2, <1>3, NextSet
<1> HIDE DEF b
<1>5. /\ c \in Pool /\ Len(c.node) = Len(q.node) /\ Places(c) = Places(q)
      /\ c.free = q.free /\ SameBooks(b, c) /\ c.tail = b.tail
      /\ c.head = IF q.tail = INVALID_INDEX THEN i ELSE b.head
      /\ \A j \in Places(q) : /\ At(c, j).slot = At(b, j).slot /\ At(c, j).prev = At(b, j).prev
                              /\ At(c, j).next = IF j = q.tail THEN i ELSE At(b, j).next
  BY <1>2, <1>4, NextSet
<1> HIDE DEF c
<1>6. /\ r \in Pool /\ Len(r.node) = Len(q.node) /\ Places(r) = Places(q)
      /\ r.free = q.free /\ SameBooks(c, r) /\ r.head = c.head /\ r.tail = i
      /\ \A j \in Places(q) : /\ At(r, j).slot = At(c, j).slot /\ At(r, j).next = At(c, j).next
                              /\ j # INVALID_INDEX => At(r, j).prev = At(c, j).prev
  BY <1>1, <1>2, <1>5, PrevSet
<1>7. INVALID_INDEX \notin Places(q)
  BY NodeFacts
<1>8. SameBooks(q, r)
  BY <1>3, <1>4, <1>5, <1>6 DEF SameBooks
<1> QED
  BY <1>2, <1>3, <1>4, <1>5, <1>6, <1>7, <1>8

\* The pool of nodes and its free list are apart from the list.
Tidy(q) == /\ q \in Pool /\ NoRepeats(q.free) /\ Elements(q.free) \subseteq Places(q)
           /\ \A i \in Places(q) : At(q, i).slot # None => i \notin Elements(q.free)

Nexts(q) == [i \in InList(q) |-> At(q, i).next]
Prevs(q) == [i \in InList(q) |-> At(q, i).prev]
Orders(q, behind) == Linked(InList(q), behind, Nexts(q), Prevs(q), q.head, q.tail)

LEMMA FreeFacts ==
  ASSUME NEW q, Tidy(q), NEW i \in InList(q), NEW r, r = Free(q, i)
  PROVE  /\ Tidy(r) /\ Len(r.node) = Len(q.node) /\ Places(r) = Places(q) /\ SameBooks(q, r)
         /\ InList(r) = InList(q) \ {i} /\ r.head = q.head /\ r.tail = q.tail
         /\ \A j \in Places(q) : j # i => At(r, j) = At(q, j)
         /\ At(r, i).slot = None
<1>1. q \in Pool /\ i \in Places(q) /\ i \notin Elements(q.free) /\ i \in Nat /\ q.free \in Seq(Nat)
  BY NodeFacts DEF Tidy, InList, Pool
<1>2. PICK x : x = [At(q, i) EXCEPT !.slot = None]
  OBVIOUS
<1>3. At(q, i) \in PoolNode /\ At(q, i) = q.node[i + 1]
  BY <1>1, NodeFacts
<1>4. x \in PoolNode /\ x.slot = None
  BY <1>2, <1>3 DEF PoolNode
<1>5. PICK m : m = [q EXCEPT !.node[i + 1] = x]
  OBVIOUS
<1>6. /\ m \in Pool /\ Len(m.node) = Len(q.node) /\ Places(m) = Places(q) /\ SameBooks(q, m)
      /\ m.free = q.free /\ m.head = q.head /\ m.tail = q.tail
      /\ \A j \in Places(q) : At(m, j) = IF j = i THEN x ELSE At(q, j)
  BY <1>1, <1>4, <1>5, PoolChanges
<1>7. PICK one, free : one = << i >> /\ free = one \o q.free
  OBVIOUS
<1>8. r = [m EXCEPT !.free = free]
  BY <1>1, <1>2, <1>3, <1>5, <1>7 DEF Free, Pool
<1>9. one \in Seq(Nat) /\ Elements(one) = {i} /\ NoRepeats(one)
  <2>1. DOMAIN << i >> = 1 .. 1 /\ << i >>[1] = i /\ 1 .. 1 = {1} /\ << i >> \in Seq(Nat)
    BY <1>1
  <2> QED
    BY <2>1, <1>7 DEF Elements, NoRepeats
<1>10. /\ free \in Seq(Nat) /\ Elements(free) = {i} \cup Elements(q.free) /\ NoRepeats(free)
  <2>1. Elements(one) \cap Elements(q.free) = {} /\ NoRepeats(q.free)
    BY <1>1, <1>9 DEF Tidy
  <2>2. one \in Seq(Nat) /\ q.free \in Seq(Nat) /\ NoRepeats(one)
    BY <1>1, <1>9
  <2>3. /\ one \o q.free \in Seq(Nat) /\ Elements(one \o q.free) = Elements(one) \cup Elements(q.free)
        /\ NoRepeats(one \o q.free)
    BY <2>1, <2>2, ConcatFacts
  <2> QED
    BY <1>7, <1>9, <2>3
<1>11. /\ r \in Pool /\ r.node = m.node /\ r.free = free /\ SameBooks(m, r)
       /\ r.head = m.head /\ r.tail = m.tail
  BY <1>6, <1>8, <1>10 DEF Pool, SameBooks
<1>12. Places(r) = Places(m) /\ (\A j : At(r, j) = At(m, j)) /\ SameBooks(q, r)
  BY <1>6, <1>11 DEF Places, At, SameBooks
<1>13. InList(r) = InList(q) \ {i}
  BY <1>6, <1>10, <1>11, <1>12 DEF InList
<1>14. Tidy(r)
  BY <1>1, <1>4, <1>6, <1>10, <1>11, <1>12 DEF Tidy
<1> QED
  BY <1>1, <1>4, <1>6, <1>11, <1>12, <1>13, <1>14

LEMMA LinkOfList ==
  ASSUME NEW q, Tidy(q), NEW behind, Orders(q, behind), NEW i \in InList(q)
  PROVE  /\ At(q, i).next \in (InList(q) \ {i}) \cup {INVALID_INDEX}
         /\ At(q, i).prev \in (InList(q) \ {i}) \cup {INVALID_INDEX}
         /\ q.head \in InList(q) /\ q.tail \in InList(q)
<1>1. /\ Nexts(q)[i] = At(q, i).next /\ Prevs(q)[i] = At(q, i).prev
  BY DEF Nexts, Prevs
<1> QED
  BY <1>1 DEF Orders, Linked, StrictOrder, IsFirst, IsLast, Ahead

\* The order of the places but i.
Without(i, L, behind) == [j \in L \ {i} |-> behind[j] \ {i}]

\* A place is taken out of the list and put into the free list.
LEMMA Releases ==
  ASSUME NEW q, Tidy(q), NEW behind, Orders(q, behind), NEW i \in InList(q),
         NEW r, r = Free(UnlinkFromEmitList(q, i), i),
         NEW b, b = Without(i, InList(q), behind)
  PROVE  /\ Tidy(r) /\ Len(r.node) = Len(q.node) /\ Places(r) = Places(q) /\ SameBooks(q, r)
         /\ InList(r) = InList(q) \ {i}
         /\ \A j \in Places(q) : At(r, j).slot = IF j = i THEN None ELSE At(q, j).slot
         /\ Orders(r, b)
<1> DEFINE m == UnlinkFromEmitList(q, i)
           p == At(q, i).prev
           n == At(q, i).next
<1>1. q \in Pool /\ InList(q) \subseteq Places(q)
  BY DEF Tidy, InList
<1>2. /\ p \in (Places(q) \ {i}) \cup {INVALID_INDEX} /\ n \in (Places(q) \ {i}) \cup {INVALID_INDEX}
  BY <1>1, LinkOfList
<1>3. /\ m \in Pool /\ Len(m.node) = Len(q.node) /\ Places(m) = Places(q) /\ SameBooks(q, m)
      /\ m.free = q.free
      /\ \A j \in Places(q) : At(m, j).slot = At(q, j).slot
      /\ \A j \in Places(q) \ {i} : /\ At(m, j).next = IF j = p THEN n ELSE At(q, j).next
                                    /\ At(m, j).prev = IF j = n THEN p ELSE At(q, j).prev
      /\ m.head = IF p = INVALID_INDEX THEN n ELSE q.head
      /\ m.tail = IF n = INVALID_INDEX THEN p ELSE q.tail
  BY <1>1, <1>2, UnlinkFacts
<1> HIDE DEF m
<1>4. Tidy(m) /\ InList(m) = InList(q)
  BY <1>3 DEF Tidy, InList
<1>5. /\ Tidy(r) /\ Len(r.node) = Len(m.node) /\ Places(r) = Places(m) /\ SameBooks(m, r)
      /\ InList(r) = InList(m) \ {i} /\ r.head = m.head /\ r.tail = m.tail
      /\ \A j \in Places(m) : j # i => At(r, j) = At(m, j)
      /\ At(r, i).slot = None
  BY <1>4, FreeFacts DEF m
<1>6. /\ \A j \in InList(q) \ {i} : /\ Nexts(r)[j] = IF j = Prevs(q)[i] THEN Nexts(q)[i] ELSE Nexts(q)[j]
                                    /\ Prevs(r)[j] = IF j = Nexts(q)[i] THEN Prevs(q)[i] ELSE Prevs(q)[j]
      /\ r.head = IF Prevs(q)[i] = INVALID_INDEX THEN Nexts(q)[i] ELSE q.head
      /\ r.tail = IF Nexts(q)[i] = INVALID_INDEX THEN Prevs(q)[i] ELSE q.tail
  BY <1>1, <1>3, <1>4, <1>5 DEF Nexts, Prevs
<1>7. INVALID_INDEX \notin InList(q) /\ Linked(InList(q), behind, Nexts(q), Prevs(q), q.head, q.tail)
  BY <1>1, NodeFacts DEF Orders
<1>8. Linked(InList(q) \ {i}, b, Nexts(r), Prevs(r), r.head, r.tail)
  BY <1>6, <1>7, LinkedUnlink DEF Without
<1>9. SameBooks(q, r)
  BY <1>3, <1>5 DEF SameBooks
<1> QED
  BY <1>3, <1>4, <1>5, <1>8, <1>9 DEF Orders

LEMMA AllocateFacts ==
  ASSUME NEW q, Tidy(q), NEW slot \in Slots, NEW i, i = Place(q), NEW r, r = Allocate(q, slot)
  PROVE  /\ Tidy(r) /\ SameBooks(q, r) /\ r.head = q.head /\ r.tail = q.tail
         /\ i \notin InList(q) /\ InList(r) = InList(q) \cup {i} /\ i \in Places(r)
         /\ Places(q) \subseteq Places(r) /\ (i \in Places(q) => At(q, i).slot = None)
         /\ Places(r) \subseteq Places(q) \cup {i}
         /\ \A j \in Places(q) : j # i => At(r, j) = At(q, j)
         /\ At(r, i).slot = slot
         /\ Len(r.node) = IF q.free = << >> THEN Len(q.node) + 1 ELSE Len(q.node)
<1>1. /\ q \in Pool /\ q.free \in Seq(Nat) /\ NoRepeats(q.free) /\ Elements(q.free) \subseteq Places(q)
      /\ q.node \in Seq(PoolNode) /\ Len(q.node) \in Nat
  BY DEF Tidy, Pool
<1>2. PICK x : x = [slot |-> slot, next |-> INVALID_INDEX, prev |-> INVALID_INDEX]
  OBVIOUS
<1>3. x \in PoolNode /\ x.slot = slot
  BY <1>2 DEF PoolNode, INVALID_INDEX
<1>4. slot # None
  BY SignalAssumption
<1>5. CASE q.free # << >>
  <2>1. /\ i = Head(q.free) /\ i \in Elements(q.free) /\ Tail(q.free) \in Seq(Nat)
        /\ Elements(q.free) = {i} \cup Elements(Tail(q.free))
        /\ i \notin Elements(Tail(q.free)) /\ NoRepeats(Tail(q.free))
    BY <1>1, <1>5, TailFacts DEF Place
  <2>2. PICK m : m = [q EXCEPT !.node[i + 1] = x]
    OBVIOUS
  <2>3. i \in Places(q)
    BY <1>1, <2>1
  <2>4. /\ m \in Pool /\ Len(m.node) = Len(q.node) /\ Places(m) = Places(q) /\ SameBooks(q, m)
        /\ m.free = q.free /\ m.head = q.head /\ m.tail = q.tail
        /\ \A j \in Places(q) : At(m, j) = IF j = i THEN x ELSE At(q, j)
    BY <1>1, <1>3, <2>2, <2>3, PoolChanges
  <2>5. PICK free : free = Tail(q.free)
    OBVIOUS
  <2>6. r = [m EXCEPT !.free = free]
    BY <1>1, <1>2, <1>5, <2>1, <2>2, <2>5 DEF Allocate, Pool
  <2>7. /\ r \in Pool /\ r.node = m.node /\ r.free = free /\ SameBooks(m, r)
        /\ r.head = m.head /\ r.tail = m.tail
    BY <2>1, <2>4, <2>5, <2>6 DEF Pool, SameBooks
  <2>8. Places(r) = Places(m) /\ (\A j : At(r, j) = At(m, j)) /\ SameBooks(q, r)
    BY <2>4, <2>7 DEF Places, At, SameBooks
  <2>9. InList(r) = InList(q) \cup {i} /\ i \notin InList(q)
    BY <2>1, <2>3, <2>4, <2>5, <2>7, <2>8 DEF InList
  <2>10. Tidy(r)
    BY <1>1, <2>1, <2>3, <2>4, <2>5, <2>7, <2>8 DEF Tidy
  <2>11. At(q, i).slot = None
    BY <2>1, <2>3 DEF Tidy
  <2> QED
    BY <1>3, <1>5, <2>3, <2>4, <2>7, <2>8, <2>9, <2>10, <2>11
<1>6. CASE q.free = << >>
  <2>1. i = Len(q.node) /\ i \notin Places(q) /\ i \in Nat
    BY <1>1, <1>6 DEF Place, Places
  <2>2. PICK node : node = Append(q.node, x)
    OBVIOUS
  <2>3. r = [q EXCEPT !.node = node]
    BY <1>2, <1>6, <2>2 DEF Allocate
  <2>4. /\ node \in Seq(PoolNode) /\ Len(node) = Len(q.node) + 1 /\ node[i + 1] = x
        /\ \A k \in 1 .. Len(q.node) : node[k] = q.node[k]
    BY <1>1, <1>3, <2>1, <2>2
  <2>5. /\ r \in Pool /\ r.node = node /\ r.free = q.free /\ SameBooks(q, r)
        /\ r.head = q.head /\ r.tail = q.tail
    BY <1>1, <2>3, <2>4 DEF Pool, SameBooks
  <2>6. Places(r) = Places(q) \cup {i}
    BY <1>1, <2>1, <2>4, <2>5 DEF Places
  <2>7. At(r, i) = x /\ \A j \in Places(q) : At(r, j) = At(q, j)
    BY <1>1, <2>4, <2>5, NodeFacts DEF At
  <2>8. Elements(q.free) = {}
    BY <1>6 DEF Elements
  <2>9. InList(r) = InList(q) \cup {i} /\ i \notin InList(q)
    BY <2>1, <2>5, <2>6, <2>8 DEF InList
  <2>10. Tidy(r)
    BY <1>1, <2>5, <2>6, <2>8 DEF Tidy
  <2> QED
    BY <1>3, <1>6, <2>1, <2>4, <2>5, <2>6, <2>7, <2>9, <2>10
<1> QED
  BY <1>5, <1>6

\* The list of r is that of q.
SameList(q, r) == r.node = q.node /\ r.free = q.free /\ r.head = q.head /\ r.tail = q.tail

LEMMA SameListFacts ==
  ASSUME NEW q, Tidy(q), NEW r \in Pool, SameList(q, r)
  PROVE  /\ Tidy(r) /\ Len(r.node) = Len(q.node) /\ Places(r) = Places(q) /\ InList(r) = InList(q)
         /\ LiveNodes(r) = LiveNodes(q) /\ Emptied(r) = Emptied(q)
         /\ \A i : At(r, i) = At(q, i)
         /\ \A behind : Orders(q, behind) => Orders(r, behind)
<1>1. Places(r) = Places(q) /\ InList(r) = InList(q) /\ \A i : At(r, i) = At(q, i)
  BY DEF SameList, Places, InList, At
<1>2. Nexts(r) = Nexts(q) /\ Prevs(r) = Prevs(q)
  BY <1>1 DEF Nexts, Prevs
<1>3. LiveNodes(r) = LiveNodes(q) /\ Emptied(r) = Emptied(q)
  BY <1>1 DEF LiveNodes, Emptied, SameList
<1>4. Tidy(r) /\ Len(r.node) = Len(q.node)
  BY <1>1 DEF Tidy, SameList
<1>5. \A behind : Orders(q, behind) => Orders(r, behind)
  BY <1>1, <1>2 DEF Orders, SameList
<1> QED
  BY <1>1, <1>3, <1>4, <1>5

\* A slot is connected once, the cache knows where, and the places count.
Single(q) == \A i, j \in LiveNodes(q) : At(q, i).slot = At(q, j).slot => i = j
Entries(q) == {<< At(q, i).slot, i >> : i \in LiveNodes(q)}
Exact(q) == q.hasCache => q.cache = Entries(q)
Counted(q) == q.active = Cardinality(LiveNodes(q))
Ordered(q) == \E behind : Orders(q, behind)

Base(q) == /\ Tidy(q) /\ Len(q.node) <= IndexLimit /\ Ordered(q)
           /\ Single(q) /\ Exact(q) /\ Counted(q)
Settled(q) == /\ Base(q) /\ q.nulls = Cardinality(Emptied(q))
              /\ ~q.emitting => q.nulls = 0

SlotsOf(q) == {At(q, i).slot : i \in LiveNodes(q)}

LEMMA LiveFacts ==
  ASSUME NEW q, Tidy(q)
  PROVE  /\ LiveNodes(q) \subseteq InList(q) /\ LiveNodes(q) \subseteq Places(q)
         /\ LiveNodes(q) = {i \in Places(q) : At(q, i).slot # None}
         /\ \A i \in LiveNodes(q) : At(q, i).slot \in Slots /\ i \in Nat
         /\ IsFiniteSet(Places(q)) /\ Cardinality(Places(q)) = Len(q.node)
         /\ IsFiniteSet(LiveNodes(q)) /\ Cardinality(LiveNodes(q)) \in Nat
         /\ IsFiniteSet(InList(q)) /\ Cardinality(InList(q)) <= Len(q.node)
         /\ Cardinality(InList(q)) \in Nat
         /\ IsFiniteSet(Emptied(q)) /\ Cardinality(Emptied(q)) \in Nat
<1>1. q \in Pool /\ Len(q.node) \in Nat /\ Places(q) = 0 .. Len(q.node) - 1
  BY NodeFacts DEF Tidy, Places
<1>2. LiveNodes(q) = {i \in Places(q) : At(q, i).slot # None}
  BY DEF LiveNodes, Places
<1>3. LiveNodes(q) \subseteq InList(q)
  BY <1>2 DEF Tidy, InList
<1>4. \A i \in LiveNodes(q) : At(q, i).slot \in Slots /\ i \in Nat
  BY <1>1, <1>2, NodeFacts DEF PoolNode
<1>5. IsFiniteSet(0 .. Len(q.node) - 1) /\ Cardinality(0 .. Len(q.node) - 1) = Len(q.node)
  <2>1. 0 \in Int /\ Len(q.node) - 1 \in Int
    BY <1>1
  <2> QED
    BY <1>1, <2>1, FS_Interval
<1>6. /\ LiveNodes(q) \in SUBSET Places(q) /\ InList(q) \in SUBSET Places(q)
      /\ Emptied(q) \in SUBSET Places(q) /\ IsFiniteSet(Places(q)) /\ Cardinality(Places(q)) = Len(q.node)
  BY <1>1, <1>2, <1>5 DEF InList, Emptied
<1>7. /\ IsFiniteSet(LiveNodes(q)) /\ IsFiniteSet(InList(q)) /\ IsFiniteSet(Emptied(q))
      /\ Cardinality(InList(q)) <= Cardinality(Places(q))
  BY <1>6, FS_Subset
<1>8. /\ Cardinality(LiveNodes(q)) \in Nat /\ Cardinality(InList(q)) \in Nat
      /\ Cardinality(Emptied(q)) \in Nat
  BY <1>7, FS_CardinalityType
<1> QED
  BY <1>2, <1>3, <1>4, <1>6, <1>7, <1>8

\* FindCallback finds a connected slot, whether it has a cache or not.
LEMMA FindFacts ==
  ASSUME NEW q, Base(q), NEW slot \in Slots
  PROVE  /\ Find(q, slot) = INVALID_INDEX <=> slot \notin SlotsOf(q)
         /\ Find(q, slot) # INVALID_INDEX =>
              /\ Find(q, slot) \in LiveNodes(q)
              /\ At(q, Find(q, slot)).slot = slot
<1> DEFINE direct == {i \in LiveNodes(q) : At(q, i).slot = slot}
           found == IF q.hasCache THEN {e[2] : e \in {c \in q.cache : c[1] = slot}} ELSE direct
<1>1. found = direct
  <2>1. ASSUME q.hasCache PROVE {e[2] : e \in {c \in q.cache : c[1] = slot}} = direct
    <3>1. q.cache = Entries(q)
      BY <2>1 DEF Base, Exact
    <3>2. ASSUME NEW e \in q.cache, e[1] = slot PROVE e[2] \in direct
      BY <3>1, <3>2 DEF Entries
    <3>3. ASSUME NEW i \in direct PROVE \E e \in q.cache : e[1] = slot /\ e[2] = i
      <4>1. << At(q, i).slot, i >> \in q.cache
        BY <3>1 DEF Entries
      <4> QED
        BY <4>1
    <3> QED
      BY <3>2, <3>3
  <2> QED
    BY <2>1
<1>2. Find(q, slot) = IF found = {} THEN INVALID_INDEX ELSE CHOOSE i \in found : \A j \in found : i <= j
  BY DEF Find
<1>3. direct = {} <=> slot \notin SlotsOf(q)
  BY DEF SlotsOf
<1>4. direct \subseteq LiveNodes(q) /\ INVALID_INDEX \notin LiveNodes(q)
  BY LiveFacts, NodeFacts DEF Base, Tidy
<1>5. ASSUME direct # {} PROVE Find(q, slot) \in direct
  <2>1. PICK i : i \in direct
    BY <1>5
  <2>2. direct = {i} /\ i \in Nat
    BY <2>1, LiveFacts DEF Base, Single
  <2>3. \E k \in direct : \A j \in direct : k <= j
    BY <2>2
  <2> HIDE DEF found, direct
  <2> QED
    BY <1>1, <1>2, <1>5, <2>3
<1> HIDE DEF found
<1> QED
  BY <1>1, <1>2, <1>3, <1>4, <1>5

-----------------------------------------------------------------------------
(***************************************************************************)
(* Walking along the list.                                                 *)
(***************************************************************************)

\* What a loop along the list has still to see when it has come to place at.
Rest(at, behind) == IF at = INVALID_INDEX THEN {} ELSE {at} \cup behind[at]

\* Behind a place of the list come its successor and what is behind that.
LEMMA RestOfList ==
  ASSUME NEW q, Tidy(q), NEW behind, Orders(q, behind)
  PROVE  /\ Rest(q.head, behind) = InList(q) /\ q.head \in InList(q) \cup {INVALID_INDEX}
         /\ \A i \in InList(q) :
              /\ At(q, i).next \in (InList(q) \ {i}) \cup {INVALID_INDEX}
              /\ Rest(At(q, i).next, behind) = behind[i]
              /\ behind[i] \subseteq InList(q) /\ i \notin behind[i]
              /\ INVALID_INDEX # i
<1>1. PICK L : L = InList(q)
  OBVIOUS
<1>2. /\ StrictOrder(L, behind) /\ IsFirst(q.head, L, L, behind) /\ INVALID_INDEX \notin L
      /\ \A i \in L : IsFirst(At(q, i).next, behind[i], L, behind)
  BY <1>1, NodeFacts DEF Orders, Linked, Nexts, InList, Tidy
<1>3. Rest(q.head, behind) = L /\ q.head \in L \cup {INVALID_INDEX}
  BY <1>2 DEF Rest, IsFirst, StrictOrder
<1>4. ASSUME NEW i \in L
      PROVE  /\ At(q, i).next \in (L \ {i}) \cup {INVALID_INDEX}
             /\ Rest(At(q, i).next, behind) = behind[i]
             /\ behind[i] \subseteq L /\ i \notin behind[i] /\ INVALID_INDEX # i
  <2>1. IsFirst(At(q, i).next, behind[i], L, behind)
    BY <1>2
  <2>2. behind[i] \subseteq L /\ i \notin behind[i] /\ INVALID_INDEX # i
    BY <1>2 DEF StrictOrder
  <2>3. Rest(At(q, i).next, behind) = behind[i]
    BY <1>2, <2>1, <2>2 DEF IsFirst, StrictOrder, Rest
  <2> QED
    BY <1>2, <2>1, <2>2, <2>3 DEF IsFirst
<1> QED
  BY <1>1, <1>3, <1>4

LEMMA RestSize ==
  ASSUME NEW q, Tidy(q), NEW behind, Orders(q, behind)
  PROVE  /\ Cardinality(Rest(INVALID_INDEX, behind)) = 0
         /\ \A i \in InList(q) :
              /\ Cardinality(behind[i]) \in Nat
              /\ Cardinality(Rest(i, behind)) = Cardinality(behind[i]) + 1
              /\ Cardinality(behind[i]) + 1 <= Len(q.node)
<1>1. Cardinality(Rest(INVALID_INDEX, behind)) = 0
  BY FS_EmptySet DEF Rest
<1>2. ASSUME NEW i \in InList(q)
      PROVE  /\ Cardinality(behind[i]) \in Nat
             /\ Cardinality(Rest(i, behind)) = Cardinality(behind[i]) + 1
             /\ Cardinality(behind[i]) + 1 <= Len(q.node)
  <2>1. behind[i] \subseteq InList(q) /\ i \notin behind[i] /\ i # INVALID_INDEX
    BY RestOfList
  <2>2. /\ IsFiniteSet(InList(q)) /\ Cardinality(InList(q)) <= Len(q.node)
        /\ Cardinality(InList(q)) \in Nat /\ Len(q.node) \in Nat
    BY LiveFacts, NodeFacts DEF Tidy
  <2>3. Rest(i, behind) = behind[i] \cup {i} /\ Rest(i, behind) \subseteq InList(q)
    BY <2>1 DEF Rest
  <2>4. IsFiniteSet(behind[i]) /\ Cardinality(behind[i]) \in Nat
    BY <2>1, <2>2, FS_Subset, FS_CardinalityType
  <2>5. Cardinality(Rest(i, behind)) <= Cardinality(InList(q))
    BY <2>2, <2>3, FS_Subset
  <2>6. Cardinality(Rest(i, behind)) = Cardinality(behind[i]) + 1
    BY <2>1, <2>3, <2>4, FS_AddElement
  <2> QED
    BY <2>2, <2>4, <2>5, <2>6
<1> QED
  BY <1>1, <1>2

\* What holds at the end of the list, and at a place if at the next, holds
\* all along the list.
LEMMA AlongTheList ==
  ASSUME NEW q, Tidy(q), NEW behind, Orders(q, behind), NEW S, INVALID_INDEX \in S,
         \A i \in InList(q) : At(q, i).next \in S => i \in S
  PROVE  InList(q) \subseteq S
<1> DEFINE P == {n \in Nat : \A i \in InList(q) : Cardinality(Rest(i, behind)) <= n => i \in S}
<1>1. 0 \in P
  BY RestSize
<1>2. ASSUME NEW n \in Nat, n \in P PROVE n + 1 \in P
  <2> SUFFICES ASSUME NEW i \in InList(q), Cardinality(Rest(i, behind)) <= n + 1 PROVE i \in S
    OBVIOUS
  <2>1. /\ At(q, i).next \in (InList(q) \ {i}) \cup {INVALID_INDEX}
        /\ Rest(At(q, i).next, behind) = behind[i]
    BY RestOfList
  <2>2. Cardinality(behind[i]) \in Nat /\ Cardinality(Rest(i, behind)) = Cardinality(behind[i]) + 1
    BY RestSize
  <2>3. Cardinality(Rest(At(q, i).next, behind)) <= n
    BY <2>1, <2>2
  <2> QED
    BY <1>2, <2>1, <2>3
<1> HIDE DEF P
<1>3. Nat \subseteq P
  BY <1>1, <1>2, Counting
<1> SUFFICES ASSUME NEW i \in InList(q) PROVE i \in S
  OBVIOUS
<1>4. Cardinality(Rest(i, behind)) \in Nat
  BY RestSize
<1> QED
  BY <1>3, <1>4 DEF P

LEMMA OwnFacts ==
  ASSUME NEW q, Tidy(q), NEW i \in InList(q)
  PROVE  /\ At(q, i).slot \in Slots \cup {None} /\ Own(q, i) \in Seq(Slots)
         /\ At(q, i).slot = None => Own(q, i) = << >>
         /\ At(q, i).slot # None => Own(q, i) = << At(q, i).slot >>
<1>1. At(q, i).slot \in Slots \cup {None}
  BY NodeFacts DEF Tidy, InList, PoolNode
<1> QED
  BY <1>1 DEF Own

\* The recursive definition in CalledFrom has a solution.
Tables(f, q, end, N) ==
  f = [n \in 0 .. N |-> IF n = 0 THEN NoCalls(q) ELSE Longer(q, end, f[n - 1])]

LEMMA TablesExist ==
  ASSUME NEW q, NEW end, NEW N \in Nat
  PROVE  \E f : Tables(f, q, end, N)
<1> DEFINE P == {n \in Nat : \E f : Tables(f, q, end, n)}
<1>1. 0 \in P
  <2> DEFINE e == [n \in 0 .. 0 |-> NoCalls(q)]
  <2>1. Tables(e, q, end, 0)
    BY DEF Tables
  <2> QED
    BY <2>1
<1>2. ASSUME NEW n \in Nat, n \in P PROVE n + 1 \in P
  <2>1. PICK f : Tables(f, q, end, n)
    BY <1>2
  <2> DEFINE last == Longer(q, end, f[n])
             g == [i \in 0 .. n + 1 |-> IF i = n + 1 THEN last ELSE f[i]]
  <2>2. \A i \in 0 .. n : f[i] = IF i = 0 THEN NoCalls(q) ELSE Longer(q, end, f[i - 1])
    BY <2>1 DEF Tables
  <2>3. \A i \in 1 .. n + 1 : g[i - 1] = f[i - 1]
    OBVIOUS
  <2>4. ASSUME NEW i \in 0 .. n + 1
        PROVE  g[i] = IF i = 0 THEN NoCalls(q) ELSE Longer(q, end, g[i - 1])
    <3>1. CASE i = n + 1
      <4>1. g[i] = last /\ i # 0 /\ g[i - 1] = f[n]
        BY <3>1, <2>3
      <4> HIDE DEF g
      <4> QED
        BY <4>1
    <3>2. CASE i # n + 1
      <4>1. g[i] = f[i] /\ i \in 0 .. n /\ (i # 0 => g[i - 1] = f[i - 1])
        BY <3>2, <2>3
      <4> HIDE DEF g
      <4> QED
        BY <4>1, <2>2
    <3> QED
      BY <3>1, <3>2
  <2>5. g = [i \in 0 .. n + 1 |-> g[i]]
    OBVIOUS
  <2> HIDE DEF g
  <2>6. Tables(g, q, end, n + 1)
    BY <2>4, <2>5 DEF Tables
  <2> QED
    BY <2>6
<1> HIDE DEF P
<1>3. Nat \subseteq P
  BY <1>1, <1>2, Counting
<1> QED
  BY <1>3 DEF P

LEMMA ChosenTable ==
  ASSUME NEW q, NEW end, NEW i
  PROVE  CalledFrom(q, i, end) = (CHOOSE f : Tables(f, q, end, Len(q.node)))[Len(q.node)][i]
  BY DEF CalledFrom, Tables

LEMMA CallsTable ==
  ASSUME NEW q, NEW end, NEW N \in Nat, N = Len(q.node)
  PROVE  \E c : Tables(c, q, end, N) /\ \A i : CalledFrom(q, i, end) = c[N][i]
<1>1. PICK c : c = CHOOSE f : Tables(f, q, end, Len(q.node))
  OBVIOUS
<1>2. \E f : Tables(f, q, end, Len(q.node))
  BY TablesExist
<1>3. Tables(c, q, end, N)
  BY <1>1, <1>2
<1>4. \A i : CalledFrom(q, i, end) = c[N][i]
  BY <1>1, ChosenTable
<1> QED
  BY <1>3, <1>4

\* What is called from a place on is what is called there, and then from the
\* next place on.
LEMMA CallsFacts ==
  ASSUME NEW q, Tidy(q), NEW behind, Orders(q, behind), NEW end
  PROVE  /\ CalledFrom(q, INVALID_INDEX, end) = << >>
         /\ \A i \in InList(q) :
              CalledFrom(q, i, end) = Own(q, i) \o (IF i = end THEN << >>
                                               ELSE CalledFrom(q, At(q, i).next, end))
         /\ \A i \in InList(q) \cup {INVALID_INDEX} : CalledFrom(q, i, end) \in Seq(Slots)
<1>1. PICK N : N = Len(q.node) /\ N \in Nat
  BY NodeFacts DEF Tidy
<1>2. PICK c : Tables(c, q, end, N) /\ \A i : CalledFrom(q, i, end) = c[N][i]
  BY <1>1, CallsTable
<1>4. (\A i : CalledFrom(q, i, end) = c[N][i])
      /\ \A n \in 0 .. N : c[n] = IF n = 0 THEN NoCalls(q) ELSE Longer(q, end, c[n - 1])
  BY <1>1, <1>2 DEF Tables
<1>5. ASSUME NEW n \in 0 .. N PROVE c[n][INVALID_INDEX] = << >>
  <2>1. c[n] = NoCalls(q) \/ c[n] = Longer(q, end, c[n - 1])
    BY <1>4
  <2>2. /\ NoCalls(q)[INVALID_INDEX] = << >>
        /\ Longer(q, end, c[n - 1])[INVALID_INDEX] = << >>
    BY DEF Longer, NoCalls
  <2> QED
    BY <2>1, <2>2
<1>6. ASSUME NEW n \in 1 .. N, NEW i \in InList(q)
      PROVE  c[n][i] = Own(q, i) \o (IF i = end THEN << >> ELSE c[n - 1][At(q, i).next])
  <2>1. c[n] = Longer(q, end, c[n - 1])
    BY <1>1, <1>4
  <2>2. i \in Places(q) /\ i # INVALID_INDEX
    BY NodeFacts DEF InList, Tidy
  <2> QED
    BY <2>1, <2>2 DEF Longer
<1> DEFINE P == {n \in Nat : n + 1 <= N =>
                   \A i \in InList(q) \cup {INVALID_INDEX} :
                     Cardinality(Rest(i, behind)) <= n => c[n + 1][i] = c[n][i]}
<1>7. 0 \in P
  <2>1. \A i \in InList(q) : ~(Cardinality(Rest(i, behind)) <= 0)
    BY RestSize
  <2> QED
    BY <1>1, <1>5, <2>1
<1>8. ASSUME NEW n \in Nat, n \in P PROVE n + 1 \in P
  <2> SUFFICES ASSUME n + 2 <= N, NEW i \in InList(q) \cup {INVALID_INDEX},
                      Cardinality(Rest(i, behind)) <= n + 1
               PROVE  c[n + 2][i] = c[n + 1][i]
    OBVIOUS
  <2>1. CASE i = INVALID_INDEX
    BY <1>1, <1>5, <2>1
  <2>2. CASE i \in InList(q)
    <3>1. PICK next : next = At(q, i).next
      OBVIOUS
    <3>2. next \in InList(q) \cup {INVALID_INDEX} /\ Rest(next, behind) = behind[i]
      BY <2>2, <3>1, RestOfList
    <3>3. Cardinality(Rest(next, behind)) <= n
      <4>1. Cardinality(behind[i]) \in Nat /\ Cardinality(Rest(i, behind)) = Cardinality(behind[i]) + 1
        BY <2>2, RestSize
      <4> QED
        BY <3>2, <4>1
    <3>4. c[n + 1][next] = c[n][next]
      BY <1>1, <1>8, <3>2, <3>3
    <3>5. /\ c[n + 2][i] = Own(q, i) \o (IF i = end THEN << >> ELSE c[n + 1][next])
          /\ c[n + 1][i] = Own(q, i) \o (IF i = end THEN << >> ELSE c[n][next])
      <4>1. n + 2 \in 1 .. N /\ n + 1 \in 1 .. N /\ n + 2 - 1 = n + 1 /\ n + 1 - 1 = n
        BY <1>1
      <4> QED
        BY <1>6, <2>2, <3>1, <4>1
    <3> QED
      BY <3>4, <3>5
  <2> QED
    BY <2>1, <2>2
<1> HIDE DEF P
<1>9. Nat \subseteq P
  BY <1>7, <1>8, Counting
<1>10. ASSUME NEW i \in InList(q)
       PROVE  CalledFrom(q, i, end) = Own(q, i) \o (IF i = end THEN << >>
                                               ELSE CalledFrom(q, At(q, i).next, end))
  <2>1. PICK next : next = At(q, i).next
    OBVIOUS
  <2>2. next \in InList(q) \cup {INVALID_INDEX} /\ Rest(next, behind) = behind[i]
    BY <2>1, RestOfList
  <2>3. Cardinality(behind[i]) \in Nat /\ Cardinality(behind[i]) + 1 <= N
    BY <1>1, RestSize
  <2>4. N - 1 \in P /\ N - 1 + 1 = N /\ N \in 1 .. N /\ N - 1 \in Nat
    BY <1>1, <1>9, <2>3
  <2>5. Cardinality(Rest(next, behind)) <= N - 1
    BY <1>1, <2>2, <2>3
  <2>6. c[N][next] = c[N - 1][next]
    BY <1>1, <2>2, <2>4, <2>5 DEF P
  <2>7. c[N][i] = Own(q, i) \o (IF i = end THEN << >> ELSE c[N - 1][next])
    BY <1>6, <2>1, <2>4
  <2> QED
    BY <1>4, <2>1, <2>6, <2>7
<1>11. CalledFrom(q, INVALID_INDEX, end) = << >>
  BY <1>1, <1>4, <1>5
<1> DEFINE S == {i \in InList(q) \cup {INVALID_INDEX} : CalledFrom(q, i, end) \in Seq(Slots)}
<1>12. ASSUME NEW i \in InList(q), At(q, i).next \in S PROVE i \in S
  <2>1. PICK a, b : a = Own(q, i) /\ b = IF i = end THEN << >> ELSE CalledFrom(q, At(q, i).next, end)
    OBVIOUS
  <2>2. a \in Seq(Slots) /\ b \in Seq(Slots)
    BY <1>12, <2>1, OwnFacts
  <2>3. CalledFrom(q, i, end) = a \o b
    BY <1>10, <2>1
  <2>4. CalledFrom(q, i, end) \in Seq(Slots)
    BY <2>2, <2>3
  <2> QED
    BY <2>4
<1>13. INVALID_INDEX \in S
  BY <1>11
<1> HIDE DEF S
<1>14. InList(q) \subseteq S
  BY <1>12, <1>13, AlongTheList
<1>15. \A i \in InList(q) \cup {INVALID_INDEX} : CalledFrom(q, i, end) \in Seq(Slots)
  BY <1>13, <1>14 DEF S
<1> QED
  BY <1>10, <1>11, <1>15

Steps(q, end) ==
  /\ CalledFrom(q, INVALID_INDEX, end) = << >>
  /\ \A i \in InList(q) :
       CalledFrom(q, i, end) = Own(q, i) \o (IF i = end THEN << >>
                                        ELSE CalledFrom(q, At(q, i).next, end))
  /\ \A i \in InList(q) \cup {INVALID_INDEX} : CalledFrom(q, i, end) \in Seq(Slots)

LEMMA CallsSteps ==
  ASSUME NEW q, Tidy(q), Ordered(q), NEW end
  PROVE  Steps(q, end)
  BY CallsFacts DEF Steps, Ordered

\* What is left of some slots when those in gone are disconnected.
Left(s, gone) == Only(s, Slots \ gone)

LEMMA OneLeft ==
  ASSUME NEW x \in Slots, NEW gone
  PROVE  Left(<< x >>, gone) = IF x \in gone THEN << >> ELSE << x >>
<1>1. PICK e, S : e = << >> /\ S = Slots \ gone
  OBVIOUS
<1>2. e \in Seq(Slots) /\ Append(e, x) = << x >>
  BY <1>1
<1>3. Only(Append(e, x), S) = IF x \in S THEN Append(Only(e, S), x) ELSE Only(e, S)
  BY <1>2, OnlyAppend
<1>4. Only(e, S) = e
  BY <1>1, EmptyOnly
<1> QED
  BY <1>1, <1>2, <1>3, <1>4 DEF Left

LEMMA LeftFacts ==
  ASSUME NEW s \in Seq(Slots), NEW gone
  PROVE  /\ Left(s, gone) \in Seq(Slots) /\ Left(<< >>, gone) = << >>
         /\ \A t \in Seq(Slots) : Left(s \o t, gone) = Left(s, gone) \o Left(t, gone)
         /\ Left(s, {}) = s /\ Left(s, Slots) = << >>
<1>1. Left(s, gone) \in Seq(Slots) /\ Left(<< >>, gone) = << >>
  BY OnlyFacts, EmptyOnly DEF Left
<1>2. \A t \in Seq(Slots) : Left(s \o t, gone) = Left(s, gone) \o Left(t, gone)
  BY OnlyConcat DEF Left
<1>3. Left(s, {}) = s
  <2>1. PICK all : all = Slots \ {} /\ Slots \subseteq all
    OBVIOUS
  <2>2. /\ Only(Only(s, all), all) = Only(s, all \cap all)
        /\ Slots \subseteq all => Only(s, all) = s
    BY OnlyTwice
  <2> QED
    BY <2>1, <2>2 DEF Left
<1>4. Left(s, Slots) = << >>
  <2>1. PICK e : e = Only(s, {})
    OBVIOUS
  <2>2. e \in Seq(Slots) /\ Elements(e) = {}
    BY <2>1, OnlyFacts
  <2>3. e = << >>
    BY <2>2, TailFacts, SequenceFacts
  <2>4. Slots \ Slots = {}
    OBVIOUS
  <2> QED
    BY <2>1, <2>3, <2>4 DEF Left
<1> QED
  BY <1>1, <1>2, <1>3, <1>4

LEMMA LeftTwice ==
  ASSUME NEW s \in Seq(Slots), NEW gone, NEW more
  PROVE  Left(Left(s, gone), more) = Left(s, gone \cup more)
<1>1. (Slots \ gone) \cap (Slots \ more) = Slots \ (gone \cup more)
  OBVIOUS
<1>2. Only(Only(s, Slots \ gone), Slots \ more) = Only(s, (Slots \ gone) \cap (Slots \ more))
  BY OnlyTwice
<1> QED
  BY <1>1, <1>2 DEF Left

\* What is left of what a place and its followers call.
LEMMA LeftOfOwn ==
  ASSUME NEW q, Tidy(q), NEW i \in InList(q), NEW t \in Seq(Slots), NEW gone
  PROVE  Left(Own(q, i) \o t, gone) =
           (IF At(q, i).slot \in gone THEN << >> ELSE Own(q, i)) \o Left(t, gone)
<1>1. PICK own, slot : own = Own(q, i) /\ slot = At(q, i).slot
  OBVIOUS
<1>2. /\ slot \in Slots \cup {None} /\ own \in Seq(Slots)
      /\ slot = None => own = << >>
      /\ slot # None => own = << slot >>
  BY <1>1, OwnFacts
<1>3. Left(own \o t, gone) = Left(own, gone) \o Left(t, gone)
  <2>1. \A u \in Seq(Slots) : Left(own \o u, gone) = Left(own, gone) \o Left(u, gone)
    BY <1>2, LeftFacts
  <2> QED
    BY <2>1
<1>4. Left(own, gone) = IF slot \in gone THEN << >> ELSE own
  <2>1. CASE slot = None
    BY <1>2, <2>1, LeftFacts
  <2>2. CASE slot # None
    BY <1>2, <2>2, OneLeft
  <2> QED
    BY <2>1, <2>2
<1> QED
  BY <1>1, <1>3, <1>4

\* Nodes are emptied: their slots are not called any more.
LEMMA CallsBlanked ==
  ASSUME NEW q, Tidy(q), NEW behind, Orders(q, behind), NEW r, Tidy(r), NEW b, Orders(r, b),
         InList(r) = InList(q), NEW gone, NEW end,
         \A i \in InList(q) :
           /\ At(r, i).next = At(q, i).next
           /\ At(r, i).slot = IF At(q, i).slot \in gone THEN None ELSE At(q, i).slot
  PROVE  \A i \in InList(q) \cup {INVALID_INDEX} :
           CalledFrom(r, i, end) = Left(CalledFrom(q, i, end), gone)
<1> DEFINE S == {i \in InList(q) \cup {INVALID_INDEX} :
                   CalledFrom(r, i, end) = Left(CalledFrom(q, i, end), gone)}
<1>0. Left(<< >>, gone) = << >>
  BY EmptyOnly DEF Left
<1>1. INVALID_INDEX \in S
  <2>1. CalledFrom(q, INVALID_INDEX, end) = << >>
    BY CallsFacts
  <2>2. CalledFrom(r, INVALID_INDEX, end) = << >>
    BY CallsFacts
  <2> QED
    BY <1>0, <2>1, <2>2
<1>2. ASSUME NEW i \in InList(q), At(q, i).next \in S PROVE i \in S
  <2>1. PICK next : next = At(q, i).next /\ next \in InList(q) \cup {INVALID_INDEX}
    BY RestOfList
  <2>2. PICK t, u : /\ t = IF i = end THEN << >> ELSE CalledFrom(q, next, end)
                    /\ u = IF i = end THEN << >> ELSE CalledFrom(r, next, end)
    OBVIOUS
  <2>3. t \in Seq(Slots)
    BY <2>1, <2>2, CallsFacts
  <2>4. u = Left(t, gone)
    BY <1>0, <1>2, <2>1, <2>2
  <2>5. CalledFrom(q, i, end) = Own(q, i) \o t
    BY <2>1, <2>2, CallsFacts
  <2>6. CalledFrom(r, i, end) = Own(r, i) \o u
    <3>1. i \in InList(r)
      OBVIOUS
    <3>2. CalledFrom(r, i, end) = Own(r, i) \o (IF i = end THEN << >>
                                                ELSE CalledFrom(r, At(r, i).next, end))
      BY <3>1, CallsFacts
    <3> QED
      BY <2>1, <2>2, <3>2
  <2>7. Own(r, i) = IF At(q, i).slot \in gone THEN << >> ELSE Own(q, i)
    BY DEF Own
  <2>8. Left(Own(q, i) \o t, gone) = (IF At(q, i).slot \in gone THEN << >> ELSE Own(q, i)) \o Left(t, gone)
    BY <2>3, LeftOfOwn
  <2> QED
    BY <2>4, <2>5, <2>6, <2>7, <2>8
<1> HIDE DEF S
<1>3. InList(q) \subseteq S
  BY <1>1, <1>2, AlongTheList
<1> QED
  BY <1>1, <1>3 DEF S

\* When a place is taken out, its neighbours find each other.
LEMMA LinksWithout ==
  ASSUME NEW q, Tidy(q), NEW behind, Orders(q, behind), NEW i \in InList(q),
         NEW r, Tidy(r), InList(r) = InList(q) \ {i}, Orders(r, Without(i, InList(q), behind))
  PROVE  /\ r.head = IF q.head = i THEN At(q, i).next ELSE q.head
         /\ \A j \in InList(q) \ {i} :
              At(r, j).next = IF At(q, j).next = i THEN At(q, i).next ELSE At(q, j).next
<1>1. PICK L, b : L = InList(q) /\ b = Without(i, L, behind)
  OBVIOUS
<1>2. /\ StrictOrder(L, behind) /\ IsFirst(q.head, L, L, behind) /\ INVALID_INDEX \notin L
      /\ \A j \in L : IsFirst(At(q, j).next, behind[j], L, behind)
  BY <1>1, NodeFacts DEF Orders, Linked, Nexts, InList, Tidy
<1>3. /\ IsFirst(r.head, L \ {i}, L \ {i}, b)
      /\ \A j \in L \ {i} : IsFirst(At(r, j).next, b[j], L \ {i}, b) /\ b[j] = behind[j] \ {i}
  BY <1>1 DEF Orders, Linked, Nexts, Without
<1>4. \A j \in L : behind[j] \subseteq L /\ j \notin behind[j]
  BY <1>2 DEF StrictOrder
\* The first of a part of the list, when i has left it.
<1>5. ASSUME NEW part \in SUBSET L, NEW x, IsFirst(x, part, L, behind),
             NEW y, IsFirst(y, part \ {i}, L \ {i}, b), \A j \in part : behind[j] \subseteq part
      PROVE  y = IF x = i THEN At(q, i).next ELSE x
  <2>0. i \in L /\ i # INVALID_INDEX
    BY <1>1, <1>2
  <2>1. CASE x = INVALID_INDEX
    <3>1. part = {} /\ part \ {i} = {}
      BY <1>2, <1>5, <2>1 DEF IsFirst
    <3> QED
      BY <1>5, <2>0, <2>1, <3>1 DEF IsFirst
  <2>2. CASE x = i
    <3>1. i \in part /\ part \ {i} = behind[i]
      <4>1. i \in part /\ \A j \in part : j = i \/ j \in behind[i]
        BY <1>5, <2>0, <2>2 DEF IsFirst
      <4>2. behind[i] \subseteq part /\ i \notin behind[i]
        BY <1>4, <1>5, <2>0, <4>1
      <4> QED
        BY <4>1, <4>2
    <3>2. IsFirst(At(q, i).next, behind[i], L, behind) /\ IsFirst(y, behind[i], L \ {i}, b)
      BY <1>2, <1>5, <2>0, <3>1
    <3>3. y = At(q, i).next
      BY <1>2, <1>3, <1>4, <3>2 DEF IsFirst, StrictOrder
    <3> QED
      BY <2>2, <3>3
  <2>3. CASE x # i /\ x # INVALID_INDEX
    <3>1. x \in part \ {i} /\ \A j \in part : j = x \/ j \in behind[x]
      BY <1>5, <2>3 DEF IsFirst
    <3>2. y \in part \ {i} /\ \A j \in part \ {i} : j = y \/ j \in b[y]
      BY <1>5, <3>1 DEF IsFirst
    <3>3. y = x
      BY <1>2, <1>3, <3>1, <3>2 DEF StrictOrder
    <3> QED
      BY <2>3, <3>3
  <2> QED
    BY <2>1, <2>2, <2>3
<1>6. r.head = IF q.head = i THEN At(q, i).next ELSE q.head
  <2>1. L \in SUBSET L
    OBVIOUS
  <2> QED
    BY <1>2, <1>3, <1>4, <1>5, <2>1
<1>7. ASSUME NEW j \in L \ {i}
      PROVE  At(r, j).next = IF At(q, j).next = i THEN At(q, i).next ELSE At(q, j).next
  <2>1. behind[j] \in SUBSET L /\ \A k \in behind[j] : behind[k] \subseteq behind[j]
    BY <1>2, <1>4 DEF StrictOrder
  <2>2. IsFirst(At(q, j).next, behind[j], L, behind)
    BY <1>2
  <2>3. IsFirst(At(r, j).next, behind[j] \ {i}, L \ {i}, b)
    BY <1>3
  <2> QED
    BY <1>5, <2>1, <2>2, <2>3
<1> QED
  BY <1>1, <1>6, <1>7

\* A place is taken out: its slot is not called any more.
LEMMA CallsUnlinked ==
  ASSUME NEW q, Tidy(q), NEW behind, Orders(q, behind), NEW i \in InList(q),
         NEW r, Tidy(r), InList(r) = InList(q) \ {i}, Orders(r, Without(i, InList(q), behind)),
         \A j \in InList(r) : At(r, j).slot = At(q, j).slot,
         NEW gone, \A j \in InList(r) : At(q, j).slot \notin gone,
         At(q, i).slot = None \/ At(q, i).slot \in gone
  PROVE  Connected(r) = Left(Connected(q), gone)
<1> DEFINE past(j) == IF j = i THEN At(q, i).next ELSE j
           S == {j \in InList(q) \cup {INVALID_INDEX} :
                   CalledFrom(r, past(j), INVALID_INDEX)
                     = Left(CalledFrom(q, j, INVALID_INDEX), gone)}
<1>1. Left(<< >>, gone) = << >> /\ INVALID_INDEX # i
  BY EmptyOnly, RestOfList DEF Left
<1>2. r.head = past(q.head) /\ \A j \in InList(q) \ {i} : At(r, j).next = past(At(q, j).next)
  BY LinksWithout
<1>3. /\ CalledFrom(q, INVALID_INDEX, INVALID_INDEX) = << >>
      /\ \A j \in InList(q) \cup {INVALID_INDEX} : CalledFrom(q, j, INVALID_INDEX) \in Seq(Slots)
      /\ \A j \in InList(q) :
           CalledFrom(q, j, INVALID_INDEX) = Own(q, j) \o (IF j = INVALID_INDEX THEN << >>
                                              ELSE CalledFrom(q, At(q, j).next, INVALID_INDEX))
  BY CallsFacts
<1>4. /\ CalledFrom(r, INVALID_INDEX, INVALID_INDEX) = << >>
      /\ \A j \in InList(r) :
           CalledFrom(r, j, INVALID_INDEX) = Own(r, j) \o (IF j = INVALID_INDEX THEN << >>
                                              ELSE CalledFrom(r, At(r, j).next, INVALID_INDEX))
  BY CallsFacts
<1>5. INVALID_INDEX \in S
  BY <1>1, <1>3, <1>4
<1>6. ASSUME NEW j \in InList(q), At(q, j).next \in S PROVE j \in S
  <2>1. PICK next, t : /\ next = At(q, j).next /\ t = CalledFrom(q, next, INVALID_INDEX)
                       /\ next \in InList(q) \cup {INVALID_INDEX} /\ next # j /\ j # INVALID_INDEX
    BY RestOfList
  <2>2. t \in Seq(Slots) /\ CalledFrom(q, j, INVALID_INDEX) = Own(q, j) \o t
    BY <1>3, <2>1
  <2>3. Left(Own(q, j) \o t, gone) =
          (IF At(q, j).slot \in gone THEN << >> ELSE Own(q, j)) \o Left(t, gone)
    BY <2>2, LeftOfOwn
  <2>4. CalledFrom(r, past(next), INVALID_INDEX) = Left(t, gone)
    BY <1>6, <2>1
  <2>5. CASE j = i
    <3>1. past(j) = next /\ past(next) = next
      BY <2>1, <2>5
    <3>2. (IF At(q, j).slot \in gone THEN << >> ELSE Own(q, j)) = << >>
      BY <2>5, OwnFacts
    <3>3. Left(t, gone) \in Seq(Slots)
      BY <2>2, LeftFacts
    <3>4. Left(Own(q, j) \o t, gone) = Left(t, gone)
      BY <2>3, <3>2, <3>3, ConcatEmptySeq
    <3> QED
      BY <2>2, <2>4, <3>1, <3>4
  <2>6. CASE j # i
    <3>1. past(j) = j /\ j \in InList(r) /\ At(r, j).next = past(next)
      BY <1>2, <2>1, <2>6
    <3>2. Own(r, j) = Own(q, j) /\ At(q, j).slot \notin gone
      BY <3>1 DEF Own
    <3>3. CalledFrom(r, j, INVALID_INDEX) = Own(r, j) \o CalledFrom(r, past(next), INVALID_INDEX)
      BY <1>4, <2>1, <3>1
    <3> QED
      BY <2>2, <2>3, <2>4, <3>1, <3>2, <3>3
  <2> QED
    BY <2>5, <2>6
<1> HIDE DEF S
<1>7. InList(q) \subseteq S
  BY <1>5, <1>6, AlongTheList
<1>8. q.head \in S
  BY <1>5, <1>7, RestOfList
<1> QED
  BY <1>2, <1>8 DEF S, Connected

\* The end of the list.
LEMMA LastOfList ==
  ASSUME NEW q, Tidy(q), NEW behind, Orders(q, behind)
  PROVE  /\ \A i \in InList(q) : /\ i = q.tail <=> behind[i] = {}
                                 /\ At(q, i).next = INVALID_INDEX <=> behind[i] = {}
         /\ q.tail \in InList(q) \cup {INVALID_INDEX}
         /\ q.tail = INVALID_INDEX <=> InList(q) = {}
         /\ q.head = INVALID_INDEX <=> InList(q) = {}
<1>1. PICK L : L = InList(q)
  OBVIOUS
<1>2. /\ StrictOrder(L, behind) /\ IsFirst(q.head, L, L, behind) /\ IsLast(q.tail, L, L, behind)
      /\ INVALID_INDEX \notin L
      /\ \A i \in L : IsFirst(At(q, i).next, behind[i], L, behind)
  BY <1>1, NodeFacts DEF Orders, Linked, Nexts, InList, Tidy
<1>3. ASSUME NEW i \in L PROVE At(q, i).next = INVALID_INDEX <=> behind[i] = {}
  BY <1>2 DEF IsFirst
<1>4. ASSUME NEW i \in L PROVE i = q.tail <=> behind[i] = {}
  <2>1. behind[i] \subseteq L
    BY <1>2 DEF StrictOrder
  <2>2. q.tail # INVALID_INDEX /\ q.tail \in L /\ \A j \in L : j = q.tail \/ q.tail \in behind[j]
    BY <1>2 DEF IsLast
  <2> QED
    BY <1>2, <2>1, <2>2 DEF StrictOrder
<1>5. /\ q.tail \in L \cup {INVALID_INDEX}
      /\ q.tail = INVALID_INDEX <=> L = {}
      /\ q.head = INVALID_INDEX <=> L = {}
  BY <1>2 DEF IsFirst, IsLast
<1> QED
  BY <1>1, <1>3, <1>4, <1>5

\* A connection is made: its slot is called behind all others, but not by an
\* emission whose end is on the way.
LEMMA CallsExtended ==
  ASSUME NEW q, Tidy(q), NEW behind, Orders(q, behind), NEW r, Tidy(r), NEW b, Orders(r, b),
         NEW n, n \notin InList(q), n # INVALID_INDEX, InList(r) = InList(q) \cup {n},
         \A j \in InList(q) : /\ At(r, j).slot = At(q, j).slot
                              /\ At(r, j).next = IF j = q.tail THEN n ELSE At(q, j).next,
         NEW slot \in Slots, At(r, n).slot = slot, At(r, n).next = INVALID_INDEX,
         r.head = IF q.tail = INVALID_INDEX THEN n ELSE q.head
  PROVE  /\ Connected(r) = Append(Connected(q), slot)
         /\ \A end : \A i \in InList(q) \cup {INVALID_INDEX} :
              i = INVALID_INDEX \/ end \in Rest(i, behind)
                => CalledFrom(r, i, end) = CalledFrom(q, i, end)
<1>1. /\ \A i \in InList(q) : /\ i = q.tail <=> behind[i] = {}
                              /\ At(q, i).next = INVALID_INDEX <=> behind[i] = {}
      /\ q.tail = INVALID_INDEX <=> InList(q) = {}
      /\ q.head = INVALID_INDEX <=> InList(q) = {}
  BY LastOfList
<1>0. Ordered(q) /\ Ordered(r)
  BY DEF Ordered
<1>2. /\ q.head \in InList(q) \cup {INVALID_INDEX}
      /\ \A i \in InList(q) : /\ At(q, i).next \in InList(q) \cup {INVALID_INDEX}
                              /\ Rest(At(q, i).next, behind) = behind[i]
                              /\ i # INVALID_INDEX
  BY RestOfList
<1>3. \A i \in InList(q) : Own(r, i) = Own(q, i) /\ Own(q, i) \in Seq(Slots)
  <2>1. \A i \in InList(q) : Own(q, i) \in Seq(Slots)
    BY OwnFacts
  <2> QED
    BY <2>1 DEF Own
<1>4. Own(r, n) = << slot >>
  BY SignalAssumption DEF Own
<1> DEFINE All(p, i) == CalledFrom(p, i, INVALID_INDEX)
<1>5. /\ All(q, INVALID_INDEX) = << >>
      /\ \A i \in InList(q) : All(q, i) = Own(q, i) \o (IF i = INVALID_INDEX THEN << >>
                                                        ELSE All(q, At(q, i).next))
      /\ \A i \in InList(q) \cup {INVALID_INDEX} : All(q, i) \in Seq(Slots)
  <2>1. Steps(q, INVALID_INDEX)
    BY <1>0, CallsSteps
  <2> QED
    BY <2>1 DEF Steps
<1>6. /\ All(r, INVALID_INDEX) = << >>
      /\ \A i \in InList(r) : All(r, i) = Own(r, i) \o (IF i = INVALID_INDEX THEN << >>
                                                        ELSE All(r, At(r, i).next))
  <2>1. Steps(r, INVALID_INDEX)
    BY <1>0, CallsSteps
  <2> QED
    BY <2>1 DEF Steps
<1> HIDE DEF All
<1>7. All(r, n) = << slot >>
  <2>1. All(r, n) = Own(r, n) \o << >>
    BY <1>6
  <2> QED
    BY <1>4, <2>1
<1> DEFINE S == {i \in InList(q) \cup {INVALID_INDEX} :
                   i = INVALID_INDEX \/ All(r, i) = Append(All(q, i), slot)}
<1>8. ASSUME NEW i \in InList(q), At(q, i).next \in S PROVE i \in S
  <2>1. PICK own, next : own = Own(q, i) /\ next = At(q, i).next
    OBVIOUS
  <2>2. /\ own \in Seq(Slots) /\ next \in InList(q) \cup {INVALID_INDEX}
        /\ i \in InList(r) /\ i # INVALID_INDEX
    BY <1>2, <1>3, <2>1
  <2>3. /\ All(q, i) = own \o All(q, next) /\ All(r, i) = own \o All(r, At(r, i).next)
        /\ All(q, next) \in Seq(Slots)
    BY <1>3, <1>5, <1>6, <2>1, <2>2
  <2>4. CASE i = q.tail
    <3>1. next = INVALID_INDEX /\ At(r, i).next = n
      BY <1>1, <2>1, <2>4
    <3>2. All(q, i) = own \o << >> /\ All(r, i) = own \o << slot >>
      BY <1>5, <1>7, <2>3, <3>1
    <3>3. All(r, i) = Append(All(q, i), slot)
      BY <2>2, <3>2
    <3> QED
      BY <3>3
  <2>5. CASE i # q.tail
    <3>1. next # INVALID_INDEX /\ At(r, i).next = next
      BY <1>1, <2>1, <2>5
    <3>2. All(r, next) = Append(All(q, next), slot)
      BY <1>8, <2>1, <3>1
    <3>3. All(r, i) = own \o Append(All(q, next), slot)
      BY <2>3, <3>1, <3>2
    <3>4. own \o Append(All(q, next), slot) = Append(own \o All(q, next), slot)
      BY <2>2, <2>3, AppendToConcat
    <3>5. All(r, i) = Append(All(q, i), slot)
      BY <2>3, <3>3, <3>4
    <3> QED
      BY <3>5
  <2> QED
    BY <2>4, <2>5
<1>9. INVALID_INDEX \in S
  OBVIOUS
<1> HIDE DEF S
<1>10. InList(q) \subseteq S
  BY <1>8, <1>9, AlongTheList
<1>11. Connected(r) = Append(Connected(q), slot)
  <2>1. Connected(q) = All(q, q.head) /\ Connected(r) = All(r, r.head)
    BY DEF Connected, All
  <2>2. CASE InList(q) = {}
    <3>1. All(q, q.head) = << >> /\ All(r, r.head) = << slot >>
      BY <1>1, <1>5, <1>7, <2>2
    <3>2. Append(<< >>, slot) = << slot >>
      OBVIOUS
    <3> QED
      BY <2>1, <3>1, <3>2
  <2>3. CASE InList(q) # {}
    <3>1. r.head = q.head /\ q.head \in S /\ q.head # INVALID_INDEX
      BY <1>1, <1>2, <1>10, <2>3
    <3> QED
      BY <2>1, <3>1 DEF S
  <2> QED
    BY <2>2, <2>3
<1>12. ASSUME NEW end, NEW i \in InList(q) \cup {INVALID_INDEX},
              i = INVALID_INDEX \/ end \in Rest(i, behind)
       PROVE  CalledFrom(r, i, end) = CalledFrom(q, i, end)
  <2> DEFINE T == {j \in InList(q) \cup {INVALID_INDEX} :
                     j = INVALID_INDEX \/ end \in Rest(j, behind)
                       => CalledFrom(r, j, end) = CalledFrom(q, j, end)}
  <2>1. /\ CalledFrom(q, INVALID_INDEX, end) = << >>
        /\ \A j \in InList(q) : CalledFrom(q, j, end) = Own(q, j) \o (IF j = end THEN << >>
                                               ELSE CalledFrom(q, At(q, j).next, end))
    <3>1. Steps(q, end)
      BY <1>0, CallsSteps
    <3> QED
      BY <3>1 DEF Steps
  <2>2. /\ CalledFrom(r, INVALID_INDEX, end) = << >>
        /\ \A j \in InList(r) : CalledFrom(r, j, end) = Own(r, j) \o (IF j = end THEN << >>
                                               ELSE CalledFrom(r, At(r, j).next, end))
    <3>1. Steps(r, end)
      BY <1>0, CallsSteps
    <3> QED
      BY <3>1 DEF Steps
  <2>3. INVALID_INDEX \in T
    BY <2>1, <2>2
  <2>4. ASSUME NEW j \in InList(q), At(q, j).next \in T PROVE j \in T
    <3> SUFFICES ASSUME end \in Rest(j, behind)
                 PROVE  CalledFrom(r, j, end) = CalledFrom(q, j, end)
      BY <1>2
    <3>1. Own(r, j) = Own(q, j) /\ j \in InList(r)
      BY <1>3
    <3>2. CASE j = end
      BY <2>1, <2>2, <3>1, <3>2
    <3>3. CASE j # end
      <4>1. PICK next : next = At(q, j).next
        OBVIOUS
      <4>2. end \in behind[j] /\ Rest(next, behind) = behind[j]
        BY <1>2, <3>3, <4>1 DEF Rest
      <4>3. At(r, j).next = next
        BY <1>1, <4>1, <4>2
      <4>4. CalledFrom(r, next, end) = CalledFrom(q, next, end)
        BY <2>4, <4>1, <4>2
      <4>5. CalledFrom(q, j, end) = Own(q, j) \o CalledFrom(q, next, end)
        BY <2>1, <3>3, <4>1
      <4>6. CalledFrom(r, j, end) = Own(r, j) \o CalledFrom(r, next, end)
        BY <2>2, <3>1, <3>3, <4>3
      <4> QED
        BY <3>1, <4>4, <4>5, <4>6
    <3> QED
      BY <3>2, <3>3
  <2> HIDE DEF T
  <2>5. InList(q) \subseteq T
    BY <2>3, <2>4, AlongTheList
  <2>6. i \in T
    BY <2>3, <2>5
  <2> QED
    BY <1>12, <2>6 DEF T
<1> QED
  BY <1>11, <1>12

\* An emission that goes on to the last place calls all that is connected.
LEMMA CallsToTail ==
  ASSUME NEW q, Tidy(q), NEW behind, Orders(q, behind)
  PROVE  CalledFrom(q, q.head, q.tail) = Connected(q)
<1> DEFINE S == {i \in InList(q) \cup {INVALID_INDEX} :
                   CalledFrom(q, i, q.tail) = CalledFrom(q, i, INVALID_INDEX)}
<1>1. /\ CalledFrom(q, INVALID_INDEX, q.tail) = << >>
      /\ \A i \in InList(q) : CalledFrom(q, i, q.tail) = Own(q, i) \o (IF i = q.tail THEN << >>
                                                ELSE CalledFrom(q, At(q, i).next, q.tail))
  BY CallsFacts
<1>2. /\ CalledFrom(q, INVALID_INDEX, INVALID_INDEX) = << >>
      /\ \A i \in InList(q) :
           CalledFrom(q, i, INVALID_INDEX) = Own(q, i) \o (IF i = INVALID_INDEX THEN << >>
                                                ELSE CalledFrom(q, At(q, i).next, INVALID_INDEX))
  BY CallsFacts
<1>3. \A i \in InList(q) : i = q.tail <=> At(q, i).next = INVALID_INDEX
  BY LastOfList
<1>4. /\ q.head \in InList(q) \cup {INVALID_INDEX} /\ INVALID_INDEX \notin InList(q)
  BY RestOfList
<1>5. INVALID_INDEX \in S
  BY <1>1, <1>2
<1>6. ASSUME NEW i \in InList(q), At(q, i).next \in S PROVE i \in S
  BY <1>1, <1>2, <1>3, <1>4, <1>6
<1> HIDE DEF S
<1>7. InList(q) \subseteq S
  BY <1>5, <1>6, AlongTheList
<1>8. q.head \in S
  BY <1>4, <1>5, <1>7
<1> QED
  BY <1>8 DEF S, Connected

\* An emission that goes on from place from of the list comes to place end.
Reaches(q, from, end) ==
  \/ from = INVALID_INDEX
  \/ from \in InList(q) /\ \E behind : Orders(q, behind) /\ end \in Rest(from, behind)

\* It still comes to its end when it has gone on to the next place.
LEMMA ReachesNext ==
  ASSUME NEW q, Tidy(q), NEW i, i # INVALID_INDEX, NEW end, Reaches(q, i, end)
  PROVE  Reaches(q, IF i = end THEN INVALID_INDEX ELSE At(q, i).next, end)
<1>1. PICK behind : Orders(q, behind) /\ end \in Rest(i, behind) /\ i \in InList(q)
  BY DEF Reaches
<1>2. At(q, i).next \in InList(q) \cup {INVALID_INDEX} /\ Rest(At(q, i).next, behind) = behind[i]
  BY <1>1, RestOfList
<1>3. i = end \/ end \in behind[i]
  BY <1>1 DEF Rest
<1> QED
  BY <1>1, <1>2, <1>3 DEF Reaches

\* While a signal is emitted, no place leaves its list or gets ahead of another.
Grows(q, r) ==
  /\ r.emitting = q.emitting
  /\ q.emitting => /\ InList(q) \subseteq InList(r)
                   /\ \A from, end : Reaches(q, from, end) => Reaches(r, from, end)

\* A slot is connected: no emission in progress calls it.
Gains(q, r, slot) ==
  /\ Connected(r) = Append(Connected(q), slot)
  /\ \A from, end : Reaches(q, from, end) => CalledFrom(r, from, end) = CalledFrom(q, from, end)

\* The slots in gone are disconnected: nothing calls them any more.
Loses(q, r, gone) ==
  /\ Connected(r) = Left(Connected(q), gone)
  /\ q.emitting => \A from, end :
       Reaches(q, from, end) => CalledFrom(r, from, end) = Left(CalledFrom(q, from, end), gone)

LEMMA CallsAreSlots ==
  ASSUME NEW q, Tidy(q), Ordered(q)
  PROVE  /\ Connected(q) \in Seq(Slots)
         /\ \A from, end : Reaches(q, from, end) => CalledFrom(q, from, end) \in Seq(Slots)
<1>1. q.head \in InList(q) \cup {INVALID_INDEX}
  BY RestOfList DEF Ordered
<1>2. ASSUME NEW from \in InList(q) \cup {INVALID_INDEX}, NEW end
      PROVE  CalledFrom(q, from, end) \in Seq(Slots)
  <2>1. Steps(q, end)
    BY CallsSteps
  <2> QED
    BY <2>1 DEF Steps
<1>3. \A from, end : Reaches(q, from, end) => CalledFrom(q, from, end) \in Seq(Slots)
  BY <1>2 DEF Reaches
<1> QED
  BY <1>1, <1>2, <1>3 DEF Connected

\* A node is put behind the last place.
Appends(q, r, n, slot) ==
  /\ n \notin InList(q) /\ n # INVALID_INDEX /\ InList(r) = InList(q) \cup {n}
  /\ r.head = IF q.tail = INVALID_INDEX THEN n ELSE q.head
  /\ \A behind : Orders(q, behind) => Orders(r, Lengthened(n, InList(q), behind))
  /\ \A j \in InList(q) : /\ At(r, j).slot = At(q, j).slot
                          /\ At(r, j).next = IF j = q.tail THEN n ELSE At(q, j).next
  /\ At(r, n).slot = slot /\ At(r, n).next = INVALID_INDEX

LEMMA AppendedCalls ==
  ASSUME NEW q, Tidy(q), Ordered(q), NEW r, Tidy(r), NEW n, NEW slot \in Slots,
         Appends(q, r, n, slot)
  PROVE  /\ Gains(q, r, slot)
         /\ \A from, end : Reaches(q, from, end) => Reaches(r, from, end)
<1>0. /\ n \notin InList(q) /\ n # INVALID_INDEX /\ InList(r) = InList(q) \cup {n}
      /\ r.head = IF q.tail = INVALID_INDEX THEN n ELSE q.head
      /\ \A behind : Orders(q, behind) => Orders(r, Lengthened(n, InList(q), behind))
      /\ \A j \in InList(q) : /\ At(r, j).slot = At(q, j).slot
                              /\ At(r, j).next = IF j = q.tail THEN n ELSE At(q, j).next
      /\ At(r, n).slot = slot /\ At(r, n).next = INVALID_INDEX
  BY DEF Appends
<1>1. ASSUME NEW behind, Orders(q, behind)
      PROVE  /\ Connected(r) = Append(Connected(q), slot)
             /\ \A end : \A i \in InList(q) \cup {INVALID_INDEX} :
                  i = INVALID_INDEX \/ end \in Rest(i, behind)
                    => CalledFrom(r, i, end) = CalledFrom(q, i, end)
  <2>1. PICK b : Orders(r, b)
    BY <1>0, <1>1
  <2> QED
    BY <1>0, <1>1, <2>1, CallsExtended
<1>2. Connected(r) = Append(Connected(q), slot)
  BY <1>1 DEF Ordered
<1>3. ASSUME NEW from, NEW end, Reaches(q, from, end)
      PROVE  Reaches(r, from, end) /\ CalledFrom(r, from, end) = CalledFrom(q, from, end)
  <2>1. CASE from = INVALID_INDEX
    <3>1. PICK behind : Orders(q, behind)
      BY DEF Ordered
    <3>2. CalledFrom(r, from, end) = CalledFrom(q, from, end)
      BY <1>1, <2>1, <3>1
    <3> QED
      BY <2>1, <3>2 DEF Reaches
  <2>2. CASE from # INVALID_INDEX
    <3>1. PICK behind : Orders(q, behind) /\ end \in Rest(from, behind) /\ from \in InList(q)
      BY <1>3, <2>2 DEF Reaches
    <3>2. CalledFrom(r, from, end) = CalledFrom(q, from, end)
      BY <1>1, <3>1
    <3>3. PICK b : b = Lengthened(n, InList(q), behind) /\ Orders(r, b)
      BY <1>0, <3>1
    <3>4. behind[from] \subseteq b[from]
      BY <1>0, <3>1, <3>3 DEF Lengthened
    <3>5. end \in Rest(from, b)
      BY <2>2, <3>1, <3>4 DEF Rest
    <3> QED
      BY <1>0, <3>1, <3>2, <3>3, <3>5 DEF Reaches
  <2> QED
    BY <2>1, <2>2
<1> QED
  BY <1>2, <1>3 DEF Gains

\* The links stay as they are, nodes are emptied.
Blanks(q, r, gone) ==
  /\ InList(r) = InList(q) /\ r.head = q.head
  /\ \A behind : Orders(q, behind) => Orders(r, behind)
  /\ \A i \in InList(q) :
       /\ At(r, i).next = At(q, i).next
       /\ At(r, i).slot = IF At(q, i).slot \in gone THEN None ELSE At(q, i).slot

LEMMA BlankedCalls ==
  ASSUME NEW q, Tidy(q), Ordered(q), NEW r, Tidy(r), NEW gone, Blanks(q, r, gone)
  PROVE  /\ Connected(r) = Left(Connected(q), gone)
         /\ \A from, end : Reaches(q, from, end) =>
              /\ Reaches(r, from, end)
              /\ CalledFrom(r, from, end) = Left(CalledFrom(q, from, end), gone)
<1>1. PICK behind : Orders(q, behind) /\ Orders(r, behind)
  BY DEF Ordered, Blanks
<1>0. /\ InList(r) = InList(q) /\ r.head = q.head
      /\ \A behind2 : Orders(q, behind2) => Orders(r, behind2)
      /\ \A i \in InList(q) :
           /\ At(r, i).next = At(q, i).next
           /\ At(r, i).slot = IF At(q, i).slot \in gone THEN None ELSE At(q, i).slot
  BY DEF Blanks
<1>2. \A end : \A i \in InList(q) \cup {INVALID_INDEX} :
           CalledFrom(r, i, end) = Left(CalledFrom(q, i, end), gone)
  BY <1>0, <1>1, CallsBlanked
<1>3. q.head \in InList(q) \cup {INVALID_INDEX}
  BY <1>1, RestOfList
<1>4. Connected(r) = Left(Connected(q), gone)
  BY <1>0, <1>2, <1>3 DEF Connected
<1>5. ASSUME NEW from, NEW end, Reaches(q, from, end)
      PROVE  from \in InList(q) \cup {INVALID_INDEX} /\ Reaches(r, from, end)
  BY <1>0, <1>5 DEF Reaches
<1> QED
  BY <1>2, <1>4, <1>5

LEMMA SameCalls ==
  ASSUME NEW q, Tidy(q), Ordered(q), NEW r \in Pool, SameList(q, r)
  PROVE  /\ Connected(r) = Connected(q)
         /\ \A from, end : Reaches(q, from, end) =>
              /\ Reaches(r, from, end)
              /\ CalledFrom(r, from, end) = CalledFrom(q, from, end)
<1>1. /\ Tidy(r) /\ InList(r) = InList(q) /\ (\A i : At(r, i) = At(q, i))
      /\ \A behind : Orders(q, behind) => Orders(r, behind)
  BY SameListFacts
<1>2. r.head = q.head
  BY DEF SameList
<1>3. PICK gone : gone = {}
  OBVIOUS
<1>4. Blanks(q, r, gone)
  BY <1>1, <1>2, <1>3 DEF Blanks
<1>5. /\ Connected(r) = Left(Connected(q), gone)
      /\ \A from, end : Reaches(q, from, end) =>
           /\ Reaches(r, from, end)
           /\ CalledFrom(r, from, end) = Left(CalledFrom(q, from, end), gone)
  BY <1>1, <1>4, BlankedCalls
<1>6. \A s \in Seq(Slots) : Left(s, gone) = s
  BY <1>3, LeftFacts
<1>7. /\ Connected(q) \in Seq(Slots)
      /\ \A from, end : Reaches(q, from, end) => CalledFrom(q, from, end) \in Seq(Slots)
  BY CallsAreSlots
<1>8. Connected(r) = Connected(q)
  BY <1>5, <1>6, <1>7
<1>9. ASSUME NEW from, NEW end, Reaches(q, from, end)
      PROVE  Reaches(r, from, end) /\ CalledFrom(r, from, end) = CalledFrom(q, from, end)
  BY <1>5, <1>6, <1>7, <1>9
<1> QED
  BY <1>8, <1>9

\* Losing some slots and then others is losing them all.
LEMMA LosesOn ==
  ASSUME NEW q, Tidy(q), Ordered(q), NEW r, NEW u, NEW gone, NEW more,
         Loses(q, r, gone), Loses(r, u, more), Grows(q, r)
  PROVE  Loses(q, u, gone \cup more)
<1>1. /\ Connected(q) \in Seq(Slots)
      /\ \A from, end : Reaches(q, from, end) => CalledFrom(q, from, end) \in Seq(Slots)
  BY CallsAreSlots
<1>2. ASSUME NEW s \in Seq(Slots) PROVE Left(Left(s, gone), more) = Left(s, gone \cup more)
  BY LeftTwice
<1>3. Connected(u) = Left(Connected(q), gone \cup more)
  BY <1>1, <1>2 DEF Loses
<1>4. ASSUME q.emitting, NEW from, NEW end, Reaches(q, from, end)
      PROVE  CalledFrom(u, from, end) = Left(CalledFrom(q, from, end), gone \cup more)
  <2>1. r.emitting /\ Reaches(r, from, end)
    BY <1>4 DEF Grows
  <2>2. /\ CalledFrom(r, from, end) = Left(CalledFrom(q, from, end), gone)
        /\ CalledFrom(u, from, end) = Left(CalledFrom(r, from, end), more)
    BY <1>4, <2>1 DEF Loses
  <2> QED
    BY <1>1, <1>2, <1>4, <2>2
<1> QED
  BY <1>3, <1>4 DEF Loses

\* What is not connected cannot be lost.
LEMMA LosesNothing ==
  ASSUME NEW q, Base(q), NEW gone, gone \cap SlotsOf(q) = {}, gone \subseteq Slots
  PROVE  Loses(q, q, gone)
<1>1. Tidy(q) /\ Ordered(q)
  BY DEF Base
<1>2. ASSUME NEW i \in InList(q) PROVE At(q, i).slot \notin gone
  <2>1. CASE At(q, i).slot = None
    BY <2>1, SignalAssumption
  <2>2. CASE At(q, i).slot # None
    <3>1. i \in LiveNodes(q)
      BY <1>1, <2>2, LiveFacts DEF InList
    <3> QED
      BY <3>1 DEF SlotsOf
  <2> QED
    BY <2>1, <2>2
<1>3. /\ Connected(q) = Left(Connected(q), gone)
      /\ \A from, end : Reaches(q, from, end) =>
           /\ Reaches(q, from, end)
           /\ CalledFrom(q, from, end) = Left(CalledFrom(q, from, end), gone)
  <2>1. Blanks(q, q, gone)
    BY <1>2 DEF Blanks
  <2> QED
    BY <1>1, <2>1, BlankedCalls
<1> QED
  BY <1>3 DEF Loses

\* A callback that is not connected is connected behind all others.
LEMMA OnConnectFacts ==
  ASSUME NEW q, Settled(q), NEW slot \in Slots, slot \notin SlotsOf(q),
         q.free # << >> \/ Len(q.node) < IndexLimit, NEW r, r = OnConnect(q, slot)
  PROVE  /\ Settled(r) /\ SlotsOf(r) = SlotsOf(q) \cup {slot}
         /\ Grows(q, r) /\ Gains(q, r, slot)
         /\ Len(r.node) = IF q.free = << >> THEN Len(q.node) + 1 ELSE Len(q.node)
<1>1. PICK i, a : i = Place(q) /\ a = Allocate(q, slot)
  OBVIOUS
<1>2. Tidy(q) /\ Base(q) /\ q \in Pool
  BY DEF Settled, Base, Tidy
<1>3. /\ Tidy(a) /\ SameBooks(q, a) /\ a.head = q.head /\ a.tail = q.tail
      /\ i \notin InList(q) /\ InList(a) = InList(q) \cup {i} /\ i \in Places(a)
      /\ Places(q) \subseteq Places(a) /\ (i \in Places(q) => At(q, i).slot = None)
      /\ Places(a) \subseteq Places(q) \cup {i}
      /\ \A j \in Places(q) : j # i => At(a, j) = At(q, j)
      /\ At(a, i).slot = slot
      /\ Len(a.node) = IF q.free = << >> THEN Len(q.node) + 1 ELSE Len(q.node)
  BY <1>1, <1>2, AllocateFacts
<1>4. PICK active, m : active = a.active + 1 /\ m = [a EXCEPT !.active = active]
  OBVIOUS
<1>5. /\ m \in Pool /\ SameList(a, m) /\ m.active = q.active + 1 /\ m.nulls = q.nulls
      /\ m.emitting = q.emitting /\ m.hasCache = q.hasCache /\ m.cache = q.cache
  <2>1. a \in Pool /\ a.active \in Nat /\ active \in Nat
    BY <1>3, <1>4 DEF Tidy, Pool
  <2>2. /\ a.active = q.active /\ a.nulls = q.nulls /\ a.emitting = q.emitting
        /\ a.hasCache = q.hasCache /\ a.cache = q.cache
    BY <1>3 DEF SameBooks
  <2> QED
    BY <1>4, <2>1, <2>2 DEF Pool, SameList
<1>6. /\ Tidy(m) /\ Len(m.node) = Len(a.node) /\ Places(m) = Places(a) /\ InList(m) = InList(a)
      /\ \A j : At(m, j) = At(a, j)
  BY <1>3, <1>5, SameListFacts
<1>7. PICK n : n = AppendToEmitList(m, i)
  OBVIOUS
<1>8. PICK behind : Orders(q, behind)
  BY <1>2 DEF Base, Ordered
<1>9. q.tail \in InList(q) \cup {INVALID_INDEX} /\ INVALID_INDEX \notin InList(q)
  BY <1>2, <1>8, NodeFacts DEF Orders, Linked, IsLast, InList
<1>10. /\ m.tail = q.tail /\ m.head = q.head
       /\ m.tail \in (Places(m) \ {i}) \cup {INVALID_INDEX} /\ i \in Places(m)
  BY <1>3, <1>5, <1>6, <1>9 DEF SameList, InList
<1>11. NodeToIndex(i) = i
  <2>1. i \in Nat /\ i < IndexLimit
    <3>1. Len(a.node) \in Nat /\ Len(a.node) <= IndexLimit /\ Len(q.node) \in Nat
      BY <1>2, <1>3, NodeFacts, SignalAssumption DEF Base, Tidy
    <3>2. i \in 0 .. Len(a.node) - 1 /\ IndexLimit \in Nat
      BY <1>3, SignalAssumption DEF Places
    <3> QED
      BY <3>1, <3>2
  <2> QED
    BY <2>1, SignalAssumption DEF NodeToIndex
<1>12. /\ n \in Pool /\ Len(n.node) = Len(m.node) /\ Places(n) = Places(m) /\ SameBooks(m, n)
       /\ n.free = m.free
       /\ \A j \in Places(m) : At(n, j).slot = At(m, j).slot
       /\ \A j \in Places(m) \ {i} : /\ At(n, j).next = IF j = q.tail THEN i ELSE At(m, j).next
                                     /\ At(n, j).prev = At(m, j).prev
       /\ At(n, i).next = INVALID_INDEX /\ At(n, i).prev = q.tail
       /\ n.head = IF q.tail = INVALID_INDEX THEN i ELSE q.head
       /\ n.tail = i
  BY <1>5, <1>7, <1>10, <1>11, AppendLinks
<1>13. Tidy(n) /\ InList(n) = InList(q) \cup {i}
  BY <1>3, <1>6, <1>12 DEF Tidy, InList
<1>14. ASSUME NEW order, Orders(q, order) PROVE Orders(n, Lengthened(i, InList(q), order))
  <2>1. /\ \A j \in InList(q) : /\ Prevs(n)[j] = Prevs(q)[j]
                                /\ Nexts(n)[j] = IF j = q.tail THEN i ELSE Nexts(q)[j]
        /\ Nexts(n)[i] = INVALID_INDEX /\ Prevs(n)[i] = q.tail
    BY <1>3, <1>6, <1>12, <1>13 DEF Nexts, Prevs, InList
  <2>2. Linked(InList(q), order, Nexts(q), Prevs(q), q.head, q.tail) /\ i # INVALID_INDEX
    BY <1>3, <1>5, <1>6, <1>14, NodeFacts DEF Orders
  <2>3. Linked(InList(q) \cup {i}, Lengthened(i, InList(q), order), Nexts(n), Prevs(n), n.head, n.tail)
    <3>1. LinksBehind(i, InList(q), Nexts(q), Prevs(q), q.head, q.tail, Nexts(n), Prevs(n), n.head, n.tail)
      BY <1>3, <1>12, <2>1, <2>2 DEF LinksBehind
    <3> QED
      BY <1>9, <2>2, <3>1, LinkedAppend
  <2> QED
    BY <2>3, <1>13 DEF Orders
<1>15. /\ LiveNodes(n) = LiveNodes(q) \cup {i} /\ i \notin LiveNodes(q)
       /\ \A j \in LiveNodes(q) : At(n, j).slot = At(q, j).slot
       /\ At(n, i).slot = slot
  <2>1. /\ LiveNodes(q) = {j \in Places(q) : At(q, j).slot # None}
        /\ LiveNodes(n) = {j \in Places(n) : At(n, j).slot # None} /\ slot # None
        /\ LiveNodes(q) \subseteq InList(q)
    BY <1>2, <1>13, LiveFacts, SignalAssumption
  <2>2. Places(n) = Places(q) \cup {i} /\ \A j \in Places(q) : j # i => At(n, j).slot = At(q, j).slot
    BY <1>3, <1>6, <1>12
  <2>3. At(n, i).slot = slot /\ i \notin LiveNodes(q)
    BY <1>3, <1>6, <1>12, <2>1
  <2> QED
    BY <2>1, <2>2, <2>3
<1>16. Emptied(n) = Emptied(q)
  <2>1. \A j \in InList(q) : At(n, j).slot = At(q, j).slot
    BY <1>3, <1>6, <1>12 DEF InList
  <2> QED
    BY <1>13, <1>15, <2>1, SignalAssumption DEF Emptied
<1>17. Cardinality(LiveNodes(n)) = Cardinality(LiveNodes(q)) + 1
  BY <1>2, <1>15, LiveFacts, FS_AddElement
<1>18. Entries(n) = Entries(q) \cup {<< slot, i >>} /\ LiveNodes(n) \subseteq Nat
  BY <1>13, <1>15, LiveFacts DEF Entries
<1>19. r = Cached(n, slot, i)
  BY <1>1, <1>4, <1>7 DEF OnConnect
<1>20. /\ r \in Pool /\ SameList(n, r) /\ r.active = n.active /\ r.nulls = n.nulls
       /\ r.emitting = n.emitting /\ (r.hasCache => r.cache = Entries(n))
  <2>1. Entries(n) \in SUBSET (Slots \X Nat)
    BY <1>13, LiveFacts DEF Entries
  <2>2. CASE n.hasCache
    <3>1. PICK cache : cache = n.cache \cup {<< slot, i >>}
      OBVIOUS
    <3>2. r = [n EXCEPT !.cache = cache]
      BY <1>19, <2>2, <3>1 DEF Cached
    <3>3. cache = Entries(n)
      BY <1>2, <1>5, <1>12, <1>18, <2>2, <3>1 DEF Base, Exact, SameBooks
    <3> QED
      BY <1>12, <2>1, <3>2, <3>3 DEF Pool, SameList
  <2>3. CASE ~n.hasCache /\ r = n
    BY <1>12, <2>3 DEF SameList
  <2>4. CASE ~n.hasCache /\ r # n
    <3>1. PICK cache : cache = Entries(n)
      OBVIOUS
    <3>2. r = [n EXCEPT !.hasCache = TRUE, !.cache = cache]
      BY <1>19, <2>4, <3>1 DEF Cached, Entries
    <3> QED
      BY <1>12, <2>1, <3>1, <3>2 DEF Pool, SameList
  <2> QED
    BY <2>2, <2>3, <2>4
<1>21. /\ Tidy(r) /\ Len(r.node) = Len(n.node) /\ LiveNodes(r) = LiveNodes(n)
       /\ Emptied(r) = Emptied(n) /\ (\A j : At(r, j) = At(n, j)) /\ Ordered(r)
       /\ InList(r) = InList(n)
  <2>1. Ordered(n)
    BY <1>8, <1>14 DEF Ordered
  <2> QED
    BY <1>13, <1>20, <2>1, SameListFacts DEF Ordered
<1>22. Single(r)
  BY <1>2, <1>15, <1>21 DEF Base, Single, SlotsOf
<1>23. Exact(r) /\ Counted(r)
  BY <1>2, <1>5, <1>12, <1>17, <1>20, <1>21 DEF Exact, Entries, Counted, Base, SameBooks
<1>24. SlotsOf(r) = SlotsOf(q) \cup {slot}
  BY <1>15, <1>21 DEF SlotsOf
<1>25. Len(r.node) = Len(a.node) /\ Len(a.node) <= IndexLimit
  <2>1. Len(q.node) \in Nat /\ Len(q.node) <= IndexLimit /\ IndexLimit \in Nat
    BY <1>2, NodeFacts, SignalAssumption DEF Base
  <2> QED
    BY <1>3, <1>6, <1>12, <1>21, <2>1
<1>26. r.nulls = q.nulls /\ r.emitting = q.emitting
  BY <1>5, <1>12, <1>20 DEF SameBooks
<1>27. Grows(q, r) /\ Gains(q, r, slot)
  <2>1. Appends(q, n, i, slot)
    <3>1. i # INVALID_INDEX
      BY <1>3, <1>5, <1>6, NodeFacts
    <3>2. ASSUME NEW j \in InList(q)
          PROVE  /\ At(n, j).slot = At(q, j).slot
                 /\ At(n, j).next = IF j = q.tail THEN i ELSE At(q, j).next
      BY <1>3, <1>6, <1>12 DEF InList
    <3> QED
      BY <1>3, <1>12, <1>13, <1>14, <1>15, <3>1, <3>2 DEF Appends
  <2>2. Ordered(q) /\ Ordered(n)
    BY <1>8, <1>14 DEF Ordered
  <2>3. Gains(q, n, slot) /\ \A from, end : Reaches(q, from, end) => Reaches(n, from, end)
    BY <1>2, <1>13, <2>1, <2>2, AppendedCalls
  <2>4. /\ Connected(r) = Connected(n)
        /\ \A from, end : Reaches(n, from, end) =>
             /\ Reaches(r, from, end)
             /\ CalledFrom(r, from, end) = CalledFrom(n, from, end)
    BY <1>13, <1>20, <2>2, SameCalls
  <2>5. Grows(q, r)
    BY <1>13, <1>21, <1>26, <2>3, <2>4 DEF Grows
  <2>6. Gains(q, r, slot)
    BY <2>3, <2>4 DEF Gains
  <2> QED
    BY <2>5, <2>6
<1>28. q.nulls = Cardinality(Emptied(q)) /\ (~q.emitting => q.nulls = 0)
  BY DEF Settled
<1>29. Len(r.node) <= IndexLimit /\ r.nulls = Cardinality(Emptied(r)) /\ (~r.emitting => r.nulls = 0)
  BY <1>16, <1>21, <1>25, <1>26, <1>28
<1>30. Settled(r)
  BY <1>21, <1>22, <1>23, <1>29 DEF Settled, Base
<1> QED
  BY <1>3, <1>24, <1>25, <1>27, <1>30
\* What is left when live node i, and nothing else, is live no more.
LEMMA RemovedFacts ==
  ASSUME NEW q, Base(q), NEW i \in LiveNodes(q), NEW slot, slot = At(q, i).slot,
         NEW r, Tidy(r), LiveNodes(r) = LiveNodes(q) \ {i},
         \A j \in LiveNodes(r) : At(r, j).slot = At(q, j).slot,
         r.active = q.active - 1, r.hasCache = q.hasCache,
         r.cache = {c \in q.cache : c[1] # slot}
  PROVE  Single(r) /\ Exact(r) /\ Counted(r) /\ SlotsOf(r) = SlotsOf(q) \ {slot}
<1>1. Tidy(q) /\ Single(q) /\ Exact(q) /\ Counted(q)
  BY DEF Base
<1>2. \A j \in LiveNodes(q) : At(q, j).slot = slot => j = i
  BY <1>1 DEF Single
<1>3. Single(r) /\ SlotsOf(r) = SlotsOf(q) \ {slot}
  BY <1>1, <1>2 DEF Single, SlotsOf
<1>4. Cardinality(LiveNodes(r)) = Cardinality(LiveNodes(q)) - 1
  BY <1>1, LiveFacts, FS_RemoveElement
<1>5. Counted(r)
  BY <1>1, <1>4 DEF Counted
<1>6. ASSUME r.hasCache PROVE r.cache = Entries(r)
  <2>1. q.cache = Entries(q)
    BY <1>1, <1>6 DEF Exact
  <2>2. ASSUME NEW c \in r.cache PROVE c \in Entries(r)
    <3>1. PICK j \in LiveNodes(q) : c = << At(q, j).slot, j >>
      BY <2>1 DEF Entries
    <3>2. j # i
      BY <3>1
    <3> QED
      BY <3>1, <3>2 DEF Entries
  <2>3. ASSUME NEW c \in Entries(r) PROVE c \in r.cache
    <3>1. PICK j \in LiveNodes(r) : c = << At(r, j).slot, j >>
      BY DEF Entries
    <3>2. c = << At(q, j).slot, j >> /\ j \in LiveNodes(q) /\ At(q, j).slot # slot
      BY <1>2, <3>1
    <3> QED
      BY <2>1, <3>2 DEF Entries
  <2> QED
    BY <2>2, <2>3
<1>7. Exact(r)
  BY <1>6 DEF Exact
<1> QED
  BY <1>3, <1>5, <1>7

\* A connection that is deleted during an emission leaves an empty node in the
\* list; otherwise its node goes back to the pool.
LEMMA DeleteFacts ==
  ASSUME NEW q, Settled(q), NEW i \in LiveNodes(q), NEW r, r = DeleteConnection(q, i)
  PROVE  /\ Settled(r) /\ SlotsOf(r) = SlotsOf(q) \ {At(q, i).slot}
         /\ Len(r.node) = Len(q.node) /\ Grows(q, r) /\ Loses(q, r, {At(q, i).slot})
<1>1. /\ Base(q) /\ Tidy(q) /\ q \in Pool /\ Ordered(q) /\ Counted(q) /\ Len(q.node) <= IndexLimit
      /\ q.nulls = Cardinality(Emptied(q)) /\ (~q.emitting => q.nulls = 0)
  BY DEF Settled, Base, Tidy
<1>2. /\ i \in InList(q) /\ i \in Places(q) /\ At(q, i).slot # None /\ i \notin Emptied(q)
      /\ At(q, i) \in PoolNode /\ At(q, i) = q.node[i + 1]
  BY <1>1, LiveFacts, NodeFacts DEF Emptied
<1>3. PICK slot, active, cache : /\ slot = At(q, i).slot /\ active = q.active - 1
                                 /\ cache = {c \in q.cache : c[1] # slot}
  OBVIOUS
<1>4. PICK u : u = [q EXCEPT !.cache = cache, !.active = active]
  OBVIOUS
<1>5. active \in Nat
  <2>1. Cardinality(LiveNodes(q)) # 0 /\ Cardinality(LiveNodes(q)) \in Nat
    BY <1>1, LiveFacts, FS_EmptySet
  <2> QED
    BY <1>1, <1>3, <2>1 DEF Counted
<1>6. /\ u \in Pool /\ SameList(q, u) /\ u.active = active /\ u.nulls = q.nulls
      /\ u.emitting = q.emitting /\ u.hasCache = q.hasCache /\ u.cache = cache
  BY <1>1, <1>3, <1>4, <1>5 DEF Pool, SameList
<1>7. /\ Tidy(u) /\ Len(u.node) = Len(q.node) /\ Places(u) = Places(q) /\ InList(u) = InList(q)
      /\ \A j : At(u, j) = At(q, j)
      /\ \A behind : Orders(q, behind) => Orders(u, behind)
  BY <1>1, <1>6, SameListFacts
<1>8. r = IF q.emitting THEN [u EXCEPT !.node[i + 1].slot = None, !.nulls = q.nulls + 1]
                        ELSE Free(UnlinkFromEmitList(u, i), i)
  BY <1>1, <1>3, <1>4, <1>6 DEF DeleteConnection, Uncached, Pool
<1>9. PICK behind : Orders(q, behind) /\ Orders(u, behind)
  BY <1>1, <1>7 DEF Ordered
<1>12. \A j \in InList(q) : At(q, j).slot \in {slot} <=> j = i
  <2>1. ASSUME NEW j \in InList(q), At(q, j).slot = slot PROVE j = i
    <3>1. j \in LiveNodes(q)
      BY <1>1, <1>2, <1>3, <2>1, LiveFacts DEF InList
    <3> QED
      BY <1>1, <1>3, <2>1, <3>1 DEF Base, Single
  <2> QED
    BY <1>3, <2>1
<1>10. CASE q.emitting
  <2>1. PICK x, m, nulls : /\ x = [At(q, i) EXCEPT !.slot = None]
                           /\ m = [u EXCEPT !.node[i + 1] = x] /\ nulls = q.nulls + 1
    OBVIOUS
  <2>2. x \in PoolNode /\ x.slot = None /\ x.next = At(q, i).next /\ x.prev = At(q, i).prev
    BY <1>2, <2>1 DEF PoolNode
  <2>3. /\ m \in Pool /\ Len(m.node) = Len(u.node) /\ Places(m) = Places(u) /\ SameBooks(u, m)
        /\ m.free = u.free /\ m.head = u.head /\ m.tail = u.tail
        /\ \A j \in Places(u) : At(m, j) = IF j = i THEN x ELSE At(u, j)
    BY <1>2, <1>6, <1>7, <2>1, <2>2, PoolChanges
  <2>4. r = [m EXCEPT !.nulls = nulls]
    <3>1. u.node[i + 1] = q.node[i + 1]
      BY <1>6 DEF SameList
    <3> QED
      BY <1>2, <1>6, <1>8, <1>10, <2>1, <3>1 DEF Pool
  <2>5. /\ r \in Pool /\ r.node = m.node /\ r.free = m.free /\ r.head = m.head /\ r.tail = m.tail
        /\ r.active = m.active /\ r.emitting = m.emitting /\ r.hasCache = m.hasCache
        /\ r.cache = m.cache /\ r.nulls = nulls
    <3>1. nulls \in Nat
      BY <1>1, <2>1 DEF Pool
    <3> QED
      BY <2>3, <2>4, <3>1 DEF Pool
  <2>6. /\ Places(r) = Places(q) /\ InList(r) = InList(q) /\ Len(r.node) = Len(q.node)
        /\ \A j \in Places(q) : At(r, j) = IF j = i THEN x ELSE At(q, j)
        /\ r.free = q.free /\ r.head = q.head /\ r.tail = q.tail
    BY <1>6, <1>7, <2>3, <2>5 DEF Places, InList, At, SameList
  <2>7. Tidy(r)
    BY <1>1, <2>2, <2>5, <2>6 DEF Tidy
  <2>8. Nexts(r) = Nexts(q) /\ Prevs(r) = Prevs(q)
    <3>1. \A j \in InList(q) : At(r, j).next = At(q, j).next /\ At(r, j).prev = At(q, j).prev
      BY <2>2, <2>6 DEF InList
    <3> QED
      BY <2>6, <3>1 DEF Nexts, Prevs
  <2>9. Ordered(r)
    BY <1>9, <2>6, <2>8 DEF Orders, Ordered
  <2>10. LiveNodes(r) = LiveNodes(q) \ {i} /\ \A j \in LiveNodes(r) : At(r, j).slot = At(q, j).slot
    BY <1>1, <2>2, <2>6, <2>7, LiveFacts
  <2>11. Emptied(r) = Emptied(q) \cup {i}
    BY <1>2, <2>2, <2>6 DEF Emptied, InList
  <2>12. Cardinality(Emptied(r)) = Cardinality(Emptied(q)) + 1
    <3>1. IsFiniteSet(Emptied(q)) /\ i \notin Emptied(q)
      BY <1>1, <1>2, LiveFacts
    <3> QED
      BY <2>11, <3>1, FS_AddElement
  <2>13. /\ r.active = q.active - 1 /\ r.hasCache = q.hasCache /\ r.cache = cache
         /\ r.emitting = q.emitting /\ r.nulls = Cardinality(Emptied(r))
    BY <1>1, <1>3, <1>6, <2>1, <2>3, <2>5, <2>12 DEF SameBooks
  <2>14. Single(r) /\ Exact(r) /\ Counted(r) /\ SlotsOf(r) = SlotsOf(q) \ {slot}
    BY <1>1, <1>3, <2>7, <2>10, <2>13, RemovedFacts
  <2>15. /\ Connected(r) = Left(Connected(q), {slot})
         /\ \A from, end : Reaches(q, from, end) =>
              /\ Reaches(r, from, end)
              /\ CalledFrom(r, from, end) = Left(CalledFrom(q, from, end), {slot})
    <3>1. \A b : Orders(q, b) => Orders(r, b)
      BY <2>6, <2>8 DEF Orders
    <3>2. ASSUME NEW j \in InList(q)
          PROVE  /\ At(r, j).next = At(q, j).next
                 /\ At(r, j).slot = IF At(q, j).slot \in {slot} THEN None ELSE At(q, j).slot
      BY <1>12, <2>2, <2>6 DEF InList
    <3>3. Blanks(q, r, {slot})
      BY <2>6, <3>1, <3>2 DEF Blanks
    <3>4. Tidy(q) /\ Ordered(q) /\ Tidy(r)
      BY <1>1, <2>7
    <3> HIDE <1>10
    <3> QED
      BY <3>3, <3>4, BlankedCalls
  <2>16. Grows(q, r) /\ Loses(q, r, {slot})
    BY <2>6, <2>13, <2>15 DEF Grows, Loses
  <2> QED
    BY <1>1, <1>3, <1>10, <2>6, <2>7, <2>9, <2>13, <2>14, <2>16 DEF Settled, Base
<1>11. CASE ~q.emitting
  <2>1. PICK b : b = Without(i, InList(u), behind)
    OBVIOUS
  <2>2. r = Free(UnlinkFromEmitList(u, i), i) /\ i \in InList(u)
    BY <1>2, <1>7, <1>8, <1>11
  <2>3. /\ Tidy(r) /\ Len(r.node) = Len(u.node) /\ Places(r) = Places(u) /\ SameBooks(u, r)
        /\ InList(r) = InList(u) \ {i}
        /\ \A j \in Places(u) : At(r, j).slot = IF j = i THEN None ELSE At(u, j).slot
        /\ Orders(r, b)
    BY <1>7, <1>9, <2>1, <2>2, Releases
  <2>4. LiveNodes(r) = LiveNodes(q) \ {i} /\ \A j \in LiveNodes(r) : At(r, j).slot = At(q, j).slot
    BY <1>1, <1>7, <2>3, LiveFacts
  <2>5. Emptied(r) = {} /\ Cardinality(Emptied(r)) = 0
    <3>1. Emptied(q) = {}
      BY <1>1, <1>11, LiveFacts, FS_EmptySet
    <3>2. Emptied(r) = {}
      BY <1>7, <2>3, <3>1 DEF Emptied, InList
    <3> QED
      BY <3>2, FS_EmptySet
  <2>6. /\ r.active = q.active - 1 /\ r.hasCache = q.hasCache /\ r.cache = cache
        /\ r.emitting = q.emitting /\ r.nulls = q.nulls
    BY <1>3, <1>6, <2>3 DEF SameBooks
  <2>7. Single(r) /\ Exact(r) /\ Counted(r) /\ SlotsOf(r) = SlotsOf(q) \ {slot}
    BY <1>1, <1>3, <2>3, <2>4, <2>6, RemovedFacts
  <2>8. Ordered(r) /\ Len(r.node) = Len(q.node)
    BY <1>7, <2>3 DEF Ordered
  <2>9. Grows(q, r) /\ Loses(q, r, {slot})
    <3>1. Connected(u) = Connected(q)
      BY <1>1, <1>6, SameCalls
    <3>2. Connected(r) = Left(Connected(u), {slot})
      <4>1. Orders(u, behind) /\ Orders(r, Without(i, InList(u), behind)) /\ Tidy(u) /\ Tidy(r)
        BY <1>7, <1>9, <2>1, <2>3
      <4>2. /\ InList(r) = InList(u) \ {i} /\ i \in InList(u)
            /\ At(u, i).slot = None \/ At(u, i).slot \in {slot}
        BY <1>2, <1>3, <1>7, <2>3
      <4>3. \A j \in InList(r) : At(r, j).slot = At(u, j).slot /\ At(u, j).slot \notin {slot}
        BY <1>7, <1>12, <2>3 DEF InList
      <4> QED
        BY <4>1, <4>2, <4>3, CallsUnlinked
    <3> QED
      BY <1>11, <2>6, <3>1, <3>2 DEF Grows, Loses
  <2> QED
    BY <1>1, <1>3, <1>11, <2>3, <2>5, <2>6, <2>7, <2>8, <2>9 DEF Settled, Base
<1> QED
  BY <1>10, <1>11
-----------------------------------------------------------------------------
(***************************************************************************)
(* CleanupConnections.                                                     *)
(***************************************************************************)

\* The loop has only seen nodes that it has kept or freed, and finds them all
\* in so many turns.
Stands(w, k, behind) ==
  LET p == w.pool
  IN /\ Orders(p, behind) /\ w.at \in InList(p) \cup {INVALID_INDEX}
     /\ Emptied(p) \subseteq Rest(w.at, behind) /\ w.left = Cardinality(Emptied(p))
     /\ \/ w.at = INVALID_INDEX \/ w.left = 0
        \/ Cardinality(Rest(w.at, behind)) + k <= Len(p.node)

\* The loop changes nothing but the links and the free list.
Cleans(q, p) ==
  /\ Connected(p) = Connected(q) /\ Tidy(p) /\ Len(p.node) = Len(q.node) /\ SameBooks(q, p)
  /\ LiveNodes(p) = LiveNodes(q) /\ \A j \in LiveNodes(q) : At(p, j).slot = At(q, j).slot

LEMMA OneTurn ==
  ASSUME NEW q, NEW w, Cleans(q, w.pool), NEW k \in Nat, NEW behind, Stands(w, k, behind),
         NEW v, v = CleanupTurn(w)
  PROVE  Cleans(q, v.pool) /\ \E b : Stands(v, k + 1, b)
<1>1. CASE w.at = INVALID_INDEX \/ w.left = 0
  <2>1. v = w
    BY <1>1 DEF CleanupTurn
  <2>2. Stands(w, k + 1, behind)
    BY <1>1 DEF Stands
  <2> QED
    BY <2>1, <2>2
<1>2. CASE w.at # INVALID_INDEX /\ w.left # 0
  <2>1. PICK p, at, next, left : /\ p = w.pool /\ at = w.at /\ left = w.left /\ next = At(p, at).next
    OBVIOUS
  <2>2. /\ Tidy(p) /\ Orders(p, behind) /\ at \in InList(p) /\ Emptied(p) \subseteq Rest(at, behind)
        /\ left = Cardinality(Emptied(p)) /\ Cardinality(Rest(at, behind)) + k <= Len(p.node)
        /\ Len(p.node) \in Nat
    BY <1>2, <2>1, LiveFacts, NodeFacts DEF Stands, Cleans, Tidy
  <2>3. /\ next \in (InList(p) \ {at}) \cup {INVALID_INDEX} /\ Rest(next, behind) = behind[at]
        /\ behind[at] \subseteq InList(p) /\ at \notin behind[at] /\ at # INVALID_INDEX
        /\ \A i \in InList(p) : behind[i] \subseteq InList(p)
    BY <2>1, <2>2, RestOfList
  <2>4. /\ Rest(at, behind) = behind[at] \cup {at} /\ IsFiniteSet(behind[at])
        /\ Cardinality(behind[at]) \in Nat
        /\ Cardinality(Rest(at, behind)) = Cardinality(behind[at]) + 1
    <3>1. IsFiniteSet(InList(p))
      BY <2>2, LiveFacts
    <3>2. IsFiniteSet(behind[at]) /\ Cardinality(behind[at]) \in Nat
      BY <2>3, <3>1, FS_Subset, FS_CardinalityType
    <3>3. Rest(at, behind) = behind[at] \cup {at}
      BY <2>3 DEF Rest
    <3> QED
      BY <2>3, <3>2, <3>3, FS_AddElement
  <2>5. Cardinality(behind[at]) + (k + 1) <= Len(p.node)
    BY <2>2, <2>4
  <2>6. CASE At(p, at).slot # None
    <3>1. v = [w EXCEPT !.at = next]
      BY <1>2, <2>1, <2>6 DEF CleanupTurn
    <3>2. v.pool = p /\ v.at = next /\ v.left = left
      BY <2>1, <3>1
    <3>3. Emptied(p) \subseteq behind[at]
      BY <2>2, <2>4, <2>6 DEF Emptied
    <3>4. Stands(v, k + 1, behind)
      BY <2>2, <2>3, <2>5, <3>2, <3>3 DEF Stands
    <3> QED
      BY <2>1, <3>2, <3>4
  <2>7. CASE At(p, at).slot = None
    <3>0. PICK b : b = Without(at, InList(p), behind)
      OBVIOUS
    <3>1. PICK r : r = Free(UnlinkFromEmitList(p, at), at)
      OBVIOUS
    <3>2. v = [pool |-> r, at |-> next, left |-> left - 1]
      BY <1>2, <2>1, <2>7, <3>1 DEF CleanupTurn
    <3>3. v.pool = r /\ v.at = next /\ v.left = left - 1
      BY <3>2
    <3>4. /\ Tidy(r) /\ Len(r.node) = Len(p.node) /\ Places(r) = Places(p) /\ SameBooks(p, r)
          /\ InList(r) = InList(p) \ {at}
          /\ \A j \in Places(p) : At(r, j).slot = IF j = at THEN None ELSE At(p, j).slot
          /\ Orders(r, b)
      <4>1. Tidy(p) /\ Orders(p, behind) /\ at \in InList(p)
        BY <2>2
      <4> HIDE <2>2
      <4> QED
        BY <3>0, <3>1, <4>1, Releases
    <3>5. LiveNodes(r) = LiveNodes(p) /\ \A j \in LiveNodes(p) : At(r, j).slot = At(p, j).slot
      BY <2>2, <2>7, <3>4, LiveFacts
    <3>12. Connected(r) = Connected(p)
      <4>1. PICK gone : gone = {}
        OBVIOUS
      <4>2. Tidy(p) /\ Orders(p, behind) /\ at \in InList(p) /\ At(p, at).slot = None
        BY <2>2, <2>7
      <4>3. Tidy(r) /\ InList(r) = InList(p) \ {at} /\ Orders(r, Without(at, InList(p), behind))
        BY <3>0, <3>4
      <4>4. \A j \in InList(r) : At(r, j).slot = At(p, j).slot /\ At(p, j).slot \notin gone
        BY <3>4, <4>1 DEF InList
      <4>5. Connected(r) = Left(Connected(p), gone)
        BY <4>2, <4>3, <4>4, CallsUnlinked
      <4>6. Connected(p) \in Seq(Slots)
        BY <4>2, CallsAreSlots DEF Ordered
      <4> QED
        BY <4>1, <4>5, <4>6, LeftFacts
    <3>6. Cleans(q, r)
      BY <2>1, <3>4, <3>5, <3>12 DEF Cleans, SameBooks
    <3>7. Emptied(r) = Emptied(p) \ {at} /\ at \in Emptied(p)
      BY <2>2, <2>7, <3>4 DEF Emptied, InList
    <3>8. Cardinality(Emptied(r)) = left - 1
      BY <2>2, <3>7, LiveFacts, FS_RemoveElement
    <3>9. Rest(next, b) = behind[at]
      <4>1. CASE next = INVALID_INDEX
        BY <2>3, <4>1 DEF Rest
      <4>2. CASE next \in InList(p) \ {at}
        <5>1. b[next] = behind[next] \ {at} /\ next # INVALID_INDEX
          BY <2>2, <3>0, <4>2, RestOfList DEF Without
        <5>2. Rest(next, behind) = {next} \cup behind[next]
          BY <5>1 DEF Rest
        <5> QED
          BY <2>3, <5>1, <5>2 DEF Rest
      <4> QED
        BY <2>3, <4>1, <4>2
    <3>10. Emptied(r) \subseteq Rest(next, b)
      BY <2>2, <2>4, <3>7, <3>9
    <3>11. Stands(v, k + 1, b)
      BY <2>3, <2>5, <3>3, <3>4, <3>8, <3>9, <3>10 DEF Stands
    <3> QED
      BY <3>3, <3>6, <3>11
  <2> QED
    BY <2>6, <2>7
<1> QED
  BY <1>1, <1>2
\* The recursive definition in CleanupTurns has a solution.
Turns(f, q, N) ==
  f = [k \in 0 .. N |-> IF k = 0 THEN [pool |-> q, at |-> q.head, left |-> q.nulls]
                        ELSE CleanupTurn(f[k - 1])]

LEMMA TurnsExist ==
  ASSUME NEW q, NEW N \in Nat
  PROVE  \E f : Turns(f, q, N)
<1> DEFINE P == {n \in Nat : \E f : Turns(f, q, n)}
           start == [pool |-> q, at |-> q.head, left |-> q.nulls]
<1>1. 0 \in P
  <2> DEFINE e == [n \in 0 .. 0 |-> start]
  <2>1. Turns(e, q, 0)
    BY DEF Turns
  <2> QED
    BY <2>1
<1>2. ASSUME NEW n \in Nat, n \in P PROVE n + 1 \in P
  <2>1. PICK f : Turns(f, q, n)
    BY <1>2
  <2> HIDE DEF start
  <2> DEFINE last == CleanupTurn(f[n])
             g == [i \in 0 .. n + 1 |-> IF i = n + 1 THEN last ELSE f[i]]
  <2>2. \A i \in 0 .. n : f[i] = IF i = 0 THEN start ELSE CleanupTurn(f[i - 1])
    BY <2>1 DEF Turns, start
  <2>3. \A i \in 1 .. n + 1 : g[i - 1] = f[i - 1]
    OBVIOUS
  <2>4. ASSUME NEW i \in 0 .. n + 1
        PROVE  g[i] = IF i = 0 THEN start ELSE CleanupTurn(g[i - 1])
    <3>1. CASE i = n + 1
      <4>1. g[i] = last /\ i # 0 /\ g[i - 1] = f[n]
        BY <3>1, <2>3
      <4> HIDE DEF g
      <4> QED
        BY <4>1
    <3>2. CASE i # n + 1
      <4>1. g[i] = f[i] /\ i \in 0 .. n /\ (i # 0 => g[i - 1] = f[i - 1])
        BY <3>2, <2>3
      <4> HIDE DEF g
      <4> QED
        BY <4>1, <2>2
    <3> QED
      BY <3>1, <3>2
  <2>5. g = [i \in 0 .. n + 1 |-> g[i]]
    OBVIOUS
  <2> HIDE DEF g
  <2>6. Turns(g, q, n + 1)
    BY <2>4, <2>5 DEF Turns, start
  <2> QED
    BY <2>6
<1> HIDE DEF P
<1>3. Nat \subseteq P
  BY <1>1, <1>2, Counting
<1> QED
  BY <1>3 DEF P

\* The loop finds every node that the emission left empty, and keeps the rest.
LEMMA CleanupFacts ==
  ASSUME NEW q, Settled(q), NEW p, p = CleanupTurns(q).pool
  PROVE  Cleans(q, p) /\ Ordered(p) /\ Emptied(p) = {}
<1>1. /\ Tidy(q) /\ q \in Pool /\ Ordered(q) /\ q.nulls = Cardinality(Emptied(q))
      /\ Len(q.node) \in Nat
  BY NodeFacts DEF Settled, Base, Tidy
<1> DEFINE turn == CHOOSE f : Turns(f, q, Len(q.node))
<1>2. Turns(turn, q, Len(q.node))
  BY <1>1, TurnsExist
<1>3. CleanupTurns(q) = turn[Len(q.node)]
  BY DEF CleanupTurns, Turns
<1> HIDE DEF turn
<1>4. \A k \in 0 .. Len(q.node) :
        turn[k] = IF k = 0 THEN [pool |-> q, at |-> q.head, left |-> q.nulls] ELSE CleanupTurn(turn[k - 1])
  BY <1>2 DEF Turns
<1> DEFINE P == {k \in Nat : k <= Len(q.node) =>
                   Cleans(q, turn[k].pool) /\ \E behind : Stands(turn[k], k, behind)}
<1>5. 0 \in P
  <2>1. turn[0].pool = q /\ turn[0].at = q.head /\ turn[0].left = q.nulls
    BY <1>1, <1>4
  <2>2. PICK behind : Orders(q, behind)
    BY <1>1 DEF Ordered
  <2>3. Rest(q.head, behind) = InList(q) /\ q.head \in InList(q) \cup {INVALID_INDEX}
    BY <1>1, <2>2, RestOfList
  <2>4. Cardinality(InList(q)) <= Len(q.node) /\ Cardinality(InList(q)) \in Nat
    BY <1>1, LiveFacts
  <2>5. Emptied(q) \subseteq InList(q)
    BY DEF Emptied
  <2>6. Stands(turn[0], 0, behind)
    BY <1>1, <2>1, <2>2, <2>3, <2>4, <2>5 DEF Stands
  <2>7. Cleans(q, q)
    BY <1>1 DEF Cleans, SameBooks
  <2> QED
    BY <2>1, <2>6, <2>7
<1>6. ASSUME NEW k \in Nat, k \in P PROVE k + 1 \in P
  <2> SUFFICES ASSUME k + 1 <= Len(q.node)
               PROVE  Cleans(q, turn[k + 1].pool) /\ \E b : Stands(turn[k + 1], k + 1, b)
    OBVIOUS
  <2>1. PICK w, v : w = turn[k] /\ v = turn[k + 1]
    OBVIOUS
  <2>2. Cleans(q, w.pool) /\ \E behind : Stands(w, k, behind)
    BY <1>1, <1>6, <2>1
  <2>3. PICK behind : Stands(w, k, behind)
    BY <2>2
  <2>4. v = CleanupTurn(w)
    BY <1>1, <1>4, <2>1
  <2>5. Cleans(q, v.pool) /\ \E b : Stands(v, k + 1, b)
    BY <2>2, <2>3, <2>4, OneTurn
  <2> QED
    BY <2>1, <2>5
<1> HIDE DEF P
<1>7. Nat \subseteq P
  BY <1>5, <1>6, Counting
<1>8. PICK w : w = turn[Len(q.node)]
  OBVIOUS
<1>9. Cleans(q, w.pool) /\ p = w.pool /\ \E behind : Stands(w, Len(q.node), behind)
  <2>1. Len(q.node) \in P
    BY <1>1, <1>7
  <2> QED
    BY <1>1, <1>3, <1>8, <2>1 DEF P
<1>10. PICK behind : Stands(w, Len(q.node), behind)
  BY <1>9
<1>11. /\ Orders(p, behind) /\ w.at \in InList(p) \cup {INVALID_INDEX} /\ Tidy(p)
       /\ Emptied(p) \subseteq Rest(w.at, behind) /\ w.left = Cardinality(Emptied(p))
       /\ \/ w.at = INVALID_INDEX \/ w.left = 0
          \/ Cardinality(Rest(w.at, behind)) + Len(q.node) <= Len(q.node)
  BY <1>9, <1>10 DEF Stands, Cleans
<1>12. ASSUME w.at # INVALID_INDEX, Cardinality(Rest(w.at, behind)) + Len(q.node) <= Len(q.node)
       PROVE  FALSE
  <2>1. w.at \in InList(p) /\ behind[w.at] \subseteq InList(p)
    BY <1>11, <1>12, RestOfList
  <2>2. Rest(w.at, behind) = {w.at} \cup behind[w.at]
    BY <1>12 DEF Rest
  <2>3. IsFiniteSet(InList(p))
    BY <1>11, LiveFacts
  <2>4. IsFiniteSet(Rest(w.at, behind)) /\ Rest(w.at, behind) # {}
    BY <2>1, <2>2, <2>3, FS_Subset
  <2>5. Cardinality(Rest(w.at, behind)) \in Nat /\ Cardinality(Rest(w.at, behind)) # 0
    BY <2>4, FS_CardinalityType, FS_EmptySet
  <2> QED
    BY <1>1, <1>12, <2>5
<1>13. Emptied(p) = {}
  <2>1. CASE w.at = INVALID_INDEX
    BY <1>11, <2>1 DEF Rest
  <2>2. CASE w.left = 0
    BY <1>11, <2>2, LiveFacts, FS_EmptySet
  <2> QED
    BY <1>11, <1>12, <2>1, <2>2
<1> QED
  BY <1>9, <1>11, <1>13 DEF Ordered

\* When an emission ends, only live nodes are left in the list.
LEMMA FinishFacts ==
  ASSUME NEW q, Settled(q), NEW r, r = [CleanupConnections(q) EXCEPT !.emitting = FALSE]
  PROVE  /\ Settled(r) /\ SlotsOf(r) = SlotsOf(q) /\ Len(r.node) = Len(q.node)
         /\ Connected(r) = Connected(q)
<1>1. PICK p : p = CleanupTurns(q).pool
  OBVIOUS
<1>2. Cleans(q, p) /\ Ordered(p) /\ Emptied(p) = {}
  BY <1>1, CleanupFacts
<1>3. /\ Tidy(p) /\ p \in Pool /\ Len(p.node) = Len(q.node) /\ LiveNodes(p) = LiveNodes(q)
      /\ p.active = q.active /\ p.hasCache = q.hasCache /\ p.cache = q.cache
      /\ \A j \in LiveNodes(q) : At(p, j).slot = At(q, j).slot
  BY <1>2 DEF Cleans, Tidy, SameBooks
<1>4. r = [p EXCEPT !.nulls = 0, !.emitting = FALSE]
  BY <1>1, <1>3 DEF CleanupConnections, Pool
<1>5. /\ r \in Pool /\ SameList(p, r) /\ r.active = q.active /\ r.hasCache = q.hasCache
      /\ r.cache = q.cache /\ r.nulls = 0
  <2>1. p \in Pool
    BY <1>3
  <2>2. /\ r \in Pool /\ SameList(p, r) /\ r.active = p.active /\ r.hasCache = p.hasCache
        /\ r.cache = p.cache /\ r.nulls = 0
    <3>1. PICK nulls, emitting : nulls = 0 /\ emitting = FALSE
      OBVIOUS
    <3>2. r = [p EXCEPT !.nulls = nulls, !.emitting = emitting] /\ nulls \in Nat /\ emitting \in BOOLEAN
      BY <1>4, <3>1
    <3>3. r \in Pool /\ r.nulls = nulls /\ r.active = p.active /\ r.hasCache = p.hasCache /\ r.cache = p.cache
      BY <2>1, <3>2 DEF Pool
    <3>4. r.node = p.node /\ r.free = p.free /\ r.head = p.head /\ r.tail = p.tail
      BY <2>1, <3>2 DEF Pool
    <3> QED
      BY <3>1, <3>3, <3>4 DEF SameList
  <2> QED
    BY <1>3, <2>2
<1>6. /\ Tidy(r) /\ Len(r.node) = Len(q.node) /\ LiveNodes(r) = LiveNodes(q) /\ Emptied(r) = {}
      /\ \A j \in LiveNodes(q) : At(r, j).slot = At(q, j).slot
  <2>1. Tidy(p) /\ r \in Pool /\ SameList(p, r)
    BY <1>3, <1>5
  <2>2. /\ Tidy(r) /\ Len(r.node) = Len(p.node) /\ LiveNodes(r) = LiveNodes(p)
        /\ Emptied(r) = Emptied(p) /\ \A j : At(r, j) = At(p, j)
    BY <2>1, SameListFacts
  <2> QED
    BY <1>2, <1>3, <2>2
<1>7. Ordered(r)
  BY <1>2, <1>3, <1>5, SameListFacts DEF Ordered
<1>8. SlotsOf(r) = SlotsOf(q) /\ Entries(r) = Entries(q)
  BY <1>6 DEF SlotsOf, Entries
<1>9. Base(q)
  BY DEF Settled
<1>10. Single(r) /\ Exact(r) /\ Counted(r)
  BY <1>5, <1>6, <1>8, <1>9 DEF Base, Single, Exact, Counted
<1>11. r.nulls = Cardinality(Emptied(r))
  BY <1>5, <1>6, FS_EmptySet
<1>12. Connected(r) = Connected(q)
  <2>1. Connected(p) = Connected(q)
    BY <1>2 DEF Cleans
  <2>2. Connected(r) = Connected(p)
    BY <1>2, <1>3, <1>5, SameCalls
  <2> QED
    BY <2>1, <2>2
<1> QED
  BY <1>12, <1>5, <1>6, <1>7, <1>8, <1>9, <1>10, <1>11 DEF Settled, Base

\* An emission begins.
LEMMA BeginFacts ==
  ASSUME NEW q, Settled(q), NEW r, r = [q EXCEPT !.emitting = TRUE]
  PROVE  /\ Settled(r) /\ SlotsOf(r) = SlotsOf(q) /\ Len(r.node) = Len(q.node)
         /\ r.emitting /\ InList(r) = InList(q) /\ q.head \in InList(q) \cup {INVALID_INDEX}
         /\ Connected(r) = Connected(q) /\ Reaches(r, q.head, q.tail)
         /\ CalledFrom(r, q.head, q.tail) = Connected(q)
<1>1. Tidy(q) /\ Base(q) /\ q \in Pool
  BY DEF Settled, Base, Tidy
<1>2. /\ r \in Pool /\ SameList(q, r) /\ r.active = q.active /\ r.hasCache = q.hasCache
      /\ r.cache = q.cache /\ r.nulls = q.nulls /\ r.emitting = TRUE
  BY <1>1 DEF Pool, SameList
<1>3. /\ Tidy(r) /\ Len(r.node) = Len(q.node) /\ LiveNodes(r) = LiveNodes(q)
      /\ Emptied(r) = Emptied(q) /\ InList(r) = InList(q) /\ \A j : At(r, j) = At(q, j)
  BY <1>1, <1>2, SameListFacts
<1>4. Ordered(r)
  BY <1>1, <1>2, SameListFacts DEF Base, Ordered
<1>5. SlotsOf(r) = SlotsOf(q) /\ Entries(r) = Entries(q)
  BY <1>3 DEF SlotsOf, Entries
<1>6. Single(r) /\ Exact(r) /\ Counted(r)
  <2>1. Single(q) /\ Exact(q) /\ Counted(q)
    BY <1>1 DEF Base
  <2>2. Single(r)
    BY <1>3, <2>1 DEF Single
  <2>3. Exact(r)
    BY <1>2, <1>5, <2>1 DEF Exact
  <2>4. Counted(r)
    BY <1>2, <1>3, <2>1 DEF Counted
  <2> QED
    BY <2>2, <2>3, <2>4
<1>7. q.head \in InList(q) \cup {INVALID_INDEX}
  BY <1>1, RestOfList DEF Base, Ordered
<1>8. /\ Connected(r) = Connected(q) /\ Reaches(r, q.head, q.tail)
      /\ CalledFrom(r, q.head, q.tail) = Connected(q)
  <2>1. PICK behind : Orders(q, behind)
    BY <1>1 DEF Base, Ordered
  <2>2. /\ Rest(q.head, behind) = InList(q) /\ q.head \in InList(q) \cup {INVALID_INDEX}
        /\ q.tail \in InList(q) \cup {INVALID_INDEX}
        /\ q.tail = INVALID_INDEX <=> InList(q) = {}
    BY <1>1, <2>1, RestOfList, LastOfList
  <2>3. Reaches(q, q.head, q.tail)
    BY <2>1, <2>2 DEF Reaches
  <2>4. CalledFrom(q, q.head, q.tail) = Connected(q)
    BY <1>1, <2>1, CallsToTail
  <2>5. /\ Connected(r) = Connected(q)
        /\ \A from, end : Reaches(q, from, end) =>
             /\ Reaches(r, from, end)
             /\ CalledFrom(r, from, end) = CalledFrom(q, from, end)
    BY <1>1, <1>2, SameCalls DEF Base
  <2> QED
    BY <2>3, <2>4, <2>5
<1> QED
  BY <1>8, <1>1, <1>2, <1>3, <1>4, <1>5, <1>6, <1>7 DEF Settled, Base
-----------------------------------------------------------------------------
(***************************************************************************)
(* The list of a tracker.                                                  *)
(***************************************************************************)

\* Erase loses just the entry it is asked to, where the last takes its place.
LEMMA EraseSwapFacts ==
  ASSUME NEW S, NEW s \in Seq(S), NoRepeats(s), NEW x
  PROVE  /\ EraseSwap(s, x) \in Seq(S) /\ NoRepeats(EraseSwap(s, x))
         /\ Elements(EraseSwap(s, x)) = Elements(s) \ {x}
<1>1. CASE x \notin Elements(s)
  BY <1>1 DEF EraseSwap
<1>2. CASE x \in Elements(s)
  <2> DEFINE i == CHOOSE j \in DOMAIN s : s[j] = x
             n == Len(s)
  <2>1. n \in Nat /\ DOMAIN s = 1 .. n
    OBVIOUS
  <2>2. i \in 1 .. n /\ s[i] = x
    BY <1>2, <2>1 DEF Elements
  <2> HIDE DEF i, n
  <2>3. PICK m, r : m = [s EXCEPT ![i] = s[n]] /\ r = SubSeq(m, 1, n - 1)
    OBVIOUS
  <2>4. EraseSwap(s, x) = r
    BY <1>2, <2>3 DEF EraseSwap, i, n
  <2>5. m \in Seq(S) /\ Len(m) = n /\ \A k \in 1 .. n : m[k] = IF k = i THEN s[n] ELSE s[k]
    <3>1. s[n] \in S /\ n = Len(s)
      BY <2>1, <2>2 DEF n
    <3> QED
      BY <2>1, <2>2, <2>3, <3>1
  <2>6. r \in Seq(S) /\ Len(r) = n - 1 /\ \A k \in 1 .. n - 1 : r[k] = m[k]
    BY <2>1, <2>2, <2>3, <2>5, SubSeqProperties
  <2>7. \A k \in 1 .. n - 1 : r[k] = IF k = i THEN s[n] ELSE s[k]
    BY <2>1, <2>5, <2>6
  <2>8. \A k, l \in 1 .. n : k # l => s[k] # s[l]
    BY <2>1 DEF NoRepeats
  <2>9. NoRepeats(r)
    <3>1. \A k, l \in 1 .. n - 1 : k # l => r[k] # r[l]
      BY <2>1, <2>2, <2>7, <2>8
    <3> QED
      BY <2>6, <3>1, Positions
  <2>10. ASSUME NEW y \in Elements(r) PROVE y \in Elements(s) \ {x}
    <3>1. PICK k \in 1 .. n - 1 : r[k] = y
      BY <2>6, Positions
    <3>2. \E l \in 1 .. n : l # i /\ s[l] = y
      BY <2>1, <2>2, <2>7, <3>1
    <3>3. n = Len(s)
      BY DEF n
    <3> QED
      BY <2>2, <2>8, <3>2, <3>3, Positions
  <2>11. ASSUME NEW y \in Elements(s) \ {x} PROVE y \in Elements(r)
    <3>1. PICK k \in 1 .. n : s[k] = y
      BY <2>1, Positions DEF n
    <3>2. \E l \in 1 .. n - 1 : r[l] = y
      BY <2>1, <2>2, <2>7, <3>1
    <3> QED
      BY <2>6, <3>2, Positions
  <2> QED
    BY <2>4, <2>6, <2>9, <2>10, <2>11
<1> QED
  BY <1>1, <1>2
-----------------------------------------------------------------------------
(***************************************************************************)
(* The whole state: signals, trackers, emissions.  The number of an entry  *)
(* of the pool must fit its 16 bits: NodeToIndex does not check it.        *)
(***************************************************************************)
PlacesFit == \A s \in Signals : MaxNodes[s] <= IndexLimit

AllSettled(all) ==
  /\ all \in [Signals -> Pool]
  /\ \A s \in Signals : Settled(all[s]) /\ Len(all[s].node) <= MaxNodes[s]

\* What tracker t knows is what the signals know of its slots.
Knows(t, list, all) ==
  /\ list \in Seq(Slots \X Signals) /\ NoRepeats(list)
  /\ \A slot \in Slots, s \in Signals :
       << slot, s >> \in Elements(list) <=> Owner[slot] = t /\ slot \in SlotsOf(all[s])

Joined(all, live, lists) ==
  /\ AllSettled(all) /\ live \subseteq Signals
  /\ \A s \in Signals : s \notin live => SlotsOf(all[s]) = {}
  /\ lists = [t \in Trackers |-> lists[t]] /\ \A t \in Trackers : Knows(t, lists[t], all)

Emission == [signal : Signals, at : Int, next : Int, end : Int, running : BOOLEAN,
             deleted : BOOLEAN]

\* An emission stands on a place of the list of a signal that is there and
\* knows that it is emitted, with its end ahead, unless it has been told that
\* the signal is gone.
OnTrack(f, all, live) ==
  /\ f.deleted => f.signal \notin live
  /\ ~f.deleted => /\ f.signal \in live /\ all[f.signal].emitting
                   /\ f.at \in InList(all[f.signal]) \cup {INVALID_INDEX}
                   /\ f.next \in InList(all[f.signal]) \cup {INVALID_INDEX}
                   /\ Reaches(all[f.signal], From(f), f.end)

\* All emissions but the innermost are waiting for the slot they have called.
Nested(all, live, frames) ==
  /\ frames \in Seq(Emission)
  /\ \A i \in 1 .. Len(frames) : i # Len(frames) => frames[i].running
  /\ \A i \in 1 .. Len(frames) : OnTrack(frames[i], all, live)
  /\ \A i, j \in 1 .. Len(frames) :
       ~frames[i].deleted /\ ~frames[j].deleted /\ frames[i].signal = frames[j].signal => i = j

SignalInv == Joined(signal, alive, tracked) /\ Nested(signal, alive, stack)

\* A signal that has just been made is in order, and empty.
LEMMA NewFacts ==
  /\ NewSignal \in Pool /\ Settled(NewSignal) /\ SlotsOf(NewSignal) = {}
  /\ Len(NewSignal.node) = 0
<1>1. PICK q : q = NewSignal
  OBVIOUS
<1>2. /\ q.node = << >> /\ q.free = << >> /\ q.head = INVALID_INDEX /\ q.tail = INVALID_INDEX
      /\ q.active = 0 /\ q.nulls = 0 /\ q.emitting = FALSE /\ q.hasCache = FALSE
  BY <1>1 DEF NewSignal
<1>3. q \in Pool
  <2>1. << >> \in Seq(PoolNode) /\ << >> \in Seq(Nat) /\ INVALID_INDEX \in Int
    BY DEF INVALID_INDEX
  <2> QED
    BY <1>1, <2>1 DEF Pool, NewSignal
<1>4. Len(q.node) = 0 /\ Places(q) = {} /\ InList(q) = {} /\ LiveNodes(q) = {} /\ Emptied(q) = {}
  BY <1>2 DEF Places, InList, LiveNodes, Emptied
<1>5. Tidy(q)
  BY <1>2, <1>3, <1>4 DEF Tidy, NoRepeats, Elements
<1>6. Ordered(q)
  <2>1. PICK none : none = [i \in {} |-> {}]
    OBVIOUS
  <2>2. none \in [{} -> SUBSET {}]
    BY <2>1
  <2>3. Linked({}, none, Nexts(q), Prevs(q), INVALID_INDEX, INVALID_INDEX)
    BY <2>2 DEF Linked, StrictOrder, IsFirst, IsLast
  <2>4. Orders(q, none)
    BY <1>2, <1>4, <2>3 DEF Orders
  <2> QED
    BY <2>4 DEF Ordered
<1>7. Single(q) /\ Exact(q) /\ SlotsOf(q) = {}
  BY <1>2, <1>4 DEF Single, Exact, SlotsOf
<1>8. Counted(q) /\ q.nulls = Cardinality(Emptied(q))
  BY <1>2, <1>4, FS_EmptySet DEF Counted
<1> QED
  BY <1>1, <1>2, <1>3, <1>4, <1>5, <1>6, <1>7, <1>8, SignalAssumption DEF Settled, Base

Put(all, s, r) == [all EXCEPT ![s] = r]

\* One signal changes.
LEMMA OneSignal ==
  ASSUME NEW all, AllSettled(all), NEW s \in Signals, NEW r, Settled(r),
         Len(r.node) <= MaxNodes[s], NEW new, new = Put(all, s, r)
  PROVE  AllSettled(new) /\ new[s] = r /\ \A x \in Signals : x # s => new[x] = all[x]
<1>1. r \in Pool
  BY DEF Settled, Base, Tidy
<1> QED
  BY <1>1 DEF AllSettled, Put

\* The emissions do not notice what happens to the lists but their own growth.
LEMMA StillOnTrack ==
  ASSUME NEW all, NEW new, NEW live, NEW frames, Nested(all, live, frames), live \subseteq Signals,
         \A s \in live : Grows(all[s], new[s])
  PROVE  Nested(new, live, frames)
<1> SUFFICES ASSUME NEW i \in 1 .. Len(frames) PROVE OnTrack(frames[i], new, live)
  BY DEF Nested
<1>1. PICK f : f = frames[i] /\ OnTrack(f, all, live)
  BY DEF Nested
<1> QED
  BY <1>1 DEF OnTrack, Grows

LEMMA GrowsSelf == \A q : Grows(q, q)
  BY DEF Grows

LEMMA InitKeepsOrder == SignalInit => SignalInv
<1> SUFFICES ASSUME SignalInit PROVE SignalInv
  OBVIOUS
<1>1. AllSettled(signal) /\ \A s \in Signals : SlotsOf(signal[s]) = {}
  <2>1. \A s \in Signals : signal[s] = NewSignal /\ Len(NewSignal.node) <= MaxNodes[s]
    BY NewFacts, SignalAssumption DEF SignalInit
  <2>2. signal \in [Signals -> Pool]
    BY NewFacts DEF SignalInit
  <2> QED
    BY <2>1, <2>2, NewFacts DEF AllSettled
<1>2. alive \subseteq Signals /\ tracked = [t \in Trackers |-> tracked[t]]
  BY DEF SignalInit
<1>3. ASSUME NEW t \in Trackers PROVE Knows(t, tracked[t], signal)
  <2>1. tracked[t] = << >>
    BY DEF SignalInit
  <2>2. /\ << >> \in Seq(Slots \X Signals) /\ Elements(<< >>) = {} /\ NoRepeats(<< >>)
    BY DEF Elements, NoRepeats
  <2> QED
    BY <1>1, <2>1, <2>2 DEF Knows
<1>4. Nested(signal, alive, stack)
  <2>1. stack = << >> /\ << >> \in Seq(Emission) /\ Len(<< >>) = 0
    BY DEF SignalInit
  <2> QED
    BY <2>1 DEF Nested
<1> QED
  BY <1>1, <1>2, <1>3, <1>4 DEF SignalInv, Joined
\* One signal gains a slot that it had not; signals lose slots.
OneGains(all, new) ==
  \E s \in Signals, slot \in Slots :
    /\ slot \notin SlotsOf(all[s]) /\ Gains(all[s], new[s], slot)
    /\ \A x \in Signals : x # s => new[x] = all[x]

SomeLose(all, new) ==
  \E gone \in [Signals -> SUBSET Slots] : \A s \in Signals : Loses(all[s], new[s], gone[s])

LEMMA ConnectKeepsOrder ==
  ASSUME PlacesFit, SignalInv, Connect
  PROVE  SignalInv' /\ OneGains(signal, signal') /\ UNCHANGED stack
<1>1. PICK s \in alive, slot \in Slots :
        /\ Find(signal[s], slot) = INVALID_INDEX /\ CanAllocate(s)
        /\ signal' = [signal EXCEPT ![s] = OnConnect(@, slot)]
        /\ tracked' = SignalConnected(slot, s)
  BY DEF Connect
<1>2. alive' = alive /\ stack' = stack
  BY DEF Connect
<1>3. PICK q, r : q = signal[s] /\ r = OnConnect(q, slot)
  OBVIOUS
<1>4. /\ AllSettled(signal) /\ alive \subseteq Signals /\ s \in Signals
      /\ \A t \in Trackers : Knows(t, tracked[t], signal)
      /\ \A x \in Signals : x \notin alive => SlotsOf(signal[x]) = {}
      /\ Nested(signal, alive, stack)
  BY DEF SignalInv, Joined
<1>5. Settled(q) /\ Base(q) /\ Len(q.node) <= MaxNodes[s] /\ Len(q.node) \in Nat
  BY <1>3, <1>4, NodeFacts DEF AllSettled, Settled, Base, Tidy
<1>6. slot \notin SlotsOf(q)
  BY <1>1, <1>3, <1>4, <1>5, FindFacts
<1>7. MaxNodes[s] \in Nat /\ MaxNodes[s] <= IndexLimit /\ IndexLimit \in Nat
  BY <1>4, SignalAssumption DEF PlacesFit
<1>8. q.free # << >> \/ Len(q.node) < MaxNodes[s]
  BY <1>1, <1>3 DEF CanAllocate
<1>9. q.free # << >> \/ Len(q.node) < IndexLimit
  BY <1>5, <1>7, <1>8
<1>10. /\ Settled(r) /\ SlotsOf(r) = SlotsOf(q) \cup {slot} /\ Grows(q, r) /\ Gains(q, r, slot)
       /\ Len(r.node) = IF q.free = << >> THEN Len(q.node) + 1 ELSE Len(q.node)
  BY <1>3, <1>5, <1>6, <1>9, OnConnectFacts
<1>11. Len(r.node) <= MaxNodes[s]
  BY <1>5, <1>7, <1>8, <1>10
<1>12. PICK new : new = signal' /\ new = [signal EXCEPT ![s] = r]
  BY <1>1, <1>3, <1>4 DEF AllSettled
<1>13. AllSettled(new) /\ new[s] = r /\ \A x \in Signals : x # s => new[x] = signal[x]
  <2>1. AllSettled(signal) /\ s \in Signals /\ Settled(r) /\ Len(r.node) <= MaxNodes[s]
    BY <1>4, <1>10, <1>11
  <2>2. new = Put(signal, s, r)
    BY <1>12 DEF Put
  <2> QED
    BY <2>1, <2>2, OneSignal
<1>14. Nested(new, alive, stack)
  <2>1. \A x \in alive : Grows(signal[x], new[x])
    BY <1>3, <1>4, <1>10, <1>13, GrowsSelf
  <2> QED
    BY <1>4, <2>1, StillOnTrack
<1>15. PICK lists : lists = tracked' /\ lists = SignalConnected(slot, s)
  BY <1>1
<1>16. ASSUME NEW t \in Trackers PROVE Knows(t, lists[t], new)
  <2>1. Knows(t, tracked[t], signal) /\ << slot, s >> \in Slots \X Signals
    BY <1>4
  <2>2. CASE t = Owner[slot]
    <3>1. PICK old, pair : old = tracked[t] /\ pair = << slot, s >>
      OBVIOUS
    <3>2. lists[t] = Append(old, pair)
      BY <1>15, <2>2, <3>1 DEF SignalConnected
    <3>3. old \in Seq(Slots \X Signals) /\ NoRepeats(old) /\ pair \in Slots \X Signals
      BY <2>1, <3>1 DEF Knows
    <3>4. pair \notin Elements(old)
      BY <1>3, <1>4, <1>6, <2>1, <3>1 DEF Knows
    <3>5. /\ lists[t] \in Seq(Slots \X Signals) /\ NoRepeats(lists[t])
          /\ Elements(lists[t]) = Elements(old) \cup {pair}
      BY <3>2, <3>3, <3>4, AppendFacts
    <3>6. ASSUME NEW a \in Slots, NEW x \in Signals
          PROVE  << a, x >> \in Elements(lists[t]) <=> Owner[a] = t /\ a \in SlotsOf(new[x])
      <4>1. << a, x >> \in Elements(old) <=> Owner[a] = t /\ a \in SlotsOf(signal[x])
        BY <2>1, <3>1 DEF Knows
      <4>2. << a, x >> = pair <=> a = slot /\ x = s
        BY <3>1
      <4> QED
        BY <1>3, <1>10, <1>13, <2>2, <3>5, <4>1, <4>2
    <3> QED
      BY <3>5, <3>6 DEF Knows
  <2>3. CASE t # Owner[slot]
    <3>1. lists[t] = tracked[t]
      BY <1>15, <2>3 DEF SignalConnected
    <3>2. \A a \in Slots, x \in Signals :
            Owner[a] = t => (a \in SlotsOf(new[x]) <=> a \in SlotsOf(signal[x]))
      BY <1>3, <1>10, <1>13, <2>3
    <3> QED
      BY <2>1, <3>1, <3>2 DEF Knows
  <2> QED
    BY <2>2, <2>3
<1>17. \A x \in Signals : x \notin alive => SlotsOf(new[x]) = {}
  BY <1>4, <1>13
<1>18. lists = [t \in Trackers |-> lists[t]]
  BY <1>15 DEF SignalConnected
<1>19. Joined(new, alive, lists)
  BY <1>4, <1>13, <1>16, <1>17, <1>18 DEF Joined
<1>20. OneGains(signal, new)
  BY <1>3, <1>4, <1>6, <1>10, <1>13 DEF OneGains
<1> QED
  BY <1>2, <1>12, <1>14, <1>15, <1>19, <1>20 DEF SignalInv

LEMMA DisconnectKeepsOrder ==
  ASSUME SignalInv, Disconnect
  PROVE  SignalInv' /\ SomeLose(signal, signal') /\ UNCHANGED stack
<1>1. PICK s \in alive, slot \in Slots :
        /\ Find(signal[s], slot) # INVALID_INDEX
        /\ signal' = [signal EXCEPT ![s] = DeleteConnection(@, Find(signal[s], slot))]
        /\ tracked' = SignalDisconnected(slot, s)
  BY DEF Disconnect
<1>2. alive' = alive /\ stack' = stack
  BY DEF Disconnect
<1>3. PICK q, i, r : q = signal[s] /\ i = Find(q, slot) /\ r = DeleteConnection(q, i)
  OBVIOUS
<1>4. /\ AllSettled(signal) /\ alive \subseteq Signals /\ s \in Signals
      /\ \A t \in Trackers : Knows(t, tracked[t], signal)
      /\ \A x \in Signals : x \notin alive => SlotsOf(signal[x]) = {}
      /\ Nested(signal, alive, stack)
  BY DEF SignalInv, Joined
<1>5. Settled(q) /\ Base(q) /\ Len(q.node) <= MaxNodes[s]
  BY <1>3, <1>4 DEF AllSettled, Settled
<1>6. i \in LiveNodes(q) /\ At(q, i).slot = slot
  BY <1>1, <1>3, <1>4, <1>5, FindFacts
<1>7. /\ Settled(r) /\ SlotsOf(r) = SlotsOf(q) \ {slot} /\ Len(r.node) = Len(q.node)
      /\ Grows(q, r) /\ Loses(q, r, {slot})
  <2>1. Settled(q) /\ i \in LiveNodes(q) /\ r = DeleteConnection(q, i)
    BY <1>3, <1>5, <1>6
  <2>2. /\ Settled(r) /\ SlotsOf(r) = SlotsOf(q) \ {At(q, i).slot} /\ Len(r.node) = Len(q.node)
        /\ Grows(q, r) /\ Loses(q, r, {At(q, i).slot})
    BY <2>1, DeleteFacts
  <2> QED
    BY <1>6, <2>2
<1>8. PICK new : new = signal' /\ new = [signal EXCEPT ![s] = r]
  BY <1>1, <1>3, <1>4 DEF AllSettled
<1>9. AllSettled(new) /\ new[s] = r /\ \A x \in Signals : x # s => new[x] = signal[x]
  <2>1. AllSettled(signal) /\ s \in Signals /\ Settled(r) /\ Len(r.node) <= MaxNodes[s]
    BY <1>4, <1>5, <1>7
  <2>2. new = Put(signal, s, r)
    BY <1>8 DEF Put
  <2> QED
    BY <2>1, <2>2, OneSignal
<1>10. Nested(new, alive, stack)
  <2>1. \A x \in alive : Grows(signal[x], new[x])
    BY <1>3, <1>4, <1>7, <1>9, GrowsSelf
  <2> QED
    BY <1>4, <2>1, StillOnTrack
<1>11. PICK lists : lists = tracked' /\ lists = SignalDisconnected(slot, s)
  BY <1>1
<1>12. ASSUME NEW t \in Trackers PROVE Knows(t, lists[t], new)
  <2>1. Knows(t, tracked[t], signal)
    BY <1>4
  <2>2. CASE t = Owner[slot]
    <3>1. PICK old, pair : old = tracked[t] /\ pair = << slot, s >>
      OBVIOUS
    <3>2. lists[t] = EraseSwap(old, pair)
      BY <1>11, <2>2, <3>1 DEF SignalDisconnected
    <3>3. old \in Seq(Slots \X Signals) /\ NoRepeats(old)
      BY <2>1, <3>1 DEF Knows
    <3>4. /\ lists[t] \in Seq(Slots \X Signals) /\ NoRepeats(lists[t])
          /\ Elements(lists[t]) = Elements(old) \ {pair}
      BY <3>2, <3>3, EraseSwapFacts
    <3>5. ASSUME NEW a \in Slots, NEW x \in Signals
          PROVE  << a, x >> \in Elements(lists[t]) <=> Owner[a] = t /\ a \in SlotsOf(new[x])
      <4>1. << a, x >> \in Elements(old) <=> Owner[a] = t /\ a \in SlotsOf(signal[x])
        BY <2>1, <3>1 DEF Knows
      <4>2. << a, x >> = pair <=> a = slot /\ x = s
        BY <3>1
      <4> QED
        BY <1>3, <1>7, <1>9, <2>2, <3>4, <4>1, <4>2
    <3> QED
      BY <3>4, <3>5 DEF Knows
  <2>3. CASE t # Owner[slot]
    <3>1. lists[t] = tracked[t]
      BY <1>11, <2>3 DEF SignalDisconnected
    <3>2. \A a \in Slots, x \in Signals :
            Owner[a] = t => (a \in SlotsOf(new[x]) <=> a \in SlotsOf(signal[x]))
      BY <1>3, <1>7, <1>9, <2>3
    <3> QED
      BY <2>1, <3>1, <3>2 DEF Knows
  <2> QED
    BY <2>2, <2>3
<1>13. \A x \in Signals : x \notin alive => SlotsOf(new[x]) = {}
  BY <1>4, <1>9
<1>14. lists = [t \in Trackers |-> lists[t]]
  BY <1>11 DEF SignalDisconnected
<1>15. Joined(new, alive, lists)
  BY <1>4, <1>9, <1>12, <1>13, <1>14 DEF Joined
<1>16. SomeLose(signal, new)
  <2>1. PICK gone : gone = [x \in Signals |-> IF x = s THEN {slot} ELSE {}]
    OBVIOUS
  <2>2. gone \in [Signals -> SUBSET Slots]
    BY <2>1
  <2>3. ASSUME NEW x \in Signals PROVE Loses(signal[x], new[x], gone[x])
    <3>1. CASE x = s
      BY <1>3, <1>7, <1>9, <2>1, <3>1
    <3>2. CASE x # s
      <4>1. Base(signal[x]) /\ gone[x] = {} /\ new[x] = signal[x]
        BY <1>4, <1>9, <2>1, <3>2 DEF AllSettled, Settled
      <4> QED
        BY <4>1, LosesNothing
    <3> QED
      BY <3>1, <3>2
  <2> QED
    BY <2>2, <2>3 DEF SomeLose
<1> QED
  BY <1>2, <1>8, <1>10, <1>11, <1>15, <1>16 DEF SignalInv
-----------------------------------------------------------------------------
(***************************************************************************)
(* DisconnectAll.                                                          *)
(***************************************************************************)

\* The recursive definition in DisconnectAllOf has a solution.
Afters(f, all, list, N) ==
  f = [k \in 0 .. N |-> IF k = 0 THEN all ELSE SlotDisconnected(f[k - 1], list[k])]

LEMMA AftersExist ==
  ASSUME NEW all, NEW list, NEW N \in Nat
  PROVE  \E f : Afters(f, all, list, N)
<1> DEFINE P == {n \in Nat : \E f : Afters(f, all, list, n)}
<1>1. 0 \in P
  <2> DEFINE e == [n \in 0 .. 0 |-> all]
  <2>1. Afters(e, all, list, 0)
    BY DEF Afters
  <2> QED
    BY <2>1
<1>2. ASSUME NEW n \in Nat, n \in P PROVE n + 1 \in P
  <2>1. PICK f : Afters(f, all, list, n)
    BY <1>2
  <2> DEFINE last == SlotDisconnected(f[n], list[n + 1])
             g == [i \in 0 .. n + 1 |-> IF i = n + 1 THEN last ELSE f[i]]
  <2>2. \A i \in 0 .. n : f[i] = IF i = 0 THEN all ELSE SlotDisconnected(f[i - 1], list[i])
    BY <2>1 DEF Afters
  <2>3. \A i \in 1 .. n + 1 : g[i - 1] = f[i - 1]
    OBVIOUS
  <2>4. ASSUME NEW i \in 0 .. n + 1
        PROVE  g[i] = IF i = 0 THEN all ELSE SlotDisconnected(g[i - 1], list[i])
    <3>1. CASE i = n + 1
      <4>1. g[i] = last /\ i # 0 /\ g[i - 1] = f[n]
        BY <3>1, <2>3
      <4> HIDE DEF g
      <4> QED
        BY <3>1, <4>1
    <3>2. CASE i # n + 1
      <4>1. g[i] = f[i] /\ i \in 0 .. n /\ (i # 0 => g[i - 1] = f[i - 1])
        BY <3>2, <2>3
      <4> HIDE DEF g
      <4> QED
        BY <4>1, <2>2
    <3> QED
      BY <3>1, <3>2
  <2>5. g = [i \in 0 .. n + 1 |-> g[i]]
    OBVIOUS
  <2> HIDE DEF g
  <2>6. Afters(g, all, list, n + 1)
    BY <2>4, <2>5 DEF Afters
  <2> QED
    BY <2>6
<1> HIDE DEF P
<1>3. Nat \subseteq P
  BY <1>1, <1>2, Counting
<1> QED
  BY <1>3 DEF P

\* The signals have lost the connections in gone, and nothing else.
CutFrom(s, gone) == {slot \in Slots : << slot, s >> \in gone}

Cuts(all, new, gone) ==
  /\ AllSettled(new)
  /\ \A s \in Signals :
       /\ Grows(all[s], new[s]) /\ Loses(all[s], new[s], CutFrom(s, gone))
       /\ \A slot \in Slots : slot \in SlotsOf(new[s]) <=>
            slot \in SlotsOf(all[s]) /\ << slot, s >> \notin gone

LEMMA SlotsAreSlots == ASSUME NEW q, Settled(q) PROVE SlotsOf(q) \subseteq Slots
  BY LiveFacts DEF Settled, Base, SlotsOf

LEMMA GrowsOn ==
  ASSUME NEW q, NEW r, NEW u, Grows(q, r), Grows(r, u)
  PROVE  Grows(q, u)
  BY DEF Grows

LEMMA OneCut ==
  ASSUME NEW all, AllSettled(all), NEW u, NEW gone, Cuts(all, u, gone), NEW slot \in Slots, NEW s \in Signals,
         NEW pair, pair = << slot, s >>, NEW v, v = SlotDisconnected(u, pair)
  PROVE  Cuts(all, v, gone \cup {pair})
<1>1. PICK q, i, r : /\ q = u[s] /\ i = Find(q, slot)
                     /\ r = IF i # INVALID_INDEX THEN DeleteConnection(q, i) ELSE q
  OBVIOUS
<1>2. AllSettled(u) /\ Settled(q) /\ Base(q) /\ Len(q.node) <= MaxNodes[s] /\ q \in Pool
  BY <1>1 DEF Cuts, AllSettled, Settled
<1>3. v = Put(u, s, r)
  BY <1>1, <1>2 DEF SlotDisconnected, Put, AllSettled
<1>4. /\ Settled(r) /\ SlotsOf(r) = SlotsOf(q) \ {slot} /\ Len(r.node) = Len(q.node)
      /\ Grows(q, r) /\ Loses(q, r, {slot})
  <2>1. CASE i # INVALID_INDEX
    <3>1. i \in LiveNodes(q) /\ At(q, i).slot = slot
      BY <1>1, <1>2, <2>1, FindFacts
    <3>2. r = DeleteConnection(q, i)
      BY <1>1, <2>1
    <3>3. /\ Settled(r) /\ SlotsOf(r) = SlotsOf(q) \ {At(q, i).slot} /\ Len(r.node) = Len(q.node)
          /\ Grows(q, r) /\ Loses(q, r, {At(q, i).slot})
      BY <1>2, <3>1, <3>2, DeleteFacts
    <3> QED
      BY <3>1, <3>3
  <2>2. CASE i = INVALID_INDEX
    <3>1. slot \notin SlotsOf(q)
      BY <1>1, <1>2, <2>2, FindFacts
    <3> QED
      <4>1. Loses(q, q, {slot})
        BY <1>2, <3>1, LosesNothing
      <4>2. r = q
        BY <1>1, <2>2
      <4> QED
        BY <1>2, <3>1, <4>1, <4>2, GrowsSelf
  <2> QED
    BY <2>1, <2>2
<1>5. AllSettled(v) /\ v[s] = r /\ \A x \in Signals : x # s => v[x] = u[x]
  <2>1. AllSettled(u) /\ Settled(r) /\ Len(r.node) <= MaxNodes[s]
    BY <1>2, <1>4
  <2>2. r \in Pool
    BY <2>1 DEF Settled, Base, Tidy
  <2> QED
    BY <1>3, <2>1, <2>2 DEF AllSettled, Put
<1>6. ASSUME NEW x \in Signals
      PROVE  /\ Grows(all[x], v[x]) /\ Loses(all[x], v[x], CutFrom(x, gone \cup {pair}))
             /\ \A a \in Slots : a \in SlotsOf(v[x]) <=>
                  a \in SlotsOf(all[x]) /\ << a, x >> \notin gone \cup {pair}
  <2>1. /\ Grows(all[x], u[x]) /\ Loses(all[x], u[x], CutFrom(x, gone))
        /\ \A a \in Slots : a \in SlotsOf(u[x]) <=> a \in SlotsOf(all[x]) /\ << a, x >> \notin gone
    BY DEF Cuts
  <2>2. \A a \in Slots : << a, x >> = pair <=> a = slot /\ x = s
    OBVIOUS
  <2>3. CASE x = s
    <3>1. Grows(all[x], v[x])
      BY <1>1, <1>4, <1>5, <2>1, <2>3, GrowsOn
    <3>2. \A a \in Slots : a \in SlotsOf(v[x]) <=> a \in SlotsOf(u[x]) /\ a # slot
      BY <1>1, <1>4, <1>5, <2>3
    <3>3. CutFrom(x, gone \cup {pair}) = CutFrom(x, gone) \cup {slot}
      BY <2>2, <2>3 DEF CutFrom
    <3>4. Loses(all[x], v[x], CutFrom(x, gone) \cup {slot})
      <4>1. Tidy(all[x]) /\ Ordered(all[x])
        BY DEF AllSettled, Settled, Base
      <4>2. Loses(u[x], v[x], {slot})
        BY <1>1, <1>4, <1>5, <2>3
      <4> QED
        BY <2>1, <4>1, <4>2, LosesOn
    <3> QED
      BY <2>1, <2>2, <2>3, <3>1, <3>2, <3>3, <3>4
  <2>4. CASE x # s
    <3>1. CutFrom(x, gone \cup {pair}) = CutFrom(x, gone)
      BY <2>2, <2>4 DEF CutFrom
    <3> QED
      BY <1>5, <2>1, <2>2, <2>4, <3>1
  <2> QED
    BY <2>3, <2>4
<1> QED
  BY <1>5, <1>6 DEF Cuts

\* The loop of DisconnectAll cuts the connections of its list.
LEMMA AllCut ==
  ASSUME AllSettled(signal), NEW list \in Seq(Slots \X Signals), NEW new, new = DisconnectAllOf(list)
  PROVE  Cuts(signal, new, Elements(list))
<1> DEFINE after == CHOOSE f : Afters(f, signal, list, Len(list))
<1>1. Len(list) \in Nat /\ DOMAIN list = 1 .. Len(list)
  OBVIOUS
<1>2. Afters(after, signal, list, Len(list))
  BY <1>1, AftersExist
<1>3. new = after[Len(list)]
  BY DEF DisconnectAllOf, Afters
<1> HIDE DEF after
<1>4. \A k \in 0 .. Len(list) : after[k] = IF k = 0 THEN signal
                                           ELSE SlotDisconnected(after[k - 1], list[k])
  BY <1>2 DEF Afters
<1> DEFINE gone(k) == {list[j] : j \in 1 .. k}
           P == {k \in Nat : k <= Len(list) => Cuts(signal, after[k], gone(k))}
<1>5. 0 \in P
  <2>1. after[0] = signal /\ gone(0) = {}
    BY <1>1, <1>4
  <2> HIDE DEF gone
  <2>2. ASSUME NEW s \in Signals PROVE Loses(signal[s], signal[s], CutFrom(s, gone(0)))
    <3>1. Base(signal[s]) /\ CutFrom(s, gone(0)) = {}
      BY <2>1 DEF AllSettled, Settled, CutFrom
    <3> QED
      BY <3>1, LosesNothing
  <2> QED
    BY <2>1, <2>2, GrowsSelf DEF Cuts
<1>6. ASSUME NEW k \in Nat, k \in P PROVE k + 1 \in P
  <2> SUFFICES ASSUME k + 1 <= Len(list) PROVE Cuts(signal, after[k + 1], gone(k + 1))
    OBVIOUS
  <2>1. Cuts(signal, after[k], gone(k))
    BY <1>1, <1>6
  <2>2. PICK pair : pair = list[k + 1]
    OBVIOUS
  <2>3. gone(k + 1) = gone(k) \cup {pair}
    <3>1. 1 .. k + 1 = (1 .. k) \cup {k + 1}
      OBVIOUS
    <3> QED
      BY <2>2, <3>1
  <2> HIDE DEF gone
  <2>4. PICK slot \in Slots, s \in Signals : pair = << slot, s >>
    BY <1>1, <2>2
  <2>5. after[k + 1] = SlotDisconnected(after[k], pair)
    BY <1>1, <1>4, <2>2
  <2> QED
    BY <2>1, <2>3, <2>4, <2>5, OneCut
<1> HIDE DEF P
<1>7. Nat \subseteq P
  BY <1>5, <1>6, Counting
<1>8. gone(Len(list)) = Elements(list)
  BY <1>1 DEF Elements
<1> HIDE DEF gone
<1>9. Len(list) \in P
  BY <1>1, <1>7
<1>10. Cuts(signal, after[Len(list)], gone(Len(list)))
  BY <1>1, <1>9 DEF P
<1> QED
  BY <1>3, <1>8, <1>10
LEMMA DisconnectAllKeepsOrder ==
  ASSUME SignalInv, DisconnectAll
  PROVE  SignalInv' /\ SomeLose(signal, signal') /\ UNCHANGED stack
<1>1. PICK t \in Trackers :
        /\ signal' = DisconnectAllOf(tracked[t])
        /\ tracked' = [tracked EXCEPT ![t] = << >>]
  BY DEF DisconnectAll
<1>2. alive' = alive /\ stack' = stack
  BY DEF DisconnectAll
<1>3. /\ AllSettled(signal) /\ alive \subseteq Signals
      /\ \A x \in Trackers : Knows(x, tracked[x], signal)
      /\ \A x \in Signals : x \notin alive => SlotsOf(signal[x]) = {}
      /\ Nested(signal, alive, stack) /\ tracked = [x \in Trackers |-> tracked[x]]
  BY DEF SignalInv, Joined
<1>4. PICK list, new : list = tracked[t] /\ new = signal' /\ new = DisconnectAllOf(list)
  BY <1>1
<1>5. list \in Seq(Slots \X Signals)
  BY <1>3, <1>4 DEF Knows
<1>6. Cuts(signal, new, Elements(list))
  BY <1>3, <1>4, <1>5, AllCut
<1>7. /\ AllSettled(new) /\ \A s \in Signals : Grows(signal[s], new[s])
      /\ \A slot \in Slots, s \in Signals : slot \in SlotsOf(new[s]) <=>
           slot \in SlotsOf(signal[s]) /\ << slot, s >> \notin Elements(list)
  BY <1>6 DEF Cuts
<1>8. Nested(new, alive, stack)
  BY <1>3, <1>7, StillOnTrack
<1>9. PICK lists : lists = tracked' /\ lists = [tracked EXCEPT ![t] = << >>]
  BY <1>1
<1>10. /\ lists = [x \in Trackers |-> lists[x]] /\ lists[t] = << >>
       /\ \A x \in Trackers : x # t => lists[x] = tracked[x]
  BY <1>3, <1>9
<1>11. \A slot \in Slots, s \in Signals :
         << slot, s >> \in Elements(list) <=> Owner[slot] = t /\ slot \in SlotsOf(signal[s])
  BY <1>3, <1>4 DEF Knows
<1>12. ASSUME NEW x \in Trackers PROVE Knows(x, lists[x], new)
  <2>1. CASE x = t
    <3>1. /\ << >> \in Seq(Slots \X Signals) /\ Elements(<< >>) = {} /\ NoRepeats(<< >>)
      BY DEF Elements, NoRepeats
    <3> QED
      BY <1>7, <1>10, <1>11, <2>1, <3>1 DEF Knows
  <2>2. CASE x # t
    <3>1. Knows(x, tracked[x], signal)
      BY <1>3
    <3>2. \A slot \in Slots, s \in Signals :
            Owner[slot] = x => (slot \in SlotsOf(new[s]) <=> slot \in SlotsOf(signal[s]))
      BY <1>7, <1>11, <2>2
    <3> QED
      BY <1>10, <2>2, <3>1, <3>2 DEF Knows
  <2> QED
    BY <2>1, <2>2
<1>13. \A s \in Signals : s \notin alive => SlotsOf(new[s]) = {}
  <2>1. \A s \in Signals : SlotsOf(new[s]) \subseteq Slots
    BY <1>7, SlotsAreSlots DEF AllSettled
  <2> QED
    BY <1>3, <1>7, <2>1
<1>14. Joined(new, alive, lists)
  BY <1>3, <1>7, <1>10, <1>12, <1>13 DEF Joined
<1>15. SomeLose(signal, new)
  <2>1. PICK gone : gone = [s \in Signals |-> CutFrom(s, Elements(list))]
    OBVIOUS
  <2>2. gone \in [Signals -> SUBSET Slots]
    BY <2>1 DEF CutFrom
  <2>3. \A s \in Signals : Loses(signal[s], new[s], gone[s])
    BY <1>6, <2>1 DEF Cuts
  <2> QED
    BY <2>2, <2>3 DEF SomeLose
<1> QED
  BY <1>2, <1>4, <1>8, <1>9, <1>14, <1>15 DEF SignalInv

\* The emissions of a signal are told that it is gone.
Told(frames, s) ==
  [i \in DOMAIN frames |-> [frames[i] EXCEPT !.deleted = @ \/ frames[i].signal = s]]

LEMMA ToldFacts ==
  ASSUME NEW frames \in Seq(Emission), NEW s, NEW told, told = Told(frames, s)
  PROVE  /\ told \in Seq(Emission) /\ Len(told) = Len(frames) /\ DOMAIN told = DOMAIN frames
         /\ \A i \in 1 .. Len(frames) :
              /\ told[i] \in Emission /\ told[i].signal = frames[i].signal
              /\ told[i].at = frames[i].at /\ told[i].next = frames[i].next
              /\ told[i].end = frames[i].end /\ told[i].running = frames[i].running
              /\ told[i].deleted <=> frames[i].deleted \/ frames[i].signal = s
<1>1. DOMAIN frames = 1 .. Len(frames) /\ Len(frames) \in Nat
  OBVIOUS
<1>2. ASSUME NEW i \in 1 .. Len(frames)
      PROVE  /\ told[i] \in Emission /\ told[i].signal = frames[i].signal
             /\ told[i].at = frames[i].at /\ told[i].next = frames[i].next
             /\ told[i].end = frames[i].end /\ told[i].running = frames[i].running
             /\ told[i].deleted <=> frames[i].deleted \/ frames[i].signal = s
  <2>1. PICK f : f = frames[i] /\ f \in Emission
    BY <1>1
  <2>2. PICK deleted \in BOOLEAN : deleted <=> f.deleted \/ f.signal = s
    OBVIOUS
  <2>3. told[i] = [f EXCEPT !.deleted = deleted]
    BY <1>1, <2>1, <2>2 DEF Emission, Told
  <2> QED
    BY <2>1, <2>2, <2>3 DEF Emission
<1>3. told \in Seq(Emission) /\ Len(told) = Len(frames) /\ DOMAIN told = DOMAIN frames
  <2>1. told = [i \in 1 .. Len(frames) |-> told[i]]
    BY <1>1 DEF Told
  <2>2. \A i \in 1 .. Len(frames) : told[i] \in Emission
    BY <1>2
  <2> QED
    BY <1>1, <2>1, <2>2
<1> QED
  BY <1>2, <1>3

LEMMA DestroyKeepsOrder ==
  ASSUME SignalInv, DestroySignal
  PROVE  SignalInv'
<1>1. PICK s \in alive :
        /\ alive' = alive \ {s}
        /\ signal' = [signal EXCEPT ![s] = NewSignal]
        /\ tracked' = [t \in Trackers |-> Only(tracked[t], Slots \X (Signals \ {s}))]
        /\ stack' = [i \in DOMAIN stack |->
                       [stack[i] EXCEPT !.deleted = @ \/ stack[i].signal = s]]
  BY DEF DestroySignal
<1>2. /\ AllSettled(signal) /\ alive \subseteq Signals /\ s \in Signals
      /\ \A t \in Trackers : Knows(t, tracked[t], signal)
      /\ \A x \in Signals : x \notin alive => SlotsOf(signal[x]) = {}
      /\ Nested(signal, alive, stack)
  BY DEF SignalInv, Joined
<1>3. PICK q, new : q = NewSignal /\ new = signal' /\ new = Put(signal, s, q)
  BY <1>1 DEF Put
<1>4. Settled(q) /\ SlotsOf(q) = {} /\ Len(q.node) <= MaxNodes[s]
  BY <1>2, <1>3, NewFacts, SignalAssumption
<1>5. AllSettled(new) /\ new[s] = q /\ \A x \in Signals : x # s => new[x] = signal[x]
  <2>1. AllSettled(signal)
    BY <1>2
  <2> QED
    BY <1>2, <1>3, <1>4, <2>1, OneSignal
<1>6. PICK lists : lists = tracked'
                   /\ lists = [t \in Trackers |-> Only(tracked[t], Slots \X (Signals \ {s}))]
  BY <1>1
<1>7. ASSUME NEW t \in Trackers PROVE Knows(t, lists[t], new)
  <2>1. PICK old, left : old = tracked[t] /\ left = Slots \X (Signals \ {s})
    OBVIOUS
  <2>2. Knows(t, old, signal) /\ old \in Seq(Slots \X Signals) /\ NoRepeats(old)
    BY <1>2, <2>1 DEF Knows
  <2>3. lists[t] = Only(old, left)
    BY <1>6, <2>1
  <2>4. /\ lists[t] \in Seq(Slots \X Signals) /\ NoRepeats(lists[t])
        /\ Elements(lists[t]) = Elements(old) \cap left
    BY <2>2, <2>3, OnlyFacts
  <2>5. ASSUME NEW a \in Slots, NEW x \in Signals
        PROVE  << a, x >> \in Elements(lists[t]) <=> Owner[a] = t /\ a \in SlotsOf(new[x])
    <3>1. << a, x >> \in Elements(old) <=> Owner[a] = t /\ a \in SlotsOf(signal[x])
      BY <2>2 DEF Knows
    <3>2. << a, x >> \in left <=> x # s
      BY <2>1
    <3> QED
      BY <1>4, <1>5, <2>4, <3>1, <3>2
  <2> QED
    BY <2>4, <2>5 DEF Knows
<1>8. PICK live : live = alive' /\ live = alive \ {s}
  BY <1>1
<1>9. \A x \in Signals : x \notin live => SlotsOf(new[x]) = {}
  BY <1>2, <1>4, <1>5, <1>8
<1>10. Joined(new, live, lists)
  <2>1. lists = [t \in Trackers |-> lists[t]]
    BY <1>6
  <2> QED
    BY <1>2, <1>5, <1>7, <1>8, <1>9, <2>1 DEF Joined
<1>11. PICK frames : /\ frames = stack'
                     /\ frames = [i \in DOMAIN stack |->
                                    [stack[i] EXCEPT !.deleted = @ \/ stack[i].signal = s]]
  BY <1>1
<1>12. stack \in Seq(Emission) /\ DOMAIN stack = 1 .. Len(stack) /\ Len(stack) \in Nat
  BY <1>2 DEF Nested
<1>13. /\ frames \in Seq(Emission) /\ Len(frames) = Len(stack)
       /\ \A i \in 1 .. Len(stack) :
            /\ frames[i] \in Emission /\ frames[i].signal = stack[i].signal
            /\ frames[i].at = stack[i].at /\ frames[i].next = stack[i].next
            /\ frames[i].end = stack[i].end /\ frames[i].running = stack[i].running
            /\ frames[i].deleted <=> stack[i].deleted \/ stack[i].signal = s
  <2>1. frames = Told(stack, s) /\ stack \in Seq(Emission)
    BY <1>11, <1>12 DEF Told
  <2> QED
    BY <2>1, ToldFacts
<1>14. frames \in Seq(Emission) /\ Len(frames) = Len(stack)
  BY <1>13
<1>15. Nested(new, live, frames)
  <2>1. ASSUME NEW i \in 1 .. Len(frames) PROVE OnTrack(frames[i], new, live)
    <3>1. OnTrack(stack[i], signal, alive) /\ i \in 1 .. Len(stack) /\ stack[i].signal \in Signals
      <4>1. i \in 1 .. Len(stack) /\ stack[i] \in Emission
        BY <1>12, <1>14
      <4>2. OnTrack(stack[i], signal, alive)
        BY <1>2, <4>1 DEF Nested
      <4> QED
        BY <4>1, <4>2 DEF Emission
    <3> QED
      BY <1>5, <1>8, <1>13, <3>1 DEF OnTrack, From
  <2>2. \A i, j \in 1 .. Len(frames) :
          ~frames[i].deleted /\ ~frames[j].deleted /\ frames[i].signal = frames[j].signal => i = j
    BY <1>2, <1>13, <1>14 DEF Nested
  <2>3. \A i \in 1 .. Len(frames) : i # Len(frames) => frames[i].running
    BY <1>2, <1>13, <1>14 DEF Nested
  <2> QED
    BY <1>14, <2>1, <2>2, <2>3 DEF Nested
<1> QED
  BY <1>3, <1>6, <1>8, <1>10, <1>11, <1>15 DEF SignalInv
-----------------------------------------------------------------------------
(***************************************************************************)
(* Emissions.                                                              *)
(***************************************************************************)

\* The innermost emission moves.
LEMMA TopMoves ==
  ASSUME NEW all, NEW live, NEW frames, Nested(all, live, frames), frames # << >>,
         NEW x \in Emission, x.signal = frames[Len(frames)].signal,
         x.deleted = frames[Len(frames)].deleted, OnTrack(x, all, live),
         NEW new, new = Put(frames, Len(frames), x)
  PROVE  Nested(all, live, new)
<1>1. /\ frames \in Seq(Emission) /\ Len(frames) \in Nat \ {0}
      /\ Len(frames) \in 1 .. Len(frames)
  BY Positions DEF Nested
<1>2. /\ new \in Seq(Emission) /\ Len(new) = Len(frames)
      /\ \A i \in 1 .. Len(frames) : new[i] = IF i = Len(frames) THEN x ELSE frames[i]
  BY <1>1 DEF Put
<1>3. \A i \in 1 .. Len(new) : OnTrack(new[i], all, live)
  BY <1>2 DEF Nested
<1>4. \A i \in 1 .. Len(frames) :
        new[i].signal = frames[i].signal /\ new[i].deleted = frames[i].deleted
  BY <1>2
<1>5. \A i, j \in 1 .. Len(new) :
        ~new[i].deleted /\ ~new[j].deleted /\ new[i].signal = new[j].signal => i = j
  BY <1>2, <1>4 DEF Nested
<1>6. \A i \in 1 .. Len(new) : i # Len(new) => new[i].running
  BY <1>2 DEF Nested
<1> QED
  BY <1>2, <1>3, <1>5, <1>6 DEF Nested

\* The innermost emission ends.
LEMMA TopEnds ==
  ASSUME NEW all, NEW live, NEW frames, Nested(all, live, frames), frames # << >>,
         NEW new, new = Front(frames)
  PROVE  /\ Nested(all, live, new)
         /\ \A i \in 1 .. Len(new) :
              /\ new[i] = frames[i] /\ new[i].running
              /\ ~new[i].deleted /\ ~frames[Len(frames)].deleted
                   => new[i].signal # frames[Len(frames)].signal
         /\ Len(new) = Len(frames) - 1
<1>1. /\ frames \in Seq(Emission) /\ Len(frames) \in Nat \ {0}
  BY Positions DEF Nested
<1>2. /\ new \in Seq(Emission) /\ Len(new) = Len(frames) - 1
      /\ \A i \in 1 .. Len(new) : new[i] = frames[i] /\ i \in 1 .. Len(frames) /\ i # Len(frames)
  <2>1. new = SubSeq(frames, 1, Len(frames) - 1)
    BY DEF Front
  <2>2. PICK n : n = Len(frames)
    OBVIOUS
  <2>3. n \in Nat \ {0} /\ new = SubSeq(frames, 1, n - 1)
    BY <1>1, <2>1, <2>2
  <2>4. new \in Seq(Emission) /\ Len(new) = n - 1 /\ \A i \in 1 .. n - 1 : new[i] = frames[i]
    BY <1>1, <2>2, <2>3, SubSeqProperties
  <2> QED
    BY <2>2, <2>3, <2>4
<1>3. /\ \A i \in 1 .. Len(new) : OnTrack(new[i], all, live)
      /\ \A i, j \in 1 .. Len(new) :
           ~new[i].deleted /\ ~new[j].deleted /\ new[i].signal = new[j].signal => i = j
      /\ \A i \in 1 .. Len(new) : new[i].running
  BY <1>2 DEF Nested
<1>4. Len(frames) \in 1 .. Len(frames)
  BY <1>1
<1> QED
  BY <1>2, <1>3, <1>4 DEF Nested

\* Where the innermost emission stands.
LEMMA TopFacts ==
  ASSUME SignalInv, stack # << >>
  PROVE  /\ Len(stack) \in Nat \ {0} /\ stack \in Seq(Emission) /\ Top \in Emission
         /\ Top = stack[Len(stack)] /\ OnTrack(Top, signal, alive)
         /\ Top.signal \in Signals /\ Settled(signal[Top.signal])
         /\ ~Top.deleted => Top.signal \in alive
         /\ ~Top.deleted /\ Top.at # INVALID_INDEX =>
              /\ Top.at \in InList(signal[Top.signal])
              /\ Visited.next \in InList(signal[Top.signal]) \cup {INVALID_INDEX}
              /\ ~Top.running => Reaches(signal[Top.signal],
                                   IF Top.at = Top.end THEN INVALID_INDEX ELSE Visited.next, Top.end)
<1>1. /\ AllSettled(signal) /\ stack \in Seq(Emission)
      /\ \A i \in 1 .. Len(stack) : OnTrack(stack[i], signal, alive)
  BY DEF SignalInv, Joined, Nested
<1>2. Len(stack) \in Nat \ {0} /\ Len(stack) \in 1 .. Len(stack)
  BY <1>1, Positions
<1>3. Top = stack[Len(stack)] /\ Top \in Emission /\ OnTrack(Top, signal, alive)
  BY <1>1, <1>2 DEF Top
<1>4. PICK f, q : f = Top /\ q = signal[f.signal]
  OBVIOUS
<1>5. f.signal \in Signals /\ Settled(q)
  BY <1>1, <1>3, <1>4 DEF AllSettled, Emission
<1>6. ~f.deleted => f.signal \in alive /\ f.at \in InList(q) \cup {INVALID_INDEX}
  BY <1>3, <1>4 DEF OnTrack
<1>7. \A i \in InList(q) : At(q, i).next \in InList(q) \cup {INVALID_INDEX}
  BY <1>5, RestOfList DEF Settled, Base, Ordered
<1>8. Visited = At(q, f.at)
  BY <1>4 DEF Visited
<1>9. ASSUME ~f.deleted, f.at # INVALID_INDEX, ~f.running
      PROVE  Reaches(q, IF f.at = f.end THEN INVALID_INDEX ELSE At(q, f.at).next, f.end)
  <2>1. Tidy(q) /\ Reaches(q, f.at, f.end)
    BY <1>3, <1>4, <1>5, <1>9 DEF OnTrack, From, Settled, Base
  <2> QED
    BY <1>9, <2>1, ReachesNext
<1> QED
  BY <1>1, <1>2, <1>3, <1>4, <1>5, <1>6, <1>7, <1>8, <1>9

\* The places of a list are numbers.
LEMMA PlacesAreNumbers ==
  ASSUME NEW q, Settled(q)
  PROVE  \A i \in InList(q) \cup {INVALID_INDEX} : i \in Int
  BY NodeFacts DEF Settled, Base, Tidy, InList

\* SkipNode, CallSlot and SlotReturns only move the innermost emission.
LEMMA OnlyTopMoves ==
  ASSUME SignalInv, stack # << >>, NEW x \in Emission, x.signal = Top.signal,
         x.deleted = Top.deleted, OnTrack(x, signal, alive),
         stack' = Put(stack, Len(stack), x), UNCHANGED << signal, alive, tracked >>
  PROVE  SignalInv'
<1>1. Nested(signal, alive, stack) /\ Joined(signal, alive, tracked)
  BY DEF SignalInv
<1>2. x.signal = stack[Len(stack)].signal /\ x.deleted = stack[Len(stack)].deleted
  BY TopFacts
<1>3. PICK new : new = stack' /\ new = Put(stack, Len(stack), x)
  OBVIOUS
<1>4. Nested(signal, alive, new)
  BY <1>1, <1>2, <1>3, TopMoves
<1> QED
  BY <1>1, <1>3, <1>4 DEF SignalInv

LEMMA EmissionStepsKeepOrder ==
  ASSUME SignalInv, SkipNode \/ CallSlot \/ SlotReturns
  PROVE  SignalInv'
<1>1. stack # << >> /\ UNCHANGED << signal, alive, tracked >>
  BY DEF SkipNode, CallSlot, SlotReturns, Visiting, Emitting
<1>2. PICK f, q : f = Top /\ q = signal[f.signal]
  OBVIOUS
<1>3. /\ f \in Emission /\ f = stack[Len(stack)] /\ f.signal \in Signals /\ Settled(q)
      /\ OnTrack(f, signal, alive) /\ stack \in Seq(Emission) /\ Len(stack) \in Nat \ {0}
      /\ ~f.deleted /\ f.at # INVALID_INDEX => Visited.next \in InList(q) \cup {INVALID_INDEX}
      /\ ~f.deleted /\ f.at # INVALID_INDEX /\ ~f.running =>
           Reaches(q, IF f.at = f.end THEN INVALID_INDEX ELSE Visited.next, f.end)
  BY <1>1, <1>2, TopFacts
<1>4. \A i \in InList(q) \cup {INVALID_INDEX} : i \in Int
  BY <1>3, PlacesAreNumbers
<1>5. ASSUME NEW next \in Int, ~f.deleted => next \in InList(q) \cup {INVALID_INDEX},
             ~f.deleted => Reaches(q, IF f.at = f.end THEN INVALID_INDEX ELSE next, f.end),
             stack' = [stack EXCEPT ![Len(stack)] = Advanced(@, next)]
      PROVE  SignalInv'
  <2>1. PICK at, x : /\ at = IF f.at = f.end THEN INVALID_INDEX ELSE next
                     /\ x = [f EXCEPT !.at = at, !.running = FALSE]
    OBVIOUS
  <2>2. at \in Int /\ (~f.deleted => at \in InList(q) \cup {INVALID_INDEX})
    BY <1>4, <1>5, <2>1
  <2>3. /\ x \in Emission /\ x.signal = f.signal /\ x.deleted = f.deleted /\ x.at = at
        /\ x.next = f.next /\ x.end = f.end /\ ~x.running
    BY <1>3, <2>1, <2>2 DEF Emission
  <2>4. OnTrack(x, signal, alive)
    BY <1>2, <1>3, <1>5, <2>1, <2>2, <2>3 DEF OnTrack, From
  <2>5. stack' = Put(stack, Len(stack), x)
    BY <1>3, <1>5, <2>1 DEF Put, Advanced
  <2> QED
    BY <1>1, <1>2, <2>3, <2>4, <2>5, OnlyTopMoves
<1>6. CASE SkipNode
  <2>1. /\ stack' = [stack EXCEPT ![Len(stack)] = Advanced(@, Visited.next)]
        /\ ~f.deleted /\ f.at # INVALID_INDEX /\ ~f.running
    BY <1>2, <1>6 DEF SkipNode, Visiting, Emitting
  <2>2. /\ Visited.next \in InList(q) \cup {INVALID_INDEX}
        /\ Reaches(q, IF f.at = f.end THEN INVALID_INDEX ELSE Visited.next, f.end)
    BY <1>3, <2>1
  <2> QED
    BY <1>4, <1>5, <2>1, <2>2
<1>7. CASE SlotReturns
  <2>1. stack' = [stack EXCEPT ![Len(stack)] = Advanced(@, f.next)] /\ f.running
    BY <1>2, <1>7 DEF SlotReturns
  <2>2. /\ f.next \in Int /\ (~f.deleted => f.next \in InList(q) \cup {INVALID_INDEX})
        /\ ~f.deleted => Reaches(q, IF f.at = f.end THEN INVALID_INDEX ELSE f.next, f.end)
    BY <1>2, <1>3, <2>1 DEF OnTrack, Emission, From
  <2> QED
    BY <1>5, <2>1, <2>2
<1>8. CASE CallSlot
  <2>1. PICK next : next = Visited.next
    OBVIOUS
  <2>2. /\ stack' = [stack EXCEPT ![Len(stack)].next = next, ![Len(stack)].running = TRUE]
        /\ ~f.deleted /\ f.at # INVALID_INDEX /\ ~f.running
    BY <1>2, <1>8, <2>1 DEF CallSlot, Visiting, Emitting
  <2>3. next \in InList(q) \cup {INVALID_INDEX} /\ next \in Int
    BY <1>3, <1>4, <2>1, <2>2
  <2>4. PICK x : x = [f EXCEPT !.next = next, !.running = TRUE]
    OBVIOUS
  <2>5. /\ x \in Emission /\ x.signal = f.signal /\ x.deleted = f.deleted /\ x.at = f.at
        /\ x.next = next /\ x.end = f.end /\ x.running
    BY <1>3, <2>3, <2>4 DEF Emission
  <2>6. OnTrack(x, signal, alive)
    BY <1>2, <1>3, <2>1, <2>2, <2>3, <2>5 DEF OnTrack, From
  <2>7. stack' = Put(stack, Len(stack), x)
    BY <1>3, <2>2, <2>4 DEF Put
  <2> QED
    BY <1>1, <1>2, <2>5, <2>6, <2>7, OnlyTopMoves
<1> QED
  BY <1>6, <1>7, <1>8
LEMMA EmitKeepsOrder ==
  ASSUME SignalInv, Emit
  PROVE  SignalInv'
<1>1. PICK s \in alive :
        /\ ~signal[s].emitting
        /\ stack' = Append(stack, [signal |-> s, at |-> signal[s].head, next |-> INVALID_INDEX,
                                   end |-> EmitEnd(signal[s]), running |-> FALSE,
                                   deleted |-> FALSE])
        /\ signal' = [signal EXCEPT ![s].emitting = TRUE]
  BY DEF Emit
<1>2. alive' = alive /\ tracked' = tracked
  BY DEF Emit
<1>3. /\ AllSettled(signal) /\ alive \subseteq Signals /\ s \in Signals
      /\ \A t \in Trackers : Knows(t, tracked[t], signal)
      /\ \A x \in Signals : x \notin alive => SlotsOf(signal[x]) = {}
      /\ Nested(signal, alive, stack) /\ tracked = [t \in Trackers |-> tracked[t]]
  BY DEF SignalInv, Joined
<1>4. PICK q, r : q = signal[s] /\ r = [q EXCEPT !.emitting = TRUE]
  OBVIOUS
<1>5. Settled(q) /\ Len(q.node) <= MaxNodes[s] /\ q.tail \in Int
  BY <1>3, <1>4 DEF AllSettled, Pool
<1>6. /\ Settled(r) /\ SlotsOf(r) = SlotsOf(q) /\ Len(r.node) = Len(q.node) /\ r.emitting
      /\ InList(r) = InList(q) /\ q.head \in InList(q) \cup {INVALID_INDEX}
      /\ Reaches(r, q.head, q.tail)
  BY <1>4, <1>5, BeginFacts
<1>7. PICK new : new = signal' /\ new = Put(signal, s, r)
  BY <1>1, <1>4 DEF Put
<1>8. AllSettled(new) /\ new[s] = r /\ \A x \in Signals : x # s => new[x] = signal[x]
  <2>1. AllSettled(signal) /\ Len(r.node) <= MaxNodes[s] /\ s \in Signals /\ Settled(r)
    BY <1>3, <1>5, <1>6
  <2> QED
    BY <1>7, <2>1, OneSignal
<1>9. \A x \in Signals : SlotsOf(new[x]) = SlotsOf(signal[x])
  BY <1>4, <1>6, <1>8
<1>10. Joined(new, alive, tracked)
  <2>1. \A t \in Trackers : Knows(t, tracked[t], new)
    BY <1>3, <1>9 DEF Knows
  <2> QED
    BY <1>3, <1>8, <1>9, <2>1 DEF Joined
<1>11. PICK f, frames :
         /\ f = [signal |-> s, at |-> q.head, next |-> INVALID_INDEX, end |-> q.tail,
                 running |-> FALSE, deleted |-> FALSE]
         /\ frames = stack' /\ frames = Append(stack, f)
  BY <1>1, <1>4 DEF EmitEnd
<1>12. /\ f \in Emission /\ f.signal = s /\ f.at = q.head /\ f.next = INVALID_INDEX /\ ~f.deleted
      /\ f.end = q.tail /\ ~f.running
  <2>1. q.head \in Int /\ INVALID_INDEX \in Int
    BY <1>5, <1>6, PlacesAreNumbers
  <2> QED
    BY <1>3, <1>5, <1>11, <2>1 DEF Emission
<1>13. OnTrack(f, new, alive)
  BY <1>6, <1>8, <1>12 DEF OnTrack, From
<1>14. PICK n : n = Len(stack)
  OBVIOUS
<1>15. /\ n \in Nat /\ stack \in Seq(Emission)
       /\ frames \in Seq(Emission) /\ Len(frames) = n + 1 /\ frames[n + 1] = f
       /\ \A i \in 1 .. n : frames[i] = stack[i]
  <2>1. stack \in Seq(Emission)
    BY <1>3 DEF Nested
  <2> QED
    BY <1>11, <1>12, <1>14, <2>1, AppendProperties
<1>16. ASSUME NEW i \in 1 .. n
       PROVE  /\ OnTrack(frames[i], new, alive)
              /\ frames[i].deleted \/ frames[i].signal # s
  <2>1. PICK g : g = frames[i] /\ OnTrack(g, signal, alive) /\ g \in Emission
    BY <1>3, <1>14, <1>15 DEF Nested
  <2>2. g.deleted \/ g.signal # s
    BY <1>1, <2>1 DEF OnTrack
  <2>3. g.signal \in Signals
    BY <2>1 DEF Emission
  <2>4. ~g.deleted => new[g.signal] = signal[g.signal]
    BY <1>8, <2>2, <2>3
  <2> QED
    BY <2>1, <2>2, <2>4 DEF OnTrack
<1>17. \A i, j \in 1 .. n :
         ~stack[i].deleted /\ ~stack[j].deleted /\ stack[i].signal = stack[j].signal => i = j
  BY <1>3, <1>14 DEF Nested
<1>18. ASSUME NEW i \in 1 .. n + 1, NEW j \in 1 .. n + 1, ~frames[i].deleted, ~frames[j].deleted,
              frames[i].signal = frames[j].signal
       PROVE  i = j
  <2>1. CASE i \in 1 .. n /\ j \in 1 .. n
    BY <1>15, <1>17, <1>18, <2>1
  <2>2. CASE i \in 1 .. n /\ j = n + 1
    BY <1>12, <1>15, <1>16, <1>18, <2>2
  <2>3. CASE i = n + 1 /\ j \in 1 .. n
    BY <1>12, <1>15, <1>16, <1>18, <2>3
  <2> QED
    BY <1>15, <2>1, <2>2, <2>3
<1>19. Nested(new, alive, frames)
  <2>1. \A i \in 1 .. n + 1 : OnTrack(frames[i], new, alive)
    BY <1>13, <1>15, <1>16
  <2>2. ASSUME NEW i \in 1 .. n PROVE frames[i].running
    <3>1. i # n => stack[i].running
      BY <1>3, <1>14 DEF Nested
    <3>2. stack # << >> /\ stack[n].running
      BY <1>1, <1>14, <1>15 DEF Emit, Application, Top
    <3> QED
      BY <1>15, <3>1, <3>2
  <2> QED
    BY <1>15, <1>18, <2>1, <2>2 DEF Nested
<1> QED
  BY <1>2, <1>7, <1>10, <1>11, <1>19 DEF SignalInv

LEMMA FinishKeepsOrder ==
  ASSUME SignalInv, FinishEmit
  PROVE  SignalInv'
<1>1. /\ stack # << >> /\ ~Top.deleted
      /\ signal' = [signal EXCEPT ![Top.signal] = [CleanupConnections(@) EXCEPT !.emitting = FALSE]]
      /\ stack' = Front(stack) /\ alive' = alive /\ tracked' = tracked
  BY DEF FinishEmit, Emitting
<1>2. /\ AllSettled(signal) /\ alive \subseteq Signals
      /\ \A t \in Trackers : Knows(t, tracked[t], signal)
      /\ \A x \in Signals : x \notin alive => SlotsOf(signal[x]) = {}
      /\ Nested(signal, alive, stack) /\ tracked = [t \in Trackers |-> tracked[t]]
  BY DEF SignalInv, Joined
<1>3. PICK s, q, r : /\ s = Top.signal /\ q = signal[s]
                     /\ r = [CleanupConnections(q) EXCEPT !.emitting = FALSE]
  OBVIOUS
<1>4. s \in Signals /\ Settled(q) /\ Len(q.node) <= MaxNodes[s]
  BY <1>1, <1>2, <1>3, TopFacts DEF AllSettled
<1>5. Settled(r) /\ SlotsOf(r) = SlotsOf(q) /\ Len(r.node) = Len(q.node)
  BY <1>3, <1>4, FinishFacts
<1>6. PICK new : new = signal' /\ new = Put(signal, s, r)
  BY <1>1, <1>2, <1>3, <1>4 DEF Put, AllSettled
<1>7. AllSettled(new) /\ new[s] = r /\ \A x \in Signals : x # s => new[x] = signal[x]
  <2>1. AllSettled(signal) /\ Len(r.node) <= MaxNodes[s] /\ s \in Signals /\ Settled(r)
    BY <1>2, <1>4, <1>5
  <2> QED
    BY <1>6, <2>1, OneSignal
<1>8. \A x \in Signals : SlotsOf(new[x]) = SlotsOf(signal[x])
  BY <1>3, <1>5, <1>7
<1>9. Joined(new, alive, tracked)
  <2>1. \A t \in Trackers : Knows(t, tracked[t], new)
    BY <1>2, <1>8 DEF Knows
  <2> QED
    BY <1>2, <1>7, <1>8, <2>1 DEF Joined
<1>10. PICK frames : frames = stack' /\ frames = Front(stack)
  BY <1>1
<1>11. /\ Nested(signal, alive, frames)
       /\ \A i \in 1 .. Len(frames) : ~frames[i].deleted => frames[i].signal # s
  <2>1. Top = stack[Len(stack)]
    BY DEF Top
  <2> QED
    BY <1>1, <1>2, <1>3, <1>10, <2>1, TopEnds
<1>12. ASSUME NEW i \in 1 .. Len(frames) PROVE OnTrack(frames[i], new, alive)
  <2>1. PICK f : f = frames[i] /\ f \in Emission /\ OnTrack(f, signal, alive)
    BY <1>11 DEF Nested
  <2>2. f.signal \in Signals /\ (~f.deleted => f.signal # s)
    BY <1>11, <2>1 DEF Emission
  <2>3. ~f.deleted => new[f.signal] = signal[f.signal]
    BY <1>7, <2>2
  <2> QED
    BY <2>1, <2>3 DEF OnTrack
<1>13. Nested(new, alive, frames)
  BY <1>11, <1>12 DEF Nested
<1> QED
  BY <1>1, <1>6, <1>9, <1>10, <1>13 DEF SignalInv

LEMMA AbandonKeepsOrder ==
  ASSUME SignalInv, AbandonEmit
  PROVE  SignalInv'
<1>1. stack # << >> /\ stack' = Front(stack) /\ UNCHANGED << signal, alive, tracked >>
  BY DEF AbandonEmit, Emitting
<1>2. Nested(signal, alive, stack) /\ Joined(signal, alive, tracked)
  BY DEF SignalInv
<1>3. PICK frames : frames = stack' /\ frames = Front(stack)
  BY <1>1
<1>4. Nested(signal, alive, frames)
  BY <1>1, <1>2, <1>3, TopEnds
<1> QED
  BY <1>1, <1>2, <1>3, <1>4 DEF SignalInv

\* The invariant is inductive: at the beginning and after every step the
\* signals, their trackers and the emissions in progress are in order.
LEMMA SignalsInOrder ==
  ASSUME PlacesFit
  PROVE  SignalSpec => []SignalInv
<1>1. ASSUME SignalInv, SignalNext PROVE SignalInv'
  BY <1>1, ConnectKeepsOrder, DisconnectKeepsOrder, DisconnectAllKeepsOrder, DestroyKeepsOrder,
     EmitKeepsOrder, EmissionStepsKeepOrder, FinishKeepsOrder, AbandonKeepsOrder DEF SignalNext
<1>2. ASSUME SignalInv, UNCHANGED signalVars PROVE SignalInv'
  BY <1>2 DEF SignalInv, signalVars
<1>3. SignalInv /\ [SignalNext]_signalVars => SignalInv'
  BY <1>1, <1>2
<1> QED
  BY <1>3, InitKeepsOrder, PTL DEF SignalSpec
-----------------------------------------------------------------------------
(***************************************************************************)
(* What the invariant says of the properties.                              *)
(***************************************************************************)

\* The links follow one order in both directions.
LEMMA OrderIsInOrder ==
  ASSUME NEW q, Tidy(q), NEW behind, Orders(q, behind)
  PROVE  behind \in [InList(q) -> SUBSET InList(q)] /\ InOrder(q, behind)
<1>1. PICK L, ahead : L = InList(q) /\ ahead = [i \in L |-> {j \in L : i \in behind[j]}]
  OBVIOUS
<1>2. /\ StrictOrder(L, behind) /\ INVALID_INDEX \notin L
      /\ IsFirst(q.head, L, L, behind) /\ IsLast(q.tail, L, L, behind)
      /\ \A i \in L : /\ IsFirst(At(q, i).next, behind[i], L, behind)
                      /\ IsLast(At(q, i).prev, Ahead(i, L, behind), L, behind)
  BY <1>1, NodeFacts DEF Orders, Linked, Nexts, Prevs, InList, Tidy
<1>3. /\ behind \in [L -> SUBSET L]
      /\ \A i, j \in L : j \in behind[i] => i # j /\ i \notin behind[j]
      /\ \A i, j \in L : i = j \/ i \in behind[j] \/ j \in behind[i]
      /\ \A i, j, k \in L : j \in behind[i] /\ k \in behind[j] => k \in behind[i]
  BY <1>2 DEF StrictOrder
<1>4. \A i \in L : behind[i] \subseteq L
  BY <1>3
<1>5. \A i \in L : ahead[i] = Ahead(i, L, behind)
  BY <1>1 DEF Ahead
<1>6. ASSUME NEW i \in L PROVE ahead[i] = L \ ({i} \cup behind[i])
  BY <1>1, <1>3
<1>7. ASSUME NEW i \in L, NEW j \in behind[i] PROVE behind[j] \subseteq behind[i]
  BY <1>3, <1>4
<1>8. ASSUME NEW i, NEW part \in SUBSET L, IsFirst(i, part, L, behind),
             \A j \in part : behind[j] \subseteq part
      PROVE  Begins(i, part, behind)
  BY <1>2, <1>3, <1>4, <1>8 DEF IsFirst, Begins
<1>9. ASSUME NEW i, NEW part \in SUBSET L, IsLast(i, part, L, behind),
             \A j \in part : ahead[j] \subseteq part
      PROVE  Begins(i, part, ahead)
  <2>1. CASE i = INVALID_INDEX
    BY <1>2, <1>9, <2>1 DEF IsLast, Begins
  <2>2. CASE i # INVALID_INDEX
    <3>1. i \in L /\ i \in part /\ \A j \in part : j = i \/ i \in behind[j]
      BY <1>9, <2>2 DEF IsLast
    <3>2. \A j \in part : j = i \/ j \in ahead[i]
      BY <1>1, <3>1
    <3>3. part = {i} \cup ahead[i]
      BY <1>9, <3>1, <3>2
    <3> QED
      BY <2>2, <3>1, <3>3 DEF Begins
  <2> QED
    BY <2>1, <2>2
<1>10. \A i \in L : Begins(At(q, i).next, behind[i], behind)
  BY <1>2, <1>4, <1>7, <1>8
<1>11. ASSUME NEW i \in L PROVE Begins(At(q, i).prev, ahead[i], ahead)
  <2>1. IsLast(At(q, i).prev, ahead[i], L, behind)
    BY <1>2, <1>5
  <2>2. ahead[i] \in SUBSET L /\ \A j \in ahead[i] : ahead[j] \subseteq ahead[i]
    BY <1>1, <1>3
  <2> QED
    BY <1>9, <2>1, <2>2
<1>12. Begins(q.head, L, behind)
  <2>1. L \in SUBSET L
    OBVIOUS
  <2> QED
    BY <1>2, <1>4, <1>8, <2>1
<1>13. Begins(q.tail, L, ahead)
  <2>1. L \in SUBSET L /\ \A j \in L : ahead[j] \subseteq L
    BY <1>1
  <2> QED
    BY <1>2, <1>9, <2>1
<1>14. InOrder(q, behind)
  BY <1>1, <1>6, <1>7, <1>10, <1>11, <1>12, <1>13 DEF InOrder
<1> QED
  BY <1>1, <1>3, <1>14

LEMMA SettledIsConsistent ==
  ASSUME SignalInv
  PROVE  PoolIsConsistent
<1>1. \A s \in alive : Settled(signal[s])
  BY DEF SignalInv, Joined, AllSettled
<1>2. ASSUME NEW s \in alive, NEW q, q = signal[s]
      PROVE  /\ \E behind \in [InList(q) -> SUBSET InList(q)] : InOrder(q, behind)
             /\ NoRepeats(q.free) /\ LiveNodes(q) \subseteq InList(q)
             /\ q.active = Cardinality(LiveNodes(q))
             /\ q.nulls = Cardinality(Emptied(q))
             /\ ~q.emitting => q.nulls = 0
  <2>1. Settled(q) /\ Tidy(q)
    BY <1>1, <1>2 DEF Settled, Base
  <2>2. PICK behind : Orders(q, behind)
    BY <2>1 DEF Settled, Base, Ordered
  <2>3. behind \in [InList(q) -> SUBSET InList(q)] /\ InOrder(q, behind)
    BY <2>1, <2>2, OrderIsInOrder
  <2>4. NoRepeats(q.free) /\ LiveNodes(q) \subseteq InList(q)
    BY <2>1, LiveFacts DEF Tidy
  <2>5. /\ q.active = Cardinality(LiveNodes(q)) /\ q.nulls = Cardinality(Emptied(q))
        /\ ~q.emitting => q.nulls = 0
    BY <2>1 DEF Settled, Base, Counted
  <2> QED
    BY <2>3, <2>4, <2>5
<1>3. ListIsConsistent
  BY <1>2 DEF ListIsConsistent
<1>4. OneNodePerSlot
  BY <1>1 DEF Settled, Base, Single, OneNodePerSlot
<1>5. CacheIsExact
  BY <1>1 DEF Settled, Base, Exact, Entries, CacheIsExact
<1> QED
  BY <1>3, <1>4, <1>5 DEF PoolIsConsistent

LEMMA KnownIsAgreed ==
  ASSUME SignalInv
  PROVE  TrackersAgree
<1> SUFFICES ASSUME NEW t \in Trackers, NEW list, list = tracked[t]
             PROVE  /\ NoRepeats(list)
                    /\ Elements(list) = {p \in Slots \X Signals :
                         /\ Owner[p[1]] = t /\ p[2] \in alive
                         /\ \E i \in LiveNodes(signal[p[2]]) : At(signal[p[2]], i).slot = p[1]}
  BY DEF TrackersAgree
<1>1. /\ list \in Seq(Slots \X Signals) /\ NoRepeats(list)
      /\ \A slot \in Slots, s \in Signals :
           << slot, s >> \in Elements(list) <=> Owner[slot] = t /\ slot \in SlotsOf(signal[s])
      /\ \A s \in Signals : s \notin alive => SlotsOf(signal[s]) = {}
  BY DEF SignalInv, Joined, Knows
<1>2. Elements(list) \subseteq Slots \X Signals
  BY <1>1, SequenceFacts
<1>3. ASSUME NEW p \in Slots \X Signals
      PROVE  p \in Elements(list) <=>
               /\ Owner[p[1]] = t /\ p[2] \in alive
               /\ \E i \in LiveNodes(signal[p[2]]) : At(signal[p[2]], i).slot = p[1]
  <2>1. PICK slot \in Slots, s \in Signals : p = << slot, s >>
    OBVIOUS
  <2>2. p[1] = slot /\ p[2] = s
    BY <2>1
  <2>3. slot \in SlotsOf(signal[s]) <=> \E i \in LiveNodes(signal[s]) : At(signal[s], i).slot = slot
    BY DEF SlotsOf
  <2>4. p \in Elements(list) <=> Owner[slot] = t /\ s \in alive /\ slot \in SlotsOf(signal[s])
    BY <1>1, <2>1
  <2> QED
    BY <2>2, <2>3, <2>4
<1> QED
  BY <1>1, <1>2, <1>3

LEMMA NestedIsInList ==
  ASSUME SignalInv
  PROVE  EmissionsStayInList
<1>1. Nested(signal, alive, stack) /\ DOMAIN stack = 1 .. Len(stack)
  BY DEF SignalInv, Nested
<1> QED
  BY <1>1 DEF Nested, OnTrack, EmissionsStayInList

\* The list of every signal holds its live connections, each slot once, in one
\* order in both directions, and the counters and the cache agree with it,
\* whatever the slots that run do to the signals: as long as the number of a
\* place fits its 16 bits.
THEOREM PoolIsConsistentHolds ==
  ASSUME PlacesFit
  PROVE  SignalSpec => []PoolIsConsistent
  BY SignalsInOrder, SettledIsConsistent, PTL

\* A tracker and the signals know of the same connections, through connecting,
\* disconnecting from either side, and the end of a signal or of an owner of
\* slots, in or out of an emission.
THEOREM TrackersAgreeHolds ==
  ASSUME PlacesFit
  PROVE  SignalSpec => []TrackersAgree
  BY SignalsInOrder, KnownIsAgreed, PTL

\* Emit only follows the links of places that have not been freed.
THEOREM EmissionsStayInListHolds ==
  ASSUME PlacesFit
  PROVE  SignalSpec => []EmissionsStayInList
  BY SignalsInOrder, NestedIsInList, PTL
-----------------------------------------------------------------------------
(***************************************************************************)
(* The promise: every step of the signals is one that SignalPromise allows *)
(* for the slots that are connected and those that are still to be called, *)
(* or changes neither.                                                     *)
(***************************************************************************)

\* What the promise sees of an emission, of all of them, and of the signals.
ToCall(f, all) == IF f.deleted THEN << >> ELSE CalledFrom(all[f.signal], From(f), f.end)
Seen(f, all) == [signal |-> f.signal, todo |-> ToCall(f, all)]
Progress(frames, all) == [i \in DOMAIN frames |-> Seen(frames[i], all)]
Listeners(all) == [s \in Signals |-> Connected(all[s])]
Shown == [signal : Signals, todo : Seq(Slots)]

\* The variables of the promise in these words, before and after a step.
LEMMA Views ==
  /\ Connections = Listeners(signal) /\ Connections' = Listeners(signal')
  /\ Emissions = Progress(stack, signal) /\ Emissions' = Progress(stack', signal')
  /\ InSlot <=> stack # << >> /\ Top.running
  /\ InSlot' <=> stack' # << >> /\ stack'[Len(stack')].running
  BY DEF Connections, Emissions, Todo, Listeners, Progress, Seen, ToCall, InSlot, Top

LEMMA WithoutIsLeft == \A s, gone : Promise!Without(s, gone) = Left(s, gone)
  BY DEF Promise!Without, Promise!Only, Left, Only

\* Every emission in progress has some slots of its signal still to call.
LEMMA ProgressFacts ==
  ASSUME NEW all, NEW live, NEW frames, AllSettled(all), Nested(all, live, frames)
  PROVE  /\ Len(frames) \in Nat /\ DOMAIN frames = 1 .. Len(frames)
         /\ Progress(frames, all) \in Seq(Shown) /\ Len(Progress(frames, all)) = Len(frames)
         /\ DOMAIN Progress(frames, all) = DOMAIN frames
         /\ Progress(frames, all) = << >> <=> frames = << >>
         /\ \A i \in 1 .. Len(frames) :
              /\ Progress(frames, all)[i] = Seen(frames[i], all)
              /\ Progress(frames, all)[i].signal = frames[i].signal
              /\ Progress(frames, all)[i].todo = ToCall(frames[i], all)
              /\ frames[i] \in Emission /\ frames[i].signal \in Signals
              /\ ToCall(frames[i], all) \in Seq(Slots)
<1>1. /\ frames \in Seq(Emission) /\ Len(frames) \in Nat /\ DOMAIN frames = 1 .. Len(frames)
      /\ \A i \in 1 .. Len(frames) : frames[i] \in Emission /\ frames[i].signal \in Signals
  <2>1. frames \in Seq(Emission)
    BY DEF Nested
  <2>2. \A i \in 1 .. Len(frames) : frames[i] \in Emission
    BY <2>1
  <2>3. \A f \in Emission : f.signal \in Signals
    BY DEF Emission
  <2> QED
    BY <2>1, <2>2, <2>3
<1>2. PICK e : e = Progress(frames, all) /\ e = [i \in 1 .. Len(frames) |-> Seen(frames[i], all)]
  BY <1>1 DEF Progress
<1>3. ASSUME NEW i \in 1 .. Len(frames)
      PROVE  ToCall(frames[i], all) \in Seq(Slots)
  <2>1. PICK f : f = frames[i] /\ f.signal \in Signals /\ OnTrack(f, all, live)
    BY <1>1 DEF Nested
  <2>2. Tidy(all[f.signal]) /\ Ordered(all[f.signal])
    BY <2>1 DEF AllSettled, Settled, Base
  <2>3. \A from, end : Reaches(all[f.signal], from, end) =>
                         CalledFrom(all[f.signal], from, end) \in Seq(Slots)
    BY <2>2, CallsAreSlots
  <2>4. << >> \in Seq(Slots)
    OBVIOUS
  <2> QED
    BY <2>1, <2>3, <2>4 DEF OnTrack, ToCall
<1>4. ASSUME NEW i \in 1 .. Len(frames)
      PROVE  /\ e[i] = Seen(frames[i], all) /\ e[i] \in Shown
             /\ e[i].signal = frames[i].signal /\ e[i].todo = ToCall(frames[i], all)
  <2>1. e[i] = Seen(frames[i], all)
    BY <1>2
  <2> QED
    BY <1>1, <1>3, <2>1 DEF Seen, Shown
<1>5. e \in Seq(Shown) /\ Len(e) = Len(frames) /\ DOMAIN e = 1 .. Len(frames)
  BY <1>1, <1>2, <1>4
<1>6. e = << >> <=> frames = << >>
  BY <1>1, <1>5
<1> QED
  BY <1>1, <1>2, <1>3, <1>4, <1>5, <1>6

\* The application runs when no emission waits for its next step.
LEMMA ApplicationIsFree ==
  ASSUME SignalInv, Application
  PROVE  Promise!Free
<1>1. Emissions = << >> <=> stack = << >>
  BY Views, ProgressFacts DEF SignalInv, Joined
<1> QED
  BY <1>1, Views DEF Promise!Free, Application

\* A slot is connected behind the others; the emissions in progress do not call it.
LEMMA ConnectIsPromised ==
  ASSUME PlacesFit, SignalInv, Connect
  PROVE  Promise!Connect
<1>1. OneGains(signal, signal') /\ stack' = stack /\ Application
  BY ConnectKeepsOrder DEF Connect
<1>2. PICK all, new : all = signal /\ new = signal'
  OBVIOUS
<1>3. PICK s \in Signals, slot \in Slots :
        /\ slot \notin SlotsOf(all[s]) /\ Gains(all[s], new[s], slot)
        /\ \A x \in Signals : x # s => new[x] = all[x]
  BY <1>1, <1>2 DEF OneGains
<1>4. AllSettled(all) /\ Nested(all, alive, stack)
  BY <1>2 DEF SignalInv, Joined
<1>5. Connected(all[s]) = Left(Connected(all[s]), {slot})
  <2>1. Base(all[s]) /\ {slot} \cap SlotsOf(all[s]) = {} /\ {slot} \subseteq Slots
    BY <1>3, <1>4 DEF AllSettled, Settled
  <2>2. Loses(all[s], all[s], {slot})
    BY <2>1, LosesNothing
  <2> QED
    BY <2>2 DEF Loses
<1>6. Listeners(new) = [Listeners(all) EXCEPT ![s] = Append(@, slot)]
  BY <1>3 DEF Listeners, Gains
<1>7. Progress(stack, new) = Progress(stack, all)
  <2>1. ASSUME NEW i \in DOMAIN stack PROVE Seen(stack[i], new) = Seen(stack[i], all)
    <3>1. PICK f : f = stack[i] /\ f.signal \in Signals /\ OnTrack(f, all, alive)
      BY <1>4, <2>1, ProgressFacts DEF Nested
    <3>2. ToCall(f, new) = ToCall(f, all)
      BY <1>3, <3>1 DEF ToCall, OnTrack, Gains
    <3> QED
      BY <3>1, <3>2 DEF Seen
  <2> QED
    BY <2>1 DEF Progress
<1>8. Listeners(all)[s] = Left(Listeners(all)[s], {slot})
  BY <1>5 DEF Listeners
<1>9. InSlot' <=> InSlot
  BY <1>1 DEF InSlot, Top
<1>10. /\ Connections = Listeners(all) /\ Connections' = Listeners(new)
       /\ Emissions' = Emissions
  BY <1>1, <1>2, <1>7, Views
<1>11. Connections[s] = Promise!Without(Connections[s], {slot})
  BY <1>8, <1>10, WithoutIsLeft
<1>12. Connections' = [Connections EXCEPT ![s] = Append(@, slot)]
  BY <1>6, <1>10
<1> QED
  BY <1>1, <1>9, <1>10, <1>11, <1>12, ApplicationIsFree DEF Promise!Connect

\* Slots are lost, by the signals and by the emissions of these signals.
LossIsSeen(e, e2, gone) ==
  e2 = [i \in DOMAIN e |-> [e[i] EXCEPT !.todo = Left(@, gone[e[i].signal])]]

LEMMA LossIsPromised ==
  ASSUME Promise!Free, NEW gone \in [Signals -> SUBSET Slots],
         Connections' = [s \in Signals |-> Left(Connections[s], gone[s])],
         LossIsSeen(Emissions, Emissions', gone), InSlot' = InSlot
  PROVE  Promise!Disconnect
<1>1. Connections' = [s \in Signals |-> Promise!Without(Connections[s], gone[s])]
  BY WithoutIsLeft
<1>2. Emissions' = [i \in DOMAIN Emissions |->
        [Emissions[i] EXCEPT !.todo = Promise!Without(@, gone[Emissions[i].signal])]]
  BY WithoutIsLeft DEF LossIsSeen
<1> QED
  BY <1>1, <1>2 DEF Promise!Disconnect

\* Disconnecting takes slots from the signals, and from what is still to be called.
LEMMA DisconnectIsPromised ==
  ASSUME SignalInv, Disconnect \/ DisconnectAll
  PROVE  Promise!Disconnect
<1>1. SomeLose(signal, signal') /\ stack' = stack /\ Application
  BY DisconnectKeepsOrder, DisconnectAllKeepsOrder DEF Disconnect, DisconnectAll
<1>2. PICK all, new : all = signal /\ new = signal'
  OBVIOUS
<1>3. PICK gone \in [Signals -> SUBSET Slots] : \A s \in Signals : Loses(all[s], new[s], gone[s])
  BY <1>1, <1>2 DEF SomeLose
<1>4. AllSettled(all) /\ Nested(all, alive, stack)
  BY <1>2 DEF SignalInv, Joined
<1>5. Listeners(new) = [s \in Signals |-> Left(Listeners(all)[s], gone[s])]
  BY <1>3 DEF Listeners, Loses
<1>6. PICK e, e2 : e = Progress(stack, all) /\ e2 = Progress(stack, new)
  OBVIOUS
<1>7. ASSUME NEW i \in DOMAIN stack
      PROVE  e2[i] = [e[i] EXCEPT !.todo = Left(@, gone[e[i].signal])]
  <2>1. PICK f : f = stack[i] /\ f.signal \in Signals /\ OnTrack(f, all, alive)
    BY <1>4, <1>7, ProgressFacts DEF Nested
  <2>2. ToCall(f, new) = Left(ToCall(f, all), gone[f.signal])
    <3>1. Left(<< >>, gone[f.signal]) = << >>
      BY EmptyOnly DEF Left
    <3> QED
      BY <1>3, <2>1, <3>1 DEF ToCall, OnTrack, Loses
  <2>3. e[i] = Seen(f, all) /\ e2[i] = Seen(f, new)
    BY <1>6, <1>7, <2>1 DEF Progress
  <2> QED
    BY <2>2, <2>3 DEF Seen
<1>8. LossIsSeen(e, e2, gone)
  <2>1. DOMAIN e = DOMAIN stack /\ e2 = [i \in DOMAIN stack |-> e2[i]]
    BY <1>6 DEF Progress
  <2> QED
    BY <1>7, <2>1 DEF LossIsSeen
<1>9. InSlot' = InSlot
  BY <1>1 DEF InSlot, Top
<1>10. /\ Connections = Listeners(all) /\ Connections' = Listeners(new)
       /\ Emissions = e /\ Emissions' = e2
  BY <1>1, <1>2, <1>6, Views
<1>11. Connections' = [s \in Signals |-> Left(Connections[s], gone[s])]
  BY <1>5, <1>10
<1>12. LossIsSeen(Emissions, Emissions', gone)
  BY <1>8, <1>10
<1>13. Promise!Free
  BY <1>1, ApplicationIsFree
<1> QED
  BY <1>3, <1>9, <1>11, <1>12, <1>13, LossIsPromised

\* Nothing is connected to a new signal.
LEMMA NewIsSilent == Connected(NewSignal) = << >>
<1>1. PICK q : q = NewSignal
  OBVIOUS
<1>2. Tidy(q) /\ Ordered(q) /\ q.head = INVALID_INDEX
  BY <1>1, NewFacts DEF NewSignal, Settled, Base
<1> QED
  BY <1>1, <1>2, CallsSteps DEF Steps, Connected

\* A signal that ends disconnects everything: what is still to be called too.
LEMMA DestroyIsPromised ==
  ASSUME SignalInv, DestroySignal
  PROVE  Promise!Disconnect
<1>1. PICK s \in alive :
        /\ signal' = [signal EXCEPT ![s] = NewSignal]
        /\ stack' = [i \in DOMAIN stack |->
                       [stack[i] EXCEPT !.deleted = @ \/ stack[i].signal = s]]
  BY DEF DestroySignal
<1>2. PICK all, new, told : all = signal /\ new = signal' /\ told = stack'
  OBVIOUS
<1>3. AllSettled(all) /\ Nested(all, alive, stack) /\ s \in Signals /\ stack \in Seq(Emission)
  BY <1>2 DEF SignalInv, Joined, Nested
<1>4. new[s] = NewSignal /\ \A x \in Signals : x # s => new[x] = all[x]
  BY <1>1, <1>2, <1>3 DEF AllSettled
<1>5. PICK gone : gone = [x \in Signals |-> IF x = s THEN Slots ELSE {}]
  OBVIOUS
<1>6. /\ gone \in [Signals -> SUBSET Slots] /\ gone[s] = Slots
      /\ \A x \in Signals : x # s => gone[x] = {}
  BY <1>3, <1>5
<1>7. \A t \in Seq(Slots) : Left(t, {}) = t /\ Left(t, Slots) = << >>
  BY LeftFacts
<1>8. Listeners(new) = [x \in Signals |-> Left(Listeners(all)[x], gone[x])]
  <2>1. ASSUME NEW x \in Signals PROVE Connected(new[x]) = Left(Connected(all[x]), gone[x])
    <3>1. Connected(all[x]) \in Seq(Slots)
      BY <1>3, CallsAreSlots DEF AllSettled, Settled, Base
    <3>2. CASE x = s
      BY <1>4, <1>6, <1>7, <3>1, <3>2, NewIsSilent
    <3>3. CASE x # s
      BY <1>4, <1>6, <1>7, <3>1, <3>3
    <3> QED
      BY <3>2, <3>3
  <2> QED
    BY <2>1 DEF Listeners
<1>9. /\ told \in Seq(Emission) /\ Len(told) = Len(stack) /\ DOMAIN told = DOMAIN stack
      /\ \A i \in 1 .. Len(stack) :
           /\ told[i] \in Emission /\ told[i].signal = stack[i].signal
           /\ told[i].at = stack[i].at /\ told[i].next = stack[i].next
           /\ told[i].end = stack[i].end /\ told[i].running = stack[i].running
           /\ told[i].deleted <=> stack[i].deleted \/ stack[i].signal = s
  <2>1. told = Told(stack, s)
    BY <1>1, <1>2 DEF Told
  <2>2. stack \in Seq(Emission)
    BY <1>3
  <2> QED
    BY <2>1, <2>2, ToldFacts
<1>10. PICK e, e2 : e = Progress(stack, all) /\ e2 = Progress(told, new)
  OBVIOUS
<1>11. ASSUME NEW i \in DOMAIN stack
       PROVE  e2[i] = [e[i] EXCEPT !.todo = Left(@, gone[e[i].signal])]
  <2>1. PICK f, g : f = stack[i] /\ g = told[i]
    OBVIOUS
  <2>2. i \in 1 .. Len(stack) /\ f.signal \in Signals /\ ToCall(f, all) \in Seq(Slots)
    BY <1>3, <1>11, <2>1, ProgressFacts
  <2>3. /\ g.signal = f.signal /\ g.at = f.at /\ g.next = f.next /\ g.end = f.end
        /\ g.running = f.running /\ (g.deleted <=> f.deleted \/ f.signal = s)
    BY <1>9, <2>1, <2>2
  <2>4. ToCall(g, new) = Left(ToCall(f, all), gone[f.signal])
    <3>1. CASE f.signal = s
      BY <1>6, <1>7, <2>2, <2>3, <3>1 DEF ToCall
    <3>2. CASE f.signal # s
      <4>1. ToCall(g, new) = ToCall(f, all)
        BY <1>4, <2>2, <2>3, <3>2 DEF ToCall, From
      <4> QED
        BY <1>6, <1>7, <2>2, <3>2, <4>1
    <3> QED
      BY <3>1, <3>2
  <2>5. e[i] = Seen(f, all) /\ e2[i] = Seen(g, new)
    BY <1>9, <1>10, <1>11, <2>1 DEF Progress
  <2> QED
    BY <2>3, <2>4, <2>5 DEF Seen
<1>12. LossIsSeen(e, e2, gone)
  <2>1. DOMAIN e = DOMAIN stack /\ e2 = [i \in DOMAIN stack |-> e2[i]]
    BY <1>9, <1>10 DEF Progress
  <2> QED
    BY <1>11, <2>1 DEF LossIsSeen
<1>13. InSlot' = InSlot
  <2>1. CASE stack = << >>
    <3>1. told = << >>
      BY <1>9, <2>1
    <3> QED
      BY <1>2, <2>1, <3>1, Views DEF InSlot
  <2>2. CASE stack # << >>
    <3>1. Len(stack) \in 1 .. Len(stack)
      BY <1>3, <2>2, Positions
    <3>2. told # << >> /\ told[Len(told)].running = stack[Len(stack)].running
      BY <1>9, <3>1
    <3>3. stack[Len(stack)].running \in BOOLEAN
      <4>1. stack[Len(stack)] \in Emission
        BY <1>3, <3>1
      <4> QED
        BY <4>1 DEF Emission
    <3> QED
      BY <1>2, <2>2, <3>2, <3>3 DEF InSlot, Top
  <2> QED
    BY <2>1, <2>2
<1>14. /\ Connections = Listeners(all) /\ Connections' = Listeners(new)
       /\ Emissions = e /\ Emissions' = e2
  BY <1>2, <1>10, Views
<1>15. Connections' = [x \in Signals |-> Left(Connections[x], gone[x])]
  BY <1>8, <1>14
<1>16. LossIsSeen(Emissions, Emissions', gone)
  BY <1>12, <1>14
<1>17. Promise!Free
  BY ApplicationIsFree DEF DestroySignal
<1> QED
  BY <1>6, <1>13, <1>15, <1>16, <1>17, LossIsPromised

\* An emission has to call what is connected when it begins.
LEMMA EmitIsPromised ==
  ASSUME SignalInv, Emit
  PROVE  Promise!Emit
<1>1. PICK s \in alive :
        /\ ~signal[s].emitting
        /\ stack' = Append(stack, [signal |-> s, at |-> signal[s].head, next |-> INVALID_INDEX,
                                   end |-> EmitEnd(signal[s]), running |-> FALSE,
                                   deleted |-> FALSE])
        /\ signal' = [signal EXCEPT ![s].emitting = TRUE]
  BY DEF Emit
<1>2. /\ AllSettled(signal) /\ alive \subseteq Signals /\ s \in Signals
      /\ Nested(signal, alive, stack) /\ stack \in Seq(Emission)
  BY DEF SignalInv, Joined, Nested
<1>3. PICK all, new, q, r : /\ all = signal /\ new = signal' /\ q = signal[s]
                            /\ r = [q EXCEPT !.emitting = TRUE]
  OBVIOUS
<1>4. new[s] = r /\ \A x \in Signals : x # s => new[x] = all[x]
  BY <1>1, <1>2, <1>3 DEF AllSettled
<1>5. Connected(r) = Connected(q) /\ CalledFrom(r, q.head, q.tail) = Connected(q)
  BY <1>2, <1>3, BeginFacts DEF AllSettled
<1>6. Listeners(new) = Listeners(all)
  BY <1>2, <1>3, <1>4, <1>5 DEF Listeners
<1>7. PICK f, frames, n :
        /\ f = [signal |-> s, at |-> q.head, next |-> INVALID_INDEX, end |-> q.tail,
                running |-> FALSE, deleted |-> FALSE]
        /\ frames = stack' /\ frames = Append(stack, f) /\ n = Len(stack)
  BY <1>1, <1>3 DEF EmitEnd
<1>8. AllSettled(new) /\ Nested(new, alive', frames)
  <2>1. SignalInv'
    BY EmitKeepsOrder
  <2> QED
    BY <1>3, <1>7, <2>1 DEF SignalInv, Joined
<1>9. /\ n \in Nat /\ Len(frames) = n + 1 /\ frames[n + 1] = f /\ frames # << >>
      /\ \A i \in 1 .. n : frames[i] = stack[i]
  <2>1. n \in Nat /\ frames = [i \in 1 .. n + 1 |-> IF i = n + 1 THEN f ELSE stack[i]]
    BY <1>2, <1>7
  <2>2. frames \in Seq(Emission)
    BY <1>8 DEF Nested
  <2> QED
    BY <2>1, <2>2
<1>10. PICK e, e2, x : /\ e = Progress(stack, all) /\ e2 = Progress(frames, new)
                       /\ x = [signal |-> s, todo |-> Listeners(all)[s]]
  OBVIOUS
<1>11. /\ e \in Seq(Shown) /\ Len(e) = n /\ DOMAIN e = 1 .. n
       /\ \A i \in 1 .. n : e[i] = Seen(stack[i], all) /\ e[i].signal = stack[i].signal
  <2>1. AllSettled(all) /\ Nested(all, alive, stack)
    BY <1>2, <1>3
  <2> QED
    BY <1>7, <1>10, <2>1, ProgressFacts
<1>12. /\ e2 \in Seq(Shown) /\ Len(e2) = n + 1
       /\ \A i \in 1 .. n + 1 : e2[i] = Seen(frames[i], new)
  BY <1>8, <1>9, <1>10, ProgressFacts
<1>13. ASSUME NEW i \in 1 .. n PROVE stack[i].signal # s /\ e2[i] = e[i]
  <2>1. PICK g : g = stack[i] /\ g.signal \in Signals /\ OnTrack(g, all, alive)
    BY <1>2, <1>3, <1>7, ProgressFacts DEF Nested
  <2>2. g.signal # s
    BY <1>1, <1>3, <2>1 DEF OnTrack
  <2>3. Seen(g, new) = Seen(g, all)
    BY <1>4, <2>1, <2>2 DEF Seen, ToCall
  <2> QED
    BY <1>9, <1>11, <1>12, <2>1, <2>2, <2>3
<1>14. e2[n + 1] = x
  <2>1. /\ f.signal = s /\ f.at = q.head /\ f.end = q.tail /\ ~f.running /\ ~f.deleted
    BY <1>7
  <2>2. ToCall(f, new) = Connected(q)
    BY <1>4, <1>5, <2>1 DEF ToCall, From
  <2>3. x = [signal |-> s, todo |-> Connected(q)]
    BY <1>2, <1>3, <1>10 DEF Listeners
  <2> QED
    BY <1>9, <1>12, <2>1, <2>2, <2>3 DEF Seen
<1>15. e2 = Append(e, x)
  <2>1. x \in Shown
    BY <1>9, <1>12, <1>14
  <2>2. PICK a : a = Append(e, x)
    OBVIOUS
  <2>3. /\ a \in Seq(Shown) /\ Len(a) = n + 1 /\ a[n + 1] = x /\ \A i \in 1 .. n : a[i] = e[i]
    BY <1>11, <2>1, <2>2, AppendProperties
  <2>4. \A i \in 1 .. n + 1 : e2[i] = a[i]
    BY <1>9, <1>13, <1>14, <2>3
  <2>5. e2 = a
    BY <1>12, <2>3, <2>4, SeqEqual
  <2> QED
    BY <2>2, <2>5
<1>16. /\ Connections = Listeners(all) /\ Connections' = Listeners(new)
       /\ Emissions = e /\ Emissions' = e2
  BY <1>3, <1>7, <1>10, Views
<1>17. \A i \in DOMAIN Emissions : Emissions[i].signal # s
  BY <1>11, <1>13, <1>16
<1>18. Emissions' = Append(Emissions, [signal |-> s, todo |-> Connections[s]])
  BY <1>10, <1>15, <1>16
<1>19. InSlot' = FALSE
  <2>1. frames[Len(frames)] = f /\ f.running = FALSE
    BY <1>7, <1>9
  <2> QED
    BY <1>7, <2>1, Views DEF InSlot
<1>20. Promise!Free /\ Connections' = Connections
  BY <1>6, <1>16, ApplicationIsFree DEF Emit
<1> QED
  BY <1>2, <1>17, <1>18, <1>19, <1>20 DEF Promise!Emit

\* What the promise sees when only the innermost emission moves.
LEMMA TopSeen ==
  ASSUME SignalInv, stack # << >>, NEW x \in Emission, stack' = Put(stack, Len(stack), x),
         signal' = signal
  PROVE  /\ Connections' = Connections /\ Emissions # << >>
         /\ Emissions[Len(Emissions)] = Seen(Top, signal)
         /\ Emissions' = Put(Emissions, Len(Emissions), Seen(x, signal))
         /\ InSlot = Top.running /\ InSlot' = x.running
<1>1. PICK all, n, frames : all = signal /\ n = Len(stack) /\ frames = stack'
  OBVIOUS
<1>2. /\ AllSettled(all) /\ Nested(all, alive, stack) /\ stack \in Seq(Emission)
      /\ n \in Nat \ {0} /\ n \in 1 .. n /\ Top = stack[n] /\ Top \in Emission
  BY <1>1, TopFacts DEF SignalInv, Joined
<1>3. PICK e, y : e = Progress(stack, all) /\ y = Seen(x, all)
  OBVIOUS
<1>4. /\ e \in Seq(Shown) /\ Len(e) = n /\ DOMAIN e = 1 .. n /\ e # << >>
      /\ \A i \in 1 .. n : e[i] = Seen(stack[i], all)
  BY <1>1, <1>2, <1>3, ProgressFacts
<1>5. /\ DOMAIN frames = 1 .. n /\ Len(frames) = n /\ frames # << >> /\ frames[n] = x
      /\ \A i \in 1 .. n : i # n => frames[i] = stack[i]
  <2>1. stack = [i \in 1 .. n |-> stack[i]] /\ frames = [stack EXCEPT ![n] = x]
    BY <1>1, <1>2 DEF Put
  <2>2. frames = [i \in 1 .. n |-> IF i = n THEN x ELSE stack[i]]
    BY <2>1
  <2>3. frames \in [1 .. n -> Emission]
    BY <1>1, <1>2, <2>2
  <2>4. frames \in Seq(Emission)
    BY <1>2, <2>3
  <2> QED
    BY <1>2, <2>2, <2>4
<1>6. Progress(frames, all) = Put(e, n, y)
  <2>1. \A i \in 1 .. n : Seen(frames[i], all) = IF i = n THEN y ELSE e[i]
    BY <1>2, <1>3, <1>4, <1>5
  <2>2. Put(e, n, y) = [i \in 1 .. n |-> IF i = n THEN y ELSE e[i]]
    BY <1>4 DEF Put
  <2> QED
    BY <1>5, <2>1, <2>2 DEF Progress
<1>7. Connections' = Connections /\ Emissions = e /\ Emissions' = Put(e, n, y)
  BY <1>1, <1>3, <1>6, Views
<1>8. InSlot = Top.running
  BY <1>2 DEF InSlot, Emission
<1>9. InSlot' = x.running
  <2>1. InSlot' <=> frames # << >> /\ frames[Len(frames)].running
    BY <1>1, Views
  <2>2. x.running \in BOOLEAN
    BY DEF Emission
  <2> QED
    BY <1>5, <2>1, <2>2 DEF InSlot
<1> QED
  BY <1>1, <1>2, <1>3, <1>4, <1>7, <1>8, <1>9

\* The innermost emission moves, and still has the same to call.
LEMMA TopStays ==
  ASSUME SignalInv, stack # << >>, NEW x \in Emission, stack' = Put(stack, Len(stack), x),
         signal' = signal, Seen(x, signal) = Seen(Top, signal)
  PROVE  /\ UNCHANGED << Connections, Emissions >>
         /\ InSlot = Top.running /\ InSlot' = x.running
         /\ Top.running = x.running => UNCHANGED Promise!vars
<1>1. PICK e, n : e = Emissions /\ n = Len(e)
  OBVIOUS
<1>2. /\ Connections' = Connections /\ Emissions' = Put(e, n, e[n])
      /\ InSlot = Top.running /\ InSlot' = x.running
  BY <1>1, TopSeen
<1>3. Emissions' = Emissions
  <2>1. PICK D : e = [i \in D |-> e[i]]
    BY <1>1 DEF Emissions
  <2> QED
    BY <1>1, <1>2, <2>1 DEF Put
<1> QED
  BY <1>2, <1>3 DEF Promise!vars

\* What the innermost emission calls where it stands, and after that.
LEMMA TopCalls ==
  ASSUME SignalInv, Visiting, NEW q, q = signal[Top.signal], NEW next, next = Visited.next,
         NEW later, later = IF Top.at = Top.end THEN INVALID_INDEX ELSE next
  PROVE  /\ ToCall(Top, signal) =
              Own(q, Top.at) \o (IF later = INVALID_INDEX THEN << >>
                                 ELSE CalledFrom(q, later, Top.end))
         /\ CalledFrom(q, INVALID_INDEX, Top.end) = << >>
         /\ CalledFrom(q, later, Top.end) \in Seq(Slots)
         /\ Own(q, Top.at) = IF Visited.slot = None THEN << >> ELSE << Visited.slot >>
         /\ Visited.slot # None => Visited.slot \in Slots
         /\ next \in Int
<1>1. PICK f : f = Top
  OBVIOUS
<1>2. stack # << >> /\ ~f.running /\ ~f.deleted /\ f.at # INVALID_INDEX
  BY <1>1 DEF Visiting, Emitting
<1>3. /\ Settled(q) /\ f.at \in InList(q) /\ next \in InList(q) \cup {INVALID_INDEX}
      /\ next \in Int
  <2>1. Settled(q) /\ f.at \in InList(q) /\ next \in InList(q) \cup {INVALID_INDEX}
    BY <1>1, <1>2, TopFacts
  <2> QED
    BY <2>1, PlacesAreNumbers
<1>4. Tidy(q) /\ Ordered(q) /\ Visited = At(q, f.at)
  BY <1>1, <1>3 DEF Settled, Base, Visited
<1>5. Steps(q, f.end)
  BY <1>4, CallsSteps
<1>6. /\ CalledFrom(q, INVALID_INDEX, f.end) = << >>
      /\ CalledFrom(q, f.at, f.end) = Own(q, f.at) \o (IF f.at = f.end THEN << >>
                                                  ELSE CalledFrom(q, next, f.end))
      /\ \A i \in InList(q) \cup {INVALID_INDEX} : CalledFrom(q, i, f.end) \in Seq(Slots)
  BY <1>3, <1>4, <1>5 DEF Steps
<1>7. later \in InList(q) \cup {INVALID_INDEX}
  BY <1>1, <1>3
<1>8. ToCall(f, signal) = CalledFrom(q, f.at, f.end)
  BY <1>1, <1>2 DEF ToCall, From
<1>9. /\ Own(q, f.at) = IF Visited.slot = None THEN << >> ELSE << Visited.slot >>
      /\ Visited.slot # None => Visited.slot \in Slots
  BY <1>3, <1>4, OwnFacts DEF Own
<1>10. (IF f.at = f.end THEN << >> ELSE CalledFrom(q, next, f.end)) =
         IF later = INVALID_INDEX THEN << >> ELSE CalledFrom(q, later, f.end)
  BY <1>1, <1>6
<1> QED
  BY <1>1, <1>3, <1>6, <1>7, <1>8, <1>9, <1>10

\* Passing an emptied node calls nothing.
LEMMA SkipIsUnseen ==
  ASSUME SignalInv, SkipNode
  PROVE  UNCHANGED Promise!vars
<1>1. PICK f, q, next, later :
        /\ f = Top /\ q = signal[f.signal] /\ next = Visited.next
        /\ later = IF f.at = f.end THEN INVALID_INDEX ELSE next
  OBVIOUS
<1>2. /\ Visiting /\ Visited.slot = None /\ signal' = signal /\ stack # << >>
      /\ stack' = [stack EXCEPT ![Len(stack)] = Advanced(@, next)]
  BY <1>1 DEF SkipNode, Visiting, Emitting
<1>3. /\ f \in Emission /\ f = stack[Len(stack)] /\ Len(stack) \in Nat /\ f.running = FALSE
      /\ ~f.deleted /\ f.at \in Int
  <2>1. f \in Emission /\ f = stack[Len(stack)] /\ Len(stack) \in Nat /\ ~f.running /\ ~f.deleted
    BY <1>1, <1>2, TopFacts DEF Visiting, Emitting
  <2>2. f.running \in BOOLEAN /\ f.at \in Int
    BY <2>1 DEF Emission
  <2> QED
    BY <2>1, <2>2
<1>4. /\ ToCall(f, signal) =
           Own(q, f.at) \o (IF later = INVALID_INDEX THEN << >> ELSE CalledFrom(q, later, f.end))
      /\ CalledFrom(q, INVALID_INDEX, f.end) = << >>
      /\ CalledFrom(q, later, f.end) \in Seq(Slots)
      /\ Own(q, f.at) = << >> /\ next \in Int
  BY <1>1, <1>2, TopCalls
<1>5. PICK x : x = [f EXCEPT !.at = later, !.running = FALSE]
  OBVIOUS
<1>6. /\ x \in Emission /\ x.signal = f.signal /\ x.at = later /\ x.end = f.end /\ ~x.running
      /\ ~x.deleted /\ x.running = FALSE
  <2>1. later \in Int
    BY <1>1, <1>4 DEF INVALID_INDEX
  <2> QED
    BY <1>3, <1>5, <2>1 DEF Emission
<1>7. stack' = Put(stack, Len(stack), x)
  BY <1>1, <1>2, <1>3, <1>5 DEF Put, Advanced
<1>8. ToCall(x, signal) = ToCall(f, signal)
  <2>1. ToCall(x, signal) = CalledFrom(q, later, f.end)
    BY <1>1, <1>6 DEF ToCall, From
  <2> QED
    BY <1>4, <2>1
<1>9. Seen(x, signal) = Seen(f, signal)
  BY <1>6, <1>8 DEF Seen
<1> QED
  BY <1>1, <1>2, <1>3, <1>6, <1>7, <1>9, TopStays

\* The slot that is called is the next one to be called.
LEMMA CallIsPromised ==
  ASSUME SignalInv, CallSlot
  PROVE  Promise!Call
<1>1. PICK f, q, next, later :
        /\ f = Top /\ q = signal[f.signal] /\ next = Visited.next
        /\ later = IF f.at = f.end THEN INVALID_INDEX ELSE next
  OBVIOUS
<1>2. /\ Visiting /\ Visited.slot # None /\ signal' = signal /\ stack # << >>
      /\ stack' = [stack EXCEPT ![Len(stack)].next = next, ![Len(stack)].running = TRUE]
  BY <1>1 DEF CallSlot, Visiting, Emitting
<1>3. /\ f \in Emission /\ f = stack[Len(stack)] /\ Len(stack) \in Nat \ {0} /\ f.running = FALSE
      /\ ~f.deleted /\ stack \in Seq(Emission)
  <2>1. f \in Emission /\ ~f.running /\ ~f.deleted
    BY <1>1, <1>2, TopFacts DEF Visiting, Emitting
  <2>2. f.running = FALSE
    BY <2>1 DEF Emission
  <2> QED
    BY <1>1, <1>2, <2>1, <2>2, TopFacts
<1>4. PICK t : t = IF later = INVALID_INDEX THEN << >> ELSE CalledFrom(q, later, f.end)
  OBVIOUS
<1>5. /\ ToCall(f, signal) = << Visited.slot >> \o t
      /\ CalledFrom(q, INVALID_INDEX, f.end) = << >>
      /\ t = CalledFrom(q, later, f.end) /\ t \in Seq(Slots)
      /\ Visited.slot \in Slots /\ next \in Int
  BY <1>1, <1>2, <1>4, TopCalls
<1>6. ToCall(f, signal) # << >> /\ Tail(ToCall(f, signal)) = t
  BY <1>5
<1>7. PICK x : x = [f EXCEPT !.next = next, !.running = TRUE]
  OBVIOUS
<1>8. /\ x \in Emission /\ x.signal = f.signal /\ x.at = f.at /\ x.next = next /\ x.end = f.end
      /\ x.running = TRUE /\ ~x.deleted
  BY <1>3, <1>5, <1>7 DEF Emission
<1>9. stack' = Put(stack, Len(stack), x)
  <2>1. PICK n : n = Len(stack)
    OBVIOUS
  <2>2. n \in 1 .. Len(stack) /\ stack' = [stack EXCEPT ![n].next = next, ![n].running = TRUE]
    BY <1>2, <1>3, <2>1
  <2>3. [stack EXCEPT ![n].next = next, ![n].running = TRUE] =
          [stack EXCEPT ![n] = [stack[n] EXCEPT !.next = next, !.running = TRUE]]
    BY <1>3, <2>1, <2>2
  <2> QED
    BY <1>3, <1>7, <2>1, <2>2, <2>3 DEF Put
<1>10. ToCall(x, signal) = t
  BY <1>1, <1>5, <1>8 DEF ToCall, From
<1>11. PICK e, n, y : e = Emissions /\ n = Len(e) /\ y = Seen(x, signal)
  OBVIOUS
<1>12. /\ Connections' = Connections /\ e # << >> /\ e[n] = Seen(f, signal)
       /\ Emissions' = Put(e, n, y) /\ InSlot = FALSE /\ InSlot' = TRUE
  BY <1>1, <1>2, <1>3, <1>8, <1>9, <1>11, TopSeen
<1>13. e[n].todo # << >> /\ y = [e[n] EXCEPT !.todo = Tail(@)]
  <2>1. /\ e[n] = [signal |-> f.signal, todo |-> ToCall(f, signal)]
        /\ y = [signal |-> f.signal, todo |-> t]
    BY <1>8, <1>10, <1>11, <1>12 DEF Seen
  <2> QED
    BY <1>6, <2>1
<1>14. Emissions' = [e EXCEPT ![n].todo = Tail(@)]
  BY <1>12, <1>13 DEF Put
<1> QED
  BY <1>11, <1>12, <1>13, <1>14 DEF Promise!Call, Promise!Innermost

\* Coming back from a slot, the loop goes on to the place it has read before.
LEMMA ReturnIsPromised ==
  ASSUME SignalInv, SlotReturns
  PROVE  Promise!Return
<1>1. PICK f, later : f = Top /\ later = IF f.at = f.end THEN INVALID_INDEX ELSE f.next
  OBVIOUS
<1>2. /\ f.running /\ signal' = signal /\ stack # << >>
      /\ stack' = [stack EXCEPT ![Len(stack)] = Advanced(@, f.next)]
  BY <1>1 DEF SlotReturns
<1>3. f \in Emission /\ f = stack[Len(stack)] /\ Len(stack) \in Nat
  BY <1>1, <1>2, TopFacts
<1>4. PICK x : x = [f EXCEPT !.at = later, !.running = FALSE]
  OBVIOUS
<1>5. /\ x \in Emission /\ x.signal = f.signal /\ x.at = later /\ x.end = f.end
      /\ x.running = FALSE /\ x.deleted = f.deleted
  <2>1. later \in Int
    BY <1>1, <1>3 DEF INVALID_INDEX, Emission
  <2> QED
    BY <1>3, <1>4, <2>1 DEF Emission
<1>6. stack' = Put(stack, Len(stack), x)
  BY <1>1, <1>2, <1>3, <1>4 DEF Put, Advanced
<1>7. Seen(x, signal) = Seen(f, signal)
  BY <1>1, <1>2, <1>5 DEF Seen, ToCall, From
<1>8. UNCHANGED << Connections, Emissions >> /\ InSlot = f.running /\ InSlot' = FALSE
  BY <1>1, <1>2, <1>5, <1>6, <1>7, TopStays
<1> QED
  BY <1>2, <1>8 DEF Promise!Return

\* The innermost emission ends: the others still have to call what they had.
LEMMA EndIsPromised ==
  ASSUME SignalInv, SignalInv', Emitting, ToCall(Top, signal) = << >>, stack' = Front(stack),
         Listeners(signal') = Listeners(signal),
         \A i \in 1 .. Len(stack) - 1 : ToCall(stack[i], signal') = ToCall(stack[i], signal)
  PROVE  Promise!Finish
<1>1. PICK all, new, n, frames :
        all = signal /\ new = signal' /\ n = Len(stack) /\ frames = stack'
  OBVIOUS
<1>2. /\ AllSettled(all) /\ Nested(all, alive, stack) /\ stack \in Seq(Emission)
      /\ n \in Nat \ {0} /\ Top = stack[n] /\ stack # << >> /\ Top.running = FALSE
  <2>1. stack # << >> /\ ~Top.running
    BY DEF Emitting
  <2>2. Top \in Emission /\ stack \in Seq(Emission) /\ n \in Nat \ {0} /\ Top = stack[n]
    BY <1>1, <2>1, TopFacts
  <2> QED
    BY <1>1, <2>1, <2>2 DEF SignalInv, Joined, Emission
<1>3. /\ Len(frames) = n - 1
      /\ \A i \in 1 .. n - 1 : frames[i] = stack[i] /\ frames[i].running
  <2>1. frames = Front(stack) /\ stack # << >> /\ Nested(all, alive, stack)
    BY <1>1, <1>2
  <2>2. /\ Nested(all, alive, frames)
        /\ \A i \in 1 .. Len(frames) :
             /\ frames[i] = stack[i] /\ frames[i].running
             /\ ~frames[i].deleted /\ ~stack[Len(stack)].deleted
                  => frames[i].signal # stack[Len(stack)].signal
        /\ Len(frames) = Len(stack) - 1
    BY <2>1, TopEnds
  <2> QED
    BY <1>1, <2>2
<1>4. PICK e, e2 : e = Progress(stack, all) /\ e2 = Progress(frames, new)
  OBVIOUS
<1>5. /\ e \in Seq(Shown) /\ Len(e) = n /\ e # << >>
      /\ \A i \in 1 .. n : e[i] = Seen(stack[i], all)
  BY <1>1, <1>2, <1>4, ProgressFacts
<1>6. AllSettled(new) /\ Nested(new, alive', frames)
  BY <1>1 DEF SignalInv, Joined
<1>7. /\ e2 \in Seq(Shown) /\ Len(e2) = n - 1 /\ frames \in Seq(Emission)
      /\ \A i \in 1 .. n - 1 : e2[i] = Seen(frames[i], new)
  <2>1. frames \in Seq(Emission)
    BY <1>6 DEF Nested
  <2> QED
    BY <1>3, <1>4, <1>6, <2>1, ProgressFacts
<1>8. \A i \in 1 .. n - 1 : e2[i] = e[i]
  <2>1. \A i \in 1 .. n - 1 : Seen(stack[i], new) = Seen(stack[i], all)
    BY <1>1 DEF Seen
  <2>2. \A i \in 1 .. n - 1 : i \in 1 .. n
    BY <1>2
  <2> QED
    BY <1>3, <1>5, <1>7, <2>1, <2>2
<1>9. e2 = SubSeq(e, 1, n - 1)
  <2>1. PICK front : front = SubSeq(e, 1, n - 1)
    OBVIOUS
  <2>2. /\ front \in Seq(Shown) /\ Len(front) = n - 1
        /\ \A i \in 1 .. n - 1 : front[i] = e[i]
    <3>1. 1 \in Int /\ n - 1 \in Int /\ \A i \in 1 .. n - 1 : e[i] \in Shown
      BY <1>2, <1>5
    <3>2. /\ front \in Seq(Shown) /\ Len(front) = IF 1 <= n - 1 THEN n - 1 - 1 + 1 ELSE 0
          /\ \A i \in 1 .. n - 1 - 1 + 1 : front[i] = e[1 + i - 1]
      BY <2>1, <3>1, SubSeqProperties
    <3> QED
      BY <1>2, <3>2
  <2>3. e2 = front
    BY <1>7, <1>8, <2>2, SeqEqual
  <2> QED
    BY <2>1, <2>3
<1>10. /\ Emissions = e /\ Emissions' = e2 /\ Connections' = Connections
  BY <1>1, <1>4, Views
<1>11. e[n].todo = << >>
  <2>1. e[n] = Seen(Top, all)
    BY <1>2, <1>5
  <2> QED
    BY <1>1, <2>1 DEF Seen
<1>12. InSlot = FALSE
  BY <1>2 DEF InSlot
<1>13. InSlot' = (n > 1)
  <2>1. InSlot' <=> frames # << >> /\ frames[Len(frames)].running
    BY <1>1, Views
  <2>2. InSlot' \in BOOLEAN
    <3>1. frames # << >> => frames[Len(frames)].running \in BOOLEAN
      <4>1. SUFFICES ASSUME frames # << >> PROVE frames[Len(frames)] \in Emission
        BY DEF Emission
      <4> QED
        BY <1>7, <4>1
    <3> QED
      BY <1>1, <3>1 DEF InSlot, Top
  <2>3. CASE n > 1
    <3>1. n - 1 \in 1 .. n - 1 /\ frames # << >>
      BY <1>2, <1>3, <2>3
    <3> QED
      BY <1>3, <2>1, <2>2, <2>3, <3>1
  <2>4. CASE ~(n > 1)
    <3>1. Len(frames) = 0
      BY <1>2, <1>3, <2>4
    <3>2. frames = << >>
      BY <1>7, <3>1, Positions
    <3> QED
      BY <2>1, <2>2, <2>4, <3>2
  <2> QED
    BY <2>3, <2>4
<1> QED
  BY <1>5, <1>9, <1>10, <1>11, <1>12, <1>13 DEF Promise!Finish, Promise!Innermost

\* Cleaning up leaves the live connections in their order.
LEMMA FinishIsPromised ==
  ASSUME SignalInv, FinishEmit
  PROVE  Promise!Finish
<1>1. /\ Emitting /\ stack # << >> /\ ~Top.running /\ ~Top.deleted /\ Top.at = INVALID_INDEX
      /\ signal' = [signal EXCEPT ![Top.signal] = [CleanupConnections(@) EXCEPT !.emitting = FALSE]]
      /\ stack' = Front(stack)
  BY DEF FinishEmit, Emitting
<1>2. AllSettled(signal) /\ Nested(signal, alive, stack) /\ SignalInv'
  BY FinishKeepsOrder DEF SignalInv, Joined
<1>3. PICK all, new, s, q, r : /\ all = signal /\ new = signal' /\ s = Top.signal /\ q = all[s]
                               /\ r = [CleanupConnections(q) EXCEPT !.emitting = FALSE]
  OBVIOUS
<1>4. s \in Signals /\ Settled(q) /\ Len(stack) \in Nat \ {0} /\ Top = stack[Len(stack)]
  BY <1>1, <1>3, TopFacts
<1>5. new[s] = r /\ \A x \in Signals : x # s => new[x] = all[x]
  BY <1>1, <1>2, <1>3, <1>4 DEF AllSettled
<1>6. Connected(r) = Connected(q)
  BY <1>3, <1>4, FinishFacts
<1>7. Listeners(new) = Listeners(all)
  BY <1>3, <1>5, <1>6 DEF Listeners
<1>8. ToCall(Top, all) = << >>
  <2>1. Tidy(q) /\ Ordered(q)
    BY <1>4 DEF Settled, Base
  <2>2. CalledFrom(q, INVALID_INDEX, Top.end) = << >>
    BY <2>1, CallsSteps DEF Steps
  <2> QED
    BY <1>1, <1>3, <2>2 DEF ToCall, From
<1>9. ASSUME NEW i \in 1 .. Len(stack) - 1
      PROVE  ToCall(stack[i], new) = ToCall(stack[i], all)
  <2>1. PICK f : f = stack[i] /\ f.signal \in Signals
    <3>1. i \in 1 .. Len(stack)
      BY <1>4
    <3> QED
      BY <1>2, <3>1, ProgressFacts
  <2>2. ~f.deleted => f.signal # s
    <3>1. i \in 1 .. Len(stack) /\ Len(stack) \in 1 .. Len(stack) /\ i # Len(stack)
      BY <1>4
    <3> QED
      BY <1>1, <1>2, <1>3, <1>4, <2>1, <3>1 DEF Nested
  <2> QED
    BY <1>5, <2>1, <2>2 DEF ToCall
<1> QED
  BY <1>1, <1>2, <1>3, <1>7, <1>8, <1>9, EndIsPromised

\* A signal that is gone has nothing to call.
LEMMA AbandonIsPromised ==
  ASSUME SignalInv, AbandonEmit
  PROVE  Promise!Finish
<1>1. /\ Emitting /\ Top.deleted /\ stack' = Front(stack) /\ signal' = signal
  BY DEF AbandonEmit
<1>2. SignalInv' /\ ToCall(Top, signal) = << >>
  BY <1>1, AbandonKeepsOrder DEF ToCall
<1>3. Listeners(signal') = Listeners(signal)
  BY <1>1
<1>4. \A i \in 1 .. Len(stack) - 1 : ToCall(stack[i], signal') = ToCall(stack[i], signal)
  BY <1>1
<1> QED
  BY <1>1, <1>2, <1>3, <1>4, EndIsPromised

LEMMA PromiseAtFirst == SignalInit => Promise!Init
<1> SUFFICES ASSUME SignalInit PROVE Promise!Init
  OBVIOUS
<1>1. Connections = [s \in Signals |-> << >>]
  <2>1. \A s \in Signals : Connected(signal[s]) = << >>
    BY NewIsSilent DEF SignalInit
  <2> QED
    BY <2>1 DEF Connections
<1>2. Emissions = << >> /\ InSlot = FALSE
  BY DEF SignalInit, Emissions, InSlot
<1> QED
  BY <1>1, <1>2 DEF Promise!Init

\* A signal keeps its promise: an emission calls the slots that were connected
\* when it began, in connection order, each once, except those disconnected
\* before their turn, whatever the slots do.  Every step of BaseSignal is one
\* of SignalPromise or invisible to it.
THEOREM KeepsPromiseHolds ==
  ASSUME PlacesFit
  PROVE  SignalSpec => KeepsPromise
<1>1. ASSUME SignalInv, SignalNext PROVE Promise!Next \/ UNCHANGED Promise!vars
  BY <1>1, ConnectIsPromised, DisconnectIsPromised, DestroyIsPromised, EmitIsPromised,
     SkipIsUnseen, CallIsPromised, ReturnIsPromised, FinishIsPromised, AbandonIsPromised
     DEF SignalNext, Promise!Next
<1>2. ASSUME UNCHANGED signalVars PROVE UNCHANGED Promise!vars
  <2>1. signal' = signal /\ stack' = stack
    BY <1>2 DEF signalVars
  <2> QED
    BY <2>1 DEF Promise!vars, Connections, Emissions, InSlot, Todo, Top
<1>3. SignalInv /\ [SignalNext]_signalVars => [Promise!Next]_(Promise!vars)
  BY <1>1, <1>2
<1> QED
  BY <1>3, PromiseAtFirst, SignalsInOrder, PTL DEF SignalSpec, KeepsPromise, Promise!Spec
================================================================================
