----------------------------- MODULE BaseSignal -----------------------------
(***************************************************************************)
(* dali/public-api/signals: BaseSignal with its SignalConnectionPool, and  *)
(* the ConnectionTracker of the objects that own slots.  Everything runs   *)
(* in one thread; what makes it hard is re-entrance: while a signal is     *)
(* being emitted, the slot that runs may connect to it, disconnect from    *)
(* it, destroy it, destroy an owner of slots, or emit another signal.      *)
(*                                                                         *)
(* Nodes live in a pool whose places are numbered from 0 and reused last   *)
(* in first out; a doubly linked list of indices keeps connection order.   *)
(* During an emission a disconnected node is only emptied; the emission    *)
(* unlinks and frees such nodes when it ends.  A callback is identified by *)
(* its slot: Connect refuses a slot that is already connected.             *)
(***************************************************************************)
EXTENDS Integers, FiniteSets, Sequences, SequencesExt, Queues

CONSTANTS
  Signals, Slots, Trackers,
  None,               \* no slot, no tracker
  Owner,              \* the tracker of a slot, None for a plain function
  FirstBlock,         \* capacity of the first block of a pool (2)
  CacheThreshold,     \* CACHE_BLOCK_THRESHOLD (3)
  IndexLimit,         \* NodeToIndex returns a uint16_t: 2^16
  MaxNodes            \* bound: places of the pool of each signal

ASSUME SignalAssumption ==
  /\ None \notin Slots \cup Trackers
  /\ Owner \in [Slots -> Trackers \cup {None}]
  /\ FirstBlock \in Nat \ {0} /\ CacheThreshold \in Nat
  /\ IndexLimit \in Nat \ {0} /\ MaxNodes \in [Signals -> Nat]

VARIABLES
  signal,       \* each signal: its pool, its list, its counters and its cache
  alive,        \* the signals that have not been destroyed
  tracked,      \* what each tracker knows: pairs of a slot and its signal
  stack         \* the emissions in progress, innermost last

signalVars == <<signal, alive, tracked, stack>>

INVALID_INDEX == -1
NodeIndex == UNION {0 .. MaxNodes[s] - 1 : s \in Signals}
Link  == NodeIndex \cup {INVALID_INDEX}
Node  == [slot : Slots \cup {None}, next : Link, prev : Link]

NewSignal == [node |-> << >>, free |-> << >>, head |-> INVALID_INDEX, tail |-> INVALID_INDEX,
              active |-> 0, nulls |-> 0, emitting |-> FALSE, hasCache |-> FALSE, cache |-> {}]

-----------------------------------------------------------------------------
(* The pool.  Place i of a pool is entry i + 1 of the sequence node.         *)

At(q, i) == q.node[i + 1]

\* Number of blocks that hold n places: each block doubles the one before.
Blocks(n) == CHOOSE b \in 0 .. n : /\ FirstBlock * (2^b - 1) >= n
                                   /\ b > 0 => FirstBlock * (2^(b - 1) - 1) < n

CanAllocate(s) == signal[s].free # << >> \/ Len(signal[s].node) < MaxNodes[s]

\* The place a new node gets: the last one freed, or the next one never used.
Place(q) == IF q.free # << >> THEN Head(q.free) ELSE Len(q.node)

Allocate(q, slot) ==
  LET new == [slot |-> slot, next |-> INVALID_INDEX, prev |-> INVALID_INDEX]
  IN IF q.free # << >>
     THEN [q EXCEPT !.free = Tail(@), !.node[Head(q.free) + 1] = new]
     ELSE [q EXCEPT !.node = Append(@, new)]

Free(q, i) == [q EXCEPT !.node[i + 1].slot = None, !.free = <<i>> \o @]

NodeToIndex(i) == i % IndexLimit

-----------------------------------------------------------------------------
(* The list in emission order.                                               *)

\* Before the first place of the list is mEmitHead, behind the last mEmitTail.
SetNext(q, i, n) == IF i # INVALID_INDEX THEN [q EXCEPT !.node[i + 1].next = n]
                                         ELSE [q EXCEPT !.head = n]
SetPrev(q, i, p) == IF i # INVALID_INDEX THEN [q EXCEPT !.node[i + 1].prev = p]
                                         ELSE [q EXCEPT !.tail = p]

AppendToEmitList(q, i) ==
  LET n == NodeToIndex(i)
      placed == SetNext(SetPrev(q, i, q.tail), i, INVALID_INDEX)
  IN SetPrev(SetNext(placed, q.tail, n), INVALID_INDEX, n)

UnlinkFromEmitList(q, i) ==
  LET p == At(q, i).prev
      n == At(q, i).next
      cut == SetPrev(SetNext(q, p, n), n, p)
  IN SetNext(SetPrev(cut, i, INVALID_INDEX), i, INVALID_INDEX)

-----------------------------------------------------------------------------
(* Finding, making and deleting a connection.                                *)

LiveNodes(q) == {i \in 0 .. Len(q.node) - 1 : At(q, i).slot # None}

Find(q, slot) ==
  LET found == IF q.hasCache THEN {e[2] : e \in {c \in q.cache : c[1] = slot}}
               ELSE {i \in LiveNodes(q) : At(q, i).slot = slot}
  IN IF found = {} THEN INVALID_INDEX ELSE CHOOSE i \in found : \A j \in found : i <= j

Cached(q, slot, i) ==
  IF q.hasCache THEN [q EXCEPT !.cache = @ \cup {<<slot, i>>}]
  ELSE IF Blocks(Len(q.node)) >= CacheThreshold
       THEN [q EXCEPT !.hasCache = TRUE, !.cache = {<<At(q, j).slot, j>> : j \in LiveNodes(q)}]
       ELSE q

OnConnect(q, slot) ==
  LET i == Place(q)
      allocated == [Allocate(q, slot) EXCEPT !.active = @ + 1]
  IN Cached(AppendToEmitList(allocated, i), slot, i)

Uncached(q, slot) == [q EXCEPT !.cache = {c \in @ : c[1] # slot}]

DeleteConnection(q, i) ==
  LET r == [Uncached(q, At(q, i).slot) EXCEPT !.active = @ - 1]
  IN IF q.emitting THEN [r EXCEPT !.node[i + 1].slot = None, !.nulls = @ + 1]
                   ELSE Free(UnlinkFromEmitList(r, i), i)

\* One turn of the loop of CleanupConnections: w holds the pool, the place of the
\* list it has come to, and how many emptied nodes it has still to find.
CleanupTurn(w) ==
  LET next == At(w.pool, w.at).next
  IN IF w.at = INVALID_INDEX \/ w.left = 0 THEN w
     ELSE IF At(w.pool, w.at).slot # None THEN [w EXCEPT !.at = next]
     ELSE [pool |-> Free(UnlinkFromEmitList(w.pool, w.at), w.at), at |-> next, left |-> w.left - 1]

\* The loop: it ends after as many turns as there are places at the latest.
CleanupTurns(q) ==
  LET turn[k \in 0 .. Len(q.node)] == IF k = 0 THEN [pool |-> q, at |-> q.head, left |-> q.nulls]
                         ELSE CleanupTurn(turn[k - 1])
  IN turn[Len(q.node)]

\* mNullCount is not reset.
CleanupForgetsCount(q) == CleanupTurns(q).pool

\* Unlink and free what was emptied during the emission.
CleanupConnections(q) == [CleanupTurns(q).pool EXCEPT !.nulls = 0]

-----------------------------------------------------------------------------
SignalInit == /\ signal = [s \in Signals |-> NewSignal]
              /\ alive = Signals
              /\ tracked = [t \in Trackers |-> << >>]
              /\ stack = << >>

Top == stack[Len(stack)]

\* The application runs: outside any emission, or inside a slot.
Application == stack # << >> => Top.running

\* SignalConnected and SignalDisconnected of the slot's tracker, if it has one.
SignalConnected(slot, s) ==
  [t \in Trackers |-> IF t = Owner[slot] THEN Append(tracked[t], <<slot, s>>) ELSE tracked[t]]

\* The last entry takes the place of the one that goes.
EraseSwap(list, x) ==
  IF x \in Elements(list)
  THEN LET i == CHOOSE j \in DOMAIN list : list[j] = x
       IN SubSeq([list EXCEPT ![i] = list[Len(list)]], 1, Len(list) - 1)
  ELSE list

\* The tracker is not told.
SlotSideLeft(slot, s) == tracked

SignalDisconnected(slot, s) ==
  [t \in Trackers |-> IF t = Owner[slot] THEN EraseSwap(tracked[t], <<slot, s>>) ELSE tracked[t]]
\* Signal::Connect.
Connect == /\ Application
           /\ \E s \in alive, slot \in Slots :
                /\ Find(signal[s], slot) = INVALID_INDEX
                /\ CanAllocate(s)
                /\ signal' = [signal EXCEPT ![s] = OnConnect(@, slot)]
                /\ tracked' = SignalConnected(slot, s)
           /\ UNCHANGED <<alive, stack>>

\* Signal::Disconnect: the signal's side first, then the tracker's.
Disconnect == /\ Application
              /\ \E s \in alive, slot \in Slots :
                   LET i == Find(signal[s], slot)
                   IN /\ i # INVALID_INDEX
                      /\ signal' = [signal EXCEPT ![s] = DeleteConnection(@, i)]
                      /\ tracked' = SignalDisconnected(slot, s)
              /\ UNCHANGED <<alive, stack>>

\* SlotDisconnected: a callback that is not found aborts the program.
SlotDisconnected(all, pair) ==
  [all EXCEPT ![pair[2]] = LET i == Find(@, pair[1])
                           IN IF i # INVALID_INDEX THEN DeleteConnection(@, i) ELSE @]

\* The signals after the loop of DisconnectAll over a tracker's list.
DisconnectAllOf(list) ==
  LET after[k \in 0 .. Len(list)] == IF k = 0 THEN signal ELSE SlotDisconnected(after[k - 1], list[k])
  IN after[Len(list)]

\* DisconnectAll, also called by the destructor of an owner of slots.
DisconnectAll == /\ Application
                 /\ \E t \in Trackers :
                      /\ tracked[t] # << >>
                      /\ signal' = DisconnectAllOf(tracked[t])
                      /\ tracked' = [tracked EXCEPT ![t] = << >>]
                 /\ UNCHANGED <<alive, stack>>

\* ~BaseSignal: every tracker is told, and an emission in progress is told to stop.
DestroySignal ==
  /\ Application
  /\ \E s \in alive :
       /\ alive' = alive \ {s}
       /\ signal' = [signal EXCEPT ![s] = NewSignal]
       /\ tracked' = [t \in Trackers |-> Only(tracked[t], Slots \X (Signals \ {s}))]
       /\ stack' = [i \in DOMAIN stack |->
                      [stack[i] EXCEPT !.deleted = @ \/ stack[i].signal = s]]

\* No end is remembered.
NoEmitEnd(q) == INVALID_INDEX

\* mEmitTail when the emission begins: later connections are behind it.
EmitEnd(q) == q.tail

\* Emit.  EmitGuard refuses, without effect, a signal that is being emitted.
Emit == /\ Application
        /\ \E s \in alive :
             /\ ~signal[s].emitting
             /\ stack' = Append(stack, [signal |-> s, at |-> signal[s].head, next |-> INVALID_INDEX,
                                        end |-> EmitEnd(signal[s]), running |-> FALSE,
                                        deleted |-> FALSE])
             /\ signal' = [signal EXCEPT ![s].emitting = TRUE]
        /\ UNCHANGED <<alive, tracked>>

Emitting == stack # << >> /\ ~Top.running
Visiting == Emitting /\ ~Top.deleted /\ Top.at # INVALID_INDEX
Visited  == At(signal[Top.signal], Top.at)

\* The loop goes on behind the node it has visited, unless that was the last one.
Advanced(f, next) == [f EXCEPT !.at = IF f.at = f.end THEN INVALID_INDEX ELSE next,
                               !.running = FALSE]

\* The node has been emptied: the loop passes it.
SkipNode == /\ Visiting /\ Visited.slot = None
            /\ stack' = [stack EXCEPT ![Len(stack)] = Advanced(@, Visited.next)]
            /\ UNCHANGED <<signal, alive, tracked>>

\* The successor is read before the slot is called.
CallSlot == /\ Visiting /\ Visited.slot # None
            /\ stack' = [stack EXCEPT ![Len(stack)].next = Visited.next,
                                      ![Len(stack)].running = TRUE]
            /\ UNCHANGED <<signal, alive, tracked>>

\* The slot returns.
SlotReturns == /\ stack # << >> /\ Top.running
               /\ stack' = [stack EXCEPT ![Len(stack)] = Advanced(@, Top.next)]
               /\ UNCHANGED <<signal, alive, tracked>>

\* The loop has ended: clean up, and let the signal be emitted again.
FinishEmit ==
  /\ Emitting /\ ~Top.deleted /\ Top.at = INVALID_INDEX
  /\ signal' = [signal EXCEPT ![Top.signal] = [CleanupConnections(@) EXCEPT !.emitting = FALSE]]
  /\ stack' = Front(stack)
  /\ UNCHANGED <<alive, tracked>>

\* The signal was destroyed by the slot: nothing of it is touched again.
AbandonEmit == /\ Emitting /\ Top.deleted
               /\ stack' = Front(stack)
               /\ UNCHANGED <<signal, alive, tracked>>

SignalNext == \/ Connect \/ Disconnect \/ DisconnectAll \/ DestroySignal
              \/ Emit \/ SkipNode \/ CallSlot \/ SlotReturns \/ FinishEmit \/ AbandonEmit

SignalSpec == SignalInit /\ [][SignalNext]_signalVars

-----------------------------------------------------------------------------
Signal == [node : Seq(Node), free : Seq(NodeIndex), head : Link, tail : Link, active : Nat,
           nulls : Nat, emitting : BOOLEAN, hasCache : BOOLEAN, cache : SUBSET (Slots \X NodeIndex)]

Frame == [signal : Signals, at : Link, next : Link, end : Link, running : BOOLEAN,
          deleted : BOOLEAN]

\* Every variable has its type: in particular the counters never go below
\* zero and no link leaves the pool.
SignalTypeOK == /\ signal \in [Signals -> Signal]
                /\ alive \in SUBSET Signals
                /\ tracked \in [Trackers -> Seq(Slots \X Signals)]
                /\ stack \in Seq(Frame)

Places(q) == 0 .. Len(q.node) - 1
InList(q) == Places(q) \ Elements(q.free)
Emptied(q) == {i \in InList(q) : At(q, i).slot = None}

\* Place i is the first of a part of the list, rest[i] being what comes after it.
Begins(i, part, rest) == IF i = INVALID_INDEX THEN part = {}
                         ELSE i \in part /\ part = {i} \cup rest[i]

\* A strict order of the places, behind, is the one that the links of q follow
\* in both directions.
InOrder(q, behind) ==
  LET ahead == [i \in InList(q) |-> {j \in InList(q) : i \in behind[j]}]
  IN /\ \A i \in InList(q) : /\ ahead[i] = InList(q) \ ({i} \cup behind[i])
                             /\ \A j \in behind[i] : behind[j] \subseteq behind[i]
                             /\ Begins(At(q, i).next, behind[i], behind)
                             /\ Begins(At(q, i).prev, ahead[i], ahead)
     /\ Begins(q.head, InList(q), behind)
     /\ Begins(q.tail, InList(q), ahead)

\* The list of a signal holds exactly the places of the pool that are not free,
\* in one order forwards and backwards; outside an emission none of them is
\* empty.  The counters say what is in it.
ListIsConsistent ==
  \A s \in alive :
    LET q == signal[s]
    IN /\ \E behind \in [InList(q) -> SUBSET InList(q)] : InOrder(q, behind)
       /\ NoRepeats(q.free) /\ LiveNodes(q) \subseteq InList(q)
       /\ q.active = Cardinality(LiveNodes(q))
       /\ q.nulls = Cardinality(Emptied(q))
       /\ ~q.emitting => q.nulls = 0

\* A slot is connected to a signal once.
OneNodePerSlot == \A s \in alive : \A i, j \in LiveNodes(signal[s]) :
  At(signal[s], i).slot = At(signal[s], j).slot => i = j

\* The cache of a large signal knows exactly its live connections, so that a
\* search in the cache and a search in the pool agree.
CacheIsExact == \A s \in alive :
  signal[s].hasCache => signal[s].cache = {<<At(signal[s], i).slot, i>> : i \in LiveNodes(signal[s])}

\* What OnConnect and OnDisconnect search and what Emit walks is the same.
PoolIsConsistent == ListIsConsistent /\ OneNodePerSlot /\ CacheIsExact

\* Both sides of a connection know of it, or neither: a tracker lists a slot
\* and a signal once exactly when the signal has a live connection to the slot.
\* No lookup on either side can then abort with "Callback lost".
TrackersAgree ==
  \A t \in Trackers :
    /\ NoRepeats(tracked[t])
    /\ Elements(tracked[t]) = {p \in Slots \X Signals :
         /\ Owner[p[1]] = t /\ p[2] \in alive
         /\ \E i \in LiveNodes(signal[p[2]]) : At(signal[p[2]], i).slot = p[1]}

\* An emission that has not been told to stop belongs to a signal that is still
\* there, and where it stands and goes on has not been freed: Emit never follows
\* the link of a place that the pool may give to another connection.
EmissionsStayInList ==
  \A i \in DOMAIN stack :
    LET f == stack[i]
    IN ~f.deleted => /\ f.signal \in alive
                     /\ {f.at, f.next} \subseteq InList(signal[f.signal]) \cup {INVALID_INDEX}

-----------------------------------------------------------------------------
(* The promise: what an emission still has to call are the live nodes from   *)
(* where it stands up to the end it chose when it began.                     *)

Own(q, i) == IF At(q, i).slot = None THEN << >> ELSE << At(q, i).slot >>

NoCalls(q) == [i \in Places(q) \cup {INVALID_INDEX} |-> << >>]

\* The slots of the live nodes from a place on, shorter being these slots for
\* the part of the list that has one place less.
Longer(q, end, shorter) ==
  [i \in Places(q) \cup {INVALID_INDEX} |->
     IF i = INVALID_INDEX THEN << >>
     ELSE Own(q, i) \o (IF i = end THEN << >> ELSE shorter[At(q, i).next])]

\* The slots that are called from place i of the list up to place end.
CalledFrom(q, i, end) ==
  LET calls[n \in 0 .. Len(q.node)] ==
        IF n = 0 THEN NoCalls(q) ELSE Longer(q, end, calls[n - 1])
  IN calls[Len(q.node)][i]

Connected(q) == CalledFrom(q, q.head, INVALID_INDEX)

From(f) == IF f.running THEN (IF f.at = f.end THEN INVALID_INDEX ELSE f.next) ELSE f.at

Todo(f) == IF f.deleted THEN << >> ELSE CalledFrom(signal[f.signal], From(f), f.end)

Connections == [s \in Signals |-> Connected(signal[s])]
Emissions == [i \in DOMAIN stack |-> [signal |-> stack[i].signal, todo |-> Todo(stack[i])]]
InSlot == stack # << >> /\ Top.running

Promise == INSTANCE SignalPromise
             WITH connected <- Connections, emissions <- Emissions, inSlot <- InSlot

\* Every emission calls the slots connected when it began, in connection
\* order, each once, except those disconnected before their turn, whatever
\* the slots do to this signal and to others.
KeepsPromise == Promise!Spec
=============================================================================
