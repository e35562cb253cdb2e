---------------------------- MODULE SpscChannel ----------------------------
(***************************************************************************)
(* What LocklessPointerRing promises its two callers: a bounded first-in   *)
(* first-out channel of pointers from one producer thread to one consumer  *)
(* thread.  Push hands over one pointer or refuses because the channel is  *)
(* full; Drain takes the pointers that were pending when it started, at    *)
(* most MaxOut of them, and gives their places back only when it ends.     *)
(*                                                                         *)
(* LocklessPointerRing implements this specification step by step, and     *)
(* MessageQueue and NotificationManager use its actions for their rings.   *)
(***************************************************************************)
EXTENDS Naturals, Sequences

CONSTANTS
  Pointers,   \* what can be handed over
  Capacity,   \* number of slots (template parameter Capacity)
  MaxOut      \* size of the consumer's array (parameter maxOut of Drain)

VARIABLES
  pending,    \* pointers handed over and not yet given back by a Drain, oldest first
  claimed     \* how many of them the Drain in progress will take (0: none)

vars == <<pending, claimed>>

TypeOK == /\ pending \in Seq(Pointers)
          /\ claimed \in Nat

Init == /\ pending = << >>
        /\ claimed = 0

Full == Len(pending) >= Capacity

\* Push returns true: one more pending pointer.
Push(p) == /\ ~Full
           /\ pending' = Append(pending, p)
           /\ UNCHANGED claimed

\* Push returns false: the producer keeps the pointer.
Refuse == /\ Full
          /\ UNCHANGED vars

\* How many pointers a Drain that starts now will take.
Available == IF Len(pending) < MaxOut THEN Len(pending) ELSE MaxOut

\* Drain has read the producer's index: it will take what is pending now.
Claim == /\ claimed = 0
         /\ Available > 0
         /\ claimed' = Available
         /\ UNCHANGED pending

Claimed == SubSeq(pending, 1, claimed)

\* Drain returns the claimed pointers and frees their slots.
Release == /\ claimed > 0
           /\ pending' = SubSeq(pending, claimed + 1, Len(pending))
           /\ claimed' = 0

Next == \/ \E p \in Pointers : Push(p)
        \/ Refuse
        \/ Claim
        \/ Release

Spec == Init /\ [][Next]_vars
=============================================================================
