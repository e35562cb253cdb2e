---------------------------- MODULE MCBaseSignal ----------------------------
(* Two signals that can emit each other, one with room to grow its pool and  *)
(* its cache; slot s1 belongs to a tracker, the others are plain functions.  *)
EXTENDS BaseSignal

CONSTANTS a, b, s1, s2, s3, t1

MCOwner == [s \in Slots |-> IF s = s1 THEN t1 ELSE None]
MCMaxNodes == [s \in Signals |-> IF s = a THEN 3 ELSE 1]
=============================================================================
