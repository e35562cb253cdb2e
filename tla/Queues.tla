-------------------------------- MODULE Queues --------------------------------
(***************************************************************************)
(* Words about the queues of the other modules, std::vector and the        *)
(* OwnerContainers in the code.                                            *)
(***************************************************************************)
EXTENDS Naturals, Sequences

Elements(s) == {s[i] : i \in DOMAIN s}

NoRepeats(s) == \A i, j \in DOMAIN s : i # j => s[i] # s[j]

Ascending(s) == \A i, j \in DOMAIN s : i < j => s[i] < s[j]

\* std::find and erase: the first entry of x is the one that goes.
EraseFirst(s, x) ==
  IF x \in Elements(s)
  THEN LET k == CHOOSE i \in DOMAIN s : s[i] = x /\ \A j \in 1 .. i - 1 : s[j] # x
       IN  SubSeq(s, 1, k - 1) \o SubSeq(s, k + 1, Len(s))
  ELSE s

\* What is left of s when all but the members of S are taken out.
Only(s, S) ==
  LET only[n \in 0 .. Len(s)] ==
        IF n = 0 THEN << >>
        ELSE IF s[n] \in S THEN Append(only[n - 1], s[n]) ELSE only[n - 1]
  IN  only[Len(s)]
=============================================================================
