----------------------------- MODULE Queues_proofs -----------------------------
(***************************************************************************)
(* What appending, taking the first and cutting in two do to the elements  *)
(* of a queue; that there is a first of the places that have a property;   *)
(* and what is left of a queue when some elements are taken out, which is  *)
(* shown queue by queue, each being longer by one than another.            *)
(***************************************************************************)
EXTENDS Queues, TLAPS, SequenceTheorems, FiniteSetTheorems

\* Appending an element adds just that element.
LEMMA AppendFacts ==
  ASSUME NEW S, NEW s \in Seq(S), NEW x \in S
  PROVE  /\ Append(s, x) \in Seq(S) /\ Append(s, x) # << >>
         /\ Elements(Append(s, x)) = Elements(s) \cup {x}
         /\ NoRepeats(s) /\ x \notin Elements(s) => NoRepeats(Append(s, x))
  BY DEF Elements, NoRepeats

\* What membership and NoRepeats say in terms of positions.
LEMMA Positions ==
  ASSUME NEW S, NEW s \in Seq(S)
  PROVE  /\ Len(s) \in Nat
         /\ \A x : x \in Elements(s) <=> \E i \in 1 .. Len(s) : s[i] = x
         /\ NoRepeats(s) <=> \A i, j \in 1 .. Len(s) : i # j => s[i] # s[j]
         /\ s = << >> <=> Len(s) = 0
  BY DEF Elements, NoRepeats

\* Taking the first element removes just that element.
LEMMA TailFacts ==
  ASSUME NEW S, NEW s \in Seq(S), s # << >>
  PROVE  /\ Head(s) \in S /\ Tail(s) \in Seq(S)
         /\ Len(s) > 1 <=> Tail(s) # << >>
         /\ Elements(s) = {Head(s)} \cup Elements(Tail(s))
         /\ NoRepeats(s) => NoRepeats(Tail(s)) /\ Head(s) \notin Elements(Tail(s))
<1> DEFINE t == Tail(s)
<1>1. /\ Head(s) = s[1] /\ Head(s) \in S /\ t \in Seq(S) /\ Len(t) = Len(s) - 1
      /\ \A i \in 1 .. Len(t) : t[i] = s[i + 1]
  BY HeadTailProperties
<1> HIDE DEF t
<1>2. Len(s) \in Nat \ {0} /\ Len(t) \in Nat
  BY <1>1, Positions
<1>3. Len(s) > 1 <=> t # << >>
  BY <1>1, <1>2, Positions
<1>4. \A i \in 2 .. Len(s) : i - 1 \in 1 .. Len(t) /\ s[i] = t[i - 1]
  BY <1>1, <1>2
<1>5. \A x : x \in Elements(s) <=> x = Head(s) \/ x \in Elements(t)
  <2>1. ASSUME NEW x, x \in Elements(s) PROVE x = Head(s) \/ x \in Elements(t)
    BY <2>1, <1>1, <1>2, <1>4, Positions
  <2>2. ASSUME NEW x, x = Head(s) \/ x \in Elements(t) PROVE x \in Elements(s)
    BY <2>2, <1>1, <1>2, Positions
  <2> QED
    BY <2>1, <2>2
<1>6. ASSUME NoRepeats(s) PROVE NoRepeats(t) /\ Head(s) \notin Elements(t)
  <2>1. \A i, j \in 1 .. Len(s) : i # j => s[i] # s[j]
    BY <1>6, Positions
  <2>2. \A i, j \in 1 .. Len(t) : i # j => t[i] # t[j]
    BY <2>1, <1>1, <1>2
  <2>3. \A i \in 1 .. Len(t) : t[i] # Head(s)
    BY <2>1, <1>1, <1>2
  <2> QED
    BY <2>2, <2>3, <1>1, Positions
<1> QED
  BY <1>1, <1>3, <1>5, <1>6 DEF t

\* What the two parts hold that SubSeq cuts a queue in.
LEMMA CutFacts ==
  ASSUME NEW S, NEW s \in Seq(S), NEW k \in 1 .. Len(s)
  PROVE  LET front == SubSeq(s, 1, k)
             rest == SubSeq(s, k + 1, Len(s))
         IN  /\ front \in Seq(S) /\ Len(front) = k /\ \A i \in 1 .. k : front[i] = s[i]
             /\ rest \in Seq(S) /\ Len(rest) = Len(s) - k
             /\ \A i \in 1 .. Len(s) - k : rest[i] = s[k + i]
             /\ front # << >> /\ Elements(s) = Elements(front) \cup Elements(rest)
<1> DEFINE front == SubSeq(s, 1, k)
           rest == SubSeq(s, k + 1, Len(s))
<1>1. Len(s) \in Nat /\ k \in Nat
  OBVIOUS
<1>2. front \in Seq(S) /\ Len(front) = k /\ \A i \in 1 .. k : front[i] = s[i]
  BY <1>1, SubSeqProperties
<1>3. /\ rest \in Seq(S) /\ Len(rest) = Len(s) - k
      /\ \A i \in 1 .. Len(s) - k : rest[i] = s[k + i]
  BY <1>1, SubSeqProperties
<1> HIDE DEF front, rest
<1>4. \A i \in k + 1 .. Len(s) : i - k \in 1 .. Len(s) - k /\ s[i] = rest[i - k]
  BY <1>1, <1>3
<1>5. Elements(s) = Elements(front) \cup Elements(rest)
  <2>1. ASSUME NEW x \in Elements(s) PROVE x \in Elements(front) \/ x \in Elements(rest)
    <3>1. PICK i \in 1 .. Len(s) : s[i] = x
      BY <2>1, Positions
    <3>2. CASE i <= k
      BY <1>1, <1>2, <3>1, <3>2, Positions
    <3>3. CASE i > k
      <4>1. i - k \in 1 .. Len(rest) /\ rest[i - k] = x
        BY <1>1, <1>3, <1>4, <3>1, <3>3
      <4> QED
        BY <1>3, <4>1, Positions
    <3> QED
      BY <3>2, <3>3, <1>1
  <2>2. ASSUME NEW x \in Elements(front) PROVE x \in Elements(s)
    BY <1>1, <1>2, <2>2, Positions
  <2>3. ASSUME NEW x \in Elements(rest) PROVE x \in Elements(s)
    <3>1. PICK i \in 1 .. Len(s) - k : rest[i] = x
      BY <1>3, <2>3, Positions
    <3>2. k + i \in 1 .. Len(s) /\ s[k + i] = x
      BY <1>1, <1>3, <3>1
    <3> QED
      BY <3>2, Positions
  <2> QED
    BY <2>1, <2>2, <2>3
<1>6. front # << >>
  BY <1>1, <1>2, Positions
<1> QED
  BY <1>2, <1>3, <1>5, <1>6 DEF front, rest

\* Cutting a queue without repetitions leaves two, and nothing is in both.
LEMMA CutApart ==
  ASSUME NEW S, NEW s \in Seq(S), NEW k \in 1 .. Len(s), NoRepeats(s)
  PROVE  LET front == SubSeq(s, 1, k)
             rest == SubSeq(s, k + 1, Len(s))
         IN  NoRepeats(front) /\ NoRepeats(rest) /\ Elements(front) \cap Elements(rest) = {}
<1> DEFINE front == SubSeq(s, 1, k)
           rest == SubSeq(s, k + 1, Len(s))
<1>1. Len(s) \in Nat /\ k \in Nat
  OBVIOUS
<1>2. front \in Seq(S) /\ Len(front) = k /\ \A i \in 1 .. k : front[i] = s[i]
  BY CutFacts
<1>3. /\ rest \in Seq(S) /\ Len(rest) = Len(s) - k
      /\ \A i \in 1 .. Len(s) - k : rest[i] = s[k + i]
  BY CutFacts
<1> HIDE DEF front, rest
<1>4. \A i, j \in 1 .. Len(s) : i # j => s[i] # s[j]
  BY NoRepeats(s), Positions
<1>5. \A i, j \in 1 .. k : i # j => front[i] # front[j]
  BY <1>1, <1>2, <1>4
<1>6. ASSUME NEW i \in 1 .. Len(s) - k, NEW j \in 1 .. Len(s) - k, i # j PROVE rest[i] # rest[j]
  <2>1. k + i \in 1 .. Len(s) /\ k + j \in 1 .. Len(s) /\ k + i # k + j
    BY <1>6, <1>1
  <2>2. s[k + i] # s[k + j]
    BY <2>1, <1>4
  <2>3. rest[i] = s[k + i] /\ rest[j] = s[k + j]
    BY <1>3
  <2> QED
    BY <2>2, <2>3
<1>7. ASSUME NEW i \in 1 .. k, NEW j \in 1 .. Len(s) - k PROVE front[i] # rest[j]
  <2>1. k + j \in 1 .. Len(s) /\ i \in 1 .. Len(s) /\ i # k + j
    BY <1>1
  <2> QED
    BY <1>2, <1>3, <1>4, <2>1
<1>8. \A i, j \in 1 .. Len(rest) : i # j => rest[i] # rest[j]
  BY <1>3, <1>6
<1>9. NoRepeats(front)
  BY <1>2, <1>5, Positions
<1>10. NoRepeats(rest)
  BY <1>3, <1>8, Positions
<1>11. Elements(front) \cap Elements(rest) = {}
  BY <1>2, <1>3, <1>7, Positions, SMTT(30)
<1> QED
  BY <1>9, <1>10, <1>11 DEF front, rest

\* The elements of a queue, without regard to repetitions.
LEMMA SequenceFacts ==
  ASSUME NEW S, NEW s \in Seq(S)
  PROVE  /\ << >> \in Seq(S) /\ Elements(<< >>) = {}
         /\ \A x \in S : /\ Append(s, x) \in Seq(S) /\ Append(s, x) # << >>
                         /\ Elements(Append(s, x)) = Elements(s) \cup {x}
         /\ s # << >> => /\ Head(s) \in S /\ Tail(s) \in Seq(S) /\ Head(s) \in Elements(s)
                         /\ Elements(s) = {Head(s)} \cup Elements(Tail(s))
         /\ \A t \in Seq(S) : s \o t \in Seq(S)
         /\ Elements(s) \subseteq S
<1>1. << >> \in Seq(S) /\ Elements(<< >>) = {}
  BY DEF Elements
<1>2. Elements(s) \subseteq S
  BY DEF Elements
<1>3. \A t \in Seq(S) : s \o t \in Seq(S)
  OBVIOUS
<1> QED
  BY <1>1, <1>2, <1>3, AppendFacts, TailFacts

\* b stands somewhere before c in the queue.
Follows(s, b, c) == \E i, j \in 1 .. Len(s) : i < j /\ s[i] = b /\ s[j] = c

\* An appended element comes after the others and changes nothing among them.
LEMMA FollowsAppend ==
  ASSUME NEW S, NEW s \in Seq(S), NEW x \in S, NEW b, NEW c, Follows(Append(s, x), b, c)
  PROVE  Follows(s, b, c) \/ (b \in Elements(s) /\ c = x)
<1> DEFINE t == Append(s, x)
<1>1. /\ t \in Seq(S) /\ Len(t) = Len(s) + 1 /\ t[Len(s) + 1] = x /\ Len(s) \in Nat
      /\ \A i \in 1 .. Len(s) : t[i] = s[i]
  BY AppendProperties
<1>2. PICK i \in 1 .. Len(t), j \in 1 .. Len(t) : i < j /\ t[i] = b /\ t[j] = c
  BY DEF Follows
<1> HIDE DEF t
<1>3. i \in 1 .. Len(s) /\ s[i] = b
  BY <1>1, <1>2
<1>4. CASE j = Len(s) + 1
  BY <1>1, <1>2, <1>3, <1>4, Positions
<1>5. CASE j \in 1 .. Len(s)
  BY <1>1, <1>2, <1>3, <1>5 DEF Follows
<1> QED
  BY <1>1, <1>4, <1>5

\* The first element stands before the others, whose order it does not touch.
LEMMA FollowsTail ==
  ASSUME NEW S, NEW s \in Seq(S), s # << >>
  PROVE  /\ \A b, c : Follows(Tail(s), b, c) => Follows(s, b, c)
         /\ \A c \in Elements(Tail(s)) : Follows(s, Head(s), c)
<1> DEFINE t == Tail(s)
<1>1. /\ Head(s) = s[1] /\ t \in Seq(S) /\ Len(t) = Len(s) - 1 /\ Len(s) \in Nat \ {0}
      /\ \A i \in 1 .. Len(t) : t[i] = s[i + 1]
  BY HeadTailProperties, Positions
<1> HIDE DEF t
<1>2. ASSUME NEW b, NEW c, Follows(t, b, c) PROVE Follows(s, b, c)
  <2>1. PICK i \in 1 .. Len(t), j \in 1 .. Len(t) : i < j /\ t[i] = b /\ t[j] = c
    BY <1>2 DEF Follows
  <2>2. i + 1 \in 1 .. Len(s) /\ j + 1 \in 1 .. Len(s) /\ i + 1 < j + 1
        /\ s[i + 1] = b /\ s[j + 1] = c
    BY <1>1, <2>1
  <2> QED
    BY <2>2 DEF Follows
<1>3. ASSUME NEW c \in Elements(t) PROVE Follows(s, Head(s), c)
  <2>1. PICK i \in 1 .. Len(t) : t[i] = c
    BY <1>1, Positions
  <2>2. 1 \in 1 .. Len(s) /\ i + 1 \in 1 .. Len(s) /\ 1 < i + 1 /\ s[1] = Head(s) /\ s[i + 1] = c
    BY <1>1, <2>1
  <2> QED
    BY <2>2 DEF Follows
<1> QED
  BY <1>2, <1>3 DEF t

\* In an empty queue nothing stands before anything.
LEMMA FollowsEmpty == \A b, c : ~Follows(<< >>, b, c)
  BY DEF Follows

\* What Ascending says in terms of positions.
LEMMA AscendingPositions ==
  ASSUME NEW S, NEW s \in Seq(S)
  PROVE  Ascending(s) <=> \A i, j \in 1 .. Len(s) : i < j => s[i] < s[j]
  BY DEF Ascending

\* An ascending queue has no repetitions.
LEMMA AscendingIsUnrepeated ==
  ASSUME NEW S \in SUBSET Nat, NEW s \in Seq(S), Ascending(s)
  PROVE  NoRepeats(s)
<1> SUFFICES ASSUME NEW i \in 1 .. Len(s), NEW j \in 1 .. Len(s), i # j PROVE s[i] # s[j]
  BY Positions
<1>1. s[i] \in S /\ s[j] \in S /\ (i < j \/ j < i)
  OBVIOUS
<1>2. s[i] \in Nat /\ s[j] \in Nat
  BY <1>1
<1> QED
  BY <1>1, <1>2, AscendingPositions

\* A larger number at the end keeps a queue ascending.
LEMMA AscendingAppend ==
  ASSUME NEW S \in SUBSET Nat, NEW s \in Seq(S), Ascending(s), NEW x \in S, \A y \in Elements(s) : y < x
  PROVE  Ascending(Append(s, x))
<1> DEFINE t == Append(s, x)
<1>1. /\ t \in Seq(S) /\ Len(t) = Len(s) + 1 /\ t[Len(s) + 1] = x /\ Len(s) \in Nat
      /\ \A i \in 1 .. Len(s) : t[i] = s[i]
  BY AppendProperties
<1> HIDE DEF t
<1>2. \A i \in 1 .. Len(s) : s[i] < x
  BY Positions
<1> SUFFICES ASSUME NEW i \in 1 .. Len(t), NEW j \in 1 .. Len(t), i < j PROVE t[i] < t[j]
  BY <1>1, AscendingPositions DEF t
<1>3. i \in 1 .. Len(s) /\ t[i] = s[i]
  BY <1>1
<1>4. CASE j = Len(s) + 1
  BY <1>1, <1>2, <1>3, <1>4
<1>5. CASE j \in 1 .. Len(s)
  BY <1>1, <1>3, <1>5, AscendingPositions
<1> QED
  BY <1>1, <1>4, <1>5

\* What joining two queues does to their elements and their order.
LEMMA ConcatFacts ==
  ASSUME NEW S, NEW s \in Seq(S), NEW t \in Seq(S)
  PROVE  /\ s \o t \in Seq(S)
         /\ Elements(s \o t) = Elements(s) \cup Elements(t)
         /\ NoRepeats(s) /\ NoRepeats(t) /\ Elements(s) \cap Elements(t) = {} => NoRepeats(s \o t)
         /\ /\ S \subseteq Nat /\ Ascending(s) /\ Ascending(t)
            /\ \A x \in Elements(s), y \in Elements(t) : x < y
            => Ascending(s \o t)
<1> DEFINE u == s \o t
<1>1. /\ u \in Seq(S) /\ Len(u) = Len(s) + Len(t) /\ Len(s) \in Nat /\ Len(t) \in Nat
      /\ \A i \in 1 .. Len(s) : u[i] = s[i]
      /\ \A i \in Len(s) + 1 .. Len(u) : i - Len(s) \in 1 .. Len(t) /\ u[i] = t[i - Len(s)]
      /\ \A i \in 1 .. Len(t) : Len(s) + i \in 1 .. Len(u) /\ u[Len(s) + i] = t[i]
  BY ConcatProperties
<1> HIDE DEF u
<1>2. Elements(u) = Elements(s) \cup Elements(t)
  <2>1. ASSUME NEW x \in Elements(u) PROVE x \in Elements(s) \cup Elements(t)
    <3>1. PICK i \in 1 .. Len(u) : u[i] = x
      BY <1>1, Positions
    <3>2. CASE i \in 1 .. Len(s)
      BY <1>1, <3>1, <3>2, Positions
    <3>3. CASE i \in Len(s) + 1 .. Len(u)
      <4>1. i - Len(s) \in 1 .. Len(t) /\ t[i - Len(s)] = x
        BY <1>1, <3>1, <3>3
      <4> QED
        BY <4>1, Positions
    <3> QED
      BY <1>1, <3>2, <3>3
  <2>2. ASSUME NEW x \in Elements(s) PROVE x \in Elements(u)
    <3>1. PICK i \in 1 .. Len(s) : s[i] = x
      BY Positions
    <3>2. i \in 1 .. Len(u) /\ u[i] = x
      BY <1>1, <3>1
    <3> QED
      BY <1>1, <3>2, Positions
  <2>3. ASSUME NEW x \in Elements(t) PROVE x \in Elements(u)
    <3>1. PICK i \in 1 .. Len(t) : t[i] = x
      BY Positions
    <3> QED
      BY <1>1, <3>1, Positions
  <2> QED
    BY <2>1, <2>2, <2>3
<1>3. ASSUME NoRepeats(s), NoRepeats(t), Elements(s) \cap Elements(t) = {}
      PROVE  NoRepeats(u)
  <2>0. /\ \A k \in 1 .. Len(s) : s[k] \in Elements(s)
        /\ \A l \in 1 .. Len(t) : t[l] \in Elements(t)
    BY <1>1, Positions
  <2>1. /\ \A k, l \in 1 .. Len(s) : k < l => s[k] # s[l]
        /\ \A k, l \in 1 .. Len(t) : k < l => t[k] # t[l]
        /\ \A k \in 1 .. Len(s), l \in 1 .. Len(t) : s[k] # t[l]
    <3>1. \A k, l \in 1 .. Len(s) : k < l => s[k] # s[l]
      BY <1>3, Positions
    <3>2. \A k, l \in 1 .. Len(t) : k < l => t[k] # t[l]
      BY <1>3, Positions
    <3>3. \A k \in 1 .. Len(s), l \in 1 .. Len(t) : s[k] # t[l]
      BY <1>3, <2>0
    <3> QED
      BY <3>1, <3>2, <3>3
  <2>2. ASSUME NEW i \in 1 .. Len(u), NEW j \in 1 .. Len(u), i < j PROVE u[i] # u[j]
    <3>1. CASE i \in 1 .. Len(s) /\ j \in 1 .. Len(s)
      BY <1>1, <2>1, <2>2, <3>1
    <3>2. CASE i \in 1 .. Len(s) /\ j \in Len(s) + 1 .. Len(u)
      BY <1>1, <2>1, <3>2
    <3>3. CASE i \in Len(s) + 1 .. Len(u) /\ j \in Len(s) + 1 .. Len(u)
      <4>1. i - Len(s) < j - Len(s)
        BY <1>1, <2>2, <3>3
      <4>2. /\ i - Len(s) \in 1 .. Len(t) /\ u[i] = t[i - Len(s)]
            /\ j - Len(s) \in 1 .. Len(t) /\ u[j] = t[j - Len(s)]
        BY <1>1, <3>3
      <4> QED
        BY <2>1, <4>1, <4>2
    <3> QED
      BY <1>1, <2>2, <3>1, <3>2, <3>3
  <2>3. ASSUME NEW i \in 1 .. Len(u), NEW j \in 1 .. Len(u), i # j PROVE u[i] # u[j]
    <3>1. i < j \/ j < i
      BY <1>1, <2>3
    <3> QED
      BY <2>2, <3>1
  <2> QED
    BY <1>1, <2>3, Positions
<1>4. ASSUME S \subseteq Nat, Ascending(s), Ascending(t),
             \A x \in Elements(s), y \in Elements(t) : x < y
      PROVE  Ascending(u)
  <2>1. /\ \A k, l \in 1 .. Len(s) : k < l => s[k] < s[l]
        /\ \A k, l \in 1 .. Len(t) : k < l => t[k] < t[l]
        /\ \A k \in 1 .. Len(s), l \in 1 .. Len(t) : s[k] < t[l]
    BY <1>4, Positions, AscendingPositions
  <2>2. ASSUME NEW i \in 1 .. Len(u), NEW j \in 1 .. Len(u), i < j PROVE u[i] < u[j]
    <3>1. CASE i \in 1 .. Len(s) /\ j \in 1 .. Len(s)
      BY <1>1, <2>1, <2>2, <3>1
    <3>2. CASE i \in 1 .. Len(s) /\ j \in Len(s) + 1 .. Len(u)
      BY <1>1, <2>1, <3>2
    <3>3. CASE i \in Len(s) + 1 .. Len(u) /\ j \in Len(s) + 1 .. Len(u)
      <4>1. i - Len(s) < j - Len(s)
        BY <1>1, <2>2, <3>3
      <4>2. /\ i - Len(s) \in 1 .. Len(t) /\ u[i] = t[i - Len(s)]
            /\ j - Len(s) \in 1 .. Len(t) /\ u[j] = t[j - Len(s)]
        BY <1>1, <3>3
      <4> QED
        BY <2>1, <4>1, <4>2
    <3> QED
      BY <1>1, <2>2, <3>1, <3>2, <3>3
  <2> QED
    BY <1>1, <2>2, AscendingPositions
<1> QED
  BY <1>1, <1>2, <1>3, <1>4 DEF u

\* Cutting a queue in two keeps its order.
LEMMA FollowsSplit ==
  ASSUME NEW S, NEW s \in Seq(S), NEW k \in 1 .. Len(s),
         NEW front \in Seq(S), Len(front) = k,
         \A i \in 1 .. k : front[i] = s[i],
         NEW rest \in Seq(S), Len(rest) = Len(s) - k,
         \A i \in 1 .. Len(s) - k : rest[i] = s[k + i],
         NEW b, NEW c
  PROVE  /\ Follows(front, b, c) => Follows(s, b, c)
         /\ Follows(rest, b, c) => Follows(s, b, c)
         /\ b \in Elements(front) /\ c \in Elements(rest) => Follows(s, b, c)
<1>0. Len(s) \in Nat /\ k \in Nat
  OBVIOUS
<1>1. ASSUME Follows(front, b, c) PROVE Follows(s, b, c)
  BY <1>0, <1>1 DEF Follows
<1>2. ASSUME Follows(rest, b, c) PROVE Follows(s, b, c)
  <2>1. PICK i \in 1 .. Len(rest), j \in 1 .. Len(rest) : i < j /\ rest[i] = b /\ rest[j] = c
    BY <1>2 DEF Follows
  <2>2. /\ k + i \in 1 .. Len(s) /\ k + j \in 1 .. Len(s) /\ k + i < k + j
        /\ s[k + i] = b /\ s[k + j] = c
    BY <1>0, <2>1
  <2> QED
    BY <2>2 DEF Follows
<1>3. ASSUME b \in Elements(front), c \in Elements(rest) PROVE Follows(s, b, c)
  <2>1. PICK i \in 1 .. k : front[i] = b
    BY <1>3, Positions
  <2>2. PICK j \in 1 .. Len(s) - k : rest[j] = c
    BY <1>3, Positions
  <2>3. /\ i \in 1 .. Len(s) /\ k + j \in 1 .. Len(s) /\ i < k + j
        /\ s[i] = b /\ s[k + j] = c
    BY <1>0, <2>1, <2>2
  <2> QED
    BY <2>3 DEF Follows
<1> QED
  BY <1>1, <1>2, <1>3

\* A set of numbers has a least one: the intervals that end in it are finite,
\* and inclusion of finite sets is well founded.
LEMMA LeastExists ==
  ASSUME NEW T, T \subseteq Nat, T # {}
  PROVE  \E x \in T : \A y \in T : x <= y
<1> DEFINE upto == {0 .. k : k \in T}
<1>1. upto \subseteq FiniteSubsetsOf(Nat)
  <2> SUFFICES ASSUME NEW k \in T PROVE 0 .. k \in SUBSET Nat /\ IsFiniteSet(0 .. k)
    BY DEF FiniteSubsetsOf
  <2>1. k \in Int /\ 0 \in Int
    OBVIOUS
  <2> QED
    BY <2>1, FS_Interval
<1>2. upto # {}
  OBVIOUS
<1>3. PICK a \in upto : \A b \in upto : <<b, a>> \notin StrictSubsetOrdering(Nat)
  BY <1>1, <1>2, WFMin, FS_StrictSubsetOrderingWellFounded
<1>4. PICK x \in T : a = 0 .. x
  OBVIOUS
<1>5. ASSUME NEW y \in T, y < x PROVE FALSE
  <2>1. 0 .. y \in upto /\ 0 .. y \subseteq a /\ 0 .. y # a
    BY <1>4, <1>5
  <2>2. 0 .. y \in SUBSET Nat /\ a \in SUBSET Nat
    BY <1>4
  <2> QED
    BY <1>3, <2>1, <2>2 DEF StrictSubsetOrdering
<1> QED
  BY <1>5

\* Erasing the first entry of x keeps all the others, adds none, and does
\* nothing to a queue without it; when nothing is there twice, x is gone.
LEMMA EraseFirstFacts ==
  ASSUME NEW S, NEW s \in Seq(S), NEW x
  PROVE  /\ EraseFirst(s, x) \in Seq(S)
         /\ Elements(EraseFirst(s, x)) \subseteq Elements(s)
         /\ Elements(s) \ {x} \subseteq Elements(EraseFirst(s, x))
         /\ x \notin Elements(s) => EraseFirst(s, x) = s
         /\ NoRepeats(s) => /\ NoRepeats(EraseFirst(s, x))
                            /\ Elements(EraseFirst(s, x)) = Elements(s) \ {x}
<1>1. CASE x \notin Elements(s)
  BY <1>1 DEF EraseFirst
<1>2. CASE x \in Elements(s)
  <2> DEFINE first(i) == s[i] = x /\ \A j \in 1 .. i - 1 : s[j] # x
             at == CHOOSE i \in DOMAIN s : first(i)
             places == {i \in 1 .. Len(s) : s[i] = x}
             before == SubSeq(s, 1, at - 1)
             behind == SubSeq(s, at + 1, Len(s))
  <2>1. DOMAIN s = 1 .. Len(s) /\ Len(s) \in Nat
    OBVIOUS
  <2>2. PICK i \in places : \A j \in places : i <= j
    <3>1. places \subseteq Nat /\ places # {}
      BY <1>2, <2>1 DEF Elements
    <3> QED
      BY <3>1, LeastExists
  <2>3. i \in DOMAIN s /\ first(i)
    BY <2>1, <2>2
  <2>4. at \in 1 .. Len(s) /\ s[at] = x
    BY <2>1, <2>3
  <2>5. EraseFirst(s, x) = before \o behind
    BY <1>2 DEF EraseFirst
  <2> HIDE DEF at
  <2>6. /\ before \in Seq(S) /\ Len(before) = at - 1
        /\ \A k \in 1 .. at - 1 : before[k] = s[k]
    BY <2>4, SubSeqProperties
  <2>7. /\ behind \in Seq(S) /\ Len(behind) = Len(s) - at
        /\ \A k \in 1 .. Len(s) - at : behind[k] = s[at + k]
    BY <2>4, SubSeqProperties
  <2> HIDE DEF before, behind
  <2>8. /\ before \o behind \in Seq(S)
        /\ Elements(before \o behind) = Elements(before) \cup Elements(behind)
        /\ NoRepeats(before) /\ NoRepeats(behind) /\ Elements(before) \cap Elements(behind) = {}
             => NoRepeats(before \o behind)
    BY <2>6, <2>7, ConcatFacts
  <2>9. /\ \A k \in 1 .. at - 1 : k \in 1 .. Len(s) /\ k # at
        /\ \A k \in 1 .. Len(s) - at : at + k \in 1 .. Len(s) /\ at + k # at
    BY <2>4
  <2>10. Elements(before) \cup Elements(behind) \subseteq Elements(s)
    <3>1. Elements(before) \subseteq Elements(s)
      BY <2>9, <2>6, Positions
    <3>2. Elements(behind) \subseteq Elements(s)
      BY <2>9, <2>7, Positions
    <3> QED
      BY <3>1, <3>2
  <2>11. Elements(s) \ {x} \subseteq Elements(before) \cup Elements(behind)
    <3> SUFFICES ASSUME NEW k \in 1 .. Len(s), s[k] # x
                 PROVE  s[k] \in Elements(before) \cup Elements(behind)
      BY Positions
    <3>1. CASE k < at
      BY <3>1, <2>4, <2>6, Positions
    <3>2. CASE k > at
      <4>1. k - at \in 1 .. Len(s) - at /\ at + (k - at) = k
        BY <3>2, <2>4
      <4>2. behind[k - at] = s[k]
        BY <4>1, <2>7
      <4> QED
        BY <4>1, <4>2, <2>7, Positions
    <3> QED
      BY <3>1, <3>2, <2>4
  <2>12. ASSUME NoRepeats(s)
         PROVE  NoRepeats(before \o behind) /\ x \notin Elements(before \o behind)
    <3>1. \A k, l \in 1 .. Len(s) : k # l => s[k] # s[l]
      BY <2>12, Positions
    <3>2. NoRepeats(before)
      BY <3>1, <2>6, <2>9, Positions
    <3>3. NoRepeats(behind)
      <4>1. \A k, l \in 1 .. Len(s) - at : k # l => at + k # at + l
        BY <2>4
      <4>2. \A k, l \in 1 .. Len(s) - at : k # l => behind[k] # behind[l]
        BY <4>1, <3>1, <2>7, <2>9
      <4> QED
        BY <4>2, <2>7, Positions
    <3>4. \A k \in 1 .. at - 1, l \in 1 .. Len(s) - at : k # at + l
      BY <2>4
    <3>5. \A k \in 1 .. at - 1, l \in 1 .. Len(s) - at : before[k] # behind[l]
      BY <3>1, <3>4, <2>6, <2>7, <2>9
    <3>6. Elements(before) \cap Elements(behind) = {}
      BY <3>5, <2>6, <2>7, Positions
    <3>7. x \notin Elements(before)
      BY <3>1, <2>4, <2>6, <2>9, Positions
    <3>8. x \notin Elements(behind)
      BY <3>1, <2>4, <2>7, <2>9, Positions
    <3> QED
      BY <2>8, <3>2, <3>3, <3>6, <3>7, <3>8
  <2> QED
    BY <1>2, <2>5, <2>8, <2>10, <2>11, <2>12
<1> QED
  BY <1>1, <1>2

\* A set of numbers that holds 0, and with each number the next, holds all.
LEMMA Counting ==
  ASSUME NEW P, 0 \in P, \A n \in Nat : n \in P => n + 1 \in P
  PROVE  Nat \subseteq P
<1> SUFFICES ASSUME Nat \ P # {} PROVE FALSE
  OBVIOUS
<1>1. PICK x \in Nat \ P : \A y \in Nat \ P : x <= y
  BY LeastExists
<1>2. x - 1 \in Nat /\ x - 1 \in P
  BY <1>1
<1>3. x - 1 + 1 \in P
  BY <1>2
<1> QED
  BY <1>1, <1>3

\* The recursive definition in Only has a solution.
Filters(f, s, S, N) ==
  f = [n \in 0 .. N |-> IF n = 0 THEN << >>
                        ELSE IF s[n] \in S THEN Append(f[n - 1], s[n]) ELSE f[n - 1]]

LEMMA FiltersExist ==
  ASSUME NEW s, NEW S, NEW N \in Nat
  PROVE  \E f : Filters(f, s, S, N)
<1> DEFINE P == {n \in Nat : \E f : Filters(f, s, S, n)}
<1>1. 0 \in P
  <2> DEFINE e == [n \in 0 .. 0 |-> << >>]
  <2>1. Filters(e, s, S, 0)
    BY DEF Filters
  <2> QED
    BY <2>1
<1>2. ASSUME NEW n \in Nat, n \in P PROVE n + 1 \in P
  <2>1. PICK f : Filters(f, s, S, n)
    BY <1>2
  <2> DEFINE last == IF s[n + 1] \in S THEN Append(f[n], s[n + 1]) ELSE f[n]
             g == [i \in 0 .. n + 1 |-> IF i = n + 1 THEN last ELSE f[i]]
  <2>2. \A i \in 0 .. n : f[i] = IF i = 0 THEN << >>
                                 ELSE IF s[i] \in S THEN Append(f[i - 1], s[i]) ELSE f[i - 1]
    BY <2>1 DEF Filters
  <2>3. \A i \in 1 .. n + 1 : g[i - 1] = f[i - 1]
    OBVIOUS
  <2>4. ASSUME NEW i \in 0 .. n + 1
        PROVE  g[i] = IF i = 0 THEN << >>
                      ELSE IF s[i] \in S THEN Append(g[i - 1], s[i]) ELSE g[i - 1]
    <3>1. CASE i = n + 1
      <4>1. g[i] = last /\ i # 0 /\ g[i - 1] = f[n]
        BY <3>1, <2>3
      <4> HIDE DEF g
      <4> QED
        BY <3>1, <4>1
    <3>2. CASE i # n + 1
      <4>1. g[i] = f[i] /\ i \in 0 .. n /\ (i # 0 => g[i - 1] = f[i - 1])
        BY <3>2, <2>3
      <4> HIDE DEF g
      <4> QED
        BY <4>1, <2>2
    <3> QED
      BY <3>1, <3>2
  <2>5. g = [i \in 0 .. n + 1 |-> g[i]]
    OBVIOUS
  <2> HIDE DEF g
  <2>6. Filters(g, s, S, n + 1)
    BY <2>4, <2>5 DEF Filters
  <2> QED
    BY <2>6
<1> HIDE DEF P
<1>3. Nat \subseteq P
  BY <1>1, <1>2, Counting
<1> QED
  BY <1>3 DEF P

\* Only keeps just the members of the set, each as often as before.
LEMMA OnlyFacts ==
  ASSUME NEW X, NEW s \in Seq(X), NEW S
  PROVE  /\ Only(s, S) \in Seq(X) /\ Elements(Only(s, S)) = Elements(s) \cap S
         /\ NoRepeats(s) => NoRepeats(Only(s, S))
<1> DEFINE only == CHOOSE f : Filters(f, s, S, Len(s))
<1>1. Len(s) \in Nat /\ \A n \in 1 .. Len(s) : s[n] \in X
  OBVIOUS
<1>2. Filters(only, s, S, Len(s))
  BY <1>1, FiltersExist
<1>3. Only(s, S) = only[Len(s)]
  BY DEF Only, Filters
<1> HIDE DEF only
<1>4. \A n \in 0 .. Len(s) : only[n] = IF n = 0 THEN << >>
                                       ELSE IF s[n] \in S THEN Append(only[n - 1], s[n])
                                       ELSE only[n - 1]
  BY <1>2 DEF Filters
<1> DEFINE kept(n) == {s[k] : k \in 1 .. n} \cap S
           good(n) == /\ only[n] \in Seq(X) /\ Elements(only[n]) = kept(n)
                      /\ NoRepeats(s) => NoRepeats(only[n])
           P == {n \in Nat : n <= Len(s) => good(n)}
<1>5. 0 \in P
  <2>1. only[0] = << >> /\ kept(0) = {}
    BY <1>1, <1>4
  <2> HIDE DEF kept
  <2>2. << >> \in Seq(X) /\ Elements(<< >>) = {} /\ NoRepeats(<< >>)
    BY SequenceFacts DEF NoRepeats
  <2> QED
    BY <2>1, <2>2
<1>6. ASSUME NEW n \in Nat, n \in P PROVE n + 1 \in P
  <2> SUFFICES ASSUME n + 1 <= Len(s)
               PROVE  good(n + 1)
    OBVIOUS
  <2>0. good(n)
    <3> HIDE DEF good
    <3> QED
      BY <1>1, <1>6
  <2>1. /\ only[n] \in Seq(X) /\ Elements(only[n]) = kept(n)
        /\ NoRepeats(s) => NoRepeats(only[n])
    BY <2>0
  <2>2. only[n + 1] = IF s[n + 1] \in S THEN Append(only[n], s[n + 1]) ELSE only[n]
    BY <1>1, <1>4
  <2>3. s[n + 1] \in X
    BY <1>1
  <2>4. kept(n + 1) = IF s[n + 1] \in S THEN kept(n) \cup {s[n + 1]} ELSE kept(n)
    <3>1. 1 .. n + 1 = (1 .. n) \cup {n + 1}
      OBVIOUS
    <3> QED
      BY <3>1
  <2>5. ASSUME NoRepeats(s) PROVE s[n + 1] \notin kept(n)
    <3>1. \A k \in 1 .. n : k \in DOMAIN s /\ n + 1 \in DOMAIN s /\ k # n + 1
      BY <1>1
    <3> QED
      BY <2>5, <3>1 DEF NoRepeats
  <2> HIDE DEF kept
  <2>6. PICK x, old, longer : x = s[n + 1] /\ old = only[n] /\ longer = Append(old, x)
    OBVIOUS
  <2>7. CASE x \in S
    <3>1. old \in Seq(X) /\ Elements(old) = kept(n) /\ x \in X
      BY <2>1, <2>3, <2>6
    <3>2. /\ longer \in Seq(X) /\ Elements(longer) = Elements(old) \cup {x}
          /\ NoRepeats(old) /\ x \notin Elements(old) => NoRepeats(longer)
      BY <2>6, <3>1, AppendFacts
    <3>3. only[n + 1] = longer /\ kept(n + 1) = kept(n) \cup {x}
      BY <2>2, <2>4, <2>6, <2>7
    <3>4. NoRepeats(s) => NoRepeats(old) /\ x \notin kept(n)
      BY <2>1, <2>5, <2>6
    <3> QED
      BY <3>1, <3>2, <3>3, <3>4
  <2>8. CASE x \notin S
    BY <2>1, <2>2, <2>4, <2>6, <2>8
  <2> QED
    BY <2>7, <2>8
<1> HIDE DEF P, kept, good
<1>7. Nat \subseteq P
  BY <1>5, <1>6, Counting
<1>8. /\ only[Len(s)] \in Seq(X) /\ Elements(only[Len(s)]) = kept(Len(s))
      /\ NoRepeats(s) => NoRepeats(only[Len(s)])
  <2>1. Len(s) \in P
    BY <1>1, <1>7
  <2>2. good(Len(s))
    BY <2>1, <1>1 DEF P
  <2> QED
    BY <2>2 DEF good
<1>9. kept(Len(s)) = Elements(s) \cap S
  BY <1>1, DOMAIN s = 1 .. Len(s) DEF kept, Elements
<1> QED
  BY <1>3, <1>8, <1>9

\* A set of queues that holds the empty one, and with each queue all that are
\* longer by one, holds all.
LEMMA QueueByQueue ==
  ASSUME NEW X, NEW P, << >> \in P, \A s \in Seq(X), x \in X : s \in P => Append(s, x) \in P
  PROVE  Seq(X) \subseteq P
<1> DEFINE N == {n \in Nat : \A s \in Seq(X) : Len(s) = n => s \in P}
<1>1. 0 \in N
  BY EmptySeq
<1>2. ASSUME NEW n \in Nat, n \in N PROVE n + 1 \in N
  <2> SUFFICES ASSUME NEW s \in Seq(X), Len(s) = n + 1 PROVE s \in P
    OBVIOUS
  <2>1. PICK front, x : front = SubSeq(s, 1, n) /\ x = s[n + 1]
    OBVIOUS
  <2>2. front \in Seq(X) /\ Len(front) = n /\ x \in X /\ \A i \in 1 .. n : front[i] = s[i]
    BY <2>1, SubSeqProperties
  <2>3. s = Append(front, x)
    <3>1. PICK r : r = Append(front, x)
      OBVIOUS
    <3>2. r \in Seq(X) /\ Len(r) = n + 1 /\ \A i \in 1 .. n + 1 : r[i] = s[i]
      BY <2>1, <2>2, <3>1
    <3> QED
      BY <3>1, <3>2, SeqEqual
  <2> QED
    BY <1>2, <2>2, <2>3
<1> HIDE DEF N
<1>3. Nat \subseteq N
  BY <1>1, <1>2, Counting
<1> QED
  BY <1>3 DEF N

LEMMA EmptyOnly == ASSUME NEW S PROVE Only(<< >>, S) = << >>
<1> DEFINE e == CHOOSE h : Filters(h, << >>, S, Len(<< >>))
<1>1. Filters(e, << >>, S, Len(<< >>)) /\ Len(<< >>) = 0
  BY FiltersExist
<1>2. Only(<< >>, S) = e[Len(<< >>)]
  BY DEF Only, Filters
<1> HIDE DEF e
<1> QED
  BY <1>1, <1>2 DEF Filters

\* Only looks at one entry after the other.
LEMMA OnlyAppend ==
  ASSUME NEW X, NEW s \in Seq(X), NEW x \in X, NEW S
  PROVE  Only(Append(s, x), S) = IF x \in S THEN Append(Only(s, S), x) ELSE Only(s, S)
<1>0. PICK t : t = Append(s, x)
  OBVIOUS
<1> DEFINE f == CHOOSE h : Filters(h, s, S, Len(s))
           g == CHOOSE h : Filters(h, t, S, Len(t))
<1>1. /\ Len(s) \in Nat /\ Len(t) = Len(s) + 1 /\ t[Len(t)] = x
      /\ \A n \in 1 .. Len(s) : t[n] = s[n]
  BY <1>0
<1>2. Filters(f, s, S, Len(s)) /\ Filters(g, t, S, Len(t))
  BY <1>1, FiltersExist
<1>3. Only(s, S) = f[Len(s)] /\ Only(t, S) = g[Len(t)]
  BY DEF Only, Filters
<1> HIDE DEF f, g
<1>4. /\ \A n \in 0 .. Len(s) : f[n] = IF n = 0 THEN << >>
                                       ELSE IF s[n] \in S THEN Append(f[n - 1], s[n]) ELSE f[n - 1]
      /\ \A n \in 0 .. Len(t) : g[n] = IF n = 0 THEN << >>
                                       ELSE IF t[n] \in S THEN Append(g[n - 1], t[n]) ELSE g[n - 1]
  BY <1>2 DEF Filters
<1> DEFINE P == {n \in Nat : n <= Len(s) => f[n] = g[n]}
<1>5. 0 \in P
  BY <1>1, <1>4
<1>6. ASSUME NEW n \in Nat, n \in P PROVE n + 1 \in P
  <2> SUFFICES ASSUME n + 1 <= Len(s) PROVE f[n + 1] = g[n + 1]
    OBVIOUS
  <2>1. f[n] = g[n] /\ s[n + 1] = t[n + 1]
    BY <1>1, <1>6
  <2>2. /\ f[n + 1] = IF s[n + 1] \in S THEN Append(f[n], s[n + 1]) ELSE f[n]
        /\ g[n + 1] = IF t[n + 1] \in S THEN Append(g[n], t[n + 1]) ELSE g[n]
    BY <1>1, <1>4
  <2> QED
    BY <2>1, <2>2
<1> HIDE DEF P
<1>7. Nat \subseteq P
  BY <1>5, <1>6, Counting
<1>8. f[Len(s)] = g[Len(s)]
  BY <1>1, <1>7 DEF P
<1>9. g[Len(s) + 1] = IF t[Len(s) + 1] \in S THEN Append(g[Len(s)], t[Len(s) + 1]) ELSE g[Len(s)]
  BY <1>1, <1>4
<1> QED
  BY <1>0, <1>1, <1>3, <1>4, <1>8, <1>9

LEMMA AppendToConcat ==
  ASSUME NEW X, NEW s \in Seq(X), NEW t \in Seq(X), NEW x \in X
  PROVE  s \o Append(t, x) = Append(s \o t, x) /\ s \o << >> = s /\ << >> \o s = s
<1>1. PICK a, b : a = s \o Append(t, x) /\ b = Append(s \o t, x)
  OBVIOUS
<1>2. Append(t, x) \in Seq(X) /\ s \o t \in Seq(X) /\ Len(s) \in Nat /\ Len(t) \in Nat
  OBVIOUS
<1>3. /\ a \in Seq(X) /\ Len(a) = Len(s) + Len(t) + 1
      /\ b \in Seq(X) /\ Len(b) = Len(s) + Len(t) + 1
      /\ \A i \in 1 .. Len(a) : a[i] = b[i]
  BY <1>1, <1>2
<1>4. a = b
  BY <1>3, SeqEqual
<1> QED
  BY <1>1, <1>4

\* Only of two queues, one behind the other.
LEMMA OnlyConcat ==
  ASSUME NEW X, NEW s \in Seq(X), NEW t \in Seq(X), NEW S
  PROVE  Only(s \o t, S) = Only(s, S) \o Only(t, S)
<1> DEFINE P == {u \in Seq(X) : Only(s \o u, S) = Only(s, S) \o Only(u, S)}
<1>1. << >> \in P
  <2>1. Only(s, S) \in Seq(X) /\ << >> \in Seq(X)
    BY OnlyFacts
  <2>2. Only(<< >>, S) = << >>
    BY EmptyOnly
  <2> QED
    BY <2>1, <2>2, ConcatEmptySeq
<1>2. ASSUME NEW u \in Seq(X), NEW x \in X, u \in P PROVE Append(u, x) \in P
  <2>1. PICK a, b, c : a = Only(s, S) /\ b = Only(u, S) /\ c = s \o u
    OBVIOUS
  <2>2. a \in Seq(X) /\ b \in Seq(X) /\ c \in Seq(X) /\ Only(c, S) = a \o b
    BY <1>2, <2>1, OnlyFacts
  <2>3. s \o Append(u, x) = Append(c, x)
    BY <2>1, AppendToConcat
  <2>4. a \o Append(b, x) = Append(a \o b, x)
    BY <2>2, AppendToConcat
  <2>5. Only(Append(c, x), S) = IF x \in S THEN Append(Only(c, S), x) ELSE Only(c, S)
    BY <2>2, OnlyAppend
  <2>6. Only(Append(u, x), S) = IF x \in S THEN Append(b, x) ELSE b
    BY <2>1, OnlyAppend
  <2>7. Only(s \o Append(u, x), S) = a \o Only(Append(u, x), S)
    BY <2>2, <2>3, <2>4, <2>5, <2>6
  <2> QED
    BY <2>1, <2>7
<1> HIDE DEF P
<1>3. Seq(X) \subseteq P
  BY <1>1, <1>2, QueueByQueue
<1> QED
  BY <1>3 DEF P

\* Only twice, and when nothing is left out.
LEMMA OnlyTwice ==
  ASSUME NEW X, NEW s \in Seq(X), NEW S, NEW T
  PROVE  /\ Only(Only(s, S), T) = Only(s, S \cap T)
         /\ X \subseteq S => Only(s, S) = s
<1> DEFINE P == {u \in Seq(X) : /\ Only(Only(u, S), T) = Only(u, S \cap T)
                                /\ X \subseteq S => Only(u, S) = u}
<1>1. << >> \in P
  BY EmptyOnly
<1>2. ASSUME NEW u \in Seq(X), NEW x \in X, u \in P PROVE Append(u, x) \in P
  <2>1. PICK a, b : a = Only(u, S) /\ b = Only(u, S \cap T)
    OBVIOUS
  <2>2. a \in Seq(X) /\ b \in Seq(X) /\ Only(a, T) = b /\ (X \subseteq S => a = u)
    BY <1>2, <2>1, OnlyFacts
  <2>a. Only(Append(u, x), S) = IF x \in S THEN Append(a, x) ELSE a
    BY <2>1, OnlyAppend
  <2>b. Only(Append(u, x), S \cap T) = IF x \in S \cap T THEN Append(b, x) ELSE b
    BY <2>1, OnlyAppend
  <2>c. Only(Append(a, x), T) = IF x \in T THEN Append(b, x) ELSE b
    BY <2>2, OnlyAppend
  <2>3. /\ Only(Append(u, x), S) = IF x \in S THEN Append(a, x) ELSE a
        /\ Only(Append(u, x), S \cap T) = IF x \in S \cap T THEN Append(b, x) ELSE b
        /\ Only(Append(a, x), T) = IF x \in T THEN Append(b, x) ELSE b
    BY <2>a, <2>b, <2>c
  <2>4. Only(Only(Append(u, x), S), T) = Only(Append(u, x), S \cap T)
    BY <2>2, <2>3
  <2>5. X \subseteq S => Only(Append(u, x), S) = Append(u, x)
    BY <2>2, <2>3
  <2> QED
    BY <2>4, <2>5
<1> HIDE DEF P
<1>3. Seq(X) \subseteq P
  BY <1>1, <1>2, QueueByQueue
<1> QED
  BY <1>3 DEF P
================================================================================
