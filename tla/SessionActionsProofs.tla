------------------------- MODULE SessionActionsProofs -------------------------
(***************************************************************************)
(* Theorems about the prompts of a session, for any number of prompts,     *)
(* retries and interruptions: what their tickets say, what a checkpoint    *)
(* holds, who wakes a prompt that waits, the order they are taken in, and  *)
(* what they are prepared with.                                            *)
(***************************************************************************)
EXTENDS SessionActions, SequenceTheorems, FiniteSetTheorems, WellFoundedInduction, TLAPS

-----------------------------------------------------------------------------
(* Subsequences.                                                           *)

\* Every set of numbers has a least one, which is how induction is done below.
LEMMA Least ==
    ASSUME NEW S \in SUBSET Nat, S # {}
    PROVE  \E n \in S : \A m \in S : n <= m
<1> DEFINE R == OpToRel(<, Nat)
<1>1. IsWellFoundedOn(R, Nat)
  BY NatLessThanWellFounded
<1>3. \A x, y \in Nat : <<y, x>> \in R <=> y < x
  BY DEF OpToRel
<1> HIDE DEF R
<1>2. PICK x \in S : \A y \in S : ~ (<<y, x>> \in R)
  BY <1>1, WFMin
<1>4. \A y \in S : ~(y < x) /\ x \in Nat /\ y \in Nat
  BY <1>2, <1>3
<1>5. \A y \in S : x <= y
  BY <1>4
<1> QED BY <1>2, <1>5

Unfolds(kept, s, A) ==
    /\ Only(s, A) = kept[Len(s)]
    /\ kept[0] = <<>>
    /\ \A n \in 1..Len(s) :
          kept[n] = IF s[n] \in A THEN Append(kept[n - 1], s[n]) ELSE kept[n - 1]

\* Only is computed by a function from the lengths of the prefixes to what they keep.
LEMMA OnlyUnfolds ==
    ASSUME NEW S, NEW s \in Seq(S), NEW A
    PROVE  \E kept \in [0..Len(s) -> Seq(S)] : Unfolds(kept, s, A)
<1> DEFINE Grown(g, n) == IF n = 0 THEN <<>>
                          ELSE IF s[n] \in A THEN Append(g[n - 1], s[n]) ELSE g[n - 1]
           UpTo(g, n) == g \in [0..n -> Seq(S)] /\ \A i \in 0..n : g[i] = Grown(g, i)
           Short == {n \in 0..Len(s) : ~ \E g : UpTo(g, n)}
<1>0. Len(s) \in Nat /\ s \in [1..Len(s) -> S]
  OBVIOUS
<1>1. Short = {}
  <2> SUFFICES ASSUME Short # {} PROVE FALSE
    OBVIOUS
  <2>0. Short \in SUBSET Nat
    BY <1>0
  <2>1. PICK n \in Short : \A m \in Short : n <= m
    <3> HIDE DEF Short
    <3> QED BY <2>0, Least
  <2>2. n \in 0..Len(s) /\ n \in Nat /\ ~ \E g : UpTo(g, n)
    BY <1>0, <2>1
  <2>3. CASE n = 0
    <3> DEFINE g == [i \in 0..0 |-> <<>>]
    <3>1. UpTo(g, 0)
      OBVIOUS
    <3> QED
      BY <2>2, <2>3, <3>1
  <2>4. CASE n # 0
    <3>1. n - 1 \in 0..Len(s) /\ n - 1 \notin Short
      <4> HIDE DEF Short
      <4> QED BY <2>1, <2>2, <2>4, <1>0
    <3>2. PICK g : UpTo(g, n - 1)
      <4> HIDE DEF UpTo
      <4> QED BY <3>1
    <3> DEFINE h == [i \in 0..n |-> IF i < n THEN g[i] ELSE Grown(g, n)]
    <3>3. g[n - 1] \in Seq(S) /\ s[n] \in S
      BY <3>2, <2>2, <2>4, <1>0
    <3>4. h \in [0..n -> Seq(S)]
      <4>1. Grown(g, n) \in Seq(S)
        BY <3>3, <2>4
      <4>2. \A i \in 0..n : i < n => g[i] \in Seq(S)
        BY <3>2, <2>2
      <4> HIDE DEF Grown
      <4> QED
        BY <4>1, <4>2
    <3>5. \A i \in 0..n : h[i] = Grown(h, i)
      <4> SUFFICES ASSUME NEW i \in 0..n PROVE h[i] = Grown(h, i)
        OBVIOUS
      <4>1. i # 0 => h[i - 1] = g[i - 1]
        BY <2>2
      <4>2. Grown(h, i) = Grown(g, i)
        BY <4>1
      <4>3. i < n => g[i] = Grown(g, i)
        <5>1. i < n => i \in 0..(n - 1)
          BY <2>2
        <5> HIDE DEF Grown
        <5> QED
          BY <3>2, <5>1
      <4>4. h[i] = IF i < n THEN g[i] ELSE Grown(g, n)
        BY Zenon
      <4>5. ~(i < n) => i = n
        BY <2>2
      <4> HIDE DEF Grown, h
      <4> QED
        BY <4>2, <4>3, <4>4, <4>5
    <3> QED
      BY <2>2, <3>4, <3>5
  <2> QED
    BY <2>3, <2>4
<1>2. Len(s) \in 0..Len(s) /\ Len(s) \notin Short
  <2> HIDE DEF Short
  <2> QED BY <1>0, <1>1
<1>3. PICK g : UpTo(g, Len(s))
  <2> HIDE DEF UpTo
  <2> QED BY <1>2
<1> DEFINE Right(k) == k = [n \in 0..Len(s) |-> Grown(k, n)]
<1>4. Right(g)
  <2> HIDE DEF Grown
  <2> QED
    BY <1>3
<1> DEFINE kept == CHOOSE k : Right(k)
<1>5. Only(s, A) = kept[Len(s)]
  BY Zenon DEF Only
<1>6. Right(kept)
  <2> HIDE DEF Right
  <2> QED BY <1>4
<1> HIDE DEF kept
<1>7. \A n \in 0..Len(s) : kept[n] = Grown(kept, n)
  BY <1>6, <1>0
<1>8. DOMAIN kept = 0..Len(s)
  BY <1>6
<1>10. kept[0] = <<>> /\ 0 \in 0..Len(s)
  BY <1>0, <1>7
<1>11. ASSUME NEW n \in 1..Len(s)
       PROVE  kept[n] = IF s[n] \in A THEN Append(kept[n - 1], s[n]) ELSE kept[n - 1]
  <2>1. n \in 0..Len(s) /\ n # 0
    BY <1>0
  <2> QED
    BY <1>7, <2>1
<1> HIDE DEF Grown
<1>9. ASSUME NEW m \in 0..Len(s)
      PROVE  kept[m] \in Seq(S)
  <2> DEFINE Odd == {n \in 0..Len(s) : kept[n] \notin Seq(S)}
  <2>1. Odd = {}
    <3> SUFFICES ASSUME Odd # {} PROVE FALSE
      OBVIOUS
    <3>1. Odd \in SUBSET Nat
      BY <1>0
    <3>2. PICK n \in Odd : \A k \in Odd : n <= k
      <4> HIDE DEF Odd
      <4> QED BY <3>1, Least
    <3>3. n \in 0..Len(s) /\ n \in Nat /\ kept[n] \notin Seq(S)
      BY <1>0, <3>2
    <3>4. n # 0
      BY <1>10, <3>3, EmptySeq
    <3>5. n - 1 \in 0..Len(s) /\ n - 1 \notin Odd
      <4> HIDE DEF Odd
      <4> QED BY <1>0, <3>2, <3>3, <3>4
    <3>6. kept[n - 1] \in Seq(S) /\ s[n] \in S
      BY <1>0, <3>3, <3>4, <3>5
    <3> QED
      <4> HIDE DEF Odd
      <4>1. n \in 1..Len(s)
        BY <1>0, <3>3, <3>4
      <4>2. Append(kept[n - 1], s[n]) \in Seq(S)
        BY <3>6, AppendProperties
      <4> QED
        BY <1>11, <3>3, <3>6, <4>1, <4>2
  <2> QED
    BY <2>1
<1> QED
  <2>1. kept \in [0..Len(s) -> Seq(S)]
    BY <1>6, <1>8, <1>9
  <2> QED
    BY <1>0, <1>5, <1>10, <1>11, <2>1 DEF Unfolds

\* Only picks the elements in A out of a sequence, all of them, in their order.
LEMMA OnlyPicks ==
    ASSUME NEW S, NEW s \in Seq(S), NEW A
    PROVE  /\ Only(s, A) \in Seq(S)
           /\ \E h \in [1..Len(Only(s, A)) -> 1..Len(s)] :
                 /\ \A i \in 1..Len(Only(s, A)) : Only(s, A)[i] = s[h[i]] /\ s[h[i]] \in A
                 /\ \A i, j \in 1..Len(Only(s, A)) : i < j => h[i] < h[j]
                 /\ \A n \in 1..Len(s) : s[n] \in A => \E i \in 1..Len(Only(s, A)) : h[i] = n
<1>0. Len(s) \in Nat
  OBVIOUS
<1>1. PICK kept \in [0..Len(s) -> Seq(S)] : Unfolds(kept, s, A)
  BY OnlyUnfolds
<1>9. /\ Only(s, A) = kept[Len(s)]
      /\ kept[0] = <<>>
      /\ \A n \in 1..Len(s) :
            kept[n] = IF s[n] \in A THEN Append(kept[n - 1], s[n]) ELSE kept[n - 1]
  BY <1>1 DEF Unfolds
<1> DEFINE Picks(h, n) ==
             /\ h \in [1..Len(kept[n]) -> 1..n]
             /\ \A i \in 1..Len(kept[n]) : kept[n][i] = s[h[i]] /\ s[h[i]] \in A
             /\ \A i, j \in 1..Len(kept[n]) : i < j => h[i] < h[j]
             /\ \A m \in 1..n : s[m] \in A => \E i \in 1..Len(kept[n]) : h[i] = m
           Odd == {n \in 0..Len(s) : ~ \E h : Picks(h, n)}
<1>2. Picks(<<>>, 0)
  BY <1>9
<1>3. ASSUME NEW n \in 1..Len(s), NEW g, Picks(g, n - 1)
      PROVE  \E h : Picks(h, n)
  <2>0. n - 1 \in 0..Len(s) /\ n \in Nat /\ kept[n - 1] \in Seq(S) /\ s[n] \in S
    BY <1>0, <1>1
  <2>1. CASE s[n] \notin A
    <3>1. kept[n] = kept[n - 1]
      BY <1>9, <2>1
    <3>2. Picks(g, n)
      BY <1>3, <2>0, <2>1, <3>1
    <3> QED
      BY <3>2
  <2>2. CASE s[n] \in A
    <3> DEFINE l == Len(kept[n - 1])
               h == [i \in 1..(l + 1) |-> IF i <= l THEN g[i] ELSE n]
    <3>1. kept[n] = Append(kept[n - 1], s[n])
      BY <1>9, <2>2
    <3>2. /\ l \in Nat /\ Len(kept[n]) = l + 1
          /\ \A i \in 1..l : kept[n][i] = kept[n - 1][i]
          /\ kept[n][l + 1] = s[n]
      BY <2>0, <3>1, AppendProperties
    <3>3. \A i \in 1..l : i \in 1..(l + 1) /\ h[i] = g[i] /\ g[i] \in 1..(n - 1)
      BY <1>3, <3>2
    <3>4. l + 1 \in 1..(l + 1) /\ h[l + 1] = n
      BY <3>2
    <3>5. \A i \in 1..(l + 1) : i \in 1..l \/ i = l + 1
      BY <3>2
    <3>6. h \in [1..Len(kept[n]) -> 1..n]
      <4>1. \A i \in 1..(l + 1) : h[i] \in 1..n
        <5> HIDE DEF h, l
        <5> QED BY <2>0, <3>3, <3>4, <3>5
      <4>2. DOMAIN h = 1..(l + 1) /\ h = [i \in 1..(l + 1) |-> h[i]]
        OBVIOUS
      <4> HIDE DEF h
      <4> QED
        BY <3>2, <4>1, <4>2
    <3> HIDE DEF h
    <3>7. \A i \in 1..(l + 1) : kept[n][i] = s[h[i]] /\ s[h[i]] \in A
      BY <1>3, <2>2, <3>2, <3>3, <3>4, <3>5
    <3>8. \A i, j \in 1..(l + 1) : i < j => h[i] < h[j]
      <4> SUFFICES ASSUME NEW i \in 1..(l + 1), NEW j \in 1..(l + 1), i < j
                   PROVE  h[i] < h[j]
        OBVIOUS
      <4>1. i \in 1..l
        BY <3>2
      <4>2. CASE j \in 1..l
        BY <1>3, <3>3, <4>1, <4>2
      <4>3. CASE j = l + 1
        BY SMTT(30), <2>0, <3>3, <3>4, <4>1, <4>3
      <4> QED
        BY <3>5, <4>2, <4>3
    <3>9. \A m \in 1..n : s[m] \in A => \E i \in 1..(l + 1) : h[i] = m
      <4> SUFFICES ASSUME NEW m \in 1..n, s[m] \in A
                   PROVE  \E i \in 1..(l + 1) : h[i] = m
        OBVIOUS
      <4>1. CASE m = n
        BY <3>4, <4>1
      <4>2. CASE m \in 1..(n - 1)
        <5>1. PICK i \in 1..l : g[i] = m
          BY <1>3, <4>2
        <5> QED
          BY <3>3, <5>1
      <4> QED
        BY <2>0, <4>1, <4>2
    <3>10. Len(kept[n]) = l + 1
      BY <3>2
    <3> HIDE DEF l
    <3>11. Picks(h, n)
      BY <3>6, <3>7, <3>8, <3>9, <3>10
    <3> HIDE DEF Picks
    <3> QED
      BY <3>11
  <2> QED
    BY <2>1, <2>2
<1>4. Odd = {}
  <2> SUFFICES ASSUME Odd # {} PROVE FALSE
    OBVIOUS
  <2>1. Odd \in SUBSET Nat
    BY <1>0
  <2>2. PICK n \in Odd : \A k \in Odd : n <= k
    <3> HIDE DEF Odd
    <3> QED BY <2>1, Least
  <2>3. n \in 0..Len(s) /\ n \in Nat /\ ~ \E h : Picks(h, n)
    <3> HIDE DEF Picks
    <3> QED BY <1>0, <2>2
  <2>4. n # 0
    <3> HIDE DEF Picks
    <3> QED BY <1>2, <2>3
  <2>5. n \in 1..Len(s) /\ n - 1 \in 0..Len(s) /\ n - 1 \notin Odd
    <3> HIDE DEF Odd
    <3> QED BY <1>0, <2>2, <2>3, <2>4
  <2> HIDE DEF Picks
  <2>6. \E g : Picks(g, n - 1)
    BY <2>5
  <2> QED
    BY <1>3, <2>3, <2>5, <2>6
<1>5. Len(s) \in 0..Len(s) /\ Len(s) \notin Odd
  <2> HIDE DEF Odd
  <2> QED BY <1>0, <1>4
<1>6. PICK h : Picks(h, Len(s))
  <2> HIDE DEF Picks
  <2> QED BY <1>5
<1>7. kept[Len(s)] = Only(s, A) /\ Only(s, A) \in Seq(S)
  BY <1>0, <1>1, <1>9
<1> QED
  BY <1>6, <1>7

\* What that means for the elements.
LEMMA OnlyKeeps ==
    ASSUME NEW S, NEW s \in Seq(S), NEW A
    PROVE  /\ Only(s, A) \in Seq(S)
           /\ Range(Only(s, A)) = Range(s) \cap A
           /\ IsInjective(s) => IsInjective(Only(s, A))
<1> DEFINE o == Only(s, A)
<1>1. o \in Seq(S)
  BY OnlyPicks
<1>2. PICK h \in [1..Len(o) -> 1..Len(s)] :
         /\ \A i \in 1..Len(o) : o[i] = s[h[i]] /\ s[h[i]] \in A
         /\ \A i, j \in 1..Len(o) : i < j => h[i] < h[j]
         /\ \A n \in 1..Len(s) : s[n] \in A => \E i \in 1..Len(o) : h[i] = n
  BY OnlyPicks
<1> HIDE DEF o
<1>3. Range(o) = {o[i] : i \in 1..Len(o)} /\ Range(s) = {s[i] : i \in 1..Len(s)}
  BY <1>1, RangeEquality
<1>4. Range(o) = Range(s) \cap A
  <2>1. ASSUME NEW x \in Range(o) PROVE x \in Range(s) \cap A
    BY <1>2, <1>3
  <2>2. ASSUME NEW x \in Range(s), x \in A PROVE x \in Range(o)
    <3>1. PICK n \in 1..Len(s) : s[n] = x
      BY <1>3
    <3>2. PICK i \in 1..Len(o) : h[i] = n
      BY <1>2, <2>2, <3>1
    <3> QED
      BY <1>2, <1>3, <3>1, <3>2
  <2> QED
    BY <2>1, <2>2
<1>5. ASSUME IsInjective(s), NEW i \in 1..Len(o), NEW j \in 1..Len(o), o[i] = o[j]
      PROVE  i = j
  <2>1. h[i] = h[j]
    BY <1>2, <1>5 DEF IsInjective
  <2>2. h[i] \in Int /\ ~(i < j) /\ ~(j < i)
    BY <1>2, <2>1
  <2> QED
    BY <1>1, <2>2
<1>6. IsInjective(s) => IsInjective(o)
  BY <1>1, <1>5 DEF IsInjective
<1> QED
  BY <1>1, <1>4, <1>6 DEF o

\* An element put at the end of a sequence is in it; one that was not there comes once.
LEMMA RangeGrows ==
    ASSUME NEW S, NEW s \in Seq(S), NEW x \in S
    PROVE  /\ Append(s, x) \in Seq(S) /\ Range(Append(s, x)) = Range(s) \cup {x}
           /\ IsInjective(s) /\ x \notin Range(s) => IsInjective(Append(s, x))
<1> DEFINE t == Append(s, x)
<1>1. /\ t \in Seq(S) /\ Len(t) = Len(s) + 1 /\ Len(s) \in Nat
      /\ \A i \in 1..Len(s) : t[i] = s[i]
      /\ t[Len(s) + 1] = x
  BY AppendProperties
<1> HIDE DEF t
<1>2. Range(s) = {s[i] : i \in 1..Len(s)} /\ Range(t) = {t[i] : i \in 1..(Len(s) + 1)}
  BY <1>1, RangeEquality
<1>3. \A i \in 1..(Len(s) + 1) : i \in 1..Len(s) \/ i = Len(s) + 1
  BY <1>1
<1>4. Len(s) + 1 \in 1..(Len(s) + 1) /\ \A i \in 1..Len(s) : i \in 1..(Len(s) + 1)
  BY <1>1
<1>5. Range(t) = Range(s) \cup {x}
  BY <1>1, <1>2, <1>3, <1>4
<1>6. ASSUME IsInjective(s), x \notin Range(s),
             NEW i \in 1..(Len(s) + 1), NEW j \in 1..(Len(s) + 1), t[i] = t[j]
      PROVE  i = j
  BY <1>1, <1>2, <1>3, <1>6 DEF IsInjective
<1>7. IsInjective(s) /\ x \notin Range(s) => IsInjective(t)
  BY <1>1, <1>6 DEF IsInjective
<1> QED
  BY <1>1, <1>5, <1>7 DEF t

\* A sequence is its head and its tail; the head of one without repetition is not behind.
LEMMA RangeShrinks ==
    ASSUME NEW S, NEW s \in Seq(S), s # <<>>
    PROVE  /\ Head(s) \in S /\ Tail(s) \in Seq(S) /\ Range(s) = Range(Tail(s)) \cup {Head(s)}
           /\ IsInjective(s) => IsInjective(Tail(s)) /\ Head(s) \notin Range(Tail(s))
<1> DEFINE t == Tail(s)
<1>1. /\ t \in Seq(S) /\ Len(t) = Len(s) - 1 /\ Len(s) \in Nat \ {0}
      /\ \A i \in 1..Len(t) : t[i] = s[i + 1]
      /\ Head(s) = s[1] /\ Head(s) \in S
  BY HeadTailProperties
<1> HIDE DEF t
<1>2. Range(s) = {s[i] : i \in 1..Len(s)} /\ Range(t) = {t[i] : i \in 1..Len(t)}
  BY <1>1, RangeEquality
<1>3. \A i \in 1..Len(t) : i + 1 \in 1..Len(s) /\ i + 1 # 1
  BY <1>1
<1>4. \A i \in 1..Len(s) : i = 1 \/ (i - 1 \in 1..Len(t) /\ t[i - 1] = s[i])
  BY <1>1
<1>5. Range(s) = Range(t) \cup {Head(s)}
  <2>1. 1 \in 1..Len(s)
    BY <1>1
  <2> QED
    BY <1>1, <1>2, <1>3, <1>4, <2>1
<1>6. ASSUME IsInjective(s)
      PROVE  IsInjective(t) /\ Head(s) \notin Range(t)
  <2>1. \A i, j \in 1..Len(s) : s[i] = s[j] => i = j
    BY <1>6 DEF IsInjective
  <2>2. ASSUME NEW i \in 1..Len(t), NEW j \in 1..Len(t), t[i] = t[j]
        PROVE  i = j
    <3>1. i + 1 = j + 1
      BY <1>1, <1>3, <2>1, <2>2
    <3> QED
      BY <3>1
  <2>3. ASSUME NEW i \in 1..Len(t), t[i] = s[1]
        PROVE  FALSE
    BY <1>1, <1>3, <2>1, <2>3
  <2> QED
    BY <1>1, <1>2, <2>2, <2>3 DEF IsInjective
<1> QED
  BY <1>1, <1>5, <1>6 DEF t

-----------------------------------------------------------------------------
(* Types and the fence.                                                    *)

\* The fence is a queue of prompts, the pump and the checkpoint, each at most once;
\* its head is in.
FenceOK ==
    /\ IsInjective(fence)
    /\ \A a \in Actions : a \in Range(fence) <=> door[a] \in {"fence", "in"}
    /\ "pump" \in Range(fence) <=> pump.pc = "fence"
    /\ "checkpoint" \in Range(fence) <=> checkpoint \in {"fence", "events"}
    /\ \A a \in Actions : door[a] = "in" => Head(fence) = a
    /\ checkpoint = "events" => Head(fence) = "checkpoint"

\* The batch is the beginning of one of the two queues.
LEMMA BatchIsFirst ==
    ASSUME TypeOK
    PROVE  \E p \in Policies :
              /\ QueuedIn(p) \in Seq(Actions) /\ Batch \in Seq(Actions)
              /\ Len(Batch) <= Len(QueuedIn(p))
              /\ \A i \in 1..Len(Batch) : Batch[i] = QueuedIn(p)[i]
<1> DEFINE queue == IF QueuedIn("steer") # <<>> THEN QueuedIn("steer") ELSE QueuedIn("followUp")
           alike == {n \in DOMAIN queue :
                        \A m \in 1..n : act[queue[m]].visible = act[Head(queue)].visible}
<1>1. PICK p \in Policies : queue = QueuedIn(p)
  BY DEF Policies
<1>2. queue \in Seq(Actions)
  BY <1>1, OnlyKeeps DEF QueuedIn, TypeOK
<1>3. Batch = IF queue = <<>> THEN <<>>
              ELSE IF Batching[Delivery[Head(queue)]] = "one" THEN <<Head(queue)>>
              ELSE SubSeq(queue, 1, Cardinality(alike))
  BY DEF Batch
<1> HIDE DEF queue
<1>4. CASE queue = <<>>
  <2>1. /\ Batch \in Seq(Actions) /\ Len(Batch) <= Len(queue)
        /\ \A i \in 1..Len(Batch) : Batch[i] = queue[i]
    BY <1>3, <1>4
  <2> QED
    BY <1>1, <1>2, <2>1
<1>5. CASE queue # <<>> /\ Batch = <<Head(queue)>>
  <2>1. /\ Head(queue) \in Actions /\ Len(queue) \in Nat \ {0} /\ Head(queue) = queue[1]
    BY <1>2, <1>5, HeadTailProperties
  <2>2. Batch \in Seq(Actions) /\ Len(Batch) = 1 /\ Batch[1] = queue[1]
    BY <1>5, <2>1
  <2> QED
    BY <1>1, <1>2, <2>1, <2>2
<1>6. CASE queue # <<>> /\ Batch = SubSeq(queue, 1, Cardinality(alike))
  <2>1. Len(queue) \in Nat /\ DOMAIN queue = 1..Len(queue) /\ alike \subseteq 1..Len(queue)
    BY <1>2
  <2>2. IsFiniteSet(1..Len(queue)) /\ Cardinality(1..Len(queue)) = Len(queue)
    BY <2>1, FS_Interval
  <2>3. Cardinality(alike) \in 0..Len(queue)
    <3> HIDE DEF alike
    <3>1. IsFiniteSet(alike) /\ Cardinality(alike) <= Cardinality(1..Len(queue))
      BY <2>1, <2>2, FS_Subset
    <3>2. Cardinality(alike) \in Nat
      BY <3>1, FS_CardinalityType
    <3> QED
      BY <2>1, <2>2, <3>1, <3>2
  <2> DEFINE c == Cardinality(alike)
  <2> HIDE DEF c
  <2>4. /\ c \in Nat /\ c - 1 + 1 = c /\ c <= Len(queue)
        /\ \A i \in 1..c : i \in 1..Len(queue) /\ queue[i] \in Actions /\ 1 + i - 1 = i
    <3>1. c \in 0..Len(queue)
      BY <2>3 DEF c
    <3>2. \A i \in 1..Len(queue) : queue[i] \in Actions
      BY <1>2, ElementOfSeq
    <3> QED
      BY <2>1, <3>1, <3>2
  <2>5. /\ SubSeq(queue, 1, c) \in Seq(Actions) /\ Len(SubSeq(queue, 1, c)) = c
        /\ \A i \in 1..c : SubSeq(queue, 1, c)[i] = queue[i]
    <3>1. /\ SubSeq(queue, 1, c) \in Seq(Actions)
          /\ Len(SubSeq(queue, 1, c)) = IF 1 <= c THEN c - 1 + 1 ELSE 0
          /\ \A i \in 1..(c - 1 + 1) : SubSeq(queue, 1, c)[i] = queue[1 + i - 1]
      BY <2>4, SubSeqProperties
    <3> QED
      BY <2>4, <3>1
  <2>6. Batch \in Seq(Actions) /\ Len(Batch) = c /\ \A i \in 1..c : Batch[i] = queue[i]
    BY <1>6, <2>5 DEF c
  <2> QED
    BY <1>1, <1>2, <2>4, <2>6
<1> QED
  BY <1>3, <1>4, <1>5, <1>6

\* The pump picks the prompts of the batch among those that are queued.
LEMMA BatchIsQueued ==
    ASSUME TypeOK
    PROVE  /\ Batch \in Seq(Actions) /\ Range(Batch) \subseteq Having(act, {"queued"})
           /\ IsInjective(admitted) => IsInjective(Batch)
<1>1. PICK p \in Policies :
         /\ QueuedIn(p) \in Seq(Actions) /\ Batch \in Seq(Actions)
         /\ Len(Batch) <= Len(QueuedIn(p))
         /\ \A i \in 1..Len(Batch) : Batch[i] = QueuedIn(p)[i]
  BY BatchIsFirst
<1> DEFINE q == QueuedIn(p)
<1>2. Range(q) \subseteq Having(act, {"queued"}) /\ (IsInjective(admitted) => IsInjective(q))
  BY OnlyKeeps DEF QueuedIn, TypeOK
<1>3. /\ DOMAIN Batch = 1..Len(Batch) /\ DOMAIN q = 1..Len(q)
      /\ \A i \in 1..Len(Batch) : i \in 1..Len(q) /\ Batch[i] = q[i]
  BY <1>1
<1> HIDE DEF q
<1>4. Range(Batch) \subseteq Range(q)
  BY <1>3 DEF Range
<1>5. IsInjective(q) => IsInjective(Batch)
  BY <1>3 DEF IsInjective
<1> QED
  BY <1>1, <1>2, <1>4, <1>5

\* The turns that are still active are of the batch, and are being prepared.
LEMMA TurnsAreOfTheBatch ==
    ASSUME TypeOK
    PROVE  /\ ActiveTurns \in Seq(Actions)
           /\ Range(ActiveTurns) = Range(pump.batch) \cap Having(act, {"preparing"})
           /\ IsInjective(pump.batch) => IsInjective(ActiveTurns)
  BY OnlyKeeps DEF ActiveTurns, TypeOK, PumpRecord

\* Records with one field changed.
LEMMA Updates ==
    /\ NoPump \in PumpRecord /\ NoRun \in RunRecord
    /\ \A p \in PumpRecord :
          /\ \A pc \in {"off", "idle", "events", "select", "validate", "extend", "extended",
                        "fence", "run", "retry", "retried", "settle", "settled"} :
                /\ [p EXCEPT !.pc = pc] \in PumpRecord
                /\ [p EXCEPT !.pc = pc].pc = pc
                /\ [p EXCEPT !.pc = pc].batch = p.batch /\ [p EXCEPT !.pc = pc].turns = p.turns
          /\ [NoPump EXCEPT !.pc = "idle", !.epoch = p.epoch] \in PumpRecord
<1>1. None \notin Actions /\ <<>> \in Seq(Actions)
  BY SessionAssumption
<1>2. NoPump \in PumpRecord /\ NoRun \in RunRecord
  BY <1>1 DEF NoPump, NoRun, PumpRecord, RunRecord
<1>3. ASSUME NEW p \in PumpRecord
      PROVE  [NoPump EXCEPT !.pc = "idle", !.epoch = p.epoch] \in PumpRecord
  BY <1>2, <1>3 DEF PumpRecord
<1>4. ASSUME NEW p \in PumpRecord,
             NEW pc \in {"off", "idle", "events", "select", "validate", "extend", "extended",
                         "fence", "run", "retry", "retried", "settle", "settled"}
      PROVE  /\ [p EXCEPT !.pc = pc] \in PumpRecord
             /\ [p EXCEPT !.pc = pc].pc = pc
             /\ [p EXCEPT !.pc = pc].batch = p.batch /\ [p EXCEPT !.pc = pc].turns = p.turns
  BY <1>4 DEF PumpRecord
<1> QED
  BY <1>2, <1>3, <1>4

\* _scheduleSessionInputPump touches neither the pause nor the suspension nor the epoch.
LEMMA ScheduledKeeps ==
    ASSUME NEW s \in SchedRecord, NEW ac
    PROVE  /\ Scheduled(s, ac) \in SchedRecord
           /\ Scheduled(s, ac).paused = s.paused /\ Scheduled(s, ac).epoch = s.epoch
           /\ Scheduled(s, ac).suspended = s.suspended
<1>1. Append(s.chain, s.epoch) \in Seq(Nat)
  BY DEF SchedRecord
<1> QED
  BY <1>1 DEF Scheduled, SchedRecord

\* A set of actions that changes its lifecycle keeps the shape of the store.
LEMMA BecomesType ==
    ASSUME act \in [Actions -> ActionRecord], NEW A,
           NEW st \in {"queued", "preparing", "committing", "failed", "completed"}
    PROVE  Becomes(A, st) \in [Actions -> ActionRecord]
  BY DEF Becomes, ActionRecord, Clearable, Active, Terminal

\* The head of the pump's loop has no batch, whether it goes on or ends.
LEMMA LoopedType ==
    ASSUME pump \in PumpRecord, NEW ac
    PROVE  Looped(ac) \in PumpRecord /\ Looped(ac).pc \in {"off", "idle"} /\ Looped(ac).batch = <<>>
  BY Updates DEF Looped, NoPump

\* An event tells of a message once, and while a backoff sleeps its agent_end is the head.
EventsOK ==
    /\ \A m, n \in DOMAIN events :
          events[m].type = "message" /\ events[m].action = events[n].action => m = n
    /\ retry.sleeping => events # <<>> /\ Head(events).type = "agent_end"

\* _resolveRetry keeps the shape of the retry and of the pump that waits for it.
LEMMA ResolvedType ==
    ASSUME TypeOK, NEW n \in 0..MaxRetries, NEW b \in BOOLEAN, ResolveRetry(n, b)
    PROVE  retry' \in RetryRecord /\ pump' \in PumpRecord
<1>1. retry' \in RetryRecord
  BY DEF TypeOK, ResolveRetry, RetryRecord
<1>2. pump' \in PumpRecord
  BY Updates DEF TypeOK, ResolveRetry
<1> QED
  BY <1>1, <1>2

\* _cancelSessionActions keeps the shape of the store and of the tickets.
LEMMA CancelledType ==
    ASSUME TypeOK, NEW A, Cancel(A)
    PROVE  /\ act' \in [Actions -> ActionRecord] /\ ticket' \in [Actions -> TicketRecord]
           /\ admitted' = admitted
<1>1. act' \in [Actions -> ActionRecord]
  BY ZenonT(60) DEF TypeOK, Cancel, ActionRecord, Terminal
<1>2. ticket' \in [Actions -> TicketRecord]
  BY DEF TypeOK, Cancel, TicketRecord
<1> QED
  BY <1>1, <1>2 DEF Cancel

\* The lifecycles of a prompt.
Statuses == {"new"} \cup Clearable \cup Active \cup Terminal

\* An action with one or two fields changed.
LEMMA Fields ==
    ASSUME NEW r \in ActionRecord, NEW s \in Statuses, NEW v \in BOOLEAN,
           NEW p \in Actions \cup {None}, NEW c \in {"no", "on", "lost"}
    PROVE  /\ [r EXCEPT !.st = s] \in ActionRecord
           /\ [r EXCEPT !.st = s, !.visible = v] \in ActionRecord
           /\ [r EXCEPT !.st = s, !.capture = c] \in ActionRecord
           /\ [r EXCEPT !.durable = TRUE, !.st = s] \in ActionRecord
           /\ [r EXCEPT !.prep = p] \in ActionRecord
           /\ [r EXCEPT !.capture = c] \in ActionRecord
<1> DEFINE S == {"new"} \cup Clearable \cup Active \cup Terminal
<1>1. s \in S
  BY DEF Statuses
<1>2. ActionRecord = [st : S, visible : BOOLEAN, prep : Actions \cup {None}, durable : BOOLEAN,
                      capture : {"no", "on", "lost"}]
  BY DEF ActionRecord
<1> HIDE DEF S
<1> QED
  BY <1>1, <1>2

\* The scheduler's flags, one of them changed.
LEMMA SchedFields ==
    ASSUME NEW s \in SchedRecord, NEW b \in BOOLEAN
    PROVE  /\ [s EXCEPT !.requested = b] \in SchedRecord
           /\ [s EXCEPT !.suspended = b] \in SchedRecord
           /\ [s EXCEPT !.paused = b] \in SchedRecord
           /\ [s EXCEPT !.epoch = @ + 1] \in SchedRecord
  BY DEF SchedRecord

\* What an action is left with when its lifecycle moves and nothing else.
Moved(a, s) ==
    /\ act'[a].st = s /\ act'[a].durable = act[a].durable /\ act'[a].capture = act[a].capture
    /\ ticket'[a] = ticket[a]

\* What the actions do to the actions of the store, one by one.
LEMMA AdmitActs ==
    ASSUME TypeOK, NEW a \in Actions, NEW q \in BOOLEAN, Admit(a, q)
    PROVE  /\ act' \in [Actions -> ActionRecord]
           /\ \E s \in {"selected", "queued"} : Moved(a, s)
           /\ act'[a].st = "selected" => CanSelect
           /\ \A b \in Actions \ {a} : Moved(b, act[b].st)
<1> DEFINE visible == Streaming \/ (q /\ BusyPreflight)
           starts == ~visible /\ CanSelect /\ Unfinished = {}
           s == IF starts THEN "selected" ELSE "queued"
           v == visible
<1>1. s \in {"selected", "queued"} /\ s \in Statuses /\ (s = "selected" => CanSelect)
  BY DEF Statuses, Clearable
<1>2. v \in BOOLEAN
  BY DEF Streaming
<1>3. act' = [act EXCEPT ![a].st = s, ![a].visible = v] /\ ticket' = ticket
  BY DEF Admit
<1> HIDE DEF s, v
<1>4. act[a] \in ActionRecord
  BY DEF TypeOK
<1>5. /\ act'[a] = [act[a] EXCEPT !.st = s, !.visible = v]
      /\ act' = [act EXCEPT ![a] = act'[a]]
      /\ \A b \in Actions \ {a} : act'[b] = act[b]
  BY <1>3 DEF TypeOK
<1>6. act'[a] \in ActionRecord
  <2>1. [act[a] EXCEPT !.st = s, !.visible = v] \in ActionRecord
    BY <1>1, <1>2, <1>4, Fields
  <2> QED
    BY <1>5, <2>1
<1>7. act' \in [Actions -> ActionRecord]
  BY <1>5, <1>6 DEF TypeOK
<1>8. Moved(a, s)
  <2>1. /\ act'[a].st = s /\ act'[a].durable = act[a].durable /\ act'[a].capture = act[a].capture
    BY <1>4, <1>5 DEF ActionRecord
  <2> QED
    BY <1>3, <2>1 DEF Moved
<1> QED
  BY <1>1, <1>3, <1>5, <1>7, <1>8 DEF Moved

\* What a set of actions that changes its lifecycle is afterwards, action by action.
LEMMA BecomesMoves ==
    ASSUME TypeOK, NEW A, NEW s \in Statuses, act' = Becomes(A, s)
    PROVE  /\ act' \in [Actions -> ActionRecord]
           /\ \A b \in Actions : IF b \in A THEN act'[b] = [act[b] EXCEPT !.st = s]
                                 ELSE act'[b] = act[b]
<1>1. \A b \in Actions : act[b] \in ActionRecord /\ [act[b] EXCEPT !.st = s] \in ActionRecord
  <2> TAKE b \in Actions
  <2>1. act[b] \in ActionRecord
    BY DEF TypeOK
  <2> QED
    BY <2>1, Fields
<1>2. act' = [b \in Actions |-> IF b \in A THEN [act[b] EXCEPT !.st = s] ELSE act[b]]
  BY DEF Becomes
<1> QED
  BY <1>1, <1>2

\* The lifecycle is set, and the rest stays.
LEMMA SetsStatus ==
    ASSUME TypeOK, NEW a \in Actions, NEW s, act'[a] = [act[a] EXCEPT !.st = s],
           ticket'[a] = ticket[a]
    PROVE  Moved(a, s)
<1>1. act[a] \in ActionRecord
  BY DEF TypeOK
<1> QED
  BY <1>1 DEF Moved, ActionRecord

\* A stale pump that finds the agent idle gives back what was selected, and nothing else.
LEMMA IdleActs ==
    ASSUME TypeOK, PumpFindsAgentIdle
    PROVE  /\ act' \in [Actions -> ActionRecord]
           /\ \A b \in Actions : \/ Moved(b, act[b].st)
                                 \/ act[b].st = "selected" /\ Moved(b, "queued")
<1>1. ASSUME NEW b \in Actions
      PROVE  /\ act[b] \in ActionRecord /\ [act[b] EXCEPT !.st = "queued"] \in ActionRecord
             /\ [act[b] EXCEPT !.st = "queued"].st = "queued"
             /\ [act[b] EXCEPT !.st = "queued"].durable = act[b].durable
             /\ [act[b] EXCEPT !.st = "queued"].capture = act[b].capture
  <2>1. act[b] \in ActionRecord /\ "queued" \in Statuses
    BY DEF TypeOK, Statuses, Clearable
  <2>2. [act[b] EXCEPT !.st = "queued"] \in ActionRecord
    BY <2>1, Fields
  <2> QED
    BY <2>1, <2>2 DEF ActionRecord
<1>2. act' = [b \in Actions |-> IF Stale /\ act[b].st = "selected"
                               THEN [act[b] EXCEPT !.st = "queued"] ELSE act[b]]
      /\ ticket' = ticket
  BY DEF PumpFindsAgentIdle
<1> QED
  BY <1>1, <1>2 DEF Moved

\* The pump prepares only what was queued or selected at its admission.
LEMMA SelectsActs ==
    ASSUME TypeOK, PumpSelects
    PROVE  /\ act' \in [Actions -> ActionRecord]
           /\ \A b \in Actions : \/ Moved(b, act[b].st)
                                 \/ act[b].st \in {"queued", "selected"} /\ Moved(b, "preparing")
<1> DEFINE batch == IF pump.pre = None THEN Batch ELSE <<pump.pre>>
<1>1. act' = Becomes(Range(batch), "preparing") /\ ticket' = ticket
      /\ (pump.pre # None => act[pump.pre].st = "selected")
  BY DEF PumpSelects
<1>2. \A b \in Range(batch) : b \in Actions => act[b].st \in {"queued", "selected"}
  <2>1. CASE pump.pre = None
    BY <2>1, BatchIsQueued DEF Having
  <2>2. CASE pump.pre # None
    BY <1>1, <2>2 DEF Range
  <2> QED
    BY <2>1, <2>2
<1> HIDE DEF batch
<1>3. "preparing" \in Statuses
  BY DEF Statuses, Clearable
<1>4. /\ act' \in [Actions -> ActionRecord]
      /\ \A b \in Actions : IF b \in Range(batch) THEN act'[b] = [act[b] EXCEPT !.st = "preparing"]
                            ELSE act'[b] = act[b]
  BY <1>1, <1>3, BecomesMoves
<1>5. \A b \in Actions : b \notin Range(batch) => Moved(b, act[b].st)
  BY <1>1, <1>4 DEF Moved
<1>6. \A b \in Actions : b \in Range(batch) => Moved(b, "preparing")
  BY <1>1, <1>4, SetsStatus
<1> QED
  BY <1>2, <1>4, <1>5, <1>6

\* A batch that is given back or fails.
LEMMA GivesBackActs ==
    ASSUME TypeOK, Defers \/ Fails
    PROVE  /\ act' \in [Actions -> ActionRecord] /\ ticket' \in [Actions -> TicketRecord]
           /\ admitted' = admitted /\ unwoken' \in BOOLEAN
           /\ pump' \in PumpRecord /\ pump'.pc \in {"off", "idle"} /\ pump'.batch = <<>>
           /\ \A b \in Actions :
                 \/ Moved(b, act[b].st)
                 \/ act[b].st = "preparing" /\ Moved(b, "queued")
                 \/ /\ act[b].st = "preparing" /\ act'[b].st = "failed"
                    /\ act'[b].durable = act[b].durable /\ act'[b].capture = act[b].capture
                    /\ ticket'[b] = [delivered |-> "rejected", completed |-> "error"]
<1>0. "queued" \in Statuses /\ "failed" \in Statuses
  BY DEF Statuses, Clearable, Terminal
<1>1. NoPump \in PumpRecord /\ NoPump.pc = "off" /\ NoPump.batch = <<>> /\ pump \in PumpRecord
  BY Updates DEF NoPump, TypeOK
<1>2. \A b \in Range(ActiveTurns) : b \in Actions /\ act[b].st = "preparing"
  BY TurnsAreOfTheBatch DEF Having
<1> DEFINE T == Range(ActiveTurns)
<1>3. CASE Defers
  <2>1. /\ act' = Becomes(T, "queued") /\ ticket' = ticket /\ admitted' = admitted
        /\ pump' \in {NoPump, Looped(act')} /\ unwoken' = Forgotten
    BY <1>3 DEF Defers
  <2>2. unwoken' \in BOOLEAN
    BY <2>1 DEF Forgotten, TypeOK
  <2>3. pump' \in PumpRecord /\ pump'.pc \in {"off", "idle"} /\ pump'.batch = <<>>
    BY <1>1, <2>1, LoopedType
  <2> HIDE DEF T
  <2>4. /\ act' \in [Actions -> ActionRecord]
        /\ \A b \in Actions : IF b \in T THEN act'[b] = [act[b] EXCEPT !.st = "queued"]
                              ELSE act'[b] = act[b]
    BY <1>0, <2>1, BecomesMoves
  <2>5. \A b \in Actions : b \notin T => Moved(b, act[b].st)
    BY <2>1, <2>4 DEF Moved
  <2>6. \A b \in Actions : b \in T => Moved(b, "queued") /\ act[b].st = "preparing"
    BY <1>2, <2>1, <2>4, SetsStatus DEF T
  <2>7. ticket' \in [Actions -> TicketRecord]
    BY <2>1 DEF TypeOK
  <2> QED
    BY <2>1, <2>2, <2>3, <2>4, <2>5, <2>6, <2>7
<1>4. CASE Fails
  <2>1. /\ act' = Becomes(T, "failed") /\ admitted' = admitted
        /\ ticket' = [a \in Actions |-> IF a \in T
                                        THEN [delivered |-> "rejected", completed |-> "error"]
                                        ELSE ticket[a]]
        /\ pump' = Looped(act') /\ unwoken' = unwoken
    BY <1>4 DEF Fails
  <2>2. unwoken' \in BOOLEAN
    BY <2>1 DEF TypeOK
  <2>3. pump' \in PumpRecord /\ pump'.pc \in {"off", "idle"} /\ pump'.batch = <<>>
    BY <1>1, <2>1, LoopedType
  <2> HIDE DEF T
  <2>4. /\ act' \in [Actions -> ActionRecord]
        /\ \A b \in Actions : IF b \in T THEN act'[b] = [act[b] EXCEPT !.st = "failed"]
                              ELSE act'[b] = act[b]
    BY <1>0, <2>1, BecomesMoves
  <2>5. \A b \in Actions : b \notin T => Moved(b, act[b].st)
    BY <2>1, <2>4 DEF Moved
  <2>6. ASSUME NEW b \in Actions, b \in T
        PROVE  /\ act[b].st = "preparing" /\ act'[b].st = "failed"
               /\ act'[b].durable = act[b].durable /\ act'[b].capture = act[b].capture
               /\ ticket'[b] = [delivered |-> "rejected", completed |-> "error"]
    <3>1. act[b] \in ActionRecord
      BY DEF TypeOK
    <3> QED
      BY <1>2, <2>1, <2>4, <2>6, <3>1 DEF T, ActionRecord
  <2>7. ticket' \in [Actions -> TicketRecord]
    BY <2>1 DEF TypeOK, TicketRecord
  <2> QED
    BY <2>1, <2>2, <2>3, <2>4, <2>5, <2>6, <2>7
<1> QED
  BY <1>3, <1>4

\* The answer of before_agent_start moves no prompt in its lifecycle.
LEMMA PreparedActs ==
    ASSUME TypeOK, PumpIsPrepared
    PROVE  act' \in [Actions -> ActionRecord] /\ \A b \in Actions : Moved(b, act[b].st)
<1> DEFINE p == pump.anchor
           T == IF ActiveTurns # <<>> /\ Last(ActiveTurns) = pump.anchor
                THEN Range(ActiveTurns) ELSE {}
<1>1. p \in Actions \cup {None} /\ ticket' = ticket
  BY DEF TypeOK, PumpRecord, PumpIsPrepared
<1>2. act' = [a \in Actions |-> IF a \in T THEN [act[a] EXCEPT !.prep = p] ELSE act[a]]
  BY DEF PumpIsPrepared, TypeOK
<1> HIDE DEF p, T
<1>3. ASSUME NEW b \in Actions
      PROVE  /\ act[b] \in ActionRecord /\ [act[b] EXCEPT !.prep = p] \in ActionRecord
             /\ [act[b] EXCEPT !.prep = p].st = act[b].st
             /\ [act[b] EXCEPT !.prep = p].durable = act[b].durable
             /\ [act[b] EXCEPT !.prep = p].capture = act[b].capture
  <2>1. act[b] \in ActionRecord
    BY DEF TypeOK
  <2>2. [act[b] EXCEPT !.prep = p] \in ActionRecord
    BY <1>1, <2>1, Fields DEF Statuses
  <2> QED
    BY <2>1, <2>2 DEF ActionRecord
<1> QED
  BY <1>1, <1>2, <1>3 DEF Moved

\* A batch that is dispatched, and not given back.
Dispatches == PumpDispatches /\ ~(Deferred \/ Streaming \/ ActiveTurns # pump.turns)

\* A dispatch hands exactly the batch's active turns to an idle agent.
LEMMA DispatchActs ==
    ASSUME TypeOK, Dispatches
    PROVE  /\ act' \in [Actions -> ActionRecord] /\ ticket' = ticket
           /\ pump' \in PumpRecord /\ run' \in RunRecord /\ run'.todo = pump.turns
           /\ run'.st = "running" /\ ~Streaming /\ CanSelect
           /\ pump.turns = ActiveTurns
           /\ \A b \in Actions : IF b \in Range(pump.turns)
                                 THEN act[b].st = "preparing" /\ Moved(b, "committing")
                                 ELSE Moved(b, act[b].st)
<1>1. /\ act' = Becomes(Range(pump.turns), "committing") /\ ticket' = ticket
      /\ run' = [NoRun EXCEPT !.st = "running", !.todo = pump.turns]
      /\ pump' = [pump EXCEPT !.pc = "run"]
      /\ pump.turns = ActiveTurns /\ ~Streaming /\ CanSelect
  BY DEF Dispatches, PumpDispatches, CanSelect, Deferred
<1>2. pump.turns \in Seq(Actions) /\ pump \in PumpRecord /\ "committing" \in Statuses
  BY DEF TypeOK, PumpRecord, Statuses, Active
<1>3. pump' \in PumpRecord
  BY <1>1, <1>2, Updates
<1>4. run' \in RunRecord /\ run'.todo = pump.turns /\ run'.st = "running"
  <2> DEFINE t == pump.turns
  <2>1. run' = [st |-> "running", todo |-> t, aborted |-> FALSE]
    BY <1>1 DEF NoRun
  <2>2. t \in Seq(Actions)
    BY <1>2
  <2> HIDE DEF t
  <2>3. run' \in RunRecord /\ run'.todo = t /\ run'.st = "running"
    BY <2>1, <2>2 DEF RunRecord
  <2> QED
    BY <2>3 DEF t
<1>5. /\ act' \in [Actions -> ActionRecord]
      /\ \A b \in Actions : IF b \in Range(pump.turns)
                            THEN act'[b] = [act[b] EXCEPT !.st = "committing"]
                            ELSE act'[b] = act[b]
  BY <1>1, <1>2, BecomesMoves
<1>6. \A b \in Actions : b \notin Range(pump.turns) => Moved(b, act[b].st)
  BY <1>1, <1>5 DEF Moved
<1>7. \A b \in Actions :
         b \in Range(pump.turns) => act[b].st = "preparing" /\ Moved(b, "committing")
  BY <1>1, <1>5, TurnsAreOfTheBatch, SetsStatus DEF Having
<1> QED
  BY <1>1, <1>3, <1>4, <1>5, <1>6, <1>7

\* message_end of a prompt: it is durable, runs, and its ticket is delivered if still open.
LEMMA TakeInActs ==
    ASSUME TypeOK, TakeIn
    PROVE  /\ act' \in [Actions -> ActionRecord] /\ ticket' \in [Actions -> TicketRecord]
           /\ LET a == Head(run.todo)
              IN  /\ a \in Actions
                  /\ act'[a].durable /\ act'[a].capture = act[a].capture
                  /\ act'[a].st = IF act[a].st = "committing" THEN "running" ELSE act[a].st
                  /\ ticket'[a].completed = ticket[a].completed
                  /\ ticket'[a].delivered = IF ticket[a].delivered = "open" THEN "delivered"
                                            ELSE ticket[a].delivered
                  /\ \A b \in Actions \ {a} : Moved(b, act[b].st)
<1> DEFINE a == Head(run.todo)
           s == IF act[a].st = "committing" THEN "running" ELSE act[a].st
           d == IF ticket[a].delivered = "open" THEN "delivered" ELSE ticket[a].delivered
<1>1. a \in Actions
  BY RangeShrinks DEF TypeOK, TakeIn, RunRecord
<1>2. /\ act' = [act EXCEPT ![a].durable = TRUE, ![a].st = s]
      /\ ticket' = [ticket EXCEPT ![a].delivered = d]
  BY DEF TakeIn
<1>3. act[a] \in ActionRecord /\ ticket[a] \in TicketRecord
  BY <1>1 DEF TypeOK
<1>4. s \in Statuses
  BY <1>3 DEF Statuses, Active, ActionRecord
<1>5. d \in {"open", "delivered", "not_applicable", "rejected"}
  BY <1>3 DEF TicketRecord
<1> HIDE DEF a, s, d
<1>6. /\ act'[a] = [act[a] EXCEPT !.durable = TRUE, !.st = s]
      /\ act' = [act EXCEPT ![a] = act'[a]]
      /\ \A b \in Actions \ {a} : act'[b] = act[b]
      /\ ticket'[a] = [ticket[a] EXCEPT !.delivered = d]
      /\ ticket' = [ticket EXCEPT ![a] = ticket'[a]]
      /\ \A b \in Actions \ {a} : ticket'[b] = ticket[b]
  BY <1>1, <1>2 DEF TypeOK
<1>7. act'[a] \in ActionRecord
  <2>1. [act[a] EXCEPT !.durable = TRUE, !.st = s] \in ActionRecord
    BY <1>3, <1>4, Fields
  <2> QED
    BY <1>6, <2>1
<1>8. ticket'[a] \in TicketRecord
  BY <1>3, <1>5, <1>6 DEF TicketRecord
<1>9. act' \in [Actions -> ActionRecord] /\ ticket' \in [Actions -> TicketRecord]
  BY <1>6, <1>7, <1>8 DEF TypeOK
<1>10. act'[a].durable /\ act'[a].capture = act[a].capture /\ act'[a].st = s
  BY <1>3, <1>6 DEF ActionRecord
<1>11. ticket'[a].completed = ticket[a].completed /\ ticket'[a].delivered = d
  BY <1>3, <1>6 DEF TicketRecord
<1>12. \A b \in Actions \ {a} : Moved(b, act[b].st)
  BY <1>6 DEF Moved
<1> QED
  BY <1>1, <1>9, <1>10, <1>11, <1>12 DEF a, s, d

\* agent_end releases every capture: it is over, or lost if the prompt is still under way.
LEMMA ReleasesActs ==
    ASSUME TypeOK, ReleasesCaptured
    PROVE  /\ act' \in [Actions -> ActionRecord] /\ ticket' = ticket
           /\ \A b \in Actions :
                 IF b \in Captured
                 THEN /\ act'[b].st = act[b].st /\ act'[b].durable = act[b].durable
                      /\ act'[b].capture =
                            IF b \in Range(run.todo) \cup Pending THEN "lost" ELSE "no"
                 ELSE Moved(b, act[b].st)
<1> DEFINE c(b) == IF b \in Range(run.todo) \cup Pending THEN "lost" ELSE "no"
<1>1. /\ act' = [b \in Actions |-> IF b \notin Captured THEN act[b]
                                  ELSE [act[b] EXCEPT !.capture = c(b)]]
      /\ ticket' = ticket
  BY DEF ReleasesCaptured
<1>2. \A b \in Actions : c(b) \in {"no", "on", "lost"}
  OBVIOUS
<1>5. \A b \in Actions : c(b) = IF b \in Range(run.todo) \cup Pending THEN "lost" ELSE "no"
  OBVIOUS
<1> HIDE DEF c
<1>3. ASSUME NEW b \in Actions
      PROVE  /\ act[b] \in ActionRecord /\ [act[b] EXCEPT !.capture = c(b)] \in ActionRecord
             /\ [act[b] EXCEPT !.capture = c(b)].st = act[b].st
             /\ [act[b] EXCEPT !.capture = c(b)].durable = act[b].durable
             /\ [act[b] EXCEPT !.capture = c(b)].capture = c(b)
  <2>1. act[b] \in ActionRecord
    BY DEF TypeOK
  <2>2. [act[b] EXCEPT !.capture = c(b)] \in ActionRecord
    BY <1>2, <2>1, Fields DEF Statuses
  <2> QED
    BY <2>1, <2>2 DEF ActionRecord
<1>4. act' \in [Actions -> ActionRecord]
  BY <1>1, <1>3
<1> QED
  BY <1>1, <1>3, <1>4, <1>5 DEF Moved

\* Only prompts that run are completed, with their promise.
LEMMA CompletesActs ==
    ASSUME TypeOK, PumpCompletes
    PROVE  /\ act' \in [Actions -> ActionRecord] /\ ticket' \in [Actions -> TicketRecord]
           /\ \A b \in Actions :
                 \/ Moved(b, act[b].st)
                 \/ /\ act[b].st = "running" /\ act'[b].st = "completed"
                    /\ act'[b].durable = act[b].durable /\ act'[b].capture = act[b].capture
                    /\ ticket'[b].delivered = ticket[b].delivered /\ ticket'[b].completed = "ok"
<1> DEFINE done == {a \in Range(pump.turns) : act[a].st = "running"}
<1>1. /\ act' = Becomes(done, "completed")
      /\ ticket' = [a \in Actions |-> IF a \in done THEN [ticket[a] EXCEPT !.completed = "ok"]
                                      ELSE ticket[a]]
  BY DEF PumpCompletes
<1>2. \A b \in done : act[b].st = "running"
  OBVIOUS
<1> HIDE DEF done
<1>3. "completed" \in Statuses
  BY DEF Statuses, Terminal
<1>4. /\ act' \in [Actions -> ActionRecord]
      /\ \A b \in Actions : IF b \in done THEN act'[b] = [act[b] EXCEPT !.st = "completed"]
                            ELSE act'[b] = act[b]
  BY <1>1, <1>3, BecomesMoves
<1>5. ticket' \in [Actions -> TicketRecord]
  BY <1>1 DEF TypeOK, TicketRecord
<1>6. \A b \in Actions : b \notin done => Moved(b, act[b].st)
  BY <1>1, <1>4 DEF Moved
<1>7. ASSUME NEW b \in Actions, b \in done
      PROVE  /\ act[b].st = "running" /\ act'[b].st = "completed"
             /\ act'[b].durable = act[b].durable /\ act'[b].capture = act[b].capture
             /\ ticket'[b].delivered = ticket[b].delivered /\ ticket'[b].completed = "ok"
  <2>1. act[b] \in ActionRecord /\ ticket[b] \in TicketRecord
    BY DEF TypeOK
  <2>2. ticket'[b].delivered = ticket[b].delivered /\ ticket'[b].completed = "ok"
    BY <1>1, <1>7, <2>1 DEF TicketRecord
  <2> QED
    BY <1>2, <1>4, <1>7, <2>1, <2>2 DEF ActionRecord
<1> QED
  BY <1>4, <1>5, <1>6, <1>7

\* A cancelled prompt has both promises rejected, and is captured if it was dispatched.
LEMMA CancelActs ==
    ASSUME TypeOK, NEW A \in SUBSET Actions, Cancel(A)
    PROVE  /\ act' \in [Actions -> ActionRecord] /\ ticket' \in [Actions -> TicketRecord]
           /\ admitted' = admitted
           /\ \A b \in Actions :
                 IF b \in A
                 THEN /\ act'[b].st = "cancelled" /\ act'[b].durable = act[b].durable
                      /\ act'[b].capture = IF act[b].st = "committing" THEN "on" ELSE "no"
                      /\ ticket'[b].delivered \in {"not_applicable", "rejected"}
                      /\ ticket'[b].completed = "error"
                 ELSE Moved(b, act[b].st)
<1> DEFINE c(b) == IF act[b].st = "committing" THEN "on" ELSE "no"
           P == {b \in Actions : act[b].st = "preparing" /\ Last(Preparing) \in A}
           d(b) == IF act[b].visible /\ act[b].st = "queued" THEN "not_applicable" ELSE "rejected"
<1>1. /\ act' = [b \in Actions |->
                     IF b \in A THEN [act[b] EXCEPT !.st = "cancelled", !.capture = c(b)]
                                  ELSE IF b \in P THEN [act[b] EXCEPT !.prep = None] ELSE act[b]]
      /\ ticket' = [b \in Actions |-> IF b \in A THEN [delivered |-> d(b), completed |-> "error"]
                                     ELSE ticket[b]]
      /\ admitted' = admitted
  BY DEF Cancel
<1>2. \A b \in Actions : c(b) \in {"no", "on", "lost"} /\ d(b) \in {"not_applicable", "rejected"}
  OBVIOUS
<1>3. \A b \in Actions : c(b) = IF act[b].st = "committing" THEN "on" ELSE "no"
  OBVIOUS
<1> HIDE DEF c, d, P
<1>4. ASSUME NEW b \in Actions
      PROVE  /\ act[b] \in ActionRecord
             /\ [act[b] EXCEPT !.st = "cancelled", !.capture = c(b)] \in ActionRecord
             /\ [act[b] EXCEPT !.st = "cancelled", !.capture = c(b)].st = "cancelled"
             /\ [act[b] EXCEPT !.st = "cancelled", !.capture = c(b)].capture = c(b)
             /\ [act[b] EXCEPT !.st = "cancelled", !.capture = c(b)].durable = act[b].durable
             /\ [act[b] EXCEPT !.prep = None] \in ActionRecord
             /\ [act[b] EXCEPT !.prep = None].st = act[b].st
             /\ [act[b] EXCEPT !.prep = None].durable = act[b].durable
             /\ [act[b] EXCEPT !.prep = None].capture = act[b].capture
  <2>1. act[b] \in ActionRecord /\ "cancelled" \in Statuses /\ None \in Actions \cup {None}
    BY DEF TypeOK, Statuses, Terminal
  <2>2. /\ [act[b] EXCEPT !.st = "cancelled", !.capture = c(b)] \in ActionRecord
        /\ [act[b] EXCEPT !.prep = None] \in ActionRecord
    BY <1>2, <2>1, Fields
  <2> QED
    BY <2>1, <2>2 DEF ActionRecord
<1>5. act' \in [Actions -> ActionRecord]
  BY <1>1, <1>4
<1>6. ticket' \in [Actions -> TicketRecord]
  BY <1>1, <1>2 DEF TypeOK, TicketRecord
<1>7. ASSUME NEW b \in Actions, b \in A
      PROVE  /\ act'[b].st = "cancelled" /\ act'[b].durable = act[b].durable
             /\ act'[b].capture = IF act[b].st = "committing" THEN "on" ELSE "no"
             /\ ticket'[b].delivered \in {"not_applicable", "rejected"}
             /\ ticket'[b].completed = "error"
  BY <1>1, <1>2, <1>3, <1>4, <1>7
<1>8. ASSUME NEW b \in Actions, b \notin A PROVE Moved(b, act[b].st)
  BY <1>1, <1>4, <1>8 DEF Moved
<1> QED
  BY <1>1, <1>5, <1>6, <1>7, <1>8

\* Every step keeps the shape of the state.
LEMMA TypeStep == TypeOK /\ FenceOK /\ EventsOK /\ [Next]_vars => TypeOK'
<1> SUFFICES ASSUME TypeOK, FenceOK, EventsOK, [Next]_vars
             PROVE  TypeOK'
  OBVIOUS
<1> USE SessionAssumption DEF input, admission, agent
<1>1. CASE UNCHANGED vars
  BY <1>1 DEF TypeOK, vars
<1>2. ASSUME NEW a \in Actions, Arrive(a) PROVE TypeOK'
  <2>1. unwoken' \in BOOLEAN
    BY <1>2 DEF TypeOK, Arrive
  <2>2. sched' \in SchedRecord
    BY <1>2 DEF TypeOK, Arrive, SchedRecord
  <2>3. door' \in [Actions -> {"out", "paused", "fence", "in", "open", "done"}]
    BY <1>2 DEF TypeOK, Arrive
  <2>4. fence' \in Seq(Actions \cup {"pump", "checkpoint"})
    BY <1>2 DEF TypeOK, Arrive
  <2> QED
    BY <1>2, <2>1, <2>2, <2>3, <2>4 DEF TypeOK, Arrive
<1>3. ASSUME NEW a \in Actions, Return(a) PROVE TypeOK'
  BY <1>3 DEF TypeOK, Return
<1>4. ASSUME NEW a \in Actions, Enter(a) PROVE TypeOK'
  <2>1. door' \in [Actions -> {"out", "paused", "fence", "in", "open", "done"}]
    BY <1>4 DEF TypeOK, Enter
  <2>2. fence' \in Seq(Actions \cup {"pump", "checkpoint"})
    <3>1. a \in Range(fence)
      BY <1>4 DEF Enter, FenceOK
    <3>2. fence # <<>>
      BY <3>1 DEF Range
    <3> QED
      BY <1>4, <3>2 DEF TypeOK, Enter
  <2> QED
    BY <1>4, <2>1, <2>2 DEF TypeOK, Enter
<1>5. ASSUME NEW a \in Actions, Handle(a) PROVE TypeOK'
  <2>1. door' \in [Actions -> {"out", "paused", "fence", "in", "open", "done"}]
    BY <1>5 DEF TypeOK, Handle, Leave
  <2>2. fence' \in Seq(Actions \cup {"pump", "checkpoint"})
    <3>1. CASE door[a] = "in"
      <4>1. a \in Range(fence)
        BY <1>5, <3>1 DEF FenceOK
      <4>2. fence # <<>>
        BY <4>1 DEF Range
      <4> QED
        BY <1>5, <3>1, <4>2 DEF TypeOK, Leave, Handle
    <3> QED
      BY <1>5, <3>1 DEF TypeOK, Leave, Handle
  <2> QED
    BY <1>5, <2>1, <2>2 DEF TypeOK, Handle
<1>6. ASSUME NEW a \in Actions, NEW q \in BOOLEAN, Admit(a, q) PROVE TypeOK'
  <2>1. door' \in [Actions -> {"out", "paused", "fence", "in", "open", "done"}]
    BY <1>6 DEF TypeOK, Admit, Leave
  <2>2. fence' \in Seq(Actions \cup {"pump", "checkpoint"})
    <3>1. CASE door[a] = "in"
      <4>1. a \in Range(fence)
        BY <1>6, <3>1 DEF FenceOK
      <4>2. fence # <<>>
        BY <4>1 DEF Range
      <4> QED
        BY <1>6, <3>1, <4>2 DEF TypeOK, Leave, Admit
    <3> QED
      BY <1>6, <3>1 DEF TypeOK, Leave, Admit
  <2>3. admitted' \in Seq(Actions)
    BY <1>6 DEF TypeOK, Admit
  <2>4. act' \in [Actions -> ActionRecord]
    BY <1>6, AdmitActs
  <2>5. sched' \in SchedRecord
    <3>1. \A b \in BOOLEAN : [sched EXCEPT !.suspended = b] \in SchedRecord
      BY DEF TypeOK, SchedRecord
    <3>2. \A c : (sched.suspended /\ ~c) \in BOOLEAN
      BY DEF TypeOK, SchedRecord
    <3> QED
      BY <1>6, <3>1, <3>2, ScheduledKeeps DEF TypeOK, Admit
  <2> QED
    BY <1>6, <2>1, <2>2, <2>3, <2>4, <2>5 DEF TypeOK, Admit
<1>7. CASE PumpStarts
  <2>1. Head(sched.chain) \in Nat /\ Tail(sched.chain) \in Seq(Nat)
    BY <1>7, RangeShrinks DEF TypeOK, PumpStarts, SchedRecord
  <2>2. unwoken' \in BOOLEAN
    BY <1>7 DEF TypeOK, PumpStarts
  <2>3. sched' \in SchedRecord
    <3> DEFINE r == Tail(sched.chain)
    <3>1. r \in Seq(Nat) /\ sched' = [sched EXCEPT !.requested = FALSE, !.chain = r]
      BY <1>7, <2>1 DEF PumpStarts
    <3> HIDE DEF r
    <3> QED
      BY <3>1 DEF TypeOK, SchedRecord
  <2>4. pump' \in PumpRecord
    <3> DEFINE n == Head(sched.chain)
    <3>1. n \in Nat /\ pump' \in {NoPump, [NoPump EXCEPT !.pc = "idle", !.epoch = n]}
      BY <1>7, <2>1 DEF PumpStarts
    <3> HIDE DEF n
    <3>2. [NoPump EXCEPT !.pc = "idle", !.epoch = n] \in PumpRecord
      BY ZenonT(60), <3>1, Updates DEF PumpRecord
    <3> QED
      BY <3>1, <3>2, Updates
  <2> QED
    BY <1>7, <2>1, <2>2, <2>3, <2>4 DEF TypeOK, PumpStarts
<1>8. CASE PumpFindsAgentIdle
  <2>1. unwoken' \in BOOLEAN
    BY <1>8 DEF TypeOK, PumpFindsAgentIdle, Forgotten
  <2>2. act' \in [Actions -> ActionRecord]
    BY <1>8, IdleActs
  <2>3. pump' \in PumpRecord
    <3> DEFINE pre == IF Having(act, {"selected"}) = {} THEN None
                     ELSE CHOOSE a \in Actions : act[a].st = "selected"
           pc == IF Captured = {} THEN "events" ELSE "select"
    <3>1. pre \in Actions \cup {None} /\ pc \in {"events", "select"}
      BY DEF Having
    <3>2. pump' = IF Stale THEN NoPump ELSE [pump EXCEPT !.pc = pc, !.pre = pre]
      BY <1>8 DEF PumpFindsAgentIdle
    <3> HIDE DEF pre, pc
    <3>3. [pump EXCEPT !.pc = pc, !.pre = pre] \in PumpRecord
      BY <3>1 DEF TypeOK, PumpRecord
    <3> QED
      BY <3>2, <3>3, Updates
  <2> QED
    BY <1>8, <2>1, <2>2, <2>3 DEF TypeOK, PumpFindsAgentIdle
<1>9. CASE PumpFindsEventsDone
  BY <1>9, Updates DEF TypeOK, PumpFindsEventsDone
<1>10. CASE PumpIsBlocked
  <2>1. unwoken' \in BOOLEAN
    BY <1>10 DEF TypeOK, PumpIsBlocked, Forgotten
  <2>2. pump' \in PumpRecord
    BY <1>10, Updates DEF TypeOK, PumpIsBlocked
  <2> QED
    BY <1>10, <2>1, <2>2 DEF TypeOK, PumpIsBlocked
<1>11. CASE PumpFindsNothing
  <2>1. sched' \in SchedRecord
    BY <1>11, ScheduledKeeps DEF TypeOK, PumpFindsNothing
  <2>2. pump' \in PumpRecord
    BY <1>11, Updates DEF TypeOK, PumpFindsNothing
  <2> QED
    BY <1>11, <2>1, <2>2 DEF TypeOK, PumpFindsNothing
<1>12. CASE PumpSelects
  <2>1. act' \in [Actions -> ActionRecord]
    BY <1>12, SelectsActs
  <2>2. pump' \in PumpRecord
    <3> DEFINE batch == IF pump.pre = None THEN Batch ELSE <<pump.pre>>
    <3>1. batch \in Seq(Actions)
      BY BatchIsQueued DEF TypeOK, PumpRecord
    <3>2. pump' = [pump EXCEPT !.pc = "validate", !.batch = batch]
      BY <1>12 DEF PumpSelects
    <3> HIDE DEF batch
    <3> QED
      BY <3>1, <3>2 DEF TypeOK, PumpRecord
  <2> QED
    BY <1>12, <2>1, <2>2 DEF TypeOK, PumpSelects
<1>13. ASSUME NEW valid \in BOOLEAN, Validated(valid) PROVE TypeOK'
  <2>1. Defers \/ Fails => TypeOK'
    BY <1>13, GivesBackActs DEF TypeOK, Validated
  <2>2. pump' = [pump EXCEPT !.pc = "extend"] /\ UNCHANGED <<input, unwoken>> => TypeOK'
    <3>1. [pump EXCEPT !.pc = "extend"] \in PumpRecord
      BY Updates DEF TypeOK
    <3> QED
      BY <1>13, <3>1 DEF TypeOK, Validated
  <2> QED
    BY <1>13, <2>1, <2>2 DEF Validated
<1>14. CASE PumpPrepares
  <2>1. CASE Deferred
    <3>1. Defers /\ UNCHANGED fence
      BY <1>14, <2>1 DEF PumpPrepares
    <3> QED
      BY <1>14, <3>1, GivesBackActs DEF TypeOK, PumpPrepares
  <2>2. ActiveTurns \in Seq(Actions) /\ (ActiveTurns # <<>> => Last(ActiveTurns) \in Actions)
    <3>1. ActiveTurns \in Seq(Actions)
      BY TurnsAreOfTheBatch
    <3>2. ActiveTurns # <<>> => Len(ActiveTurns) \in 1..Len(ActiveTurns)
      BY <3>1, EmptySeq
    <3> QED
      BY <3>1, <3>2, ElementOfSeq DEF Last
  <2>3. ~Deferred => pump' \in PumpRecord
    <3> DEFINE turns == ActiveTurns
           last == Last(ActiveTurns)
    <3>1. Unprepared => ActiveTurns # <<>>
      BY DEF Unprepared, Range
    <3>2. [pump EXCEPT !.pc = "fence", !.turns = turns] \in PumpRecord
      <4>1. turns \in Seq(Actions)
        BY <2>2
      <4> HIDE DEF turns
      <4> QED
        BY <4>1 DEF TypeOK, PumpRecord
    <3>3. Unprepared => [pump EXCEPT !.pc = "extended", !.anchor = last] \in PumpRecord
      <4>1. Unprepared => last \in Actions
        BY <2>2, <3>1
      <4> HIDE DEF last
      <4> QED
        BY <4>1 DEF TypeOK, PumpRecord
    <3> QED
      BY <1>14, <3>2, <3>3, LoopedType DEF TypeOK, PumpPrepares
  <2>4. ~Deferred => fence' \in Seq(Actions \cup {"pump", "checkpoint"})
    <3>1. ~Deferred => fence' \in {fence, Append(fence, "pump")}
      BY <1>14 DEF PumpPrepares
    <3>2. Append(fence, "pump") \in Seq(Actions \cup {"pump", "checkpoint"})
      BY DEF TypeOK
    <3> QED
      BY <3>1, <3>2 DEF TypeOK
  <2> QED
    <3>1. ~Deferred => UNCHANGED <<input, unwoken, door, sched, agent, persisted, events, retry,
                                   bash, checkpoint, stops>>
      BY <1>14 DEF PumpPrepares
    <3> QED
      BY <2>1, <2>3, <2>4, <3>1 DEF TypeOK
<1>15. CASE PumpIsPrepared
  <2>1. act' \in [Actions -> ActionRecord]
    BY <1>15, PreparedActs
  <2>2. pump' \in PumpRecord
    BY <1>15, Updates DEF TypeOK, PumpIsPrepared
  <2> QED
    BY <1>15, <2>1, <2>2 DEF TypeOK, PumpIsPrepared
<1>16. CASE PumpDispatches
  <2>1. fence' \in Seq(Actions \cup {"pump", "checkpoint"})
    <3>1. "pump" \in Range(fence)
      BY <1>16 DEF PumpDispatches, FenceOK
    <3>2. fence # <<>>
      BY <3>1 DEF Range
    <3> QED
      BY <1>16, <3>2 DEF TypeOK, PumpDispatches
  <2>2. CASE Dispatches
    <3>1. unwoken' \in BOOLEAN /\ admitted' \in Seq(Actions)
      BY <2>2 DEF TypeOK, Dispatches, PumpDispatches
    <3>2. /\ act' \in [Actions -> ActionRecord] /\ ticket' \in [Actions -> TicketRecord]
          /\ pump' \in PumpRecord /\ run' \in RunRecord
      BY <2>2, DispatchActs DEF TypeOK
    <3> QED
      BY <1>16, <2>1, <3>1, <3>2 DEF TypeOK, PumpDispatches
  <2>3. CASE ~Dispatches
    <3>1. Defers /\ UNCHANGED run
      BY <1>16, <2>3 DEF Dispatches, PumpDispatches
    <3> QED
      BY <1>16, <2>1, <3>1, GivesBackActs DEF TypeOK, PumpDispatches
  <2> QED
    BY <2>2, <2>3
<1>17. CASE TakeIn
  <2>1. Head(run.todo) \in Actions /\ Tail(run.todo) \in Seq(Actions)
    BY <1>17, RangeShrinks DEF TypeOK, TakeIn, RunRecord
  <2>2. run' \in RunRecord
    <3> DEFINE r == Tail(run.todo)
    <3>1. r \in Seq(Actions) /\ run' = [run EXCEPT !.todo = r]
      BY <1>17, <2>1 DEF TakeIn
    <3> HIDE DEF r
    <3> QED
      BY <3>1 DEF TypeOK, RunRecord
  <2>3. transcript' \in Seq(Actions)
    BY <1>17, <2>1 DEF TypeOK, TakeIn
  <2>4. act' \in [Actions -> ActionRecord] /\ ticket' \in [Actions -> TicketRecord]
    BY <1>17, TakeInActs
  <2>6. events' \in Seq(EventRecord)
    BY <1>17, <2>1 DEF TypeOK, TakeIn, EventRecord
  <2> QED
    BY <1>17, <2>1, <2>2, <2>3, <2>4, <2>6 DEF TypeOK, TakeIn
<1>18. ASSUME NEW retryable \in BOOLEAN, EndRun(retryable) PROVE TypeOK'
  <2>1. run' \in RunRecord
    BY <1>18 DEF TypeOK, EndRun, RunRecord
  <2>2. transcript' \in Seq(Actions)
    BY <1>18, OnlyKeeps DEF TypeOK, EndRun, Without
  <2>3. retry' \in RetryRecord
    BY <1>18 DEF TypeOK, EndRun, RetryRecord
  <2>4. events' \in Seq(EventRecord)
    <3>1. [type |-> "agent_end", action |-> None, retryable |-> retryable] \in EventRecord
      BY <1>18 DEF EventRecord
    <3> QED
      BY <1>18, <3>1 DEF TypeOK, EndRun
  <2> QED
    BY <1>18, <2>1, <2>2, <2>3, <2>4 DEF TypeOK, EndRun
<1>19. CASE FinishRun
  <2>1. unwoken' \in BOOLEAN
    BY <1>19 DEF TypeOK, FinishRun
  <2> QED
    BY <1>19, <2>1, Updates DEF TypeOK, FinishRun
<1>20. CASE Persists
  <2>1. Head(events).action \in Actions
    <3> DEFINE e == Head(events)
    <3>1. e \in EventRecord /\ e.type = "message"
      BY <1>20 DEF TypeOK, Persists
    <3> HIDE DEF e
    <3>2. e.action \in Actions
      BY <3>1 DEF EventRecord
    <3> QED
      BY <3>2 DEF e
  <2>2. persisted' \in Seq(Actions)
    BY <1>20, <2>1 DEF TypeOK, Persists
  <2>3. transcript' \in Seq(Actions)
    BY <1>20, OnlyKeeps DEF TypeOK, Persists, Without
  <2>4. events' \in Seq(EventRecord)
    BY <1>20 DEF TypeOK, Persists
  <2> QED
    BY <1>20, <2>1, <2>2, <2>3, <2>4 DEF TypeOK, Persists
<1>21. CASE ReleasesCaptured
  <2>1. retry' \in RetryRecord /\ pump' \in PumpRecord
    <3>1. retry.attempt \in 0..MaxRetries
      BY DEF TypeOK, RetryRecord
    <3> QED
      BY <1>21, <3>1, ResolvedType DEF ReleasesCaptured
  <2>2. transcript' \in Seq(Actions)
    BY <1>21, OnlyKeeps DEF TypeOK, ReleasesCaptured, Without
  <2>3. act' \in [Actions -> ActionRecord]
    BY <1>21, ReleasesActs
  <2>4. events' \in Seq(EventRecord)
    BY <1>21 DEF TypeOK, ReleasesCaptured, EndHandled
  <2>5. sched' \in SchedRecord
    BY <1>21, ScheduledKeeps DEF TypeOK, ReleasesCaptured
  <2> QED
    BY <1>21, <2>1, <2>2, <2>3, <2>4, <2>5 DEF TypeOK, ReleasesCaptured
<1>22. CASE StartsBackoff
  <2>1. retry' \in RetryRecord
    <3>1. retry.attempt \in 0..MaxRetries /\ retry.attempt < MaxRetries /\ MaxRetries \in Nat
      BY <1>22 DEF TypeOK, StartsBackoff, Retries, RetryRecord
    <3> DEFINE n == retry.attempt + 1
    <3>2. n \in 0..MaxRetries
      BY <3>1
    <3>3. retry' = [retry EXCEPT !.promise = TRUE, !.sleeping = TRUE, !.attempt = n]
      BY <1>22 DEF StartsBackoff
    <3> HIDE DEF n
    <3> QED
      BY <3>2, <3>3 DEF TypeOK, RetryRecord
  <2> QED
    BY <1>22, <2>1 DEF TypeOK, StartsBackoff
<1>23. CASE EndsForGood
  <2>1. retry' \in RetryRecord /\ pump' \in PumpRecord
    BY <1>23, ResolvedType, 0 \in 0..MaxRetries, FALSE \in BOOLEAN DEF EndsForGood
  <2>2. events' \in Seq(EventRecord)
    BY <1>23 DEF TypeOK, EndsForGood, EndHandled
  <2>3. sched' \in SchedRecord
    BY <1>23, ScheduledKeeps DEF TypeOK, EndsForGood
  <2> QED
    BY <1>23, <2>1, <2>2, <2>3 DEF TypeOK, EndsForGood
<1>24. CASE BackoffEnds
  <2>1. retry' \in RetryRecord
    BY <1>24 DEF TypeOK, BackoffEnds, RetryRecord
  <2>2. events' \in Seq(EventRecord)
    BY <1>24, RangeShrinks DEF TypeOK, BackoffEnds, EventsOK
  <2> QED
    BY <1>24, <2>1, <2>2 DEF TypeOK, BackoffEnds
<1>25. CASE Continues
  <2>1. retry' \in RetryRecord
    BY <1>25 DEF TypeOK, Continues, RetryRecord
  <2>2. run' \in RunRecord
    BY <1>25, Updates DEF TypeOK, Continues, RunRecord, NoRun
  <2> QED
    BY <1>25, <2>1, <2>2 DEF TypeOK, Continues
<1>26. CASE PumpSeesRunEnd
  BY <1>26, Updates DEF TypeOK, PumpSeesRunEnd
<1>27. CASE PumpSeesRetryEnd
  BY <1>27, Updates DEF TypeOK, PumpSeesRetryEnd
<1>28. CASE PumpSettles
  BY <1>28, Updates DEF TypeOK, PumpSettles
<1>29. CASE PumpCompletes
  <2>1. unwoken' \in BOOLEAN
    BY <1>29 DEF TypeOK, PumpCompletes, Forgotten
  <2>2. act' \in [Actions -> ActionRecord]
    BY <1>29, CompletesActs
  <2>3. ticket' \in [Actions -> TicketRecord]
    BY <1>29, CompletesActs
  <2>4. pump' \in PumpRecord
    BY <1>29, Updates, LoopedType DEF TypeOK, PumpCompletes
  <2> QED
    BY <1>29, <2>1, <2>2, <2>3, <2>4 DEF TypeOK, PumpCompletes
<1>30. CASE Abort
  <2>1. \E A : Cancel(A)
    BY <1>30 DEF Abort
  <2>2. stops' \in 0..MaxStops
    BY <1>30 DEF TypeOK, Stops, Abort
  <2>3. sched' \in SchedRecord
    BY <1>30, SchedFields DEF TypeOK, Abort, NewEpoch, Unrequested
  <2>4. retry' \in RetryRecord /\ pump' \in PumpRecord
    BY <1>30, ResolvedType, 0 \in 0..MaxRetries, FALSE \in BOOLEAN DEF Abort
  <2>5. events' \in Seq(EventRecord)
    BY <1>30, RangeShrinks DEF TypeOK, Abort, EventsOK
  <2>6. run' \in RunRecord
    BY <1>30 DEF TypeOK, Abort, AbortsRun, RunRecord
  <2> QED
    BY <1>30, <2>1, <2>2, <2>3, <2>4, <2>5, <2>6, CancelledType DEF TypeOK, Abort
<1>31. CASE Resume
  <2>1. [sched EXCEPT !.suspended = FALSE] \in SchedRecord
    BY DEF TypeOK, SchedRecord
  <2>2. sched' \in SchedRecord
    BY <1>31, <2>1, ScheduledKeeps DEF TypeOK, Resume
  <2> QED
    BY <1>31, <2>1, <2>2 DEF TypeOK, Resume
<1>32. CASE Pause
  <2>1. stops' \in 0..MaxStops
    BY <1>32 DEF TypeOK, Stops, Pause
  <2>2. sched' \in SchedRecord
    BY <1>32, SchedFields DEF TypeOK, Pause, NewEpoch, Unrequested
  <2> QED
    BY <1>32, <2>1, <2>2 DEF TypeOK, Pause
<1>33. CASE Release
  <2>1. [sched EXCEPT !.paused = FALSE] \in SchedRecord
    BY DEF TypeOK, SchedRecord
  <2>2. sched' \in SchedRecord
    BY <1>33, <2>1, ScheduledKeeps DEF TypeOK, Release
  <2> QED
    BY <1>33, <2>1, <2>2 DEF TypeOK, Release
<1>34. CASE CheckpointArrives
  <2>1. fence' \in Seq(Actions \cup {"pump", "checkpoint"})
    BY <1>34 DEF TypeOK, CheckpointArrives
  <2> QED
    BY <1>34, <2>1 DEF TypeOK, CheckpointArrives
<1>35. CASE CheckpointEnters
  <2>1. fence' \in Seq(Actions \cup {"pump", "checkpoint"})
    <3>1. "checkpoint" \in Range(fence)
      BY <1>35 DEF CheckpointEnters, FenceOK
    <3>2. fence # <<>>
      BY <3>1 DEF Range
    <3> QED
      BY <1>35, <3>2 DEF TypeOK, CheckpointEnters
  <2> QED
    BY <1>35, <2>1 DEF TypeOK, CheckpointEnters
<1>36. CASE CheckpointTaken
  <2>1. fence' \in Seq(Actions \cup {"pump", "checkpoint"})
    <3>1. "checkpoint" \in Range(fence)
      BY <1>36 DEF CheckpointTaken, FenceOK
    <3>2. fence # <<>>
      BY <3>1 DEF Range
    <3> QED
      BY <1>36, <3>2 DEF TypeOK, CheckpointTaken
  <2> QED
    BY <1>36, <2>1 DEF TypeOK, CheckpointTaken
<1>37. CASE ClearQueue
  <2>1. \E A : Cancel(A)
    BY <1>37 DEF ClearQueue
  <2>2. stops' \in 0..MaxStops
    BY <1>37 DEF TypeOK, Stops, ClearQueue
  <2>3. sched' \in SchedRecord
    BY <1>37, SchedFields DEF TypeOK, ClearQueue, NewEpoch
  <2> QED
    BY <1>37, <2>1, <2>2, <2>3, CancelledType DEF TypeOK, ClearQueue
<1>38. ASSUME NEW a \in Actions, TakeBack(a) PROVE TypeOK'
  <2>1. \E A : Cancel(A)
    BY <1>38 DEF TakeBack
  <2>2. stops' \in 0..MaxStops
    BY <1>38 DEF TypeOK, Stops, TakeBack
  <2>3. run' \in RunRecord
    BY <1>38 DEF TypeOK, TakeBack, AbortsRun, RunRecord
  <2> QED
    BY <1>38, <2>1, <2>2, <2>3, CancelledType DEF TypeOK, TakeBack
<1>39. CASE StartBash
  <2>1. bash' \in {"none", "user", "raw", "drain"}
    BY <1>39 DEF TypeOK, StartBash
  <2> QED
    BY <1>39, <2>1 DEF TypeOK, StartBash
<1>40. CASE EndBash
  <2>1. unwoken' \in BOOLEAN
    BY <1>40 DEF TypeOK, EndBash
  <2> QED
    BY <1>40, <2>1 DEF TypeOK, EndBash
<1>41. CASE DrainBash
  <2>1. sched' \in SchedRecord
    BY <1>41, ScheduledKeeps DEF TypeOK, DrainBash
  <2> QED
    BY <1>41, <2>1 DEF TypeOK, DrainBash
<1> QED
  BY <1>1, <1>2, <1>3, <1>4, <1>5, <1>6, <1>7, <1>8, <1>9, <1>10, <1>11, <1>12, <1>13, <1>14,
     <1>15, <1>16, <1>17, <1>18, <1>19, <1>20, <1>21, <1>22, <1>23, <1>24, <1>25, <1>26, <1>27,
     <1>28, <1>29, <1>30, <1>31, <1>32, <1>33, <1>34, <1>35, <1>36, <1>37, <1>38, <1>39, <1>40,
     <1>41
     DEF Next, PumpStep, RunStep, EventStep, CallerStep, CheckpointStep

-----------------------------------------------------------------------------
(* What a step touches.                                                    *)

\* The steps that move a prompt, or what the agent and the session file hold of it.
Moves ==
    \/ \E a \in Actions, q \in BOOLEAN : Admit(a, q)
    \/ PumpFindsAgentIdle \/ PumpSelects \/ (\E valid \in BOOLEAN : Validated(valid))
    \/ PumpPrepares \/ PumpIsPrepared \/ PumpDispatches \/ PumpCompletes
    \/ TakeIn \/ (\E retryable \in BOOLEAN : EndRun(retryable)) \/ Persists \/ ReleasesCaptured
    \/ Abort \/ ClearQueue \/ \E a \in Actions : TakeBack(a)

\* The head of the events is the end of a run, and is done with.
EndLeaves == events # <<>> /\ Head(events).type = "agent_end" /\ events' = Tail(events)

Unmoved ==
    /\ UNCHANGED <<act, ticket, admitted, transcript, persisted>>
    /\ run'.todo = <<>> \/ (run'.todo = run.todo /\ run'.st = run.st)
    /\ events' = events \/ EndLeaves
    /\ retry'.sleeping => events' = events /\ Head(events).type = "agent_end" /\ events # <<>>
    /\ \A a \in Actions : door'[a] # "done" => door[a] # "done"
    /\ pump'.batch \in {pump.batch, <<>>}

\* The steps that queue for the fence, pass it or leave it.
Fences ==
    \/ \E a \in Actions : Arrive(a) \/ Return(a) \/ Enter(a) \/ Handle(a)
    \/ \E a \in Actions, q \in BOOLEAN : Admit(a, q)
    \/ PumpPrepares \/ PumpDispatches \/ CheckpointStep

Unfenced ==
    /\ UNCHANGED <<fence, door>>
    /\ checkpoint' = checkpoint \/ {checkpoint, checkpoint'} \subseteq {"none", "taken"}
    /\ pump.pc = "fence" <=> pump'.pc = "fence"

\* The steps of a pause and its checkpoint.
Unpaused == checkpoint' = checkpoint /\ sched'.paused = sched.paused

Footprint ==
    /\ Moves \/ Unmoved
    /\ Fences \/ Unfenced
    /\ Pause \/ Release \/ CheckpointStep \/ Unpaused

\* Every step of the system leaves one of a few footprints on what the invariant reads.
LEMMA Kinds ==
    ASSUME TypeOK, EventsOK, [Next]_vars
    PROVE  Footprint
<1> USE DEF input, admission, agent
<1> DEFINE Pcs == {"off", "idle", "events", "select", "validate", "extend", "extended", "fence",
                   "run", "retry", "retried", "settle", "settled"}
<1>a. /\ pump \in PumpRecord /\ NoPump.pc = "off" /\ NoPump.batch = <<>> /\ sched \in SchedRecord
      /\ NoRun.todo = <<>>
  BY DEF TypeOK, NoPump, NoRun
<1>b. \A pc \in Pcs : /\ [pump EXCEPT !.pc = pc].pc = pc
                      /\ [pump EXCEPT !.pc = pc].batch = pump.batch
  BY <1>a DEF PumpRecord
<1>c. \A ac : Looped(ac).pc \in {"off", "idle"} /\ Looped(ac).batch = <<>>
  BY <1>a, LoopedType
<1>d. \A s \in SchedRecord : \A ac : Scheduled(s, ac).paused = s.paused
  BY ScheduledKeeps
<1>g. \A b \in BOOLEAN : /\ [sched EXCEPT !.suspended = b] \in SchedRecord
                         /\ [sched EXCEPT !.suspended = b].paused = sched.paused
  BY <1>a DEF SchedRecord
<1>h. /\ NewEpoch(sched).paused = sched.paused
      /\ [NewEpoch(Unrequested(sched)) EXCEPT !.suspended = TRUE].paused = sched.paused
  BY <1>a DEF SchedRecord, NewEpoch, Unrequested
<1>e. retry.sleeping => events # <<>> /\ Head(events).type = "agent_end"
  BY DEF EventsOK
<1>f. ASSUME NEW n, ResolveRetry(n, FALSE)
      PROVE  /\ pump'.batch = pump.batch
             /\ pump.pc = "fence" <=> pump'.pc = "fence"
             /\ ~retry'.sleeping
  BY <1>b, <1>f DEF ResolveRetry, TypeOK, RetryRecord
<1> HIDE DEF Pcs
<1>1. CASE UNCHANGED vars
  <2>1. Unmoved
    BY <1>1, <1>a, <1>b, <1>c, <1>e, <1>f DEF Unmoved, EndLeaves, TypeOK, RetryRecord, Looped, vars
  <2>2. Unfenced
    BY <1>1, <1>a, <1>b, <1>c, <1>f DEF Unfenced, TypeOK, Looped, vars
  <2>3. Unpaused
    BY <1>1, <1>a, <1>d DEF Unpaused, vars
  <2> QED
    BY <2>1, <2>2, <2>3 DEF Footprint
<1>2. ASSUME NEW a \in Actions, Arrive(a) PROVE Footprint
  <2>1. Unmoved
    BY <1>2, <1>a, <1>b, <1>c, <1>e, <1>f DEF Unmoved, EndLeaves, TypeOK, RetryRecord, Looped,
       Arrive
  <2>2. Fences
    BY <1>2 DEF Fences, CheckpointStep
  <2>3. Unpaused
    BY <1>2, <1>a, <1>d DEF Unpaused, Arrive
  <2> QED
    BY <2>1, <2>2, <2>3 DEF Footprint
<1>3. ASSUME NEW a \in Actions, Return(a) PROVE Footprint
  <2>1. Unmoved
    BY <1>3, <1>a, <1>b, <1>c, <1>e, <1>f DEF Unmoved, EndLeaves, TypeOK, RetryRecord, Looped,
       Return
  <2>2. Fences
    BY <1>3 DEF Fences, CheckpointStep
  <2>3. Unpaused
    BY <1>3, <1>a, <1>d DEF Unpaused, Return
  <2> QED
    BY <2>1, <2>2, <2>3 DEF Footprint
<1>4. ASSUME NEW a \in Actions, Enter(a) PROVE Footprint
  <2>1. Unmoved
    BY <1>4, <1>a, <1>b, <1>c, <1>e, <1>f DEF Unmoved, EndLeaves, TypeOK, RetryRecord, Looped, Enter
  <2>2. Fences
    BY <1>4 DEF Fences, CheckpointStep
  <2>3. Unpaused
    BY <1>4, <1>a, <1>d DEF Unpaused, Enter
  <2> QED
    BY <2>1, <2>2, <2>3 DEF Footprint
<1>5. ASSUME NEW a \in Actions, Handle(a) PROVE Footprint
  <2>1. Unmoved
    BY <1>5, <1>a, <1>b, <1>c, <1>e DEF Leave, Unmoved, EndLeaves, TypeOK, RetryRecord, Looped,
       Handle
  <2>2. Fences
    BY <1>5 DEF Fences, CheckpointStep
  <2>3. Unpaused
    BY <1>5, <1>a, <1>d DEF Unpaused, Handle
  <2> QED
    BY <2>1, <2>2, <2>3 DEF Footprint
<1>6. ASSUME NEW a \in Actions, NEW q \in BOOLEAN, Admit(a, q) PROVE Footprint
  <2>1. Moves
    BY <1>6 DEF Moves
  <2>2. Fences
    BY <1>6 DEF Fences, CheckpointStep
  <2>3. Unpaused
    <3>1. \A b : (sched.suspended /\ ~b) \in BOOLEAN
      BY <1>a DEF SchedRecord
    <3> QED
      BY <1>6, <1>a, <1>d, <1>g, <3>1 DEF Unpaused, Admit
  <2> QED
    BY <2>1, <2>2, <2>3 DEF Footprint
<1>7. CASE PumpStarts
  <2>1. Unmoved
    BY <1>7, <1>a, <1>b, <1>c, <1>e, <1>f DEF Unmoved, EndLeaves, TypeOK, RetryRecord, Looped,
       PumpStarts
  <2>2. Unfenced
    BY <1>7, <1>a, <1>b, <1>c, <1>f DEF Unfenced, TypeOK, Looped, PumpStarts
  <2>3. Unpaused
    BY <1>7, <1>a, <1>d DEF Unpaused, PumpStarts
  <2> QED
    BY <2>1, <2>2, <2>3 DEF Footprint
<1>8. CASE PumpFindsAgentIdle
  <2>1. Moves
    BY <1>8 DEF Moves
  <2>2. Unfenced
    BY <1>8, <1>a, <1>b, <1>c, <1>f DEF Unfenced, TypeOK, Looped, PumpFindsAgentIdle
  <2>3. Unpaused
    BY <1>8, <1>a, <1>d DEF Unpaused, PumpFindsAgentIdle
  <2> QED
    BY <2>1, <2>2, <2>3 DEF Footprint
<1>9. CASE PumpFindsEventsDone
  <2>1. Unmoved
    BY <1>9, <1>a, <1>b, <1>c, <1>e, <1>f DEF Unmoved, EndLeaves, TypeOK, RetryRecord, Looped,
       PumpFindsEventsDone
  <2>2. Unfenced
    BY <1>9, <1>a, <1>b, <1>c, <1>f DEF Unfenced, TypeOK, Looped, PumpFindsEventsDone
  <2>3. Unpaused
    BY <1>9, <1>a, <1>d DEF Unpaused, PumpFindsEventsDone
  <2> QED
    BY <2>1, <2>2, <2>3 DEF Footprint
<1>10. CASE PumpIsBlocked
  <2>1. Unmoved
    BY <1>10, <1>a, <1>b, <1>c, <1>e, <1>f DEF Unmoved, EndLeaves, TypeOK, RetryRecord, Looped,
       PumpIsBlocked
  <2>2. Unfenced
    BY <1>10, <1>a, <1>b, <1>c, <1>f DEF Unfenced, TypeOK, Looped, PumpIsBlocked
  <2>3. Unpaused
    BY <1>10, <1>a, <1>d DEF Unpaused, PumpIsBlocked
  <2> QED
    BY <2>1, <2>2, <2>3 DEF Footprint
<1>11. CASE PumpFindsNothing
  <2>1. Unmoved
    BY <1>11, <1>a, <1>b, <1>c, <1>e, <1>f DEF Unmoved, EndLeaves, TypeOK, RetryRecord, Looped,
       PumpFindsNothing
  <2>2. Unfenced
    BY <1>11, <1>a, <1>b, <1>c, <1>f DEF Unfenced, TypeOK, Looped, PumpFindsNothing
  <2>3. Unpaused
    BY <1>11, <1>a, <1>d DEF Unpaused, PumpFindsNothing
  <2> QED
    BY <2>1, <2>2, <2>3 DEF Footprint
<1>12. CASE PumpSelects
  <2>1. Moves
    BY <1>12 DEF Moves
  <2>2. Unfenced
    BY <1>12, <1>a, <1>b, <1>c, <1>f DEF Unfenced, TypeOK, Looped, PumpSelects
  <2>3. Unpaused
    BY <1>12, <1>a, <1>d DEF Unpaused, PumpSelects
  <2> QED
    BY <2>1, <2>2, <2>3 DEF Footprint
<1>13. ASSUME NEW valid \in BOOLEAN, Validated(valid) PROVE Footprint
  <2>1. Moves
    BY <1>13 DEF Moves
  <2>2. Unfenced
    <3>1. Defers \/ Fails => pump'.pc # "fence"
      BY GivesBackActs
    <3> QED
      BY <1>13, <1>b, <3>1 DEF Pcs, Unfenced, Validated
  <2>3. Unpaused
    BY <1>13, <1>a, <1>d DEF Unpaused, Validated
  <2> QED
    BY <2>1, <2>2, <2>3 DEF Footprint
<1>14. CASE PumpPrepares
  <2>1. Moves
    BY <1>14 DEF Moves
  <2>2. Fences
    BY <1>14 DEF Fences, CheckpointStep
  <2>3. Unpaused
    BY <1>14, <1>a, <1>d DEF Unpaused, PumpPrepares
  <2> QED
    BY <2>1, <2>2, <2>3 DEF Footprint
<1>15. CASE PumpIsPrepared
  <2>1. Moves
    BY <1>15 DEF Moves
  <2>2. Unfenced
    BY <1>15, <1>a, <1>b, <1>c, <1>f DEF Unfenced, TypeOK, Looped, PumpIsPrepared
  <2>3. Unpaused
    BY <1>15, <1>a, <1>d DEF Unpaused, PumpIsPrepared
  <2> QED
    BY <2>1, <2>2, <2>3 DEF Footprint
<1>16. CASE PumpDispatches
  <2>1. Moves
    BY <1>16 DEF Moves
  <2>2. Fences
    BY <1>16 DEF Fences, CheckpointStep
  <2>3. Unpaused
    BY <1>16, <1>a, <1>d DEF Unpaused, PumpDispatches
  <2> QED
    BY <2>1, <2>2, <2>3 DEF Footprint
<1>17. CASE TakeIn
  <2>1. Moves
    BY <1>17 DEF Moves
  <2>2. Unfenced
    BY <1>17, <1>a, <1>b, <1>c, <1>f DEF Unfenced, TypeOK, Looped, TakeIn
  <2>3. Unpaused
    BY <1>17, <1>a, <1>d DEF Unpaused, TakeIn
  <2> QED
    BY <2>1, <2>2, <2>3 DEF Footprint
<1>18. ASSUME NEW retryable \in BOOLEAN, EndRun(retryable) PROVE Footprint
  <2>1. Moves
    BY <1>18 DEF Moves
  <2>2. Unfenced
    BY <1>18, <1>a, <1>b, <1>c, <1>f DEF Unfenced, TypeOK, Looped, EndRun
  <2>3. Unpaused
    BY <1>18, <1>a, <1>d DEF Unpaused, EndRun
  <2> QED
    BY <2>1, <2>2, <2>3 DEF Footprint
<1>19. CASE FinishRun
  <2>1. Unmoved
    BY <1>19, <1>a, <1>b, <1>c, <1>e, <1>f DEF Unmoved, EndLeaves, TypeOK, RetryRecord, Looped,
       FinishRun
  <2>2. Unfenced
    BY <1>19, <1>a, <1>b, <1>c, <1>f DEF Unfenced, TypeOK, Looped, FinishRun
  <2>3. Unpaused
    BY <1>19, <1>a, <1>d DEF Unpaused, FinishRun
  <2> QED
    BY <2>1, <2>2, <2>3 DEF Footprint
<1>20. CASE Persists
  <2>1. Moves
    BY <1>20 DEF Moves
  <2>2. Unfenced
    BY <1>20, <1>a, <1>b, <1>c, <1>f DEF Unfenced, TypeOK, Looped, Persists
  <2>3. Unpaused
    BY <1>20, <1>a, <1>d DEF Unpaused, Persists
  <2> QED
    BY <2>1, <2>2, <2>3 DEF Footprint
<1>21. CASE ReleasesCaptured
  <2>1. Moves
    BY <1>21 DEF Moves
  <2>2. Unfenced
    <3>1. \E n : ResolveRetry(n, FALSE)
      BY <1>21 DEF ReleasesCaptured
    <3>2. pump.pc = "fence" <=> pump'.pc = "fence"
      BY <1>f, <3>1
    <3> QED
      BY <1>21, <3>2 DEF Unfenced, ReleasesCaptured
  <2>3. Unpaused
    BY <1>21, <1>a, <1>d DEF Unpaused, ReleasesCaptured
  <2> QED
    BY <2>1, <2>2, <2>3 DEF Footprint
<1>22. CASE StartsBackoff
  <2>1. Unmoved
    BY <1>22, <1>a, <1>b, <1>c, <1>e, <1>f DEF Unmoved, EndHandled, TypeOK, RetryRecord,
       StartsBackoff
  <2>2. Unfenced
    BY <1>22, <1>a, <1>b, <1>c, <1>f DEF Unfenced, TypeOK, Looped, StartsBackoff
  <2>3. Unpaused
    BY <1>22, <1>a, <1>d DEF Unpaused, StartsBackoff
  <2> QED
    BY <2>1, <2>2, <2>3 DEF Footprint
<1>23. CASE EndsForGood
  <2>1. Unmoved
    <3>1. \E n : ResolveRetry(n, FALSE)
      BY <1>23 DEF EndsForGood
    <3>2. pump'.batch = pump.batch /\ ~retry'.sleeping
      BY <1>f, <3>1
    <3> QED
      BY <1>23, <3>2 DEF Unmoved, EndLeaves, EndHandled, EndsForGood
  <2>2. Unfenced
    <3>1. \E n : ResolveRetry(n, FALSE)
      BY <1>23 DEF EndsForGood
    <3>2. pump.pc = "fence" <=> pump'.pc = "fence"
      BY <1>f, <3>1
    <3> QED
      BY <1>23, <3>2 DEF Unfenced, EndsForGood
  <2>3. Unpaused
    BY <1>23, <1>a, <1>d DEF Unpaused, EndsForGood
  <2> QED
    BY <2>1, <2>2, <2>3 DEF Footprint
<1>24. CASE BackoffEnds
  <2>1. Unmoved
    BY <1>24, <1>a, <1>b, <1>c, <1>e, <1>f DEF Unmoved, EndLeaves, TypeOK, RetryRecord, Looped,
       BackoffEnds
  <2>2. Unfenced
    BY <1>24, <1>a, <1>b, <1>c, <1>f DEF Unfenced, TypeOK, Looped, BackoffEnds
  <2>3. Unpaused
    BY <1>24, <1>a, <1>d DEF Unpaused, BackoffEnds
  <2> QED
    BY <2>1, <2>2, <2>3 DEF Footprint
<1>25. CASE Continues
  <2>1. Unmoved
    BY <1>25, <1>a, <1>b, <1>c, <1>e, <1>f DEF Unmoved, EndLeaves, TypeOK, RetryRecord, Looped,
       Continues
  <2>2. Unfenced
    BY <1>25, <1>a, <1>b, <1>c, <1>f DEF Unfenced, TypeOK, Looped, Continues
  <2>3. Unpaused
    BY <1>25, <1>a, <1>d DEF Unpaused, Continues
  <2> QED
    BY <2>1, <2>2, <2>3 DEF Footprint
<1>26. CASE PumpSeesRunEnd
  <2>1. Unmoved
    BY <1>26, <1>a, <1>b, <1>c, <1>e, <1>f DEF Unmoved, EndLeaves, TypeOK, RetryRecord, Looped,
       PumpSeesRunEnd
  <2>2. Unfenced
    BY <1>26, <1>a, <1>b, <1>c, <1>f DEF Unfenced, TypeOK, Looped, PumpSeesRunEnd
  <2>3. Unpaused
    BY <1>26, <1>a, <1>d DEF Unpaused, PumpSeesRunEnd
  <2> QED
    BY <2>1, <2>2, <2>3 DEF Footprint
<1>27. CASE PumpSeesRetryEnd
  <2>1. Unmoved
    BY <1>27, <1>a, <1>b, <1>c, <1>e, <1>f DEF Unmoved, EndLeaves, TypeOK, RetryRecord, Looped,
       PumpSeesRetryEnd
  <2>2. Unfenced
    BY <1>27, <1>a, <1>b, <1>c, <1>f DEF Unfenced, TypeOK, Looped, PumpSeesRetryEnd
  <2>3. Unpaused
    BY <1>27, <1>a, <1>d DEF Unpaused, PumpSeesRetryEnd
  <2> QED
    BY <2>1, <2>2, <2>3 DEF Footprint
<1>28. CASE PumpSettles
  <2>1. Unmoved
    BY <1>28, <1>a, <1>b, <1>c, <1>e, <1>f DEF Unmoved, EndLeaves, TypeOK, RetryRecord, Looped,
       PumpSettles
  <2>2. Unfenced
    BY <1>28, <1>a, <1>b, <1>c, <1>f DEF Unfenced, TypeOK, Looped, PumpSettles
  <2>3. Unpaused
    BY <1>28, <1>a, <1>d DEF Unpaused, PumpSettles
  <2> QED
    BY <2>1, <2>2, <2>3 DEF Footprint
<1>29. CASE PumpCompletes
  <2>1. Moves
    BY <1>29 DEF Moves
  <2>2. Unfenced
    BY <1>29, <1>a, <1>b, <1>c, <1>f DEF Unfenced, TypeOK, Looped, PumpCompletes
  <2>3. Unpaused
    BY <1>29, <1>a, <1>d DEF Unpaused, PumpCompletes
  <2> QED
    BY <2>1, <2>2, <2>3 DEF Footprint
<1>30. CASE Abort
  <2>1. Moves
    BY <1>30 DEF Moves
  <2>2. Unfenced
    <3>1. \E n : ResolveRetry(n, FALSE)
      BY <1>30 DEF Abort
    <3>2. pump.pc = "fence" <=> pump'.pc = "fence"
      BY <1>f, <3>1
    <3> QED
      BY <1>30, <3>2 DEF Unfenced, Abort
  <2>3. Unpaused
    BY <1>30, <1>h DEF Unpaused, Abort
  <2> QED
    BY <2>1, <2>2, <2>3 DEF Footprint
<1>31. CASE Resume
  <2>1. Unmoved
    BY <1>31, <1>a, <1>b, <1>c, <1>e, <1>f DEF Unmoved, EndLeaves, TypeOK, RetryRecord, Looped,
       Resume
  <2>2. Unfenced
    BY <1>31, <1>a, <1>b, <1>c, <1>f DEF Unfenced, TypeOK, Looped, Resume
  <2>3. Unpaused
    BY <1>31, <1>a, <1>d, <1>g DEF Unpaused, Resume
  <2> QED
    BY <2>1, <2>2, <2>3 DEF Footprint
<1>32. CASE Pause
  <2>1. Unmoved
    BY <1>32, <1>a, <1>b, <1>c, <1>e, <1>f DEF Unmoved, EndLeaves, TypeOK, RetryRecord, Looped,
       Pause
  <2>2. Unfenced
    BY <1>32, <1>a, <1>b, <1>c, <1>f DEF Unfenced, TypeOK, Looped, Pause
  <2>3. (Pause \/ Release \/ CheckpointStep)
    BY <1>32 DEF CheckpointStep
  <2> QED
    BY <2>1, <2>2, <2>3 DEF Footprint
<1>33. CASE Release
  <2>1. Unmoved
    BY <1>33, <1>a, <1>b, <1>c, <1>e, <1>f DEF Unmoved, EndLeaves, TypeOK, RetryRecord, Looped,
       Release
  <2>2. Unfenced
    BY <1>33, <1>a, <1>b, <1>c, <1>f DEF Unfenced, TypeOK, Looped, Release
  <2>3. (Pause \/ Release \/ CheckpointStep)
    BY <1>33 DEF CheckpointStep
  <2> QED
    BY <2>1, <2>2, <2>3 DEF Footprint
<1>34. CASE CheckpointArrives
  <2>1. Unmoved
    BY <1>34, <1>a, <1>b, <1>c, <1>e, <1>f DEF Unmoved, EndLeaves, TypeOK, RetryRecord, Looped,
       CheckpointArrives
  <2>2. Fences
    BY <1>34 DEF Fences, CheckpointStep
  <2>3. (Pause \/ Release \/ CheckpointStep)
    BY <1>34 DEF CheckpointStep
  <2> QED
    BY <2>1, <2>2, <2>3 DEF Footprint
<1>35. CASE CheckpointEnters
  <2>1. Unmoved
    BY <1>35, <1>a, <1>b, <1>c, <1>e, <1>f DEF Unmoved, EndLeaves, TypeOK, RetryRecord, Looped,
       CheckpointEnters
  <2>2. Fences
    BY <1>35 DEF Fences, CheckpointStep
  <2>3. (Pause \/ Release \/ CheckpointStep)
    BY <1>35 DEF CheckpointStep
  <2> QED
    BY <2>1, <2>2, <2>3 DEF Footprint
<1>36. CASE CheckpointTaken
  <2>1. Unmoved
    BY <1>36, <1>a, <1>b, <1>c, <1>e, <1>f DEF Unmoved, EndLeaves, TypeOK, RetryRecord, Looped,
       CheckpointTaken
  <2>2. Fences
    BY <1>36 DEF Fences, CheckpointStep
  <2>3. (Pause \/ Release \/ CheckpointStep)
    BY <1>36 DEF CheckpointStep
  <2> QED
    BY <2>1, <2>2, <2>3 DEF Footprint
<1>37. CASE ClearQueue
  <2>1. Moves
    BY <1>37 DEF Moves
  <2>2. Unfenced
    BY <1>37, <1>a, <1>b, <1>c, <1>f DEF Unfenced, TypeOK, Looped, ClearQueue
  <2>3. Unpaused
    BY <1>37, <1>h DEF Unpaused, ClearQueue
  <2> QED
    BY <2>1, <2>2, <2>3 DEF Footprint
<1>38. ASSUME NEW a \in Actions, TakeBack(a) PROVE Footprint
  <2>1. Moves
    BY <1>38 DEF Moves
  <2>2. Unfenced
    BY <1>38, <1>a, <1>b, <1>c, <1>f DEF Unfenced, TypeOK, Looped, TakeBack
  <2>3. Unpaused
    BY <1>38, <1>a, <1>d DEF Unpaused, TakeBack
  <2> QED
    BY <2>1, <2>2, <2>3 DEF Footprint
<1>39. CASE StartBash
  <2>1. Unmoved
    BY <1>39, <1>a, <1>b, <1>c, <1>e, <1>f DEF Unmoved, EndLeaves, TypeOK, RetryRecord, Looped,
       StartBash
  <2>2. Unfenced
    BY <1>39, <1>a, <1>b, <1>c, <1>f DEF Unfenced, TypeOK, Looped, StartBash
  <2>3. Unpaused
    BY <1>39, <1>a, <1>d DEF Unpaused, StartBash
  <2> QED
    BY <2>1, <2>2, <2>3 DEF Footprint
<1>40. CASE EndBash
  <2>1. Unmoved
    BY <1>40, <1>a, <1>b, <1>c, <1>e, <1>f DEF Unmoved, EndLeaves, TypeOK, RetryRecord, Looped,
       EndBash
  <2>2. Unfenced
    BY <1>40, <1>a, <1>b, <1>c, <1>f DEF Unfenced, TypeOK, Looped, EndBash
  <2>3. Unpaused
    BY <1>40, <1>a, <1>d DEF Unpaused, EndBash
  <2> QED
    BY <2>1, <2>2, <2>3 DEF Footprint
<1>41. CASE DrainBash
  <2>1. Unmoved
    BY <1>41, <1>a, <1>b, <1>c, <1>e, <1>f DEF Unmoved, EndLeaves, TypeOK, RetryRecord, Looped,
       DrainBash
  <2>2. Unfenced
    BY <1>41, <1>a, <1>b, <1>c, <1>f DEF Unfenced, TypeOK, Looped, DrainBash
  <2>3. Unpaused
    BY <1>41, <1>a, <1>d DEF Unpaused, DrainBash
  <2> QED
    BY <2>1, <2>2, <2>3 DEF Footprint
<1> QED
  BY <1>1, <1>2, <1>3, <1>4, <1>5, <1>6, <1>7, <1>8, <1>9, <1>10, <1>11, <1>12, <1>13, <1>14,
     <1>15, <1>16, <1>17, <1>18, <1>19, <1>20, <1>21, <1>22, <1>23, <1>24, <1>25, <1>26, <1>27,
     <1>28, <1>29, <1>30, <1>31, <1>32, <1>33, <1>34, <1>35, <1>36, <1>37, <1>38, <1>39, <1>40,
     <1>41
  DEF Next, PumpStep, RunStep, EventStep, CallerStep, CheckpointStep

-----------------------------------------------------------------------------
(* The queue of the events, and the sequences of prompts.                  *)

\* What an event is, by its type.
LEMMA EventTypes ==
    ASSUME NEW e \in EventRecord
    PROVE  /\ e.type \in {"message", "agent_end"}
           /\ e.type = "message" => e.action \in Actions
           /\ e.type = "agent_end" => e.action = None /\ None \notin Actions
  BY SessionAssumption DEF EventRecord

\* An event at the end of the queue.
LEMMA EventAdded ==
    ASSUME TypeOK, EventsOK, NEW e \in EventRecord, events' = Append(events, e),
           e.type = "message" => e.action \notin Pending
    PROVE  /\ Pending' = Pending \cup {e.action}
           /\ events' # <<>> /\ (events # <<>> => Head(events') = Head(events))
           /\ \A m, n \in DOMAIN events' :
                 events'[m].type = "message" /\ events'[m].action = events'[n].action => m = n
<1>1. /\ Len(events') = Len(events) + 1 /\ Len(events) \in Nat /\ events \in Seq(EventRecord)
      /\ events' \in Seq(EventRecord)
      /\ \A i \in 1..Len(events) : events'[i] = events[i] /\ events[i] \in EventRecord
      /\ events'[Len(events) + 1] = e
  BY AppendProperties, ElementOfSeq DEF TypeOK
<1>2. DOMAIN events' = 1..(Len(events) + 1) /\ DOMAIN events = 1..Len(events)
  BY <1>1
<1>3. \A i \in 1..(Len(events) + 1) : i \in 1..Len(events) \/ i = Len(events) + 1
  BY <1>1
<1>4. Len(events) + 1 \in DOMAIN events' /\ \A i \in 1..Len(events) : i \in DOMAIN events'
  BY <1>1, <1>2
<1>5. Pending' = Pending \cup {e.action}
  <2>1. Pending' = {events'[n].action : n \in DOMAIN events'}
    BY DEF Pending
  <2>2. \A x : x \in Pending' <=> x \in Pending \cup {e.action}
    BY <1>1, <1>2, <1>3, <1>4, <2>1 DEF Pending
  <2> QED
    BY <2>2
<1>6. events' # <<>> /\ (events # <<>> => Head(events') = Head(events))
  <2>1. events' # <<>>
    BY <1>1
  <2>2. ASSUME events # <<>> PROVE Head(events') = Head(events)
    <3>1. 1 \in 1..Len(events)
      BY <1>1, <2>2, EmptySeq
    <3>2. Head(events') = events'[1] /\ Head(events) = events[1]
      BY <1>1, <2>1, <2>2, HeadTailProperties
    <3> QED
      BY <1>1, <3>1, <3>2
  <2> QED
    BY <2>1, <2>2
<1>7. ASSUME NEW m \in DOMAIN events', NEW n \in DOMAIN events',
             events'[m].type = "message", events'[m].action = events'[n].action
      PROVE  m = n
  <2>1. CASE m \in 1..Len(events) /\ n \in 1..Len(events)
    BY <1>1, <1>2, <1>7, <2>1 DEF EventsOK
  <2>2. CASE m \in 1..Len(events) /\ n = Len(events) + 1
    <3>1. events[m].action = e.action /\ events[m].type = "message" /\ events[m] \in EventRecord
      BY <1>1, <1>7, <2>2
    <3>2. e.action \in Pending
      BY <1>2, <2>2, <3>1 DEF Pending
    <3>3. e.type = "agent_end"
      BY <3>2, EventTypes
    <3> QED
      BY <3>1, <3>3, EventTypes
  <2>3. CASE n \in 1..Len(events) /\ m = Len(events) + 1
    <3>1. events[n].action = e.action /\ e.type = "message"
      BY <1>1, <1>7, <2>3
    <3>2. e.action \in Pending
      BY <1>2, <2>3, <3>1 DEF Pending
    <3> QED
      BY <3>1, <3>2
  <2> QED
    BY <1>2, <1>3, <2>1, <2>2, <2>3
<1> QED
  BY <1>5, <1>6, <1>7

\* The event at the head of the queue is processed.
LEMMA EventLeaves ==
    ASSUME TypeOK, EventsOK, events # <<>>, events' = Tail(events)
    PROVE  /\ Head(events) \in EventRecord
           /\ Pending = Pending' \cup {Head(events).action}
           /\ Head(events).type = "message" => Head(events).action \notin Pending'
           /\ \A m, n \in DOMAIN events' :
                 events'[m].type = "message" /\ events'[m].action = events'[n].action => m = n
<1>1. /\ events \in Seq(EventRecord) /\ events' \in Seq(EventRecord)
      /\ Len(events') = Len(events) - 1 /\ Len(events) \in Nat \ {0}
      /\ \A i \in 1..Len(events') : events'[i] = events[i + 1]
      /\ Head(events) = events[1] /\ Head(events) \in EventRecord
  BY HeadTailProperties DEF TypeOK
<1>2. /\ DOMAIN events' = 1..Len(events') /\ DOMAIN events = 1..Len(events)
      /\ \A i \in 1..Len(events') : i + 1 \in 1..Len(events) /\ i + 1 # 1
      /\ \A i \in 1..Len(events) :
            i = 1 \/ (i - 1 \in 1..Len(events') /\ events'[i - 1] = events[i])
      /\ 1 \in 1..Len(events)
  BY <1>1
<1>3. Pending' = {events'[n].action : n \in DOMAIN events'}
  BY DEF Pending
<1>4. Pending = Pending' \cup {Head(events).action}
  <2>1. ASSUME NEW x \in Pending PROVE x \in Pending' \cup {Head(events).action}
    <3>1. PICK i \in 1..Len(events) : x = events[i].action
      BY <1>2, <2>1 DEF Pending
    <3>2. CASE i = 1
      BY <1>1, <3>1, <3>2
    <3>3. CASE i # 1
      BY <1>2, <1>3, <3>1, <3>3
    <3> QED
      BY <3>2, <3>3
  <2>2. ASSUME NEW x \in Pending' PROVE x \in Pending
    <3>1. PICK i \in 1..Len(events') : x = events'[i].action
      BY <1>2, <1>3, <2>2
    <3> QED
      BY <1>1, <1>2, <3>1 DEF Pending
  <2>3. Head(events).action \in Pending
    BY <1>1, <1>2 DEF Pending
  <2> QED
    BY <2>1, <2>2, <2>3
<1>5. ASSUME Head(events).type = "message", Head(events).action \in Pending'
      PROVE  FALSE
  <2>1. PICK n \in 1..Len(events') : events'[n].action = Head(events).action
    BY <1>2, <1>3, <1>5
  <2>2. events[n + 1].action = events[1].action /\ n + 1 \in DOMAIN events /\ 1 \in DOMAIN events
    BY <1>1, <1>2, <2>1
  <2>3. 1 = n + 1
    BY <1>1, <1>5, <2>2 DEF EventsOK
  <2> QED
    BY <1>2, <2>3
<1>6. ASSUME NEW m \in DOMAIN events', NEW n \in DOMAIN events',
             events'[m].type = "message", events'[m].action = events'[n].action
      PROVE  m = n
  <2>1. m + 1 = n + 1
    BY <1>1, <1>2, <1>6 DEF EventsOK
  <2> QED
    BY <1>1, <1>2, <2>1
<1> QED
  BY <1>1, <1>4, <1>5, <1>6

-----------------------------------------------------------------------------
(* The invariant.                                                          *)

\* No prompt twice in a sequence, and a run that is over has taken in its prompts.
SequencesOK ==
    /\ IsInjective(admitted) /\ IsInjective(run.todo)
    /\ IsInjective(transcript) /\ IsInjective(persisted) /\ IsInjective(pump.batch)
    /\ run.st # "running" => run.todo = <<>>

\* Nothing of the prompt has reached the agent.
Fresh(a) ==
    /\ ~act[a].durable /\ act[a].capture = "no"
    /\ a \notin Range(transcript) \cup Range(persisted) \cup Pending

\* The agent has taken the prompt in, and it is in the session file or will be.
Kept(a) ==
    /\ act[a].durable /\ act[a].capture = "no" /\ ticket[a].delivered = "delivered"
    /\ a \notin Range(run.todo) /\ (a \in Pending <=> a \notin Range(persisted))

\* What the lifecycle of a prompt says of its ticket, of the transcript and of the file.
PromptOK(a) ==
    /\ act[a].st \in {"new", "queued", "selected", "preparing", "committing"} =>
          /\ Fresh(a) /\ ticket[a].delivered = "open" /\ ticket[a].completed = "open"
          /\ act[a].st # "committing" => a \notin Range(run.todo)
    /\ act[a].st = "running" => Kept(a) /\ ticket[a].completed = "open"
    /\ act[a].st = "completed" => Kept(a) /\ ticket[a].completed = "ok"
    /\ act[a].st = "failed" =>
          /\ Fresh(a) /\ a \notin Range(run.todo)
          /\ ticket[a].delivered = "rejected" /\ ticket[a].completed = "error"
    /\ act[a].st = "cancelled" =>
          /\ ticket[a].delivered \in {"not_applicable", "rejected"} /\ ticket[a].completed = "error"
          /\ act[a].capture = "no" =>
                a \notin Range(run.todo) \cup Range(transcript) \cup Range(persisted) \cup Pending
          /\ act[a].capture # "lost" => a \notin Range(persisted)
    /\ a \in Range(transcript) \cup Range(persisted) \cup Pending => act[a].durable
    /\ a \in Range(run.todo) => ~act[a].durable
    /\ a \in Pending => a \notin Range(persisted)
    /\ act[a].st = "new" <=> a \notin Range(admitted)
    /\ door[a] # "done" => act[a].st = "new"

\* While a checkpoint is awaited nothing starts; once it is taken, what runs is in the file.
CheckpointOK ==
    /\ checkpoint # "none" => sched.paused
    /\ checkpoint \in {"events", "taken"} => ~BlocksCheckpoint
    /\ checkpoint = "taken" =>
          \A a \in Actions : act[a].st = "running" => a \in Range(persisted)

-----------------------------------------------------------------------------
(* One prompt in one step.                                                 *)

\* Around the prompt nothing happens, except that a run or the transcript drops it.
Around(a) ==
    /\ a \in Range(run'.todo) => a \in Range(run.todo)
    /\ a \in Range(transcript') => a \in Range(transcript)
    /\ a \in Range(persisted') <=> a \in Range(persisted)
    /\ a \in Pending' <=> a \in Pending
    /\ a \in Range(admitted') <=> a \in Range(admitted)
    /\ door'[a] # "done" => door[a] # "done"

\* A prompt that nothing touches stays as it is.
LEMMA PromptRests ==
    ASSUME NEW a \in Actions, PromptOK(a), Moved(a, act[a].st), Around(a)
    PROVE  PromptOK(a)'
  BY DEF PromptOK, Moved, Around, Fresh, Kept

\* A prompt that is not dispatched goes from one waiting state to another.
LEMMA PromptWaits ==
    ASSUME NEW a \in Actions, PromptOK(a), Around(a),
           act[a].st \in {"queued", "selected", "preparing"},
           NEW s \in {"queued", "selected", "preparing", "committing"}, Moved(a, s)
    PROVE  PromptOK(a)'
  BY DEF PromptOK, Moved, Around, Fresh, Kept

\* A batch that fails rejects the promises of its prompts.
LEMMA PromptFails ==
    ASSUME NEW a \in Actions, PromptOK(a), Around(a), act[a].st = "preparing",
           act'[a].st = "failed", act'[a].durable = act[a].durable,
           act'[a].capture = act[a].capture,
           ticket'[a] = [delivered |-> "rejected", completed |-> "error"]
    PROVE  PromptOK(a)'
  BY DEF PromptOK, Around, Fresh, Kept

\* A prompt is taken back before its message started: captured if it was dispatched.
LEMMA PromptIsCancelled ==
    ASSUME NEW a \in Actions, PromptOK(a), Around(a),
           act[a].st \in {"queued", "selected", "preparing", "committing"},
           act'[a].st = "cancelled", act'[a].durable = act[a].durable,
           act'[a].capture = IF act[a].st = "committing" THEN "on" ELSE "no",
           ticket'[a].delivered \in {"not_applicable", "rejected"},
           ticket'[a].completed = "error"
    PROVE  PromptOK(a)'
  BY DEF PromptOK, Around, Fresh, Kept

\* A prompt that ran is completed.
LEMMA PromptCompletes ==
    ASSUME NEW a \in Actions, PromptOK(a), Around(a), act[a].st = "running",
           act'[a].st = "completed", act'[a].durable = act[a].durable,
           act'[a].capture = act[a].capture,
           ticket'[a].delivered = ticket[a].delivered, ticket'[a].completed = "ok"
    PROVE  PromptOK(a)'
  BY DEF PromptOK, Around, Fresh, Kept

\* A capture that is released is over, or lost while the run still holds the prompt.
LEMMA PromptIsReleased ==
    ASSUME NEW a \in Actions, PromptOK(a), Around(a), act[a].st \in Statuses,
           a \in Captured, a \notin Range(transcript'),
           act'[a].st = act[a].st, act'[a].durable = act[a].durable, ticket'[a] = ticket[a],
           act'[a].capture = IF a \in Range(run.todo) \cup Pending THEN "lost" ELSE "no"
    PROVE  PromptOK(a)'
  BY DEF PromptOK, Around, Fresh, Kept, Captured, Statuses, Clearable, Active, Terminal

\* message_end: the prompt is in the transcript, and its event in the queue.
LEMMA PromptIsTakenIn ==
    ASSUME NEW a \in Actions, PromptOK(a), act[a].st \in Statuses,
           a \in Range(run.todo), a \notin Range(run'.todo),
           a \in Pending', a \in Range(persisted') <=> a \in Range(persisted),
           a \in Range(admitted') <=> a \in Range(admitted), door'[a] = door[a],
           act'[a].durable, act'[a].capture = act[a].capture,
           act'[a].st = IF act[a].st = "committing" THEN "running" ELSE act[a].st,
           ticket'[a].completed = ticket[a].completed,
           ticket'[a].delivered = IF ticket[a].delivered = "open" THEN "delivered"
                                  ELSE ticket[a].delivered
    PROVE  PromptOK(a)'
  BY DEF PromptOK, Fresh, Kept, Statuses, Clearable, Active, Terminal

\* Its event is processed: the prompt is in the file, or has left the transcript.
LEMMA PromptIsPersisted ==
    ASSUME NEW a \in Actions, PromptOK(a), act[a] \in ActionRecord, Moved(a, act[a].st),
           a \in Pending, a \notin Pending',
           a \in Range(run'.todo) => a \in Range(run.todo),
           a \in Range(transcript') => a \in Range(transcript) /\ a \notin Captured,
           a \in Range(persisted') <=> a \in Range(persisted) \/ a \notin Captured,
           a \in Range(admitted') <=> a \in Range(admitted), door'[a] = door[a]
    PROVE  PromptOK(a)'
<1>1. a \notin Range(persisted) /\ act[a].durable
  BY DEF PromptOK
<1>2. act[a].st \in {"running", "completed", "cancelled"}
  BY DEF PromptOK, Fresh, ActionRecord, Clearable, Active, Terminal
<1>3. CASE act[a].st \in {"running", "completed"}
  <2>1. a \notin Captured
    BY <1>3 DEF PromptOK, Kept, Captured
  <2> QED
    BY <1>1, <1>3, <2>1 DEF PromptOK, Moved, Kept
<1>4. CASE act[a].st = "cancelled"
  <2>1. act[a].capture \in {"on", "lost"}
    BY <1>4 DEF PromptOK, ActionRecord
  <2>2. a \in Captured <=> act[a].capture = "on"
    BY DEF Captured
  <2>3. /\ a \notin Range(run'.todo) /\ a \notin Pending'
        /\ a \in Range(persisted') => act[a].capture = "lost"
        /\ act'[a].capture = act[a].capture /\ act'[a].durable /\ act'[a].st = "cancelled"
        /\ ticket'[a] = ticket[a]
    BY <1>1, <1>4, <2>1, <2>2 DEF PromptOK, Moved
  <2>4. a \in Range(admitted') /\ door'[a] = "done"
    BY <1>4 DEF PromptOK
  <2>5. ticket[a].delivered \in {"not_applicable", "rejected"} /\ ticket[a].completed = "error"
    BY <1>4 DEF PromptOK
  <2> QED
    BY <2>1, <2>3, <2>4, <2>5 DEF PromptOK
<1> QED
  BY <1>2, <1>3, <1>4

\* The inductive invariant.
IInv ==
    /\ TypeOK /\ FenceOK /\ EventsOK /\ SequencesOK /\ CheckpointOK
    /\ \A a \in Actions : PromptOK(a)

\* The end of a run leaves the queue of the events: the prompts' events stay.
LEMMA EndKeepsPending ==
    ASSUME TypeOK, EventsOK, events' = events \/ EndLeaves, NEW a \in Actions
    PROVE  a \in Pending' <=> a \in Pending
<1>1. CASE events' = events
  BY <1>1 DEF Pending
<1>2. CASE EndLeaves
  <2>1. /\ Head(events) \in EventRecord
        /\ Pending = Pending' \cup {Head(events).action}
    BY <1>2, EventLeaves DEF EndLeaves
  <2>2. Head(events).action # a
    BY <1>2, <2>1, EventTypes DEF EndLeaves
  <2> QED
    BY <2>1, <2>2
<1> QED
  BY <1>1, <1>2

\* Every step keeps a prompt's promises, its capture and its places in the sequences in line
\* with its lifecycle.
LEMMA PromptStep ==
    ASSUME IInv, [Next]_vars
    PROVE  \A a \in Actions : PromptOK(a)'
<1> USE DEF input, admission, agent
<1>0. /\ TypeOK /\ FenceOK /\ EventsOK /\ SequencesOK
      /\ \A a \in Actions : PromptOK(a) /\ act[a] \in ActionRecord /\ act[a].st \in Statuses
  BY DEF IInv, TypeOK, ActionRecord, Statuses
<1>a. ASSUME UNCHANGED <<run, transcript, persisted, events, admitted, door>>, NEW a \in Actions
      PROVE  Around(a)
  BY <1>a DEF Around, Pending
<1>1. CASE Unmoved
  <2> TAKE a \in Actions
  <2>1. Moved(a, act[a].st)
    BY <1>1 DEF Unmoved, Moved
  <2>2. a \in Pending' <=> a \in Pending
    BY <1>0, <1>1, EndKeepsPending DEF Unmoved
  <2>3. a \in Range(run'.todo) => a \in Range(run.todo)
    BY <1>1 DEF Unmoved, Range
  <2>4. Around(a)
    BY <1>1, <2>2, <2>3 DEF Unmoved, Around
  <2> QED
    BY <1>0, <2>1, <2>4, PromptRests
<1>2. ASSUME NEW p \in Actions, NEW q \in BOOLEAN, Admit(p, q)
      PROVE  \A a \in Actions : PromptOK(a)'
  <2>1. /\ door' = [door EXCEPT ![p] = "done"] /\ admitted' = Append(admitted, p)
        /\ door[p] # "done"
        /\ UNCHANGED <<run, transcript, persisted, events>>
    BY <1>2 DEF Admit, Leave
  <2>2. PICK s \in {"selected", "queued"} : Moved(p, s)
    BY <1>0, <1>2, AdmitActs
  <2>3. Range(admitted') = Range(admitted) \cup {p}
    BY <1>0, <2>1, RangeGrows DEF TypeOK
  <2>4. act[p].st = "new" /\ PromptOK(p)
    BY <1>0, <2>1 DEF PromptOK
  <2>5. PromptOK(p)'
    <3>1. door'[p] = "done"
      BY <1>0, <2>1 DEF TypeOK
    <3>2. Pending' = Pending
      BY <2>1 DEF Pending
    <3>3. Fresh(p)' /\ p \notin Range(run'.todo)
      BY <2>1, <2>2, <2>4, <3>2 DEF PromptOK, Fresh, Moved
    <3> QED
      BY <2>2, <2>3, <2>4, <3>1, <3>3 DEF PromptOK, Moved, Fresh
  <2>6. ASSUME NEW a \in Actions \ {p} PROVE PromptOK(a)'
    <3>1. Moved(a, act[a].st)
      BY <1>0, <1>2, AdmitActs
    <3>2. Around(a)
      BY <1>0, <2>1, <2>3 DEF Around, Pending, TypeOK
    <3> QED
      BY <1>0, <3>1, <3>2, PromptRests
  <2> QED
    BY <2>5, <2>6
<1>3. CASE PumpFindsAgentIdle
  <2> TAKE a \in Actions
  <2>1. Around(a)
    BY <1>3, <1>a DEF PumpFindsAgentIdle
  <2>2. Moved(a, act[a].st) \/ (act[a].st = "selected" /\ Moved(a, "queued"))
    BY <1>0, <1>3, IdleActs
  <2> QED
    BY <1>0, <2>1, <2>2, PromptRests, PromptWaits
<1>4. CASE PumpSelects
  <2> TAKE a \in Actions
  <2>1. Around(a)
    BY <1>4, <1>a DEF PumpSelects
  <2>2. \/ Moved(a, act[a].st)
        \/ act[a].st \in {"queued", "selected"} /\ Moved(a, "preparing")
    BY <1>0, <1>4, SelectsActs
  <2> QED
    BY <1>0, <2>1, <2>2, PromptRests, PromptWaits
<1>5. ASSUME Defers \/ Fails, UNCHANGED <<run, transcript, persisted, events, door>>
      PROVE  \A a \in Actions : PromptOK(a)'
  <2> TAKE a \in Actions
  <2>1. Around(a)
    BY <1>0, <1>5, <1>a, GivesBackActs
  <2>2. \/ Moved(a, act[a].st)
        \/ act[a].st = "preparing" /\ Moved(a, "queued")
        \/ /\ act[a].st = "preparing" /\ act'[a].st = "failed"
           /\ act'[a].durable = act[a].durable /\ act'[a].capture = act[a].capture
           /\ ticket'[a] = [delivered |-> "rejected", completed |-> "error"]
    BY <1>0, <1>5, GivesBackActs
  <2>3. CASE Moved(a, act[a].st)
    BY <1>0, <2>1, <2>3, PromptRests
  <2>4. CASE act[a].st = "preparing" /\ Moved(a, "queued")
    BY <1>0, <2>1, <2>4, PromptWaits
  <2>5. CASE /\ act[a].st = "preparing" /\ act'[a].st = "failed"
             /\ act'[a].durable = act[a].durable /\ act'[a].capture = act[a].capture
             /\ ticket'[a] = [delivered |-> "rejected", completed |-> "error"]
    BY <1>0, <2>1, <2>5, PromptFails
  <2> QED
    BY <2>2, <2>3, <2>4, <2>5
<1>b. ASSUME UNCHANGED <<input, run, transcript, persisted, events, door>>
      PROVE  \A a \in Actions : PromptOK(a)'
  <2> TAKE a \in Actions
  <2>1. Around(a) /\ Moved(a, act[a].st)
    BY <1>a, <1>b DEF Moved
  <2> QED
    BY <1>0, <2>1, PromptRests
<1>6. ASSUME NEW valid \in BOOLEAN, Validated(valid) PROVE \A a \in Actions : PromptOK(a)'
  <2>1. UNCHANGED <<run, transcript, persisted, events, door>>
    BY <1>6 DEF Validated
  <2>2. Defers \/ Fails \/ UNCHANGED input
    BY <1>6 DEF Validated
  <2> QED
    BY <1>5, <1>b, <2>1, <2>2
<1>7. CASE PumpPrepares
  <2>1. UNCHANGED <<run, transcript, persisted, events, door>>
    BY <1>7 DEF PumpPrepares
  <2>2. Defers \/ UNCHANGED input
    BY <1>7 DEF PumpPrepares
  <2> QED
    BY <1>5, <1>b, <2>1, <2>2
<1>8. CASE PumpIsPrepared
  <2> TAKE a \in Actions
  <2>1. Around(a)
    BY <1>8, <1>a DEF PumpIsPrepared
  <2>2. Moved(a, act[a].st)
    BY <1>0, <1>8, PreparedActs
  <2> QED
    BY <1>0, <2>1, <2>2, PromptRests
<1>9. CASE PumpDispatches
  <2>1. UNCHANGED <<door, transcript, persisted, events>>
    BY <1>9 DEF PumpDispatches
  <2>2. CASE ~Dispatches
    <3>1. Defers /\ UNCHANGED run
      BY <1>9, <2>2 DEF Dispatches, PumpDispatches
    <3> QED
      BY <1>5, <2>1, <3>1
  <2>3. CASE Dispatches
    <3> TAKE a \in Actions
    <3>1. /\ run'.todo = pump.turns /\ admitted' = admitted /\ Pending' = Pending
          /\ run.todo = <<>>
      BY <1>0, <2>1, <2>3, DispatchActs DEF Dispatches, PumpDispatches, Pending, SequencesOK,
         Streaming
    <3>2. IF a \in Range(pump.turns) THEN act[a].st = "preparing" /\ Moved(a, "committing")
          ELSE Moved(a, act[a].st)
      BY <1>0, <2>3, DispatchActs
    <3>3. CASE a \in Range(pump.turns)
      <4>1. Fresh(a) /\ ticket[a].delivered = "open" /\ ticket[a].completed = "open"
        BY <1>0, <3>2, <3>3 DEF PromptOK
      <4>2. a \in Range(admitted) /\ door[a] = "done"
        BY <1>0, <3>2, <3>3 DEF PromptOK
      <4> QED
        BY <2>1, <3>1, <3>2, <3>3, <4>1, <4>2 DEF PromptOK, Fresh, Moved
    <3>4. CASE a \notin Range(pump.turns)
      <4>1. Around(a)
        BY <2>1, <3>1, <3>4 DEF Around
      <4> QED
        BY <1>0, <3>2, <3>4, <4>1, PromptRests
    <3> QED
      BY <3>3, <3>4
  <2> QED
    BY <2>2, <2>3
<1>10. CASE PumpCompletes
  <2> TAKE a \in Actions
  <2>1. Around(a)
    BY <1>10, <1>a DEF PumpCompletes
  <2>2. \/ Moved(a, act[a].st)
        \/ /\ act[a].st = "running" /\ act'[a].st = "completed"
           /\ act'[a].durable = act[a].durable /\ act'[a].capture = act[a].capture
           /\ ticket'[a].delivered = ticket[a].delivered /\ ticket'[a].completed = "ok"
    BY <1>0, <1>10, CompletesActs
  <2> QED
    BY <1>0, <2>1, <2>2, PromptRests, PromptCompletes
<1>11. CASE TakeIn
  <2>0. PICK p \in Actions : p = Head(run.todo)
    BY <1>0, <1>11, TakeInActs
  <2>1. /\ Range(run.todo) = Range(run'.todo) \cup {p} /\ p \notin Range(run'.todo)
        /\ run'.todo \in Seq(Actions)
    <3>1. run.todo \in Seq(Actions) /\ run.todo # <<>> /\ IsInjective(run.todo)
      BY <1>0, <1>11 DEF TypeOK, RunRecord, TakeIn, SequencesOK
    <3>2. run'.todo = Tail(run.todo)
      BY <1>0, <1>11 DEF TypeOK, RunRecord, TakeIn
    <3> QED
      BY <2>0, <3>1, <3>2, RangeShrinks
  <2> DEFINE e == [type |-> "message", action |-> p, retryable |-> FALSE]
  <2>2. /\ transcript' = Append(transcript, p) /\ events' = Append(events, e)
        /\ UNCHANGED <<admitted, door, persisted>>
    BY <1>11, <2>0 DEF TakeIn
  <2>3. /\ act'[p].durable /\ act'[p].capture = act[p].capture
        /\ act'[p].st = IF act[p].st = "committing" THEN "running" ELSE act[p].st
        /\ ticket'[p].completed = ticket[p].completed
        /\ ticket'[p].delivered = IF ticket[p].delivered = "open" THEN "delivered"
                                  ELSE ticket[p].delivered
        /\ \A b \in Actions \ {p} : Moved(b, act[b].st)
    BY <1>0, <1>11, <2>0, TakeInActs
  <2>4. p \notin Pending
    BY <1>0, <2>1 DEF PromptOK
  <2>5. Pending' = Pending \cup {p}
    <3>1. e \in EventRecord /\ e.action = p
      BY <2>1 DEF EventRecord
    <3> HIDE DEF e
    <3> QED
      BY <1>0, <2>2, <2>4, <3>1, EventAdded
  <2>6. Range(transcript') = Range(transcript) \cup {p}
    BY <1>0, <2>1, <2>2, RangeGrows DEF TypeOK
  <2>7. PromptOK(p)'
    <3>1. PromptOK(p) /\ act[p].st \in Statuses
      BY <1>0
    <3>2. p \in Range(run.todo) /\ p \in Pending' /\ door'[p] = door[p]
      BY <2>1, <2>2, <2>5
    <3> QED
      BY <2>1, <2>2, <2>3, <3>1, <3>2, PromptIsTakenIn
  <2>8. ASSUME NEW a \in Actions \ {p} PROVE PromptOK(a)'
    <3>1. Around(a)
      BY <2>1, <2>2, <2>5, <2>6 DEF Around
    <3> QED
      BY <1>0, <2>3, <3>1, PromptRests
  <2> QED
    BY <2>7, <2>8
<1>12. ASSUME NEW retryable \in BOOLEAN, EndRun(retryable) PROVE \A a \in Actions : PromptOK(a)'
  <2> DEFINE e == [type |-> "agent_end", action |-> None, retryable |-> retryable]
  <2>1. /\ events' = Append(events, e) /\ transcript' = Without(transcript, Captured)
        /\ run' = [run EXCEPT !.st = "ending"]
        /\ UNCHANGED <<act, ticket, admitted, door, persisted>>
    BY <1>12 DEF EndRun
  <2>2. Pending' = Pending \cup {None} /\ None \notin Actions
    <3>1. e \in EventRecord /\ e.action = None /\ e.type = "agent_end"
      BY <1>12 DEF EventRecord
    <3> HIDE DEF e
    <3> QED
      BY <1>0, <2>1, <3>1, EventAdded, EventTypes
  <2>3. Range(transcript') \subseteq Range(transcript)
    BY <1>0, <2>1, OnlyKeeps DEF TypeOK, Without
  <2>4. run'.todo = run.todo
    BY <1>0, <2>1 DEF TypeOK, RunRecord
  <2> TAKE a \in Actions
  <2>5. Around(a)
    BY <2>1, <2>2, <2>3, <2>4 DEF Around
  <2>6. Moved(a, act[a].st)
    BY <2>1 DEF Moved
  <2> QED
    BY <1>0, <2>5, <2>6, PromptRests
<1>13. CASE Persists
  <2>0. PICK p \in Actions : p = Head(events).action
    <3>1. events # <<>> /\ events' = Tail(events) /\ Head(events).type = "message"
      BY <1>13 DEF Persists
    <3>2. Head(events) \in EventRecord
      BY <1>0, <3>1, EventLeaves
    <3> QED
      BY <3>1, <3>2, EventTypes
  <2>1. /\ events # <<>> /\ events' = Tail(events) /\ Head(events).type = "message"
        /\ persisted' = IF p \in Captured THEN persisted ELSE Append(persisted, p)
        /\ transcript' = IF p \in Captured THEN Without(transcript, Captured) ELSE transcript
        /\ UNCHANGED <<act, ticket, admitted, door, run>>
    BY <1>13, <2>0 DEF Persists
  <2>2. Pending = Pending' \cup {p} /\ p \notin Pending'
    BY <1>0, <2>0, <2>1, EventLeaves
  <2>3. Range(persisted') = IF p \in Captured THEN Range(persisted) ELSE Range(persisted) \cup {p}
    BY <1>0, <2>1, <2>2, RangeGrows DEF TypeOK
  <2>4. /\ Range(transcript') \subseteq Range(transcript)
        /\ p \in Captured => p \notin Range(transcript')
    BY <1>0, <2>1, <2>2, OnlyKeeps DEF TypeOK, Without
  <2>5. PromptOK(p)'
    <3>1. PromptOK(p) /\ act[p] \in ActionRecord /\ Moved(p, act[p].st)
      BY <1>0, <2>1, <2>2 DEF Moved
    <3>2. /\ p \in Pending /\ p \notin Pending'
          /\ p \in Range(run'.todo) => p \in Range(run.todo)
          /\ p \in Range(transcript') => p \in Range(transcript) /\ p \notin Captured
          /\ p \in Range(persisted') <=> p \in Range(persisted) \/ p \notin Captured
          /\ p \in Range(admitted') <=> p \in Range(admitted)
          /\ door'[p] = door[p]
      BY <2>1, <2>2, <2>3, <2>4
    <3> QED
      BY <2>2, <3>1, <3>2, PromptIsPersisted
  <2>6. ASSUME NEW a \in Actions \ {p} PROVE PromptOK(a)'
    <3>1. Around(a)
      BY <2>1, <2>2, <2>3, <2>4 DEF Around
    <3>2. Moved(a, act[a].st)
      BY <2>1 DEF Moved
    <3> QED
      BY <1>0, <3>1, <3>2, PromptRests
  <2> QED
    BY <2>5, <2>6
<1>14. CASE ReleasesCaptured
  <2>1. /\ EndLeaves /\ transcript' = Without(transcript, Captured)
        /\ UNCHANGED <<admitted, door, run, persisted>>
    BY <1>14 DEF ReleasesCaptured, EndHandled, EndLeaves
  <2>2. Range(transcript') = Range(transcript) \cap (Actions \ Captured)
    BY <1>0, <2>1, OnlyKeeps DEF TypeOK, Without
  <2> TAKE a \in Actions
  <2>3. a \in Pending' <=> a \in Pending
    BY <1>0, <2>1, EndKeepsPending
  <2>4. Around(a)
    BY <2>1, <2>2, <2>3 DEF Around
  <2>5. /\ ticket' = ticket
        /\ IF a \in Captured
           THEN /\ act'[a].st = act[a].st /\ act'[a].durable = act[a].durable
                /\ act'[a].capture = IF a \in Range(run.todo) \cup Pending THEN "lost" ELSE "no"
           ELSE Moved(a, act[a].st)
    BY <1>0, <1>14, ReleasesActs
  <2>6. CASE a \notin Captured
    BY <1>0, <2>4, <2>5, <2>6, PromptRests
  <2>7. CASE a \in Captured
    <3>1. a \notin Range(transcript')
      BY <2>2, <2>7
    <3> QED
      BY <1>0, <2>4, <2>5, <2>7, <3>1, PromptIsReleased
  <2> QED
    BY <2>6, <2>7
<1>15. ASSUME NEW A \in SUBSET Actions, Cancel(A), run'.todo = run.todo,
              UNCHANGED <<transcript, persisted, door>>, events' = events \/ EndLeaves,
              \A a \in A : act[a].st \in {"queued", "selected", "preparing", "committing"}
       PROVE  \A a \in Actions : PromptOK(a)'
  <2> TAKE a \in Actions
  <2>1. a \in Pending' <=> a \in Pending
    BY <1>0, <1>15, EndKeepsPending
  <2>2. /\ admitted' = admitted
        /\ IF a \in A
           THEN /\ act'[a].st = "cancelled" /\ act'[a].durable = act[a].durable
                /\ act'[a].capture = IF act[a].st = "committing" THEN "on" ELSE "no"
                /\ ticket'[a].delivered \in {"not_applicable", "rejected"}
                /\ ticket'[a].completed = "error"
           ELSE Moved(a, act[a].st)
    BY <1>0, <1>15, CancelActs
  <2>3. Around(a)
    BY <1>15, <2>1, <2>2 DEF Around
  <2>4. CASE a \in A
    BY <1>0, <1>15, <2>2, <2>3, <2>4, PromptIsCancelled
  <2>5. CASE a \notin A
    BY <1>0, <2>2, <2>3, <2>5, PromptRests
  <2> QED
    BY <2>4, <2>5
<1>16. AbortsRun(run).todo = run.todo
  BY <1>0 DEF AbortsRun, TypeOK, RunRecord
<1>17. CASE Abort
  <2> DEFINE A == {a \in Having(act, Clearable) : ~act[a].visible}
  <2>1. /\ Cancel(A) /\ run' = AbortsRun(run)
        /\ UNCHANGED <<transcript, persisted, door>>
    BY <1>17 DEF Abort
  <2>2. events' = events \/ EndLeaves
    BY <1>0, <1>17 DEF Abort, EndLeaves, EventsOK
  <2>3. A \in SUBSET Actions /\ \A a \in A : act[a].st \in {"queued", "selected", "preparing"}
    BY DEF Having, Clearable
  <2> HIDE DEF A
  <2> QED
    BY <1>15, <1>16, <2>1, <2>2, <2>3
<1>18. CASE ClearQueue
  <2> DEFINE A == {a \in Having(act, Clearable) : act[a].visible}
  <2>1. /\ Cancel(A) /\ run' = run /\ events' = events
        /\ UNCHANGED <<transcript, persisted, door>>
    BY <1>18 DEF ClearQueue
  <2>3. A \in SUBSET Actions /\ \A a \in A : act[a].st \in {"queued", "selected", "preparing"}
    BY DEF Having, Clearable
  <2> HIDE DEF A
  <2> QED
    BY <1>15, <2>1, <2>3
<1>19. ASSUME NEW p \in Actions, TakeBack(p) PROVE \A a \in Actions : PromptOK(a)'
  <2> DEFINE A == {p}
  <2>1. /\ Cancel(A) /\ run' \in {run, AbortsRun(run)} /\ events' = events
        /\ UNCHANGED <<transcript, persisted, door>>
    BY <1>19 DEF TakeBack
  <2>3. A \in SUBSET Actions
        /\ \A a \in A : act[a].st \in {"queued", "selected", "preparing", "committing"}
    BY <1>19 DEF TakeBack, Clearable
  <2> HIDE DEF A
  <2> QED
    BY <1>15, <1>16, <2>1, <2>3
<1> QED
  <2>1. Moves \/ Unmoved
    BY <1>0, Kinds DEF Footprint
  <2> QED
    BY <1>1, <1>2, <1>3, <1>4, <1>6, <1>7, <1>8, <1>9, <1>10, <1>11, <1>12, <1>13, <1>14, <1>17,
       <1>18, <1>19, <2>1 DEF Moves

\* A message is in the queue of events once, and a backoff sleeps on an agent_end.
LEMMA EventsStep ==
    ASSUME IInv, [Next]_vars
    PROVE  EventsOK'
<1> USE DEF input, admission, agent
<1>0. TypeOK /\ EventsOK /\ SequencesOK /\ \A a \in Actions : PromptOK(a)
  BY DEF IInv
<1> DEFINE Single == \A m, n \in DOMAIN events :
                        events[m].type = "message" /\ events[m].action = events[n].action => m = n
<1>a. /\ EventsOK <=> Single /\ (retry.sleeping => events # <<>> /\ Head(events).type = "agent_end")
      /\ EventsOK' <=>
            Single' /\ (retry'.sleeping => events' # <<>> /\ Head(events').type = "agent_end")
  BY DEF EventsOK
<1>b. ASSUME events' = events PROVE Single'
  BY <1>0, <1>b DEF EventsOK
<1>c. ASSUME events # <<>>, events' = Tail(events) PROVE Single'
  BY <1>0, <1>c, EventLeaves
<1>d. ASSUME NEW e \in EventRecord, events' = Append(events, e),
             e.type = "message" => e.action \notin Pending
      PROVE  Single' /\ events' # <<>> /\ (events # <<>> => Head(events') = Head(events))
  BY <1>0, <1>d, EventAdded
<1> HIDE DEF Single
<1>e. ASSUME UNCHANGED <<events, retry>> PROVE EventsOK'
  BY <1>0, <1>a, <1>b, <1>e
<1>1. CASE Unmoved
  <2>1. Single'
    BY <1>1, <1>b, <1>c DEF Unmoved, EndLeaves
  <2> QED
    BY <1>1, <1>a, <2>1 DEF Unmoved
<1>2. CASE TakeIn
  <2>0. PICK p \in Actions : p = Head(run.todo)
    BY <1>0, <1>2, TakeInActs
  <2> DEFINE e == [type |-> "message", action |-> p, retryable |-> FALSE]
  <2>1. events' = Append(events, e) /\ retry' = retry
    BY <1>2, <2>0 DEF TakeIn
  <2>2. e \in EventRecord /\ e.action = p
    BY DEF EventRecord
  <2>3. p \in Range(run.todo)
    <3>1. run.todo \in Seq(Actions) /\ run.todo # <<>>
      BY <1>0, <1>2 DEF TypeOK, RunRecord, TakeIn
    <3> QED
      BY <2>0, <3>1, RangeShrinks
  <2>4. p \notin Pending
    BY <1>0, <2>3 DEF PromptOK
  <2> HIDE DEF e
  <2>5. Single' /\ events' # <<>> /\ (events # <<>> => Head(events') = Head(events))
    BY <1>d, <2>1, <2>2, <2>4
  <2> QED
    BY <1>0, <1>a, <2>1, <2>5
<1>3. ASSUME NEW retryable \in BOOLEAN, EndRun(retryable) PROVE EventsOK'
  <2> DEFINE e == [type |-> "agent_end", action |-> None, retryable |-> retryable]
  <2>1. events' = Append(events, e) /\ retry'.sleeping = retry.sleeping
    BY <1>0, <1>3 DEF EndRun, TypeOK, RetryRecord
  <2>2. e \in EventRecord /\ e.type = "agent_end"
    BY DEF EventRecord
  <2> HIDE DEF e
  <2>5. Single' /\ events' # <<>> /\ (events # <<>> => Head(events') = Head(events))
    BY <1>d, <2>1, <2>2
  <2> QED
    BY <1>0, <1>a, <2>1, <2>5
<1>4. CASE Persists
  <2>1. /\ events # <<>> /\ events' = Tail(events) /\ Head(events).type = "message"
        /\ retry' = retry
    BY <1>4 DEF Persists
  <2>2. ~retry.sleeping
    BY <1>0, <1>a, <2>1
  <2> QED
    BY <1>a, <1>c, <2>1, <2>2
<1>5. CASE ReleasesCaptured
  <2>1. events # <<>> /\ events' = Tail(events)
    BY <1>5 DEF ReleasesCaptured, EndHandled
  <2>2. ~retry'.sleeping
    BY <1>0, <1>5 DEF ReleasesCaptured, ResolveRetry, TypeOK, RetryRecord
  <2> QED
    BY <1>a, <1>c, <2>1, <2>2
<1>6. CASE Abort
  <2>1. events' = events \/ (events # <<>> /\ events' = Tail(events))
    BY <1>0, <1>6 DEF Abort, EventsOK
  <2>2. ~retry'.sleeping
    BY <1>0, <1>6 DEF Abort, ResolveRetry, TypeOK, RetryRecord
  <2> QED
    BY <1>a, <1>b, <1>c, <2>1, <2>2
<1> QED
  <2>1. Moves \/ Unmoved
    BY <1>0, Kinds DEF Footprint
  <2>2. \A a \in Actions, q \in BOOLEAN : Admit(a, q) => UNCHANGED <<events, retry>>
    BY DEF Admit
  <2>3. PumpFindsAgentIdle \/ PumpSelects \/ PumpIsPrepared \/ PumpDispatches \/ PumpCompletes
        => UNCHANGED <<events, retry>>
    BY DEF PumpFindsAgentIdle, PumpSelects, PumpIsPrepared, PumpDispatches, PumpCompletes
  <2>4. PumpPrepares \/ (\E valid \in BOOLEAN : Validated(valid)) => UNCHANGED <<events, retry>>
    BY DEF PumpPrepares, Validated
  <2>5. ClearQueue \/ (\E a \in Actions : TakeBack(a)) => UNCHANGED <<events, retry>>
    BY DEF ClearQueue, TakeBack
  <2> QED
    BY <1>e, <1>1, <1>2, <1>3, <1>4, <1>5, <1>6, <2>1, <2>2, <2>3, <2>4, <2>5 DEF Moves

\* No step lets a prompt into the transcript, the file, a batch or a run a second time.
LEMMA SequencesStep ==
    ASSUME IInv, [Next]_vars
    PROVE  SequencesOK'
<1> USE DEF input, admission, agent
<1>0. TypeOK /\ EventsOK /\ SequencesOK /\ \A a \in Actions : PromptOK(a)
  BY DEF IInv
<1>a. IsInjective(<<>>)
  BY DEF IsInjective
<1>b. pump \in PumpRecord /\ NoPump.batch = <<>>
  BY <1>0 DEF TypeOK, NoPump
<1>c. ASSUME UNCHANGED <<admitted, transcript, persisted, run>>, IsInjective(pump'.batch)
      PROVE  SequencesOK'
  BY <1>0, <1>c DEF SequencesOK
<1>d. AbortsRun(run).todo = run.todo /\ AbortsRun(run).st = run.st
  BY <1>0 DEF AbortsRun, TypeOK, RunRecord
<1>e. ASSUME NEW n, NEW b, ResolveRetry(n, b)
      PROVE  pump'.batch = pump.batch
  BY <1>b, <1>e DEF ResolveRetry, PumpRecord
<1>1. CASE Unmoved
  BY <1>0, <1>1, <1>a DEF Unmoved, SequencesOK
<1>2. ASSUME NEW p \in Actions, NEW q \in BOOLEAN, Admit(p, q) PROVE SequencesOK'
  <2>1. admitted' = Append(admitted, p) /\ door[p] # "done"
        /\ UNCHANGED <<transcript, persisted, run, pump>>
    BY <1>2 DEF Admit, Leave
  <2>2. p \notin Range(admitted)
    BY <1>0, <2>1 DEF PromptOK
  <2>3. IsInjective(admitted')
    BY <1>0, <2>1, <2>2, RangeGrows DEF TypeOK, SequencesOK
  <2> QED
    BY <1>0, <2>1, <2>3 DEF SequencesOK
<1>3. CASE PumpFindsAgentIdle
  <2>1. IsInjective(pump'.batch)
    BY <1>0, <1>3, <1>a, <1>b DEF PumpFindsAgentIdle, SequencesOK, PumpRecord
  <2> QED
    BY <1>3, <1>c, <2>1 DEF PumpFindsAgentIdle
<1>4. CASE PumpSelects
  <2> DEFINE batch == IF pump.pre = None THEN Batch ELSE <<pump.pre>>
  <2>1. IsInjective(batch)
    <3>1. IsInjective(Batch)
      BY <1>0, BatchIsQueued DEF SequencesOK
    <3>2. IsInjective(<<pump.pre>>)
      BY DEF IsInjective
    <3> QED
      BY <3>1, <3>2
  <2>2. pump'.batch = batch
    <3>1. pump' = [pump EXCEPT !.pc = "validate", !.batch = batch]
      BY <1>4 DEF PumpSelects
    <3> HIDE DEF batch
    <3> QED
      BY <1>b, <3>1 DEF PumpRecord
  <2> HIDE DEF batch
  <2> QED
    BY <1>4, <1>c, <2>1, <2>2 DEF PumpSelects
<1>f. ASSUME Defers \/ Fails PROVE IsInjective(pump'.batch)
  BY <1>0, <1>a, <1>f, GivesBackActs
<1>5. ASSUME NEW valid \in BOOLEAN, Validated(valid) PROVE SequencesOK'
  <2>1. Defers \/ Fails \/ pump' = [pump EXCEPT !.pc = "extend"]
    BY <1>5 DEF Validated
  <2>2. admitted' = admitted
    BY <1>5 DEF Validated, Defers, Fails
  <2>3. IsInjective(pump'.batch)
    BY <1>0, <1>b, <1>f, <2>1 DEF SequencesOK, PumpRecord
  <2> QED
    BY <1>5, <1>c, <2>2, <2>3 DEF Validated
<1>6. CASE PumpPrepares
  <2> DEFINE l == Last(ActiveTurns)
             t == ActiveTurns
  <2>1. \/ Defers
        \/ /\ admitted' = admitted
           /\ pump' \in {[pump EXCEPT !.pc = "extended", !.anchor = l], Looped(act),
                         [pump EXCEPT !.pc = "fence", !.turns = t]}
    BY <1>6 DEF PumpPrepares
  <2> HIDE DEF l, t
  <2>2. /\ [pump EXCEPT !.pc = "extended", !.anchor = l].batch = pump.batch
        /\ [pump EXCEPT !.pc = "fence", !.turns = t].batch = pump.batch
        /\ Looped(act).batch = <<>>
    BY <1>b, LoopedType DEF PumpRecord
  <2>3. admitted' = admitted /\ IsInjective(pump'.batch)
    BY <1>0, <1>a, <1>f, <2>1, <2>2 DEF SequencesOK, Defers
  <2> QED
    BY <1>6, <1>c, <2>3 DEF PumpPrepares
<1>7. CASE PumpIsPrepared
  <2>1. IsInjective(pump'.batch)
    BY <1>0, <1>7, <1>b DEF PumpIsPrepared, SequencesOK, PumpRecord
  <2> QED
    BY <1>7, <1>c, <2>1 DEF PumpIsPrepared
<1>8. CASE PumpDispatches
  <2>1. CASE ~Dispatches
    <3>1. Defers /\ UNCHANGED run
      BY <1>8, <2>1 DEF Dispatches, PumpDispatches
    <3>2. admitted' = admitted
      BY <3>1 DEF Defers
    <3> QED
      BY <1>8, <1>c, <1>f, <3>1, <3>2 DEF PumpDispatches
  <2>2. CASE Dispatches
    <3>1. /\ run'.todo = pump.turns /\ run'.st = "running" /\ pump.turns = ActiveTurns
      BY <1>0, <2>2, DispatchActs
    <3>2. IsInjective(run'.todo)
      BY <1>0, <3>1, TurnsAreOfTheBatch DEF SequencesOK
    <3>3. UNCHANGED <<admitted, transcript, persisted>> /\ pump'.batch = pump.batch
      BY <1>b, <2>2 DEF Dispatches, PumpDispatches, PumpRecord
    <3> QED
      BY <1>0, <3>1, <3>2, <3>3 DEF SequencesOK
  <2> QED
    BY <2>1, <2>2
<1>9. CASE PumpCompletes
  <2>1. IsInjective(pump'.batch)
    BY <1>9, <1>a, <1>b, LoopedType DEF PumpCompletes
  <2> QED
    BY <1>9, <1>c, <2>1 DEF PumpCompletes
<1>10. CASE TakeIn
  <2>0. PICK p \in Actions : p = Head(run.todo)
    BY <1>0, <1>10, TakeInActs
  <2>1. /\ transcript' = Append(transcript, p) /\ run' = [run EXCEPT !.todo = Tail(@)]
        /\ UNCHANGED <<admitted, persisted, pump>> /\ run.todo # <<>> /\ run.st = "running"
    BY <1>10, <2>0 DEF TakeIn
  <2>2. run.todo \in Seq(Actions) /\ run'.todo = Tail(run.todo) /\ run'.st = "running"
    BY <1>0, <2>1 DEF TypeOK, RunRecord
  <2>3. p \in Range(run.todo) /\ IsInjective(run'.todo)
    BY <1>0, <2>0, <2>1, <2>2, RangeShrinks DEF SequencesOK
  <2>4. p \notin Range(transcript)
    BY <1>0, <2>3 DEF PromptOK
  <2>5. IsInjective(transcript')
    BY <1>0, <2>1, <2>4, RangeGrows DEF TypeOK, SequencesOK
  <2> QED
    BY <1>0, <2>1, <2>2, <2>3, <2>5 DEF SequencesOK
<1>11. ASSUME NEW retryable \in BOOLEAN, EndRun(retryable) PROVE SequencesOK'
  <2>1. IsInjective(transcript')
    BY <1>0, <1>11, OnlyKeeps DEF EndRun, Without, TypeOK, SequencesOK
  <2>2. run'.todo = <<>>
    BY <1>0, <1>11 DEF EndRun, TypeOK, RunRecord
  <2>3. UNCHANGED <<admitted, persisted, pump>>
    BY <1>11 DEF EndRun
  <2> QED
    BY <1>0, <1>a, <2>1, <2>2, <2>3 DEF SequencesOK
<1>12. CASE Persists
  <2>0. PICK p \in Actions : p = Head(events).action
    <3>1. events # <<>> /\ events' = Tail(events) /\ Head(events).type = "message"
      BY <1>12 DEF Persists
    <3>2. Head(events) \in EventRecord
      BY <1>0, <3>1, EventLeaves
    <3> QED
      BY <3>1, <3>2, EventTypes
  <2>1. /\ events # <<>> /\ events' = Tail(events)
        /\ persisted' = IF p \in Captured THEN persisted ELSE Append(persisted, p)
        /\ transcript' = IF p \in Captured THEN Without(transcript, Captured) ELSE transcript
        /\ UNCHANGED <<admitted, run, pump>>
    BY <1>12, <2>0 DEF Persists
  <2>2. p \in Pending
    BY <1>0, <2>0, <2>1, EventLeaves
  <2>3. p \notin Range(persisted)
    BY <1>0, <2>2 DEF PromptOK
  <2>4. IsInjective(persisted')
    BY <1>0, <2>1, <2>3, RangeGrows DEF TypeOK, SequencesOK
  <2>5. IsInjective(transcript')
    BY <1>0, <2>1, OnlyKeeps DEF Without, TypeOK, SequencesOK
  <2> QED
    BY <1>0, <2>1, <2>4, <2>5 DEF SequencesOK
<1>13. CASE ReleasesCaptured
  <2>1. IsInjective(transcript')
    BY <1>0, <1>13, OnlyKeeps DEF ReleasesCaptured, Without, TypeOK, SequencesOK
  <2>2. UNCHANGED <<admitted, persisted, run>>
    BY <1>13 DEF ReleasesCaptured
  <2>3. pump'.batch = pump.batch
    BY <1>13, <1>e DEF ReleasesCaptured
  <2> QED
    BY <1>0, <2>1, <2>2, <2>3 DEF SequencesOK
<1>14. CASE Abort
  <2>1. /\ UNCHANGED <<admitted, transcript, persisted>> /\ run' = AbortsRun(run)
    BY <1>14 DEF Abort, Cancel
  <2>2. pump'.batch = pump.batch
    BY <1>14, <1>e DEF Abort
  <2> QED
    BY <1>0, <1>d, <2>1, <2>2 DEF SequencesOK
<1>15. ASSUME ClearQueue \/ \E a \in Actions : TakeBack(a) PROVE SequencesOK'
  <2>1. /\ UNCHANGED <<admitted, transcript, persisted, pump>> /\ run' \in {run, AbortsRun(run)}
    BY <1>15 DEF ClearQueue, TakeBack, Cancel
  <2> QED
    BY <1>0, <1>d, <2>1 DEF SequencesOK
<1> QED
  <2>1. Moves \/ Unmoved
    BY <1>0, Kinds DEF Footprint
  <2> QED
    BY <1>1, <1>2, <1>3, <1>4, <1>5, <1>6, <1>7, <1>8, <1>9, <1>10, <1>11, <1>12, <1>13, <1>14,
       <1>15, <2>1 DEF Moves

\* A caller queues for the fence.
LEMMA FenceGrows ==
    ASSUME TypeOK, FenceOK, NEW x \in Actions \cup {"pump", "checkpoint"}, x \notin Range(fence),
           fence' = Append(fence, x)
    PROVE  /\ IsInjective(fence') /\ Range(fence') = Range(fence) \cup {x}
           /\ \A y \in Range(fence) : Head(fence) = y => Head(fence') = y
<1>1. fence \in Seq(Actions \cup {"pump", "checkpoint"})
  BY DEF TypeOK
<1>2. IsInjective(fence') /\ Range(fence') = Range(fence) \cup {x}
  BY <1>1, RangeGrows DEF FenceOK
<1>3. ASSUME fence # <<>> PROVE Head(fence') = Head(fence)
  <2>1. /\ Len(fence') = Len(fence) + 1 /\ fence' \in Seq(Actions \cup {"pump", "checkpoint"})
        /\ \A i \in 1..Len(fence) : fence'[i] = fence[i]
        /\ 1 \in 1..Len(fence) /\ fence' # <<>>
    BY <1>1, <1>3, AppendProperties, EmptySeq
  <2>2. Head(fence') = fence'[1] /\ Head(fence) = fence[1]
    BY <1>1, <1>3, <2>1, HeadTailProperties
  <2> QED
    BY <2>1, <2>2
<1>4. \A y \in Range(fence) : fence # <<>>
  BY DEF Range
<1> QED
  BY <1>2, <1>3, <1>4

\* The holder of the fence leaves it.
LEMMA FenceShrinks ==
    ASSUME TypeOK, FenceOK, fence # <<>>, fence' = Tail(fence)
    PROVE  /\ IsInjective(fence') /\ Range(fence) = Range(fence') \cup {Head(fence)}
           /\ Head(fence) \notin Range(fence')
  BY RangeShrinks DEF TypeOK, FenceOK

\* A prompt that is at the door passes it, waits in front of it or goes.
LEMMA AtTheDoor ==
    ASSUME TypeOK, FenceOK, NEW p \in Actions, NEW d, door' = [door EXCEPT ![p] = d],
           UNCHANGED checkpoint, pump.pc = "fence" <=> pump'.pc = "fence",
           \/ fence' = fence /\ door[p] \notin {"fence", "in"} /\ d \notin {"fence", "in"}
           \/ fence' = fence /\ door[p] = "fence" /\ d = "in" /\ Head(fence) = p
           \/ fence' = Append(fence, p) /\ door[p] \notin {"fence", "in"} /\ d = "fence"
           \/ fence' = Tail(fence) /\ door[p] \in {"fence", "in"} /\ Head(fence) = p
              /\ d \notin {"fence", "in"}
    PROVE  FenceOK'
<1>0. /\ door'[p] = d /\ \A b \in Actions \ {p} : door'[b] = door[b]
      /\ p \notin {"pump", "checkpoint"} /\ Actions \cap {"pump", "checkpoint"} = {}
  BY SessionAssumption DEF TypeOK
<1>1. CASE fence' = fence /\ door[p] \notin {"fence", "in"} /\ d \notin {"fence", "in"}
  BY <1>0, <1>1 DEF FenceOK
<1>4. CASE fence' = fence /\ door[p] = "fence" /\ d = "in" /\ Head(fence) = p
  <2>1. \A b \in Actions : door'[b] = "in" => b = p
    BY <1>0, <1>4 DEF FenceOK
  <2>2. checkpoint' # "events"
    BY <1>0, <1>4 DEF FenceOK
  <2>3. \A a \in Actions : a \in Range(fence') <=> door'[a] \in {"fence", "in"}
    BY <1>0, <1>4 DEF FenceOK
  <2> QED
    BY <1>4, <2>1, <2>2, <2>3 DEF FenceOK
<1>2. CASE fence' = Append(fence, p) /\ door[p] \notin {"fence", "in"} /\ d = "fence"
  <2>1. /\ IsInjective(fence') /\ Range(fence') = Range(fence) \cup {p}
        /\ \A y \in Range(fence) : Head(fence) = y => Head(fence') = y
    BY <1>2, FenceGrows DEF FenceOK
  <2> QED
    BY <1>0, <1>2, <2>1 DEF FenceOK
<1>3. CASE /\ fence' = Tail(fence) /\ door[p] \in {"fence", "in"} /\ Head(fence) = p
           /\ d \notin {"fence", "in"}
  <2>1. fence # <<>>
    BY <1>3 DEF FenceOK, Range
  <2>2. /\ IsInjective(fence') /\ Range(fence) = Range(fence') \cup {p}
        /\ p \notin Range(fence')
    BY <1>3, <2>1, FenceShrinks
  <2> QED
    BY <1>0, <1>3, <2>2 DEF FenceOK
<1> QED
  BY <1>1, <1>2, <1>3, <1>4

\* The queue of the fence holds exactly who waits for it, and its head holds it.
LEMMA FenceStep ==
    ASSUME IInv, [Next]_vars
    PROVE  FenceOK'
<1> USE DEF input, admission, agent
<1>0. TypeOK /\ FenceOK /\ EventsOK /\ pump \in PumpRecord
      /\ \A a \in Actions : door[a] \in {"out", "paused", "fence", "in", "open", "done"}
  BY DEF IInv, TypeOK
<1>a. "pump" \notin Actions /\ "checkpoint" \notin Actions
  BY SessionAssumption
<1>1. CASE Unfenced
  BY <1>0, <1>1 DEF Unfenced, FenceOK
<1>2. ASSUME NEW p \in Actions, Arrive(p) PROVE FenceOK'
  <2>1. PICK d : door' = [door EXCEPT ![p] = d] /\ d \in {"open", "paused", "fence"} /\ d = door'[p]
    BY <1>0, <1>2 DEF Arrive, TypeOK
  <2>2. /\ door[p] = "out" /\ UNCHANGED <<checkpoint, pump>>
        /\ fence' = IF d = "fence" THEN Append(fence, p) ELSE fence
    BY <1>2, <2>1 DEF Arrive
  <2> QED
    BY <1>0, <2>1, <2>2, AtTheDoor
<1>3. ASSUME NEW p \in Actions, Return(p) PROVE FenceOK'
  BY <1>0, <1>3, AtTheDoor DEF Return
<1>4. ASSUME NEW p \in Actions, Enter(p) PROVE FenceOK'
  <2>1. PICK d : door' = [door EXCEPT ![p] = d] /\ d \in {"paused", "done", "in"} /\ d = door'[p]
    BY <1>0, <1>4 DEF Enter, TypeOK
  <2>2. /\ door[p] = "fence" /\ UNCHANGED <<checkpoint, pump>> /\ Head(fence) = p
        /\ fence' = IF d = "in" THEN fence ELSE Tail(fence)
    BY <1>4, <2>1 DEF Enter
  <2> QED
    BY <1>0, <2>1, <2>2, AtTheDoor
<1>5. ASSUME NEW p \in Actions, Leave(p), UNCHANGED <<checkpoint, pump>> PROVE FenceOK'
  <2>1. door[p] = "in" => Head(fence) = p
    BY <1>0 DEF FenceOK
  <2> QED
    BY <1>0, <1>5, <2>1, AtTheDoor DEF Leave
<1>6. CASE PumpPrepares
  <2>1. UNCHANGED <<door, checkpoint>> /\ pump.pc = "extend"
    BY <1>6 DEF PumpPrepares
  <2>2. CASE fence' = fence /\ pump'.pc # "fence"
    BY <1>0, <2>1, <2>2 DEF FenceOK
  <2>3. CASE fence' = Append(fence, "pump") /\ pump'.pc = "fence"
    <3>1. "pump" \notin Range(fence)
      BY <1>0, <2>1 DEF FenceOK
    <3>2. /\ IsInjective(fence') /\ Range(fence') = Range(fence) \cup {"pump"}
          /\ \A y \in Range(fence) : Head(fence) = y => Head(fence') = y
      BY <1>0, <2>3, <3>1, FenceGrows
    <3> QED
      BY <1>0, <1>a, <2>1, <2>3, <3>2 DEF FenceOK
  <2>4. Deferred => fence' = fence /\ pump'.pc # "fence"
    BY <1>0, <1>6, GivesBackActs DEF PumpPrepares
  <2>5. ASSUME ~Deferred
        PROVE  \/ fence' = fence /\ pump'.pc # "fence"
               \/ fence' = Append(fence, "pump") /\ pump'.pc = "fence"
    <3> DEFINE l == Last(ActiveTurns)
               t == ActiveTurns
    <3>1. \/ /\ fence' = fence
             /\ pump' \in {[pump EXCEPT !.pc = "extended", !.anchor = l], Looped(act)}
          \/ fence' = Append(fence, "pump") /\ pump' = [pump EXCEPT !.pc = "fence", !.turns = t]
      BY <1>6, <2>5 DEF PumpPrepares
    <3> HIDE DEF l, t
    <3>2. /\ [pump EXCEPT !.pc = "extended", !.anchor = l].pc = "extended"
          /\ [pump EXCEPT !.pc = "fence", !.turns = t].pc = "fence"
          /\ Looped(act).pc \in {"off", "idle"}
      BY <1>0, LoopedType DEF PumpRecord
    <3> QED
      BY <3>1, <3>2
  <2> QED
    BY <2>2, <2>3, <2>4, <2>5
<1>7. CASE PumpDispatches
  <2>1. /\ UNCHANGED <<door, checkpoint>> /\ pump.pc = "fence" /\ Head(fence) = "pump"
        /\ fence' = Tail(fence)
    BY <1>7 DEF PumpDispatches
  <2>2. fence # <<>>
    BY <1>0, <2>1 DEF FenceOK, Range
  <2>3. /\ IsInjective(fence') /\ Range(fence) = Range(fence') \cup {"pump"}
        /\ "pump" \notin Range(fence')
    BY <1>0, <2>1, <2>2, FenceShrinks
  <2>4. pump'.pc # "fence"
    <3>1. CASE Dispatches
      <4>1. pump' = [pump EXCEPT !.pc = "run"]
        BY <3>1 DEF Dispatches, PumpDispatches
      <4> QED
        BY <1>0, <4>1 DEF PumpRecord
    <3>2. CASE ~Dispatches
      <4>1. Defers
        BY <1>7, <3>2 DEF Dispatches, PumpDispatches
      <4> QED
        BY <1>0, <4>1, GivesBackActs
    <3> QED
      BY <3>1, <3>2
  <2> QED
    BY <1>0, <1>a, <2>1, <2>3, <2>4 DEF FenceOK
<1>8. CASE CheckpointArrives
  <2>1. /\ UNCHANGED <<door, pump>> /\ checkpoint = "none" /\ checkpoint' = "fence"
        /\ fence' = Append(fence, "checkpoint")
    BY <1>8 DEF CheckpointArrives
  <2>2. "checkpoint" \notin Range(fence)
    BY <1>0, <2>1 DEF FenceOK
  <2>3. /\ IsInjective(fence') /\ Range(fence') = Range(fence) \cup {"checkpoint"}
        /\ \A y \in Range(fence) : Head(fence) = y => Head(fence') = y
    BY <1>0, <2>1, <2>2, FenceGrows
  <2> QED
    BY <1>0, <1>a, <2>1, <2>3 DEF FenceOK
<1>b. ASSUME Head(fence) = "checkpoint", checkpoint \in {"fence", "events"},
             fence' = Tail(fence), checkpoint' \in {"none", "taken"}, UNCHANGED <<door, pump>>
      PROVE  FenceOK'
  <2>2. fence # <<>>
    BY <1>0, <1>b DEF FenceOK, Range
  <2>3. /\ IsInjective(fence') /\ Range(fence) = Range(fence') \cup {"checkpoint"}
        /\ "checkpoint" \notin Range(fence')
    BY <1>0, <1>b, <2>2, FenceShrinks
  <2> QED
    BY <1>0, <1>a, <1>b, <2>3 DEF FenceOK
<1>9. CASE CheckpointEnters
  <2>1. CASE BlocksCheckpoint
    BY <1>9, <1>b, <2>1 DEF CheckpointEnters
  <2>2. CASE ~BlocksCheckpoint
    BY <1>0, <1>9, <2>2 DEF CheckpointEnters, FenceOK
  <2> QED
    BY <2>1, <2>2
<1>10. CASE CheckpointTaken
  <2>1. Head(fence) = "checkpoint"
    BY <1>0, <1>10 DEF CheckpointTaken, FenceOK
  <2> QED
    BY <1>10, <1>b, <2>1 DEF CheckpointTaken
<1> QED
  <2>1. Fences \/ Unfenced
    BY <1>0, Kinds DEF Footprint
  <2>2. \A p \in Actions : \A q \in BOOLEAN :
           Admit(p, q) => Leave(p) /\ UNCHANGED <<checkpoint, pump>>
    BY DEF Admit
  <2>3. \A p \in Actions : Handle(p) => Leave(p) /\ UNCHANGED <<checkpoint, pump>>
    BY DEF Handle
  <2> QED
    BY <1>1, <1>2, <1>3, <1>4, <1>5, <1>6, <1>7, <1>8, <1>9, <1>10, <2>1, <2>2, <2>3
    DEF Fences, CheckpointStep

\* While the checkpoint is under way nothing is between the queue and the file.
LEMMA CheckpointSteps ==
    ASSUME IInv, [Next]_vars
    PROVE  CheckpointOK'
<1> USE DEF input, admission, agent
<1>0. /\ TypeOK /\ EventsOK /\ CheckpointOK /\ sched \in SchedRecord
      /\ \A a \in Actions : PromptOK(a) /\ act[a] \in ActionRecord
  BY DEF IInv, TypeOK
\* Nothing begins while the session is held.
<1>1. ASSUME sched.paused, ~BlocksCheckpoint,
             NEW a \in Actions, act'[a].st \in {"selected", "preparing", "committing", "running"}
      PROVE  act[a].st = "running" /\ act'[a].st = "running"
  <2>0. act[a].st \notin {"selected", "preparing"} /\ (act[a].st = "committing" => act[a].durable)
    BY <1>1 DEF BlocksCheckpoint
  <2>1. act[a].st # "committing"
    BY <1>0, <2>0 DEF PromptOK, Fresh
  <2>2. ~CanSelect
    BY <1>1 DEF CanSelect, BusyPump, Held
  <2> DEFINE Runs == act[a].st = "running" /\ act'[a].st = "running"
  <2>c. act'[a].st = act[a].st => Runs
    BY <1>1, <2>0, <2>1
  <2> SUFFICES Runs
    OBVIOUS
  <2> HIDE DEF Runs
  <2>a. Moved(a, act[a].st) => Runs
    BY <2>c DEF Moved
  <2>b. act' = act => Runs
    BY <2>c
  <2>3. CASE Unmoved
    BY <2>3, <2>b DEF Unmoved
  <2>4. ASSUME NEW p \in Actions, NEW q \in BOOLEAN, Admit(p, q) PROVE Runs
    <3>1. CASE a = p
      BY <1>0, <1>1, <2>2, <2>4, <3>1, AdmitActs DEF Moved
    <3>2. CASE a # p
      BY <1>0, <2>4, <2>a, <3>2, AdmitActs
    <3> QED
      BY <3>1, <3>2
  <2>5. CASE PumpFindsAgentIdle
    BY <1>0, <2>0, <2>5, <2>a, IdleActs
  <2>6. CASE PumpSelects
    BY <2>2, <2>6 DEF PumpSelects
  <2>7. ASSUME Defers \/ Fails PROVE Runs
    BY <1>0, <2>0, <2>7, <2>a, GivesBackActs
  <2>8. ASSUME PumpPrepares \/ \E valid \in BOOLEAN : Validated(valid) PROVE Runs
    <3>1. Defers \/ Fails \/ act' = act
      BY <2>8 DEF PumpPrepares, Validated
    <3> QED
      BY <2>7, <2>b, <3>1
  <2>9. CASE PumpIsPrepared
    BY <1>0, <2>9, <2>a, PreparedActs
  <2>10. CASE PumpDispatches
    <3>1. CASE Dispatches
      BY <1>0, <2>2, <3>1, DispatchActs
    <3>2. CASE ~Dispatches
      BY <2>7, <2>10, <3>2 DEF Dispatches, PumpDispatches
    <3> QED
      BY <3>1, <3>2
  <2>11. CASE PumpCompletes
    BY <1>0, <1>1, <2>11, <2>a, CompletesActs
  <2>12. CASE TakeIn
    <3>1. PICK p \in Actions : p = Head(run.todo)
      BY <1>0, <2>12, TakeInActs
    <3>2. CASE a = p
      <4>1. act'[a].st = act[a].st
        BY <1>0, <2>1, <2>12, <3>1, <3>2, TakeInActs
      <4> QED
        BY <2>c, <4>1
    <3>3. CASE a # p
      BY <1>0, <2>12, <2>a, <3>1, <3>3, TakeInActs
    <3> QED
      BY <3>2, <3>3
  <2>13. ASSUME \/ \E retryable \in BOOLEAN : EndRun(retryable)
                \/ Persists
         PROVE  Runs
    BY <2>13, <2>b DEF EndRun, Persists
  <2>14. CASE ReleasesCaptured
    <3>1. act'[a].st = act[a].st
      BY <1>0, <2>14, ReleasesActs DEF Moved
    <3> QED
      BY <2>c, <3>1
  <2>15. ASSUME NEW A \in SUBSET Actions, Cancel(A) PROVE Runs
    <3>1. IF a \in A THEN act'[a].st = "cancelled" ELSE Moved(a, act[a].st)
      BY <1>0, <2>15, CancelActs
    <3> QED
      BY <1>1, <2>a, <3>1
  <2>16. ASSUME Abort \/ ClearQueue \/ \E p \in Actions : TakeBack(p) PROVE Runs
    <3>1. \E A \in SUBSET Actions : Cancel(A)
      BY <2>16 DEF Abort, ClearQueue, TakeBack, Having
    <3> QED
      BY <2>15, <3>1
  <2> QED
    <3>1. Moves \/ Unmoved
      BY <1>0, Kinds DEF Footprint
    <3> QED
      BY <2>3, <2>4, <2>5, <2>6, <2>8, <2>9, <2>10, <2>11, <2>12, <2>13, <2>14, <2>16, <3>1
      DEF Moves
<1>2. ASSUME sched.paused, ~BlocksCheckpoint PROVE ~BlocksCheckpoint'
  <2> SUFFICES ASSUME NEW a \in Actions, act'[a].st \in {"selected", "preparing", "committing"}
               PROVE  FALSE
    BY DEF BlocksCheckpoint
  <2> QED
    BY <1>1, <1>2
<1>3. Range(persisted) \subseteq Range(persisted')
  <2>1. CASE Persists
    <3>1. PICK p \in Actions : p = Head(events).action
      <4>1. events # <<>> /\ events' = Tail(events) /\ Head(events).type = "message"
        BY <2>1 DEF Persists
      <4>2. Head(events) \in EventRecord
        BY <1>0, <4>1, EventLeaves
      <4> QED
        BY <4>1, <4>2, EventTypes
    <3>2. persisted' = persisted \/ persisted' = Append(persisted, p)
      BY <2>1, <3>1 DEF Persists
    <3>3. Range(Append(persisted, p)) = Range(persisted) \cup {p}
      BY <1>0, RangeGrows DEF TypeOK
    <3> QED
      BY <3>2, <3>3
  <2>2. CASE Unmoved
    BY <2>2 DEF Unmoved
  <2>3. Moves => Persists \/ persisted' = persisted
    BY DEF Moves, Admit, PumpFindsAgentIdle, PumpSelects, Validated, PumpPrepares, PumpIsPrepared,
           PumpDispatches, PumpCompletes, TakeIn, EndRun, ReleasesCaptured, Abort, ClearQueue,
           TakeBack
  <2> QED
    <3>1. Moves \/ Unmoved
      BY <1>0, Kinds DEF Footprint
    <3> QED
      BY <2>1, <2>2, <2>3, <3>1
<1>4. CASE Unpaused
  <2>1. checkpoint' # "none" => sched'.paused
    BY <1>0, <1>4 DEF Unpaused, CheckpointOK
  <2>2. checkpoint' \in {"events", "taken"} => ~BlocksCheckpoint'
    BY <1>0, <1>2, <1>4 DEF Unpaused, CheckpointOK
  <2>3. ASSUME checkpoint' = "taken", NEW a \in Actions, act'[a].st = "running"
        PROVE  a \in Range(persisted')
    <3>1. sched.paused /\ ~BlocksCheckpoint /\ checkpoint = "taken"
      BY <1>0, <1>4, <2>3 DEF Unpaused, CheckpointOK
    <3>2. act[a].st = "running"
      BY <1>1, <2>3, <3>1
    <3> QED
      BY <1>0, <1>3, <3>1, <3>2 DEF CheckpointOK
  <2> QED
    BY <2>1, <2>2, <2>3 DEF CheckpointOK
<1>5. CASE Pause
  BY <1>0, <1>5 DEF Pause, CheckpointOK
<1>6. CASE Release
  BY <1>6 DEF Release, CheckpointOK
<1>7. CASE CheckpointArrives
  BY <1>7 DEF CheckpointArrives, CheckpointOK
<1>8. CASE CheckpointEnters
  BY <1>0, <1>8 DEF CheckpointEnters, CheckpointOK, BlocksCheckpoint
<1>9. CASE CheckpointTaken
  <2>1. /\ checkpoint = "events" /\ events = <<>> /\ checkpoint' = "taken"
        /\ UNCHANGED <<act, sched, persisted>>
    BY <1>9 DEF CheckpointTaken
  <2>2. \A a \in Actions : a \notin Pending
    BY <2>1 DEF Pending
  <2>3. \A a \in Actions : act[a].st = "running" => a \in Range(persisted)
    BY <1>0, <2>2 DEF PromptOK, Kept
  <2> QED
    BY <1>0, <2>1, <2>3 DEF CheckpointOK, BlocksCheckpoint
<1> QED
  <2>1. Pause \/ Release \/ CheckpointStep \/ Unpaused
    BY <1>0, Kinds DEF Footprint
  <2> QED
    BY <1>4, <1>5, <1>6, <1>7, <1>8, <1>9, <2>1 DEF CheckpointStep

-----------------------------------------------------------------------------
(* Who wakes a prompt that waits.                                          *)

\* Something will look at the queues: a pump that runs or is to start, the end of the
\* pause, the suspension, the agent's run, the retry or the bash command.
Wakes ==
    \/ pump.pc # "off" \/ sched.chain # <<>> \/ Held
    \/ Streaming \/ retry.promise \/ bash # "none"

\* A pump that was asked for is on its way, and whoever waits is woken.
WakesOK ==
    /\ sched.requested => sched.chain # <<>>
    /\ Selectable(act) /\ ~unwoken => Wakes

\* _scheduleSessionInputPump leaves a pump on its way, unless nothing waits or the
\* session is held.
LEMMA ScheduledWakes ==
    ASSUME NEW s \in SchedRecord, s.requested => s.chain # <<>>, NEW ac
    PROVE  LET r == Scheduled(s, ac) IN
           /\ r.requested => r.chain # <<>>
           /\ s.chain # <<>> => r.chain # <<>>
           /\ Selectable(ac) => r.chain # <<>> \/ r.suspended \/ r.paused
<1>1. s.chain \in Seq(Nat) /\ s.epoch \in Nat
  BY DEF SchedRecord
<1>2. Append(s.chain, s.epoch) # <<>>
  <2> DEFINE c == s.chain
             n == s.epoch
             t == Append(c, n)
  <2>1. c \in Seq(Nat) /\ n \in Nat
    BY <1>1
  <2> HIDE DEF c, n
  <2>2. Len(t) = Len(c) + 1 /\ Len(c) \in Nat /\ Len(<<>>) = 0
    BY <2>1, AppendProperties
  <2> HIDE DEF t
  <2>3. t # <<>>
    BY <2>2
  <2> QED
    BY <2>3 DEF c, n, t
<1>3. CASE s.suspended \/ s.paused \/ s.requested \/ ~Selectable(ac)
  BY <1>3 DEF Scheduled
<1>4. CASE ~(s.suspended \/ s.paused \/ s.requested \/ ~Selectable(ac))
  BY <1>1, <1>2, <1>4 DEF Scheduled, SchedRecord
<1> QED
  BY <1>3, <1>4

\* A step that schedules a pump with the actions it leaves wakes whoever waits.
LEMMA WokenBySchedule ==
    ASSUME NEW s \in SchedRecord, s.requested => s.chain # <<>>, sched' = Scheduled(s, act')
    PROVE  WakesOK'
<1>1. /\ sched'.requested => sched'.chain # <<>>
      /\ Selectable(act') => sched'.chain # <<>> \/ sched'.suspended \/ sched'.paused
  BY ScheduledWakes
<1>2. Selectable(act)' <=> Selectable(act')
  BY DEF Selectable, Having
<1> QED
  BY <1>1, <1>2 DEF WakesOK, Wakes, Held

\* The head of the pump's loop goes on when a prompt waits.
LEMMA LoopedWakes ==
    ASSUME WakesOK, sched' = sched, pump' = Looped(act')
    PROVE  WakesOK'
<1>1. Selectable(act') => pump'.pc = "idle"
  BY DEF Looped, NoPump
<1>2. Selectable(act)' <=> Selectable(act')
  BY DEF Selectable, Having
<1> QED
  BY <1>1, <1>2 DEF WakesOK, Wakes

\* A pump that gives up has found the session busy, or is stale and forgets nobody.
LEMMA DeferredWakes ==
    ASSUME WakesOK, Deferred, unwoken' = Forgotten,
           sched' = sched, retry' = retry, bash' = bash
    PROVE  WakesOK'
<1>1. CASE Stale
  BY <1>1 DEF Forgotten, WakesOK, Wakes, Held
<1>2. CASE BusyPump
  BY <1>2 DEF BusyPump, BashRunning, WakesOK, Wakes, Held
<1> QED
  BY <1>1, <1>2 DEF Deferred

\* A pump that runs looks at the queues before it ends.
LEMMA PumpWakes ==
    ASSUME WakesOK, sched' = sched, pump'.pc # "off"
    PROVE  WakesOK'
  BY DEF WakesOK, Wakes

\* A step that makes no prompt wait, forgets no wake that is due and leaves on its way
\* whatever was.
LEMMA WakesStay ==
    ASSUME WakesOK, Selectable(act') => Selectable(act), unwoken => unwoken',
           Wakes => Wakes' \/ unwoken',
           sched'.requested = sched.requested, sched'.chain = sched.chain
    PROVE  WakesOK'
<1>1. Selectable(act)' <=> Selectable(act')
  BY DEF Selectable, Having
<1> QED
  BY <1>1 DEF WakesOK

\* Cancelled prompts wait no longer.
LEMMA CancelledSleep ==
    ASSUME TypeOK, NEW A \in SUBSET Actions, Cancel(A), Selectable(act')
    PROVE  Selectable(act)
<1>1. PICK a \in Actions : act'[a].st \in {"queued", "selected"}
  BY DEF Selectable, Having
<1>2. act[a].st \in {"queued", "selected"}
  BY <1>1, CancelActs DEF Moved
<1> QED
  BY <1>1, <1>2 DEF Selectable, Having

\* Every step wakes whoever it makes wait, or says that it did not.
LEMMA WakesStep ==
    ASSUME TypeOK, WakesOK, [Next]_vars
    PROVE  WakesOK'
<1> USE DEF input, admission, agent
<1>a. /\ sched \in SchedRecord /\ pump \in PumpRecord /\ run \in RunRecord
      /\ retry \in RetryRecord /\ unwoken \in BOOLEAN
      /\ sched.requested => sched.chain # <<>>
      /\ NoPump.pc = "off"
  BY DEF TypeOK, WakesOK, NoPump
<1>b. \A pc \in {"off", "idle", "events", "select", "validate", "extend", "extended", "fence",
                 "run", "retry", "retried", "settle", "settled"} : [pump EXCEPT !.pc = pc].pc = pc
  BY <1>a DEF PumpRecord
<1>c. act' = act => (Selectable(act') <=> Selectable(act))
  BY DEF Selectable, Having
<1>d. ASSUME UNCHANGED <<act, sched, pump, bash, unwoken, run>>, retry'.promise = retry.promise
      PROVE  WakesOK'
  BY <1>c, <1>d, WakesStay DEF Wakes, Held, Streaming
<1>1. CASE UNCHANGED vars
  BY <1>1, <1>d DEF vars
<1>2. ASSUME NEW a \in Actions, Arrive(a) PROVE WakesOK'
  <2>1. sched'.requested = sched.requested /\ sched'.chain = sched.chain
    BY <1>2, <1>a DEF Arrive, SchedRecord
  <2>2. CASE sched' = sched
    BY <1>2, <2>2, <1>a, <1>d DEF Arrive
  <2>3. CASE sched' # sched
    <3>1. unwoken'
      BY <1>2, <2>3 DEF Arrive
    <3> QED
      BY <2>1, <3>1, <1>a DEF WakesOK
  <2> QED
    BY <2>2, <2>3
<1>3. ASSUME NEW a \in Actions, Return(a) \/ Enter(a) \/ Handle(a) PROVE WakesOK'
  BY <1>3, <1>d DEF Return, Enter, Handle
<1>4. ASSUME NEW a \in Actions, NEW q \in BOOLEAN, Admit(a, q) PROVE WakesOK'
  <2> DEFINE visible == Streaming \/ (q /\ BusyPreflight)
             immediate == ~visible \/ (q /\ CanSelect)
             s == [sched EXCEPT !.suspended = @ /\ ~immediate]
  <2>1. sched' = IF immediate \/ (Delivery[a] = "steer" /\ Streaming)
                 THEN Scheduled(s, act') ELSE sched
    BY <1>4 DEF Admit
  <2>2. CASE immediate \/ (Delivery[a] = "steer" /\ Streaming)
    <3>1. s \in SchedRecord /\ s.requested = sched.requested /\ s.chain = sched.chain
      BY <1>a DEF SchedRecord
    <3>2. sched' = Scheduled(s, act')
      BY <2>1, <2>2
    <3> HIDE DEF s
    <3> QED
      BY <1>a, <3>1, <3>2, WokenBySchedule
  <2>3. CASE ~(immediate \/ (Delivery[a] = "steer" /\ Streaming))
    <3>1. sched' = sched
      BY <2>1, <2>3
    <3>2. UNCHANGED <<pump, agent, retry, bash>>
      BY <1>4 DEF Admit
    <3>3. Streaming \/ BusyPump
      BY <2>3 DEF CanSelect
    <3>4. Wakes'
      BY <3>1, <3>2, <3>3 DEF BusyPump, BashRunning, Wakes, Held, Streaming
    <3> QED
      BY <1>a, <3>1, <3>4 DEF WakesOK
  <2> QED
    BY <2>2, <2>3
<1>5. CASE PumpStarts
  <2>1. sched'.requested = FALSE
    BY <1>5, <1>a DEF PumpStarts, SchedRecord
  <2>2. Selectable(act) => pump'.pc = "idle"
    BY <1>5 DEF PumpStarts, NoPump
  <2>3. act' = act
    BY <1>5 DEF PumpStarts
  <2> QED
    BY <2>1, <2>2, <2>3 DEF WakesOK, Wakes, Selectable, Having
<1>6. CASE PumpFindsAgentIdle
  <2>1. sched' = sched /\ retry' = retry /\ bash' = bash /\ unwoken' = Forgotten
    BY <1>6 DEF PumpFindsAgentIdle
  <2>2. CASE Stale
    BY <2>1, <2>2, DeferredWakes DEF Deferred
  <2>3. CASE ~Stale
    <3>1. pump' = [pump EXCEPT !.pc = IF Captured = {} THEN "events" ELSE "select",
                               !.pre = IF Having(act, {"selected"}) = {} THEN None
                                       ELSE CHOOSE a \in Actions : act[a].st = "selected"]
      BY <1>6, <2>3 DEF PumpFindsAgentIdle
    <3>2. pump'.pc \in {"events", "select"}
      BY <3>1, <1>a DEF PumpRecord
    <3> QED
      BY <2>1, <3>2, PumpWakes
  <2> QED
    BY <2>2, <2>3
<1>7. CASE PumpFindsEventsDone
  BY <1>7, <1>b, PumpWakes DEF PumpFindsEventsDone
<1>8. CASE PumpIsBlocked
  <2>1. /\ sched' = sched /\ retry' = retry /\ bash' = bash /\ unwoken' = Forgotten
        /\ run' = run /\ (Stale \/ ~CanSelect)
    BY <1>8 DEF PumpIsBlocked
  <2>2. CASE Deferred
    BY <2>1, <2>2, DeferredWakes
  <2>3. CASE ~Deferred
    <3>1. Wakes'
      BY <2>1, <2>3 DEF Deferred, CanSelect, Wakes, Streaming
    <3> QED
      BY <1>a, <2>1, <3>1 DEF WakesOK
  <2> QED
    BY <2>2, <2>3
<1>9. CASE PumpFindsNothing
  <2>1. sched' = Scheduled(sched, act')
    BY <1>9 DEF PumpFindsNothing
  <2> QED
    BY <1>a, <2>1, WokenBySchedule
<1>10. CASE PumpSelects
  <2> DEFINE batch == IF pump.pre = None THEN Batch ELSE <<pump.pre>>
  <2>1. sched' = sched /\ pump' = [pump EXCEPT !.pc = "validate", !.batch = batch]
    BY <1>10 DEF PumpSelects
  <2> HIDE DEF batch
  <2>2. pump'.pc = "validate"
    BY <1>a, <2>1 DEF PumpRecord
  <2> QED
    BY <2>1, <2>2, PumpWakes
<1>11. ASSUME Defers, sched' = sched, retry' = retry, bash' = bash PROVE WakesOK'
  <2>1. CASE Deferred
    BY <1>11, <2>1, DeferredWakes DEF Defers
  <2>2. CASE ~Deferred
    BY <1>11, <2>2, LoopedWakes DEF Defers
  <2> QED
    BY <2>1, <2>2
<1>12. ASSUME NEW valid \in BOOLEAN, Validated(valid) PROVE WakesOK'
  <2>1. sched' = sched /\ retry' = retry /\ bash' = bash
    BY <1>12 DEF Validated
  <2>2. Defers \/ pump' = [pump EXCEPT !.pc = "extend"] \/ pump' = Looped(act')
    BY <1>12 DEF Validated, Fails
  <2> QED
    BY <1>11, <1>b, <2>1, <2>2, PumpWakes, LoopedWakes
<1>13. CASE PumpPrepares
  <2>1. sched' = sched /\ retry' = retry /\ bash' = bash
    BY <1>13 DEF PumpPrepares
  <2>2. CASE Deferred
    BY <1>11, <1>13, <2>1, <2>2 DEF PumpPrepares
  <2>3. CASE ~Deferred
    <3>1. act' = act
      BY <1>13, <2>3 DEF PumpPrepares
    <3>2. \/ pump' = [pump EXCEPT !.pc = "extended", !.anchor = Last(ActiveTurns)]
          \/ pump' = Looped(act)
          \/ pump' = [pump EXCEPT !.pc = "fence", !.turns = ActiveTurns]
      BY <1>13, <2>3 DEF PumpPrepares
    <3>3. pump' = Looped(act') \/ pump'.pc \in {"extended", "fence"}
      BY <1>a, <3>1, <3>2 DEF PumpRecord
    <3> QED
      BY <2>1, <3>3, PumpWakes, LoopedWakes
  <2> QED
    BY <2>2, <2>3
<1>14. CASE PumpIsPrepared
  BY <1>14, <1>b, PumpWakes DEF PumpIsPrepared
<1>15. CASE PumpDispatches
  <2>1. sched' = sched /\ retry' = retry /\ bash' = bash
    BY <1>15 DEF PumpDispatches
  <2>2. Defers \/ pump' = [pump EXCEPT !.pc = "run"]
    BY <1>15 DEF PumpDispatches
  <2> QED
    BY <1>11, <1>b, <2>1, <2>2, PumpWakes
<1>16. CASE PumpSeesRunEnd \/ PumpSeesRetryEnd \/ PumpSettles
  <2>1. \E pc \in {"retry", "retried", "settle", "settled"} : pump' = [pump EXCEPT !.pc = pc]
    BY <1>16 DEF PumpSeesRunEnd, PumpSeesRetryEnd, PumpSettles
  <2>2. pump'.pc # "off" /\ sched' = sched
    BY <1>16, <2>1, <1>b DEF PumpSeesRunEnd, PumpSeesRetryEnd, PumpSettles
  <2> QED
    BY <2>2, PumpWakes
<1>17. CASE PumpCompletes
  <2>1. sched' = sched /\ retry' = retry /\ bash' = bash /\ unwoken' = Forgotten
    BY <1>17 DEF PumpCompletes
  <2>2. CASE Stale
    BY <2>1, <2>2, DeferredWakes DEF Deferred
  <2>3. CASE ~Stale
    BY <1>17, <2>1, <2>3, LoopedWakes DEF PumpCompletes
  <2> QED
    BY <2>2, <2>3
<1>18. ASSUME run'.st # "idle", sched' = sched PROVE WakesOK'
  BY <1>18, <1>a DEF WakesOK, Wakes, Streaming
<1>19. CASE TakeIn
  <2>1. run'.st = "running" /\ sched' = sched
    BY <1>19, <1>a DEF TakeIn, RunRecord
  <2> QED
    BY <1>18, <2>1
<1>20. ASSUME NEW retryable \in BOOLEAN, EndRun(retryable) PROVE WakesOK'
  <2>1. run'.st = "ending" /\ sched' = sched
    BY <1>20, <1>a DEF EndRun, RunRecord
  <2> QED
    BY <1>18, <2>1
<1>21. CASE FinishRun
  <2>1. sched' = sched /\ pump' = pump /\ unwoken' = (unwoken \/ pump.pc = "off")
    BY <1>21 DEF FinishRun
  <2>2. CASE pump.pc = "off"
    BY <1>a, <2>1, <2>2 DEF WakesOK
  <2>3. CASE pump.pc # "off"
    BY <2>1, <2>3, PumpWakes
  <2> QED
    BY <2>2, <2>3
<1>22. CASE Persists
  BY <1>22, <1>d DEF Persists
<1>23. ASSUME NEW n, NEW b, ResolveRetry(n, b), run' = run, bash' = bash, unwoken' = unwoken,
              sched' = IF retry.promise THEN Scheduled(sched, act') ELSE sched,
              Selectable(act') => Selectable(act)
       PROVE  WakesOK'
  <2>1. CASE retry.promise
    <3>1. sched' = Scheduled(sched, act')
      BY <1>23, <2>1
    <3> QED
      BY <1>a, <3>1, WokenBySchedule
  <2>2. CASE ~retry.promise
    <3>1. pump' = pump /\ sched' = sched
      BY <1>23, <2>2 DEF ResolveRetry
    <3>2. Wakes => Wakes'
      BY <1>23, <2>2, <3>1 DEF Wakes, Held, Streaming
    <3> QED
      BY <1>23, <3>1, <3>2, WakesStay
  <2> QED
    BY <2>1, <2>2
<1>24. CASE ReleasesCaptured
  <2>1. ASSUME NEW a \in Actions PROVE act'[a].st = act[a].st
    BY <1>24, <2>1, ReleasesActs DEF Moved
  <2>2. Selectable(act') => Selectable(act)
    BY <2>1 DEF Selectable, Having
  <2> QED
    BY <1>24, <2>2, <1>23 DEF ReleasesCaptured
<1>25. CASE StartsBackoff
  <2>1. retry'.promise /\ sched' = sched
    BY <1>25, <1>a DEF StartsBackoff, RetryRecord
  <2> QED
    BY <1>a, <2>1 DEF WakesOK, Wakes
<1>26. CASE EndsForGood
  <2>1. act' = act /\ run' = run /\ bash' = bash /\ unwoken' = unwoken
    BY <1>26 DEF EndsForGood
  <2>2. sched' = IF retry.promise THEN Scheduled(sched, act') ELSE sched
    BY <1>26, <2>1 DEF EndsForGood
  <2> QED
    BY <1>26, <2>1, <2>2, <1>c, <1>23 DEF EndsForGood
<1>27. CASE BackoffEnds
  <2>1. retry'.promise = retry.promise
    BY <1>27, <1>a DEF BackoffEnds, RetryRecord
  <2> QED
    BY <1>27, <2>1, <1>d DEF BackoffEnds
<1>28. CASE Continues
  <2>1. run'.st # "idle" /\ sched' = sched
    BY <1>28 DEF Continues, Streaming, NoRun
  <2> QED
    BY <1>18, <2>1
<1>29. CASE CheckpointStep
  BY <1>29, <1>d DEF CheckpointStep, CheckpointArrives, CheckpointEnters, CheckpointTaken
<1>30. CASE Abort \/ Pause
  <2>1. sched' = [NewEpoch(Unrequested(sched)) EXCEPT !.suspended = TRUE]
        \/ sched' = [NewEpoch(Unrequested(sched)) EXCEPT !.paused = TRUE]
    BY <1>30 DEF Abort, Pause
  <2>2. ~sched'.requested /\ (sched'.suspended \/ sched'.paused)
    BY <1>a, <2>1 DEF SchedRecord, NewEpoch, Unrequested
  <2> QED
    BY <2>2 DEF WakesOK, Wakes, Held
<1>31. CASE Resume \/ Release
  <2>1. PICK s \in SchedRecord : s.requested = sched.requested /\ s.chain = sched.chain
                                 /\ sched' = Scheduled(s, act)
    <3>1. /\ [sched EXCEPT !.suspended = FALSE] \in SchedRecord
          /\ [sched EXCEPT !.paused = FALSE] \in SchedRecord
          /\ [sched EXCEPT !.suspended = FALSE].requested = sched.requested
          /\ [sched EXCEPT !.suspended = FALSE].chain = sched.chain
          /\ [sched EXCEPT !.paused = FALSE].requested = sched.requested
          /\ [sched EXCEPT !.paused = FALSE].chain = sched.chain
      BY <1>a DEF SchedRecord
    <3> QED
      BY <1>31, <3>1 DEF Resume, Release
  <2>2. sched' = Scheduled(s, act')
    BY <1>31, <2>1 DEF Resume, Release
  <2> QED
    BY <1>a, <2>1, <2>2, WokenBySchedule
<1>32. CASE ClearQueue
  <2> DEFINE A == {a \in Having(act, Clearable) : act[a].visible}
  <2>1. A \in SUBSET Actions /\ Cancel(A)
    BY <1>32 DEF ClearQueue, Having
  <2>2. Selectable(act') => Selectable(act)
    BY <2>1, CancelledSleep
  <2>3. sched' = sched \/ sched' = NewEpoch(sched)
    BY <1>32 DEF ClearQueue
  <2>4. /\ sched'.requested = sched.requested /\ sched'.chain = sched.chain
        /\ sched'.suspended = sched.suspended /\ sched'.paused = sched.paused
    BY <1>a, <2>3 DEF SchedRecord, NewEpoch
  <2>5. UNCHANGED <<pump, run, retry, bash, unwoken>>
    BY <1>32 DEF ClearQueue
  <2> QED
    BY <2>2, <2>4, <2>5, WakesStay DEF Wakes, Held, Streaming
<1>33. ASSUME NEW a \in Actions, TakeBack(a) PROVE WakesOK'
  <2>1. Selectable(act') => Selectable(act)
    BY <1>33, CancelledSleep DEF TakeBack
  <2>2. UNCHANGED <<sched, pump, retry, bash, unwoken>>
    BY <1>33 DEF TakeBack
  <2>3. run'.st = run.st
    BY <1>33, <1>a DEF TakeBack, AbortsRun, RunRecord
  <2> QED
    BY <2>1, <2>2, <2>3, WakesStay DEF Wakes, Held, Streaming
<1>34. CASE StartBash
  <2>1. bash' # "none" /\ sched' = sched
    BY <1>34, SessionAssumption DEF StartBash
  <2> QED
    BY <1>a, <2>1 DEF WakesOK, Wakes
<1>35. CASE EndBash
  <2>1. sched' = sched
    BY <1>35 DEF EndBash
  <2>2. CASE bash = "user"
    <3>1. bash' # "none"
      BY <1>35, <2>2 DEF EndBash
    <3> QED
      BY <1>a, <2>1, <3>1 DEF WakesOK, Wakes
  <2>3. CASE bash = "raw"
    <3>1. unwoken'
      BY <1>35, <2>3 DEF EndBash
    <3> QED
      BY <1>a, <2>1, <3>1 DEF WakesOK
  <2> QED
    BY <1>35, <2>2, <2>3 DEF EndBash, BashRunning
<1>36. CASE DrainBash
  <2>1. sched' = Scheduled(sched, act')
    BY <1>36 DEF DrainBash
  <2> QED
    BY <1>a, <2>1, WokenBySchedule
<1> QED
  BY <1>1, <1>2, <1>3, <1>4, <1>5, <1>6, <1>7, <1>8, <1>9, <1>10, <1>12, <1>13, <1>14, <1>15,
     <1>16, <1>17, <1>19, <1>20, <1>21, <1>22, <1>24, <1>25, <1>26, <1>27, <1>28, <1>29, <1>30,
     <1>31, <1>32, <1>33, <1>34, <1>35, <1>36
     DEF Next, PumpStep, RunStep, EventStep, CallerStep

\* The session begins with nothing accepted.
LEMMA Begins == Init => IInv
<1> SUFFICES ASSUME Init PROVE IInv
  OBVIOUS
<1>0. /\ <<>> \in Seq(Actions) /\ <<>> \in Seq(Nat) /\ <<>> \in Seq(EventRecord)
      /\ <<>> \in Seq(Actions \cup {"pump", "checkpoint"})
      /\ Range(<<>>) = {} /\ IsInjective(<<>>) /\ MaxRetries \in Nat /\ MaxStops \in Nat
  BY SessionAssumption DEF Range, IsInjective
<1>1. TypeOK
  <2>1. NewAction \in ActionRecord
    BY DEF NewAction, ActionRecord
  <2>2. sched \in SchedRecord
    BY <1>0 DEF Init, SchedRecord
  <2>3. retry \in RetryRecord
    BY <1>0 DEF Init, RetryRecord
  <2>4. ticket \in [Actions -> TicketRecord]
    BY DEF Init, TicketRecord
  <2>5. pump \in PumpRecord /\ run \in RunRecord
    BY Updates DEF Init
  <2> QED
    <3>1. /\ act \in [Actions -> ActionRecord]
          /\ door \in [Actions -> {"out", "paused", "fence", "in", "open", "done"}]
      BY <2>1 DEF Init
    <3>2. /\ admitted \in Seq(Actions) /\ transcript \in Seq(Actions) /\ persisted \in Seq(Actions)
          /\ fence \in Seq(Actions \cup {"pump", "checkpoint"}) /\ events \in Seq(EventRecord)
      BY <1>0 DEF Init
    <3>4. bash = "none" /\ checkpoint = "none" /\ stops = 0 /\ unwoken = FALSE
      BY DEF Init
    <3>5. 0 \in 0..MaxStops
      BY <1>0
    <3>3. /\ bash \in {"none", "user", "raw", "drain"} /\ stops \in 0..MaxStops
          /\ checkpoint \in {"none", "fence", "events", "taken"} /\ unwoken \in BOOLEAN
      BY <3>4, <3>5
    <3> QED
      BY <2>2, <2>3, <2>4, <2>5, <3>1, <3>2, <3>3 DEF TypeOK
<1>2. Pending = {}
  BY DEF Init, Pending
<1>3. NoPump.pc = "off" /\ NoPump.batch = <<>> /\ NoRun.todo = <<>>
  BY DEF NoPump, NoRun
<1>4. FenceOK
  BY <1>0, <1>3 DEF Init, FenceOK
<1>5. EventsOK
  BY DEF Init, EventsOK
<1>6. SequencesOK
  BY <1>0, <1>3 DEF Init, SequencesOK
<1>7. CheckpointOK
  BY DEF Init, CheckpointOK
<1>8. ASSUME NEW a \in Actions PROVE PromptOK(a)
  <2>1. /\ act[a].st = "new" /\ ~act[a].durable /\ act[a].capture = "no"
        /\ ticket[a].delivered = "open" /\ ticket[a].completed = "open" /\ door[a] = "out"
    BY DEF Init, NewAction
  <2> QED
    BY <1>0, <1>2, <1>3, <2>1 DEF Init, PromptOK, Fresh
<1> QED
  BY <1>1, <1>4, <1>5, <1>6, <1>7, <1>8 DEF IInv

\* Every step keeps the invariant.
LEMMA Steps == IInv /\ [Next]_vars => IInv'
<1> SUFFICES ASSUME IInv, [Next]_vars PROVE IInv'
  OBVIOUS
<1>1. TypeOK /\ FenceOK /\ EventsOK
  BY DEF IInv
<1>2. TypeOK'
  BY <1>1, TypeStep
<1>3. FenceOK' /\ EventsOK' /\ SequencesOK' /\ CheckpointOK'
  BY FenceStep, EventsStep, SequencesStep, CheckpointSteps
<1>4. \A a \in Actions : PromptOK(a)'
  BY PromptStep
<1> QED
  BY <1>2, <1>3, <1>4 DEF IInv

\* The invariant of the session: the prompts' promises, captures and places agree with their
\* lifecycles, through every interleaving of the pump, the run, the events and the interruptions.
THEOREM SessionInvariant == Spec => []IInv
<1>1. Init => IInv
  BY Begins
<1>2. IInv /\ [Next]_vars => IInv'
  BY Steps
<1> QED
  BY <1>1, <1>2, PTL DEF Spec

-----------------------------------------------------------------------------
(* The theorems.                                                           *)

\* The records of the prompts, of the pump, the run and the queues keep their shape
\* (SessionAction, ActionTicket, the scheduler's flags).
THEOREM SessionTypeOK == Spec => []TypeOK
<1>1. IInv => TypeOK
  BY DEF IInv
<1> QED
  BY <1>1, SessionInvariant, PTL

\* Through rollbacks, retries, aborts and batches no prompt is taken into the transcript
\* or the session file twice (ActionStore, rollback; the first part of TakenInOrder).
THEOREM PromptsAreTakenOnce == Spec => []TakenOnce
<1>1. IInv => TakenOnce
  BY DEF IInv, SequencesOK, TakenOnce
<1> QED
  BY <1>1, SessionInvariant, PTL

\* The promises of a ticket agree with the session file and the transcript, and none is
\* left open when its action has ended (ActionTicketController, captureRunMessages).
THEOREM TicketsAreTrue == Spec => []TicketsTellTheTruth
<1>1. IInv => TicketsTellTheTruth
  <2> SUFFICES ASSUME IInv, NEW a \in Actions, act[a].capture # "lost"
               PROVE  /\ ticket[a].delivered = "delivered" <=>
                            a \in Range(persisted) \/ (a \in Pending /\ a \notin Captured)
                      /\ ticket[a].completed = "ok" => ticket[a].delivered = "delivered"
                      /\ ticket[a].completed = "error" =>
                             /\ a \notin Range(persisted)
                             /\ a \in Range(transcript) => a \in Captured
                      /\ act[a].st \in Terminal =>
                             "open" \notin {ticket[a].delivered, ticket[a].completed}
    BY DEF TicketsTellTheTruth
  <2>1. PromptOK(a) /\ act[a] \in ActionRecord /\ ticket[a] \in TicketRecord
    BY DEF IInv, TypeOK
  <2>2. a \in Captured <=> act[a].capture = "on"
    BY DEF Captured
  <2>3. act[a].capture \in {"no", "on"} /\ act[a].st \in Statuses
    BY <2>1 DEF ActionRecord, Statuses
  <2>4. CASE act[a].st \in {"new", "queued", "selected", "preparing", "committing"}
    BY <2>1, <2>4 DEF PromptOK, Fresh, Terminal
  <2>5. CASE act[a].st \in {"running", "completed"}
    BY <2>1, <2>2, <2>5 DEF PromptOK, Kept, Terminal
  <2>6. CASE act[a].st = "failed"
    BY <2>1, <2>6 DEF PromptOK, Fresh, Terminal
  <2>7. CASE act[a].st = "cancelled"
    BY <2>1, <2>2, <2>3, <2>7 DEF PromptOK, Terminal
  <2> QED
    BY <2>3, <2>4, <2>5, <2>6, <2>7 DEF Statuses, Clearable, Active, Terminal
<1> QED
  BY <1>1, SessionInvariant, PTL

\* While a checkpoint is held every prompt that was accepted is in the restart's snapshot,
\* in the session file or ended (waitForSessionInputCheckpoint).
THEOREM CheckpointsAreExact == Spec => []CheckpointIsExact
<1>1. IInv => CheckpointIsExact
  <2> SUFFICES ASSUME IInv, checkpoint = "taken", NEW a \in Range(admitted)
               PROVE  act[a].st \in Terminal \cup {"queued"} \/ a \in Range(persisted)
    BY DEF CheckpointIsExact
  <2>1. a \in Actions
    BY DEF IInv, TypeOK, Range
  <2>2. PromptOK(a) /\ CheckpointOK /\ act[a].st \in Statuses
    BY <2>1 DEF IInv, TypeOK, ActionRecord, Statuses
  <2>3. act[a].st \notin {"new", "selected", "preparing"}
    BY <2>1, <2>2 DEF CheckpointOK, BlocksCheckpoint, PromptOK
  <2>4. act[a].st # "committing"
    BY <2>1, <2>2 DEF CheckpointOK, BlocksCheckpoint, PromptOK, Fresh
  <2> QED
    BY <2>1, <2>2, <2>3, <2>4 DEF CheckpointOK, Statuses, Clearable, Active, Terminal
<1> QED
  BY <1>1, SessionInvariant, PTL

\* Whoever waits is woken by what it waits for, or it was one of the four steps that wake
\* nobody (_scheduleSessionInputPump and its callers).
THEOREM WaitersAreWoken == Spec => []WakesOK
<1>1. Init => WakesOK
  BY DEF Init, NewAction, Selectable, Having, WakesOK
<1>2. IInv /\ WakesOK /\ [Next]_vars => WakesOK'
  BY WakesStep DEF IInv
<1> QED
  BY <1>1, <1>2, SessionInvariant, PTL DEF Spec

\* A session in which nothing runs has no prompt left in its queues, unless a wake was
\* due that the code does not give.
THEOREM NoPromptSleeps == Spec => []NothingSleeps
<1>1. WakesOK => NothingSleeps
  BY DEF WakesOK, Wakes, NothingSleeps, Quiet
<1> QED
  BY <1>1, WaitersAreWoken, PTL

-----------------------------------------------------------------------------
(* The order of the queues.                                                *)

\* a was admitted before b.
Before(ad, a, b) == \E m, n \in DOMAIN ad : m < n /\ ad[m] = a /\ ad[n] = b
\* Of two prompts of one queue, the one that comes first was admitted first.
Ahead(ad, a, b) == Delivery[a] = Delivery[b] => Before(ad, a, b)
InLine(ad, seq) == \A i, j \in DOMAIN seq : i < j => Ahead(ad, seq[i], seq[j])

\* The prompts the events tell of, and that they tell of them in line.
Tells(ev, n) == n \in DOMAIN ev /\ ev[n].type = "message"
Told(ev) == {ev[n].action : n \in {m \in DOMAIN ev : Tells(ev, m)}}
TellsInLine(ad, ev) ==
    \A i, j \in DOMAIN ev : i < j /\ Tells(ev, i) /\ Tells(ev, j)
                            => Ahead(ad, ev[i].action, ev[j].action)

\* A prompt that is admitted comes behind all others, and changes nothing among them.
LEMMA BeforeGrows ==
    ASSUME NEW ad \in Seq(Actions), NEW x \in Actions, NEW a, NEW b
    PROVE  /\ Before(ad, a, b) => Before(Append(ad, x), a, b)
           /\ Before(Append(ad, x), a, b) => Before(ad, a, b) \/ (a \in Range(ad) /\ b = x)
<1> DEFINE t == Append(ad, x)
<1>1. /\ t \in Seq(Actions) /\ Len(t) = Len(ad) + 1 /\ Len(ad) \in Nat
      /\ DOMAIN ad = 1..Len(ad) /\ DOMAIN t = 1..(Len(ad) + 1)
      /\ \A i \in 1..Len(ad) : t[i] = ad[i]
      /\ t[Len(ad) + 1] = x
  BY AppendProperties
<1> HIDE DEF t
<1>2. ASSUME Before(ad, a, b) PROVE Before(t, a, b)
  <2>1. PICK m, n \in 1..Len(ad) : m < n /\ ad[m] = a /\ ad[n] = b
    BY <1>1, <1>2 DEF Before
  <2>2. m \in DOMAIN t /\ n \in DOMAIN t
    BY <1>1
  <2> QED
    BY <1>1, <2>1, <2>2 DEF Before
<1>3. ASSUME Before(t, a, b) PROVE Before(ad, a, b) \/ (a \in Range(ad) /\ b = x)
  <2>1. PICK m, n \in 1..(Len(ad) + 1) : m < n /\ t[m] = a /\ t[n] = b
    BY <1>1, <1>3 DEF Before
  <2>2. m \in 1..Len(ad) /\ (n \in 1..Len(ad) \/ n = Len(ad) + 1)
    BY <1>1, <2>1
  <2>3. a \in Range(ad)
    BY <1>1, <2>1, <2>2 DEF Range
  <2> QED
    BY <1>1, <2>1, <2>2, <2>3 DEF Before
<1> QED
  BY <1>2, <1>3 DEF t

\* What is in line stays in line when a prompt is admitted.
LEMMA LineGrows ==
    ASSUME NEW ad \in Seq(Actions), NEW x \in Actions
    PROVE  /\ \A a, b : Ahead(ad, a, b) => Ahead(Append(ad, x), a, b)
           /\ \A seq : InLine(ad, seq) => InLine(Append(ad, x), seq)
           /\ \A ev : TellsInLine(ad, ev) => TellsInLine(Append(ad, x), ev)
<1>1. \A a, b : Ahead(ad, a, b) => Ahead(Append(ad, x), a, b)
  BY BeforeGrows DEF Ahead
<1> QED
  BY <1>1 DEF InLine, TellsInLine

\* Of two prompts of one queue one was admitted before the other, and not also after it.
LEMMA OneIsFirst ==
    ASSUME NEW ad \in Seq(Actions), NEW a \in Range(ad), NEW b \in Range(ad), a # b
    PROVE  Before(ad, a, b) \/ Before(ad, b, a)
<1>1. DOMAIN ad = 1..Len(ad) /\ Len(ad) \in Nat
  OBVIOUS
<1>2. PICK m \in 1..Len(ad), n \in 1..Len(ad) : ad[m] = a /\ ad[n] = b
  BY <1>1 DEF Range
<1>3. m < n \/ n < m
  BY <1>2
<1> QED
  BY <1>1, <1>2, <1>3 DEF Before

LEMMA NotBoth ==
    ASSUME NEW ad \in Seq(Actions), IsInjective(ad), NEW a, NEW b, Before(ad, a, b)
    PROVE  ~Before(ad, b, a) /\ a # b
<1>1. DOMAIN ad = 1..Len(ad) /\ Len(ad) \in Nat
  OBVIOUS
<1>2. PICK m \in 1..Len(ad), n \in 1..Len(ad) : m < n /\ ad[m] = a /\ ad[n] = b
  BY <1>1 DEF Before
<1>3. \A i, j \in 1..Len(ad) : ad[i] = ad[j] => i = j
  BY <1>1 DEF IsInjective
<1>4. a # b
  BY <1>2, <1>3
<1>5. ASSUME Before(ad, b, a) PROVE FALSE
  <2>1. PICK k \in 1..Len(ad), l \in 1..Len(ad) : k < l /\ ad[k] = b /\ ad[l] = a
    BY <1>1, <1>5 DEF Before
  <2>2. k = n /\ l = m
    BY <1>2, <1>3, <2>1
  <2> QED
    BY <1>2, <2>1, <2>2
<1> QED
  BY <1>4, <1>5

\* What a filter keeps of a line is in line.
LEMMA KeptInLine ==
    ASSUME NEW ad, NEW s \in Seq(Actions), InLine(ad, s), NEW A
    PROVE  InLine(ad, Only(s, A))
<1> DEFINE o == Only(s, A)
<1>1. o \in Seq(Actions)
  BY OnlyPicks
<1>2. PICK h \in [1..Len(o) -> 1..Len(s)] :
         /\ \A i \in 1..Len(o) : o[i] = s[h[i]]
         /\ \A i, j \in 1..Len(o) : i < j => h[i] < h[j]
  BY OnlyPicks
<1> HIDE DEF o
<1>3. DOMAIN o = 1..Len(o) /\ DOMAIN s = 1..Len(s)
  BY <1>1
<1>4. ASSUME NEW i \in 1..Len(o), NEW j \in 1..Len(o), i < j PROVE Ahead(ad, o[i], o[j])
  <2>1. h[i] < h[j] /\ h[i] \in 1..Len(s) /\ h[j] \in 1..Len(s)
    BY <1>2, <1>4
  <2> QED
    BY <1>2, <1>3, <2>1 DEF InLine
<1>5. InLine(ad, o)
  BY <1>3, <1>4 DEF InLine
<1> QED
  BY <1>5 DEF o

\* Without its head a line is in line, and behind its head.
LEMMA TailInLine ==
    ASSUME NEW ad, NEW s \in Seq(Actions), s # <<>>, InLine(ad, s)
    PROVE  InLine(ad, Tail(s)) /\ \A b \in Range(Tail(s)) : Ahead(ad, Head(s), b)
<1> DEFINE t == Tail(s)
<1>1. /\ t \in Seq(Actions) /\ Len(t) = Len(s) - 1 /\ Len(s) \in Nat \ {0}
      /\ \A i \in 1..Len(t) : t[i] = s[i + 1]
      /\ Head(s) = s[1] /\ DOMAIN s = 1..Len(s)
  BY HeadTailProperties
<1> HIDE DEF t
<1>2. DOMAIN t = 1..Len(t)
  BY <1>1
<1>3. \A i \in 1..Len(t) : i + 1 \in 1..Len(s) /\ 1 < i + 1 /\ 1 \in 1..Len(s)
  BY <1>1
<1>4. \A i, j \in 1..Len(t) : i < j => i + 1 < j + 1
  OBVIOUS
<1>5. InLine(ad, t)
  BY <1>1, <1>2, <1>3, <1>4 DEF InLine
<1>6. \A i \in 1..Len(t) : Ahead(ad, s[1], t[i])
  BY <1>1, <1>3 DEF InLine
<1>7. \A b \in Range(t) : Ahead(ad, Head(s), b)
  BY <1>1, <1>2, <1>6 DEF Range
<1> QED
  BY <1>5, <1>7 DEF t

\* A prompt that is behind all of a line can be put at its end.
LEMMA LineTakesOne ==
    ASSUME NEW ad, NEW s \in Seq(Actions), NEW x \in Actions, InLine(ad, s),
           \A a \in Range(s) : Ahead(ad, a, x)
    PROVE  InLine(ad, Append(s, x))
<1> DEFINE t == Append(s, x)
<1>1. /\ t \in Seq(Actions) /\ Len(t) = Len(s) + 1 /\ Len(s) \in Nat
      /\ DOMAIN s = 1..Len(s) /\ DOMAIN t = 1..(Len(s) + 1)
      /\ \A i \in 1..Len(s) : t[i] = s[i]
      /\ t[Len(s) + 1] = x
  BY AppendProperties
<1> HIDE DEF t
<1>2. ASSUME NEW i \in 1..(Len(s) + 1), NEW j \in 1..(Len(s) + 1), i < j
      PROVE  Ahead(ad, t[i], t[j])
  <2>1. i \in 1..Len(s) /\ (j \in 1..Len(s) \/ j = Len(s) + 1)
    BY <1>1, <1>2
  <2>2. s[i] \in Range(s)
    BY <1>1, <2>1 DEF Range
  <2> QED
    BY <1>1, <1>2, <2>1, <2>2 DEF InLine
<1>3. InLine(ad, t)
  BY <1>1, <1>2 DEF InLine
<1> QED
  BY <1>3 DEF t

\* The same of the queue of the events.
LEMMA EventsShrinkInLine ==
    ASSUME NEW ad, NEW ev \in Seq(EventRecord), ev # <<>>, TellsInLine(ad, ev)
    PROVE  /\ TellsInLine(ad, Tail(ev)) /\ Told(Tail(ev)) \subseteq Told(ev)
           /\ Head(ev).type = "message" =>
                 /\ Head(ev).action \in Told(ev)
                 /\ \A b \in Told(Tail(ev)) : Ahead(ad, Head(ev).action, b)
<1> DEFINE t == Tail(ev)
<1>1. /\ t \in Seq(EventRecord) /\ Len(t) = Len(ev) - 1 /\ Len(ev) \in Nat \ {0}
      /\ \A i \in 1..Len(t) : t[i] = ev[i + 1]
      /\ Head(ev) = ev[1] /\ DOMAIN ev = 1..Len(ev)
  BY HeadTailProperties
<1> HIDE DEF t
<1>2. DOMAIN t = 1..Len(t)
  BY <1>1
<1>3. /\ 1 \in 1..Len(ev)
      /\ \A i \in 1..Len(t) : i + 1 \in 1..Len(ev) /\ 1 < i + 1
      /\ \A i, j \in 1..Len(t) : i < j => i + 1 < j + 1
  BY <1>1
<1>4. \A i \in 1..Len(t) : Tells(t, i) <=> Tells(ev, i + 1)
  BY <1>1, <1>2, <1>3 DEF Tells
<1>5. TellsInLine(ad, t)
  BY <1>1, <1>2, <1>3, <1>4 DEF TellsInLine
<1>6. Told(t) \subseteq Told(ev)
  BY <1>1, <1>2, <1>3, <1>4 DEF Told
<1>7. ASSUME Head(ev).type = "message"
      PROVE  /\ Head(ev).action \in Told(ev)
             /\ \A b \in Told(t) : Ahead(ad, Head(ev).action, b)
  <2>1. Tells(ev, 1)
    BY <1>1, <1>3, <1>7 DEF Tells
  <2>2. \A i \in 1..Len(t) : Tells(t, i) => Ahead(ad, ev[1].action, t[i].action)
    BY <1>1, <1>3, <1>4, <2>1 DEF TellsInLine
  <2>3. \A b \in Told(t) : \E i \in 1..Len(t) : Tells(t, i) /\ b = t[i].action
    BY <1>2 DEF Told
  <2> QED
    BY <1>1, <1>3, <2>1, <2>2, <2>3 DEF Told
<1> QED
  BY <1>5, <1>6, <1>7 DEF t

LEMMA EventsGrowInLine ==
    ASSUME NEW ad, NEW ev \in Seq(EventRecord), NEW e \in EventRecord, TellsInLine(ad, ev),
           e.type = "message" => \A a \in Told(ev) : Ahead(ad, a, e.action)
    PROVE  /\ TellsInLine(ad, Append(ev, e))
           /\ Told(Append(ev, e)) = Told(ev) \cup (IF e.type = "message" THEN {e.action} ELSE {})
<1> DEFINE t == Append(ev, e)
<1>1. /\ t \in Seq(EventRecord) /\ Len(t) = Len(ev) + 1 /\ Len(ev) \in Nat
      /\ DOMAIN ev = 1..Len(ev) /\ DOMAIN t = 1..(Len(ev) + 1)
      /\ \A i \in 1..Len(ev) : t[i] = ev[i]
      /\ t[Len(ev) + 1] = e
  BY AppendProperties
<1> HIDE DEF t
<1>2. /\ \A i \in 1..(Len(ev) + 1) : i \in 1..Len(ev) \/ i = Len(ev) + 1
      /\ \A i \in 1..Len(ev) : i \in 1..(Len(ev) + 1)
      /\ Len(ev) + 1 \in 1..(Len(ev) + 1) /\ Len(ev) + 1 \notin 1..Len(ev)
  BY <1>1
<1>3. /\ \A i \in 1..Len(ev) : Tells(t, i) <=> Tells(ev, i)
      /\ Tells(t, Len(ev) + 1) <=> e.type = "message"
  BY <1>1, <1>2 DEF Tells
<1>4. ASSUME NEW i \in 1..(Len(ev) + 1), NEW j \in 1..(Len(ev) + 1), i < j,
             Tells(t, i), Tells(t, j)
      PROVE  Ahead(ad, t[i].action, t[j].action)
  <2>1. i \in 1..Len(ev) /\ (j \in 1..Len(ev) \/ j = Len(ev) + 1)
    BY <1>1, <1>4
  <2>2. ev[i].action \in Told(ev) /\ Tells(ev, i)
    BY <1>1, <1>3, <1>4, <2>1 DEF Told
  <2>3. CASE j \in 1..Len(ev)
    BY <1>1, <1>3, <1>4, <2>1, <2>2, <2>3 DEF TellsInLine
  <2>4. CASE j = Len(ev) + 1
    BY <1>1, <1>3, <1>4, <2>1, <2>2, <2>4
  <2> QED
    BY <2>1, <2>3, <2>4
<1>5. TellsInLine(ad, t)
  BY <1>1, <1>4 DEF TellsInLine
<1>6. Told(t) = Told(ev) \cup (IF e.type = "message" THEN {e.action} ELSE {})
  <2>1. \A x \in Told(t) : x \in Told(ev) \/ (e.type = "message" /\ x = e.action)
    BY <1>1, <1>2, <1>3 DEF Told
  <2>2. \A x \in Told(ev) : x \in Told(t)
    BY <1>1, <1>2, <1>3 DEF Told
  <2>3. e.type = "message" => e.action \in Told(t)
    BY <1>1, <1>2, <1>3 DEF Told
  <2> QED
    BY <2>1, <2>2, <2>3
<1> QED
  BY <1>5, <1>6 DEF t

\* A queue is in line, and no prompt of it is skipped by one behind it.
LEMMA QueueInLine ==
    ASSUME TypeOK, IsInjective(admitted), NEW p
    PROVE  LET q == QueuedIn(p) IN
           /\ InLine(admitted, q)
           /\ \A j \in 1..Len(q) : Delivery[q[j]] = p
           /\ \A j \in 1..Len(q) : \A a \in Having(act, {"queued"}) :
                 Delivery[a] = p /\ Before(admitted, a, q[j])
                 => \E i \in 1..Len(q) : i < j /\ q[i] = a
<1> DEFINE A == {a \in Having(act, {"queued"}) : Delivery[a] = p}
           q == Only(admitted, A)
<1>1. q \in Seq(Actions) /\ admitted \in Seq(Actions)
  BY OnlyKeeps DEF TypeOK
<1>a. \A a : a \in A <=> a \in Having(act, {"queued"}) /\ Delivery[a] = p
  OBVIOUS
<1>b. QueuedIn(p) = q
  BY DEF QueuedIn
<1> HIDE DEF A
<1>2. PICK h \in [1..Len(q) -> 1..Len(admitted)] :
         /\ \A i \in 1..Len(q) : q[i] = admitted[h[i]] /\ admitted[h[i]] \in A
         /\ \A i, j \in 1..Len(q) : i < j => h[i] < h[j]
         /\ \A n \in 1..Len(admitted) : admitted[n] \in A => \E i \in 1..Len(q) : h[i] = n
  BY <1>1, OnlyPicks
<1> HIDE DEF q
<1>3. DOMAIN q = 1..Len(q) /\ DOMAIN admitted = 1..Len(admitted) /\ Len(q) \in Nat
  BY <1>1
<1>4. \A m, n \in 1..Len(admitted) : admitted[m] = admitted[n] => m = n
  BY <1>3 DEF IsInjective
<1>5. ASSUME NEW i \in 1..Len(q), NEW j \in 1..Len(q), i < j
      PROVE  Before(admitted, q[i], q[j])
  <2>1. h[i] \in DOMAIN admitted /\ h[j] \in DOMAIN admitted /\ h[i] < h[j]
    BY <1>2, <1>3, <1>5
  <2> QED
    BY <1>2, <2>1 DEF Before
<1>6. InLine(admitted, q)
  BY <1>3, <1>5 DEF InLine, Ahead
<1>7. \A j \in 1..Len(q) : Delivery[q[j]] = p
  BY <1>2, <1>a
<1>8. ASSUME NEW j \in 1..Len(q), NEW a \in A, Before(admitted, a, q[j])
      PROVE  \E i \in 1..Len(q) : i < j /\ q[i] = a
  <2>1. PICK m \in 1..Len(admitted), n \in 1..Len(admitted) :
           m < n /\ admitted[m] = a /\ admitted[n] = q[j]
    BY <1>3, <1>8 DEF Before
  <2>2. h[j] \in 1..Len(admitted) /\ n = h[j]
    BY <1>2, <1>4, <2>1
  <2>3. PICK i \in 1..Len(q) : h[i] = m
    BY <1>2, <1>8, <2>1
  <2>4. ~(j < i) /\ i # j
    BY <1>2, <2>1, <2>2, <2>3
  <2>5. i < j
    BY <1>3, <2>4
  <2> QED
    BY <1>2, <2>1, <2>3, <2>5
<1> QED
  BY <1>6, <1>7, <1>8, <1>b, <1>a

\* The batch is in line, and skips no prompt of its queue.
LEMMA BatchInLine ==
    ASSUME TypeOK, IsInjective(admitted)
    PROVE  /\ InLine(admitted, Batch)
           /\ \A a \in Having(act, {"queued"}), b \in Range(Batch) :
                 Delivery[a] = Delivery[b] /\ Before(admitted, a, b) => a \in Range(Batch)
<1>1. PICK p \in Policies :
         /\ QueuedIn(p) \in Seq(Actions) /\ Batch \in Seq(Actions)
         /\ Len(Batch) <= Len(QueuedIn(p))
         /\ \A i \in 1..Len(Batch) : Batch[i] = QueuedIn(p)[i]
  BY BatchIsFirst
<1> DEFINE q == QueuedIn(p)
<1>2. /\ InLine(admitted, q)
      /\ \A j \in 1..Len(q) : Delivery[q[j]] = p
      /\ \A j \in 1..Len(q) : \A a \in Having(act, {"queued"}) :
            Delivery[a] = p /\ Before(admitted, a, q[j])
            => \E i \in 1..Len(q) : i < j /\ q[i] = a
  BY QueueInLine
<1>3. /\ DOMAIN Batch = 1..Len(Batch) /\ DOMAIN q = 1..Len(q)
      /\ Len(Batch) \in Nat /\ Len(q) \in Nat
      /\ \A i \in 1..Len(Batch) : i \in 1..Len(q) /\ Batch[i] = q[i]
  BY <1>1
<1> HIDE DEF q
<1>4. InLine(admitted, Batch)
  BY <1>2, <1>3 DEF InLine
<1>5. ASSUME NEW a \in Having(act, {"queued"}), NEW b \in Range(Batch),
             Delivery[a] = Delivery[b], Before(admitted, a, b)
      PROVE  a \in Range(Batch)
  <2>1. PICK j \in 1..Len(Batch) : Batch[j] = b
    BY <1>3 DEF Range
  <2>2. j \in 1..Len(q) /\ q[j] = b
    BY <1>3, <2>1
  <2>3. Delivery[a] = p
    BY <1>2, <1>5, <2>2
  <2>4. PICK i \in 1..Len(q) : i < j /\ q[i] = a
    BY <1>2, <1>5, <2>2, <2>3
  <2>5. i \in 1..Len(Batch)
    BY <1>3, <2>4
  <2> QED
    BY <1>3, <2>4, <2>5 DEF Range
<1> QED
  BY <1>4, <1>5

\* The prompts that a run holds, or that the agent or the session file has taken.
Taken == Range(transcript) \cup Range(run.todo) \cup Range(persisted) \cup Told(events)

\* What was taken, and what is under way, is in line: the transcript and the file, then
\* what the events tell of, then what the run still holds.
LinesOK ==
    /\ InLine(admitted, transcript) /\ InLine(admitted, persisted)
    /\ InLine(admitted, run.todo) /\ InLine(admitted, pump.batch)
    /\ TellsInLine(admitted, events)
    /\ \A a \in Range(transcript) \cup Range(persisted) \cup Told(events), b \in Range(run.todo) :
          Ahead(admitted, a, b)
    /\ \A a \in Range(persisted), b \in Told(events) : Ahead(admitted, a, b)

\* Before a prompt that was selected at its admission nothing is left; before one that is
\* prepared or was taken nothing waits in its queue.
QueuesOK ==
    \A a, b \in Actions : Before(admitted, a, b) =>
        /\ act[b].st = "selected" => act[a].st \in Terminal
        /\ Delivery[a] = Delivery[b] =>
              /\ act[b].st = "preparing" => act[a].st \notin {"queued", "selected"}
              /\ b \in Taken => act[a].st \notin Clearable

\* Whoever is prepared is in the batch of a pump that prepares.
Preparation == {"validate", "extend", "extended", "fence"}
PreparingOK ==
    \A a \in Actions : act[a].st = "preparing" =>
        a \in Range(pump.batch) /\ pump.pc \in Preparation

\* A batch that is given back or fails leaves nobody in preparation.
LEMMA BatchEnds ==
    ASSUME TypeOK, PreparingOK, Defers \/ Fails, NEW b \in Actions
    PROVE  act'[b].st # "preparing"
<1>1. act' = Becomes(Range(ActiveTurns), "queued") \/ act' = Becomes(Range(ActiveTurns), "failed")
  BY DEF Defers, Fails
<1>2. PICK s \in {"queued", "failed"} : act' = Becomes(Range(ActiveTurns), s)
  BY <1>1
<1>3. s \in Statuses /\ s # "preparing"
  BY DEF Statuses, Clearable, Terminal
<1>4. CASE b \in Range(ActiveTurns)
  <2>1. act'[b] = [act[b] EXCEPT !.st = s] /\ act[b] \in ActionRecord
    BY <1>2, <1>3, <1>4, BecomesMoves DEF TypeOK
  <2> QED
    BY <1>3, <2>1 DEF ActionRecord
<1>5. CASE b \notin Range(ActiveTurns)
  <2>1. act'[b] = act[b]
    BY <1>2, <1>3, <1>5, BecomesMoves
  <2>2. act[b].st # "preparing"
    BY <1>5, TurnsAreOfTheBatch DEF PreparingOK, Having
  <2> QED
    BY <2>1, <2>2
<1> QED
  BY <1>4, <1>5

\* Every step keeps who is prepared in the batch.
LEMMA PreparingStep ==
    ASSUME TypeOK, PreparingOK, [Next]_vars
    PROVE  PreparingOK'
<1> USE DEF input, admission, agent
<1> DEFINE NoneBegins == \A a \in Actions : act'[a].st = "preparing" => act[a].st = "preparing"
<1>a. pump \in PumpRecord
  BY DEF TypeOK
<1>b. \A pc \in {"off", "idle", "events", "select", "validate", "extend", "extended", "fence",
                 "run", "retry", "retried", "settle", "settled"} :
         [pump EXCEPT !.pc = pc].pc = pc /\ [pump EXCEPT !.pc = pc].batch = pump.batch
  BY <1>a DEF PumpRecord
<1>c. ASSUME UNCHANGED <<act, pump>> PROVE PreparingOK'
  BY <1>c DEF PreparingOK
<1>d. ASSUME NoneBegins, pump'.batch = pump.batch,
             pump.pc \in Preparation => pump'.pc \in Preparation
      PROVE  PreparingOK'
  BY <1>d DEF PreparingOK
<1>e. ASSUME NoneBegins, pump.pc \notin Preparation PROVE PreparingOK'
  BY <1>e DEF PreparingOK
<1>f. ASSUME \A a \in Actions : act'[a].st # "preparing" PROVE PreparingOK'
  BY <1>f DEF PreparingOK
<1>g. act' = act => NoneBegins
  OBVIOUS
<1>h. (\A a \in Actions : Moved(a, act[a].st)) => NoneBegins
  BY DEF Moved
<1>i. ASSUME NEW n, NEW b, ResolveRetry(n, b)
      PROVE  pump'.batch = pump.batch /\ (pump.pc \in Preparation => pump'.pc \in Preparation)
  BY <1>i, <1>b DEF ResolveRetry, Preparation
<1>j. Defers \/ Fails => PreparingOK'
  BY <1>f, BatchEnds
<1>k. ASSUME NEW A \in SUBSET Actions, Cancel(A) PROVE NoneBegins
  BY <1>k, CancelActs DEF Moved
<1> HIDE DEF NoneBegins
<1>1. CASE UNCHANGED vars
  BY <1>1, <1>c DEF vars
<1>2. ASSUME NEW a \in Actions, Arrive(a) \/ Return(a) \/ Enter(a) \/ Handle(a) PROVE PreparingOK'
  BY <1>2, <1>c DEF Arrive, Return, Enter, Handle
<1>3. ASSUME NEW a \in Actions, NEW q \in BOOLEAN, Admit(a, q) PROVE PreparingOK'
  <2>1. NoneBegins
    BY <1>3, AdmitActs DEF NoneBegins, Moved
  <2>2. pump' = pump
    BY <1>3 DEF Admit
  <2> QED
    BY <2>1, <2>2, <1>d
<1>4. CASE PumpStarts \/ PumpFindsEventsDone \/ PumpIsBlocked \/ PumpFindsNothing
           \/ PumpSeesRunEnd \/ PumpSeesRetryEnd \/ PumpSettles
  <2>1. act' = act /\ pump.pc \in {"off", "events", "select", "run", "retried", "settle"}
    BY <1>4 DEF PumpStarts, PumpFindsEventsDone, PumpIsBlocked, PumpFindsNothing, PumpSeesRunEnd,
       PumpSeesRetryEnd, PumpSettles
  <2> QED
    BY <2>1, <1>e, <1>g DEF Preparation
<1>5. CASE PumpFindsAgentIdle
  <2>1. NoneBegins
    BY <1>5, IdleActs DEF NoneBegins, Moved
  <2>2. pump.pc = "idle"
    BY <1>5 DEF PumpFindsAgentIdle
  <2> QED
    BY <2>1, <2>2, <1>e DEF Preparation
<1>6. CASE PumpSelects
  <2> DEFINE batch == IF pump.pre = None THEN Batch ELSE <<pump.pre>>
  <2>1. /\ act' = Becomes(Range(batch), "preparing") /\ pump.pc = "select"
        /\ pump' = [pump EXCEPT !.pc = "validate", !.batch = batch]
    BY <1>6 DEF PumpSelects
  <2> HIDE DEF batch
  <2>2. pump'.pc = "validate" /\ pump'.batch = batch
    BY <1>a, <2>1 DEF PumpRecord
  <2>3. \A a \in Actions : a \notin Range(batch) => act'[a].st # "preparing"
    BY <2>1 DEF Becomes, PreparingOK, Preparation
  <2> QED
    BY <2>2, <2>3 DEF PreparingOK, Preparation
<1>7. ASSUME NEW valid \in BOOLEAN, Validated(valid) PROVE PreparingOK'
  <2>1. CASE Defers \/ Fails
    BY <2>1, <1>j
  <2>2. CASE ~(Defers \/ Fails)
    <3>1. pump' = [pump EXCEPT !.pc = "extend"] /\ act' = act
      BY <1>7, <2>2 DEF Validated
    <3> QED
      BY <3>1, <1>b, <1>d, <1>g DEF Preparation
  <2> QED
    BY <2>1, <2>2
<1>8. CASE PumpPrepares
  <2>1. CASE Defers
    BY <2>1, <1>j
  <2>2. CASE ~Defers
    <3>1. act' = act /\ pump' = IF Unprepared
                                THEN [pump EXCEPT !.pc = "extended", !.anchor = Last(ActiveTurns)]
                                ELSE IF ActiveTurns = <<>> THEN Looped(act)
                                ELSE [pump EXCEPT !.pc = "fence", !.turns = ActiveTurns]
      BY <1>8, <2>2 DEF PumpPrepares
    <3>2. CASE Unprepared
      <4>1. pump'.pc = "extended" /\ pump'.batch = pump.batch
        BY <1>a, <3>1, <3>2 DEF PumpRecord
      <4> QED
        BY <3>1, <4>1, <1>d, <1>g DEF Preparation
    <3>3. CASE ActiveTurns = <<>>
      <4>1. Range(ActiveTurns) = {}
        BY <3>3 DEF Range
      <4>2. \A a \in Actions : act[a].st # "preparing"
        BY <4>1, TurnsAreOfTheBatch DEF PreparingOK, Having
      <4> QED
        BY <3>1, <4>2, <1>f
    <3>4. CASE ~Unprepared /\ ActiveTurns # <<>>
      <4>1. pump'.pc = "fence" /\ pump'.batch = pump.batch
        BY <1>a, <3>1, <3>4 DEF PumpRecord
      <4> QED
        BY <3>1, <4>1, <1>d, <1>g DEF Preparation
    <3> QED
      BY <3>2, <3>3, <3>4
  <2> QED
    BY <2>1, <2>2
<1>9. CASE PumpIsPrepared
  <2>1. NoneBegins
    BY <1>9, <1>h, PreparedActs
  <2>2. pump' = [pump EXCEPT !.pc = "extend"]
    BY <1>9 DEF PumpIsPrepared
  <2> QED
    BY <2>1, <2>2, <1>b, <1>d DEF Preparation
<1>10. CASE PumpDispatches
  <2>1. CASE Defers
    BY <2>1, <1>j
  <2>2. CASE ~Defers
    <3>1. Dispatches
      BY <1>10, <2>2 DEF PumpDispatches, Dispatches
    <3>2. \A a \in Actions : act'[a].st # "preparing"
      <4> TAKE a \in Actions
      <4>1. act[a].st = "preparing" => a \in Range(pump.turns)
        BY <3>1, DispatchActs, TurnsAreOfTheBatch DEF PreparingOK, Having
      <4> QED
        BY <3>1, <4>1, DispatchActs DEF Moved
    <3> QED
      BY <3>2, <1>f
  <2> QED
    BY <2>1, <2>2
<1>11. CASE PumpCompletes
  <2>1. NoneBegins
    BY <1>11, CompletesActs DEF NoneBegins, Moved
  <2>2. pump.pc = "settled"
    BY <1>11 DEF PumpCompletes
  <2> QED
    BY <2>1, <2>2, <1>e DEF Preparation
<1>12. CASE TakeIn
  <2>1. NoneBegins
    BY <1>12, TakeInActs DEF NoneBegins, Moved
  <2>2. pump' = pump
    BY <1>12 DEF TakeIn
  <2> QED
    BY <2>1, <2>2, <1>d
<1>13. ASSUME NEW retryable \in BOOLEAN, EndRun(retryable) PROVE PreparingOK'
  BY <1>13, <1>c DEF EndRun
<1>14. CASE FinishRun \/ Persists \/ StartsBackoff \/ BackoffEnds \/ Continues
  BY <1>14, <1>c DEF FinishRun, Persists, StartsBackoff, BackoffEnds, Continues
<1>15. CASE ReleasesCaptured
  <2>1. NoneBegins
    BY <1>15, ReleasesActs DEF NoneBegins, Moved
  <2> QED
    BY <1>15, <2>1, <1>d, <1>i DEF ReleasesCaptured
<1>16. CASE EndsForGood
  <2>1. act' = act
    BY <1>16 DEF EndsForGood
  <2> QED
    BY <1>16, <2>1, <1>d, <1>g, <1>i DEF EndsForGood
<1>17. CASE CheckpointStep
  BY <1>17, <1>c DEF CheckpointStep, CheckpointArrives, CheckpointEnters, CheckpointTaken
<1>18. CASE Abort
  <2>1. NoneBegins
    BY <1>18, <1>k DEF Abort, Having
  <2> QED
    BY <1>18, <2>1, <1>d, <1>i DEF Abort
<1>19. CASE ClearQueue
  <2> DEFINE A == {a \in Having(act, Clearable) : act[a].visible}
  <2>1. A \in SUBSET Actions /\ Cancel(A) /\ pump' = pump
    BY <1>19 DEF ClearQueue, Having
  <2> QED
    BY <2>1, <1>d, <1>k
<1>20. ASSUME NEW a \in Actions, TakeBack(a) PROVE PreparingOK'
  <2>1. {a} \in SUBSET Actions /\ Cancel({a}) /\ pump' = pump
    BY <1>20 DEF TakeBack
  <2> QED
    BY <2>1, <1>d, <1>k
<1>21. CASE Resume \/ Pause \/ Release \/ StartBash \/ EndBash \/ DrainBash
  BY <1>21, <1>c DEF Resume, Pause, Release, StartBash, EndBash, DrainBash
<1> QED
  BY <1>1, <1>2, <1>3, <1>4, <1>5, <1>6, <1>7, <1>8, <1>9, <1>10, <1>11, <1>12, <1>13, <1>14,
     <1>15, <1>16, <1>17, <1>18, <1>19, <1>20, <1>21
     DEF Next, PumpStep, RunStep, EventStep, CallerStep

\* A step that lets nobody wait anew, or begins no preparation, keeps the queues in order.
LEMMA QueuesStay ==
    ASSUME QueuesOK, admitted' = admitted, Taken' \subseteq Taken,
           \A c \in Actions :
              /\ act'[c].st \in Clearable => act[c].st \in Clearable
              /\ act'[c].st = "selected" => act[c].st = "selected"
              /\ act[c].st \in Terminal => act'[c].st \in Terminal,
           \/ \A c \in Actions : act'[c].st # "preparing"
           \/ \A c \in Actions :
                 /\ act'[c].st = "preparing" => act[c].st = "preparing"
                 /\ act'[c].st \in {"queued", "selected"} => act[c].st \in {"queued", "selected"}
    PROVE  QueuesOK'
<1> SUFFICES ASSUME NEW a \in Actions, NEW b \in Actions, Before(admitted, a, b)
             PROVE  /\ act'[b].st = "selected" => act'[a].st \in Terminal
                    /\ Delivery[a] = Delivery[b] =>
                          /\ act'[b].st = "preparing" => act'[a].st \notin {"queued", "selected"}
                          /\ b \in Taken' => act'[a].st \notin Clearable
  BY DEF QueuesOK
<1>1. act'[b].st = "selected" => act'[a].st \in Terminal
  BY DEF QueuesOK
<1>2. Delivery[a] = Delivery[b] /\ act'[b].st = "preparing"
      => act'[a].st \notin {"queued", "selected"}
  BY DEF QueuesOK
<1>3. Delivery[a] = Delivery[b] /\ b \in Taken' => act'[a].st \notin Clearable
  BY DEF QueuesOK
<1> QED
  BY <1>1, <1>2, <1>3

\* A prompt that was taken waits no longer, and was admitted.
LEMMA TakenLeft ==
    ASSUME TypeOK, NEW b \in Taken
    PROVE  /\ b \in Actions
           /\ PromptOK(b) => act[b].st \notin {"new"} \cup Clearable /\ b \in Range(admitted)
<1>1. ASSUME b \in Told(events) PROVE b \in Actions /\ b \in Pending
  <2>1. PICK n \in DOMAIN events : events[n].type = "message" /\ events[n].action = b
    BY <1>1 DEF Told, Tells
  <2>2. events[n] \in EventRecord
    BY <2>1 DEF TypeOK
  <2> QED
    BY <2>1, <2>2, EventTypes DEF Pending
<1>2. b \in Actions
  BY <1>1 DEF Taken, TypeOK, RunRecord, Range
<1>3. PromptOK(b) => act[b].st \notin {"new"} \cup Clearable
  BY <1>1 DEF Taken, PromptOK, Fresh, Clearable
<1>4. PromptOK(b) => b \in Range(admitted)
  BY <1>3 DEF PromptOK
<1> QED
  BY <1>2, <1>3, <1>4

\* The transcript is left alone, or loses the messages of a captured dispatch.
Cleans == transcript' = transcript \/ \E A : transcript' = Only(transcript, A)
\* The events are left alone, their head is processed, or a run tells of its end.
TellsNothing ==
    \/ events' = events
    \/ events # <<>> /\ events' = Tail(events)
    \/ \E e \in EventRecord : e.type = "agent_end" /\ events' = Append(events, e)

\* A step that takes nothing keeps the lines.
LEMMA LinesStay ==
    ASSUME TypeOK, LinesOK, admitted' = admitted, persisted' = persisted, Cleans, TellsNothing,
           run'.todo \in {run.todo, <<>>}, pump'.batch \in {pump.batch, <<>>}
    PROVE  LinesOK' /\ Taken' \subseteq Taken
<1>1. InLine(admitted, transcript') /\ Range(transcript') \subseteq Range(transcript)
  BY KeptInLine, OnlyKeeps DEF Cleans, LinesOK, TypeOK
<1>2. /\ InLine(admitted, run'.todo) /\ Range(run'.todo) \subseteq Range(run.todo)
      /\ InLine(admitted, pump'.batch)
  BY DEF LinesOK, InLine, Range
<1>3. TellsInLine(admitted, events') /\ Told(events') \subseteq Told(events)
  <2>1. TellsInLine(admitted, events) /\ events \in Seq(EventRecord)
    BY DEF LinesOK, TypeOK
  <2>2. CASE events # <<>> /\ events' = Tail(events)
    BY <2>1, <2>2, EventsShrinkInLine
  <2>3. ASSUME NEW e \in EventRecord, e.type = "agent_end", events' = Append(events, e)
        PROVE  TellsInLine(admitted, events') /\ Told(events') \subseteq Told(events)
    BY <2>1, <2>3, EventsGrowInLine
  <2> QED
    BY <2>1, <2>2, <2>3 DEF TellsNothing
<1>4. LinesOK'
  BY <1>1, <1>2, <1>3 DEF LinesOK
<1> QED
  BY <1>1, <1>2, <1>3, <1>4 DEF Taken

\* The exception: the pump has found nobody selected, and before it looks at the queue a
\* prompt is selected at its admission (preselected in _pumpSessionInputs).
NoneIsOverlooked ==
    pump.pc \in {"events", "select"} /\ pump.pre = None => Having(act, {"selected"}) = {}

\* A prompt is admitted behind all others.
LEMMA AdmitKeepsOrder ==
    ASSUME IInv, LinesOK, QueuesOK, NEW p \in Actions, NEW q \in BOOLEAN, Admit(p, q)
    PROVE  LinesOK' /\ QueuesOK'
<1> USE DEF input, admission, agent
<1>1. /\ TypeOK /\ PromptOK(p) /\ door[p] # "done" /\ admitted \in Seq(Actions)
      /\ admitted' = Append(admitted, p)
      /\ UNCHANGED <<run, transcript, persisted, events, pump>>
  BY DEF IInv, Admit, Leave, TypeOK
<1>2. LinesOK'
  BY <1>1, LineGrows DEF LinesOK
<1>3. act[p].st = "new" /\ p \notin Range(admitted) /\ p \notin Taken
  BY <1>1, TakenLeft DEF PromptOK
<1>4. Taken' = Taken
  BY <1>1 DEF Taken
<1>5. \A b \in Actions : act'[b].st = act[b].st \/ b = p
  BY <1>1, AdmitActs DEF Moved
<1>6. act'[p].st \in {"queued", "selected"}
  BY <1>1, AdmitActs DEF Moved
<1>7. act'[p].st = "selected" => Unfinished = {}
  BY <1>1 DEF Admit, TypeOK, ActionRecord
<1>8. ASSUME NEW a \in Actions, NEW b \in Actions, Before(admitted', a, b)
      PROVE  /\ act'[b].st = "selected" => act'[a].st \in Terminal
             /\ Delivery[a] = Delivery[b] =>
                   /\ act'[b].st = "preparing" => act'[a].st \notin {"queued", "selected"}
                   /\ b \in Taken' => act'[a].st \notin Clearable
  <2>1. CASE Before(admitted, a, b)
    <3>1. a \in Range(admitted) /\ b \in Range(admitted)
      BY <2>1 DEF Before, Range
    <3>2. act'[a].st = act[a].st /\ act'[b].st = act[b].st
      BY <1>3, <1>5, <3>1
    <3> QED
      BY <1>4, <2>1, <3>2 DEF QueuesOK
  <2>2. CASE a \in Range(admitted) /\ b = p
    <3>1. act'[a].st = act[a].st /\ PromptOK(a) /\ act[a].st \in Statuses
      BY <1>3, <1>5, <2>2 DEF IInv, TypeOK, ActionRecord, Statuses
    <3>2. act[a].st # "new"
      BY <2>2, <3>1 DEF PromptOK
    <3>3. act'[b].st = "selected" => act[a].st \in Terminal
      BY <1>7, <2>2, <3>1, <3>2 DEF Unfinished, Having, Statuses, Clearable, Active, Terminal
    <3> QED
      BY <1>3, <1>4, <1>6, <2>2, <3>1, <3>3
  <2> QED
    BY <1>1, <1>8, <2>1, <2>2, BeforeGrows
<1> QED
  BY <1>2, <1>8 DEF QueuesOK

\* The pump selects the beginning of a queue, or the prompt that was selected before.
LEMMA SelectKeepsOrder ==
    ASSUME IInv, LinesOK, QueuesOK, PreparingOK, NoneIsOverlooked, PumpSelects
    PROVE  LinesOK' /\ QueuesOK'
<1> USE DEF input, admission, agent
<1> DEFINE batch == IF pump.pre = None THEN Batch ELSE <<pump.pre>>
<1>1. /\ act' = Becomes(Range(batch), "preparing") /\ pump.pc = "select"
      /\ pump' = [pump EXCEPT !.pc = "validate", !.batch = batch]
      /\ pump.pre # None => act[pump.pre].st = "selected"
      /\ UNCHANGED <<admitted, run, transcript, persisted, events>>
  BY DEF PumpSelects
<1>2. TypeOK /\ IsInjective(admitted) /\ pump \in PumpRecord
  BY DEF IInv, SequencesOK, TypeOK
<1>3. InLine(admitted, batch)
  <2>1. CASE pump.pre = None
    BY <1>2, <2>1, BatchInLine
  <2>2. CASE pump.pre # None
    <3>1. \A i, j \in DOMAIN <<pump.pre>> : ~(i < j)
      OBVIOUS
    <3> QED
      BY <2>2, <3>1 DEF InLine
  <2> QED
    BY <2>1, <2>2
<1>4. \A b \in Range(batch) : pump.pre # None => b = pump.pre
  BY DEF Range
<1>5. pump.pre = None => batch = Batch
  OBVIOUS
<1> HIDE DEF batch
<1>6. pump'.batch = batch
  BY <1>1, <1>2 DEF PumpRecord
<1>7. LinesOK'
  BY <1>1, <1>3, <1>6 DEF LinesOK
<1>8. Taken' = Taken
  BY <1>1 DEF Taken
<1>9. ASSUME NEW b \in Actions
      PROVE  IF b \in Range(batch) THEN act'[b].st = "preparing" ELSE act'[b] = act[b]
  <2>1. "preparing" \in Statuses /\ act[b] \in ActionRecord
    BY <1>2 DEF Statuses, Clearable, TypeOK
  <2>2. IF b \in Range(batch) THEN act'[b] = [act[b] EXCEPT !.st = "preparing"]
        ELSE act'[b] = act[b]
    BY <1>1, <1>2, <2>1, BecomesMoves
  <2> QED
    BY <2>1, <2>2 DEF ActionRecord
<1>10. ASSUME NEW a \in Actions, NEW b \in Actions, Before(admitted, a, b)
       PROVE  /\ act'[b].st = "selected" => act'[a].st \in Terminal
              /\ Delivery[a] = Delivery[b] =>
                    /\ act'[b].st = "preparing" => act'[a].st \notin {"queued", "selected"}
                    /\ b \in Taken => act'[a].st \notin Clearable
  <2>1. act[a].st \in Terminal => act'[a].st \in Terminal
    <3>1. act[a].st \in Terminal => \/ Moved(a, act[a].st)
                                    \/ act[a].st \in {"queued", "selected"} /\ Moved(a, "preparing")
      BY <1>2, SelectsActs
    <3> QED
      BY <3>1 DEF Moved, Terminal
  <2>2. act'[b].st = "selected" => act[b].st = "selected"
    BY <1>9
  <2>3. act'[a].st \in Clearable => act[a].st \in Clearable
    <3>1. \/ Moved(a, act[a].st)
          \/ act[a].st \in {"queued", "selected"} /\ Moved(a, "preparing")
      BY <1>2, SelectsActs
    <3> QED
      BY <3>1 DEF Moved, Clearable
  <2>4. ASSUME Delivery[a] = Delivery[b], act'[b].st = "preparing",
               act'[a].st \in {"queued", "selected"}
        PROVE  FALSE
    <3>1. act'[a] = act[a] /\ a \notin Range(batch)
      BY <1>9, <2>4
    <3>2. b \in Range(batch)
      BY <1>1, <1>9, <2>4 DEF PreparingOK, Preparation
    <3>3. CASE pump.pre = None
      <4>1. act[a].st = "queued"
        BY <1>1, <2>4, <3>1, <3>3 DEF NoneIsOverlooked, Having
      <4>2. a \in Range(Batch)
        BY <1>2, <1>5, <1>10, <2>4, <3>2, <3>3, <4>1, BatchInLine DEF Having
      <4> QED
        BY <1>5, <3>1, <3>3, <4>2
    <3>4. CASE pump.pre # None
      <4>1. act[b].st = "selected"
        BY <1>1, <1>4, <3>2, <3>4
      <4>2. act[a].st \in Terminal
        BY <1>10, <4>1 DEF QueuesOK
      <4> QED
        BY <2>4, <3>1, <4>2 DEF Terminal
    <3> QED
      BY <3>3, <3>4
  <2> QED
    BY <1>10, <2>1, <2>2, <2>3, <2>4 DEF QueuesOK
<1>11. QueuesOK'
  BY <1>1, <1>8, <1>10 DEF QueuesOK
<1> QED
  BY <1>7, <1>11

\* A dispatch hands on the whole batch, and nothing of its queues waits before it.
LEMMA DispatchKeepsOrder ==
    ASSUME IInv, LinesOK, QueuesOK, PreparingOK, Dispatches
    PROVE  LinesOK' /\ QueuesOK'
<1> USE DEF input, admission, agent
<1>1. /\ TypeOK /\ IsInjective(admitted) /\ admitted \in Seq(Actions)
      /\ \A a \in Actions : PromptOK(a)
  BY DEF IInv, SequencesOK, TypeOK
<1>2. /\ run'.todo = ActiveTurns /\ pump' = [pump EXCEPT !.pc = "run"]
      /\ UNCHANGED <<admitted, transcript, persisted, events>>
  BY <1>1, DispatchActs DEF Dispatches, PumpDispatches
<1>3. pump'.batch = pump.batch
  BY <1>1, <1>2 DEF TypeOK, PumpRecord
<1>4. InLine(admitted, run'.todo)
  BY <1>1, <1>2, KeptInLine DEF ActiveTurns, LinesOK, TypeOK, PumpRecord
<1>5. \A a \in Actions : a \in Range(run'.todo) <=> act[a].st = "preparing"
  BY <1>1, <1>2, TurnsAreOfTheBatch DEF PreparingOK, Having
<1>6. Range(run'.todo) \subseteq Actions
  BY <1>1, <1>2, TurnsAreOfTheBatch DEF Having
<1>7. \A a \in Actions : IF act[a].st = "preparing" THEN act'[a].st = "committing"
                         ELSE act'[a].st = act[a].st
  BY <1>1, <1>2, <1>5, DispatchActs DEF Moved
<1>8. ASSUME NEW a \in Taken, NEW b \in Range(run'.todo) PROVE Ahead(admitted, a, b)
  <2>1. /\ a \in Actions /\ b \in Actions /\ act[a].st \notin Clearable /\ act[b].st = "preparing"
        /\ a \in Range(admitted) /\ b \in Range(admitted)
    BY <1>1, <1>5, <1>6, <1>8, TakenLeft DEF PromptOK
  <2>2. a # b
    BY <2>1 DEF Clearable
  <2>3. Delivery[a] = Delivery[b] => ~Before(admitted, b, a)
    BY <1>8, <2>1 DEF QueuesOK, Clearable
  <2> QED
    BY <1>1, <2>1, <2>2, <2>3, OneIsFirst DEF Ahead
<1>9. LinesOK'
  BY <1>2, <1>3, <1>4, <1>8 DEF LinesOK, Taken
<1>10. ASSUME NEW a \in Actions, NEW b \in Actions, Before(admitted, a, b)
       PROVE  /\ act'[b].st = "selected" => act'[a].st \in Terminal
              /\ Delivery[a] = Delivery[b] =>
                    /\ act'[b].st = "preparing" => act'[a].st \notin {"queued", "selected"}
                    /\ b \in Taken' => act'[a].st \notin Clearable
  <2>1. act'[b].st # "preparing" /\ (act'[b].st = "selected" => act[b].st = "selected")
    BY <1>7
  <2>2. act[a].st \in Terminal => act'[a].st \in Terminal
    BY <1>7 DEF Terminal
  <2>3. b \in Taken' => b \in Taken \/ act[b].st = "preparing"
    BY <1>2, <1>5 DEF Taken
  <2>4. Delivery[a] = Delivery[b] /\ b \in Taken' => act[a].st \notin {"queued", "selected"}
    BY <1>10, <2>3 DEF QueuesOK, Clearable
  <2>5. Delivery[a] = Delivery[b] /\ b \in Taken' => act'[a].st \notin Clearable
    BY <1>7, <2>4 DEF Clearable
  <2> QED
    BY <1>10, <2>1, <2>2, <2>5 DEF QueuesOK
<1>11. QueuesOK'
  BY <1>2, <1>10 DEF QueuesOK
<1> QED
  BY <1>9, <1>11

\* The run takes in the first of its prompts, which is behind all that were taken.
LEMMA TakeInKeepsOrder ==
    ASSUME IInv, LinesOK, QueuesOK, TakeIn
    PROVE  LinesOK' /\ QueuesOK'
<1> USE DEF input, admission, agent
<1> DEFINE a == Head(run.todo)
           e == [type |-> "message", action |-> a, retryable |-> FALSE]
<1>1. /\ TypeOK /\ run.todo \in Seq(Actions) /\ run.todo # <<>>
      /\ transcript \in Seq(Actions) /\ events \in Seq(EventRecord)
      /\ transcript' = Append(transcript, a) /\ events' = Append(events, e)
      /\ run'.todo = Tail(run.todo)
      /\ UNCHANGED <<admitted, persisted, pump>>
  BY DEF IInv, TypeOK, RunRecord, TakeIn
<1>2. a \in Actions /\ Range(run.todo) = Range(run'.todo) \cup {a}
  BY <1>1, RangeShrinks
<1>3. e \in EventRecord /\ e.type = "message" /\ e.action = a
  BY <1>2 DEF EventRecord
<1> HIDE DEF e, a
<1>4. /\ InLine(admitted, run'.todo)
      /\ \A b \in Range(run'.todo) : Ahead(admitted, a, b)
  BY <1>1, TailInLine DEF LinesOK, a
<1>5. /\ InLine(admitted, transcript')
      /\ Range(transcript') = Range(transcript) \cup {a}
  BY <1>1, <1>2, LineTakesOne, RangeGrows DEF LinesOK
<1>6. /\ TellsInLine(admitted, events')
      /\ Told(events') = Told(events) \cup {a}
  BY <1>1, <1>2, <1>3, EventsGrowInLine DEF LinesOK
<1>7. LinesOK'
  BY <1>1, <1>2, <1>4, <1>5, <1>6 DEF LinesOK
<1>8. Taken' \subseteq Taken
  BY <1>1, <1>2, <1>5, <1>6 DEF Taken
<1>9. ASSUME NEW c \in Actions
      PROVE  act'[c].st = act[c].st \/ (act[c].st = "committing" /\ act'[c].st = "running")
  BY <1>1, TakeInActs DEF Moved
<1>10. QueuesOK'
  BY <1>1, <1>8, <1>9, QueuesStay DEF Clearable, Terminal
<1> QED
  BY <1>7, <1>10

\* The first prompt the events tell of goes to the file, or leaves the transcript.
LEMMA PersistsKeepsOrder ==
    ASSUME IInv, LinesOK, QueuesOK, Persists
    PROVE  LinesOK' /\ QueuesOK'
<1> USE DEF input, admission, agent
<1> DEFINE a == Head(events).action
<1>1. /\ TypeOK /\ events \in Seq(EventRecord) /\ events # <<>> /\ Head(events).type = "message"
      /\ persisted \in Seq(Actions) /\ transcript \in Seq(Actions)
      /\ events' = Tail(events)
      /\ persisted' = persisted \/ persisted' = Append(persisted, a)
      /\ UNCHANGED <<admitted, act, run, pump>>
  BY DEF IInv, TypeOK, Persists
<1>2. Cleans
  BY DEF Persists, Cleans, Without
<1>3. InLine(admitted, transcript') /\ Range(transcript') \subseteq Range(transcript)
  BY <1>1, <1>2, KeptInLine, OnlyKeeps DEF Cleans, LinesOK
<1>4. /\ TellsInLine(admitted, events') /\ Told(events') \subseteq Told(events)
      /\ a \in Told(events) /\ \A b \in Told(events') : Ahead(admitted, a, b)
  BY <1>1, EventsShrinkInLine DEF LinesOK
<1>5. a \in Actions
  BY <1>1, EventTypes, HeadTailProperties
<1> HIDE DEF a
<1>6. /\ InLine(admitted, persisted')
      /\ Range(persisted') \subseteq Range(persisted) \cup {a}
  BY <1>1, <1>4, <1>5, LineTakesOne, RangeGrows DEF LinesOK
<1>7. LinesOK'
  BY <1>1, <1>3, <1>4, <1>6 DEF LinesOK
<1>8. Taken' \subseteq Taken
  BY <1>1, <1>3, <1>4, <1>6 DEF Taken
<1>9. QueuesOK'
  BY <1>1, <1>8, QueuesStay
<1> QED
  BY <1>7, <1>9

\* Every other step takes nothing, and lets nobody wait anew.
LEMMA OthersKeepOrder ==
    ASSUME IInv, LinesOK, QueuesOK, PreparingOK, [Next]_vars,
           Moves => \/ PumpFindsAgentIdle \/ (\E valid \in BOOLEAN : Validated(valid))
                    \/ PumpPrepares \/ PumpIsPrepared \/ (PumpDispatches /\ Defers) \/ PumpCompletes
                    \/ (\E retryable \in BOOLEAN : EndRun(retryable)) \/ ReleasesCaptured
                    \/ Abort \/ ClearQueue \/ \E a \in Actions : TakeBack(a)
    PROVE  LinesOK' /\ QueuesOK'
<1> USE DEF input, admission, agent
<1> DEFINE Rests == \A c \in Actions :
              act'[c].st = act[c].st \/ act'[c].st \in Terminal
              \/ (act[c].st = "selected" /\ act'[c].st = "queued")
           Ends == /\ \A c \in Actions : act'[c].st # "preparing"
                   /\ \A c \in Actions : act'[c].st = act[c].st
                         \/ (act[c].st = "preparing" /\ act'[c].st \in {"queued", "failed"})
           Finished == \A c \in Actions :
              act[c].st \in Terminal => act'[c].st \in Terminal
           Takes == admitted' = admitted /\ LinesOK' /\ Taken' \subseteq Taken
<1>a. TypeOK /\ EventsOK /\ pump \in PumpRecord /\ run \in RunRecord
  BY DEF IInv, TypeOK
<1>b. ASSUME Takes, Rests, Finished PROVE QueuesOK'
  BY <1>b, QueuesStay DEF Clearable, Terminal
<1>c. ASSUME Takes, Ends PROVE QueuesOK'
  BY <1>c, QueuesStay DEF Clearable, Terminal
<1>d. ASSUME UNCHANGED <<admitted, run, transcript, persisted, events>>,
             pump'.batch \in {pump.batch, <<>>}
      PROVE  Takes
  BY <1>a, <1>d, LinesStay DEF Cleans, TellsNothing
<1>e. \A pc \in {"off", "idle", "events", "select", "validate", "extend", "extended", "fence",
                 "run", "retry", "retried", "settle", "settled"} :
         [pump EXCEPT !.pc = pc].batch = pump.batch
  BY <1>a DEF PumpRecord
<1>f. NoPump.batch = <<>> /\ \A ac : Looped(ac).batch = <<>>
  BY <1>a, LoopedType DEF NoPump
<1>g. ASSUME Defers \/ Fails PROVE Ends /\ pump'.batch = <<>> /\ admitted' = admitted
  <2>1. \A c \in Actions : act'[c].st # "preparing"
    BY <1>a, <1>g, BatchEnds
  <2>2. /\ pump'.batch = <<>> /\ admitted' = admitted
        /\ \A c \in Actions : act'[c].st = act[c].st
                              \/ (act[c].st = "preparing" /\ act'[c].st \in {"queued", "failed"})
    BY <1>a, <1>g, GivesBackActs DEF Moved
  <2> QED
    BY <2>1, <2>2
<1>h. ASSUME NEW n, NEW b, ResolveRetry(n, b) PROVE pump'.batch = pump.batch
  BY <1>e, <1>h DEF ResolveRetry
<1>i. ASSUME NEW A \in SUBSET Actions, Cancel(A), \A c \in A : act[c].st \notin Terminal
      PROVE  Rests /\ Finished /\ admitted' = admitted
  BY <1>a, <1>i, CancelActs DEF Moved, Terminal
<1>j. ASSUME \A c \in Actions : act'[c].st = act[c].st PROVE Rests /\ Finished
  BY <1>j
<1> HIDE DEF Rests, Ends, Finished, Takes
<1>1. CASE Unmoved
  <2>1. Takes
    <3>1. TellsNothing /\ Cleans /\ run'.todo \in {run.todo, <<>>}
      BY <1>1 DEF Unmoved, EndLeaves, TellsNothing, Cleans
    <3> QED
      BY <1>1, <1>a, <3>1, LinesStay DEF Unmoved, Takes
  <2> QED
    BY <1>1, <1>b, <1>j, <2>1 DEF Unmoved, Takes
<1>2. CASE PumpFindsAgentIdle
  <2>1. pump'.batch \in {pump.batch, <<>>}
    <3> DEFINE pc == IF Captured = {} THEN "events" ELSE "select"
               pre == IF Having(act, {"selected"}) = {} THEN None
                      ELSE CHOOSE a \in Actions : act[a].st = "selected"
    <3>1. pump' = NoPump \/ pump' = [pump EXCEPT !.pc = pc, !.pre = pre]
      BY <1>2 DEF PumpFindsAgentIdle
    <3> HIDE DEF pc, pre
    <3> QED
      BY <1>a, <1>f, <3>1 DEF PumpRecord
  <2>2. Takes
    BY <1>2, <1>d, <2>1 DEF PumpFindsAgentIdle
  <2>3. Rests /\ Finished
    BY <1>2, <1>a, IdleActs DEF Moved, Rests, Finished, Terminal
  <2> QED
    BY <1>b, <2>2, <2>3 DEF Takes
<1>3. ASSUME NEW valid \in BOOLEAN, Validated(valid) PROVE LinesOK' /\ QueuesOK'
  <2>1. CASE Defers \/ Fails
    <3>1. Takes
      BY <1>3, <1>d, <1>g, <2>1 DEF Validated
    <3> QED
      BY <1>c, <1>g, <2>1, <3>1 DEF Takes
  <2>2. CASE ~(Defers \/ Fails)
    <3>1. pump' = [pump EXCEPT !.pc = "extend"] /\ act' = act /\ admitted' = admitted
      BY <1>3, <2>2 DEF Validated
    <3>2. Takes
      BY <1>3, <1>d, <1>e, <3>1 DEF Validated
    <3> QED
      BY <1>b, <1>j, <3>1, <3>2 DEF Takes
  <2> QED
    BY <2>1, <2>2
<1>4. CASE PumpPrepares
  <2>1. CASE Defers
    <3>1. Takes
      BY <1>4, <1>d, <1>g, <2>1 DEF PumpPrepares
    <3> QED
      BY <1>c, <1>g, <2>1, <3>1 DEF Takes
  <2>2. CASE ~Defers
    <3>1. /\ act' = act /\ admitted' = admitted
          /\ \/ pump' = [pump EXCEPT !.pc = "extended", !.anchor = Last(ActiveTurns)]
             \/ pump' = Looped(act)
             \/ pump' = [pump EXCEPT !.pc = "fence", !.turns = ActiveTurns]
      BY <1>4, <2>2 DEF PumpPrepares
    <3>2. pump'.batch \in {pump.batch, <<>>}
      BY <1>a, <1>f, <3>1 DEF PumpRecord
    <3>3. Takes
      BY <1>4, <1>d, <3>1, <3>2 DEF PumpPrepares
    <3> QED
      BY <1>b, <1>j, <3>1, <3>3 DEF Takes
  <2> QED
    BY <2>1, <2>2
<1>5. CASE PumpIsPrepared
  <2>1. Takes
    BY <1>5, <1>d, <1>e DEF PumpIsPrepared
  <2>2. \A c \in Actions : act'[c].st = act[c].st
    BY <1>5, <1>a, PreparedActs DEF Moved
  <2> QED
    BY <1>b, <1>j, <2>1, <2>2 DEF Takes
<1>6. CASE PumpDispatches /\ Defers
  <2>1. pump'.batch = <<>> /\ Ends /\ admitted' = admitted
    BY <1>6, <1>g
  <2>2. run' = run \/ Dispatches
    BY <1>6 DEF PumpDispatches, Dispatches
  <2>3. run' = run
    <3>1. CASE Dispatches
      <4>1. pump' = [pump EXCEPT !.pc = "run"] /\ pump'.pc = "run"
        BY <1>a, <3>1 DEF Dispatches, PumpDispatches, PumpRecord
      <4>2. pump'.pc \in {"off", "idle"}
        BY <1>6, <1>a, GivesBackActs
      <4> QED
        BY <4>1, <4>2
    <3> QED
      BY <2>2, <3>1
  <2>4. Takes
    BY <1>6, <1>d, <2>1, <2>3 DEF PumpDispatches
  <2> QED
    BY <1>c, <2>1, <2>4 DEF Takes
<1>7. CASE PumpCompletes
  <2>1. pump'.batch = <<>>
    BY <1>7, <1>f DEF PumpCompletes
  <2>2. Takes
    BY <1>7, <1>d, <2>1 DEF PumpCompletes
  <2>3. Rests /\ Finished
    BY <1>7, <1>a, CompletesActs DEF Moved, Rests, Finished, Terminal
  <2> QED
    BY <1>b, <2>2, <2>3 DEF Takes
<1>8. ASSUME NEW retryable \in BOOLEAN, EndRun(retryable) PROVE LinesOK' /\ QueuesOK'
  <2> DEFINE e == [type |-> "agent_end", action |-> None, retryable |-> retryable]
  <2>1. e \in EventRecord /\ e.type = "agent_end" /\ events' = Append(events, e)
    BY <1>8 DEF EndRun, EventRecord
  <2>2. TellsNothing
    BY <2>1 DEF TellsNothing
  <2>3. Cleans /\ run'.todo = run.todo
    BY <1>8, <1>a DEF EndRun, Cleans, Without, RunRecord
  <2>4. Takes
    BY <1>8, <1>a, <2>2, <2>3, LinesStay DEF EndRun, Takes
  <2>5. act' = act
    BY <1>8 DEF EndRun
  <2> QED
    BY <1>b, <1>j, <2>4, <2>5 DEF Takes
<1>9. CASE ReleasesCaptured
  <2>1. /\ events # <<>> /\ events' = Tail(events) /\ pump'.batch = pump.batch
        /\ UNCHANGED <<admitted, run, persisted>>
    BY <1>9, <1>h DEF ReleasesCaptured, EndHandled
  <2>2. Cleans
    BY <1>9 DEF ReleasesCaptured, Cleans, Without
  <2>3. Takes
    BY <1>a, <2>1, <2>2, LinesStay DEF TellsNothing, Takes
  <2>4. \A c \in Actions : act'[c].st = act[c].st
    BY <1>9, <1>a, ReleasesActs DEF Moved
  <2> QED
    BY <1>b, <1>j, <2>3, <2>4 DEF Takes
<1>10. CASE Abort
  <2> DEFINE A == {c \in Having(act, Clearable) : ~act[c].visible}
  <2>1. Cancel(A) /\ A \in SUBSET Actions /\ \A c \in A : act[c].st \notin Terminal
    BY <1>10 DEF Abort, Having, Clearable, Terminal
  <2>2. Rests /\ Finished /\ admitted' = admitted
    BY <1>i, <2>1
  <2>3. events' = events \/ (events # <<>> /\ events' = Tail(events))
    BY <1>10, <1>a DEF Abort, EventsOK
  <2>4. /\ pump'.batch = pump.batch /\ run'.todo = run.todo
        /\ UNCHANGED <<transcript, persisted>>
    BY <1>10, <1>a, <1>h DEF Abort, AbortsRun, RunRecord
  <2>5. Takes
    BY <1>a, <2>2, <2>3, <2>4, LinesStay DEF TellsNothing, Cleans, Takes
  <2> QED
    BY <1>b, <2>2, <2>5 DEF Takes
<1>11. CASE ClearQueue
  <2> DEFINE A == {c \in Having(act, Clearable) : act[c].visible}
  <2>1. Cancel(A) /\ A \in SUBSET Actions /\ \A c \in A : act[c].st \notin Terminal
    BY <1>11 DEF ClearQueue, Having, Clearable, Terminal
  <2>2. Rests /\ Finished /\ admitted' = admitted
    BY <1>i, <2>1
  <2>3. Takes
    BY <1>11, <1>d, <2>2 DEF ClearQueue
  <2> QED
    BY <1>b, <2>2, <2>3 DEF Takes
<1>12. ASSUME NEW a \in Actions, TakeBack(a) PROVE LinesOK' /\ QueuesOK'
  <2>1. Cancel({a}) /\ {a} \in SUBSET Actions /\ \A c \in {a} : act[c].st \notin Terminal
    BY <1>12 DEF TakeBack, Clearable, Terminal
  <2>2. Rests /\ Finished /\ admitted' = admitted
    BY <1>i, <2>1
  <2>3. /\ run'.todo = run.todo
        /\ UNCHANGED <<transcript, persisted, events, pump>>
    BY <1>12, <1>a DEF TakeBack, AbortsRun, RunRecord
  <2>4. Takes
    BY <1>a, <2>2, <2>3, LinesStay DEF TellsNothing, Cleans, Takes
  <2> QED
    BY <1>b, <2>2, <2>4 DEF Takes
<1>13. Moves \/ Unmoved
  BY <1>a, Kinds DEF Footprint
<1> QED
  BY <1>1, <1>2, <1>3, <1>4, <1>5, <1>6, <1>7, <1>8, <1>9, <1>10, <1>11, <1>12, <1>13

\* What is taken is taken in line, as long as nobody is overlooked.
OrderInv == LinesOK /\ QueuesOK /\ PreparingOK

LEMMA OrderStep ==
    ASSUME IInv, OrderInv, NoneIsOverlooked, [Next]_vars
    PROVE  OrderInv'
<1>1. PreparingOK'
  BY PreparingStep DEF IInv, OrderInv
<1>2. LinesOK' /\ QueuesOK'
  <2>1. CASE \E a \in Actions, q \in BOOLEAN : Admit(a, q)
    BY <2>1, AdmitKeepsOrder DEF OrderInv
  <2>2. CASE PumpSelects
    BY <2>2, SelectKeepsOrder DEF OrderInv
  <2>3. CASE Dispatches
    BY <2>3, DispatchKeepsOrder DEF OrderInv
  <2>4. CASE TakeIn
    BY <2>4, TakeInKeepsOrder DEF OrderInv
  <2>5. CASE Persists
    BY <2>5, PersistsKeepsOrder DEF OrderInv
  <2>6. PumpDispatches => Dispatches \/ Defers
    BY DEF PumpDispatches, Dispatches
  <2> QED
    BY <2>1, <2>2, <2>3, <2>4, <2>5, <2>6, OthersKeepOrder DEF OrderInv, Moves
<1> QED
  BY <1>1, <1>2 DEF OrderInv

\* At first nothing is in line, and nobody waits.
LEMMA OrderBegins == Init => OrderInv
<1> SUFFICES ASSUME Init PROVE OrderInv
  OBVIOUS
<1>1. /\ admitted = <<>> /\ transcript = <<>> /\ persisted = <<>> /\ events = <<>>
      /\ run.todo = <<>> /\ pump.batch = <<>>
      /\ \A a \in Actions : act[a].st = "new"
  BY DEF Init, NoRun, NoPump, NewAction
<1>2. Told(events) = {} /\ Range(<<>>) = {} /\ DOMAIN <<>> = {}
  BY <1>1 DEF Told, Range
<1>3. LinesOK
  BY <1>1, <1>2 DEF LinesOK, InLine, TellsInLine
<1>4. QueuesOK /\ PreparingOK
  BY <1>1, <1>2 DEF QueuesOK, PreparingOK, Before
<1> QED
  BY <1>3, <1>4 DEF OrderInv

\* In a line each position is the order of admission.
LEMMA LinePositions ==
    ASSUME NEW ad \in Seq(Actions), IsInjective(ad),
           NEW s \in Seq(Actions), IsInjective(s), Range(s) \subseteq Range(ad), InLine(ad, s),
           NEW a \in Range(s), NEW b \in Range(s), Delivery[a] = Delivery[b]
    PROVE  Position(s, a) < Position(s, b) <=> Position(ad, a) < Position(ad, b)
<1>1. ASSUME NEW t \in Seq(Actions), IsInjective(t), NEW x \in Range(t)
      PROVE  Position(t, x) \in 1..Len(t) /\ t[Position(t, x)] = x
  <2>1. \E n \in DOMAIN t : t[n] = x
    BY DEF Range
  <2> QED
    BY <2>1 DEF Position
<1> DEFINE i == Position(s, a)
           j == Position(s, b)
           m == Position(ad, a)
           n == Position(ad, b)
<1>2. /\ i \in 1..Len(s) /\ s[i] = a /\ j \in 1..Len(s) /\ s[j] = b
      /\ m \in 1..Len(ad) /\ ad[m] = a /\ n \in 1..Len(ad) /\ ad[n] = b
  BY <1>1
<1> HIDE DEF i, j, m, n
<1>3. ASSUME NEW k \in 1..Len(ad), NEW l \in 1..Len(ad), ad[k] = ad[l] PROVE k = l
  BY <1>3 DEF IsInjective
<1>4. ASSUME i < j PROVE m < n
  <2>1. Before(ad, a, b)
    BY <1>2, <1>4 DEF InLine, Ahead
  <2>2. PICK k \in 1..Len(ad), l \in 1..Len(ad) : k < l /\ ad[k] = a /\ ad[l] = b
    BY <2>1 DEF Before
  <2> QED
    BY <1>2, <1>3, <2>2
<1>5. ASSUME j < i PROVE n < m
  <2>1. Before(ad, b, a)
    BY <1>2, <1>5 DEF InLine, Ahead
  <2>2. PICK k \in 1..Len(ad), l \in 1..Len(ad) : k < l /\ ad[k] = b /\ ad[l] = a
    BY <2>1 DEF Before
  <2> QED
    BY <1>2, <1>3, <2>2
<1>6. i = j => m = n
  BY <1>2, <1>3
<1>7. i < j <=> m < n
  BY <1>2, <1>4, <1>5, <1>6
<1> QED
  BY <1>7 DEF i, j, m, n

\* The prompts of one queue are taken in and persisted in the order of their admission, for
\* any number of prompts, unless the pump overlooks one that is selected at its admission
\* (ActionStore, rollback, preselected).
THEOREM OnlyTheOverlookedAreOvertaken == Spec /\ []NoneIsOverlooked => []TakenInOrder
<1>1. Init => OrderInv
  BY OrderBegins
<1>2. IInv /\ OrderInv /\ NoneIsOverlooked /\ [Next]_vars => OrderInv'
  BY OrderStep
<1>3. IInv /\ OrderInv => TakenInOrder
  <2> SUFFICES ASSUME IInv, OrderInv PROVE TakenInOrder
    OBVIOUS
  <2>1. TakenOnce
    BY DEF IInv, SequencesOK, TakenOnce
  <2>2. ASSUME NEW seq \in {transcript, persisted}, NEW a \in Range(seq), NEW b \in Range(seq),
               Delivery[a] = Delivery[b]
        PROVE  Position(seq, a) < Position(seq, b) <=> Position(admitted, a) < Position(admitted, b)
    <3>1. /\ seq \in Seq(Actions) /\ IsInjective(seq) /\ InLine(admitted, seq)
          /\ admitted \in Seq(Actions) /\ IsInjective(admitted)
      BY DEF IInv, TypeOK, SequencesOK, OrderInv, LinesOK
    <3>2. Range(seq) \subseteq Taken
      BY DEF Taken
    <3>3. Range(seq) \subseteq Range(admitted)
      BY <3>2, TakenLeft DEF IInv
    <3> QED
      BY <2>2, <3>1, <3>3, LinePositions
  <2> QED
    BY <2>1, <2>2 DEF TakenInOrder
<1> QED
  BY <1>1, <1>2, <1>3, SessionInvariant, PTL DEF Spec

-----------------------------------------------------------------------------
(* The preparations.                                                       *)

\* a is b, or was admitted before it.
NotBehind(ad, a, b) == a = b \/ Before(ad, a, b)

\* The order of admission is transitive.
LEMMA BeforeChains ==
    ASSUME NEW ad \in Seq(Actions), IsInjective(ad), NEW a, NEW b, NEW c
    PROVE  /\ Before(ad, a, b) /\ Before(ad, b, c) => Before(ad, a, c)
           /\ NotBehind(ad, a, b) /\ NotBehind(ad, b, c) => NotBehind(ad, a, c)
<1>1. DOMAIN ad = 1..Len(ad) /\ Len(ad) \in Nat
  OBVIOUS
<1>2. \A i, j \in 1..Len(ad) : ad[i] = ad[j] => i = j
  BY <1>1 DEF IsInjective
<1>3. ASSUME Before(ad, a, b), Before(ad, b, c) PROVE Before(ad, a, c)
  <2>1. PICK k \in 1..Len(ad), l \in 1..Len(ad) : k < l /\ ad[k] = a /\ ad[l] = b
    BY <1>1, <1>3 DEF Before
  <2>2. PICK m \in 1..Len(ad), n \in 1..Len(ad) : m < n /\ ad[m] = b /\ ad[n] = c
    BY <1>1, <1>3 DEF Before
  <2>3. l = m
    BY <1>2, <2>1, <2>2
  <2>4. k < n
    BY <1>1, <2>1, <2>2, <2>3
  <2> QED
    BY <1>1, <2>1, <2>2, <2>4 DEF Before
<1> QED
  BY <1>3 DEF NotBehind

\* The last of a line of one queue is behind all others.
LEMMA LastOfTheLine ==
    ASSUME NEW ad, NEW s \in Seq(Actions), s # <<>>, InLine(ad, s),
           \A a, b \in Range(s) : Delivery[a] = Delivery[b]
    PROVE  Last(s) \in Range(s) /\ \A a \in Range(s) : NotBehind(ad, a, Last(s))
<1>1. /\ Len(s) \in Nat \ {0} /\ DOMAIN s = 1..Len(s) /\ Last(s) = s[Len(s)]
      /\ Len(s) \in 1..Len(s)
  BY EmptySeq DEF Last
<1>2. \A i \in 1..Len(s) : s[i] \in Range(s)
  BY <1>1 DEF Range
<1>3. ASSUME NEW a \in Range(s) PROVE NotBehind(ad, a, Last(s))
  <2>1. PICK i \in 1..Len(s) : s[i] = a
    BY <1>1 DEF Range
  <2>2. i = Len(s) \/ i < Len(s)
    <3>1. \A n \in Nat : \A k \in 1..n : k = n \/ k < n
      OBVIOUS
    <3>2. Len(s) \in Nat
      BY <1>1
    <3> QED
      BY <2>1, <3>1, <3>2
  <2>3. i < Len(s) => Before(ad, a, Last(s))
    BY <1>1, <1>2, <2>1 DEF InLine, Ahead
  <2> QED
    BY <1>1, <2>1, <2>2, <2>3 DEF NotBehind
<1> QED
  BY <1>1, <1>2, <1>3

\* A set of numbers with all that are below one of them is an interval.
LEMMA Intervals ==
    ASSUME NEW N \in Nat, NEW X \in SUBSET (1..N), \A n \in X : \A m \in 1..n : m \in X
    PROVE  Cardinality(X) \in 0..N /\ X = 1..Cardinality(X)
<1> DEFINE Y == {n \in 1..(N + 1) : n \notin X}
<1>1. Y \in SUBSET Nat /\ N + 1 \in Y
  OBVIOUS
<1>2. PICK j \in Y : \A m \in Y : j <= m
  <2> HIDE DEF Y
  <2> QED
    BY <1>1, Least
<1>3. j \in 1..(N + 1) /\ j \notin X /\ \A m \in 1..(N + 1) : m \notin X => j <= m
  BY <1>2
<1>4. X = 1..(j - 1)
  <2>1. ASSUME NEW n \in X PROVE n \in 1..(j - 1)
    <3>1. n \in 1..N /\ (j <= n => j \in 1..n)
      BY <1>3
    <3> QED
      BY <1>3, <3>1
  <2>2. ASSUME NEW n \in 1..(j - 1) PROVE n \in X
    BY <1>3
  <2> QED
    BY <2>1, <2>2
<1>5. j - 1 \in 0..N /\ 1 \in Int /\ j - 1 \in Int
  BY <1>3
<1>6. Cardinality(1..(j - 1)) = IF 1 > j - 1 THEN 0 ELSE (j - 1) - 1 + 1
  BY <1>5, FS_Interval
<1>7. Cardinality(X) = j - 1
  BY <1>4, <1>5, <1>6
<1> QED
  BY <1>4, <1>5, <1>7

\* The prompts of a batch are alike, and in mode "all" those that follow in their queue and
\* are like them come with them.
LEMMA BatchIsAlike ==
    ASSUME TypeOK, IsInjective(admitted)
    PROVE  /\ \A a, b \in Range(Batch) :
                 /\ Delivery[a] = Delivery[b] /\ act[a].visible = act[b].visible
                 /\ Batching[Delivery[a]] = "one" => a = b
           /\ \A a \in Range(Batch), m \in Having(act, {"queued"}) :
                 /\ Delivery[m] = Delivery[a] /\ Batching[Delivery[a]] # "one"
                 /\ Before(admitted, a, m)
                 /\ \A x \in Having(act, {"queued"}) :
                       Delivery[x] = Delivery[a] /\ Before(admitted, a, x)
                       /\ NotBehind(admitted, x, m) => act[x].visible = act[a].visible
                 => m \in Range(Batch)
<1> DEFINE queue == IF QueuedIn("steer") # <<>> THEN QueuedIn("steer") ELSE QueuedIn("followUp")
           alike == {n \in DOMAIN queue :
                        \A m \in 1..n : act[queue[m]].visible = act[Head(queue)].visible}
<1>1. PICK p \in Policies : queue = QueuedIn(p)
  BY DEF Policies
<1>2. /\ queue \in Seq(Actions) /\ Range(queue) \subseteq Having(act, {"queued"})
      /\ \A a \in Having(act, {"queued"}) :
            Delivery[a] = p /\ a \in Range(admitted) => a \in Range(queue)
  <2> DEFINE A == {a \in Having(act, {"queued"}) : Delivery[a] = p}
  <2>1. queue = Only(admitted, A) /\ admitted \in Seq(Actions)
    BY <1>1 DEF QueuedIn, TypeOK
  <2>2. \A a : a \in A <=> a \in Having(act, {"queued"}) /\ Delivery[a] = p
    OBVIOUS
  <2> HIDE DEF A, queue
  <2>3. queue \in Seq(Actions) /\ Range(queue) = Range(admitted) \cap A
    BY <2>1, OnlyKeeps
  <2> QED
    BY <2>2, <2>3
<1>3. Batch = IF queue = <<>> THEN <<>>
              ELSE IF Batching[Delivery[Head(queue)]] = "one" THEN <<Head(queue)>>
              ELSE SubSeq(queue, 1, Cardinality(alike))
  BY DEF Batch
<1>4. /\ InLine(admitted, queue)
      /\ \A j \in 1..Len(queue) : Delivery[queue[j]] = p
      /\ \A j \in 1..Len(queue) : \A a \in Having(act, {"queued"}) :
            Delivery[a] = p /\ Before(admitted, a, queue[j])
            => \E i \in 1..Len(queue) : i < j /\ queue[i] = a
  BY <1>1, QueueInLine
<1>5. /\ Len(queue) \in Nat /\ DOMAIN queue = 1..Len(queue) /\ alike \subseteq 1..Len(queue)
      /\ \A n \in 1..Len(queue) :
            n \in alike <=> \A m \in 1..n : act[queue[m]].visible = act[Head(queue)].visible
  BY <1>2
<1> HIDE DEF queue, alike
<1>6. CASE queue = <<>>
  BY <1>3, <1>6 DEF Range
<1>7. CASE queue # <<>> /\ Batching[Delivery[Head(queue)]] = "one"
  <2>1. Range(Batch) = {Head(queue)}
    BY <1>3, <1>7 DEF Range
  <2> QED
    BY <1>7, <2>1
<1>8. CASE queue # <<>> /\ Batching[Delivery[Head(queue)]] # "one"
  <2> DEFINE c == Cardinality(alike)
  <2>1. \A n \in alike : \A m \in 1..n : m \in alike
    <3> SUFFICES ASSUME NEW n \in alike, NEW m \in 1..n PROVE m \in alike
      OBVIOUS
    <3>1. m \in 1..Len(queue) /\ \A k \in 1..m : k \in 1..n
      BY <1>5
    <3> QED
      BY <1>5, <3>1
  <2>2. c \in 0..Len(queue) /\ alike = 1..c
    BY <1>5, <2>1, Intervals
  <2>3. Batch = SubSeq(queue, 1, c)
    BY <1>3, <1>8
  <2> HIDE DEF c
  <2>4. c \in Nat /\ c - 1 + 1 = c /\ \A i \in 1..c : i \in 1..Len(queue) /\ 1 + i - 1 = i
    BY <1>5, <2>2
  <2>5. /\ Batch \in Seq(Actions) /\ Len(Batch) = c
        /\ \A i \in 1..c : Batch[i] = queue[i]
    <3>1. \A i \in 1..c : queue[i] \in Actions
      BY <1>2, <2>4, ElementOfSeq
    <3>2. /\ SubSeq(queue, 1, c) \in Seq(Actions)
          /\ Len(SubSeq(queue, 1, c)) = IF 1 <= c THEN c - 1 + 1 ELSE 0
          /\ \A i \in 1..(c - 1 + 1) : SubSeq(queue, 1, c)[i] = queue[1 + i - 1]
      BY <2>4, <3>1, SubSeqProperties
    <3> QED
      BY <2>3, <2>4, <3>2
  <2>6. /\ \A i \in 1..c : queue[i] \in Range(Batch)
        /\ \A a \in Range(Batch) : \E i \in 1..c : queue[i] = a
    BY <2>5 DEF Range
  <2>7. \A i \in 1..c : act[queue[i]].visible = act[Head(queue)].visible
    <3> TAKE i \in 1..c
    <3>1. i \in alike /\ i \in 1..i
      BY <2>2
    <3> QED
      BY <1>5, <2>4, <3>1
  <2>8. Delivery[Head(queue)] = p
    BY <1>2, <1>4, <1>5, <1>8, HeadTailProperties
  <2>9. \A a, b \in Range(Batch) : /\ Delivery[a] = Delivery[b]
                                   /\ act[a].visible = act[b].visible
                                   /\ Batching[Delivery[a]] = "one" => a = b
    BY <1>4, <1>8, <2>4, <2>6, <2>7, <2>8
  <2>10. ASSUME NEW a \in Range(Batch), NEW m \in Having(act, {"queued"}),
                Delivery[m] = Delivery[a], Before(admitted, a, m),
                \A x \in Having(act, {"queued"}) :
                   Delivery[x] = Delivery[a] /\ Before(admitted, a, x)
                   /\ NotBehind(admitted, x, m) => act[x].visible = act[a].visible
         PROVE  m \in Range(Batch)
    <3>1. PICK i \in 1..c : queue[i] = a
      BY <2>6
    <3>2. Delivery[a] = p /\ i \in 1..Len(queue)
      BY <1>4, <2>4, <3>1
    <3>3. m \in Range(queue)
      <4>1. m \in Range(admitted)
        BY <2>10 DEF Before, Range
      <4> QED
        BY <1>2, <2>10, <3>2, <4>1
    <3>4. PICK j \in 1..Len(queue) : queue[j] = m
      BY <1>5, <3>3 DEF Range
    <3>5. SUFFICES ASSUME m \notin Range(Batch) PROVE FALSE
      OBVIOUS
    <3>6. j \notin 1..c /\ j \notin alike
      BY <2>2, <2>6, <3>4, <3>5
    <3>7. PICK k \in 1..j : act[queue[k]].visible # act[Head(queue)].visible
      BY <1>5, <3>4, <3>6
    <3>8. k \in 1..Len(queue) /\ k \notin 1..c /\ i < k
      BY <1>5, <2>2, <2>7, <3>1, <3>4, <3>7
    <3>9. queue[k] \in Having(act, {"queued"}) /\ Delivery[queue[k]] = p
      BY <1>2, <1>4, <1>5, <3>8 DEF Range
    <3>10. Before(admitted, a, queue[k])
      BY <1>4, <1>5, <3>1, <3>2, <3>8, <3>9 DEF InLine, Ahead
    <3>11. NotBehind(admitted, queue[k], m)
      <4>1. k = j \/ k < j
        BY <3>4, <3>7
      <4>2. k < j => Before(admitted, queue[k], m)
        BY <1>4, <1>5, <3>2, <3>4, <3>8, <3>9, <2>10 DEF InLine, Ahead
      <4> QED
        BY <3>4, <4>1, <4>2 DEF NotBehind
    <3>12. act[queue[k]].visible = act[a].visible
      BY <2>10, <3>2, <3>9, <3>10, <3>11
    <3> QED
      BY <2>7, <3>1, <3>7, <3>12
  <2> QED
    BY <2>9, <2>10
<1> QED
  BY <1>6, <1>7, <1>8

\* The preparation a has kept is made for p: a prompt of its queue that is not before it,
\* and that fares as it does unless it was removed.  All that wait up to p share it.
Shares(a, p) ==
    /\ Delivery[p] = Delivery[a] /\ NotBehind(admitted, a, p)
    /\ act[p].st \in {"cancelled", act[a].st}
    /\ Batching[Delivery[a]] = "one" => p = a
    /\ \A m \in Actions :
          Delivery[m] = Delivery[a] /\ act[m].st \in Clearable /\ NotBehind(admitted, m, p)
          => act[m].prep = p /\ act[m].st = act[a].st /\ act[m].visible = act[a].visible

PreparationsOK ==
    \A a \in Actions :
        /\ act[a].st \in {"new", "selected"} => act[a].prep = None
        /\ act[a].st \in {"queued", "preparing"} /\ act[a].prep # None => Shares(a, act[a].prep)

\* The prompts of the batch that is prepared are of one queue and one execution policy.
BatchOK ==
    pump.pc \in Preparation =>
        \A a, b \in Range(pump.batch) :
            /\ act[a].st # "new"
            /\ Delivery[a] = Delivery[b] /\ act[a].visible = act[b].visible
            /\ Batching[Delivery[a]] = "one" => a = b

\* At the fence the pump knows all that are prepared, and if none of them has been
\* removed none is without a preparation.
TurnsOK ==
    pump.pc = "fence" =>
        /\ \A a \in Actions : act[a].st = "preparing" => a \in Range(pump.turns)
        /\ (\A a \in Range(pump.turns) : act[a].st = "preparing")
           => \A a \in Range(pump.turns) : act[a].prep # None

\* The preparation and the execution policy of a prompt stay as they are.
SamePrep(b) == act'[b].prep = act[b].prep /\ act'[b].visible = act[b].visible

\* Prompts that are not prepared go on in their lifecycle.
GoOn ==
    /\ admitted' = admitted
    /\ \A b \in Actions :
          /\ SamePrep(b)
          /\ \/ act'[b].st = act[b].st
             \/ act[b].st = "selected" /\ act'[b].st = "queued"
             \/ act[b].st = "committing" /\ act'[b].st = "running"
             \/ act[b].st = "running" /\ act'[b].st = "completed"

\* All that are prepared are given back, fail or are dispatched.
AllLeave(s) ==
    /\ admitted' = admitted
    /\ \A b \in Actions :
          /\ SamePrep(b)
          /\ act'[b].st = IF act[b].st = "preparing" THEN s ELSE act[b].st

\* A set of actions that changes its lifecycle keeps its preparations.
LEMMA BecomesKeeps ==
    ASSUME TypeOK, NEW A, NEW s \in Statuses, act' = Becomes(A, s)
    PROVE  \A b \in Actions : SamePrep(b) /\ act'[b].st = IF b \in A THEN s ELSE act[b].st
<1> TAKE b \in Actions
<1>1. act[b] \in ActionRecord
  BY DEF TypeOK
<1>2. act'[b] = [act[b] EXCEPT !.st = s] \/ act'[b] = act[b]
  BY BecomesMoves
<1>3. IF b \in A THEN act'[b] = [act[b] EXCEPT !.st = s] ELSE act'[b] = act[b]
  BY BecomesMoves
<1> QED
  BY <1>1, <1>3 DEF ActionRecord, SamePrep

\* A cancellation takes the preparations away only with the last that is prepared.
LEMMA CancelKeeps ==
    ASSUME TypeOK, NEW A \in SUBSET Actions, Cancel(A)
    PROVE  /\ admitted' = admitted
           /\ \A b \in Actions :
                 /\ act'[b].visible = act[b].visible
                 /\ act'[b].st = IF b \in A THEN "cancelled" ELSE act[b].st
                 /\ act'[b].prep = IF b \notin A /\ act[b].st = "preparing" /\ Last(Preparing) \in A
                                   THEN None ELSE act[b].prep
<1> DEFINE c(b) == IF act[b].st = "committing" THEN "on" ELSE "no"
           P == {b \in Actions : act[b].st = "preparing" /\ Last(Preparing) \in A}
<1>1. /\ act' = [b \in Actions |->
                     IF b \in A THEN [act[b] EXCEPT !.st = "cancelled", !.capture = c(b)]
                                ELSE IF b \in P THEN [act[b] EXCEPT !.prep = None] ELSE act[b]]
      /\ admitted' = admitted
  BY DEF Cancel
<1>2. \A b \in Actions : b \in P <=> act[b].st = "preparing" /\ Last(Preparing) \in A
  OBVIOUS
<1> HIDE DEF c, P
<1>3. ASSUME NEW b \in Actions
      PROVE  /\ act'[b].visible = act[b].visible
             /\ act'[b].st = IF b \in A THEN "cancelled" ELSE act[b].st
             /\ act'[b].prep = IF b \notin A /\ b \in P THEN None ELSE act[b].prep
  <2>1. act[b] \in ActionRecord
    BY DEF TypeOK
  <2>2. act'[b] = IF b \in A THEN [act[b] EXCEPT !.st = "cancelled", !.capture = c(b)]
                  ELSE IF b \in P THEN [act[b] EXCEPT !.prep = None] ELSE act[b]
    BY <1>1
  <2> QED
    BY <2>1, <2>2 DEF ActionRecord
<1> QED
  BY <1>1, <1>2, <1>3

\* What a step does to the prompts: one is admitted, a batch is selected or gets its
\* preparation, some are cancelled, those prepared leave, or the others go on.
LEMMA PromptSteps ==
    ASSUME IInv, PreparingOK, [Next]_vars
    PROVE  \/ \E p \in Actions, q \in BOOLEAN : Admit(p, q)
           \/ PumpSelects \/ PumpIsPrepared \/ (\E A \in SUBSET Actions : Cancel(A)) \/ GoOn
           \/ \E s \in {"queued", "failed"} : AllLeave(s)
           \/ Dispatches /\ AllLeave("committing")
<1> USE DEF input, admission, agent
<1>a. TypeOK /\ EventsOK
  BY DEF IInv
<1>b. act' = act /\ admitted' = admitted => GoOn
  BY DEF GoOn, SamePrep
<1>c. \A b \in Actions : b \in Range(ActiveTurns) <=> act[b].st = "preparing"
  BY <1>a, TurnsAreOfTheBatch DEF PreparingOK, Having
<1>d. {"queued", "failed", "committing", "completed"} \subseteq Statuses
  BY DEF Statuses, Clearable, Active, Terminal
<1>e. ASSUME NEW s \in Statuses, act' = Becomes(Range(ActiveTurns), s), admitted' = admitted
      PROVE  AllLeave(s)
  BY <1>a, <1>c, <1>e, BecomesKeeps DEF AllLeave
<1>f. Defers \/ Fails => \E s \in {"queued", "failed"} : AllLeave(s)
  BY <1>d, <1>e DEF Defers, Fails
<1>1. CASE Unmoved
  BY <1>1, <1>b DEF Unmoved
<1>2. CASE PumpFindsAgentIdle
  <2>1. /\ act' = [b \in Actions |-> IF Stale /\ act[b].st = "selected"
                                    THEN [act[b] EXCEPT !.st = "queued"] ELSE act[b]]
        /\ admitted' = admitted
    BY <1>2 DEF PumpFindsAgentIdle
  <2>2. ASSUME NEW b \in Actions
        PROVE  /\ SamePrep(b)
               /\ \/ act'[b].st = act[b].st
                  \/ act[b].st = "selected" /\ act'[b].st = "queued"
    <3>1. act[b] \in ActionRecord
      BY <1>a DEF TypeOK
    <3>2. act'[b] = act[b] \/ (act[b].st = "selected" /\ act'[b] = [act[b] EXCEPT !.st = "queued"])
      BY <2>1
    <3> QED
      BY <3>1, <3>2 DEF ActionRecord, SamePrep
  <2> QED
    BY <2>1, <2>2 DEF GoOn
<1>3. ASSUME NEW valid \in BOOLEAN, Validated(valid)
      PROVE  Defers \/ Fails \/ GoOn
  BY <1>3, <1>b DEF Validated
<1>4. CASE PumpPrepares
  <2>1. Defers \/ GoOn
    BY <1>4, <1>b DEF PumpPrepares
  <2> QED
    BY <2>1, <1>f
<1>5. CASE PumpDispatches
  <2>1. CASE Defers
    BY <2>1, <1>f
  <2>2. CASE Dispatches
    <3>1. act' = Becomes(Range(ActiveTurns), "committing") /\ admitted' = admitted
      BY <2>2 DEF Dispatches, PumpDispatches
    <3> QED
      BY <2>2, <3>1, <1>d, <1>e
  <2> QED
    BY <1>5, <2>1, <2>2 DEF PumpDispatches, Dispatches
<1>6. CASE PumpCompletes
  <2> DEFINE done == {a \in Range(pump.turns) : act[a].st = "running"}
  <2>1. act' = Becomes(done, "completed") /\ admitted' = admitted
    BY <1>6 DEF PumpCompletes
  <2>2. \A b \in done : act[b].st = "running"
    OBVIOUS
  <2> HIDE DEF done
  <2> QED
    BY <1>a, <1>d, <2>1, <2>2, BecomesKeeps DEF GoOn
<1>7. CASE TakeIn
  <2> DEFINE a == Head(run.todo)
             s == IF act[a].st = "committing" THEN "running" ELSE act[a].st
  <2>1. act' = [act EXCEPT ![a].durable = TRUE, ![a].st = s] /\ admitted' = admitted
    BY <1>7 DEF TakeIn
  <2>2. s = act[a].st \/ (act[a].st = "committing" /\ s = "running")
    OBVIOUS
  <2> HIDE DEF a, s
  <2>3. ASSUME NEW b \in Actions
        PROVE  /\ SamePrep(b)
               /\ \/ act'[b].st = act[b].st
                  \/ act[b].st = "committing" /\ act'[b].st = "running"
    <3>1. act[b] \in ActionRecord /\ act \in [Actions -> ActionRecord]
      BY <1>a DEF TypeOK
    <3>2. act'[b] = IF b = a THEN [act[b] EXCEPT !.durable = TRUE, !.st = s] ELSE act[b]
      BY <2>1, <3>1
    <3> QED
      BY <2>2, <3>1, <3>2 DEF ActionRecord, SamePrep
  <2> QED
    BY <2>1, <2>3 DEF GoOn
<1>8. (\E retryable \in BOOLEAN : EndRun(retryable)) \/ Persists => GoOn
  BY <1>b DEF EndRun, Persists
<1>9. CASE ReleasesCaptured
  <2> DEFINE c(b) == IF b \in Range(run.todo) \cup Pending THEN "lost" ELSE "no"
  <2>1. /\ act' = [b \in Actions |-> IF b \notin Captured THEN act[b]
                                    ELSE [act[b] EXCEPT !.capture = c(b)]]
        /\ admitted' = admitted
    BY <1>9 DEF ReleasesCaptured
  <2> HIDE DEF c
  <2>2. ASSUME NEW b \in Actions PROVE SamePrep(b) /\ act'[b].st = act[b].st
    <3>1. act[b] \in ActionRecord
      BY <1>a DEF TypeOK
    <3>2. act'[b] = act[b] \/ act'[b] = [act[b] EXCEPT !.capture = c(b)]
      BY <2>1
    <3> QED
      BY <3>1, <3>2 DEF ActionRecord, SamePrep
  <2> QED
    BY <2>1, <2>2 DEF GoOn
<1>10. Abort \/ ClearQueue \/ (\E a \in Actions : TakeBack(a))
       => \E A \in SUBSET Actions : Cancel(A)
  <2>1. ASSUME Abort PROVE \E A \in SUBSET Actions : Cancel(A)
    <3> DEFINE A == {a \in Having(act, Clearable) : ~act[a].visible}
    <3>1. A \in SUBSET Actions /\ Cancel(A)
      BY <2>1 DEF Abort, Having
    <3> QED
      BY <3>1
  <2>2. ASSUME ClearQueue PROVE \E A \in SUBSET Actions : Cancel(A)
    <3> DEFINE A == {a \in Having(act, Clearable) : act[a].visible}
    <3>1. A \in SUBSET Actions /\ Cancel(A)
      BY <2>2 DEF ClearQueue, Having
    <3> QED
      BY <3>1
  <2>3. ASSUME NEW a \in Actions, TakeBack(a) PROVE \E A \in SUBSET Actions : Cancel(A)
    <3>1. {a} \in SUBSET Actions /\ Cancel({a})
      BY <2>3 DEF TakeBack
    <3> QED
      BY <3>1
  <2> QED
    BY <2>1, <2>2, <2>3
<1>11. Moves \/ Unmoved
  BY <1>a, Kinds DEF Footprint
<1> QED
  BY <1>1, <1>2, <1>3, <1>4, <1>5, <1>6, <1>7, <1>8, <1>9, <1>10, <1>11, <1>f DEF Moves

\* A step in which those that share a preparation fare alike keeps the preparations.
LEMMA SharesStay ==
    ASSUME TypeOK, PreparationsOK, admitted' = admitted,
           \A b \in Actions :
              /\ act'[b].visible = act[b].visible
              /\ act'[b].prep \in {act[b].prep, None}
              /\ act'[b].st \in Clearable => act[b].st \in Clearable
              /\ act'[b].st \in {"new", "selected"} => act'[b].st = act[b].st
              /\ act[b].st = "cancelled" => act'[b].st = "cancelled",
           \A a, m \in Actions :
              /\ Delivery[m] = Delivery[a] /\ act[m].st = act[a].st
              /\ act[a].st \in {"queued", "preparing"}
              /\ act[a].prep # None /\ act[m].prep = act[a].prep
              /\ act'[a].st \in {"queued", "preparing"} /\ act'[a].prep # None
              => \/ act'[m].st = "cancelled"
                 \/ act'[m].st = act'[a].st /\ act'[m].prep = act[m].prep
    PROVE  PreparationsOK'
<1> SUFFICES ASSUME NEW a \in Actions
             PROVE  /\ act'[a].st \in {"new", "selected"} => act'[a].prep = None
                    /\ act'[a].st \in {"queued", "preparing"} /\ act'[a].prep # None
                       => Shares(a, act[a].prep)' /\ act'[a].prep = act[a].prep
  BY DEF PreparationsOK, Shares
<1>1. act'[a].st \in {"new", "selected"} => act'[a].prep = None
  BY DEF PreparationsOK
<1>2. ASSUME act'[a].st \in {"queued", "preparing"}, act'[a].prep # None
      PROVE  Shares(a, act[a].prep)' /\ act'[a].prep = act[a].prep
  <2> DEFINE p == act[a].prep
  <2>1. act'[a].prep = p /\ p # None /\ act[a].st \in Clearable
    BY <1>2 DEF Clearable
  <2>2. act[a].st \in {"queued", "preparing"}
    BY <2>1 DEF PreparationsOK, Clearable
  <2>3. p \in Actions /\ Shares(a, p)
    <3>1. act[a].prep \in Actions \cup {None}
      BY DEF TypeOK, ActionRecord
    <3> QED
      BY <2>1, <2>2, <3>1 DEF PreparationsOK
  <2> HIDE DEF p
  <2>4. ASSUME NEW m \in Actions, Delivery[m] = Delivery[a], act[m].st = act[a].st,
               act[m].prep = p
        PROVE  act'[m].st = "cancelled" \/ (act'[m].st = act'[a].st /\ act'[m].prep = p)
    BY <1>2, <2>1, <2>2, <2>4 DEF p
  <2>5. act'[p].st \in {"cancelled", act'[a].st}
    <3>1. CASE act[p].st = "cancelled"
      BY <2>3, <3>1
    <3>2. CASE act[p].st = act[a].st
      <4>1. act[p].prep = p /\ Delivery[p] = Delivery[a]
        BY <2>1, <2>3, <3>2 DEF Shares, NotBehind
      <4> QED
        BY <2>3, <2>4, <3>2, <4>1
    <3> QED
      BY <2>3, <3>1, <3>2 DEF Shares
  <2>6. ASSUME NEW m \in Actions, Delivery[m] = Delivery[a], act'[m].st \in Clearable,
               NotBehind(admitted, m, p)
        PROVE  act'[m].prep = p /\ act'[m].st = act'[a].st /\ act'[m].visible = act'[a].visible
    <3>1. act[m].prep = p /\ act[m].st = act[a].st /\ act[m].visible = act[a].visible
      BY <2>3, <2>6 DEF Shares
    <3>2. act'[m].st # "cancelled"
      BY <2>6 DEF Clearable
    <3> QED
      BY <2>4, <2>6, <3>1, <3>2
  <2> QED
    BY <2>1, <2>3, <2>5, <2>6 DEF Shares, p
<1> QED
  BY <1>1, <1>2

\* A prompt that is admitted is behind all that share a preparation.
LEMMA AdmitKeepsShares ==
    ASSUME IInv, PreparationsOK, NEW n \in Actions, NEW q \in BOOLEAN, Admit(n, q)
    PROVE  PreparationsOK' /\ \A b \in Actions : act[b].st # "new" => act'[b] = act[b]
<1>1. /\ TypeOK /\ PromptOK(n) /\ door[n] # "done" /\ admitted \in Seq(Actions)
      /\ admitted' = Append(admitted, n)
      /\ \E s \in {"selected", "queued"} : act'[n].st = s
  BY AdmitActs DEF IInv, Admit, Leave, TypeOK, Moved
<1>2. act[n].st = "new" /\ n \notin Range(admitted)
  BY <1>1 DEF PromptOK
<1>3. /\ \A b \in Actions \ {n} : act'[b] = act[b]
      /\ act'[n].prep = act[n].prep
  <2> DEFINE visible == Streaming \/ (q /\ BusyPreflight)
             s == IF ~visible /\ CanSelect /\ Unfinished = {} THEN "selected" ELSE "queued"
             v == visible
  <2>1. act' = [act EXCEPT ![n].st = s, ![n].visible = v]
    BY DEF Admit
  <2> HIDE DEF s, v
  <2>2. act \in [Actions -> ActionRecord] /\ act[n] \in ActionRecord
    BY <1>1 DEF TypeOK
  <2> QED
    BY <2>1, <2>2 DEF ActionRecord
<1>4. act'[n].prep = None
  BY <1>2, <1>3 DEF PreparationsOK
<1>5. ASSUME NEW a \in Actions, act'[a].st \in {"queued", "preparing"}, act'[a].prep # None
      PROVE  Shares(a, act[a].prep)' /\ act'[a].prep = act[a].prep
  <2> DEFINE p == act[a].prep
  <2>1. a # n /\ act'[a] = act[a] /\ p # None /\ p \in Actions
    <3>1. act[a].prep \in Actions \cup {None}
      BY <1>1 DEF TypeOK, ActionRecord
    <3> QED
      BY <1>3, <1>4, <1>5, <3>1
  <2>2. Shares(a, p)
    BY <1>5, <2>1 DEF PreparationsOK
  <2> HIDE DEF p
  <2>3. p # n /\ act'[p] = act[p]
    BY <1>2, <1>3, <1>5, <2>1, <2>2 DEF Shares
  <2>4. NotBehind(admitted', a, p)
    BY <1>1, <2>2, BeforeGrows DEF Shares, NotBehind
  <2>5. ASSUME NEW m \in Actions, NotBehind(admitted', m, p)
        PROVE  NotBehind(admitted, m, p) /\ act'[m] = act[m]
    <3>1. NotBehind(admitted, m, p)
      BY <1>1, <2>3, <2>5, BeforeGrows DEF NotBehind
    <3>2. m # n
      BY <1>2, <2>3, <3>1 DEF NotBehind, Before, Range
    <3> QED
      BY <1>3, <3>1, <3>2
  <2> QED
    BY <2>1, <2>2, <2>3, <2>4, <2>5 DEF Shares, p
<1>6. \A a \in Actions : act'[a].st \in {"new", "selected"} => act'[a].prep = None
  BY <1>3, <1>4 DEF PreparationsOK
<1>7. PreparationsOK'
  BY <1>5, <1>6 DEF PreparationsOK, Shares
<1> QED
  BY <1>2, <1>3, <1>7

\* A batch takes all or none of those that share a preparation.
LEMMA SelectKeepsShares ==
    ASSUME IInv, PreparationsOK, PumpSelects
    PROVE  PreparationsOK' /\ BatchOK'
<1> USE DEF input, admission, agent
<1> DEFINE batch == IF pump.pre = None THEN Batch ELSE <<pump.pre>>
<1>1. /\ act' = Becomes(Range(batch), "preparing") /\ admitted' = admitted
      /\ pump' = [pump EXCEPT !.pc = "validate", !.batch = batch]
      /\ pump.pre # None => act[pump.pre].st = "selected"
  BY DEF PumpSelects
<1>2. /\ TypeOK /\ IsInjective(admitted) /\ admitted \in Seq(Actions)
      /\ pump \in PumpRecord /\ "preparing" \in Statuses
  BY DEF IInv, SequencesOK, TypeOK, Statuses, Clearable
<1>3. \A b \in Range(batch) : pump.pre # None => b = pump.pre
  BY DEF Range
<1>4. pump.pre = None => batch = Batch
  OBVIOUS
<1> HIDE DEF batch
<1>5. pump'.batch = batch
  BY <1>1, <1>2 DEF PumpRecord
<1>6. \A b \in Actions :
         SamePrep(b) /\ act'[b].st = IF b \in Range(batch) THEN "preparing" ELSE act[b].st
  BY <1>1, <1>2, BecomesKeeps
<1>7. \A b \in Range(batch) : b \in Actions /\ act[b].st \in {"queued", "selected"}
  <2>1. CASE pump.pre = None
    BY <1>2, <1>4, <2>1, BatchIsQueued DEF Having
  <2>2. CASE pump.pre # None
    BY <1>1, <1>2, <1>3, <2>2 DEF PumpRecord
  <2> QED
    BY <2>1, <2>2
<1>8. ASSUME NEW a \in Actions, NEW m \in Actions, Delivery[m] = Delivery[a],
             act[m].st = act[a].st, act[a].st \in {"queued", "preparing"},
             act[a].prep # None, act[m].prep = act[a].prep, a \in Range(batch)
      PROVE  m \in Range(batch)
  <2> DEFINE p == act[a].prep
  <2>1. pump.pre = None /\ batch = Batch
    BY <1>1, <1>3, <1>4, <1>8
  <2>2. act[a].st = "queued" /\ act[m].st = "queued"
    BY <1>7, <1>8
  <2>3. Shares(a, p) /\ Shares(m, p)
    BY <1>8, <2>2 DEF PreparationsOK
  <2> HIDE DEF p
  <2>4. a \in Range(admitted) /\ m \in Range(admitted)
    BY <2>2 DEF IInv, PromptOK
  <2>5. CASE Before(admitted, m, a)
    BY <1>2, <1>8, <2>1, <2>2, <2>5, BatchInLine DEF Having
  <2>6. CASE Before(admitted, a, m)
    <3>1. a # m
      BY <1>2, <2>6, NotBoth
    <3>2. Batching[Delivery[a]] # "one"
      BY <1>8, <2>3, <3>1 DEF Shares
    <3>3. ASSUME NEW x \in Having(act, {"queued"}), Delivery[x] = Delivery[a],
                 NotBehind(admitted, x, m)
          PROVE  act[x].visible = act[a].visible
      <4>1. NotBehind(admitted, x, p)
        BY <1>2, <2>3, <3>3, BeforeChains DEF Shares
      <4>2. x \in Actions /\ act[x].st \in Clearable
        BY <3>3 DEF Having, Clearable
      <4> QED
        BY <2>3, <3>3, <4>1, <4>2 DEF Shares
    <3>4. m \in Having(act, {"queued"}) /\ a \in Range(Batch)
      BY <1>8, <2>1, <2>2 DEF Having
    <3> QED
      BY <1>2, <1>8, <2>1, <2>6, <3>2, <3>3, <3>4, BatchIsAlike
  <2> QED
    BY <1>2, <1>8, <2>4, <2>5, <2>6, OneIsFirst
<1>9. PreparationsOK'
  <2>1. \A b \in Actions :
           /\ act'[b].visible = act[b].visible
           /\ act'[b].prep \in {act[b].prep, None}
           /\ act'[b].st \in Clearable => act[b].st \in Clearable
           /\ act'[b].st \in {"new", "selected"} => act'[b].st = act[b].st
           /\ act[b].st = "cancelled" => act'[b].st = "cancelled"
    BY <1>6, <1>7 DEF SamePrep, Clearable
  <2>2. \A a, m \in Actions :
           /\ Delivery[m] = Delivery[a] /\ act[m].st = act[a].st
           /\ act[a].st \in {"queued", "preparing"}
           /\ act[a].prep # None /\ act[m].prep = act[a].prep
           => act'[m].st = act'[a].st /\ act'[m].prep = act[m].prep
    <3> SUFFICES ASSUME NEW a \in Actions, NEW m \in Actions,
                        Delivery[m] = Delivery[a], act[m].st = act[a].st,
                        act[a].st \in {"queued", "preparing"},
                        act[a].prep # None, act[m].prep = act[a].prep
                 PROVE  act'[m].st = act'[a].st /\ act'[m].prep = act[m].prep
      OBVIOUS
    <3>1. a \in Range(batch) => m \in Range(batch)
      BY <1>8
    <3>2. m \in Range(batch) => a \in Range(batch)
      BY <1>8
    <3> QED
      BY <1>6, <3>1, <3>2 DEF SamePrep
  <2> QED
    BY <1>1, <1>2, <2>1, <2>2, SharesStay
<1>10. ASSUME NEW a \in Range(batch), NEW b \in Range(batch)
       PROVE  /\ act'[a].st # "new"
              /\ Delivery[a] = Delivery[b] /\ act'[a].visible = act'[b].visible
              /\ Batching[Delivery[a]] = "one" => a = b
  <2>1. /\ Delivery[a] = Delivery[b] /\ act[a].visible = act[b].visible
        /\ Batching[Delivery[a]] = "one" => a = b
    <3>1. CASE pump.pre = None
      BY <1>2, <1>4, <3>1, BatchIsAlike
    <3>2. CASE pump.pre # None
      BY <1>3, <3>2
    <3> QED
      BY <3>1, <3>2
  <2> QED
    BY <1>6, <1>7, <2>1 DEF SamePrep
<1> QED
  BY <1>5, <1>9, <1>10 DEF BatchOK

\* The handlers' answer is for all that are prepared, and nothing waits before them.
LEMMA AnswerIsShared ==
    ASSUME IInv, OrderInv, PreparationsOK, BatchOK, PumpIsPrepared
    PROVE  PreparationsOK' /\ \A b \in Actions : act'[b].visible = act[b].visible
<1> USE DEF input, admission, agent
<1> DEFINE T == ActiveTurns
           l == Last(T)
<1>1. /\ TypeOK /\ IsInjective(admitted) /\ admitted \in Seq(Actions) /\ pump.pc = "extended"
      /\ admitted' = admitted
  BY DEF IInv, SequencesOK, TypeOK, PumpIsPrepared
<1>2. /\ T \in Seq(Actions) /\ Range(T) \subseteq Range(pump.batch) /\ Range(T) \subseteq Actions
      /\ \A b \in Actions : b \in Range(T) <=> act[b].st = "preparing"
  BY <1>1, TurnsAreOfTheBatch DEF OrderInv, PreparingOK, Having
<1>3. \A a, b \in Range(T) : /\ Delivery[a] = Delivery[b] /\ act[a].visible = act[b].visible
                             /\ Batching[Delivery[a]] = "one" => a = b
  BY <1>1, <1>2 DEF BatchOK, Preparation
<1>4. InLine(admitted, T)
  BY <1>1, KeptInLine DEF ActiveTurns, OrderInv, LinesOK, TypeOK, PumpRecord
<1>5. \/ act' = act
      \/ T # <<>> /\ act' = [a \in Actions |-> IF a \in Range(T) THEN [act[a] EXCEPT !.prep = l]
                                               ELSE act[a]]
  BY DEF PumpIsPrepared
<1> HIDE DEF T, l
<1>6. CASE act' = act
  <2>1. PreparationsOK'
    BY <1>1, <1>6 DEF PreparationsOK, Shares
  <2> QED
    BY <1>6, <2>1
<1>7. CASE T # <<>> /\ act' = [a \in Actions |-> IF a \in Range(T)
                                                 THEN [act[a] EXCEPT !.prep = l] ELSE act[a]]
  <2>1. l \in Range(T) /\ \A a \in Range(T) : NotBehind(admitted, a, l)
    BY <1>2, <1>3, <1>4, <1>7, LastOfTheLine DEF l
  <2>2. l \in Actions /\ act[l].st = "preparing" /\ l # None
    BY <1>2, <2>1, SessionAssumption
  <2>3. ASSUME NEW b \in Actions
        PROVE  /\ act'[b].st = act[b].st /\ act'[b].visible = act[b].visible
               /\ act'[b].prep = IF act[b].st = "preparing" THEN l ELSE act[b].prep
    <3>1. act[b] \in ActionRecord
      BY <1>1 DEF TypeOK
    <3>2. act'[b] = IF act[b].st = "preparing" THEN [act[b] EXCEPT !.prep = l] ELSE act[b]
      BY <1>2, <1>7
    <3> QED
      BY <2>2, <3>1, <3>2 DEF ActionRecord
  <2>4. ASSUME NEW a \in Actions, act[a].st = "preparing" PROVE Shares(a, act[a].prep)'
    <3>1. a \in Range(T)
      BY <1>2, <2>4
    <3>2. Delivery[l] = Delivery[a] /\ NotBehind(admitted, a, l)
          /\ (Batching[Delivery[a]] = "one" => l = a)
      BY <1>3, <2>1, <3>1
    <3>3. ASSUME NEW m \in Actions, Delivery[m] = Delivery[a], act[m].st \in Clearable,
                 NotBehind(admitted, m, l)
          PROVE  act[m].st = "preparing" /\ act[m].visible = act[a].visible
      <4>1. act[m].st \notin {"queued", "selected"}
        BY <2>2, <3>2, <3>3 DEF NotBehind, OrderInv, QueuesOK
      <4>2. act[m].st = "preparing"
        BY <3>3, <4>1 DEF Clearable
      <4> QED
        BY <1>2, <1>3, <3>1, <3>3, <4>2
    <3>4. act'[a].prep = l /\ act'[a].st = "preparing"
      BY <2>3, <2>4
    <3>5. \A m \in Actions :
             Delivery[m] = Delivery[a] /\ act[m].st \in Clearable /\ NotBehind(admitted, m, l)
             => act'[m].prep = l /\ act'[m].st = act'[a].st /\ act'[m].visible = act'[a].visible
      BY <2>3, <2>4, <3>3
    <3> QED
      BY <1>1, <2>2, <2>3, <3>2, <3>4, <3>5 DEF Shares
  <2>5. ASSUME NEW a \in Actions, act[a].st = "queued", act[a].prep # None
        PROVE  Shares(a, act[a].prep)'
    <3> DEFINE p == act[a].prep
    <3>1. Shares(a, p) /\ act'[a].prep = p
      BY <2>3, <2>5 DEF PreparationsOK
    <3>2. p \in Actions
      <4>1. act[a].prep \in Actions \cup {None}
        BY <1>1 DEF TypeOK, ActionRecord
      <4> QED
        BY <2>5, <4>1
    <3> HIDE DEF p
    <3>3. \A m \in Actions :
             Delivery[m] = Delivery[a] /\ act[m].st \in Clearable /\ NotBehind(admitted, m, p)
             => act'[m].prep = p /\ act'[m].st = act'[a].st /\ act'[m].visible = act'[a].visible
      BY <2>3, <2>5, <3>1 DEF Shares
    <3> QED
      BY <1>1, <2>3, <2>5, <3>1, <3>2, <3>3 DEF Shares, p
  <2>6. PreparationsOK'
    <3> SUFFICES ASSUME NEW a \in Actions
                 PROVE  /\ act'[a].st \in {"new", "selected"} => act'[a].prep = None
                        /\ act'[a].st \in {"queued", "preparing"} /\ act'[a].prep # None
                           => Shares(a, act[a].prep)'
      BY DEF PreparationsOK
    <3>1. act'[a].st \in {"new", "selected"} => act'[a].prep = None
      BY <2>3 DEF PreparationsOK
    <3>2. act'[a].st = "queued" /\ act'[a].prep # None => Shares(a, act[a].prep)'
      BY <2>3, <2>5
    <3>3. act'[a].st = "preparing" => Shares(a, act[a].prep)'
      BY <2>3, <2>4
    <3> QED
      BY <3>1, <3>2, <3>3
  <2> QED
    BY <2>3, <2>6
<1> QED
  BY <1>5, <1>6, <1>7

\* Every step keeps the preparations, and the execution policy of a prompt once admitted.
LEMMA PreparationsStep ==
    ASSUME IInv, OrderInv, PreparationsOK, BatchOK, [Next]_vars
    PROVE  /\ PreparationsOK'
           /\ PumpSelects \/ \A b \in Actions :
                 /\ act[b].st # "new" => act'[b].st # "new" /\ act'[b].visible = act[b].visible
                 /\ act'[b].st = "preparing" => act[b].st = "preparing"
<1> DEFINE Rest == \A b \in Actions :
              /\ act[b].st # "new" => act'[b].st # "new" /\ act'[b].visible = act[b].visible
              /\ act'[b].st = "preparing" => act[b].st = "preparing"
<1>1. TypeOK
  BY DEF IInv
<1>2. ASSUME NEW p \in Actions, NEW q \in BOOLEAN, Admit(p, q) PROVE PreparationsOK' /\ Rest
  <2>1. act[p].st = "new" /\ act'[p].st \in {"queued", "selected"}
    <3>1. PromptOK(p) /\ door[p] # "done"
      BY <1>2 DEF Admit, Leave, IInv
    <3>2. act[p].st = "new"
      BY <3>1 DEF PromptOK
    <3>3. \E s \in {"selected", "queued"} : Moved(p, s)
      BY <1>1, <1>2, AdmitActs
    <3> QED
      BY <3>2, <3>3 DEF Moved
  <2>2. \A b \in Actions : act'[b].st = act[b].st \/ b = p
    BY <1>1, <1>2, AdmitActs DEF Moved
  <2> QED
    BY <1>2, <2>1, <2>2, AdmitKeepsShares
<1>3. CASE PumpSelects
  BY <1>3, SelectKeepsShares
<1>4. CASE PumpIsPrepared
  <2>1. \A b \in Actions : act'[b].st = act[b].st
    BY <1>1, <1>4, PreparedActs DEF Moved
  <2> QED
    BY <1>4, <2>1, AnswerIsShared
<1>5. ASSUME NEW A \in SUBSET Actions, Cancel(A) PROVE PreparationsOK' /\ Rest
  <2>1. /\ admitted' = admitted
        /\ \A b \in Actions :
              /\ act'[b].visible = act[b].visible
              /\ act'[b].st = IF b \in A THEN "cancelled" ELSE act[b].st
              /\ act'[b].prep = IF b \notin A /\ act[b].st = "preparing" /\ Last(Preparing) \in A
                                THEN None ELSE act[b].prep
    BY <1>1, <1>5, CancelKeeps
  <2>2. \A b \in Actions :
           /\ act'[b].visible = act[b].visible
           /\ act'[b].prep \in {act[b].prep, None}
           /\ act'[b].st \in Clearable => act[b].st \in Clearable
           /\ act'[b].st \in {"new", "selected"} => act'[b].st = act[b].st
           /\ act[b].st = "cancelled" => act'[b].st = "cancelled"
    BY <2>1 DEF Clearable
  <2>3. \A a, m \in Actions :
           /\ act[m].st = act[a].st /\ act'[a].st \in {"queued", "preparing"}
           /\ act'[a].prep # None
           => \/ act'[m].st = "cancelled"
              \/ act'[m].st = act'[a].st /\ act'[m].prep = act[m].prep
    BY <2>1
  <2>4. PreparationsOK'
    BY <1>1, <2>1, <2>2, <2>3, SharesStay
  <2> QED
    BY <2>1, <2>4
<1>6. CASE GoOn
  <2>1. \A b \in Actions :
           /\ act'[b].visible = act[b].visible
           /\ act'[b].prep \in {act[b].prep, None}
           /\ act'[b].st \in Clearable => act[b].st \in Clearable
           /\ act'[b].st \in {"new", "selected"} => act'[b].st = act[b].st
           /\ act[b].st = "cancelled" => act'[b].st = "cancelled"
    BY <1>6 DEF GoOn, SamePrep, Clearable
  <2>2. \A a, m \in Actions :
           act[m].st = act[a].st /\ act[a].st \in {"queued", "preparing"}
           => act'[m].st = act'[a].st /\ act'[m].prep = act[m].prep
    BY <1>6 DEF GoOn, SamePrep
  <2>3. PreparationsOK'
    BY <1>1, <1>6, <2>1, <2>2, SharesStay DEF GoOn
  <2> QED
    BY <1>6, <2>3 DEF GoOn, SamePrep
<1>7. ASSUME NEW s \in {"queued", "failed", "committing"}, AllLeave(s)
      PROVE  PreparationsOK' /\ Rest
  <2>1. \A b \in Actions :
           /\ act'[b].visible = act[b].visible
           /\ act'[b].prep \in {act[b].prep, None}
           /\ act'[b].st \in Clearable => act[b].st \in Clearable
           /\ act'[b].st \in {"new", "selected"} => act'[b].st = act[b].st
           /\ act[b].st = "cancelled" => act'[b].st = "cancelled"
    BY <1>7 DEF AllLeave, SamePrep, Clearable
  <2>2. \A a, m \in Actions :
           act[m].st = act[a].st => act'[m].st = act'[a].st /\ act'[m].prep = act[m].prep
    BY <1>7 DEF AllLeave, SamePrep
  <2>3. PreparationsOK'
    BY <1>1, <1>7, <2>1, <2>2, SharesStay DEF AllLeave
  <2> QED
    BY <1>7, <2>3 DEF AllLeave, SamePrep
<1> QED
  BY <1>2, <1>3, <1>4, <1>5, <1>6, <1>7, PromptSteps DEF OrderInv

\* Where the pump is after a step: it prepares no batch, has just selected one, or goes on
\* with the one it has.
Goes ==
    \/ pump'.pc \notin Preparation
    \/ PumpSelects
    \/ /\ pump.pc \in Preparation /\ pump'.batch = pump.batch
       /\ pump'.pc = "fence" =>
             \/ pump.pc = "fence" /\ pump'.turns = pump.turns
             \/ act' = act /\ pump'.turns = ActiveTurns /\ ~Unprepared

LEMMA PumpGoesOn ==
    ASSUME TypeOK, [Next]_vars
    PROVE  Goes
<1> USE DEF input, admission, agent
<1> DEFINE Pcs == {"off", "idle", "events", "select", "validate", "extend", "extended",
                   "fence", "run", "retry", "retried", "settle", "settled"}
<1>a. pump \in PumpRecord
  BY DEF TypeOK
<1>b. \A pc \in Pcs : /\ [pump EXCEPT !.pc = pc].pc = pc
                      /\ [pump EXCEPT !.pc = pc].batch = pump.batch
  BY <1>a DEF PumpRecord
<1>c. NoPump.pc \notin Preparation /\ \A ac : Looped(ac).pc \notin Preparation
  BY <1>a, LoopedType DEF NoPump, Preparation
<1>d. pump' = pump => Goes
  BY DEF Goes
<1>e. Defers \/ Fails => Goes
  BY GivesBackActs DEF Goes, Preparation
<1>f. ASSUME NEW n, NEW b, ResolveRetry(n, b) PROVE Goes
  BY <1>f, <1>b DEF ResolveRetry, Goes, Preparation
<1> HIDE DEF Pcs
<1>1. UNCHANGED vars => Goes
  BY <1>d DEF vars
<1>2. ASSUME NEW a \in Actions,
             Arrive(a) \/ CallerStep(a) \/ TakeBack(a)
      PROVE  Goes
  BY <1>2, <1>d DEF Arrive, CallerStep, Return, Enter, Admit, Handle, TakeBack
<1>3. CASE PumpStarts
  <2>1. pump'.pc \in {"off", "idle"}
    BY <1>3, <1>a DEF PumpStarts, NoPump
  <2> QED
    BY <2>1 DEF Goes, Preparation
<1>4. CASE PumpFindsAgentIdle
  <2> DEFINE pc == IF Captured = {} THEN "events" ELSE "select"
             pre == IF Having(act, {"selected"}) = {} THEN None
                    ELSE CHOOSE a \in Actions : act[a].st = "selected"
  <2>1. pump' = NoPump \/ pump' = [pump EXCEPT !.pc = pc, !.pre = pre]
    BY <1>4 DEF PumpFindsAgentIdle
  <2>2. pc \in {"events", "select"}
    OBVIOUS
  <2> HIDE DEF pc, pre
  <2>3. pump'.pc \notin Preparation
    BY <1>a, <1>c, <2>1, <2>2 DEF PumpRecord, Preparation
  <2> QED
    BY <2>3 DEF Goes
<1>5. CASE PumpFindsEventsDone \/ PumpIsBlocked \/ PumpFindsNothing \/ PumpSeesRunEnd
           \/ PumpSeesRetryEnd \/ PumpSettles
  <2>1. pump' = NoPump \/ \E pc \in {"select", "retry", "retried", "settle", "settled"} :
                             pump' = [pump EXCEPT !.pc = pc]
    <3>1. PumpFindsEventsDone => pump' = [pump EXCEPT !.pc = "select"]
      BY DEF PumpFindsEventsDone
    <3>2. PumpIsBlocked \/ PumpFindsNothing => pump' = NoPump
      BY DEF PumpIsBlocked, PumpFindsNothing
    <3>3. PumpSeesRunEnd => \E pc \in {"retry", "retried"} : pump' = [pump EXCEPT !.pc = pc]
      BY DEF PumpSeesRunEnd
    <3>4. PumpSeesRetryEnd \/ PumpSettles
          => \E pc \in {"settle", "settled"} : pump' = [pump EXCEPT !.pc = pc]
      BY DEF PumpSeesRetryEnd, PumpSettles
    <3> QED
      BY <1>5, <3>1, <3>2, <3>3, <3>4
  <2>2. \A pc \in {"select", "retry", "retried", "settle", "settled"} :
           [pump EXCEPT !.pc = pc].pc \notin Preparation
    <3> TAKE pc \in {"select", "retry", "retried", "settle", "settled"}
    <3>1. pc \in Pcs /\ pc \notin Preparation
      BY DEF Pcs, Preparation
    <3> QED
      BY <1>b, <3>1
  <2>3. pump'.pc \notin Preparation
    BY <1>c, <2>1, <2>2
  <2> QED
    BY <2>3 DEF Goes
<1>6. CASE PumpSelects
  BY <1>6 DEF Goes
<1>7. ASSUME NEW valid \in BOOLEAN, Validated(valid) PROVE Goes
  <2>1. CASE Defers \/ Fails
    BY <2>1, <1>e
  <2>2. CASE ~(Defers \/ Fails)
    <3>1. pump.pc = "validate" /\ pump' = [pump EXCEPT !.pc = "extend"]
      BY <1>7, <2>2 DEF Validated
    <3>2. pump'.pc = "extend" /\ pump'.batch = pump.batch
      BY <1>b, <3>1 DEF Pcs
    <3> QED
      BY <3>1, <3>2 DEF Goes, Preparation
  <2> QED
    BY <2>1, <2>2
<1>8. CASE PumpPrepares
  <2>1. CASE Defers
    BY <2>1, <1>e
  <2>2. CASE ~Defers
    <3> DEFINE l == Last(ActiveTurns)
               t == ActiveTurns
    <3>1. /\ pump.pc = "extend" /\ act' = act
          /\ \/ pump' = [pump EXCEPT !.pc = "extended", !.anchor = l]
             \/ pump' = Looped(act)
             \/ ~Unprepared /\ pump' = [pump EXCEPT !.pc = "fence", !.turns = t]
      BY <1>8, <2>2 DEF PumpPrepares
    <3> HIDE DEF l, t
    <3>2. /\ [pump EXCEPT !.pc = "extended", !.anchor = l].pc = "extended"
          /\ [pump EXCEPT !.pc = "extended", !.anchor = l].batch = pump.batch
          /\ [pump EXCEPT !.pc = "fence", !.turns = t].batch = pump.batch
          /\ [pump EXCEPT !.pc = "fence", !.turns = t].turns = t
      BY <1>a DEF PumpRecord
    <3> QED
      BY <1>c, <3>1, <3>2 DEF Goes, Preparation, t
  <2> QED
    BY <2>1, <2>2
<1>9. CASE PumpIsPrepared
  <2>1. pump.pc = "extended" /\ pump' = [pump EXCEPT !.pc = "extend"]
    BY <1>9 DEF PumpIsPrepared
  <2>2. pump'.pc = "extend" /\ pump'.batch = pump.batch
    BY <1>b, <2>1 DEF Pcs
  <2> QED
    BY <2>1, <2>2 DEF Goes, Preparation
<1>10. CASE PumpDispatches
  <2>1. Defers \/ pump' = [pump EXCEPT !.pc = "run"]
    BY <1>10 DEF PumpDispatches
  <2>2. [pump EXCEPT !.pc = "run"].pc \notin Preparation
    BY <1>b DEF Pcs, Preparation
  <2> QED
    BY <1>e, <2>1, <2>2 DEF Goes
<1>11. CASE PumpCompletes
  BY <1>11, <1>c DEF PumpCompletes, Goes
<1>12. CASE RunStep \/ Persists \/ StartsBackoff \/ BackoffEnds \/ Continues \/ CheckpointStep
  BY <1>12, <1>d DEF RunStep, TakeIn, EndRun, FinishRun, Persists, StartsBackoff, BackoffEnds,
     Continues, CheckpointStep, CheckpointArrives, CheckpointEnters, CheckpointTaken
<1>13. CASE ReleasesCaptured \/ EndsForGood \/ Abort
  BY <1>13, <1>f DEF ReleasesCaptured, EndsForGood, Abort
<1>14. CASE Resume \/ Pause \/ Release \/ ClearQueue \/ StartBash \/ EndBash \/ DrainBash
  BY <1>14, <1>d DEF Resume, Pause, Release, ClearQueue, StartBash, EndBash, DrainBash
<1> QED
  BY <1>1, <1>2, <1>3, <1>4, <1>5, <1>6, <1>7, <1>8, <1>9, <1>10, <1>11, <1>12, <1>13, <1>14
     DEF Next, PumpStep, EventStep

\* The batch keeps what its prompts have in common.
LEMMA BatchStep ==
    ASSUME IInv, OrderInv, PreparationsOK, BatchOK, [Next]_vars
    PROVE  BatchOK'
<1>1. TypeOK /\ Goes
  BY PumpGoesOn DEF IInv
<1>2. CASE PumpSelects
  BY <1>2, SelectKeepsShares
<1>3. CASE pump.pc \in Preparation /\ pump'.batch = pump.batch /\ ~PumpSelects
  <2>1. Range(pump.batch) \subseteq Actions
    BY <1>1 DEF TypeOK, PumpRecord, Range
  <2>2. \A b \in Actions :
           act[b].st # "new" => act'[b].st # "new" /\ act'[b].visible = act[b].visible
    BY <1>3, PreparationsStep
  <2> QED
    BY <1>3, <2>1, <2>2 DEF BatchOK
<1> QED
  BY <1>1, <1>2, <1>3 DEF Goes, BatchOK

\* While the pump waits for the fence, a preparation is lost only with a turn.
LEMMA TurnsStep ==
    ASSUME IInv, OrderInv, PreparationsOK, BatchOK, TurnsOK, [Next]_vars
    PROVE  TurnsOK'
<1> USE DEF input, admission, agent
<1>1. /\ TypeOK /\ Goes /\ PreparingOK
      /\ pump.turns \in Seq(Actions) /\ Range(pump.turns) \subseteq Actions
  BY PumpGoesOn DEF IInv, OrderInv, TypeOK, PumpRecord, Range
<1> SUFFICES ASSUME pump'.pc = "fence"
             PROVE  /\ \A a \in Actions : act'[a].st = "preparing" => a \in Range(pump'.turns)
                    /\ (\A a \in Range(pump'.turns) : act'[a].st = "preparing")
                       => \A a \in Range(pump'.turns) : act'[a].prep # None
  BY DEF TurnsOK
<1>2. ~PumpSelects
  <2>1. PumpSelects => pump'.pc = "validate"
    BY <1>1 DEF PumpSelects, TypeOK, PumpRecord
  <2> QED
    BY <2>1
<1>3. CASE act' = act /\ pump'.turns = ActiveTurns /\ ~Unprepared
  <2>1. \A a \in Actions : act[a].st = "preparing" => a \in Range(ActiveTurns)
    BY <1>1, TurnsAreOfTheBatch DEF PreparingOK, Having
  <2> QED
    BY <1>3, <2>1 DEF Unprepared
<1>4. CASE pump.pc = "fence" /\ pump'.turns = pump.turns
  <2>1. \A a \in Actions : act'[a].st = "preparing" => act[a].st = "preparing"
    BY <1>2, PreparationsStep
  <2>2. \A a \in Actions : act'[a].st = "preparing" => a \in Range(pump'.turns)
    BY <1>4, <2>1 DEF TurnsOK
  <2>3. ASSUME \A a \in Range(pump.turns) : act'[a].st = "preparing",
               NEW a \in Range(pump.turns)
        PROVE  act'[a].prep # None
    <3>1. a \in Actions /\ act[a].st = "preparing" /\ act[a].prep # None
      BY <1>1, <1>4, <2>1, <2>3 DEF TurnsOK
    <3>2. ASSUME NEW p \in Actions, NEW q \in BOOLEAN, Admit(p, q) PROVE act'[a].prep # None
      BY <3>1, <3>2, AdmitKeepsShares
    <3>3. ~PumpIsPrepared
      BY <1>4 DEF PumpIsPrepared
    <3>4. ASSUME NEW A \in SUBSET Actions, Cancel(A) PROVE act'[a].prep # None
      <4> DEFINE s == Preparing
      <4>1. s \in Seq(Actions) /\ Range(s) = Range(admitted) \cap Having(act, {"preparing"})
        BY <1>1, OnlyKeeps DEF Preparing, TypeOK
      <4>2. a \in Range(s)
        BY <3>1, <4>1 DEF IInv, PromptOK, Having
      <4> HIDE DEF s
      <4>3. Last(s) \in Range(s)
        <5>1. Len(s) \in Nat /\ DOMAIN s = 1..Len(s) /\ Last(s) = s[Len(s)]
          BY <4>1 DEF Last
        <5>2. \E i \in 1..Len(s) : s[i] = a
          BY <4>2, <5>1 DEF Range
        <5>3. Len(s) \in 1..Len(s)
          BY <5>1, <5>2
        <5> QED
          BY <5>1, <5>3 DEF Range
      <4>4. Last(s) \in Range(pump.turns) /\ Last(s) \in Actions
        BY <1>1, <1>4, <4>1, <4>3 DEF TurnsOK, Having
      <4>5. Last(s) \notin A
        <5>1. Last(s) \in A => act'[Last(s)].st = "cancelled"
          BY <1>1, <3>4, <4>4, CancelKeeps
        <5> QED
          BY <2>3, <4>4, <5>1
      <4> QED
        BY <1>1, <3>1, <3>4, <4>5, CancelKeeps DEF s
    <3>5. GoOn \/ (\E s \in {"queued", "failed", "committing"} : AllLeave(s))
          => act'[a].prep # None
      BY <3>1 DEF GoOn, AllLeave, SamePrep
    <3> QED
      BY <1>1, <1>2, <3>2, <3>3, <3>4, <3>5, PromptSteps
  <2> QED
    BY <1>4, <2>2, <2>3
<1> QED
  BY <1>1, <1>2, <1>3, <1>4 DEF Goes, Preparation

\* Only a dispatch commits a prompt that is prepared.
LEMMA DispatchCommits ==
    ASSUME IInv, PreparingOK, [Next]_vars, NEW a \in Actions,
           act[a].st = "preparing", act'[a].st = "committing"
    PROVE  Dispatches
<1>1. TypeOK
  BY DEF IInv
<1>2. ASSUME NEW p \in Actions, NEW q \in BOOLEAN, Admit(p, q) PROVE FALSE
  <2>1. Moved(a, act[a].st) \/ Moved(a, "selected") \/ Moved(a, "queued")
    BY <1>1, <1>2, AdmitActs
  <2> QED
    BY <2>1 DEF Moved
<1>3. ~PumpSelects
  BY <1>1, SelectsActs DEF Moved
<1>4. ~PumpIsPrepared
  BY <1>1, PreparedActs DEF Moved
<1>5. ASSUME NEW A \in SUBSET Actions, Cancel(A) PROVE FALSE
  BY <1>1, <1>5, CancelKeeps
<1>6. ~GoOn /\ ~(\E s \in {"queued", "failed"} : AllLeave(s))
  BY DEF GoOn, AllLeave
<1> QED
  BY <1>2, <1>3, <1>4, <1>5, <1>6, PromptSteps

\* A dispatched batch has one preparation, made for its last prompt or for one behind it
\* that has been removed.
LEMMA DispatchIsPrepared ==
    ASSUME IInv, OrderInv, PreparationsOK, BatchOK, TurnsOK, Dispatches,
           NEW a \in Actions, act[a].st = "preparing", NEW b \in Actions, act[b].st = "preparing"
    PROVE  /\ act[a].prep = act[b].prep
           /\ act[act[a].prep].st = "cancelled" \/ act[a].prep = Last(pump.turns)
<1> DEFINE t == pump.turns
           l == Last(t)
           p == act[l].prep
<1>1. TypeOK /\ IsInjective(admitted) /\ admitted \in Seq(Actions)
  BY DEF IInv, SequencesOK, TypeOK
<1>2. pump.pc = "fence" /\ t = ActiveTurns
  BY DEF Dispatches, PumpDispatches
<1>3. /\ t \in Seq(Actions) /\ Range(t) \subseteq Range(pump.batch) /\ Range(t) \subseteq Actions
      /\ \A c \in Actions : c \in Range(t) <=> act[c].st = "preparing"
  BY <1>1, <1>2, TurnsAreOfTheBatch DEF OrderInv, PreparingOK, Having
<1>4. InLine(admitted, t)
  BY <1>1, <1>2, KeptInLine DEF ActiveTurns, OrderInv, LinesOK, TypeOK, PumpRecord
<1>5. \A c, d \in Range(t) : Delivery[c] = Delivery[d]
  BY <1>2, <1>3 DEF BatchOK, Preparation
<1>6. a \in Range(t) /\ b \in Range(t) /\ t # <<>>
  <2>1. a \in Range(t) /\ b \in Range(t)
    BY <1>3
  <2> QED
    BY <2>1 DEF Range
<1> HIDE DEF t
<1>7. l \in Range(t) /\ \A c \in Range(t) : NotBehind(admitted, c, l)
  BY <1>3, <1>4, <1>5, <1>6, LastOfTheLine
<1>8. \A c \in Range(t) : act[c].prep # None
  BY <1>2, <1>3 DEF TurnsOK, t
<1> HIDE DEF l
<1>9. l \in Actions /\ act[l].st = "preparing"
  BY <1>3, <1>7
<1>10. p \in Actions /\ Shares(l, p)
  <2>1. act[l].prep \in Actions \cup {None}
    BY <1>1, <1>9 DEF TypeOK, ActionRecord
  <2> QED
    BY <1>7, <1>8, <1>9, <2>1 DEF PreparationsOK
<1> HIDE DEF p
<1>11. ASSUME NEW c \in Range(t) PROVE act[c].prep = p
  <2>1. NotBehind(admitted, c, p)
    BY <1>1, <1>7, <1>10, BeforeChains DEF Shares
  <2>2. c \in Actions /\ act[c].st \in Clearable /\ Delivery[c] = Delivery[l]
    BY <1>3, <1>5, <1>7 DEF Clearable
  <2> QED
    BY <1>10, <2>1, <2>2 DEF Shares
<1>12. act[p].st = "cancelled" \/ p = l
  <2>1. CASE act[p].st = "preparing"
    <3>1. NotBehind(admitted, p, l) /\ NotBehind(admitted, l, p)
      BY <1>3, <1>7, <1>10, <2>1 DEF Shares
    <3> QED
      BY <1>1, <3>1, NotBoth DEF NotBehind
  <2> QED
    BY <1>9, <1>10, <2>1 DEF Shares
<1> QED
  BY <1>6, <1>11, <1>12 DEF l, t

\* A batch is dispatched with one preparation, made for its last prompt or for one behind it
\* that was removed, for any number of prompts, unless the pump overlooks one that is selected
\* at its admission (emitBeforeAgentStart, prepared, preselected).
THEOREM BatchesArePrepared == Spec /\ []NoneIsOverlooked => PreparedForTheLast
<1> DEFINE PrepInv == OrderInv /\ PreparationsOK /\ BatchOK /\ TurnsOK
<1>1. Init => PrepInv
  <2> SUFFICES ASSUME Init PROVE PrepInv
    OBVIOUS
  <2>1. OrderInv
    BY OrderBegins
  <2>2. pump.pc = "off" /\ \A a \in Actions : act[a].st = "new" /\ act[a].prep = None
    BY DEF Init, NoPump, NewAction
  <2>3. PreparationsOK /\ BatchOK /\ TurnsOK
    BY <2>2 DEF PreparationsOK, BatchOK, TurnsOK, Preparation
  <2> QED
    BY <2>1, <2>3
<1>2. IInv /\ PrepInv /\ NoneIsOverlooked /\ [Next]_vars => PrepInv'
  BY OrderStep, PreparationsStep, BatchStep, TurnsStep
<1>3. IInv /\ PrepInv /\ [Next]_vars
      => [\A a, b \in Actions :
             /\ act[a].st = "preparing" /\ act'[a].st = "committing"
             /\ act[b].st = "preparing" /\ act'[b].st = "committing"
             => /\ act[a].prep = act[b].prep
                /\ LET anchor == act[a].prep IN
                   act[anchor].st = "cancelled" \/ anchor = Last(pump.turns)]_vars
  BY DispatchCommits, DispatchIsPrepared DEF OrderInv
<1> HIDE DEF PrepInv
<1> QED
  BY <1>1, <1>2, <1>3, SessionInvariant, PTL DEF Spec, PreparedForTheLast

=============================================================================
