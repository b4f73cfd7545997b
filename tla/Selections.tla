------------------------------ MODULE Selections ------------------------------
(***************************************************************************)
(* The members of a sequence that are in a set, in their order: the array  *)
(* filters and the loops with a push of the code.  It is written with a    *)
(* recursive function, so that what it computes can be proved by induction *)
(* over the natural numbers, in the form TLAPS can use: a set of numbers   *)
(* that has 0 and the successor of each of its members has all.            *)
(***************************************************************************)
EXTENDS Integers, Sequences, SequenceTheorems, WellFoundedInduction, TLAPS

Members(q) == {q[i] : i \in 1 .. Len(q)}

Selected(s, T) ==
    LET kept[n \in 0 .. Len(s)] ==
            IF n = 0 THEN <<>>
            ELSE IF s[n] \in T THEN Append(kept[n - 1], s[n]) ELSE kept[n - 1]
    IN  kept[Len(s)]

-----------------------------------------------------------------------------
(* Every non-empty set of natural numbers has a least member.              *)
LEMMA LeastNatural ==
    ASSUME NEW S, S \subseteq Nat, S # {}
    PROVE  \E m \in S : \A k \in S : m <= k
<1> DEFINE R == {pair \in Nat \X Nat : pair[1] < pair[2]}
<1>1. IsWellFoundedOn(R, Nat)
  BY NatLessThanWellFounded DEF OpToRel
<1> HIDE DEF R
<1>2. PICK x \in S : \A y \in S : <<y, x>> \notin R
  BY <1>1, WFMin
<1>3. ASSUME NEW k \in S PROVE x <= k
  <2>1. <<k, x>> \notin R /\ k \in Nat /\ x \in Nat
    BY <1>2
  <2>2. ~(k < x)
    BY <2>1 DEF R
  <2> QED
    BY <2>1, <2>2
<1> QED
  BY <1>3

(* Induction, for a property given as the set of the numbers that have it. *)
THEOREM InductionOnSet ==
    ASSUME NEW S, S \subseteq Nat, 0 \in S, \A n \in S : n + 1 \in S
    PROVE  S = Nat
<1> SUFFICES ASSUME Nat \ S # {} PROVE FALSE
  OBVIOUS
<1>1. PICK m \in Nat \ S : \A k \in Nat \ S : m <= k
  BY LeastNatural
<1>2. m # 0 /\ m - 1 \in Nat /\ ~(m <= m - 1) /\ (m - 1) + 1 = m
  BY <1>1
<1>3. m - 1 \in S
  BY <1>1, <1>2
<1> QED
  BY <1>1, <1>2, <1>3

-----------------------------------------------------------------------------
(* Loops: a step repeated N times.                                         *)

Repeats(f, G, a, N) == \A n \in 0 .. N : f[n] = IF n = 0 THEN a ELSE G[f[n - 1]]

(* The recursive function that counts the repetitions exists.              *)
THEOREM RepetitionExists ==
    ASSUME NEW X, NEW G \in [X -> X], NEW a \in X, NEW N \in Nat
    PROVE  \E f \in [0 .. N -> X] : Repeats(f, G, a, N)
<1> DEFINE Is(f, k) == Repeats(f, G, a, k)
<1> DEFINE S == {k \in Nat : \E f \in [0 .. k -> X] : Is(f, k)}
<1>1. 0 \in S
  <2> DEFINE f == [n \in 0 .. 0 |-> a]
  <2>1. f \in [0 .. 0 -> X] /\ \A n \in 0 .. 0 : n = 0 /\ f[n] = a
    OBVIOUS
  <2>2. Is(f, 0)
    BY <2>1 DEF Repeats
  <2> HIDE DEF f, Is
  <2> QED
    BY <2>1, <2>2
<1>2. ASSUME NEW k \in S PROVE k + 1 \in S
  <2>0. k \in Nat /\ k + 1 \in Nat
    OBVIOUS
  <2>1. PICK f \in [0 .. k -> X] : Is(f, k)
    OBVIOUS
  <2> DEFINE g == [n \in 0 .. k + 1 |-> IF n = k + 1 THEN G[f[k]] ELSE f[n]]
  <2>2. G[f[k]] \in X
    BY <2>0
  <2>3. \A n \in 0 .. k + 1 : n \in 0 .. k \/ n = k + 1
    BY <2>0
  <2>4. g \in [0 .. k + 1 -> X]
    BY <2>2, <2>3
  <2>5. \A n \in 0 .. k : g[n] = f[n]
    BY <2>0
  <2>6. g[k + 1] = G[g[(k + 1) - 1]] /\ k + 1 # 0
    BY <2>0, <2>5
  <2>7. ASSUME NEW n \in 0 .. k PROVE g[n] = IF n = 0 THEN a ELSE G[g[n - 1]]
    <3>1. f[n] = IF n = 0 THEN a ELSE G[f[n - 1]]
      BY <2>1 DEF Repeats
    <3>2. n # 0 => n - 1 \in 0 .. k
      BY <2>0
    <3> HIDE DEF g
    <3> QED
      BY <3>1, <3>2, <2>5
  <2> HIDE DEF g
  <2>8. Is(g, k + 1)
    BY <2>3, <2>6, <2>7 DEF Repeats
  <2> HIDE DEF Is
  <2> QED
    BY <2>0, <2>4, <2>8
<1> HIDE DEF S
<1>3. S = Nat
  <2>1. S \subseteq Nat
    BY DEF S
  <2> QED
    BY <1>1, <1>2, <2>1, InductionOnSet
<1>4. N \in S
  BY <1>3
<1> QED
  BY <1>4 DEF S

(* What each repetition keeps holds after any number of them.              *)
THEOREM RepetitionStays ==
    ASSUME NEW X, NEW f, NEW N \in Nat, f[0] \in X,
           \A n \in 1 .. N : f[n - 1] \in X => f[n] \in X
    PROVE  \A n \in 0 .. N : f[n] \in X
<1> DEFINE S == {n \in Nat : n <= N => f[n] \in X}
<1>1. 0 \in S
  OBVIOUS
<1>2. ASSUME NEW n \in S PROVE n + 1 \in S
  <2> SUFFICES ASSUME n + 1 <= N PROVE f[n + 1] \in X
    OBVIOUS
  <2>1. n + 1 \in 1 .. N /\ (n + 1) - 1 = n /\ n <= N
    OBVIOUS
  <2> QED
    BY <2>1
<1> HIDE DEF S
<1>3. S = Nat
  <2>1. S \subseteq Nat
    BY DEF S
  <2> QED
    BY <1>1, <1>2, <2>1, InductionOnSet
<1> QED
  BY <1>3 DEF S

-----------------------------------------------------------------------------
KeptStep(s, T, before, n) == IF s[n] \in T THEN Append(before, s[n]) ELSE before

IsKept(f, s, T, k) ==
    \A n \in 0 .. k : f[n] = IF n = 0 THEN <<>> ELSE KeptStep(s, T, f[n - 1], n)

(* The function of the definition exists.                                  *)
LEMMA KeptExists ==
    ASSUME NEW X, NEW s \in Seq(X), NEW T
    PROVE  \E kept \in [0 .. Len(s) -> Seq(X)] : IsKept(kept, s, T, Len(s))
<1> DEFINE Is(f, k) == IsKept(f, s, T, k)
<1> DEFINE S == {k \in Nat : k <= Len(s) => \E f \in [0 .. k -> Seq(X)] : Is(f, k)}
<1>0. Len(s) \in Nat
  OBVIOUS
<1>1. 0 \in S
  <2> DEFINE f == [n \in 0 .. 0 |-> <<>>]
  <2>1. f \in [0 .. 0 -> Seq(X)] /\ \A n \in 0 .. 0 : n = 0 /\ f[n] = <<>>
    BY EmptySeq
  <2>2. Is(f, 0)
    BY <2>1 DEF IsKept
  <2> HIDE DEF f
  <2> QED
    BY <2>1, <2>2
<1>2. ASSUME NEW k \in S PROVE k + 1 \in S
  <2>0. k \in Nat /\ k + 1 \in Nat
    OBVIOUS
  <2> SUFFICES ASSUME k + 1 <= Len(s)
               PROVE  \E f \in [0 .. k + 1 -> Seq(X)] : Is(f, k + 1)
    BY <2>0
  <2>1. PICK f \in [0 .. k -> Seq(X)] : Is(f, k)
    BY <1>0, <2>0
  <2> DEFINE g == [n \in 0 .. k + 1 |-> IF n = k + 1 THEN KeptStep(s, T, f[k], k + 1) ELSE f[n]]
  <2>2. s[k + 1] \in X /\ f[k] \in Seq(X)
    BY <1>0, <2>0, ElementOfSeq
  <2>3. KeptStep(s, T, f[k], k + 1) \in Seq(X)
    BY <2>2, AppendProperties DEF KeptStep
  <2>4. \A n \in 0 .. k + 1 : n \in 0 .. k \/ n = k + 1
    BY <2>0
  <2>5. g \in [0 .. k + 1 -> Seq(X)]
    BY <2>3, <2>4
  <2>6. \A n \in 0 .. k : g[n] = f[n]
    BY <2>0
  <2>7. g[k + 1] = KeptStep(s, T, g[(k + 1) - 1], k + 1) /\ k + 1 # 0
    BY <2>0, <2>6
  <2>8. ASSUME NEW n \in 0 .. k PROVE g[n] = IF n = 0 THEN <<>> ELSE KeptStep(s, T, g[n - 1], n)
    <3>1. f[n] = IF n = 0 THEN <<>> ELSE KeptStep(s, T, f[n - 1], n)
      BY <2>1 DEF IsKept
    <3>2. n # 0 => n - 1 \in 0 .. k
      BY <2>0
    <3> HIDE DEF g
    <3> QED
      BY <3>1, <3>2, <2>6
  <2> HIDE DEF g
  <2>9. Is(g, k + 1)
    BY <2>4, <2>7, <2>8 DEF IsKept
  <2> QED
    BY <2>5, <2>9
<1> HIDE DEF S
<1>3. S = Nat
  <2>1. S \subseteq Nat
    BY DEF S
  <2> QED
    BY <1>1, <1>2, <2>1, InductionOnSet
<1>4. Len(s) \in S
  BY <1>0, <1>3
<1> QED
  BY <1>0, <1>4 DEF S

(* The definition is that of a function with its defining equations.       *)
LEMMA SelectedIsKept ==
    ASSUME NEW X, NEW s \in Seq(X), NEW T
    PROVE  \E kept \in [0 .. Len(s) -> Seq(X)] :
             IsKept(kept, s, T, Len(s)) /\ Selected(s, T) = kept[Len(s)]
<1> DEFINE Body(f) == [n \in 0 .. Len(s) |->
                         IF n = 0 THEN <<>>
                         ELSE IF s[n] \in T THEN Append(f[n - 1], s[n]) ELSE f[n - 1]]
<1> DEFINE kept == CHOOSE f : f = Body(f)
<1>0. Len(s) \in Nat
  OBVIOUS
<1>1. PICK f \in [0 .. Len(s) -> Seq(X)] : IsKept(f, s, T, Len(s))
  BY KeptExists
<1>2. f = Body(f)
  BY <1>1 DEF IsKept, KeptStep
<1>3. kept = Body(kept)
  BY <1>2
<1>4. Selected(s, T) = kept[Len(s)]
  BY DEF Selected
<1> HIDE DEF kept
<1>5. \A n \in 0 .. Len(s) : kept[n] = IF n = 0 THEN <<>> ELSE KeptStep(s, T, kept[n - 1], n)
  BY <1>3 DEF KeptStep
<1>6. DOMAIN kept = 0 .. Len(s)
  BY <1>3
<1> DEFINE S == {n \in Nat : n <= Len(s) => kept[n] \in Seq(X)}
<1>7. 0 \in S
  <2>1. kept[0] = <<>>
    BY <1>0, <1>5
  <2> QED
    BY <2>1, EmptySeq
<1>8. ASSUME NEW n \in S PROVE n + 1 \in S
  <2> SUFFICES ASSUME n + 1 <= Len(s) PROVE kept[n + 1] \in Seq(X)
    OBVIOUS
  <2>1. n \in Nat /\ n + 1 \in 1 .. Len(s) /\ (n + 1) - 1 = n /\ n + 1 # 0
    BY <1>0
  <2>2. kept[n] \in Seq(X) /\ s[n + 1] \in X
    BY <1>0, <2>1, ElementOfSeq
  <2>3. kept[n + 1] = KeptStep(s, T, kept[n], n + 1)
    BY <1>0, <1>5, <2>1
  <2> QED
    BY <2>2, <2>3, AppendProperties DEF KeptStep
<1> HIDE DEF S
<1>9. S = Nat
  <2>1. S \subseteq Nat
    BY DEF S
  <2> QED
    BY <1>7, <1>8, <2>1, InductionOnSet
<1>10. kept \in [0 .. Len(s) -> Seq(X)]
  <2>1. \A n \in 0 .. Len(s) : kept[n] \in Seq(X)
    BY <1>0, <1>9 DEF S
  <2>2. kept = [n \in 0 .. Len(s) |-> kept[n]]
    BY <1>3
  <2> QED
    BY <2>1, <2>2
<1>11. IsKept(kept, s, T, Len(s))
  BY <1>5 DEF IsKept
<1> QED
  BY <1>4, <1>10, <1>11

(* A selection holds the members that are in the set, once for each place  *)
(* they have in the sequence, in the order of those places.                *)
THEOREM SelectedProperties ==
    ASSUME NEW X, NEW s \in Seq(X), NEW T
    PROVE  /\ Selected(s, T) \in Seq(X)
           /\ Members(Selected(s, T)) = Members(s) \cap T
           /\ Len(Selected(s, T)) <= Len(s)
           /\ \E place \in [1 .. Len(Selected(s, T)) -> 1 .. Len(s)] :
                 /\ \A i, j \in 1 .. Len(Selected(s, T)) : i < j => place[i] < place[j]
                 /\ \A i \in 1 .. Len(Selected(s, T)) : Selected(s, T)[i] = s[place[i]]
<1>0. Len(s) \in Nat
  OBVIOUS
<1>9. PICK kept \in [0 .. Len(s) -> Seq(X)] :
          IsKept(kept, s, T, Len(s)) /\ Selected(s, T) = kept[Len(s)]
  BY SelectedIsKept
<1>1. /\ Selected(s, T) = kept[Len(s)]
      /\ kept[0] = <<>>
      /\ \A n \in 1 .. Len(s) : kept[n] = KeptStep(s, T, kept[n - 1], n)
  BY <1>0, <1>9 DEF IsKept
<1> DEFINE Placed(q, n) ==
      \E place \in [1 .. Len(q) -> 1 .. n] :
         /\ \A i, j \in 1 .. Len(q) : i < j => place[i] < place[j]
         /\ \A i \in 1 .. Len(q) : q[i] = s[place[i]]
<1> DEFINE Good(n) ==
      /\ Members(kept[n]) = {s[i] : i \in 1 .. n} \cap T
      /\ Len(kept[n]) <= n
      /\ Placed(kept[n], n)
<1> DEFINE S == {n \in Nat : n <= Len(s) => Good(n)}
<1>2. 0 \in S
  <2>1. kept[0] = <<>> /\ Len(kept[0]) = 0
    BY <1>1
  <2>2. Members(kept[0]) = {s[i] : i \in 1 .. 0} \cap T
    BY <2>1 DEF Members
  <2>3. Placed(kept[0], 0)
    <3> DEFINE place == [i \in 1 .. Len(kept[0]) |-> 0]
    <3>1. place \in [1 .. Len(kept[0]) -> 1 .. 0]
      BY <2>1
    <3> QED
      BY <2>1, <3>1
  <2> HIDE DEF Placed
  <2> QED
    BY <2>2, <2>3
<1>3. ASSUME NEW n \in S PROVE n + 1 \in S
  <2>0. n \in Nat /\ n + 1 \in Nat
    OBVIOUS
  <2> SUFFICES ASSUME n + 1 <= Len(s) PROVE Good(n + 1)
    BY <2>0
  <2> DEFINE q == kept[n]
  <2>1. q \in Seq(X) /\ Len(q) \in Nat /\ s[n + 1] \in X
    BY <1>0, <2>0, ElementOfSeq
  <2>2. kept[n + 1] = KeptStep(s, T, q, n + 1)
    BY <1>0, <1>1, <2>0
  <2>3. Good(n)
    <3>1. n <= Len(s)
      BY <1>0, <2>0
    <3> HIDE DEF Good
    <3> QED
      BY <3>1
  <2>4. {s[i] : i \in 1 .. n + 1} = {s[i] : i \in 1 .. n} \cup {s[n + 1]}
    <3>1. \A i \in 1 .. n + 1 : i \in 1 .. n \/ i = n + 1
      BY <2>0
    <3>2. n + 1 \in 1 .. n + 1 /\ \A i \in 1 .. n : i \in 1 .. n + 1
      BY <2>0
    <3> QED
      BY <3>1, <3>2
  <2>5. PICK place \in [1 .. Len(q) -> 1 .. n] :
            /\ \A i, j \in 1 .. Len(q) : i < j => place[i] < place[j]
            /\ \A i \in 1 .. Len(q) : q[i] = s[place[i]]
    BY <2>3
  <2>6. CASE s[n + 1] \notin T
    <3>1. kept[n + 1] = q
      BY <2>2, <2>6 DEF KeptStep
    <3>2. place \in [1 .. Len(q) -> 1 .. n + 1]
      BY <2>0
    <3>3. Placed(q, n + 1)
      BY <2>5, <3>2
    <3>4. Len(q) <= n + 1
      BY <2>0, <2>1, <2>3
    <3> HIDE DEF Placed
    <3> QED
      BY <2>3, <2>4, <2>6, <3>1, <3>3, <3>4
  <2>7. CASE s[n + 1] \in T
    <3> DEFINE r == Append(q, s[n + 1])
    <3>1. kept[n + 1] = r
      BY <2>2, <2>7 DEF KeptStep
    <3>2. /\ Len(r) = Len(q) + 1
          /\ \A i \in 1 .. Len(q) : r[i] = q[i]
          /\ r[Len(q) + 1] = s[n + 1]
      BY <2>1, AppendProperties
    <3> HIDE DEF r
    <3>3. \A i \in 1 .. Len(q) + 1 : i \in 1 .. Len(q) \/ i = Len(q) + 1
      BY <2>1
    <3>4. Members(r) = Members(q) \cup {s[n + 1]}
      <4>1. \A i \in 1 .. Len(q) : i \in 1 .. Len(q) + 1
        BY <2>1
      <4>2. Len(q) + 1 \in 1 .. Len(q) + 1
        BY <2>1
      <4>3. Members(r) \subseteq Members(q) \cup {s[n + 1]}
        BY <3>2, <3>3 DEF Members
      <4>4. Members(q) \subseteq Members(r)
        <5>1. ASSUME NEW i \in 1 .. Len(q) PROVE q[i] \in Members(r)
          <6>1. q[i] = r[i] /\ i \in 1 .. Len(r)
            BY <3>2, <4>1
          <6> QED
            BY <6>1 DEF Members
        <5> QED
          BY <5>1 DEF Members
      <4>5. s[n + 1] \in Members(r)
        BY <3>2, <4>2 DEF Members
      <4> QED
        BY <4>3, <4>4, <4>5
    <3>5. Members(r) = {s[i] : i \in 1 .. n + 1} \cap T
      BY <2>3, <2>4, <2>7, <3>4
    <3>6. Placed(r, n + 1)
      <4> DEFINE more == [i \in 1 .. Len(q) + 1 |-> IF i = Len(q) + 1 THEN n + 1 ELSE place[i]]
      <4>1. more \in [1 .. Len(r) -> 1 .. n + 1]
        BY <2>0, <2>1, <3>2, <3>3
      <4>2. \A i \in 1 .. Len(q) : more[i] = place[i] /\ more[i] \in 1 .. n
        <5>1. \A i \in 1 .. Len(q) : i \in 1 .. Len(q) + 1 /\ i # Len(q) + 1
          BY <2>1
        <5>2. \A i \in 1 .. Len(q) : place[i] \in 1 .. n
          BY <2>5
        <5> QED
          BY <5>1, <5>2
      <4>3. more[Len(q) + 1] = n + 1
        BY <2>1
      <4> HIDE DEF more
      <4>4. ASSUME NEW i \in 1 .. Len(r), NEW j \in 1 .. Len(r), i < j PROVE more[i] < more[j]
        <5>1. i \in 1 .. Len(q)
          BY <2>1, <3>2, <4>4
        <5>2. CASE j \in 1 .. Len(q)
          BY <2>5, <4>2, <4>4, <5>1, <5>2
        <5>3. CASE j = Len(q) + 1
          BY <2>0, <4>2, <4>3, <5>1, <5>3
        <5> QED
          BY <3>2, <3>3, <5>2, <5>3
      <4>5. \A i \in 1 .. Len(r) : r[i] = s[more[i]]
        BY <2>5, <3>2, <3>3, <4>2, <4>3
      <4> QED
        BY <4>1, <4>4, <4>5
    <3>7. Len(r) <= n + 1
      BY <2>0, <2>1, <2>3, <3>2
    <3> HIDE DEF Placed
    <3> QED
      BY <3>1, <3>5, <3>6, <3>7
  <2> QED
    BY <2>6, <2>7
<1> HIDE DEF S
<1>4. S = Nat
  <2>1. S \subseteq Nat
    BY DEF S
  <2> QED
    BY <1>2, <1>3, <2>1, InductionOnSet
<1>5. Good(Len(s))
  <2> HIDE DEF Good
  <2>1. Len(s) \in S /\ Len(s) <= Len(s)
    BY <1>0, <1>4
  <2> QED
    BY <2>1 DEF S
<1>6. Selected(s, T) \in Seq(X)
  BY <1>0, <1>1
<1> HIDE DEF Placed
<1>7. Members(Selected(s, T)) = Members(s) \cap T
  <2>1. Members(kept[Len(s)]) = {s[i] : i \in 1 .. Len(s)} \cap T
    BY <1>5
  <2> QED
    BY <1>1, <2>1 DEF Members
<1>8. Placed(Selected(s, T), Len(s)) /\ Len(Selected(s, T)) <= Len(s)
  BY <1>1, <1>5
<1> USE DEF Placed
<1> QED
  BY <1>6, <1>7, <1>8

-----------------------------------------------------------------------------
(* Members and repetitions.                                                *)

Injective(q) == \A i, j \in 1 .. Len(q) : q[i] = q[j] => i = j

(* The members of a sequence with one more at its end.                     *)
LEMMA MembersOfAppend ==
    ASSUME NEW S, NEW q \in Seq(S), NEW x \in S
    PROVE  Members(Append(q, x)) = Members(q) \cup {x}
<1>1. /\ Len(q) \in Nat /\ Len(Append(q, x)) = Len(q) + 1
      /\ \A i \in 1 .. Len(q) : Append(q, x)[i] = q[i]
      /\ Append(q, x)[Len(q) + 1] = x
  BY AppendProperties
<1> DEFINE r == Append(q, x)
<1> HIDE DEF r
<1>2. \A i \in 1 .. Len(q) + 1 : i \in 1 .. Len(q) \/ i = Len(q) + 1
  BY <1>1
<1>3. Members(r) \subseteq Members(q) \cup {x}
  BY <1>1, <1>2 DEF Members, r
<1>4. Members(q) \subseteq Members(r)
  <2>1. ASSUME NEW i \in 1 .. Len(q) PROVE q[i] \in Members(r)
    <3>1. q[i] = r[i] /\ i \in 1 .. Len(r)
      BY <1>1 DEF r
    <3> QED
      BY <3>1 DEF Members
  <2> QED
    BY <2>1 DEF Members
<1>5. x \in Members(r)
  <2>1. x = r[Len(q) + 1] /\ Len(q) + 1 \in 1 .. Len(r)
    BY <1>1 DEF r
  <2> QED
    BY <2>1 DEF Members
<1> QED
  BY <1>3, <1>4, <1>5 DEF r

(* The members of two sequences, one after the other.                      *)
LEMMA MembersOfConcat ==
    ASSUME NEW S, NEW p \in Seq(S), NEW q \in Seq(S)
    PROVE  Members(p \o q) = Members(p) \cup Members(q)
<1>1. /\ Len(p) \in Nat /\ Len(q) \in Nat /\ Len(p \o q) = Len(p) + Len(q)
      /\ \A i \in 1 .. Len(p) + Len(q) : (p \o q)[i] = IF i <= Len(p) THEN p[i] ELSE q[i - Len(p)]
  BY ConcatProperties
<1> DEFINE r == p \o q
<1> HIDE DEF r
<1>2. \A i \in 1 .. Len(r) : (i \in 1 .. Len(p) /\ r[i] = p[i])
                             \/ (i - Len(p) \in 1 .. Len(q) /\ r[i] = q[i - Len(p)])
  BY <1>1 DEF r
<1>3. Members(r) \subseteq Members(p) \cup Members(q)
  BY <1>2 DEF Members
<1>4. ASSUME NEW i \in 1 .. Len(p) PROVE p[i] \in Members(r)
  <2>1. p[i] = r[i] /\ i \in 1 .. Len(r)
    BY <1>1 DEF r
  <2> QED
    BY <2>1 DEF Members
<1>5. ASSUME NEW i \in 1 .. Len(q) PROVE q[i] \in Members(r)
  <2>1. q[i] = r[Len(p) + i] /\ Len(p) + i \in 1 .. Len(r)
    BY <1>1 DEF r
  <2> QED
    BY <2>1 DEF Members
<1>6. Members(p) \subseteq Members(r) /\ Members(q) \subseteq Members(r)
  BY <1>4, <1>5 DEF Members
<1> QED
  BY <1>3, <1>6 DEF r

(* Two sequences without repetition and without a common member.           *)
LEMMA InjectiveConcat ==
    ASSUME NEW S, NEW p \in Seq(S), NEW q \in Seq(S),
           Injective(p), Injective(q), Members(p) \cap Members(q) = {}
    PROVE  Injective(p \o q)
<1>1. /\ Len(p) \in Nat /\ Len(q) \in Nat /\ Len(p \o q) = Len(p) + Len(q)
      /\ \A i \in 1 .. Len(p) + Len(q) : (p \o q)[i] = IF i <= Len(p) THEN p[i] ELSE q[i - Len(p)]
  BY ConcatProperties
<1> SUFFICES ASSUME NEW i \in 1 .. Len(p) + Len(q), NEW j \in 1 .. Len(p) + Len(q),
                    (p \o q)[i] = (p \o q)[j]
             PROVE  i = j
  BY <1>1 DEF Injective
<1>2. ASSUME NEW k \in 1 .. Len(p) + Len(q)
      PROVE  \/ k <= Len(p) /\ k \in 1 .. Len(p) /\ (p \o q)[k] = p[k] /\ p[k] \in Members(p)
             \/ /\ ~(k <= Len(p)) /\ k - Len(p) \in 1 .. Len(q)
                /\ (p \o q)[k] = q[k - Len(p)] /\ q[k - Len(p)] \in Members(q)
  <2>1. k <= Len(p) => k \in 1 .. Len(p)
    BY <1>1
  <2>2. ~(k <= Len(p)) => k - Len(p) \in 1 .. Len(q)
    BY <1>1
  <2> QED
    BY <1>1, <2>1, <2>2 DEF Members
<1>3. CASE i <= Len(p) /\ j <= Len(p)
  BY <1>2, <1>3 DEF Injective
<1>4. CASE ~(i <= Len(p)) /\ ~(j <= Len(p))
  <2>1. q[i - Len(p)] = q[j - Len(p)] /\ i - Len(p) \in 1 .. Len(q) /\ j - Len(p) \in 1 .. Len(q)
    BY <1>2, <1>4
  <2>2. i - Len(p) = j - Len(p)
    BY <2>1 DEF Injective
  <2> QED
    BY <1>1, <2>2
<1>5. CASE (i <= Len(p)) # (j <= Len(p))
  BY <1>2, <1>5
<1> QED
  BY <1>3, <1>4, <1>5

(* A selection of a sequence without repetition has none.                  *)
LEMMA InjectiveSelected ==
    ASSUME NEW S, NEW q \in Seq(S), NEW T, Injective(q)
    PROVE  Injective(Selected(q, T))
<1> DEFINE r == Selected(q, T)
<1>1. PICK place \in [1 .. Len(r) -> 1 .. Len(q)] :
            /\ \A i, j \in 1 .. Len(r) : i < j => place[i] < place[j]
            /\ \A i \in 1 .. Len(r) : r[i] = q[place[i]]
  BY SelectedProperties
<1>2. Len(r) \in Nat /\ Len(q) \in Nat
  BY SelectedProperties
<1> HIDE DEF r
<1> SUFFICES ASSUME NEW i \in 1 .. Len(r), NEW j \in 1 .. Len(r), r[i] = r[j]
             PROVE  i = j
  BY DEF Injective, r
<1>3. place[i] = place[j] /\ place[i] \in Int /\ i \in Int /\ j \in Int
  BY <1>1, <1>2, SMTT(40) DEF Injective
<1>4. ~(i < j) /\ ~(j < i)
  BY <1>1, <1>3
<1> QED
  BY <1>3, <1>4

(* The members of a sequence are its head and those of its tail.           *)
LEMMA MembersOfTail ==
    ASSUME NEW S, NEW q \in Seq(S), q # <<>>
    PROVE  /\ Head(q) \in S /\ Tail(q) \in Seq(S)
           /\ Members(q) = {Head(q)} \cup Members(Tail(q))
<1>1. /\ Len(q) \in Nat \ {0} /\ Head(q) = q[1] /\ 1 \in 1 .. Len(q)
      /\ Tail(q) \in Seq(S) /\ Len(Tail(q)) = Len(q) - 1
      /\ \A i \in 1 .. Len(q) - 1 : Tail(q)[i] = q[i + 1]
  BY EmptySeq, HeadTailProperties
<1> DEFINE t == Tail(q)
<1> HIDE DEF t
<1>2. ASSUME NEW i \in 1 .. Len(q) PROVE q[i] \in {Head(q)} \cup Members(t)
  <2>1. CASE i = 1
    BY <1>1, <2>1
  <2>2. CASE i # 1
    <3>1. i - 1 \in 1 .. Len(t) /\ q[i] = t[i - 1]
      BY <1>1, <2>2 DEF t
    <3> QED
      BY <3>1 DEF Members
  <2> QED
    BY <2>1, <2>2
<1>3. ASSUME NEW i \in 1 .. Len(t) PROVE t[i] \in Members(q)
  <2>1. i + 1 \in 1 .. Len(q) /\ t[i] = q[i + 1]
    BY <1>1 DEF t
  <2> QED
    BY <2>1 DEF Members
<1>4. Members(q) \subseteq {Head(q)} \cup Members(t)
  BY <1>2 DEF Members
<1>5. Head(q) \in Members(q) /\ Members(t) \subseteq Members(q)
  BY <1>1, <1>3 DEF Members
<1>6. Head(q) \in S
  BY <1>1, ElementOfSeq
<1> QED
  BY <1>1, <1>4, <1>5, <1>6 DEF t

(* The empty sequence.                                                     *)
LEMMA MembersOfEmpty == Members(<<>>) = {} /\ Injective(<<>>)
BY DEF Members, Injective

(* Members belong to the set of the sequence.                              *)
LEMMA MembersInSet ==
    ASSUME NEW S, NEW q \in Seq(S)
    PROVE  Members(q) \subseteq S
BY ElementOfSeq DEF Members
=============================================================================
