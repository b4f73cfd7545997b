--------------------- MODULE CompilationAdmission_proofs ---------------------
(***************************************************************************)
(* Proofs about CompilationAdmission: its invariants hold for any set of   *)
(* requests, weights and abort signals, and for any device limits.  In the *)
(* second half, the linked list of AdmissionList implements it.            *)
(***************************************************************************)
EXTENDS AdmissionList, Selections, FiniteSetTheorems

(* The conjunction that is inductive.  The budget needs the counters to be *)
(* those of the compilations in flight, and both need every waiter to be   *)
(* in the list once, or a request could start twice.                       *)
IInv ==
    /\ TypeOK
    /\ QueueHoldsTheWaiting
    /\ CountersMatchInFlight
    /\ WithinBudget
    /\ HeadCannotStart

-----------------------------------------------------------------------------
(* Sums of weights.                                                        *)

(* A set of requests reserves finitely many bytes.                         *)
LEMMA ReservedFinite ==
    ASSUME TypeOK, NEW S \in SUBSET Requests
    PROVE  /\ IsFiniteSet(S)
           /\ IsFiniteSet(ReservedBytes(S))
           /\ Cardinality(S) \in Nat
           /\ WeightOf(S) \in Nat
<1>1. IsFiniteSet(S)
  BY FS_Subset, AdmissionAssumption DEF AdmissionAssumption
<1>2. \A r \in S : IsFiniteSet({r} \X (1 .. weight[r]))
  <2> TAKE r \in S
  <2>1. weight[r] \in Nat
    BY DEF TypeOK
  <2>2. IsFiniteSet(1 .. weight[r])
    BY <2>1, FS_Interval
  <2> QED
    BY <2>2, FS_Singleton, FS_Product
<1>3. IsFiniteSet(ReservedBytes(S))
  <2> DEFINE T == {{r} \X (1 .. weight[r]) : r \in S}
  <2> DEFINE f == [r \in S |-> {r} \X (1 .. weight[r])]
  <2>1. IsFiniteSet(T)
    <3>1. f \in Surjection(S, T)
      BY DEF Surjection
    <3> QED
      BY <1>1, <3>1, FS_Surjection DEF ExistsSurjection
  <2>2. \A x \in T : IsFiniteSet(x)
    BY <1>2
  <2> QED
    BY <2>1, <2>2, FS_UNION DEF ReservedBytes
<1> QED
  BY <1>1, <1>3, FS_CardinalityType DEF WeightOf

(* No request reserves nothing.                                            *)
LEMMA WeightOfNone == WeightOf({}) = 0 /\ Cardinality({}) = 0
<1>1. ReservedBytes({}) = {}
  BY DEF ReservedBytes
<1> QED
  BY <1>1, FS_EmptySet DEF WeightOf

(* One request reserves as many bytes as it weighs.                        *)
LEMMA WeightOfOne ==
    ASSUME TypeOK, NEW r \in Requests
    PROVE  WeightOf({r}) = weight[r]
<1>1. weight[r] \in Nat
  BY DEF TypeOK
<1>2. ReservedBytes({r}) = {r} \X (1 .. weight[r])
  BY DEF ReservedBytes
<1>3. IsFiniteSet(1 .. weight[r]) /\ Cardinality(1 .. weight[r]) = weight[r]
  BY <1>1, FS_Interval, SMTT(40)
<1>4. IsFiniteSet({r}) /\ Cardinality({r}) = 1
  BY FS_Singleton
<1>5. Cardinality({r} \X (1 .. weight[r])) =
        Cardinality({r}) * Cardinality(1 .. weight[r])
  BY <1>3, <1>4, FS_Product
<1>6. Cardinality({r} \X (1 .. weight[r])) = 1 * weight[r]
  BY <1>3, <1>4, <1>5
<1>7. WeightOf({r}) = 1 * weight[r]
  BY <1>2, <1>6 DEF WeightOf
<1> QED
  BY <1>1, <1>7

(* Disjoint sets of requests: sizes and weights add up.                    *)
LEMMA DisjointUnion ==
    ASSUME TypeOK, NEW S \in SUBSET Requests, NEW T \in SUBSET Requests, S \cap T = {}
    PROVE  /\ Cardinality(S \cup T) = Cardinality(S) + Cardinality(T)
           /\ WeightOf(S \cup T) = WeightOf(S) + WeightOf(T)
<1>1. /\ IsFiniteSet(S) /\ IsFiniteSet(T)
      /\ IsFiniteSet(ReservedBytes(S)) /\ IsFiniteSet(ReservedBytes(T))
      /\ Cardinality(S) \in Nat /\ Cardinality(T) \in Nat
      /\ WeightOf(S) \in Nat /\ WeightOf(T) \in Nat
  BY ReservedFinite
<1>2. ReservedBytes(S \cup T) = ReservedBytes(S) \cup ReservedBytes(T)
  BY DEF ReservedBytes
<1>3. ReservedBytes(S) \cap ReservedBytes(T) = {}
  BY DEF ReservedBytes
<1>4. Cardinality(ReservedBytes(S) \cup ReservedBytes(T)) =
        Cardinality(ReservedBytes(S)) + Cardinality(ReservedBytes(T)) - Cardinality({})
  BY <1>1, <1>3, FS_Union
<1>5. Cardinality(S \cup T) = Cardinality(S) + Cardinality(T) - Cardinality({})
  BY <1>1, FS_Union
<1>6. Cardinality({}) = 0
  BY FS_EmptySet
<1>7. Cardinality(S \cup T) = Cardinality(S) + Cardinality(T)
  BY <1>1, <1>5, <1>6
<1>8. WeightOf(S \cup T) = WeightOf(S) + WeightOf(T)
  <2>1. /\ WeightOf(S) = Cardinality(ReservedBytes(S))
        /\ WeightOf(T) = Cardinality(ReservedBytes(T))
    BY DEF WeightOf
  <2>2. WeightOf(S \cup T) = Cardinality(ReservedBytes(S) \cup ReservedBytes(T))
    BY <1>2 DEF WeightOf
  <2> QED
    BY <1>1, <1>4, <1>6, <2>1, <2>2
<1> QED
  BY <1>7, <1>8

(* A charge that is added to what is ahead and then to the rest.           *)
LEMMA SumsAssociate ==
    ASSUME NEW a \in Nat, NEW b \in Nat, NEW c \in Nat
    PROVE  a + (b + c) = a + b + c
  OBVIOUS

(* When a request may start, the counters are within the budget before and *)
(* after it does.                                                          *)
LEMMA RoomBeforeAndAfter ==
    ASSUME NEW count \in Nat, NEW bytes \in Nat, NEW own \in Nat,
           CanStartCompilation(count, bytes, own)
    PROVE  /\ count <= MaximumBatchSize /\ count + 1 <= MaximumBatchSize
           /\ count <= 1 \/ bytes <= MaximumConcurrentWeight
           /\ count + 1 <= 1 \/ bytes + own <= MaximumConcurrentWeight
  BY AdmissionAssumption DEF CanStartCompilation, AdmissionAssumption

(* A prefix grows by one element at a time.                                *)
LEMMA PrefixExtends ==
    ASSUME NEW q, NEW k \in Nat \ {0}
    PROVE  Prefix(q, k) = Prefix(q, k - 1) \cup {q[k]}
<1>1. 1 .. k = (1 .. (k - 1)) \cup {k}
  OBVIOUS
<1> QED
  BY <1>1 DEF Prefix

-----------------------------------------------------------------------------
(* The loop that starts waiters keeps the invariant, whichever handler     *)
(* calls it: from a list of exactly the queued requests and counters that  *)
(* match what is in flight, it ends in a state of the invariant.           *)
LEMMA StartQueuedKeepsIInv ==
    ASSUME TypeOK,
           UNCHANGED <<weight, signal, aborted>>,
           NEW q \in Seq(Requests),
           NEW count \in Nat, NEW bytes \in Nat,
           NEW states \in [Requests -> RequestStates],
           NEW heard \in SUBSET Requests,
           \A i, j \in 1 .. Len(q) : q[i] = q[j] => i = j,
           \A r \in Requests : states[r] = "queued" <=> \E i \in 1 .. Len(q) : q[i] = r,
           \A r \in heard : states[r] = "queued",
           count = Cardinality({r \in Requests : states[r] = "active"}),
           bytes = WeightOf({r \in Requests : states[r] = "active"}),
           count <= MaximumBatchSize,
           count <= 1 \/ bytes <= MaximumConcurrentWeight,
           StartQueuedCompilations(q, count, bytes, states, heard)
    PROVE  IInv'
<1> DEFINE gone(k) == Prefix(q, k)
           started(k) == Live(gone(k))
           A == {r \in Requests : states[r] = "active"}
<1>1. PICK k \in 0 .. Len(q) :
        /\ \A i \in 1 .. k : StartableAt(q, i, count, bytes)
        /\ k < Len(q) => ~StartableAt(q, k + 1, count, bytes)
        /\ queue' = SubSeq(q, k + 1, Len(q))
        /\ activeCount' = count + Cardinality(started(k))
        /\ activeWeight' = bytes + WeightOf(started(k))
        /\ listening' = heard \ gone(k)
        /\ state' = [r \in Requests |-> IF r \in started(k) THEN "active"
                                        ELSE IF r \in gone(k) THEN "cancelled"
                                        ELSE states[r]]
  BY DEF StartQueuedCompilations
<1>2. /\ \A n \in 0 .. Len(q) : gone(n) \subseteq Requests /\ started(n) \subseteq Requests
      /\ \A n \in 0 .. Len(q) : started(n) \subseteq gone(n)
      /\ A \subseteq Requests
  BY DEF Prefix, Live
<1>3. \A n \in 0 .. Len(q) : \A r \in gone(n) : states[r] = "queued"
  BY <1>2 DEF Prefix
<1>4. \A n \in 0 .. Len(q) : A \cap started(n) = {}
  BY <1>2, <1>3
<1>5. \A n \in 0 .. Len(q) : Cardinality(started(n)) \in Nat /\ WeightOf(started(n)) \in Nat
  BY <1>2, ReservedFinite
<1>6. /\ queue' \in Seq(Requests)
      /\ Len(queue') = Len(q) - k
      /\ \A i \in 1 .. Len(q) - k : queue'[i] = q[k + i]
  <2>1. \A i \in k + 1 .. Len(q) : q[i] \in Requests
    OBVIOUS
  <2> QED
    BY <1>1, <2>1, SubSeqProperties
<1>7. TypeOK'
  <2>1. state' \in [Requests -> RequestStates]
    BY <1>1 DEF RequestStates
  <2>2. activeCount' \in Nat /\ activeWeight' \in Nat
    BY <1>1, <1>5
  <2>3. listening' \subseteq Requests
    BY <1>1
  <2> QED
    BY <1>6, <2>1, <2>2, <2>3 DEF TypeOK
<1>8. QueueHoldsTheWaiting'
  <2>1. \A i, j \in 1 .. Len(queue') : queue'[i] = queue'[j] => i = j
    BY <1>6
  <2>2. \A r \in Requests : state'[r] = "queued" <=> \E i \in 1 .. Len(queue') : queue'[i] = r
    <3> TAKE r \in Requests
    <3>1. ASSUME state'[r] = "queued" PROVE \E i \in 1 .. Len(queue') : queue'[i] = r
      <4>1. r \notin gone(k) /\ states[r] = "queued"
        BY <1>1, <1>2, <3>1
      <4>2. PICK i \in 1 .. Len(q) : q[i] = r
        BY <4>1
      <4>3. i > k
        BY <4>1, <4>2 DEF Prefix
      <4>4. i - k \in 1 .. Len(queue') /\ queue'[i - k] = r
        BY <1>6, <4>2, <4>3
      <4> QED
        BY <4>4
    <3>2. ASSUME NEW i \in 1 .. Len(queue'), queue'[i] = r PROVE state'[r] = "queued"
      <4>1. k + i \in 1 .. Len(q) /\ q[k + i] = r
        BY <1>6, <3>2
      <4>2. states[r] = "queued"
        BY <4>1
      <4>3. r \notin gone(k)
        BY <4>1 DEF Prefix
      <4> QED
        BY <1>1, <1>2, <4>2, <4>3
    <3> QED
      BY <3>1, <3>2
  <2>3. \A r \in listening' : state'[r] = "queued"
    BY <1>1, <1>2
  <2> QED
    BY <2>1, <2>2, <2>3 DEF QueueHoldsTheWaiting
<1>9. Active' = A \cup started(k)
  BY <1>1, <1>2, <1>3 DEF Active
<1>10. CountersMatchInFlight'
  <2>1. /\ Cardinality(A \cup started(k)) = Cardinality(A) + Cardinality(started(k))
        /\ WeightOf(A \cup started(k)) = WeightOf(A) + WeightOf(started(k))
    BY <1>2, <1>4, DisjointUnion
  <2>2. activeCount' = Cardinality(Active')
    BY <1>1, <1>9, <2>1
  <2>3. WeightOf(Active)' = WeightOf(A \cup started(k))
    BY <1>9 DEF WeightOf, ReservedBytes
  <2> QED
    BY <1>1, <2>1, <2>2, <2>3 DEF CountersMatchInFlight
<1>11. WithinBudget'
  <2>1. CASE k = 0
    <3>1. started(k) = {}
      BY <2>1 DEF Prefix, Live
    <3>2. Cardinality(started(k)) = 0 /\ WeightOf(started(k)) = 0
      BY <3>1, WeightOfNone
    <3>3. activeCount' = count /\ activeWeight' = bytes
      BY <1>1, <3>2
    <3> QED
      BY <3>3 DEF WithinBudget
  <2>2. CASE k > 0
    <3> DEFINE r == q[k]
               ahead == started(k - 1)
    <3>1. k \in 1 .. Len(q) /\ k - 1 \in 0 .. Len(q) /\ r \in Requests
      BY <2>2
    <3>2. /\ Cardinality(ahead) \in Nat /\ WeightOf(ahead) \in Nat
          /\ ahead \subseteq Requests /\ weight[r] \in Nat
      BY <1>2, <1>5, <3>1 DEF TypeOK
    <3>3. StartableAt(q, k, count, bytes)
      BY <1>1, <3>1
    <3>4. CanStartCompilation(count + Cardinality(ahead), bytes + WeightOf(ahead), weight[r])
      BY <3>3 DEF StartableAt
    <3>5. gone(k) = gone(k - 1) \cup {r} /\ r \notin gone(k - 1)
      <4>1. r \notin gone(k - 1)
        BY <3>1 DEF Prefix
      <4>2. k \in Nat \ {0}
        BY <3>1
      <4> QED
        BY <4>1, <4>2, PrefixExtends
    <3>6. started(k) = ahead \/ (started(k) = ahead \cup {r} /\ ahead \cap {r} = {})
      BY <3>5, <1>2, <3>1 DEF Live
    <3>7. \/ activeCount' = count + Cardinality(ahead)
             /\ activeWeight' = bytes + WeightOf(ahead)
          \/ activeCount' = count + Cardinality(ahead) + 1
             /\ activeWeight' = bytes + WeightOf(ahead) + weight[r]
      <4>0. /\ activeCount' = count + Cardinality(started(k))
            /\ activeWeight' = bytes + WeightOf(started(k))
        BY <1>1
      <4>1. CASE started(k) = ahead
        BY <4>0, <4>1
      <4>2. CASE started(k) = ahead \cup {r} /\ ahead \cap {r} = {}
        <5>0. ahead \in SUBSET Requests /\ {r} \in SUBSET Requests
          BY <3>1, <3>2
        <5>1. /\ Cardinality(ahead \cup {r}) = Cardinality(ahead) + Cardinality({r})
              /\ WeightOf(ahead \cup {r}) = WeightOf(ahead) + WeightOf({r})
          BY <5>0, <4>2, DisjointUnion
        <5>2. Cardinality({r}) = 1 /\ WeightOf({r}) = weight[r]
          BY <3>1, WeightOfOne, FS_Singleton
        <5>3. Cardinality(started(k)) = Cardinality(ahead) + 1
          BY <4>2, <5>1, <5>2
        <5>4. WeightOf(started(k)) = WeightOf(ahead) + weight[r]
          BY <4>2, <5>1, <5>2
        <5>5. count + (Cardinality(ahead) + 1) = count + Cardinality(ahead) + 1
          BY <3>2, SumsAssociate
        <5>6. bytes + (WeightOf(ahead) + weight[r]) = bytes + WeightOf(ahead) + weight[r]
          BY <3>2, SumsAssociate
        <5> QED
          BY <4>0, <5>3, <5>4, <5>5, <5>6
      <4> QED
        BY <3>6, <4>1, <4>2
    <3> DEFINE c == count + Cardinality(ahead)
               b == bytes + WeightOf(ahead)
    <3>8. c \in Nat /\ b \in Nat
      BY <3>2
    <3>9. CanStartCompilation(c, b, weight[r]) /\ weight[r] \in Nat
      BY <3>2, <3>4
    <3>10. /\ c <= MaximumBatchSize /\ c + 1 <= MaximumBatchSize
           /\ c <= 1 \/ b <= MaximumConcurrentWeight
           /\ c + 1 <= 1 \/ b + weight[r] <= MaximumConcurrentWeight
      <4> HIDE DEF c, b, r
      <4> QED
        BY <3>8, <3>9, RoomBeforeAndAfter
    <3>11. \/ activeCount' = c /\ activeWeight' = b
           \/ activeCount' = c + 1 /\ activeWeight' = b + weight[r]
      BY <3>7
    <3> HIDE DEF c, b, r
    <3> QED
      BY <3>10, <3>11 DEF WithinBudget
  <2> QED
    BY <2>1, <2>2
<1>12. HeadCannotStart'
  <2> SUFFICES ASSUME queue' # <<>>
               PROVE  ~CanStartCompilation(activeCount', activeWeight', weight'[Head(queue')])
    BY DEF HeadCannotStart, CanStartCompilation
  <2>1. Len(queue') > 0 /\ Head(queue') = queue'[1]
    BY <1>6
  <2>2. k < Len(q) /\ queue'[1] = q[k + 1]
    <3>1. Len(queue') = Len(q) - k /\ Len(q) \in Nat /\ k \in Nat
      BY <1>6
    <3>2. 1 \in 1 .. Len(q) - k
      BY <2>1, <3>1
    <3> QED
      BY <1>6, <3>1, <3>2
  <2>3. ~StartableAt(q, k + 1, count, bytes)
    BY <1>1, <2>2
  <2>4. (k + 1) - 1 = k
    OBVIOUS
  <2> QED
    BY <1>1, <2>1, <2>2, <2>3, <2>4 DEF StartableAt
<1> QED
  BY <1>7, <1>8, <1>10, <1>11, <1>12 DEF IInv

-----------------------------------------------------------------------------
(* The invariant holds initially: nothing waits and nothing is in flight.  *)
LEMMA InitIInv == Init => IInv
<1> SUFFICES ASSUME Init PROVE IInv
  OBVIOUS
<1>1. TypeOK
  BY DEF Init, TypeOK, RequestStates
<1>2. Active = {}
  BY DEF Init, Active
<1>3. WeightOf(Active) = 0 /\ Cardinality(Active) = 0
  BY <1>2, WeightOfNone
<1>4. QueueHoldsTheWaiting
  BY DEF Init, QueueHoldsTheWaiting
<1>5. CountersMatchInFlight
  BY <1>3 DEF Init, CountersMatchInFlight
<1>6. WithinBudget
  BY AdmissionAssumption DEF Init, WithinBudget, AdmissionAssumption
<1>7. HeadCannotStart
  BY DEF Init, HeadCannotStart
<1> QED
  BY <1>1, <1>4, <1>5, <1>6, <1>7 DEF IInv

(* What a request is charged is a positive number of bytes.                *)
LEMMA AdmissionWeightType ==
    ASSUME NEW e \in Estimates
    PROVE  AdmissionWeight(e) \in Nat
<1>1. e \in Nat /\ MaximumConcurrentWeight \div MaximumBatchSize \in Int
  BY AdmissionAssumption DEF AdmissionAssumption
<1> QED
  BY <1>1 DEF AdmissionWeight, MinimumAdmissionWeight

(* A request that starts as it is admitted adds itself and its weight.     *)
LEMMA StartIdle ==
    ASSUME TypeOK, NEW r \in Requests, state[r] = "idle", NEW w \in Nat,
           weight' = [weight EXCEPT ![r] = w],
           state' = [state EXCEPT ![r] = "active"]
    PROVE  /\ Cardinality(Active') = Cardinality(Active) + 1
           /\ WeightOf(Active)' = WeightOf(Active) + w
<1> DEFINE own == {r} \X (1 .. w)
<1>1. Active \in SUBSET Requests /\ r \notin Active /\ Active' = Active \cup {r}
  BY DEF Active, TypeOK
<1>2. /\ IsFiniteSet(Active) /\ IsFiniteSet(ReservedBytes(Active))
      /\ Cardinality(Active) \in Nat /\ WeightOf(Active) \in Nat
  BY <1>1, ReservedFinite
<1>3. Cardinality(Active') = Cardinality(Active) + 1
  BY <1>1, <1>2, FS_AddElement
<1>4. ReservedBytes(Active)' = ReservedBytes(Active) \cup own
  <2>1. \A x \in Active : weight'[x] = weight[x]
    BY <1>1 DEF TypeOK
  <2>2. weight'[r] = w
    BY DEF TypeOK
  <2>3. ReservedBytes(Active)' = UNION {{x} \X (1 .. weight'[x]) : x \in Active \cup {r}}
    BY <1>1 DEF ReservedBytes
  <2> QED
    BY <2>1, <2>2, <2>3 DEF ReservedBytes
<1>5. ReservedBytes(Active) \cap own = {}
  BY <1>1 DEF ReservedBytes
<1>6. IsFiniteSet(own) /\ Cardinality(own) = w
  <2>1. IsFiniteSet(1 .. w) /\ Cardinality(1 .. w) = w
    BY FS_Interval
  <2>2. IsFiniteSet({r}) /\ Cardinality({r}) = 1
    BY FS_Singleton
  <2>3. IsFiniteSet(own) /\ Cardinality(own) = 1 * w
    BY <2>1, <2>2, FS_Product
  <2> QED
    BY <2>1, <2>3
<1>7. Cardinality(ReservedBytes(Active) \cup own) =
        Cardinality(ReservedBytes(Active)) + Cardinality(own) - Cardinality({})
  BY <1>2, <1>5, <1>6, FS_Union
<1>8. WeightOf(Active)' = Cardinality(ReservedBytes(Active) \cup own)
  BY <1>4 DEF WeightOf
<1>9. WeightOf(Active) = Cardinality(ReservedBytes(Active)) /\ Cardinality({}) = 0
  BY FS_EmptySet DEF WeightOf
<1>10. WeightOf(Active)' = WeightOf(Active) + w
  BY <1>2, <1>6, <1>7, <1>8, <1>9
<1> QED
  BY <1>3, <1>10

(* Weighing a request that does not start changes no sum in flight.        *)
LEMMA WeighInactive ==
    ASSUME TypeOK, NEW r \in Requests, state[r] = "idle", NEW w \in Nat,
           weight' = [weight EXCEPT ![r] = w],
           NEW waiting \in {"queued", "cancelled"},
           state' = [state EXCEPT ![r] = waiting]
    PROVE  Active' = Active /\ WeightOf(Active)' = WeightOf(Active)
<1>1. Active' = Active /\ r \notin Active /\ Active \subseteq Requests
  BY DEF Active, TypeOK
<1>2. \A x \in Active : weight'[x] = weight[x]
  BY <1>1 DEF TypeOK
<1>3. ReservedBytes(Active)' = ReservedBytes(Active)
  BY <1>1, <1>2 DEF ReservedBytes
<1> QED
  BY <1>1, <1>3 DEF WeightOf

(* A compilation that leaves takes exactly itself and its weight away.     *)
LEMMA LeaveActive ==
    ASSUME TypeOK, NEW r \in Active
    PROVE  /\ Active \ {r} \in SUBSET Requests
           /\ Cardinality(Active \ {r}) = Cardinality(Active) - 1
           /\ WeightOf(Active \ {r}) = WeightOf(Active) - weight[r]
<1>1. r \in Requests /\ Active \ {r} \in SUBSET Requests /\ {r} \in SUBSET Requests
  BY DEF Active
<1>2. Active = (Active \ {r}) \cup {r} /\ (Active \ {r}) \cap {r} = {}
  OBVIOUS
<1>3. /\ Cardinality(Active) = Cardinality(Active \ {r}) + Cardinality({r})
      /\ WeightOf(Active) = WeightOf(Active \ {r}) + WeightOf({r})
  BY <1>1, <1>2, DisjointUnion
<1>4. Cardinality({r}) = 1 /\ WeightOf({r}) = weight[r]
  BY <1>1, WeightOfOne, FS_Singleton
<1>5. Cardinality(Active \ {r}) \in Nat /\ WeightOf(Active \ {r}) \in Nat /\ weight[r] \in Nat
  BY <1>1, ReservedFinite DEF TypeOK
<1> QED
  BY <1>1, <1>3, <1>4, <1>5

(* Taking the i-th waiter out of a list: a list of one waiter less, the    *)
(* others in their order.                                                  *)
LEMMA WithoutProperties ==
    ASSUME NEW q \in Seq(Requests), NEW i \in 1 .. Len(q)
    PROVE  /\ Without(q, i) \in Seq(Requests)
           /\ Len(Without(q, i)) = Len(q) - 1
           /\ \A j \in 1 .. Len(q) - 1 :
                 Without(q, i)[j] = IF j < i THEN q[j] ELSE q[j + 1]
<1> DEFINE front == SubSeq(q, 1, i - 1)
           back == SubSeq(q, i + 1, Len(q))
<1>1. /\ front \in Seq(Requests) /\ Len(front) = i - 1
      /\ \A j \in 1 .. i - 1 : front[j] = q[j]
  <2>1. \A j \in 1 .. i - 1 : q[j] \in Requests
    OBVIOUS
  <2> QED
    BY <2>1, SubSeqProperties
<1>2. /\ back \in Seq(Requests) /\ Len(back) = Len(q) - i
      /\ \A j \in 1 .. Len(q) - i : back[j] = q[i + j]
  <2>1. \A j \in i + 1 .. Len(q) : q[j] \in Requests
    OBVIOUS
  <2> QED
    BY <2>1, SubSeqProperties
<1>3. Without(q, i) = front \o back
  BY DEF Without
<1> HIDE DEF front, back
<1>4. front \in Seq(Requests) /\ back \in Seq(Requests)
  BY <1>1, <1>2
<1>5. /\ front \o back \in Seq(Requests)
      /\ Len(front \o back) = Len(front) + Len(back)
      /\ \A j \in 1 .. Len(front) + Len(back) :
            (front \o back)[j] = IF j <= Len(front) THEN front[j] ELSE back[j - Len(front)]
  BY <1>4, ConcatProperties
<1>6. Len(front) = i - 1 /\ Len(back) = Len(q) - i
  BY <1>1, <1>2
<1>7. \A j \in 1 .. Len(q) - 1 : (front \o back)[j] = IF j < i THEN q[j] ELSE q[j + 1]
  <2> TAKE j \in 1 .. Len(q) - 1
  <2>1. CASE j < i
    BY <1>1, <1>5, <1>6, <2>1
  <2>2. CASE j >= i
    <3>0. i \in Int /\ Len(q) \in Nat
      OBVIOUS
    <3>1. j - (i - 1) \in 1 .. Len(q) - i /\ i + (j - (i - 1)) = j + 1
      BY <2>2, <3>0
    <3>2. (front \o back)[j] = back[j - (i - 1)]
      BY <1>5, <1>6, <2>2, <3>0
    <3>3. back[j - (i - 1)] = q[j + 1]
      BY <1>2, <3>1
    <3> QED
      BY <2>2, <3>2, <3>3, <3>0
  <2>3. j < i \/ j >= i
    OBVIOUS
  <2> QED
    BY <2>1, <2>2, <2>3
<1> QED
  BY <1>3, <1>5, <1>6, <1>7

(* Every step keeps the invariant.                                         *)
LEMMA NextIInv == IInv /\ [Next]_vars => IInv'
<1> SUFFICES ASSUME IInv, [Next]_vars PROVE IInv'
  OBVIOUS
<1> USE DEF IInv
<1>1. ASSUME NEW r \in Requests, NEW e \in Estimates, NEW s \in Signals \cup {NoSignal},
             AdmitNow(r, e, s)
      PROVE  IInv'
  <2> DEFINE w == AdmissionWeight(e)
  <2>1. w \in Nat
    BY AdmissionWeightType
  <2> HIDE DEF w
  <2>2. /\ state[r] = "idle" /\ queue = <<>> /\ UNCHANGED <<listening, aborted, queue>>
        /\ weight' = [weight EXCEPT ![r] = w] /\ signal' = [signal EXCEPT ![r] = s]
        /\ CanStartCompilation(activeCount, activeWeight, w)
        /\ \/ /\ state' = [state EXCEPT ![r] = "cancelled"]
              /\ UNCHANGED <<activeCount, activeWeight>>
           \/ /\ state' = [state EXCEPT ![r] = "active"]
              /\ activeCount' = activeCount + 1
              /\ activeWeight' = activeWeight + w
    BY <1>1 DEF AdmitNow, w
  <2>3. TypeOK'
    BY <2>1, <2>2 DEF TypeOK, RequestStates
  <2>4. QueueHoldsTheWaiting'
    BY <2>2 DEF QueueHoldsTheWaiting, TypeOK
  <2>5. HeadCannotStart'
    BY <2>2 DEF HeadCannotStart
  <2>6. CountersMatchInFlight' /\ WithinBudget'
    <3>1. CASE state' = [state EXCEPT ![r] = "cancelled"] /\ UNCHANGED <<activeCount, activeWeight>>
      <4>1. Active' = Active /\ WeightOf(Active)' = WeightOf(Active)
        BY <2>1, <2>2, <3>1, WeighInactive
      <4> QED
        BY <3>1, <4>1 DEF CountersMatchInFlight, WithinBudget
    <3>2. CASE /\ state' = [state EXCEPT ![r] = "active"]
               /\ activeCount' = activeCount + 1
               /\ activeWeight' = activeWeight + w
      <4>1. /\ Cardinality(Active') = Cardinality(Active) + 1
            /\ WeightOf(Active)' = WeightOf(Active) + w
        BY <2>1, <2>2, <3>2, StartIdle
      <4>2. CountersMatchInFlight'
        BY <3>2, <4>1 DEF CountersMatchInFlight
      <4>3. WithinBudget'
        BY <2>1, <2>2, <3>2, AdmissionAssumption
           DEF CanStartCompilation, WithinBudget, TypeOK, AdmissionAssumption
      <4> QED
        BY <4>2, <4>3
    <3> QED
      BY <2>2, <3>1, <3>2
  <2> QED
    BY <2>3, <2>4, <2>5, <2>6
<1>2. ASSUME NEW r \in Requests, NEW e \in Estimates, NEW s \in Signals \cup {NoSignal},
             AdmitLater(r, e, s)
      PROVE  IInv'
  <2> DEFINE w == AdmissionWeight(e)
  <2>1. w \in Nat
    BY AdmissionWeightType
  <2> HIDE DEF w
  <2>2. /\ state[r] = "idle" /\ UNCHANGED <<aborted, activeCount, activeWeight>>
        /\ weight' = [weight EXCEPT ![r] = w] /\ signal' = [signal EXCEPT ![r] = s]
        /\ state' = [state EXCEPT ![r] = "queued"]
        /\ queue' = Append(queue, r)
        /\ listening' = listening \/ listening' = listening \cup {r}
        /\ queue # <<>> \/ ~CanStartCompilation(activeCount, activeWeight, w)
    BY <1>2 DEF AdmitLater, w
  <2>3. /\ queue' \in Seq(Requests) /\ Len(queue') = Len(queue) + 1
        /\ \A i \in 1 .. Len(queue) : queue'[i] = queue[i]
        /\ queue'[Len(queue) + 1] = r
    BY <2>2 DEF TypeOK
  <2>4. TypeOK'
    BY <2>1, <2>2, <2>3 DEF TypeOK, RequestStates
  <2>5. QueueHoldsTheWaiting'
    <3>0. Len(queue) \in Nat
      BY DEF TypeOK
    <3>1. \A i \in 1 .. Len(queue) : queue[i] # r
      BY <2>2 DEF QueueHoldsTheWaiting
    <3>2. \A i, j \in 1 .. Len(queue') : queue'[i] = queue'[j] => i = j
      <4> TAKE i, j \in 1 .. Len(queue')
      <4> HAVE queue'[i] = queue'[j]
      <4>1. i \in 1 .. Len(queue) \/ i = Len(queue) + 1
        BY <2>3, <3>0
      <4>2. j \in 1 .. Len(queue) \/ j = Len(queue) + 1
        BY <2>3, <3>0
      <4>3. CASE i \in 1 .. Len(queue) /\ j \in 1 .. Len(queue)
        BY <2>3, <4>3 DEF QueueHoldsTheWaiting
      <4>4. CASE i = Len(queue) + 1 \/ j = Len(queue) + 1
        BY <2>3, <3>1, <4>1, <4>2, <4>4
      <4> QED
        BY <4>1, <4>2, <4>3, <4>4
    <3>3. \A x \in Requests : state'[x] = "queued" <=> \E i \in 1 .. Len(queue') : queue'[i] = x
      <4> TAKE x \in Requests
      <4>1. CASE x = r
        BY <2>2, <2>3, <4>1 DEF TypeOK
      <4>2. CASE x # r
        <5>1. state'[x] = state[x]
          BY <2>2, <4>2 DEF TypeOK
        <5>2. (\E i \in 1 .. Len(queue') : queue'[i] = x) <=> \E i \in 1 .. Len(queue) : queue[i] = x
          <6>1. 1 .. Len(queue') = (1 .. Len(queue)) \cup {Len(queue) + 1}
            BY <2>3, <3>0
          <6> QED
            BY <2>3, <4>2, <6>1
        <5> QED
          BY <5>1, <5>2 DEF QueueHoldsTheWaiting
      <4> QED
        BY <4>1, <4>2
    <3>4. \A x \in listening' : state'[x] = "queued"
      BY <2>2 DEF QueueHoldsTheWaiting, TypeOK
    <3> QED
      BY <3>2, <3>3, <3>4 DEF QueueHoldsTheWaiting
  <2>6. CountersMatchInFlight' /\ WithinBudget'
    <3>1. Active' = Active /\ WeightOf(Active)' = WeightOf(Active)
      BY <2>1, <2>2, WeighInactive
    <3> QED
      BY <2>2, <3>1 DEF CountersMatchInFlight, WithinBudget
  <2>7. HeadCannotStart'
    <3>1. CASE queue = <<>>
      <4>1. Head(queue') = r /\ weight'[r] = w
        BY <2>2, <2>3, <3>1 DEF TypeOK
      <4> QED
        BY <2>2, <3>1, <4>1 DEF HeadCannotStart, CanStartCompilation
    <3>2. CASE queue # <<>>
      <4>1. Head(queue') = Head(queue) /\ Head(queue) = queue[1] /\ 1 \in 1 .. Len(queue)
        BY <2>3, <3>2 DEF TypeOK
      <4>2. Head(queue) \in Requests /\ Head(queue) # r
        BY <2>2, <4>1 DEF QueueHoldsTheWaiting, TypeOK
      <4>3. weight'[Head(queue)] = weight[Head(queue)]
        BY <2>2, <4>2 DEF TypeOK
      <4> QED
        BY <2>2, <3>2, <4>1, <4>3 DEF HeadCannotStart, CanStartCompilation
    <3> QED
      BY <3>1, <3>2
  <2> QED
    BY <2>4, <2>5, <2>6, <2>7
<1>3. ASSUME NEW s \in Signals, Abort(s) PROVE IInv'
  <2>1. aborted' = aborted \cup {s}
        /\ UNCHANGED <<state, weight, signal, listening, queue, activeCount, activeWeight>>
    BY <1>3 DEF Abort
  <2>2. TypeOK'
    BY <2>1 DEF TypeOK
  <2>3. QueueHoldsTheWaiting' /\ WithinBudget'
    BY <2>1 DEF QueueHoldsTheWaiting, WithinBudget
  <2>4. CountersMatchInFlight'
    BY <2>1 DEF CountersMatchInFlight, Active, WeightOf, ReservedBytes
  <2>5. HeadCannotStart'
    BY <2>1 DEF HeadCannotStart, CanStartCompilation
  <2> QED
    BY <2>2, <2>3, <2>4, <2>5
<1>4. ASSUME NEW r \in Requests, CancelWhileQueued(r) PROVE IInv'
  <2>1. state[r] = "queued" /\ UNCHANGED <<weight, signal, aborted>>
    BY <1>4 DEF CancelWhileQueued, QueueHoldsTheWaiting
  <2>2. PICK i \in 1 .. Len(queue) :
           /\ queue[i] = r
           /\ StartQueuedCompilations(Without(queue, i), activeCount, activeWeight,
                                      [state EXCEPT ![r] = "cancelled"], listening \ {r})
    BY <1>4, <2>1 DEF CancelWhileQueued
  <2> DEFINE q == Without(queue, i)
             states == [state EXCEPT ![r] = "cancelled"]
             heard == listening \ {r}
  <2>3. /\ q \in Seq(Requests) /\ Len(q) = Len(queue) - 1
        /\ \A j \in 1 .. Len(queue) - 1 : q[j] = IF j < i THEN queue[j] ELSE queue[j + 1]
    BY WithoutProperties DEF TypeOK
  <2>4. /\ states \in [Requests -> RequestStates] /\ heard \in SUBSET Requests
        /\ states[r] = "cancelled" /\ \A x \in Requests \ {r} : states[x] = state[x]
    BY DEF TypeOK, RequestStates
  <2>5. StartQueuedCompilations(q, activeCount, activeWeight, states, heard)
    BY <2>2
  <2> HIDE DEF q, states
  <2> DEFINE place(j) == IF j < i THEN j ELSE j + 1
  <2>6. Len(queue) \in Nat /\ Len(q) = Len(queue) - 1 /\ i \in 1 .. Len(queue)
    BY <2>3 DEF TypeOK
  <2>7. \A j \in 1 .. Len(q) : /\ place(j) \in 1 .. Len(queue)
                                /\ place(j) # i
                                /\ \A k \in 1 .. Len(q) : place(j) = place(k) => j = k
    BY <2>6
  <2>8. \A j \in 1 .. Len(q) : q[j] = queue[place(j)]
    BY <2>3
  <2>9. \A n \in 1 .. Len(queue) : n # i => \E j \in 1 .. Len(q) : place(j) = n
    <3> TAKE n \in 1 .. Len(queue)
    <3> HAVE n # i
    <3>1. CASE n < i
      BY <2>6, <3>1
    <3>2. CASE n > i
      <4>1. n - 1 \in 1 .. Len(q) /\ place(n - 1) = n
        BY <2>6, <3>2
      <4> QED
        BY <4>1
    <3> QED
      BY <2>6, <3>1, <3>2
  <2> HIDE DEF place
  <2>10. \A j \in 1 .. Len(q) : q[j] # r
    BY <2>2, <2>7, <2>8, SMTT(40) DEF QueueHoldsTheWaiting
  <2>11. \A j, k \in 1 .. Len(q) : q[j] = q[k] => j = k
    <3> TAKE j, k \in 1 .. Len(q)
    <3> HAVE q[j] = q[k]
    <3>1. queue[place(j)] = queue[place(k)]
      BY <2>8
    <3>2. place(j) = place(k)
      BY <2>7, <3>1 DEF QueueHoldsTheWaiting
    <3> QED
      BY <2>7, <3>2
  <2>12. \A x \in Requests : states[x] = "queued" <=> \E j \in 1 .. Len(q) : q[j] = x
    <3> TAKE x \in Requests
    <3>1. CASE x = r
      BY <2>4, <2>10, <3>1
    <3>2. ASSUME x # r, states[x] = "queued" PROVE \E j \in 1 .. Len(q) : q[j] = x
      <4>1. PICK n \in 1 .. Len(queue) : queue[n] = x
        BY <2>4, <3>2 DEF QueueHoldsTheWaiting
      <4>2. n # i
        BY <2>2, <3>2, <4>1
      <4> QED
        BY <2>8, <2>9, <4>1, <4>2
    <3>3. ASSUME x # r, NEW j \in 1 .. Len(q), q[j] = x PROVE states[x] = "queued"
      <4>1. \E n \in 1 .. Len(queue) : queue[n] = x
        BY <2>7, <2>8, <3>3
      <4> QED
        BY <2>4, <3>3, <4>1 DEF QueueHoldsTheWaiting
    <3> QED
      BY <3>1, <3>2, <3>3
  <2>13. \A x \in heard : states[x] = "queued"
    BY <2>4 DEF QueueHoldsTheWaiting
  <2>14. {x \in Requests : states[x] = "active"} = Active
    BY <2>1, <2>4 DEF Active
  <2>15. /\ activeCount \in Nat /\ activeWeight \in Nat
         /\ activeCount = Cardinality({x \in Requests : states[x] = "active"})
         /\ activeWeight = WeightOf({x \in Requests : states[x] = "active"})
         /\ activeCount <= MaximumBatchSize
         /\ activeCount <= 1 \/ activeWeight <= MaximumConcurrentWeight
    BY <2>14 DEF CountersMatchInFlight, WithinBudget, TypeOK
  <2> QED
    BY <2>1, <2>3, <2>4, <2>5, <2>11, <2>12, <2>13, <2>15, StartQueuedKeepsIInv, ZenonT(40)
<1>5. ASSUME NEW r \in Requests, NEW outcome \in {"resolved", "failed"},
             SettleCompilation(r, outcome)
      PROVE  IInv'
  <2> DEFINE states == [state EXCEPT ![r] = outcome]
             count == activeCount - 1
             bytes == activeWeight - weight[r]
  <2>1. /\ state[r] = "active" /\ UNCHANGED <<weight, signal, aborted>>
        /\ StartQueuedCompilations(queue, count, bytes, states, listening)
    BY <1>5 DEF SettleCompilation
  <2>2. /\ states \in [Requests -> RequestStates]
        /\ states[r] = outcome /\ \A x \in Requests \ {r} : states[x] = state[x]
    BY DEF TypeOK, RequestStates
  <2>3. r \in Active
    BY <2>1 DEF Active
  <2>4. /\ Active \ {r} \in SUBSET Requests
        /\ Cardinality(Active \ {r}) = Cardinality(Active) - 1
        /\ WeightOf(Active \ {r}) = WeightOf(Active) - weight[r]
    BY <2>3, LeaveActive
  <2>5. {x \in Requests : states[x] = "active"} = Active \ {r}
    BY <2>2 DEF Active
  <2>6. Cardinality(Active \ {r}) \in Nat /\ WeightOf(Active \ {r}) \in Nat
    BY <2>4, ReservedFinite
  <2>7. /\ count = Cardinality({x \in Requests : states[x] = "active"})
        /\ bytes = WeightOf({x \in Requests : states[x] = "active"})
        /\ count \in Nat /\ bytes \in Nat
    BY <2>4, <2>5, <2>6 DEF CountersMatchInFlight
  <2>8. count <= MaximumBatchSize /\ (count <= 1 \/ bytes <= MaximumConcurrentWeight)
    BY AdmissionAssumption DEF WithinBudget, TypeOK, AdmissionAssumption
  <2>9. /\ queue \in Seq(Requests) /\ listening \in SUBSET Requests
        /\ \A i, j \in 1 .. Len(queue) : queue[i] = queue[j] => i = j
        /\ \A x \in Requests : states[x] = "queued" <=> \E i \in 1 .. Len(queue) : queue[i] = x
        /\ \A x \in listening : states[x] = "queued"
    <3>1. \A x \in Requests : states[x] = "queued" <=> state[x] = "queued"
      BY <2>1, <2>2
    <3> QED
      BY <3>1 DEF QueueHoldsTheWaiting, TypeOK
  <2> HIDE DEF states, count, bytes
  <2> QED
    BY <2>1, <2>2, <2>7, <2>8, <2>9, StartQueuedKeepsIInv
<1>6. CASE UNCHANGED vars
  <2>1. /\ UNCHANGED <<state, weight, signal, listening, aborted>>
        /\ UNCHANGED <<queue, activeCount, activeWeight>>
    BY <1>6 DEF vars
  <2>2. TypeOK' /\ QueueHoldsTheWaiting' /\ WithinBudget'
    BY <2>1 DEF TypeOK, QueueHoldsTheWaiting, WithinBudget
  <2>3. CountersMatchInFlight'
    BY <2>1 DEF CountersMatchInFlight, Active, WeightOf, ReservedBytes
  <2>4. HeadCannotStart'
    BY <2>1 DEF HeadCannotStart, CanStartCompilation
  <2> QED
    BY <2>2, <2>3, <2>4
<1> QED
  BY <1>1, <1>2, <1>3, <1>4, <1>5, <1>6 DEF Next

-----------------------------------------------------------------------------
(* In every behaviour the invariant always holds.                          *)
LEMMA InvariantHolds == Spec => []IInv
<1> QED
  BY InitIInv, NextIInv, PTL DEF Spec

(* Type correctness of the admission queue.                                *)
THEOREM TypeCorrect == Spec => []TypeOK
<1>1. IInv => TypeOK
  BY DEF IInv
<1> QED
  BY <1>1, InvariantHolds, PTL

(* The device is never overcommitted (#canStartCompilation), and the       *)
(* counters that guard it never drift from what is in flight.              *)
THEOREM BudgetRespected == Spec => [](WithinBudget /\ CountersMatchInFlight)
<1>1. IInv => WithinBudget /\ CountersMatchInFlight
  BY DEF IInv
<1> QED
  BY <1>1, InvariantHolds, PTL

(* The pending list always holds exactly the waiting requests, each once.  *)
THEOREM QueueSound == Spec => []QueueHoldsTheWaiting
<1>1. IInv => QueueHoldsTheWaiting
  BY DEF IInv
<1> QED
  BY <1>1, InvariantHolds, PTL

(* No idle room: after every handler the first waiter is one that cannot   *)
(* start, so no cancellation or settlement loses a wake-up.                *)
THEOREM NoIdleRoom == Spec => []HeadCannotStart
<1>1. IInv => HeadCannotStart
  BY DEF IInv
<1> QED
  BY <1>1, InvariantHolds, PTL

-----------------------------------------------------------------------------
(* Action properties.                                                      *)

(* The drain loop starts only waiters that are not aborted, and only after *)
(* everybody before them has left the queue.                               *)
LEMMA StartsFromTheFront ==
    ASSUME NEW q \in Seq(Requests), NEW count, NEW bytes, NEW states, NEW heard,
           StartQueuedCompilations(q, count, bytes, states, heard),
           NEW r \in Requests, states[r] # "active", state'[r] = "active"
    PROVE  /\ ~IsAborted(signal[r])
           /\ \E m \in 1 .. Len(q) : q[m] = r /\ \A i \in 1 .. m : state'[q[i]] # "queued"
<1>1. PICK k \in 0 .. Len(q) :
        state' = [x \in Requests |-> IF x \in Live(Prefix(q, k)) THEN "active"
                                     ELSE IF x \in Prefix(q, k) THEN "cancelled"
                                     ELSE states[x]]
  BY DEF StartQueuedCompilations
<1>2. r \in Live(Prefix(q, k))
  BY <1>1
<1>3. PICK m \in 1 .. k : q[m] = r
  BY <1>2 DEF Live, Prefix
<1>4. \A i \in 1 .. k : state'[q[i]] # "queued"
  BY <1>1 DEF Prefix
<1>5. ~IsAborted(signal[r])
  BY <1>2 DEF Live
<1>6. m \in 1 .. Len(q) /\ \A i \in 1 .. m : i \in 1 .. k
  BY <1>3
<1> QED
  BY <1>3, <1>4, <1>5, <1>6

(* An aborted waiter never starts: the loop looks at the signal again when *)
(* the request leaves the queue (#startCompilation).                       *)
THEOREM AbortedNeverStarts == Spec => NoStartAfterAbort
<1>1. ASSUME IInv, [Next]_vars, NEW r \in Requests, state[r] = "queued", IsAborted(signal[r])
      PROVE  state'[r] # "active"
  <2> SUFFICES ASSUME state'[r] = "active" PROVE FALSE
    OBVIOUS
  <2> USE <1>1 DEF IInv
  <2>1. ASSUME NEW x \in Requests, NEW e \in Estimates, NEW s \in Signals \cup {NoSignal},
               AdmitNow(x, e, s) \/ AdmitLater(x, e, s)
        PROVE  FALSE
    BY <2>1 DEF AdmitNow, AdmitLater, TypeOK
  <2>2. ASSUME NEW s \in Signals, Abort(s) PROVE FALSE
    BY <2>2 DEF Abort
  <2>3. ASSUME NEW x \in Requests, CancelWhileQueued(x) PROVE FALSE
    <3> DEFINE states == [state EXCEPT ![x] = "cancelled"]
               heard == listening \ {x}
    <3>1. PICK i \in 1 .. Len(queue) :
             StartQueuedCompilations(Without(queue, i), activeCount, activeWeight, states, heard)
      BY <2>3 DEF CancelWhileQueued
    <3>2. Without(queue, i) \in Seq(Requests)
      BY WithoutProperties DEF TypeOK
    <3>3. states[r] # "active"
      BY DEF TypeOK
    <3> DEFINE q == Without(queue, i)
    <3> HIDE DEF states, heard, q
    <3> QED
      BY <3>1, <3>2, <3>3, StartsFromTheFront DEF q
  <2>4. ASSUME NEW x \in Requests, NEW outcome \in {"resolved", "failed"},
               SettleCompilation(x, outcome)
        PROVE  FALSE
    <3> DEFINE states == [state EXCEPT ![x] = outcome]
               count == activeCount - 1
               bytes == activeWeight - weight[x]
    <3>1. StartQueuedCompilations(queue, count, bytes, states, listening)
      BY <2>4 DEF SettleCompilation
    <3>2. states[r] # "active" /\ queue \in Seq(Requests)
      BY DEF TypeOK
    <3> HIDE DEF states, count, bytes
    <3> QED
      BY <3>1, <3>2, StartsFromTheFront
  <2>5. CASE UNCHANGED vars
    BY <2>5 DEF vars
  <2> QED
    BY <2>1, <2>2, <2>3, <2>4, <2>5 DEF Next
<1>2. IInv /\ [Next]_vars => [\A r \in Requests :
          state[r] = "queued" /\ IsAborted(signal[r]) => state'[r] # "active"]_vars
  BY <1>1
<1> QED
  BY <1>2, InvariantHolds, PTL DEF Spec, NoStartAfterAbort

(* First in, first out: no request starts past one admitted before it.     *)
THEOREM FirstInFirstOut == Spec => NoOvertaking
<1>1. ASSUME IInv, [Next]_vars, NEW r \in Requests, state[r] # "active", state'[r] = "active",
             NEW i \in 1 .. Len(queue), \A j \in 1 .. i : queue[j] # r
      PROVE  state'[queue[i]] # "queued"
  <2> USE <1>1 DEF IInv
  <2>1. ASSUME NEW x \in Requests, NEW e \in Estimates, NEW s \in Signals \cup {NoSignal},
               AdmitNow(x, e, s)
        PROVE  state'[queue[i]] # "queued"
    BY <2>1 DEF AdmitNow
  <2>2. ASSUME NEW x \in Requests, NEW e \in Estimates, NEW s \in Signals \cup {NoSignal},
               AdmitLater(x, e, s)
        PROVE  FALSE
    BY <2>2 DEF AdmitLater, TypeOK
  <2>3. ASSUME NEW s \in Signals, Abort(s) PROVE FALSE
    BY <2>3 DEF Abort
  <2>4. ASSUME NEW x \in Requests, CancelWhileQueued(x)
        PROVE  state'[queue[i]] # "queued"
    <3> SUFFICES ASSUME state'[queue[i]] = "queued" PROVE FALSE
      OBVIOUS
    <3> DEFINE states == [state EXCEPT ![x] = "cancelled"]
               heard == listening \ {x}
    <3>1. PICK p \in 1 .. Len(queue) : queue[p] = x /\
             StartQueuedCompilations(Without(queue, p), activeCount, activeWeight, states, heard)
      BY <2>4 DEF CancelWhileQueued
    <3> DEFINE q == Without(queue, p)
    <3>2. /\ q \in Seq(Requests) /\ Len(q) = Len(queue) - 1
          /\ \A j \in 1 .. Len(queue) - 1 : q[j] = IF j < p THEN queue[j] ELSE queue[j + 1]
      BY WithoutProperties DEF TypeOK
    <3>3. states[r] # "active"
      BY DEF TypeOK
    <3>4. StartQueuedCompilations(q, activeCount, activeWeight, states, heard)
      BY <3>1
    <3> HIDE DEF q, states, heard
    <3>5. PICK m \in 1 .. Len(q) : q[m] = r /\ \A j \in 1 .. m : state'[q[j]] # "queued"
      BY <3>2, <3>3, <3>4, StartsFromTheFront
    <3>6. /\ Len(queue) \in Nat /\ Len(q) = Len(queue) - 1
          /\ p \in 1 .. Len(queue) /\ i \in 1 .. Len(queue) /\ m \in 1 .. Len(q)
      BY <3>2 DEF TypeOK
    <3>7. m < p => m >= i + 1
      <4> HAVE m < p
      <4>1. queue[m] = r
        BY <3>2, <3>5, <3>6
      <4> QED
        BY <3>6, <4>1
    <3>8. m >= p => m >= i
      <4> HAVE m >= p
      <4>1. queue[m + 1] = r
        BY <3>2, <3>5, <3>6
      <4>2. ~(m + 1 \in 1 .. i)
        BY <4>1
      <4> QED
        BY <3>6, <4>2
    <3>9. CASE i < p
      <4>1. i \in 1 .. m /\ i \in 1 .. Len(q)
        BY <3>6, <3>7, <3>8, <3>9
      <4>2. q[i] = queue[i]
        BY <3>2, <3>6, <3>9, <4>1
      <4> QED
        BY <3>5, <4>1, <4>2
    <3>10. CASE i > p
      <4>1. i - 1 \in 1 .. m /\ i - 1 \in 1 .. Len(q) /\ ~(i - 1 < p) /\ (i - 1) + 1 = i
        BY <3>6, <3>7, <3>8, <3>10
      <4>2. q[i - 1] = queue[i]
        BY <3>2, <3>6, <4>1
      <4> QED
        BY <3>5, <4>1, <4>2
    <3>11. CASE i = p
      <4>1. states[x] # "queued"
        BY DEF TypeOK, states
      <4>2. state'[x] # "queued"
        BY <3>4, <4>1 DEF StartQueuedCompilations
      <4> QED
        BY <3>1, <3>11, <4>2
    <3> QED
      BY <3>6, <3>9, <3>10, <3>11
  <2>5. ASSUME NEW x \in Requests, NEW outcome \in {"resolved", "failed"},
               SettleCompilation(x, outcome)
        PROVE  state'[queue[i]] # "queued"
    <3> DEFINE states == [state EXCEPT ![x] = outcome]
               count == activeCount - 1
               bytes == activeWeight - weight[x]
    <3>1. StartQueuedCompilations(queue, count, bytes, states, listening)
      BY <2>5 DEF SettleCompilation
    <3>2. states[r] # "active" /\ queue \in Seq(Requests)
      BY DEF TypeOK
    <3> HIDE DEF states, count, bytes
    <3>3. PICK m \in 1 .. Len(queue) :
              queue[m] = r /\ \A j \in 1 .. m : state'[queue[j]] # "queued"
      BY <3>1, <3>2, StartsFromTheFront
    <3>4. i \in 1 .. m
      BY <3>3
    <3> QED
      BY <3>3, <3>4
  <2>6. CASE UNCHANGED vars
    BY <2>6 DEF vars
  <2> QED
    BY <2>1, <2>2, <2>3, <2>4, <2>5, <2>6 DEF Next
<1>2. IInv /\ [Next]_vars => [\A r \in Requests :
          state[r] # "active" /\ state'[r] = "active" =>
              /\ \A i \in 1 .. Len(queue) :
                    (\A j \in 1 .. i : queue[j] # r) => state'[queue[i]] # "queued"]_vars
  BY <1>1
<1> QED
  BY <1>2, InvariantHolds, PTL DEF Spec, NoOvertaking

-----------------------------------------------------------------------------
(* The linked list of AdmissionList.                                       *)

Lists == [first : Link, last : Link, previous : [Requests -> Link],
          next : [Requests -> Link], queued : [Requests -> BOOLEAN]]

Distinct(q) == \A i, j \in 1 .. Len(q) : q[i] = q[j] => i = j

After(q, i) == IF i = Len(q) THEN Undefined ELSE q[i + 1]

Before(q, i) == IF i = 1 THEN Undefined ELSE q[i - 1]

(* The list l holds the requests of q in their order: the links lead from  *)
(* each to its neighbours, both ends are where q has them, and a request   *)
(* that is not in the list has no links.                                   *)
IsList(l, q) ==
    /\ l \in Lists
    /\ l.first = IF Len(q) = 0 THEN Undefined ELSE q[1]
    /\ l.last = IF Len(q) = 0 THEN Undefined ELSE q[Len(q)]
    /\ \A i \in 1 .. Len(q) : l.next[q[i]] = After(q, i) /\ l.previous[q[i]] = Before(q, i)
    /\ \A r \in Requests \ Members(q) : l.next[r] = Undefined /\ l.previous[r] = Undefined
    /\ \A r \in Requests : l.queued[r] <=> r \in Members(q)

(* A link is never a request and absent at once.                           *)
LEMMA AbsentIsNoRequest == \A r \in Requests : r # Undefined /\ r \in Link
  BY ListAssumption DEF Link

(* #enqueueCompilation puts the request at the end.                        *)
LEMMA EnqueueAppends ==
    ASSUME NEW q \in Seq(Requests), Distinct(q), NEW l, IsList(l, q),
           NEW r \in Requests \ Members(q)
    PROVE  /\ Append(q, r) \in Seq(Requests) /\ Distinct(Append(q, r))
           /\ IsList(Enqueue(l, r), Append(q, r))
<1> DEFINE a == Append(q, r)
           e == Enqueue(l, r)
<1>1. /\ a \in Seq(Requests) /\ Len(a) = Len(q) + 1 /\ Len(q) \in Nat
      /\ a[Len(q) + 1] = r /\ \A i \in 1 .. Len(q) : a[i] = q[i]
  BY AppendProperties
<1>2. \A i \in 1 .. Len(q) : q[i] \in Requests /\ q[i] \in Members(q) /\ q[i] # r
  BY DEF Members
<1> HIDE DEF a
<1>3. Distinct(a)
  BY <1>1, <1>2 DEF Distinct
<1>4. Members(a) = Members(q) \cup {r}
  BY <1>1 DEF Members
<1>5. /\ l \in Lists
      /\ l.last = IF Len(q) = 0 THEN Undefined ELSE q[Len(q)]
      /\ l.first = IF Len(q) = 0 THEN Undefined ELSE q[1]
  BY DEF IsList
<1>6. l.last = Undefined <=> Len(q) = 0
  BY <1>1, <1>2, <1>5, AbsentIsNoRequest
<1>7. /\ e.first = IF Len(q) = 0 THEN r ELSE l.first
      /\ e.last = r
      /\ e.previous = [l.previous EXCEPT ![r] = l.last]
      /\ e.next = IF Len(q) = 0 THEN l.next ELSE [l.next EXCEPT ![q[Len(q)]] = r]
      /\ e.queued = [l.queued EXCEPT ![r] = TRUE]
  BY <1>5, <1>6 DEF Enqueue
<1>8. e \in Lists
  BY <1>2, <1>5, AbsentIsNoRequest DEF Lists, Enqueue
<1> HIDE DEF e
<1>9. /\ e.first = IF Len(a) = 0 THEN Undefined ELSE a[1]
      /\ e.last = IF Len(a) = 0 THEN Undefined ELSE a[Len(a)]
  BY <1>1, <1>5, <1>7
<1>10. l.next \in [Requests -> Link] /\ l.previous \in [Requests -> Link]
       /\ l.queued \in [Requests -> BOOLEAN]
  BY <1>5 DEF Lists
<1>11. ASSUME NEW i \in 1 .. Len(a) PROVE e.next[a[i]] = After(a, i) /\ e.previous[a[i]] = Before(a, i)
  <2>1. CASE i = Len(q) + 1
    <3>1. e.next[r] = l.next[r] /\ l.next[r] = Undefined
      BY <1>2, <1>7, <1>10 DEF IsList
    <3>2. e.previous[r] = l.last
      BY <1>7, <1>10
    <3>3. l.last = Before(a, i)
      BY <1>1, <1>5, <2>1 DEF Before
    <3> QED
      BY <1>1, <2>1, <3>1, <3>2, <3>3 DEF After
  <2>2. CASE i \in 1 .. Len(q)
    <3>1. l.next[q[i]] = After(q, i) /\ l.previous[q[i]] = Before(q, i)
      BY <2>2 DEF IsList
    <3>2. a[i] = q[i] /\ q[i] \in Requests /\ q[i] # r
      BY <1>1, <1>2, <2>2
    <3>3. e.previous[a[i]] = Before(a, i)
      BY <1>1, <1>7, <1>10, <2>2, <3>1, <3>2 DEF Before
    <3>4. CASE i = Len(q)
      BY <1>1, <1>7, <1>10, <3>2, <3>3, <3>4 DEF After
    <3>5. CASE i # Len(q)
      <4>1. q[i] # q[Len(q)]
        BY <1>1, <2>2, <3>5 DEF Distinct
      <4>2. e.next[q[i]] = l.next[q[i]]
        BY <1>7, <1>10, <3>2, <4>1
      <4>3. After(q, i) = After(a, i)
        BY <1>1, <2>2, <3>5 DEF After
      <4> QED
        BY <3>1, <3>2, <3>3, <4>2, <4>3
    <3> QED
      BY <3>4, <3>5
  <2> QED
    BY <1>1, <2>1, <2>2
<1>12. ASSUME NEW x \in Requests \ Members(a) PROVE e.next[x] = Undefined /\ e.previous[x] = Undefined
  <2>1. x \in Requests \ Members(q) /\ x # r
    BY <1>4
  <2>2. l.next[x] = Undefined /\ l.previous[x] = Undefined
    BY <2>1 DEF IsList
  <2>3. Len(q) # 0 => q[Len(q)] \in Members(q)
    BY <1>1, <1>2
  <2> QED
    BY <1>7, <1>10, <2>1, <2>2, <2>3
<1>13. \A x \in Requests : e.queued[x] <=> x \in Members(a)
  <2>1. \A x \in Requests : l.queued[x] <=> x \in Members(q)
    BY DEF IsList
  <2> QED
    BY <1>4, <1>7, <1>10, <2>1
<1>14. IsList(e, a)
  BY <1>8, <1>9, <1>11, <1>12, <1>13 DEF IsList
<1> QED
  BY <1>1, <1>3, <1>14 DEF a, e

(* The neighbours in a list with one request taken out.                    *)
LEMMA WithoutNeighbours ==
    ASSUME NEW q \in Seq(Requests), Distinct(q), NEW i \in 1 .. Len(q), NEW w, w = Without(q, i)
    PROVE  /\ w \in Seq(Requests) /\ Distinct(w) /\ Len(w) = Len(q) - 1
           /\ Members(w) = Members(q) \ {q[i]}
           /\ \A j \in 1 .. Len(q) - 1 : w[j] = IF j < i THEN q[j] ELSE q[j + 1]
<1>1. /\ w \in Seq(Requests) /\ Len(w) = Len(q) - 1
      /\ \A j \in 1 .. Len(q) - 1 : w[j] = IF j < i THEN q[j] ELSE q[j + 1]
  BY WithoutProperties
<1>2. Len(q) \in Nat /\ i \in Int
  OBVIOUS
<1>3. Distinct(w)
  <2> SUFFICES ASSUME NEW j \in 1 .. Len(w), NEW k \in 1 .. Len(w), w[j] = w[k] PROVE j = k
    BY DEF Distinct
  <2> DEFINE at(x) == IF x < i THEN x ELSE x + 1
  <2>1. /\ at(j) \in 1 .. Len(q) /\ at(k) \in 1 .. Len(q)
        /\ w[j] = q[at(j)] /\ w[k] = q[at(k)]
    BY <1>1, <1>2
  <2>2. at(j) = at(k)
    <3> HIDE DEF at
    <3> QED
      BY <2>1 DEF Distinct
  <2> QED
    BY <1>1, <1>2, <2>2
<1>4. Members(w) = Members(q) \ {q[i]}
  <2>1. ASSUME NEW x \in Members(w) PROVE x \in Members(q) \ {q[i]}
    <3>1. PICK j \in 1 .. Len(w) : w[j] = x
      BY DEF Members
    <3> DEFINE at == IF j < i THEN j ELSE j + 1
    <3>2. at \in 1 .. Len(q) /\ at # i /\ x = q[at]
      BY <1>1, <1>2, <3>1
    <3> HIDE DEF at
    <3> QED
      BY <3>2 DEF Members, Distinct
  <2>2. ASSUME NEW x \in Members(q) \ {q[i]} PROVE x \in Members(w)
    <3>1. PICK j \in 1 .. Len(q) : q[j] = x /\ j # i
      BY DEF Members
    <3> DEFINE at == IF j < i THEN j ELSE j - 1
    <3>2. at \in 1 .. Len(w) /\ w[at] = q[j]
      <4>1. CASE j < i
        BY <1>1, <1>2, <4>1
      <4>2. CASE j > i
        <5>1. at = j - 1 /\ at \in 1 .. Len(q) - 1 /\ ~(at < i) /\ at + 1 = j
          BY <1>2, <4>2
        <5> HIDE DEF at
        <5>2. w[at] = q[at + 1]
          BY <1>1, <5>1
        <5> QED
          BY <1>1, <5>1, <5>2
      <4> QED
        BY <1>2, <3>1, <4>1, <4>2
    <3> HIDE DEF at
    <3> QED
      BY <3>1, <3>2 DEF Members
  <2> QED
    BY <2>1, <2>2
<1> QED
  BY <1>1, <1>3, <1>4

(* #removeQueuedCompilation takes a request out, wherever it stands, and   *)
(* leaves the others as they were.                                         *)
LEMMA RemoveTakesOut ==
    ASSUME NEW q \in Seq(Requests), Distinct(q), NEW l, IsList(l, q), NEW i \in 1 .. Len(q)
    PROVE  IsList(Remove(l, q[i]), Without(q, i))
<1> DEFINE w == Without(q, i)
           e == Remove(l, q[i])
           r == q[i]
           p == Before(q, i)
           n == After(q, i)
<1>0. Len(q) \in Nat /\ i \in 1 .. Len(q)
  OBVIOUS
<1>1. /\ w \in Seq(Requests) /\ Distinct(w) /\ Len(w) = Len(q) - 1
      /\ Members(w) = Members(q) \ {r}
      /\ \A j \in 1 .. Len(q) - 1 : w[j] = IF j < i THEN q[j] ELSE q[j + 1]
  <2> HIDE DEF w
  <2>1. w = Without(q, i)
    BY DEF w
  <2> QED
    BY <2>1, WithoutNeighbours, SMTT(40)
<1>2. \A j \in 1 .. Len(q) : q[j] \in Requests /\ q[j] \in Members(q) /\ q[j] # Undefined
  BY AbsentIsNoRequest DEF Members
<1>3. l.previous[r] = p /\ l.next[r] = n
  BY DEF IsList
<1>4. /\ l \in Lists
      /\ l.last = IF Len(q) = 0 THEN Undefined ELSE q[Len(q)]
      /\ l.first = IF Len(q) = 0 THEN Undefined ELSE q[1]
  BY DEF IsList
<1>5. /\ l.next \in [Requests -> Link] /\ l.previous \in [Requests -> Link]
      /\ l.queued \in [Requests -> BOOLEAN] /\ l.first \in Link /\ l.last \in Link
  BY <1>4 DEF Lists
<1>6. /\ p = Undefined <=> i = 1
      /\ n = Undefined <=> i = Len(q)
      /\ i # 1 => p = q[i - 1] /\ i - 1 \in 1 .. Len(q)
      /\ i # Len(q) => n = q[i + 1] /\ i + 1 \in 1 .. Len(q)
  BY <1>0, <1>2 DEF Before, After
<1>7. p \in Link /\ n \in Link
  BY <1>6, <1>2 DEF Link
<1>8. /\ e.first = IF i = 1 THEN n ELSE l.first
      /\ e.last = IF i = Len(q) THEN p ELSE l.last
      /\ \A x \in Requests : e.next[x] = IF x = r THEN Undefined ELSE IF x = p THEN n ELSE l.next[x]
      /\ \A x \in Requests :
            e.previous[x] = IF x = r THEN Undefined ELSE IF x = n THEN p ELSE l.previous[x]
      /\ e.queued = [l.queued EXCEPT ![r] = FALSE]
  BY <1>3, <1>6 DEF Remove, Relinked
<1>9. e \in Lists
  <2>1. /\ e = [first |-> e.first, last |-> e.last, previous |-> e.previous,
                next |-> e.next, queued |-> e.queued]
        /\ e.next = Relinked(l.next, r, p, n)
        /\ e.previous = Relinked(l.previous, r, n, p)
    BY <1>3 DEF Remove
  <2>2. e.next \in [Requests -> Link] /\ e.previous \in [Requests -> Link]
    BY <1>5, <1>7, <2>1 DEF Relinked, Link
  <2>3. e.queued \in [Requests -> BOOLEAN]
    BY <1>5, <1>8
  <2>4. e.first \in Link /\ e.last \in Link
    BY <1>5, <1>7, <1>8
  <2> HIDE DEF e
  <2> QED
    BY <2>1, <2>2, <2>3, <2>4 DEF Lists
<1> HIDE DEF e, w
<1>10. /\ e.first = IF Len(w) = 0 THEN Undefined ELSE w[1]
       /\ e.last = IF Len(w) = 0 THEN Undefined ELSE w[Len(w)]
  <2>1. e.first = IF Len(w) = 0 THEN Undefined ELSE w[1]
    <3>1. CASE i = 1
      BY <1>0, <1>1, <1>6, <1>8, <3>1
    <3>2. CASE i # 1
      <4>1. Len(w) # 0 /\ 1 \in 1 .. Len(q) - 1 /\ 1 < i
        BY <1>0, <1>1, <3>2
      <4> QED
        BY <1>1, <1>4, <1>8, <3>2, <4>1, <1>0
    <3> QED
      BY <3>1, <3>2
  <2>2. e.last = IF Len(w) = 0 THEN Undefined ELSE w[Len(w)]
    <3>1. CASE i = Len(q)
      <4>1. CASE i = 1
        BY <1>0, <1>1, <1>6, <1>8, <3>1, <4>1
      <4>2. CASE i # 1
        <5>1. Len(w) = i - 1 /\ i - 1 \in 1 .. Len(q) - 1 /\ i - 1 < i
          BY <1>0, <1>1, <3>1, <4>2
        <5>2. w[i - 1] = q[i - 1]
          BY <1>1, <5>1
        <5>3. e.last = q[i - 1]
          BY <1>6, <1>8, <3>1, <4>2
        <5> QED
          BY <1>0, <5>1, <5>2, <5>3
      <4> QED
        BY <4>1, <4>2
    <3>2. CASE i # Len(q)
      <4> DEFINE z == Len(q) - 1
      <4>1. z \in 1 .. Len(q) - 1 /\ ~(z < i) /\ z + 1 = Len(q) /\ Len(w) = z /\ z # 0 /\ Len(q) # 0
        BY <1>0, <1>1, <3>2
      <4> HIDE DEF z
      <4>2. w[z] = q[z + 1]
        BY <1>1, <4>1
      <4> QED
        BY <1>4, <1>8, <3>2, <4>1, <4>2
    <3> QED
      BY <3>1, <3>2
  <2> QED
    BY <2>1, <2>2
<1>11. ASSUME NEW j \in 1 .. Len(w) PROVE e.next[w[j]] = After(w, j) /\ e.previous[w[j]] = Before(w, j)
  <2> DEFINE at == IF j < i THEN j ELSE j + 1
  <2>1. /\ at \in 1 .. Len(q) /\ at # i /\ w[j] = q[at]
        /\ j \in 1 .. Len(q) - 1
    BY <1>0, <1>1
  <2>2. q[at] \in Requests /\ q[at] # r /\ (q[at] = p <=> at = i - 1) /\ (q[at] = n <=> at = i + 1)
    <3>1. q[at] # r
      BY <1>0, <2>1 DEF Distinct
    <3>2. q[at] = p <=> at = i - 1
      <4>1. CASE i = 1
        BY <1>0, <1>2, <1>6, <2>1, <4>1
      <4>2. CASE i # 1
        <5> HIDE DEF at
        <5> QED
          BY <1>6, <2>1, <4>2 DEF Distinct
      <4> QED
        BY <4>1, <4>2
    <3>3. q[at] = n <=> at = i + 1
      <4>1. CASE i = Len(q)
        BY <1>0, <1>2, <1>6, <2>1, <4>1
      <4>2. CASE i # Len(q)
        <5> HIDE DEF at
        <5> QED
          BY <1>6, <2>1, <4>2 DEF Distinct
      <4> QED
        BY <4>1, <4>2
    <3> HIDE DEF at
    <3> QED
      BY <1>2, <2>1, <3>1, <3>2, <3>3
  <2>3. l.next[q[at]] = After(q, at) /\ l.previous[q[at]] = Before(q, at)
    <3> HIDE DEF at
    <3> QED
      BY <2>1 DEF IsList
  <2>4. e.next[w[j]] = IF at = i - 1 THEN n ELSE After(q, at)
    <3> HIDE DEF at, p, n, r
    <3> QED
      BY <1>8, <2>1, <2>2, <2>3
  <2>5. e.previous[w[j]] = IF at = i + 1 THEN p ELSE Before(q, at)
    <3> HIDE DEF at, p, n, r
    <3> QED
      BY <1>8, <2>1, <2>2, <2>3
  <2>6. (IF at = i - 1 THEN n ELSE After(q, at)) = After(w, j)
    <3>1. CASE j = Len(w)
      <4>1. After(w, j) = Undefined
        BY <3>1 DEF After
      <4>2. CASE i = Len(q)
        <5>1. at = i - 1 /\ n = Undefined
          BY <1>0, <1>1, <1>6, <2>1, <3>1, <4>2
        <5> QED
          BY <4>1, <5>1
      <4>3. CASE i # Len(q)
        <5>1. at = Len(q) /\ at # i - 1
          BY <1>0, <1>1, <2>1, <3>1, <4>3
        <5> QED
          BY <4>1, <5>1 DEF After
      <4> QED
        BY <4>2, <4>3
    <3>2. CASE j # Len(w)
      <4>1. j + 1 \in 1 .. Len(q) - 1 /\ After(w, j) = w[j + 1]
        BY <1>0, <1>1, <2>1, <3>2 DEF After
      <4>2. w[j + 1] = IF j + 1 < i THEN q[j + 1] ELSE q[(j + 1) + 1]
        BY <1>1, <4>1
      <4>3. CASE j + 1 < i
        <5>1. at = j /\ at # i - 1 /\ at # Len(q) /\ at + 1 = j + 1
          BY <1>0, <2>1, <4>3
        <5> QED
          BY <4>1, <4>2, <4>3, <5>1 DEF After
      <4>4. CASE j + 1 = i
        <5>1. at = i - 1 /\ i # Len(q) /\ n = q[i + 1] /\ (j + 1) + 1 = i + 1 /\ ~(j + 1 < i)
          BY <1>0, <1>6, <2>1, <4>1, <4>4
        <5> QED
          BY <4>1, <4>2, <5>1
      <4>5. CASE j + 1 > i
        <5>1. at = j + 1 /\ at # i - 1 /\ at # Len(q) /\ at + 1 = (j + 1) + 1 /\ ~(j + 1 < i)
          BY <1>0, <2>1, <4>1, <4>5
        <5> QED
          BY <4>1, <4>2, <5>1 DEF After
      <4> QED
        BY <1>0, <2>1, <4>3, <4>4, <4>5
    <3> QED
      BY <3>1, <3>2
  <2>7. (IF at = i + 1 THEN p ELSE Before(q, at)) = Before(w, j)
    <3>1. CASE j = 1
      <4>1. Before(w, j) = Undefined
        BY <3>1 DEF Before
      <4>2. CASE i = 1
        <5>1. at = i + 1 /\ p = Undefined
          BY <1>0, <1>6, <3>1, <4>2
        <5> QED
          BY <4>1, <5>1
      <4>3. CASE i # 1
        <5>1. at = 1 /\ at # i + 1
          BY <1>0, <3>1, <4>3
        <5> QED
          BY <4>1, <5>1 DEF Before
      <4> QED
        BY <4>2, <4>3
    <3>2. CASE j # 1
      <4>1. j - 1 \in 1 .. Len(q) - 1 /\ Before(w, j) = w[j - 1]
        BY <1>0, <1>1, <2>1, <3>2 DEF Before
      <4>2. w[j - 1] = IF j - 1 < i THEN q[j - 1] ELSE q[(j - 1) + 1]
        BY <1>1, <4>1
      <4>3. CASE j < i
        <5>1. at = j /\ at # i + 1 /\ at # 1 /\ j - 1 < i
          BY <1>0, <2>1, <3>2, <4>3
        <5> QED
          BY <4>1, <4>2, <5>1 DEF Before
      <4>4. CASE j = i
        <5>1. at = i + 1 /\ i # 1 /\ p = q[i - 1] /\ j - 1 = i - 1 /\ j - 1 < i
          BY <1>0, <1>6, <2>1, <3>2, <4>4
        <5> QED
          BY <4>1, <4>2, <5>1
      <4>5. CASE j > i
        <5>1. at = j + 1 /\ at # i + 1 /\ at # 1 /\ at - 1 = (j - 1) + 1 /\ ~(j - 1 < i)
          BY <1>0, <2>1, <4>5
        <5> QED
          BY <4>1, <4>2, <5>1 DEF Before
      <4> QED
        BY <1>0, <2>1, <4>3, <4>4, <4>5
    <3> QED
      BY <3>1, <3>2
  <2> QED
    BY <2>4, <2>5, <2>6, <2>7
<1>12. ASSUME NEW x \in Requests \ Members(w) PROVE e.next[x] = Undefined /\ e.previous[x] = Undefined
  <2>1. CASE x = r
    BY <1>8, <2>1
  <2>2. CASE x # r
    <3>1. x \in Requests \ Members(q)
      BY <1>1, <2>2
    <3>2. x # p /\ x # n
      <4>1. x \in Requests /\ x # Undefined /\ x \notin Members(q)
        BY <3>1, AbsentIsNoRequest
      <4>2. p = Undefined \/ p \in Members(q)
        BY <1>2, <1>6
      <4>3. n = Undefined \/ n \in Members(q)
        BY <1>2, <1>6
      <4> HIDE DEF p, n
      <4> QED
        BY <4>1, <4>2, <4>3
    <3>3. l.next[x] = Undefined /\ l.previous[x] = Undefined
      BY <3>1 DEF IsList
    <3> QED
      BY <1>8, <2>2, <3>2, <3>3
  <2> QED
    BY <2>1, <2>2
<1>13. \A x \in Requests : e.queued[x] <=> x \in Members(w)
  <2>1. \A x \in Requests : l.queued[x] <=> x \in Members(q)
    BY DEF IsList
  <2> HIDE DEF r
  <2> QED
    BY <1>1, <1>5, <1>8, <2>1
<1>14. IsList(e, w)
  BY <1>9, <1>10, <1>11, <1>12, <1>13 DEF IsList
<1> QED
  BY <1>14 DEF e, w

-----------------------------------------------------------------------------
(* The walk along the links.                                               *)

(* A walk along links that lead from each request of q to the next one is  *)
(* q, when it is allowed enough steps.                                     *)
LEMMA WalkIsTheSequence ==
    ASSUME NEW q \in Seq(Requests), NEW links \in [Requests -> Link], NEW r \in Link,
           r = IF Len(q) = 0 THEN Undefined ELSE q[1],
           \A i \in 1 .. Len(q) : links[q[i]] = After(q, i),
           NEW bound \in Nat, Len(q) <= bound
    PROVE  Walk(r, links, bound) = q
<1> DEFINE X == Seq(Requests)
           G == [p \in X |-> Further(p, r, links)]
           Body(f) == [n \in 0 .. bound |->
                         IF n = 0 THEN <<>> ELSE Only({Further(p, r, links) : p \in {f[n - 1]}})]
           path == CHOOSE f : f = Body(f)
<1>0. Len(q) \in Nat /\ \A i \in 1 .. Len(q) : q[i] \in Requests /\ q[i] # Undefined
  BY AbsentIsNoRequest
<1>1. ASSUME NEW p \in X PROVE Further(p, r, links) \in X
  <2> DEFINE following == IF p = <<>> THEN r ELSE links[p[Len(p)]]
  <2>1. p # <<>> => p[Len(p)] \in Requests
    BY <1>1
  <2>2. following \in Link
    BY <2>1
  <2>3. following # Undefined => following \in Requests
    BY <2>2 DEF Link
  <2>4. Further(p, r, links) = IF following = Undefined THEN p ELSE Append(p, following)
    BY DEF Further
  <2>5. p \in Seq(Requests)
    BY <1>1
  <2> HIDE DEF following
  <2>6. following # Undefined => Append(p, following) \in Seq(Requests)
    BY <2>3, <2>5, AppendProperties
  <2> QED
    BY <2>4, <2>5, <2>6
<1>2. G \in [X -> X]
  BY <1>1
<1>3. \A x : Only({Further(p, r, links) : p \in {x}}) = Further(x, r, links)
  BY DEF Only
<1>4. <<>> \in X
  BY EmptySeq
<1>5. PICK f \in [0 .. bound -> X] :
          \A n \in 0 .. bound : f[n] = IF n = 0 THEN <<>> ELSE G[f[n - 1]]
  <2> DEFINE a == <<>>
  <2>1. G \in [X -> X] /\ a \in X /\ bound \in Nat
    BY <1>2, <1>4
  <2> HIDE DEF a, G, X
  <2>2. \E f \in [0 .. bound -> X] : Repeats(f, G, a, bound)
    BY <2>1, RepetitionExists
  <2> QED
    BY <2>2 DEF a, Repeats
<1>6. f = Body(f)
  <2>1. ASSUME NEW n \in 0 .. bound
        PROVE  f[n] = IF n = 0 THEN <<>> ELSE Only({Further(p, r, links) : p \in {f[n - 1]}})
    <3>1. n # 0 => n - 1 \in 0 .. bound /\ f[n - 1] \in X
      BY <1>5
    <3>2. n # 0 => G[f[n - 1]] = Further(f[n - 1], r, links)
      BY <3>1
    <3> QED
      BY <1>3, <1>5, <3>2
  <2> QED
    BY <1>5, <2>1
<1>7. path = Body(path)
  BY <1>6
<1>8. Walk(r, links, bound) = path[bound]
  BY DEF Walk
<1> HIDE DEF path
<1>9. path[0] = <<>> /\ \A n \in 1 .. bound : path[n] = Further(path[n - 1], r, links)
  <2>1. \A n \in 0 .. bound :
           path[n] = IF n = 0 THEN <<>> ELSE Only({Further(p, r, links) : p \in {path[n - 1]}})
    BY <1>7
  <2>2. 0 \in 0 .. bound /\ \A n \in 1 .. bound : n \in 0 .. bound /\ n # 0
    OBVIOUS
  <2> QED
    BY <1>3, <2>1, <2>2
<1> DEFINE Reached(p, n) == /\ p \in Seq(Requests)
                            /\ Len(p) = (IF n < Len(q) THEN n ELSE Len(q))
                            /\ \A i \in 1 .. Len(p) : p[i] = q[i]
           S == {n \in Nat : n <= bound => Reached(path[n], n)}
<1>10. 0 \in S
  <2>1. path[0] = <<>> /\ Len(<<>>) = 0 /\ <<>> \in Seq(Requests)
    BY <1>9, EmptySeq
  <2>2. Reached(path[0], 0)
    BY <1>0, <2>1
  <2> QED
    BY <2>2
<1>11. ASSUME NEW n \in S PROVE n + 1 \in S
  <2> SUFFICES ASSUME n + 1 <= bound PROVE Reached(path[n + 1], n + 1)
    OBVIOUS
  <2> DEFINE p == path[n]
  <2>1. n \in Nat /\ n + 1 \in 1 .. bound /\ (n + 1) - 1 = n
    BY <1>11
  <2>2. /\ p \in Seq(Requests)
        /\ Len(p) = (IF n < Len(q) THEN n ELSE Len(q))
        /\ \A i \in 1 .. Len(p) : p[i] = q[i]
    BY <1>11, <2>1
  <2>3. path[n + 1] = Further(p, r, links)
    BY <1>9, <2>1
  <2> HIDE DEF p
  <2> DEFINE k == Len(p)
             following == IF p = <<>> THEN r ELSE links[p[k]]
  <2>4. k \in 0 .. Len(q) /\ (p = <<>> <=> k = 0)
    BY <1>0, <2>1, <2>2
  <2>5. following = IF k = Len(q) THEN Undefined ELSE q[k + 1]
    <3>1. CASE k = 0
      BY <2>4, <3>1
    <3>2. CASE k # 0
      <4>1. k \in 1 .. Len(q) /\ p[k] = q[k]
        BY <1>0, <2>2, <2>4, <3>2
      <4>2. links[q[k]] = After(q, k)
        BY <4>1
      <4> QED
        BY <2>4, <3>2, <4>1, <4>2 DEF After
    <3> QED
      BY <3>1, <3>2
  <2>6. path[n + 1] = IF following = Undefined THEN p ELSE Append(p, following)
    BY <2>3 DEF Further
  <2>7. CASE k = Len(q)
    <3>1. path[n + 1] = p
      BY <2>5, <2>6, <2>7
    <3>2. ~(n + 1 < Len(q))
      BY <1>0, <2>1, <2>2, <2>7
    <3> QED
      BY <2>2, <2>7, <3>1, <3>2
  <2>8. CASE k # Len(q)
    <3>1. k + 1 \in 1 .. Len(q) /\ k = n /\ n < Len(q)
      BY <1>0, <2>1, <2>2, <2>4, <2>8
    <3>2. following = q[k + 1] /\ following # Undefined /\ following \in Requests
      BY <1>0, <2>5, <2>8, <3>1
    <3>3. path[n + 1] = Append(p, following)
      BY <2>6, <3>2
    <3> HIDE DEF following
    <3>4. /\ path[n + 1] \in Seq(Requests) /\ Len(path[n + 1]) = k + 1
          /\ path[n + 1][k + 1] = following
          /\ \A i \in 1 .. k : path[n + 1][i] = p[i]
      BY <2>2, <3>2, <3>3, AppendProperties, SMTT(40)
    <3>5. \A i \in 1 .. k + 1 : path[n + 1][i] = q[i]
      <4>1. \A i \in 1 .. k + 1 : i \in 1 .. k \/ i = k + 1
        BY <2>4
      <4> QED
        BY <2>2, <3>2, <3>4, <4>1
    <3>6. Len(path[n + 1]) = (IF n + 1 < Len(q) THEN n + 1 ELSE Len(q))
      BY <1>0, <2>1, <3>1, <3>4
    <3> QED
      BY <3>4, <3>5, <3>6
  <2> QED
    BY <2>7, <2>8
<1> HIDE DEF S
<1>12. S = Nat
  <2>1. S \subseteq Nat
    BY DEF S
  <2> QED
    BY <1>10, <1>11, <2>1, InductionOnSet
<1>13. Reached(path[bound], bound)
  <2>1. bound \in S
    BY <1>12
  <2> QED
    BY <2>1 DEF S
<1>14. path[bound] = q
  <2>1. path[bound] \in Seq(Requests) /\ Len(path[bound]) = Len(q)
    BY <1>0, <1>13
  <2> QED
    BY <1>13, <2>1, SeqEqual
<1> QED
  BY <1>8, <1>14

(* A list has no more requests than there are.                             *)
LEMMA ListIsBounded ==
    ASSUME NEW q \in Seq(Requests), Distinct(q)
    PROVE  Cardinality(Requests) \in Nat /\ Len(q) <= Cardinality(Requests)
<1>1. Len(q) \in Nat
  OBVIOUS
<1>2. IsFiniteSet(Requests)
  BY AdmissionAssumption DEF AdmissionAssumption
<1>3. Cardinality(Requests) \in Nat
  BY <1>2, FS_CardinalityType
<1>4. Cardinality(1 .. Len(q)) = Len(q)
  <2>1. 1 \in Int /\ Len(q) \in Int
    BY <1>1
  <2>2. Cardinality(1 .. Len(q)) = IF 1 > Len(q) THEN 0 ELSE Len(q) - 1 + 1
    BY <1>1, FS_Interval
  <2> QED
    BY <1>1, <2>2
<1> DEFINE place == [i \in 1 .. Len(q) |-> q[i]]
<1>5. place \in Injection(1 .. Len(q), Requests)
  BY DEF Distinct, Injection, IsInjective
<1>6. Cardinality(1 .. Len(q)) <= Cardinality(Requests)
  <2> HIDE DEF place
  <2> QED
    BY <1>2, <1>5, FS_Injection
<1> QED
  BY <1>3, <1>4, <1>6

(* The walk from the first request visits the list in its order.           *)
LEMMA ForwardIsTheList ==
    ASSUME NEW q \in Seq(Requests), Distinct(q), NEW l, IsList(l, q)
    PROVE  Forward(l) = q
<1>1. Cardinality(Requests) \in Nat /\ Len(q) <= Cardinality(Requests)
  BY ListIsBounded
<1>2. l.next \in [Requests -> Link] /\ l.first \in Link
  BY DEF IsList, Lists
<1>3. /\ l.first = IF Len(q) = 0 THEN Undefined ELSE q[1]
      /\ \A i \in 1 .. Len(q) : l.next[q[i]] = After(q, i)
  BY DEF IsList
<1> QED
  BY <1>1, <1>2, <1>3, WalkIsTheSequence DEF Forward

-----------------------------------------------------------------------------
(* The loop of #startQueuedCompilations.                                   *)

(* What a handler works on.                                                *)
Handlers == [list : Lists, count : Nat, bytes : Nat, state : [Requests -> RequestStates],
             listening : SUBSET Requests]

(* The rest of q behind its first k requests.                              *)
Rest(q, k) == SubSeq(q, k + 1, Len(q))

(* From what the handler h has left behind, the first k waiters of q have  *)
(* gone: to run, or away when their signal is aborted.                     *)
Drained(c, h, q, k) ==
    LET gone    == Prefix(q, k)
        started == Live(gone)
    IN  /\ c \in Handlers
        /\ IsList(c.list, Rest(q, k))
        /\ c.count = h.count + Cardinality(started)
        /\ c.bytes = h.bytes + WeightOf(started)
        /\ c.listening = h.listening \ gone
        /\ c.state = [r \in Requests |-> IF r \in started THEN "active"
                                         ELSE IF r \in gone THEN "cancelled"
                                         ELSE h.state[r]]

(* The rest is the sequence from the next request on.                      *)
LEMMA RestProperties ==
    ASSUME NEW q \in Seq(Requests), Distinct(q), NEW k \in 0 .. Len(q)
    PROVE  /\ Rest(q, k) \in Seq(Requests) /\ Distinct(Rest(q, k))
           /\ Len(Rest(q, k)) = Len(q) - k
           /\ \A i \in 1 .. Len(q) - k : Rest(q, k)[i] = q[k + i]
<1>1. /\ Rest(q, k) \in Seq(Requests)
      /\ Len(Rest(q, k)) = Len(q) - k
      /\ \A i \in 1 .. Len(q) - k : Rest(q, k)[i] = q[k + i]
  <2>1. \A i \in k + 1 .. Len(q) : q[i] \in Requests
    OBVIOUS
  <2> QED
    BY <2>1, SubSeqProperties DEF Rest
<1>2. \A i \in 1 .. Len(q) - k : k + i \in 1 .. Len(q)
  OBVIOUS
<1>3. Distinct(Rest(q, k))
  BY <1>1, <1>2 DEF Distinct
<1> QED
  BY <1>1, <1>3

(* Nobody has gone: the rest is all, and nothing is charged.               *)
LEMMA NobodyHasGone ==
    ASSUME NEW q \in Seq(Requests), Distinct(q), NEW h \in Handlers, IsList(h.list, q)
    PROVE  Drained(h, h, q, 0)
<1>1. Rest(q, 0) = q
  <2>1. /\ Rest(q, 0) \in Seq(Requests) /\ Len(Rest(q, 0)) = Len(q)
        /\ \A i \in 1 .. Len(q) : Rest(q, 0)[i] = q[i]
    BY RestProperties
  <2> QED
    BY <2>1, SeqEqual
<1>2. Prefix(q, 0) = {} /\ Live({}) = {}
  BY DEF Prefix, Live
<1>3. WeightOf({}) = 0 /\ Cardinality({}) = 0
  BY WeightOfNone
<1>4. /\ h.count \in Nat /\ h.bytes \in Nat /\ h.state \in [Requests -> RequestStates]
  BY DEF Handlers
<1>5. /\ h.count = h.count + 0 /\ h.bytes = h.bytes + 0
      /\ h.state = [r \in Requests |-> h.state[r]]
  BY <1>4
<1> QED
  BY <1>1, <1>2, <1>3, <1>5 DEF Drained

(* Taking any request out of any links gives links.                        *)
LEMMA RemoveType ==
    ASSUME NEW l \in Lists, NEW r \in Requests
    PROVE  Remove(l, r) \in Lists
<1>1. /\ l.next \in [Requests -> Link] /\ l.previous \in [Requests -> Link]
      /\ l.queued \in [Requests -> BOOLEAN] /\ l.first \in Link /\ l.last \in Link
  BY DEF Lists
<1>2. l.next[r] \in Link /\ l.previous[r] \in Link
  BY <1>1
<1>3. /\ Relinked(l.previous, r, l.next[r], l.previous[r]) \in [Requests -> Link]
      /\ Relinked(l.next, r, l.previous[r], l.next[r]) \in [Requests -> Link]
  BY <1>1, <1>2 DEF Relinked, Link
<1> DEFINE e == Remove(l, r)
<1>4. /\ e = [first |-> e.first, last |-> e.last, previous |-> e.previous,
              next |-> e.next, queued |-> e.queued]
      /\ e.first = (IF l.previous[r] = Undefined THEN l.next[r] ELSE l.first)
      /\ e.last = (IF l.next[r] = Undefined THEN l.previous[r] ELSE l.last)
      /\ e.previous = Relinked(l.previous, r, l.next[r], l.previous[r])
      /\ e.next = Relinked(l.next, r, l.previous[r], l.next[r])
      /\ e.queued = [l.queued EXCEPT ![r] = FALSE]
  BY DEF Remove
<1> HIDE DEF e
<1>5. e.first \in Link /\ e.last \in Link /\ e.queued \in [Requests -> BOOLEAN]
  BY <1>1, <1>2, <1>4
<1> QED
  BY <1>3, <1>4, <1>5 DEF Lists, e

(* d is c with the list l, after r of weight w and signal s has started or *)
(* been rejected.                                                          *)
HasStarted(d, c, l, r, w, s) ==
    /\ d \in Handlers /\ d.list = l /\ d.listening = c.listening \ {r}
    /\ s \in aborted => d.state = [c.state EXCEPT ![r] = "cancelled"]
                        /\ d.count = c.count /\ d.bytes = c.bytes
    /\ s \notin aborted => d.state = [c.state EXCEPT ![r] = "active"]
                           /\ d.count = c.count + 1 /\ d.bytes = c.bytes + w

(* What #startCompilation leaves of a handler.                             *)
LEMMA StartCompilationFields ==
    ASSUME NEW c \in Handlers, NEW l \in Lists, NEW r \in Requests, NEW w \in Nat, NEW s,
           NEW d, d = StartCompilation([c EXCEPT !.list = l], r, w, s)
    PROVE  HasStarted(d, c, l, r, w, s)
<1>1. /\ c = [list |-> c.list, count |-> c.count, bytes |-> c.bytes, state |-> c.state,
              listening |-> c.listening]
      /\ c.count \in Nat /\ c.bytes \in Nat /\ c.state \in [Requests -> RequestStates]
      /\ c.listening \in SUBSET Requests
  BY DEF Handlers
<1> DEFINE u == [list |-> l, count |-> c.count, bytes |-> c.bytes, state |-> c.state,
                 listening |-> c.listening \ {r}]
<1>2. [[c EXCEPT !.list = l] EXCEPT !.listening = @ \ {r}] = u
  <2> DEFINE v == [c EXCEPT !.list = l]
  <2>1. v = [list |-> l, count |-> c.count, bytes |-> c.bytes, state |-> c.state,
             listening |-> c.listening]
    BY <1>1
  <2> HIDE DEF v
  <2>2. [v EXCEPT !.listening = @ \ {r}] = u
    BY <2>1
  <2> QED
    BY <2>2 DEF v
<1>3. d = IF s \in aborted THEN [u EXCEPT !.state[r] = "cancelled"]
          ELSE [u EXCEPT !.state[r] = "active", !.count = @ + 1, !.bytes = @ + w]
  BY <1>2 DEF StartCompilation
<1>4. CASE s \in aborted
  <2> DEFINE f == [c.state EXCEPT ![r] = "cancelled"]
  <2>1. d = [list |-> l, count |-> c.count, bytes |-> c.bytes, state |-> f,
             listening |-> c.listening \ {r}]
    BY <1>3, <1>4
  <2>2. f \in [Requests -> RequestStates]
    BY <1>1 DEF RequestStates
  <2> HIDE DEF f
  <2>3. d \in Handlers
    BY <1>1, <2>1, <2>2 DEF Handlers
  <2> QED
    BY <1>4, <2>1, <2>3 DEF f, HasStarted
<1>5. CASE s \notin aborted
  <2> DEFINE f == [c.state EXCEPT ![r] = "active"]
             n == c.count + 1
             b == c.bytes + w
  <2>1. d = [list |-> l, count |-> n, bytes |-> b, state |-> f, listening |-> c.listening \ {r}]
    BY <1>3, <1>5
  <2>2. f \in [Requests -> RequestStates]
    BY <1>1 DEF RequestStates
  <2>3. n \in Nat /\ b \in Nat
    BY <1>1
  <2> HIDE DEF f, n, b
  <2>4. d \in Handlers
    BY <1>1, <2>1, <2>2, <2>3 DEF Handlers
  <2> QED
    BY <1>5, <2>1, <2>4 DEF f, n, b, HasStarted
<1> QED
  BY <1>4, <1>5

(* A turn of the loop leaves a handler's state a handler's state.          *)
LEMMA StartFirstType ==
    ASSUME TypeOK, NEW c \in Handlers
    PROVE  StartFirst(c) \in Handlers
<1> DEFINE r == c.list.first
<1>1. c.list \in Lists /\ r \in Link
  BY DEF Handlers, Lists
<1>2. CASE r = Undefined \/ ~CanStartCompilation(c.count, c.bytes, weight[r])
  BY <1>2 DEF StartFirst
<1>3. CASE ~(r = Undefined \/ ~CanStartCompilation(c.count, c.bytes, weight[r]))
  <2>1. r \in Requests /\ weight[r] \in Nat
    BY <1>1, <1>3 DEF Link, TypeOK
  <2>2. [c EXCEPT !.list = Remove(@, r)] = [c EXCEPT !.list = Remove(c.list, r)]
    OBVIOUS
  <2>3. StartFirst(c) = StartCompilation([c EXCEPT !.list = Remove(c.list, r)], r, weight[r], signal[r])
    BY <1>3, <2>2 DEF StartFirst
  <2>4. Remove(c.list, r) \in Lists
    BY <1>1, <2>1, RemoveType
  <2> DEFINE l == Remove(c.list, r)
             w == weight[r]
             s == signal[r]
             d == StartFirst(c)
  <2>5. l \in Lists /\ r \in Requests /\ w \in Nat
        /\ d = StartCompilation([c EXCEPT !.list = l], r, w, s)
    BY <2>1, <2>3, <2>4
  <2> HIDE DEF r, l, w, s, d
  <2>6. HasStarted(d, c, l, r, w, s)
    BY <2>5, StartCompilationFields
  <2>7. d \in Handlers
    BY <2>6 DEF HasStarted
  <2> QED
    BY <2>7 DEF d
<1> QED
  BY <1>2, <1>3

Stops(q, k, h) == k = Len(q) \/ ~StartableAt(q, k + 1, h.count, h.bytes)

(* One turn of the loop takes the first of the waiters that are left, if   *)
(* it may start, and otherwise changes nothing.                            *)
LEMMA OneTurn ==
    ASSUME TypeOK, NEW q \in Seq(Requests), Distinct(q), NEW h \in Handlers,
           NEW k \in 0 .. Len(q), NEW c, Drained(c, h, q, k)
    PROVE  /\ Stops(q, k, h) => StartFirst(c) = c
           /\ ~Stops(q, k, h) => Drained(StartFirst(c), h, q, k + 1)
<1> DEFINE rest == Rest(q, k)
           gone == Prefix(q, k)
           started == Live(gone)
           r == q[k + 1]
           w == weight[r]
           s == signal[r]
<1>0. Len(q) \in Nat /\ k \in 0 .. Len(q)
  OBVIOUS
<1>1. /\ rest \in Seq(Requests) /\ Distinct(rest) /\ Len(rest) = Len(q) - k
      /\ \A i \in 1 .. Len(q) - k : rest[i] = q[k + i]
  BY RestProperties
<1>2. /\ c \in Handlers /\ IsList(c.list, rest)
      /\ c.count = h.count + Cardinality(started)
      /\ c.bytes = h.bytes + WeightOf(started)
      /\ c.listening = h.listening \ gone
      /\ c.state = [x \in Requests |-> IF x \in started THEN "active"
                                       ELSE IF x \in gone THEN "cancelled" ELSE h.state[x]]
  BY DEF Drained
<1>3. c.list.first = IF k = Len(q) THEN Undefined ELSE r
  <2>1. c.list.first = IF Len(rest) = 0 THEN Undefined ELSE rest[1]
    BY <1>2 DEF IsList
  <2>2. Len(rest) = 0 <=> k = Len(q)
    BY <1>0, <1>1
  <2>3. k # Len(q) => rest[1] = q[k + 1]
    BY <1>0, <1>1
  <2> QED
    BY <2>1, <2>2, <2>3
<1>4. CASE k = Len(q)
  BY <1>3, <1>4 DEF StartFirst, Stops
<1>5. CASE k # Len(q)
  <2>1. k + 1 \in 1 .. Len(q) /\ (k + 1) - 1 = k /\ r \in Requests /\ r # Undefined
    BY <1>0, <1>5, AbsentIsNoRequest
  <2>2. StartableAt(q, k + 1, h.count, h.bytes) <=> CanStartCompilation(c.count, c.bytes, w)
    BY <1>2, <2>1 DEF StartableAt
  <2>3. ASSUME Stops(q, k, h) PROVE StartFirst(c) = c
    BY <1>3, <1>5, <2>2, <2>3 DEF StartFirst, Stops
  <2>4. ASSUME ~Stops(q, k, h) PROVE Drained(StartFirst(c), h, q, k + 1)
    <3> DEFINE l == Remove(c.list, r)
               d == StartFirst(c)
               now == Prefix(q, k + 1)
               running == Live(now)
    <3>1. rest[1] = r /\ 1 \in 1 .. Len(rest)
      BY <1>0, <1>1, <1>5
    <3>2. Without(rest, 1) = Rest(q, k + 1)
      <4> DEFINE v == Without(rest, 1)
      <4>1. /\ v \in Seq(Requests) /\ Len(v) = Len(rest) - 1
            /\ \A j \in 1 .. Len(rest) - 1 : v[j] = IF j < 1 THEN rest[j] ELSE rest[j + 1]
        BY <1>1, <3>1, WithoutProperties
      <4>2. k + 1 \in 0 .. Len(q)
        BY <2>1
      <4>3. /\ Rest(q, k + 1) \in Seq(Requests) /\ Len(Rest(q, k + 1)) = Len(q) - (k + 1)
            /\ \A i \in 1 .. Len(q) - (k + 1) : Rest(q, k + 1)[i] = q[(k + 1) + i]
        BY <4>2, RestProperties
      <4> HIDE DEF v, rest
      <4>4. Len(v) = Len(Rest(q, k + 1))
        <5>1. Len(v) = (Len(q) - k) - 1
          BY <1>1, <4>1
        <5>2. (Len(q) - k) - 1 = Len(q) - (k + 1)
          BY <1>0
        <5> QED
          BY <4>3, <5>1, <5>2
      <4>5. ASSUME NEW j \in 1 .. Len(v) PROVE v[j] = Rest(q, k + 1)[j]
        <5>1. /\ j \in 1 .. Len(rest) - 1 /\ ~(j < 1) /\ j + 1 \in 1 .. Len(q) - k
              /\ j \in 1 .. Len(q) - (k + 1) /\ k + (j + 1) = (k + 1) + j
          BY <1>0, <1>1, <4>1
        <5>2. v[j] = rest[j + 1] /\ rest[j + 1] = q[k + (j + 1)]
          BY <1>1, <4>1, <5>1
        <5> QED
          BY <4>3, <5>1, <5>2
      <4>6. v = Rest(q, k + 1)
        BY <4>1, <4>3, <4>4, <4>5, SeqEqual
      <4> QED
        BY <4>6 DEF v
    <3>3. IsList(l, Rest(q, k + 1)) /\ l \in Lists
      <4>1. IsList(Remove(c.list, rest[1]), Without(rest, 1))
        <5> HIDE DEF rest
        <5> QED
          BY <1>1, <1>2, <3>1, RemoveTakesOut
      <4>2. IsList(l, Rest(q, k + 1))
        BY <3>1, <3>2, <4>1
      <4> QED
        BY <4>2 DEF IsList
    <3>4. d = StartCompilation([c EXCEPT !.list = l], r, w, s)
      <4>1. [c EXCEPT !.list = Remove(@, r)] = [c EXCEPT !.list = l]
        OBVIOUS
      <4>2. c.list.first = r /\ r # Undefined /\ CanStartCompilation(c.count, c.bytes, w)
        BY <1>3, <1>5, <2>1, <2>2, <2>4 DEF Stops
      <4> QED
        BY <4>1, <4>2 DEF StartFirst
    <3>5. w \in Nat
      BY <2>1 DEF TypeOK
    <3>6. /\ d \in Handlers /\ d.list = l /\ d.listening = c.listening \ {r}
          /\ s \in aborted => d.state = [c.state EXCEPT ![r] = "cancelled"]
                              /\ d.count = c.count /\ d.bytes = c.bytes
          /\ s \notin aborted => d.state = [c.state EXCEPT ![r] = "active"]
                                 /\ d.count = c.count + 1 /\ d.bytes = c.bytes + w
      <4>1. c \in Handlers /\ l \in Lists /\ r \in Requests /\ w \in Nat
            /\ d = StartCompilation([c EXCEPT !.list = l], r, w, s)
        BY <1>2, <2>1, <3>3, <3>4, <3>5
      <4> HIDE DEF d, l, r, w, s
      <4>2. HasStarted(d, c, l, r, w, s)
        BY <4>1, StartCompilationFields
      <4> QED
        BY <4>2 DEF HasStarted
    <3>7. now = gone \cup {r} /\ r \notin gone /\ gone \subseteq Requests
      <4>1. k + 1 \in Nat \ {0}
        BY <2>1
      <4>2. now = Prefix(q, (k + 1) - 1) \cup {r}
        BY <4>1, PrefixExtends
      <4>3. r \notin gone
        <5>1. \A i \in 1 .. k : i \in 1 .. Len(q) /\ i # k + 1
          BY <1>0
        <5> QED
          BY <2>1, <5>1 DEF Prefix, Distinct
      <4>4. gone \subseteq Requests
        <5>1. \A i \in 1 .. k : q[i] \in Requests
          BY <1>0
        <5> QED
          BY <5>1 DEF Prefix
      <4> QED
        BY <2>1, <4>2, <4>3, <4>4
    <3>8. /\ s \in aborted => running = started
          /\ s \notin aborted => running = started \cup {r}
          /\ started \subseteq Requests /\ r \notin started
      BY <3>7 DEF Live, IsAborted
    <3>9. /\ Cardinality(started) \in Nat /\ WeightOf(started) \in Nat
          /\ h.count \in Nat /\ h.bytes \in Nat
      <4>1. h.count \in Nat /\ h.bytes \in Nat
        BY DEF Handlers
      <4> QED
        BY <3>8, <4>1, ReservedFinite
    <3>10. d.listening = h.listening \ now
      BY <1>2, <3>6, <3>7
    <3>11. c.state \in [Requests -> RequestStates]
      BY <1>2 DEF Handlers
    <3>12. CASE s \in aborted
      <4>1. running = started /\ r \notin running
        BY <3>8, <3>12
      <4>2. d.count = h.count + Cardinality(running) /\ d.bytes = h.bytes + WeightOf(running)
        BY <1>2, <3>6, <3>12, <4>1
      <4>3. d.state = [x \in Requests |-> IF x \in running THEN "active"
                                          ELSE IF x \in now THEN "cancelled" ELSE h.state[x]]
        <5>1. d.state = [c.state EXCEPT ![r] = "cancelled"]
          BY <3>6, <3>12
        <5> HIDE DEF d, now, running, gone, started, r
        <5> QED
          BY <1>2, <3>7, <4>1, <5>1
      <4> QED
        BY <3>3, <3>6, <3>10, <4>2, <4>3 DEF Drained
    <3>13. CASE s \notin aborted
      <4>1. running = started \cup {r} /\ started \cap {r} = {}
        BY <3>8, <3>13
      <4>2. started \in SUBSET Requests /\ {r} \in SUBSET Requests
        BY <2>1, <3>8
      <4>3. /\ Cardinality(running) = Cardinality(started) + Cardinality({r})
            /\ WeightOf(running) = WeightOf(started) + WeightOf({r})
        <5> HIDE DEF started, r
        <5> QED
          BY <4>1, <4>2, DisjointUnion
      <4>4. Cardinality({r}) = 1 /\ WeightOf({r}) = w
        BY <2>1, WeightOfOne, FS_Singleton
      <4>5. /\ h.count + (Cardinality(started) + 1) = h.count + Cardinality(started) + 1
            /\ h.bytes + (WeightOf(started) + w) = h.bytes + WeightOf(started) + w
        <5>1. \A x, y, z \in Nat : x + (y + z) = x + y + z
          BY SumsAssociate
        <5> HIDE DEF started, w
        <5> QED
          BY <3>5, <3>9, <5>1, SMTT(40)
      <4>6. d.count = c.count + 1 /\ d.bytes = c.bytes + w
        BY <3>6, <3>13
      <4>7. d.count = h.count + Cardinality(running) /\ d.bytes = h.bytes + WeightOf(running)
        BY <1>2, <4>3, <4>4, <4>5, <4>6
      <4>8. d.state = [x \in Requests |-> IF x \in running THEN "active"
                                          ELSE IF x \in now THEN "cancelled" ELSE h.state[x]]
        <5>1. d.state = [c.state EXCEPT ![r] = "active"]
          BY <3>6, <3>13
        <5> HIDE DEF d, now, running, gone, started, r
        <5> QED
          BY <1>2, <3>7, <4>1, <5>1
      <4> QED
        BY <3>3, <3>6, <3>10, <4>7, <4>8 DEF Drained
    <3> QED
      BY <3>12, <3>13
  <2> QED
    BY <2>3, <2>4
<1> QED
  BY <1>4, <1>5

Startable(q, k, h) == \A i \in 1 .. k : StartableAt(q, i, h.count, h.bytes)

(* The loop takes waiters from the front as long as they may start, and    *)
(* ends: it needs no more turns than there are requests.                   *)
LEMMA LoopDrains ==
    ASSUME TypeOK, NEW q \in Seq(Requests), Distinct(q), NEW h \in Handlers, IsList(h.list, q)
    PROVE  \E k \in 0 .. Len(q) :
              Startable(q, k, h) /\ Stops(q, k, h) /\ Drained(StartQueued(h), h, q, k)
<1> DEFINE N == Cardinality(Requests)
           G == [c \in Handlers |-> StartFirst(c)]
           Body(f) == [n \in 0 .. N |->
                         IF n = 0 THEN h ELSE Only({StartFirst(c) : c \in {f[n - 1]}})]
           after == CHOOSE f : f = Body(f)
<1>0. N \in Nat /\ Len(q) \in Nat /\ Len(q) <= N
  BY ListIsBounded
<1>1. G \in [Handlers -> Handlers]
  BY StartFirstType
<1>2. \A x : Only({StartFirst(c) : c \in {x}}) = StartFirst(x)
  BY DEF Only
<1>3. PICK f \in [0 .. N -> Handlers] : Repeats(f, G, h, N)
  <2> HIDE DEF G, N
  <2> QED
    BY <1>0, <1>1, RepetitionExists
<1>4. f = Body(f)
  <2>1. ASSUME NEW n \in 0 .. N
        PROVE  f[n] = IF n = 0 THEN h ELSE Only({StartFirst(c) : c \in {f[n - 1]}})
    <3>1. f[n] = IF n = 0 THEN h ELSE G[f[n - 1]]
      BY <1>3 DEF Repeats
    <3>2. n # 0 => n - 1 \in 0 .. N /\ f[n - 1] \in Handlers
      BY <1>0, <1>3
    <3>3. n # 0 => G[f[n - 1]] = StartFirst(f[n - 1])
      BY <3>2
    <3> QED
      BY <1>2, <3>1, <3>3
  <2> QED
    BY <1>3, <2>1
<1>5. after = Body(after)
  BY <1>4
<1>6. StartQueued(h) = after[N]
  BY DEF StartQueued
<1> HIDE DEF after
<1>7. after[0] = h /\ \A n \in 1 .. N : after[n] = StartFirst(after[n - 1])
  <2>1. \A n \in 0 .. N : after[n] = IF n = 0 THEN h ELSE Only({StartFirst(c) : c \in {after[n - 1]}})
    BY <1>5
  <2>2. 0 \in 0 .. N /\ \A n \in 1 .. N : n \in 0 .. N /\ n # 0
    BY <1>0
  <2> QED
    BY <1>2, <2>1, <2>2
<1> HIDE DEF N
<1> DEFINE Reached(n, k) == /\ k <= n /\ Startable(q, k, h) /\ (k = n \/ Stops(q, k, h))
                          /\ Drained(after[n], h, q, k)
           S == {n \in Nat : n <= N => \E k \in 0 .. Len(q) : Reached(n, k)}
<1>8. 0 \in S
  <2>1. Drained(after[0], h, q, 0) /\ 0 \in 0 .. Len(q)
    BY <1>0, <1>7, NobodyHasGone
  <2>2. Startable(q, 0, h)
    BY DEF Startable
  <2> QED
    BY <2>1, <2>2
<1>9. ASSUME NEW n \in S PROVE n + 1 \in S
  <2> SUFFICES ASSUME n + 1 <= N PROVE \E k \in 0 .. Len(q) : Reached(n + 1, k)
    OBVIOUS
  <2>1. n \in Nat /\ n <= N /\ n + 1 \in 1 .. N /\ (n + 1) - 1 = n
    BY <1>0, <1>9
  <2>2. PICK k \in 0 .. Len(q) : Reached(n, k)
    BY <1>9, <2>1
  <2>3. after[n + 1] = StartFirst(after[n])
    BY <1>7, <2>1
  <2>4. CASE Stops(q, k, h)
    <3>1. StartFirst(after[n]) = after[n]
      BY <2>2, <2>4, OneTurn
    <3>2. k <= n + 1
      BY <2>1, <2>2
    <3>3. Reached(n + 1, k)
      BY <2>2, <2>3, <2>4, <3>1, <3>2
    <3> QED
      BY <3>3
  <2>5. CASE ~Stops(q, k, h)
    <3>1. Drained(after[n + 1], h, q, k + 1)
      BY <2>2, <2>3, <2>5, OneTurn
    <3>2. k = n /\ k + 1 \in 0 .. Len(q) /\ k + 1 <= n + 1
      BY <1>0, <2>1, <2>2, <2>5 DEF Stops
    <3>3. Startable(q, k + 1, h)
      <4>1. StartableAt(q, k + 1, h.count, h.bytes)
        BY <2>5 DEF Stops
      <4>2. \A i \in 1 .. k + 1 : i \in 1 .. k \/ i = k + 1
        OBVIOUS
      <4> QED
        BY <2>2, <4>1, <4>2 DEF Startable
    <3>4. Reached(n + 1, k + 1)
      BY <3>1, <3>2, <3>3
    <3> QED
      BY <3>2, <3>4
  <2> QED
    BY <2>4, <2>5
<1> HIDE DEF S
<1>10. S = Nat
  <2>1. S \subseteq Nat
    BY DEF S
  <2> QED
    BY <1>8, <1>9, <2>1, InductionOnSet
<1>11. PICK k \in 0 .. Len(q) : Reached(N, k)
  <2>1. N \in S
    BY <1>0, <1>10
  <2> QED
    BY <1>0, <2>1 DEF S
<1>12. k = N => k = Len(q)
  BY <1>0
<1>13. Stops(q, k, h)
  BY <1>11, <1>12 DEF Stops
<1> QED
  BY <1>6, <1>11, <1>13

(* A handler that ends in the loop ends like StartQueuedCompilations.      *)
LEMMA LoopRefines ==
    ASSUME TypeOK, NEW q \in Seq(Requests), Distinct(q), NEW h \in Handlers, IsList(h.list, q),
           Become(StartQueued(h))
    PROVE  /\ StartQueuedCompilations(q, h.count, h.bytes, h.state, h.listening)
           /\ IsList(list', queue')
<1> DEFINE e == StartQueued(h)
<1>1. PICK k \in 0 .. Len(q) : Startable(q, k, h) /\ Stops(q, k, h) /\ Drained(e, h, q, k)
  BY LoopDrains
<1>2. /\ list' = e.list /\ queue' = Forward(e.list) /\ activeCount' = e.count
      /\ activeWeight' = e.bytes /\ state' = e.state /\ listening' = e.listening
  BY DEF Become
<1> HIDE DEF e
<1>3. /\ IsList(e.list, Rest(q, k))
      /\ e.count = h.count + Cardinality(Live(Prefix(q, k)))
      /\ e.bytes = h.bytes + WeightOf(Live(Prefix(q, k)))
      /\ e.listening = h.listening \ Prefix(q, k)
      /\ e.state = [r \in Requests |-> IF r \in Live(Prefix(q, k)) THEN "active"
                                       ELSE IF r \in Prefix(q, k) THEN "cancelled"
                                       ELSE h.state[r]]
  BY <1>1 DEF Drained
<1>4. Rest(q, k) \in Seq(Requests) /\ Distinct(Rest(q, k))
  BY RestProperties
<1>5. queue' = Rest(q, k)
  BY <1>2, <1>3, <1>4, ForwardIsTheList
<1>6. \A i \in 1 .. k : StartableAt(q, i, h.count, h.bytes)
  BY <1>1 DEF Startable
<1>7. k < Len(q) => ~StartableAt(q, k + 1, h.count, h.bytes)
  BY <1>1 DEF Stops
<1>8. StartQueuedCompilations(q, h.count, h.bytes, h.state, h.listening)
  BY <1>2, <1>3, <1>5, <1>6, <1>7 DEF StartQueuedCompilations, Rest
<1> QED
  BY <1>2, <1>3, <1>5, <1>8

-----------------------------------------------------------------------------
(* The handlers of AdmissionList are steps of CompilationAdmission.        *)

(* What holds between handlers: the invariant of the queue, and that the   *)
(* linked list is the queue.                                               *)
LInv == IInv /\ IsList(list, queue)

(* The queue as the lemmas about lists need it.                            *)
LEMMA QueueIsAList ==
    ASSUME LInv
    PROVE  /\ TypeOK /\ queue \in Seq(Requests) /\ Distinct(queue) /\ Here \in Handlers
           /\ \A r \in Requests : state[r] = "queued" <=> r \in Members(queue)
           /\ \A r \in listening : state[r] = "queued"
           /\ Here.list = list /\ Here.count = activeCount /\ Here.bytes = activeWeight
           /\ Here.state = state /\ Here.listening = listening
<1>1. TypeOK /\ QueueHoldsTheWaiting /\ list \in Lists
  BY DEF LInv, IInv, IsList
<1>2. queue \in Seq(Requests) /\ Distinct(queue)
  BY <1>1 DEF TypeOK, QueueHoldsTheWaiting, Distinct
<1>3. \A r \in Requests : state[r] = "queued" <=> r \in Members(queue)
  BY <1>1 DEF QueueHoldsTheWaiting, Members
<1>4. \A r \in listening : state[r] = "queued"
  BY <1>1 DEF QueueHoldsTheWaiting
<1>5. Here \in Handlers
  <2>1. /\ activeCount \in Nat /\ activeWeight \in Nat /\ state \in [Requests -> RequestStates]
        /\ listening \in SUBSET Requests
    BY <1>1 DEF TypeOK
  <2> QED
    BY <1>1, <2>1 DEF Handlers, Here, Handler
<1>6. /\ Here.list = list /\ Here.count = activeCount /\ Here.bytes = activeWeight
      /\ Here.state = state /\ Here.listening = listening
  BY DEF Here, Handler
<1> QED
  BY <1>1, <1>2, <1>3, <1>4, <1>5, <1>6

(* admit().                                                                *)
LEMMA AdmitRefines ==
    ASSUME LInv, NEW r \in Requests, NEW e \in Estimates, NEW s \in Signals \cup {NoSignal},
           Admit(r, e, s)
    PROVE  (AdmitNow(r, e, s) \/ AdmitLater(r, e, s)) /\ IsList(list', queue')
<1> DEFINE w == AdmissionWeight(e)
<1>0. w \in Nat
  BY AdmissionWeightType
<1>1. /\ TypeOK /\ queue \in Seq(Requests) /\ Distinct(queue) /\ Here \in Handlers
      /\ \A x \in Requests : state[x] = "queued" <=> x \in Members(queue)
      /\ \A x \in listening : state[x] = "queued"
      /\ Here.list = list /\ Here.count = activeCount /\ Here.bytes = activeWeight
      /\ Here.state = state /\ Here.listening = listening
  BY QueueIsAList
<1>2. IsList(list, queue)
  BY DEF LInv
<1>3. /\ state[r] = "idle" /\ aborted' = aborted
      /\ weight' = [weight EXCEPT ![r] = w] /\ signal' = [signal EXCEPT ![r] = s]
  BY DEF Admit, IsNextCall
<1>4. list.first = Undefined <=> queue = <<>>
  <2>1. list.first = IF Len(queue) = 0 THEN Undefined ELSE queue[1]
    BY <1>2 DEF IsList
  <2>2. Len(queue) # 0 => queue[1] \in Requests
    BY <1>1
  <2>3. Len(queue) = 0 <=> queue = <<>>
    BY <1>1
  <2> QED
    BY <2>1, <2>2, <2>3, AbsentIsNoRequest
<1>5. r \notin listening /\ r \notin Members(queue)
  BY <1>1, <1>3
<1>6. CASE list.first = Undefined /\ CanStartCompilation(activeCount, activeWeight, w)
  <2> DEFINE d == StartCompilation(Here, r, w, s)
  <2>1. Become(d)
    BY <1>6 DEF Admit
  <2>2. /\ list' = d.list /\ queue' = Forward(d.list) /\ activeCount' = d.count
        /\ activeWeight' = d.bytes /\ state' = d.state /\ listening' = d.listening
    BY <2>1 DEF Become
  <2>3. HasStarted(d, Here, list, r, w, s)
    <3> DEFINE c == Here
    <3>1. [c EXCEPT !.list = list] = c
      BY DEF Here, Handler
    <3>2. d = StartCompilation([c EXCEPT !.list = list], r, w, s)
      BY <3>1
    <3>3. c \in Handlers /\ list \in Lists
      BY <1>1, <1>2 DEF IsList
    <3> HIDE DEF c, d, w
    <3>4. HasStarted(d, c, list, r, w, s)
      BY <1>0, <3>2, <3>3, StartCompilationFields
    <3> QED
      BY <3>4 DEF c
  <2> HIDE DEF d, w
  <2>4. /\ list' = list /\ listening' = listening
        /\ s \in aborted => state' = [state EXCEPT ![r] = "cancelled"]
                            /\ activeCount' = activeCount /\ activeWeight' = activeWeight
        /\ s \notin aborted => state' = [state EXCEPT ![r] = "active"]
                               /\ activeCount' = activeCount + 1 /\ activeWeight' = activeWeight + w
    BY <1>1, <1>5, <2>2, <2>3 DEF HasStarted
  <2>5. queue' = queue
    <3>1. queue' = Forward(list)
      BY <2>2, <2>4
    <3> QED
      BY <1>1, <1>2, <3>1, ForwardIsTheList
  <2>6. AdmitNow(r, e, s)
    BY <1>3, <1>4, <1>6, <2>4, <2>5 DEF AdmitNow, IsAborted, w
  <2>7. IsList(list', queue')
    BY <1>2, <2>4, <2>5
  <2> QED
    BY <2>6, <2>7
<1>7. CASE ~(list.first = Undefined /\ CanStartCompilation(activeCount, activeWeight, w))
  <2> DEFINE l == Enqueue(list, r)
             heard == IF s = NoSignal \/ s \in aborted THEN listening ELSE listening \cup {r}
             f == [state EXCEPT ![r] = "queued"]
             d == [list |-> l, count |-> activeCount, bytes |-> activeWeight, state |-> f,
                   listening |-> heard]
  <2>1. Become(d)
    <3>1. d = Handler(l, activeCount, activeWeight, f, heard)
      BY DEF Handler
    <3> QED
      BY <1>7, <3>1 DEF Admit
  <2>2. /\ list' = l /\ queue' = Forward(l) /\ activeCount' = activeCount
        /\ activeWeight' = activeWeight /\ state' = f /\ listening' = heard
    BY <2>1 DEF Become
  <2>3. /\ Append(queue, r) \in Seq(Requests) /\ Distinct(Append(queue, r))
        /\ IsList(l, Append(queue, r))
    <3>1. r \in Requests \ Members(queue)
      BY <1>5
    <3> QED
      BY <1>1, <1>2, <3>1, EnqueueAppends
  <2>4. queue' = Append(queue, r)
    <3> HIDE DEF l
    <3> QED
      BY <2>2, <2>3, ForwardIsTheList
  <2>5. AdmitLater(r, e, s)
    <3> HIDE DEF w, l
    <3> QED
      BY <1>3, <1>4, <1>7, <2>2, <2>4 DEF AdmitLater, IsAborted, w
  <2>6. IsList(list', queue')
    BY <2>2, <2>3, <2>4
  <2> QED
    BY <2>5, <2>6
<1> QED
  BY <1>6, <1>7

(* The abort listener.                                                     *)
LEMMA AbortListenerRefines ==
    ASSUME LInv, NEW r \in Requests, AbortListener(r)
    PROVE  CancelWhileQueued(r) /\ IsList(list', queue')
<1>1. /\ TypeOK /\ queue \in Seq(Requests) /\ Distinct(queue)
      /\ \A x \in Requests : state[x] = "queued" <=> x \in Members(queue)
      /\ \A x \in listening : state[x] = "queued"
  BY QueueIsAList
<1>2. IsList(list, queue)
  BY DEF LInv
<1>3. r \in listening /\ signal[r] \in aborted /\ UNCHANGED <<weight, signal, aborted>>
  BY DEF AbortListener
<1>4. state[r] = "queued" /\ r \in Members(queue)
  BY <1>1, <1>3
<1>5. list.queued[r]
  BY <1>2, <1>4 DEF IsList
<1>6. PICK i \in 1 .. Len(queue) : queue[i] = r
  BY <1>4 DEF Members
<1> DEFINE l == Remove(list, r)
           heard == listening \ {r}
           f == [state EXCEPT ![r] = "cancelled"]
           h == [list |-> l, count |-> activeCount, bytes |-> activeWeight, state |-> f,
                 listening |-> heard]
<1>7. Become(StartQueued(h))
  <2>1. h = Handler(l, activeCount, activeWeight, f, heard)
    BY DEF Handler
  <2>2. Become(StartQueued(Handler(l, activeCount, activeWeight, f, heard)))
    BY <1>5 DEF AbortListener
  <2> QED
    BY <2>1, <2>2
<1>8. Without(queue, i) \in Seq(Requests) /\ Distinct(Without(queue, i))
  BY <1>1, WithoutNeighbours
<1>9. IsList(l, Without(queue, i))
  BY <1>1, <1>2, <1>6, RemoveTakesOut
<1>10. h \in Handlers
  <2>1. f \in [Requests -> RequestStates]
    BY <1>1 DEF TypeOK, RequestStates
  <2>2. heard \in SUBSET Requests /\ activeCount \in Nat /\ activeWeight \in Nat
    BY <1>1 DEF TypeOK
  <2>3. l \in Lists
    BY <1>9 DEF IsList
  <2> HIDE DEF f, heard, l
  <2> QED
    BY <2>1, <2>2, <2>3 DEF Handlers
<1>11. h.list = l /\ h.count = activeCount /\ h.bytes = activeWeight /\ h.state = f /\ h.listening = heard
  OBVIOUS
<1> HIDE DEF h
<1>12. /\ StartQueuedCompilations(Without(queue, i), h.count, h.bytes, h.state, h.listening)
       /\ IsList(list', queue')
  BY <1>1, <1>7, <1>8, <1>9, <1>10, <1>11, LoopRefines
<1>13. StartQueuedCompilations(Without(queue, i), activeCount, activeWeight, f, heard)
  BY <1>11, <1>12
<1>14. CancelWhileQueued(r)
  BY <1>3, <1>4, <1>6, <1>13 DEF CancelWhileQueued, IsAborted
<1> QED
  BY <1>12, <1>14

(* The continuation of a compilation.                                      *)
LEMMA SettleRefines ==
    ASSUME LInv, NEW r \in Requests, NEW outcome \in {"resolved", "failed"}, Settle(r, outcome)
    PROVE  SettleCompilation(r, outcome) /\ IsList(list', queue')
<1>1. TypeOK /\ queue \in Seq(Requests) /\ Distinct(queue) /\ CountersMatchInFlight
  BY QueueIsAList DEF LInv, IInv
<1>2. IsList(list, queue)
  BY DEF LInv
<1>3. state[r] = "active" /\ UNCHANGED <<weight, signal, aborted>>
  BY DEF Settle
<1> DEFINE f == [state EXCEPT ![r] = outcome]
           n == activeCount - 1
           b == activeWeight - weight[r]
           h == [list |-> list, count |-> n, bytes |-> b, state |-> f, listening |-> listening]
<1>4. Become(StartQueued(h))
  <2>1. h = Handler(list, n, b, f, listening)
    BY DEF Handler
  <2> QED
    BY <2>1 DEF Settle
<1>5. n \in Nat /\ b \in Nat
  <2>1. r \in Active
    BY <1>3 DEF Active
  <2>2. /\ Active \ {r} \in SUBSET Requests
        /\ Cardinality(Active \ {r}) = Cardinality(Active) - 1
        /\ WeightOf(Active \ {r}) = WeightOf(Active) - weight[r]
    BY <1>1, <2>1, LeaveActive
  <2>3. Cardinality(Active \ {r}) \in Nat /\ WeightOf(Active \ {r}) \in Nat
    BY <1>1, <2>2, ReservedFinite
  <2> QED
    BY <1>1, <2>2, <2>3 DEF CountersMatchInFlight
<1>6. h \in Handlers
  <2>1. f \in [Requests -> RequestStates]
    <3>1. outcome \in RequestStates
      BY DEF RequestStates
    <3> QED
      BY <1>1, <3>1 DEF TypeOK
  <2>2. listening \in SUBSET Requests /\ list \in Lists
    BY <1>1, <1>2 DEF TypeOK, IsList
  <2> HIDE DEF f, n, b
  <2> QED
    BY <1>5, <2>1, <2>2 DEF Handlers
<1>7. h.list = list /\ h.count = n /\ h.bytes = b /\ h.state = f /\ h.listening = listening
  OBVIOUS
<1> HIDE DEF h
<1>8. /\ StartQueuedCompilations(queue, h.count, h.bytes, h.state, h.listening)
      /\ IsList(list', queue')
  BY <1>1, <1>2, <1>4, <1>6, <1>7, LoopRefines
<1>9. StartQueuedCompilations(queue, n, b, f, listening)
  BY <1>7, <1>8
<1>10. SettleCompilation(r, outcome)
  BY <1>3, <1>9 DEF SettleCompilation
<1> QED
  BY <1>8, <1>10

(* An empty list at the beginning.                                         *)
LEMMA ListInitInv == ListInit => LInv
<1> SUFFICES ASSUME ListInit PROVE LInv
  OBVIOUS
<1>1. IInv /\ queue = <<>>
  BY InitIInv DEF ListInit, Init
<1>2. /\ list.first = Undefined /\ list.last = Undefined
      /\ list.previous = [r \in Requests |-> Undefined]
      /\ list.next = [r \in Requests |-> Undefined]
      /\ list.queued = [r \in Requests |-> FALSE]
  BY DEF ListInit
<1>3. list \in Lists
  BY DEF ListInit, Lists, Link
<1>4. Len(queue) = 0 /\ Members(queue) = {}
  <2>1. Len(queue) = 0 /\ 1 .. 0 = {}
    BY <1>1
  <2> QED
    BY <2>1 DEF Members
<1>5. IsList(list, queue)
  BY <1>2, <1>3, <1>4 DEF IsList
<1> QED
  BY <1>1, <1>5 DEF LInv

(* Every handler of the list is a handler of the queue, and leaves a list  *)
(* that is the queue.                                                      *)
LEMMA ListStep == LInv /\ [ListNext]_listVars => [Next]_vars /\ LInv'
<1> SUFFICES ASSUME LInv, [ListNext]_listVars PROVE [Next]_vars /\ LInv'
  OBVIOUS
<1>1. ASSUME NEW r \in Requests, NEW e \in Estimates, NEW s \in Signals \cup {NoSignal}, Admit(r, e, s)
      PROVE  Next /\ IsList(list', queue')
  BY <1>1, AdmitRefines DEF Next
<1>2. ASSUME NEW s \in Signals, AbortSignal(s)
      PROVE  Next /\ IsList(list', queue')
  BY <1>2 DEF AbortSignal, Abort, Next, LInv
<1>3. ASSUME NEW r \in Requests, AbortListener(r)
      PROVE  Next /\ IsList(list', queue')
  BY <1>3, AbortListenerRefines DEF Next
<1>4. ASSUME NEW r \in Requests, NEW outcome \in {"resolved", "failed"}, Settle(r, outcome)
      PROVE  Next /\ IsList(list', queue')
  BY <1>4, SettleRefines DEF Next
<1>6. [Next]_vars /\ IsList(list', queue')
  <2>1. CASE ListNext
    BY <1>1, <1>2, <1>3, <1>4, <2>1 DEF ListNext
  <2>2. CASE UNCHANGED listVars
    <3>1. UNCHANGED vars /\ list' = list /\ queue' = queue
      BY <2>2 DEF listVars, vars
    <3> QED
      BY <3>1 DEF LInv
  <2> QED
    BY <2>1, <2>2
<1>7. IInv'
  BY <1>6, NextIInv DEF LInv
<1>8. LInv'
  BY <1>6, <1>7 DEF LInv
<1> QED
  BY <1>6, <1>8

(* In every behaviour the linked list is the queue.                        *)
LEMMA ListInvariantHolds == ListSpec => []LInv
<1>1. LInv /\ [ListNext]_listVars => LInv'
  BY ListStep
<1> QED
  BY ListInitInv, <1>1, PTL DEF ListSpec

(* The code's linked list behaves as the queue of CompilationAdmission, so *)
(* everything that is proved of the queue holds of the list.               *)
THEOREM ListBehavesAsTheQueue == ListSpec => Spec
<1>1. ListInit => Init
  BY DEF ListInit
<1>2. LInv /\ [ListNext]_listVars => [Next]_vars
  BY ListStep
<1> QED
  BY <1>1, <1>2, ListInvariantHolds, PTL DEF ListSpec, Spec

(* A step of the queue is a step of the abstract specification, whose      *)
(* queue is the walk along the links.                                      *)
LEMMA WalkStep ==
    ASSUME queue = Forward(list), queue' = Forward(list)', [Next]_vars
    PROVE  [Admission!Next]_(Admission!vars)
<1>1. CASE UNCHANGED vars
  BY <1>1 DEF vars, Admission!vars
<1>2. ASSUME NEW r \in Requests, NEW e \in Estimates, NEW s \in Signals \cup {NoSignal},
             AdmitNow(r, e, s)
      PROVE  Admission!AdmitNow(r, e, s)
  BY <1>2 DEF AdmitNow, Admission!AdmitNow, CanStartCompilation, Admission!CanStartCompilation,
              AdmissionWeight, Admission!AdmissionWeight, MinimumAdmissionWeight,
              Admission!MinimumAdmissionWeight, IsAborted, Admission!IsAborted
<1>3. ASSUME NEW r \in Requests, NEW e \in Estimates, NEW s \in Signals \cup {NoSignal},
             AdmitLater(r, e, s)
      PROVE  Admission!AdmitLater(r, e, s)
  BY <1>3 DEF AdmitLater, Admission!AdmitLater, CanStartCompilation, Admission!CanStartCompilation,
              AdmissionWeight, Admission!AdmissionWeight, MinimumAdmissionWeight,
              Admission!MinimumAdmissionWeight, IsAborted, Admission!IsAborted
<1>4. ASSUME NEW s \in Signals, Abort(s)
      PROVE  Admission!Abort(s)
  BY <1>4 DEF Abort, Admission!Abort
<1>5. ASSUME NEW q, NEW count, NEW bytes, NEW states, NEW heard,
             StartQueuedCompilations(q, count, bytes, states, heard)
      PROVE  Admission!StartQueuedCompilations(q, count, bytes, states, heard)
  <2>0. \A S : Cardinality(S) = Admission!Cardinality(S)
    BY DEF Cardinality, Admission!Cardinality
  <2>1. /\ \A S : Live(S) = Admission!Live(S)
        /\ \A S : WeightOf(S) = Admission!WeightOf(S)
        /\ \A k : Prefix(q, k) = Admission!Prefix(q, k)
    <3>1. ASSUME NEW S PROVE Live(S) = Admission!Live(S)
      BY DEF Live, Admission!Live, IsAborted, Admission!IsAborted
    <3>2. ASSUME NEW S PROVE WeightOf(S) = Admission!WeightOf(S)
      <4>1. ReservedBytes(S) = Admission!ReservedBytes(S)
        BY DEF ReservedBytes, Admission!ReservedBytes
      <4> QED
        BY <2>0, <4>1 DEF WeightOf, Admission!WeightOf
    <3>3. ASSUME NEW k PROVE Prefix(q, k) = Admission!Prefix(q, k)
      BY DEF Prefix, Admission!Prefix
    <3> QED
      BY <3>1, <3>2, <3>3
  <2>2. \A n, b, w : CanStartCompilation(n, b, w) <=> Admission!CanStartCompilation(n, b, w)
    BY DEF CanStartCompilation, Admission!CanStartCompilation
  <2>3. \A i : StartableAt(q, i, count, bytes) <=> Admission!StartableAt(q, i, count, bytes)
    BY <2>0, <2>1, <2>2 DEF StartableAt, Admission!StartableAt
  <2>4. PICK k \in 0 .. Len(q) :
          /\ \A i \in 1 .. k : StartableAt(q, i, count, bytes)
          /\ k < Len(q) => ~StartableAt(q, k + 1, count, bytes)
          /\ queue' = SubSeq(q, k + 1, Len(q))
          /\ activeCount' = count + Cardinality(Live(Prefix(q, k)))
          /\ activeWeight' = bytes + WeightOf(Live(Prefix(q, k)))
          /\ listening' = heard \ Prefix(q, k)
          /\ state' = [r \in Requests |-> IF r \in Live(Prefix(q, k)) THEN "active"
                                          ELSE IF r \in Prefix(q, k) THEN "cancelled"
                                          ELSE states[r]]
    BY <1>5 DEF StartQueuedCompilations
  <2>5. /\ \A i \in 1 .. k : Admission!StartableAt(q, i, count, bytes)
        /\ k < Len(q) => ~Admission!StartableAt(q, k + 1, count, bytes)
    BY <2>3, <2>4
  <2>6. /\ Forward(list)' = SubSeq(q, k + 1, Len(q))
        /\ activeCount' = count + Admission!Cardinality(Admission!Live(Admission!Prefix(q, k)))
        /\ activeWeight' = bytes + Admission!WeightOf(Admission!Live(Admission!Prefix(q, k)))
        /\ listening' = heard \ Admission!Prefix(q, k)
        /\ state' = [r \in Requests |-> IF r \in Admission!Live(Admission!Prefix(q, k)) THEN "active"
                                        ELSE IF r \in Admission!Prefix(q, k) THEN "cancelled"
                                        ELSE states[r]]
    BY <2>0, <2>1, <2>4
  <2> QED
    BY <2>5, <2>6 DEF Admission!StartQueuedCompilations
<1>6. ASSUME NEW r \in Requests, CancelWhileQueued(r)
      PROVE  Admission!CancelWhileQueued(r)
  BY <1>5, <1>6 DEF CancelWhileQueued, Admission!CancelWhileQueued, IsAborted, Admission!IsAborted,
                    Without, Admission!Without
<1>7. ASSUME NEW r \in Requests, NEW outcome \in {"resolved", "failed"}, SettleCompilation(r, outcome)
      PROVE  Admission!SettleCompilation(r, outcome)
  BY <1>5, <1>7 DEF SettleCompilation, Admission!SettleCompilation
<1> QED
  BY <1>1, <1>2, <1>3, <1>4, <1>6, <1>7 DEF Next, Admission!Next

(* The refinement: the linked list and its loop implement the admission    *)
(* specification, with the walk along the links as its queue.              *)
THEOREM ListImplementsAdmission == ListSpec => ImplementsAdmission
<1>1. LInv => queue = Forward(list)
  <2> SUFFICES ASSUME LInv PROVE queue = Forward(list)
    OBVIOUS
  <2>1. queue \in Seq(Requests) /\ Distinct(queue) /\ IsList(list, queue)
    BY QueueIsAList DEF LInv
  <2> QED
    BY <2>1, ForwardIsTheList
<1>2. LInv' => (queue = Forward(list))'
  BY <1>1, PTL
<1>3. ListInit => Admission!Init
  <2> SUFFICES ASSUME ListInit PROVE Admission!Init
    OBVIOUS
  <2>1. Init /\ queue = Forward(list)
    BY <1>1, ListInitInv DEF ListInit
  <2> QED
    BY <2>1 DEF Init, Admission!Init
<1>4. LInv /\ LInv' /\ [ListNext]_listVars => [Admission!Next]_(Admission!vars)
  BY <1>1, <1>2, ListStep, WalkStep
<1> QED
  BY <1>3, <1>4, ListInvariantHolds, PTL DEF ListSpec, ImplementsAdmission, Admission!Spec

(* What is proved of the queue holds of the list: the budget, no idle room *)
(* and no overtaking (#startQueuedCompilations over the links).            *)
THEOREM ListKeepsThePromises == ListSpec => [](WithinBudget /\ HeadCannotStart) /\ NoOvertaking
<1>1. LInv => WithinBudget /\ HeadCannotStart
  BY DEF LInv, IInv
<1> QED
  BY <1>1, ListInvariantHolds, ListBehavesAsTheQueue, FirstInFirstOut, PTL

(* Both directions of the list agree: walked backward from its last        *)
(* request it visits the same requests in the opposite order, whatever     *)
(* was removed from its ends or its middle.                                *)
DirectionsAgree ==
    /\ Len(Backward(list)) = Len(Forward(list))
    /\ \A i \in 1 .. Len(Forward(list)) :
          Backward(list)[i] = Forward(list)[Len(Forward(list)) + 1 - i]

(* The previous links mirror the next links in every reachable state.      *)
THEOREM ListDirectionsAgree == ListSpec => []DirectionsAgree
<1>1. LInv => DirectionsAgree
  <2> SUFFICES ASSUME LInv PROVE DirectionsAgree
    OBVIOUS
  <2> DEFINE q == queue
             n == Len(q)
             p == [i \in 1 .. n |-> q[n + 1 - i]]
  <2>1. q \in Seq(Requests) /\ Distinct(q) /\ IsList(list, q) /\ n \in Nat
    BY QueueIsAList DEF LInv
  <2>2. Forward(list) = q
    BY <2>1, ForwardIsTheList
  <2>3. \A i \in 1 .. n : n + 1 - i \in 1 .. n /\ n + 1 - (n + 1 - i) = i
    BY <2>1
  <2>4. p \in Seq(Requests) /\ Len(p) = n /\ \A i \in 1 .. n : p[i] = q[n + 1 - i]
    <3>1. \A i \in 1 .. n : q[n + 1 - i] \in Requests
      BY <2>1, <2>3
    <3>2. p \in [1 .. n -> Requests]
      BY <3>1
    <3>3. p \in Seq(Requests)
      BY <2>1, <3>2
    <3>4. DOMAIN p = 1 .. n
      OBVIOUS
    <3> HIDE DEF p
    <3>5. Len(p) = n
      BY <2>1, <3>3, <3>4
    <3>6. \A i \in 1 .. n : p[i] = q[n + 1 - i]
      BY DEF p
    <3> QED
      BY <3>3, <3>5, <3>6
  <2> HIDE DEF p, q, n
  <2>5. list.last = IF Len(p) = 0 THEN Undefined ELSE p[1]
    <3>1. list.last = IF n = 0 THEN Undefined ELSE q[n]
      BY <2>1 DEF IsList, n
    <3>2. n # 0 => 1 \in 1 .. n /\ n + 1 - 1 = n
      BY <2>1
    <3>3. n # 0 => p[1] = q[n]
      BY <2>4, <3>2
    <3> QED
      BY <2>4, <3>1, <3>3
  <2>6. ASSUME NEW i \in 1 .. Len(p) PROVE list.previous[p[i]] = After(p, i)
    <3> DEFINE j == n + 1 - i
    <3>1. j \in 1 .. n /\ i \in 1 .. n /\ p[i] = q[j]
      BY <2>3, <2>4
    <3>2. list.previous[q[j]] = Before(q, j)
      BY <2>1, <3>1 DEF IsList, n
    <3>3. j = 1 <=> i = n
      BY <2>1, <3>1
    <3>4. i # n => i + 1 \in 1 .. n /\ n + 1 - (i + 1) = j - 1
      BY <2>1, <3>1
    <3>5. i # n => p[i + 1] = q[j - 1]
      BY <2>4, <3>4
    <3> HIDE DEF j
    <3> QED
      BY <2>4, <3>1, <3>2, <3>3, <3>5 DEF Before, After
  <2>7. Backward(list) = p
    <3>1. list.previous \in [Requests -> Link] /\ list.last \in Link
      BY <2>1 DEF IsList, Lists
    <3>2. Cardinality(Requests) \in Nat /\ Len(p) <= Cardinality(Requests)
      BY <2>1, <2>4, ListIsBounded DEF n
    <3> QED
      BY <2>4, <2>5, <2>6, <3>1, <3>2, WalkIsTheSequence DEF Backward
  <2> QED
    BY <2>2, <2>4, <2>7 DEF DirectionsAgree, n
<1> QED
  BY <1>1, ListInvariantHolds, PTL
=============================================================================
