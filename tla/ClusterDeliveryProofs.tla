------------------------ MODULE ClusterDeliveryProofs ------------------------
(* Theorems about the delivery of one slave's cycles, for every batch limit,  *)
(* window, buffer, number of cycles and number of faults.                     *)
EXTENDS ClusterDelivery, FiniteSetTheorems, FunctionTheorems, SequenceTheorems, TLAPS

(* Sequences of cycles in the order of measurement. *)
Ascending(s) == \A i, j \in 1..Len(s) : i < j => s[i] < s[j]

Precede(A, B) == \A c \in A, d \in B : c < d

-----------------------------------------------------------------------------
(* Sequences of cycles.                                                       *)

(* The places of a sequence. *)
LEMMA PlacesCount ==
  ASSUME NEW n \in Nat
  PROVE  IsFiniteSet(1..n) /\ Cardinality(1..n) = n
<1>1. /\ IsFiniteSet(1..n)
      /\ Cardinality(1..n) = IF 1 > n THEN 0 ELSE n - 1 + 1
  BY FS_Interval
<1> QED BY <1>1

(* What a sequence of cycles holds: finitely many cycles. *)
LEMMA ElementsFacts ==
  ASSUME NEW s \in Seq(Cycles)
  PROVE  /\ Len(s) \in Nat
         /\ Elements(s) \subseteq Cycles
         /\ IsFiniteSet(Elements(s)) /\ Cardinality(Elements(s)) <= Len(s)
         /\ \A c : c \in Elements(s) <=> \E i \in 1..Len(s) : s[i] = c
<1>1. /\ Len(s) \in Nat
      /\ Elements(s) \subseteq Cycles
      /\ \A c : c \in Elements(s) <=> \E i \in 1..Len(s) : s[i] = c
  BY DEF Elements
<1>2. s \in Surjection(1..Len(s), Elements(s))
  <2>1. s \in [1..Len(s) -> Elements(s)]
    BY DEF Elements
  <2>2. \A c \in Elements(s) : \E i \in 1..Len(s) : s[i] = c
    BY DEF Elements
  <2> QED BY <2>1, <2>2, Fun_IsSurj
<1>3. IsFiniteSet(1..Len(s)) /\ Cardinality(1..Len(s)) = Len(s)
  BY <1>1, PlacesCount
<1>4. IsFiniteSet(Elements(s)) /\ Cardinality(Elements(s)) <= Len(s)
  BY <1>2, <1>3, FS_Surjection
<1> QED BY <1>1, <1>4

(* Nothing is in the empty sequence, and something is in any other. *)
LEMMA ElementsEmpty ==
  /\ <<>> \in Seq(Cycles) /\ Elements(<<>>) = {} /\ Ascending(<<>>)
  /\ \A s \in Seq(Cycles) : s # <<>> => Len(s) > 0 /\ s[1] \in Elements(s)
BY DEF Elements, Ascending

(* An ascending sequence holds as many cycles as it has places. *)
LEMMA AscendingCounts ==
  ASSUME NEW s \in Seq(Cycles), Ascending(s)
  PROVE  Cardinality(Elements(s)) = Len(s)
<1>1. Len(s) \in Nat /\ \A i \in 1..Len(s) : s[i] \in Int
  BY DeliveryAssumption DEF Cycles
<1>2. \A i, j \in 1..Len(s) : s[i] = s[j] => i = j
  BY <1>1 DEF Ascending
<1>3. s \in Surjection(1..Len(s), Elements(s))
  <2>1. s \in [1..Len(s) -> Elements(s)]
    BY DEF Elements
  <2>2. \A c \in Elements(s) : \E i \in 1..Len(s) : s[i] = c
    BY DEF Elements
  <2> QED BY <2>1, <2>2, Fun_IsSurj
<1>4. s \in Injection(1..Len(s), Elements(s))
  <2>1. s \in [1..Len(s) -> Elements(s)]
    BY DEF Elements
  <2> QED BY <1>2, <2>1, Fun_IsInj
<1>5. IsFiniteSet(1..Len(s)) /\ Cardinality(1..Len(s)) = Len(s)
  BY <1>1, PlacesCount
<1> QED BY <1>3, <1>4, <1>5, FS_Surjection

(* There are finitely many cycles. *)
LEMMA CyclesCount == \A A \in SUBSET Cycles : IsFiniteSet(A) /\ Cardinality(A) \in Nat
<1> SUFFICES ASSUME NEW A \in SUBSET Cycles PROVE IsFiniteSet(A) /\ Cardinality(A) \in Nat
  OBVIOUS
<1>1. IsFiniteSet(1..MaxCycles)
  BY DeliveryAssumption, PlacesCount
<1>2. IsFiniteSet(A)
  BY <1>1, FS_Subset DEF Cycles
<1> QED BY <1>2, FS_CardinalityType

(* The cycles of a sequence join a set of others, one by one. *)
LEMMA JoinCounts ==
  ASSUME NEW s \in Seq(Cycles), Ascending(s),
         NEW A \in SUBSET Cycles, A \cap Elements(s) = {}
  PROVE  Cardinality(A \cup Elements(s)) = Cardinality(A) + Len(s)
<1>1. IsFiniteSet(Elements(s)) /\ Cardinality(Elements(s)) = Len(s) /\ Len(s) \in Nat
  BY ElementsFacts, AscendingCounts
<1>2. IsFiniteSet(A) /\ Cardinality(A) \in Nat
  BY CyclesCount
<1>3. Cardinality(A \cup Elements(s))
        = Cardinality(A) + Cardinality(Elements(s)) - Cardinality(A \cap Elements(s))
  BY <1>1, <1>2, FS_Union
<1>4. Cardinality(A \cap Elements(s)) = 0
  BY FS_EmptySet
<1> QED BY <1>1, <1>2, <1>3, <1>4

(* Concatenation. *)
LEMMA ConcatFacts ==
  ASSUME NEW s \in Seq(Cycles), NEW t \in Seq(Cycles)
  PROVE  /\ s \o t \in Seq(Cycles) /\ Len(s \o t) = Len(s) + Len(t)
         /\ Elements(s \o t) = Elements(s) \cup Elements(t)
         /\ Ascending(s) /\ Ascending(t) /\ Precede(Elements(s), Elements(t))
              => Ascending(s \o t)
<1> DEFINE u == s \o t
<1>1. /\ u \in Seq(Cycles) /\ Len(u) = Len(s) + Len(t)
      /\ \A i \in 1..Len(s) : u[i] = s[i]
      /\ \A i \in 1..Len(t) : u[Len(s) + i] = t[i]
      /\ Len(s) \in Nat /\ Len(t) \in Nat
  OBVIOUS
<1> HIDE DEF u
<1>2. \A i \in 1..Len(u) : i \in 1..Len(s) \/ (i - Len(s) \in 1..Len(t) /\ i = Len(s) + (i - Len(s)))
  BY <1>1
<1>3. Elements(u) \subseteq Elements(s) \cup Elements(t)
  <2> SUFFICES ASSUME NEW i \in 1..Len(u) PROVE u[i] \in Elements(s) \cup Elements(t)
    BY DEF Elements
  <2>1. CASE i \in 1..Len(s)
    BY <1>1, <2>1 DEF Elements
  <2>2. CASE i - Len(s) \in 1..Len(t) /\ i = Len(s) + (i - Len(s))
    <3>1. u[i] = t[i - Len(s)]
      BY <1>1, <2>2
    <3> QED BY <2>2, <3>1 DEF Elements
  <2> QED BY <1>2, <2>1, <2>2
<1>4. Elements(s) \cup Elements(t) \subseteq Elements(u)
  <2>1. ASSUME NEW i \in 1..Len(s) PROVE s[i] \in Elements(u)
    <3>1. i \in 1..Len(u) /\ u[i] = s[i]
      BY <1>1
    <3> QED BY <3>1 DEF Elements
  <2>2. ASSUME NEW i \in 1..Len(t) PROVE t[i] \in Elements(u)
    <3>1. Len(s) + i \in 1..Len(u) /\ u[Len(s) + i] = t[i]
      BY <1>1
    <3> QED BY <3>1 DEF Elements
  <2> QED BY <2>1, <2>2 DEF Elements
<1>5. ASSUME Ascending(s), Ascending(t), Precede(Elements(s), Elements(t))
      PROVE  Ascending(u)
  <2> SUFFICES ASSUME NEW i \in 1..Len(u), NEW j \in 1..Len(u), i < j PROVE u[i] < u[j]
    BY DEF Ascending
  <2>1. CASE i \in 1..Len(s) /\ j \in 1..Len(s)
    BY <1>1, <1>5, <2>1 DEF Ascending
  <2>2. CASE i \in 1..Len(s) /\ j \notin 1..Len(s)
    <3>1. j - Len(s) \in 1..Len(t) /\ u[j] = t[j - Len(s)]
      BY <1>1, <1>2, <2>2
    <3>2. u[i] \in Elements(s) /\ u[j] \in Elements(t)
      BY <1>1, <2>2, <3>1 DEF Elements
    <3> QED BY <1>5, <3>2 DEF Precede
  <2>3. CASE i \notin 1..Len(s)
    <3>1. i - Len(s) \in 1..Len(t) /\ j - Len(s) \in 1..Len(t) /\ i - Len(s) < j - Len(s)
      BY <1>1, <1>2, <2>3
    <3>2. i = Len(s) + (i - Len(s)) /\ j = Len(s) + (j - Len(s))
      BY <1>1
    <3>3. u[i] = t[i - Len(s)] /\ u[j] = t[j - Len(s)]
      BY <1>1, <3>1, <3>2, Zenon
    <3> QED BY <1>5, <3>1, <3>3, Zenon DEF Ascending
  <2> QED BY <2>1, <2>2, <2>3
<1> QED BY <1>1, <1>3, <1>4, <1>5 DEF u

(* A sequence cut in two: what comes first, then the rest. *)
LEMMA CutFacts ==
  ASSUME NEW s \in Seq(Cycles), NEW n \in Nat
  PROVE  /\ FirstOf(s, n) \in Seq(Cycles) /\ RestOf(s, n) \in Seq(Cycles)
         /\ Len(FirstOf(s, n)) = (IF Len(s) < n THEN Len(s) ELSE n)
         /\ Len(FirstOf(s, n)) + Len(RestOf(s, n)) = Len(s)
         /\ \A i \in 1..Len(FirstOf(s, n)) : FirstOf(s, n)[i] = s[i]
         /\ \A i \in 1..Len(RestOf(s, n)) : RestOf(s, n)[i] = s[n + i]
<1> DEFINE k == IF Len(s) < n THEN Len(s) ELSE n
<1>1. k \in Nat /\ Len(s) \in Nat /\ \A i \in 1..Len(s) : s[i] \in Cycles
  OBVIOUS
<1>2. /\ FirstOf(s, n) \in Seq(Cycles)
      /\ Len(FirstOf(s, n)) = IF 1 <= k THEN k - 1 + 1 ELSE 0
      /\ \A i \in 1..(k - 1 + 1) : FirstOf(s, n)[i] = s[1 + i - 1]
  BY <1>1, SubSeqProperties DEF FirstOf
<1>3. /\ RestOf(s, n) \in Seq(Cycles)
      /\ Len(RestOf(s, n)) = IF n + 1 <= Len(s) THEN Len(s) - (n + 1) + 1 ELSE 0
      /\ \A i \in 1..(Len(s) - (n + 1) + 1) : RestOf(s, n)[i] = s[n + 1 + i - 1]
  BY <1>1, SubSeqProperties DEF RestOf
<1>4. Len(FirstOf(s, n)) = k
  BY <1>1, <1>2
<1>5. Len(RestOf(s, n)) = Len(s) - k
  <2>1. \A a, b \in Nat : (IF b + 1 <= a THEN a - (b + 1) + 1 ELSE 0)
                            = a - (IF a < b THEN a ELSE b)
    OBVIOUS
  <2> QED BY <1>1, <1>3, <2>1
<1>6. \A i \in 1..Len(FirstOf(s, n)) : FirstOf(s, n)[i] = s[i]
  BY <1>1, <1>2, <1>4
<1>7. ASSUME NEW i \in 1..Len(RestOf(s, n)) PROVE RestOf(s, n)[i] = s[n + i]
  <2>1. i \in 1..(Len(s) - (n + 1) + 1) /\ n + 1 + i - 1 = n + i
    BY <1>1, <1>5
  <2> QED BY <1>3, <2>1
<1>8. k + (Len(s) - k) = Len(s)
  BY <1>1
<1> QED BY <1>2, <1>3, <1>4, <1>5, <1>6, <1>7, <1>8

(* What a cut keeps: the same cycles, the same order. *)
LEMMA CutOrder ==
  ASSUME NEW s \in Seq(Cycles), NEW n \in Nat
  PROVE  /\ Elements(s) = Elements(FirstOf(s, n)) \cup Elements(RestOf(s, n))
         /\ Ascending(s) => /\ Ascending(FirstOf(s, n)) /\ Ascending(RestOf(s, n))
                            /\ Precede(Elements(FirstOf(s, n)), Elements(RestOf(s, n)))
<1> DEFINE f == FirstOf(s, n)
           r == RestOf(s, n)
<1>1. /\ Len(s) \in Nat /\ Len(f) \in Nat /\ Len(r) \in Nat
      /\ Len(f) = (IF Len(s) < n THEN Len(s) ELSE n)
      /\ Len(f) + Len(r) = Len(s)
      /\ \A i \in 1..Len(f) : f[i] = s[i]
      /\ \A i \in 1..Len(r) : r[i] = s[n + i]
  BY CutFacts
<1> HIDE DEF f, r
<1>2. \A i \in 1..Len(s) : i \in 1..Len(f) \/ (i - n \in 1..Len(r) /\ i = n + (i - n))
  BY <1>1
<1>3. (\A i \in 1..Len(f) : i \in 1..Len(s)) /\ (\A i \in 1..Len(r) : n + i \in 1..Len(s))
  BY <1>1
<1>4. Elements(f) \subseteq Elements(s) /\ Elements(r) \subseteq Elements(s)
  BY <1>1, <1>3 DEF Elements
<1>5. Elements(s) \subseteq Elements(f) \cup Elements(r)
  <2> SUFFICES ASSUME NEW i \in 1..Len(s) PROVE s[i] \in Elements(f) \cup Elements(r)
    BY DEF Elements
  <2>1. CASE i \in 1..Len(f)
    BY <1>1, <2>1 DEF Elements
  <2>2. CASE i - n \in 1..Len(r) /\ i = n + (i - n)
    <3>1. r[i - n] = s[i]
      BY <1>1, <2>2
    <3> QED BY <2>2, <3>1 DEF Elements
  <2> QED BY <1>2, <2>1, <2>2
<1>6. ASSUME Ascending(s) PROVE Ascending(f)
  BY <1>1, <1>3, <1>6, Zenon DEF Ascending
<1>7. ASSUME Ascending(s) PROVE Ascending(r)
  <2> SUFFICES ASSUME NEW i \in 1..Len(r), NEW j \in 1..Len(r), i < j PROVE r[i] < r[j]
    BY DEF Ascending
  <2>1. n + i \in 1..Len(s) /\ n + j \in 1..Len(s) /\ n + i < n + j
    BY <1>1
  <2>2. s[n + i] < s[n + j]
    BY <1>7, <2>1, Zenon DEF Ascending
  <2> QED BY <1>1, <2>2
<1>8. ASSUME Ascending(s) PROVE Precede(Elements(f), Elements(r))
  <2> SUFFICES ASSUME NEW i \in 1..Len(f), NEW j \in 1..Len(r) PROVE f[i] < r[j]
    BY DEF Precede, Elements
  <2>1. i \in 1..Len(s) /\ n + j \in 1..Len(s) /\ i < n + j
    BY <1>1
  <2>2. s[i] < s[n + j]
    BY <1>8, <2>1, Zenon DEF Ascending
  <2> QED BY <1>1, <2>2
<1> QED BY <1>4, <1>5, <1>6, <1>7, <1>8 DEF f, r

(* A cycle at the young end. *)
LEMMA AppendFacts ==
  ASSUME NEW s \in Seq(Cycles), NEW c \in Cycles
  PROVE  /\ Append(s, c) \in Seq(Cycles) /\ Len(Append(s, c)) = Len(s) + 1
         /\ Elements(Append(s, c)) = Elements(s) \cup {c}
         /\ Ascending(s) /\ Precede(Elements(s), {c}) => Ascending(Append(s, c))
<1>1. <<c>> \in Seq(Cycles) /\ Len(<<c>>) = 1 /\ <<c>>[1] = c /\ Append(s, c) = s \o <<c>>
  OBVIOUS
<1>2. Elements(<<c>>) = {c} /\ Ascending(<<c>>)
  BY DEF Elements, Ascending
<1> QED BY <1>1, <1>2, ConcatFacts

(* The oldest cycle taken off. *)
LEMMA TailFacts ==
  ASSUME NEW s \in Seq(Cycles), s # <<>>
  PROVE  /\ Head(s) \in Elements(s) /\ Head(s) \in Cycles /\ Head(s) = s[1]
         /\ Tail(s) \in Seq(Cycles) /\ Len(Tail(s)) = Len(s) - 1
         /\ Elements(s) = {Head(s)} \cup Elements(Tail(s))
         /\ Ascending(s) => /\ Ascending(Tail(s))
                            /\ \A c \in Elements(Tail(s)) : Head(s) < c
<1>1. /\ Head(s) = s[1] /\ Head(s) \in Cycles /\ Len(s) \in Nat /\ Len(s) > 0
      /\ Tail(s) \in Seq(Cycles) /\ Len(Tail(s)) = Len(s) - 1
  OBVIOUS
<1>2. \A c \in Cycles : <<c>> \in Seq(Cycles) /\ Elements(<<c>>) = {c}
  BY DEF Elements
<1>3. FirstOf(s, 1) = <<Head(s)>>
  <2> DEFINE one == 1
  <2>0. one \in Nat /\ one = 1
    OBVIOUS
  <2> HIDE DEF one
  <2> DEFINE f == FirstOf(s, one)
  <2>1. /\ f \in Seq(Cycles) /\ Len(f) = (IF Len(s) < one THEN Len(s) ELSE one)
        /\ \A i \in 1..Len(f) : f[i] = s[i]
    BY <2>0, CutFacts, Zenon
  <2> HIDE DEF f
  <2>2. Len(f) = 1
    BY <1>1, <2>0, <2>1
  <2>3. f[1] = s[1]
    BY <2>1, <2>2
  <2>4. f = <<Head(s)>>
    BY <1>1, <2>1, <2>2, <2>3
  <2> QED BY <2>0, <2>4 DEF f
<1>4. RestOf(s, 1) = Tail(s)
  BY <1>1, TailIsSubSeq DEF RestOf
<1>5. Head(s) \in Elements(s)
  BY <1>1 DEF Elements
<1>6. /\ Elements(s) = {Head(s)} \cup Elements(Tail(s))
      /\ Ascending(s) => Ascending(Tail(s)) /\ Precede({Head(s)}, Elements(Tail(s)))
  <2>1. Elements(FirstOf(s, 1)) = {Head(s)} /\ 1 \in Nat
    BY <1>1, <1>2, <1>3
  <2>2. /\ Elements(s) = Elements(FirstOf(s, 1)) \cup Elements(RestOf(s, 1))
        /\ Ascending(s) => /\ Ascending(RestOf(s, 1))
                           /\ Precede(Elements(FirstOf(s, 1)), Elements(RestOf(s, 1)))
    BY <2>1, CutOrder
  <2> QED BY <1>4, <2>1, <2>2
<1> QED BY <1>1, <1>5, <1>6 DEF Precede

-----------------------------------------------------------------------------
(* The inductive invariant: the slave's queue.                                *)

QueueTyped ==
  /\ buffer \in Seq(Cycles) /\ Len(buffer) <= Capacity
  /\ batch \in Seq(Cycles) /\ Len(batch) <= BatchLimit
  /\ measured \in 0..MaxCycles
  /\ acked \subseteq Cycles /\ shed \subseteq Cycles /\ givenUp \subseteq Cycles

(* What the slave still has to deliver. *)
Waiting == Elements(batch) \cup Elements(buffer)

(* The batch in hand is older than the buffer, each is in the order of        *)
(* measurement, and nothing that waits is accounted for elsewhere.            *)
Ordered ==
  /\ Ascending(batch) /\ Ascending(buffer)
  /\ Precede(Elements(batch), Elements(buffer))
  /\ Waiting \cap acked = {} /\ Waiting \cap shed = {} /\ Waiting \cap givenUp = {}

Placed == QueueTyped /\ Ordered /\ OnePlace

(* What a step of the runner may do to the queue besides measuring and        *)
(* flushing: nothing, put the batch back, or end with it.                     *)
QueueSame == UNCHANGED <<buffer, batch, measured, acked, shed, givenUp>>

QueueBack == PutBack /\ UNCHANGED <<measured, acked, givenUp>>

QueueEnds ==
  /\ batch # <<>> /\ batch' = <<>>
  /\ UNCHANGED <<buffer, measured, shed>>
  /\ \/ acked' = acked \cup Elements(batch) /\ UNCHANGED givenUp
     \/ givenUp' = givenUp \cup Elements(batch) /\ UNCHANGED acked

(* What waits was measured, so the next cycle is new. *)
LEMMA WaitingMeasured ==
  ASSUME Placed
  PROVE  /\ \A c \in Waiting : c \in 1..measured
         /\ acked \subseteq 1..measured /\ shed \subseteq 1..measured /\ givenUp \subseteq 1..measured
         /\ measured \in Nat /\ measured <= MaxCycles
BY DeliveryAssumption DEF Placed, QueueTyped, OnePlace, Waiting

(* Requeue moves the batch in front of the buffer and what no longer fits to  *)
(* shed (PushSink.Requeue).                                                   *)
LEMMA PutBackPlaced ==
  ASSUME Placed, QueueBack
  PROVE  Placed'
<1> DEFINE s == batch \o buffer
           f == FirstOf(s, Capacity)
           r == RestOf(s, Capacity)
<1>1. /\ buffer' = f /\ shed' = shed \cup Elements(r) /\ batch' = <<>>
      /\ measured' = measured /\ acked' = acked /\ givenUp' = givenUp
  BY DEF QueueBack, PutBack
<1>2. /\ s \in Seq(Cycles) /\ Len(s) = Len(batch) + Len(buffer)
      /\ Elements(s) = Waiting /\ Ascending(s)
  BY ConcatFacts DEF Placed, QueueTyped, Ordered, Waiting
<1> HIDE DEF s
<1>3. Capacity \in Nat
  BY DeliveryAssumption
<1>4. /\ f \in Seq(Cycles) /\ r \in Seq(Cycles)
      /\ Len(f) = (IF Len(s) < Capacity THEN Len(s) ELSE Capacity)
      /\ Len(f) + Len(r) = Len(s)
  BY <1>2, <1>3, CutFacts
<1>5. /\ Elements(s) = Elements(f) \cup Elements(r)
      /\ Ascending(f) /\ Ascending(r) /\ Precede(Elements(f), Elements(r))
  BY <1>2, <1>3, CutOrder
<1> HIDE DEF f, r
<1>6. Elements(batch') = {} /\ Ascending(batch') /\ Len(batch') = 0 /\ batch' \in Seq(Cycles)
  BY <1>1, ElementsEmpty
<1>7. Elements(r) \subseteq Cycles /\ Len(s) \in Nat
  BY <1>2, <1>4, ElementsFacts
<1>8. QueueTyped'
  <2>1. Len(f) <= Capacity
    BY <1>3, <1>4, <1>7
  <2>2. 0 <= BatchLimit
    BY DeliveryAssumption
  <2> QED BY <1>1, <1>4, <1>6, <1>7, <2>1, <2>2 DEF Placed, QueueTyped
<1>9. Elements(f) \cap Elements(r) = {}
  <2>1. Elements(f) \subseteq Int
    BY <1>4, ElementsFacts, DeliveryAssumption DEF Cycles
  <2> QED BY <1>5, <2>1 DEF Precede
<1>10. Ordered'
  <2>1. Waiting' = Elements(f)
    BY <1>1, <1>6 DEF Waiting
  <2>2. Elements(f) \subseteq Waiting
    BY <1>2, <1>5
  <2>3. Precede(Elements(batch'), Elements(buffer'))
    BY <1>6 DEF Precede
  <2> QED BY <1>1, <1>5, <1>6, <1>9, <2>1, <2>2, <2>3 DEF Placed, Ordered
<1>11. OnePlace'
  <2>1. 1..measured' = Elements(buffer') \cup Elements(batch') \cup acked' \cup shed' \cup givenUp'
    BY <1>1, <1>2, <1>5, <1>6 DEF Placed, OnePlace, Waiting
  <2>2. Cardinality(shed \cup Elements(r)) = Cardinality(shed) + Len(r)
    <3>1. shed \cap Elements(r) = {} /\ shed \in SUBSET Cycles
      BY <1>2, <1>5 DEF Placed, Ordered, QueueTyped
    <3> QED BY <1>4, <1>5, <3>1, JoinCounts
  <2>3. /\ Len(f) \in Nat /\ Len(r) \in Nat /\ Len(batch) \in Nat /\ Len(buffer) \in Nat
        /\ Len(f) + Len(r) = Len(batch) + Len(buffer)
    BY <1>2, <1>4 DEF Placed, QueueTyped
  <2>4. measured = Len(buffer) + Len(batch) + Cardinality(acked) + Cardinality(shed) + Cardinality(givenUp)
    BY DEF Placed, OnePlace
  <2>5. Cardinality(acked) \in Nat /\ Cardinality(shed) \in Nat /\ Cardinality(givenUp) \in Nat
    BY CyclesCount DEF Placed, QueueTyped
  <2>6. measured = Len(f) + 0 + Cardinality(acked) + (Cardinality(shed) + Len(r)) + Cardinality(givenUp)
    BY <2>3, <2>4, <2>5
  <2> QED BY <1>1, <1>6, <2>1, <2>2, <2>6 DEF OnePlace
<1> QED BY <1>8, <1>10, <1>11 DEF Placed

(* A batch that ended is acknowledged or given up, whole.                     *)
LEMMA EndsPlaced ==
  ASSUME Placed, QueueEnds
  PROVE  Placed'
<1>1. Elements(batch') = {} /\ Ascending(batch') /\ Len(batch') = 0 /\ batch' \in Seq(Cycles)
  BY ElementsEmpty DEF QueueEnds
<1>2. Elements(batch) \subseteq Cycles /\ Len(batch) \in Nat /\ Len(buffer) \in Nat
  BY ElementsFacts DEF Placed, QueueTyped
<1>3. Elements(batch) \cap Elements(buffer) = {}
  <2>1. Elements(batch) \subseteq Int
    BY <1>2, DeliveryAssumption DEF Cycles
  <2> QED BY <2>1 DEF Placed, Ordered, Precede
<1>4. Waiting' = Elements(buffer) /\ buffer' = buffer /\ measured' = measured /\ shed' = shed
  BY <1>1 DEF QueueEnds, Waiting
<1>5. QueueTyped'
  <2>1. 0 <= BatchLimit
    BY DeliveryAssumption
  <2> QED BY <1>1, <1>2, <1>4, <2>1 DEF Placed, QueueTyped, QueueEnds
<1>6. Ordered'
  <2>1. Precede(Elements(batch'), Elements(buffer'))
    BY <1>1 DEF Precede
  <2>2. Elements(buffer) \subseteq Waiting
    BY DEF Waiting
  <2> QED BY <1>1, <1>3, <1>4, <2>1, <2>2 DEF Placed, Ordered, QueueEnds
<1>7. OnePlace'
  <2>1. 1..measured' = Elements(buffer') \cup Elements(batch') \cup acked' \cup shed' \cup givenUp'
    BY <1>1, <1>4 DEF Placed, OnePlace, QueueEnds
  <2>2. /\ Cardinality(acked \cup Elements(batch)) = Cardinality(acked) + Len(batch)
        /\ Cardinality(givenUp \cup Elements(batch)) = Cardinality(givenUp) + Len(batch)
    <3>1. /\ acked \cap Elements(batch) = {} /\ acked \in SUBSET Cycles
          /\ givenUp \cap Elements(batch) = {} /\ givenUp \in SUBSET Cycles
          /\ batch \in Seq(Cycles) /\ Ascending(batch)
      BY DEF Placed, Ordered, QueueTyped, Waiting
    <3> QED BY <3>1, JoinCounts
  <2>3. measured = Len(buffer) + Len(batch) + Cardinality(acked) + Cardinality(shed) + Cardinality(givenUp)
    BY DEF Placed, OnePlace
  <2>4. Cardinality(acked) \in Nat /\ Cardinality(shed) \in Nat /\ Cardinality(givenUp) \in Nat
    BY CyclesCount DEF Placed, QueueTyped
  <2>5. CASE acked' = acked \cup Elements(batch) /\ givenUp' = givenUp
    <3>1. measured = Len(buffer) + 0 + (Cardinality(acked) + Len(batch)) + Cardinality(shed) + Cardinality(givenUp)
      BY <1>2, <2>3, <2>4
    <3> QED BY <1>1, <1>4, <2>1, <2>2, <2>5, <3>1 DEF OnePlace
  <2>6. CASE givenUp' = givenUp \cup Elements(batch) /\ acked' = acked
    <3>1. measured = Len(buffer) + 0 + Cardinality(acked) + Cardinality(shed) + (Cardinality(givenUp) + Len(batch))
      BY <1>2, <2>3, <2>4
    <3> QED BY <1>1, <1>4, <2>1, <2>2, <2>6, <3>1 DEF OnePlace
  <2> QED BY <2>5, <2>6 DEF QueueEnds
<1> QED BY <1>5, <1>6, <1>7 DEF Placed

(* A measured cycle is newer than whatever waits; a full buffer sheds its     *)
(* oldest (PushSink.OnCycle).                                                 *)
LEMMA MeasurePlaced ==
  ASSUME Placed, Measure
  PROVE  Placed'
<1> DEFINE new == measured + 1
<1>1. /\ measured' = new /\ new \in Cycles /\ measured \in Nat /\ new \in Int
      /\ batch' = batch /\ acked' = acked /\ givenUp' = givenUp
  BY DeliveryAssumption DEF Measure, Placed, QueueTyped, Cycles
<1>2. /\ \A c \in Waiting : c \in 1..measured
      /\ acked \subseteq 1..measured /\ shed \subseteq 1..measured /\ givenUp \subseteq 1..measured
  BY WaitingMeasured
<1>3. /\ new \notin acked /\ new \notin shed /\ new \notin givenUp /\ new \notin Waiting
      /\ \A c \in Waiting : c < new
      /\ 1..new = 1..measured \cup {new}
  BY <1>1, <1>2
<1>4. /\ buffer \in Seq(Cycles) /\ Len(buffer) \in Nat /\ Len(buffer) <= Capacity /\ Capacity \in Nat
      /\ Len(batch) \in Nat
  BY DeliveryAssumption DEF Placed, QueueTyped
<1>5. measured = Len(buffer) + Len(batch) + Cardinality(acked) + Cardinality(shed) + Cardinality(givenUp)
  BY DEF Placed, OnePlace
<1>6. /\ Cardinality(acked) \in Nat /\ Cardinality(shed) \in Nat /\ Cardinality(givenUp) \in Nat
      /\ IsFiniteSet(shed)
  BY CyclesCount DEF Placed, QueueTyped
<1>7. CASE Len(buffer) < Capacity
  <2>1. buffer' = Append(buffer, new) /\ shed' = shed
    BY <1>1, <1>7 DEF Measure
  <2>2. /\ buffer' \in Seq(Cycles) /\ Len(buffer') = Len(buffer) + 1
        /\ Elements(buffer') = Elements(buffer) \cup {new}
        /\ Ascending(buffer')
    <3>1. Precede(Elements(buffer), {new}) /\ Ascending(buffer)
      BY <1>3 DEF Precede, Waiting, Placed, Ordered
    <3> QED BY <1>1, <1>4, <2>1, <3>1, AppendFacts
  <2>3. QueueTyped'
    <3>1. Len(buffer') <= Capacity
      BY <1>4, <1>7, <2>2
    <3> QED BY <1>1, <2>1, <2>2, <3>1, DeliveryAssumption DEF Placed, QueueTyped, Cycles
  <2>4. Waiting' = Waiting \cup {new}
    BY <1>1, <2>2 DEF Waiting
  <2>5. Ordered'
    <3>1. Precede(Elements(batch'), Elements(buffer'))
      BY <1>1, <1>3, <2>2 DEF Precede, Placed, Ordered, Waiting
    <3> QED BY <1>1, <1>3, <2>1, <2>2, <2>4, <3>1 DEF Placed, Ordered
  <2>6. OnePlace'
    <3>1. 1..measured' = Elements(buffer') \cup Elements(batch') \cup acked' \cup shed' \cup givenUp'
      BY <1>1, <1>3, <2>1, <2>2 DEF Placed, OnePlace
    <3>2. new = Len(buffer) + 1 + Len(batch) + Cardinality(acked) + Cardinality(shed) + Cardinality(givenUp)
      BY <1>4, <1>5, <1>6
    <3> QED BY <1>1, <2>1, <2>2, <3>1, <3>2 DEF OnePlace
  <2> QED BY <2>3, <2>5, <2>6 DEF Placed
<1>8. CASE ~(Len(buffer) < Capacity)
  <2> DEFINE h == Head(buffer)
             t == Tail(buffer)
  <2>1. buffer' = Append(t, new) /\ shed' = shed \cup {h}
    BY <1>1, <1>8 DEF Measure
  <2>2. buffer # <<>>
    BY <1>4, <1>8, DeliveryAssumption
  <2>3. /\ h \in Cycles /\ t \in Seq(Cycles) /\ Len(t) = Len(buffer) - 1
        /\ Elements(buffer) = {h} \cup Elements(t)
        /\ Ascending(t) /\ \A c \in Elements(t) : h < c
    BY <1>4, <2>2, TailFacts DEF Placed, Ordered
  <2> HIDE DEF h, t
  <2>4. /\ h \in Waiting /\ Elements(t) \subseteq Waiting /\ h \notin Elements(t) /\ h \in Int
    BY <2>3, DeliveryAssumption DEF Waiting, Cycles
  <2>5. /\ buffer' \in Seq(Cycles) /\ Len(buffer') = Len(buffer)
        /\ Elements(buffer') = Elements(t) \cup {new}
        /\ Ascending(buffer')
    <3>1. Precede(Elements(t), {new})
      BY <1>3, <2>4 DEF Precede
    <3>2. /\ Append(t, new) \in Seq(Cycles) /\ Len(Append(t, new)) = Len(t) + 1
          /\ Elements(Append(t, new)) = Elements(t) \cup {new}
          /\ Ascending(Append(t, new))
      BY <1>1, <2>3, <3>1, AppendFacts
    <3> QED BY <1>4, <2>1, <2>3, <3>2
  <2>6. QueueTyped'
    BY <1>1, <1>4, <2>1, <2>3, <2>5, DeliveryAssumption DEF Placed, QueueTyped, Cycles
  <2>7. Waiting' = Elements(batch) \cup Elements(t) \cup {new}
    BY <1>1, <2>5 DEF Waiting
  <2>8. h \notin Elements(batch)
    BY <2>3, <2>4 DEF Placed, Ordered, Precede
  <2>9. Ordered'
    <3>1. Precede(Elements(batch'), Elements(buffer'))
      BY <1>1, <1>3, <2>3, <2>5 DEF Precede, Placed, Ordered, Waiting
    <3>2. Waiting' \subseteq Waiting \cup {new} /\ h \notin Waiting'
      BY <1>3, <2>4, <2>7, <2>8 DEF Waiting
    <3> QED BY <1>1, <1>3, <2>1, <2>5, <3>1, <3>2 DEF Placed, Ordered
  <2>10. OnePlace'
    <3>1. 1..measured' = Elements(buffer') \cup Elements(batch') \cup acked' \cup shed' \cup givenUp'
      BY <1>1, <1>3, <2>1, <2>3, <2>5 DEF Placed, OnePlace
    <3>2. h \notin shed
      BY <2>4 DEF Placed, Ordered
    <3>3. Cardinality(shed \cup {h}) = Cardinality(shed) + 1
      BY <1>6, <3>2, FS_AddElement
    <3>4. new = Len(buffer) + Len(batch) + Cardinality(acked) + (Cardinality(shed) + 1) + Cardinality(givenUp)
      BY <1>4, <1>5, <1>6
    <3> QED BY <1>1, <2>1, <2>5, <3>1, <3>3, <3>4 DEF OnePlace
  <2> QED BY <2>6, <2>9, <2>10 DEF Placed
<1> QED BY <1>7, <1>8

(* A flush cuts the batch off the old end of the buffer (PushSink.Drain).     *)
LEMMA FlushPlaced ==
  ASSUME Placed, batch = <<>>, Flush
  PROVE  Placed'
<1> DEFINE f == FirstOf(buffer, BatchLimit)
           r == RestOf(buffer, BatchLimit)
<1>1. /\ batch' = f /\ buffer' = r
      /\ measured' = measured /\ acked' = acked /\ givenUp' = givenUp /\ shed' = shed
  BY DEF Flush
<1>2. buffer \in Seq(Cycles) /\ BatchLimit \in Nat /\ Ascending(buffer)
  BY DeliveryAssumption DEF Placed, QueueTyped, Ordered
<1>3. /\ f \in Seq(Cycles) /\ r \in Seq(Cycles)
      /\ Len(f) = (IF Len(buffer) < BatchLimit THEN Len(buffer) ELSE BatchLimit)
      /\ Len(f) + Len(r) = Len(buffer)
  BY <1>2, CutFacts
<1>4. /\ Elements(buffer) = Elements(f) \cup Elements(r)
      /\ Ascending(f) /\ Ascending(r) /\ Precede(Elements(f), Elements(r))
  BY <1>2, CutOrder
<1> HIDE DEF f, r
<1>5. Elements(batch) = {} /\ Len(batch) = 0
  BY ElementsEmpty
<1>6. Len(f) \in Nat /\ Len(r) \in Nat /\ Len(f) <= BatchLimit /\ Len(r) <= Len(buffer) /\ Len(buffer) \in Nat
  BY <1>2, <1>3
<1>7. QueueTyped'
  BY <1>1, <1>3, <1>6, DeliveryAssumption DEF Placed, QueueTyped
<1>8. Waiting' = Waiting
  BY <1>1, <1>4, <1>5 DEF Waiting
<1>9. Ordered'
  BY <1>1, <1>4, <1>8 DEF Placed, Ordered
<1>10. OnePlace'
  <2>1. 1..measured' = Elements(buffer') \cup Elements(batch') \cup acked' \cup shed' \cup givenUp'
    BY <1>1, <1>4, <1>5 DEF Placed, OnePlace
  <2>2. Len(r) + Len(f) = Len(buffer) + Len(batch)
    BY <1>3, <1>5, <1>6
  <2>3. measured = Len(r) + Len(f) + Cardinality(acked) + Cardinality(shed) + Cardinality(givenUp)
    BY <2>2 DEF Placed, OnePlace
  <2> QED BY <1>1, <2>1, <2>3 DEF OnePlace
<1> QED BY <1>7, <1>9, <1>10 DEF Placed

-----------------------------------------------------------------------------
(* The inductive invariant: the requests.                                     *)

Request == [left : Seq(Cycles), status : Answers \cup {"sent", "handling", "dead"},
            began : BOOLEAN, late : BOOLEAN]

Places == 1..Len(requests)

Left(n) == Elements(requests[n].left)

(* What is left of a request is in the order of measurement and no larger     *)
(* than a batch; one that is over has nothing left, one in a handler's hands  *)
(* began and one on its way did not, and only one that began can be late.     *)
Sound(r) ==
  /\ Ascending(r.left) /\ Len(r.left) <= BatchLimit
  /\ r.status \notin {"sent", "handling"} => r.left = <<>>
  /\ r.status = "handling" => r.began
  /\ r.status = "sent" => ~r.began
  /\ r.late => r.began

Path ==
  /\ requests \in Seq(Request)
  /\ \A n \in Places : Sound(requests[n]) /\ Left(n) \subseteq 1..measured

(* Only request n is another one now. *)
Touched(n) ==
  /\ requests' \in Seq(Request) /\ Len(requests') = Len(requests)
  /\ \A m \in Places : m # n => requests'[m] = requests[m]

(* Requests lose what is left of them whole or not at all, one that began     *)
(* stays so, and only requests no handler began disappear, the last first.    *)
Settles ==
  /\ requests' \in Seq(Request) /\ Len(requests') <= Len(requests)
  /\ \A m \in 1..Len(requests') :
       /\ requests'[m].left = requests[m].left \/ requests'[m].left = <<>>
       /\ requests[m].began => requests'[m].began
       /\ requests'[m].late = requests[m].late
  /\ \A m \in Places : m > Len(requests') => ~requests[m].began

(* A request's fields. *)
LEMMA RequestFields ==
  ASSUME NEW r \in Request
  PROVE  /\ r.left \in Seq(Cycles) /\ r.began \in BOOLEAN /\ r.late \in BOOLEAN
         /\ r.status \in Answers \cup {"sent", "handling", "dead"}
BY DEF Request

(* Nothing left, nothing to say about it. *)
LEMMA NothingLeft ==
  /\ <<>> \in Seq(Cycles) /\ Ascending(<<>>) /\ Elements(<<>>) = {} /\ Len(<<>>) = 0
  /\ 0 <= BatchLimit
BY ElementsEmpty, DeliveryAssumption

(* A request that is answered. *)
LEMMA BecameFacts ==
  ASSUME Path, NEW n \in Places, NEW status \in Answers, Became(n, status)
  PROVE  /\ Touched(n)
         /\ requests'[n].left = <<>> /\ requests'[n].status = status
         /\ requests'[n].began = requests[n].began /\ requests'[n].late = requests[n].late
<1> DEFINE q == [requests[n] EXCEPT !.status = status, !.left = <<>>]
<1>1. requests \in Seq(Request) /\ requests[n] \in Request
  BY DEF Path, Places
<1>2. /\ q \in Request /\ q.left = <<>> /\ q.status = status /\ q.began = requests[n].began
      /\ q.late = requests[n].late
  BY <1>1, NothingLeft DEF Request
<1>3. requests' = [requests EXCEPT ![n] = q]
  BY <1>1 DEF Became, Request
<1> HIDE DEF q
<1> QED BY <1>1, <1>2, <1>3, ExceptSeq DEF Touched, Places

(* An answer leaves sound requests, and settles one. *)
LEMMA BecameSettles ==
  ASSUME Path, NEW n \in Places, NEW status \in Answers, Became(n, status), measured' = measured
  PROVE  Path' /\ Settles
<1>1. /\ Touched(n)
      /\ requests'[n].left = <<>> /\ requests'[n].status = status
      /\ requests'[n].began = requests[n].began /\ requests'[n].late = requests[n].late
  BY BecameFacts
<1>2. status \notin {"sent", "handling"}
  BY DEF Answers
<1>3. Sound(requests'[n]) /\ Elements(requests'[n].left) \subseteq 1..measured
  <2>1. requests[n].late => requests[n].began
    BY DEF Path, Sound
  <2> QED BY <1>1, <1>2, <2>1, NothingLeft DEF Sound
<1>4. ASSUME NEW m \in Places
      PROVE  Sound(requests'[m]) /\ Elements(requests'[m].left) \subseteq 1..measured
  BY <1>1, <1>3 DEF Path, Touched, Left
<1>5. Path'
  BY <1>1, <1>4 DEF Path, Touched, Places, Left
<1>6. Settles
  <2>1. ASSUME NEW m \in Places
        PROVE  /\ requests'[m].left = requests[m].left \/ requests'[m].left = <<>>
               /\ requests[m].began => requests'[m].began
               /\ requests'[m].late = requests[m].late
    BY <1>1 DEF Touched
  <2>2. Len(requests) \in Nat
    BY DEF Path
  <2> QED BY <1>1, <2>1, <2>2 DEF Settles, Touched, Places
<1> QED BY <1>5, <1>6

(* A handler takes a request up, or turns it away (handleCycles). *)
LEMMA ArriveFacts ==
  ASSUME Path, NEW n \in Places, Arrive(n)
  PROVE  /\ Touched(n) /\ Sound(requests'[n])
         /\ requests'[n].left = requests[n].left \/ requests'[n].left = <<>>
         /\ requests[n].began => requests'[n].began
         /\ requests'[n].late = requests[n].late
         /\ requests'[n].status \in {"sent", "handling", "ok"} =>
              /\ requests[n].status \in {"sent", "handling", "ok"}
              /\ requests'[n].left = requests[n].left
<1>1. requests \in Seq(Request) /\ requests[n] \in Request /\ requests[n].status = "sent"
  BY DEF Path, Places, Arrive
<1>2. CASE registered
  <2> DEFINE q == [requests[n] EXCEPT !.status = "handling", !.began = TRUE]
  <2>1. /\ q \in Request /\ q.left = requests[n].left /\ q.status = "handling" /\ q.began
        /\ q.late = requests[n].late
    BY <1>1 DEF Request
  <2>2. requests' = [requests EXCEPT ![n] = q]
    BY <1>1, <1>2 DEF Arrive, Request
  <2> HIDE DEF q
  <2>3. Touched(n) /\ requests'[n] = q
    BY <1>1, <2>1, <2>2, ExceptSeq DEF Touched, Places
  <2>4. Sound(q)
    BY <2>1 DEF Path, Sound
  <2> QED BY <1>1, <2>1, <2>3, <2>4
<1>3. CASE ~registered
  <2>1. Became(n, "unregistered") /\ "unregistered" \in Answers
    BY <1>3 DEF Arrive, Answers
  <2>2. /\ Touched(n)
        /\ requests'[n].left = <<>> /\ requests'[n].status = "unregistered"
        /\ requests'[n].began = requests[n].began /\ requests'[n].late = requests[n].late
    BY <2>1, BecameFacts
  <2>3. requests[n].late => requests[n].began
    BY DEF Path, Sound
  <2> QED BY <2>2, <2>3, NothingLeft DEF Sound
<1> QED BY <1>2, <1>3

(* An arrival leaves sound requests, and may settle one. *)
LEMMA ArriveSettles ==
  ASSUME Path, NEW n \in Places, Arrive(n), measured' = measured
  PROVE  Path' /\ Settles
<1>1. /\ Touched(n) /\ Sound(requests'[n])
      /\ requests'[n].left = requests[n].left \/ requests'[n].left = <<>>
      /\ requests[n].began => requests'[n].began
      /\ requests'[n].late = requests[n].late
  BY ArriveFacts
<1>2. ASSUME NEW m \in Places
      PROVE  Sound(requests'[m]) /\ Elements(requests'[m].left) \subseteq 1..measured
  BY <1>1, NothingLeft DEF Path, Touched, Left
<1>3. Path'
  BY <1>1, <1>2 DEF Path, Touched, Places, Left
<1>4. ASSUME NEW m \in Places
      PROVE  /\ requests'[m].left = requests[m].left \/ requests'[m].left = <<>>
             /\ requests[m].began => requests'[m].began
             /\ requests'[m].late = requests[m].late
  BY <1>1 DEF Touched
<1>5. Len(requests) \in Nat
  BY DEF Path
<1>6. Settles
  BY <1>1, <1>4, <1>5 DEF Settles, Touched, Places
<1> QED BY <1>3, <1>6

(* One pass of ingestBatch takes the oldest cycle off what is left. *)
LEMMA IngestFacts ==
  ASSUME Path, NEW n \in Places, Ingest(n)
  PROVE  /\ Touched(n) /\ requests[n].left \in Seq(Cycles) /\ requests[n].left # <<>>
         /\ requests'[n].left = Tail(requests[n].left)
         /\ requests'[n].status = requests[n].status
         /\ requests'[n].began = requests[n].began /\ requests[n].began
         /\ requests'[n].late = (requests[n].late \/ n < Len(requests))
<1>1. /\ requests \in Seq(Request) /\ requests[n] \in Request
      /\ requests[n].status = "handling" /\ requests[n].left # <<>>
  BY DEF Path, Places, Ingest
<1>2. requests[n].left \in Seq(Cycles) /\ requests[n].late \in BOOLEAN
  BY <1>1, RequestFields
<1> DEFINE q == [requests[n] EXCEPT !.left = Tail(@), !.late = @ \/ n < Len(requests)]
<1>3. Tail(requests[n].left) \in Seq(Cycles)
  BY <1>1, <1>2
<1>4. /\ q \in Request /\ q.left = Tail(requests[n].left)
      /\ q.status = requests[n].status /\ q.began = requests[n].began
      /\ q.late = (requests[n].late \/ n < Len(requests))
  BY <1>1, <1>2, <1>3 DEF Request
<1>5. requests' = [requests EXCEPT ![n] = q]
  BY <1>1 DEF Ingest, Request
<1> HIDE DEF q
<1>6. requests[n].began
  BY <1>1 DEF Path, Sound
<1>7. Touched(n) /\ requests'[n] = q
  BY <1>1, <1>4, <1>5, ExceptSeq DEF Touched, Places
<1> QED BY <1>1, <1>2, <1>4, <1>6, <1>7

(* So the requests stay sound. *)
LEMMA IngestPath ==
  ASSUME Path, NEW n \in Places, Ingest(n), measured' = measured
  PROVE  Path'
<1>1. /\ Touched(n) /\ requests[n].left \in Seq(Cycles) /\ requests[n].left # <<>>
      /\ requests'[n].left = Tail(requests[n].left)
      /\ requests'[n].status = requests[n].status
      /\ requests'[n].began = requests[n].began
  BY IngestFacts
<1>2. Sound(requests[n]) /\ Left(n) \subseteq 1..measured
  BY DEF Path
<1>3. /\ Ascending(Tail(requests[n].left)) /\ Len(Tail(requests[n].left)) <= BatchLimit
      /\ Elements(Tail(requests[n].left)) \subseteq 1..measured
  <2>1. Ascending(requests[n].left) /\ Len(requests[n].left) <= BatchLimit /\ Len(requests[n].left) \in Nat
    BY <1>1, <1>2 DEF Sound
  <2>2. /\ Ascending(Tail(requests[n].left))
        /\ Len(Tail(requests[n].left)) = Len(requests[n].left) - 1
        /\ Elements(requests[n].left)
             = {Head(requests[n].left)} \cup Elements(Tail(requests[n].left))
    BY <1>1, <2>1, TailFacts
  <2> QED BY <1>2, <2>1, <2>2, DeliveryAssumption DEF Left
<1>4. requests[n].status = "handling"
  BY DEF Ingest
<1>5. Sound(requests'[n])
  BY <1>1, <1>2, <1>3, <1>4 DEF Sound
<1>6. ASSUME NEW m \in Places
      PROVE  Sound(requests'[m]) /\ Elements(requests'[m].left) \subseteq 1..measured
  BY <1>1, <1>3, <1>5 DEF Path, Touched, Left
<1> QED BY <1>1, <1>6 DEF Path, Touched, Places, Left

(* The master's process dies with its handlers. *)
LEMMA RestartSettles ==
  ASSUME Path, RestartMaster, measured' = measured
  PROVE  /\ Path' /\ Settles /\ Len(requests') = Len(requests)
         /\ \A m \in Places : requests'[m].status \in {"sent", "handling", "ok"} =>
              requests'[m] = requests[m]
<1>1. requests \in Seq(Request) /\ Len(requests) \in Nat
  BY DEF Path
<1> DEFINE dead(n) == [requests[n] EXCEPT !.status = "dead", !.left = <<>>]
           next(n) == IF requests[n].status = "handling" THEN dead(n) ELSE requests[n]
<1>2. requests' = [n \in Places |-> next(n)]
  BY DEF RestartMaster, Places
<1>3. ASSUME NEW n \in Places
      PROVE  /\ requests[n] \in Request /\ dead(n) \in Request
             /\ dead(n).left = <<>> /\ dead(n).status = "dead"
             /\ dead(n).began = requests[n].began /\ dead(n).late = requests[n].late
  <2>1. requests[n] \in Request
    BY <1>1 DEF Places
  <2>2. /\ requests[n].began \in BOOLEAN /\ requests[n].late \in BOOLEAN
        /\ DOMAIN requests[n] = {"left", "status", "began", "late"}
    BY <2>1 DEF Request
  <2> QED BY <2>1, <2>2, NothingLeft DEF Request
<1> HIDE DEF dead
<1>4. ASSUME NEW n \in Places
      PROVE  /\ next(n) \in Request
             /\ next(n).left = requests[n].left \/ next(n).left = <<>>
             /\ next(n).began = requests[n].began /\ next(n).late = requests[n].late
             /\ next(n).status \in {"sent", "handling", "ok"} => next(n) = requests[n]
             /\ Sound(next(n)) /\ Elements(next(n).left) \subseteq 1..measured
  <2>1. CASE requests[n].status = "handling"
    <3>1. requests[n].late => requests[n].began
      BY DEF Path, Sound
    <3> QED BY <1>3, <2>1, <3>1, NothingLeft DEF Sound
  <2>2. CASE requests[n].status # "handling"
    BY <1>3, <2>2 DEF Path, Left
  <2> QED BY <2>1, <2>2
<1>5. requests' \in Seq(Request) /\ Len(requests') = Len(requests) /\ \A m \in Places : requests'[m] = next(m)
  BY <1>1, <1>2, <1>4 DEF Places
<1> HIDE DEF next
<1>6. Path'
  BY <1>4, <1>5 DEF Path, Places, Left
<1>7. Settles
  BY <1>1, <1>4, <1>5 DEF Settles, Places
<1> QED BY <1>4, <1>5, <1>6, <1>7

(* Nothing happens to the requests. *)
LEMMA SameSettles ==
  ASSUME Path, requests' = requests
  PROVE  /\ Settles
         /\ measured \in Nat /\ measured' \in Nat /\ measured <= measured' => Path'
<1>1. requests \in Seq(Request) /\ Len(requests) \in Nat
  BY DEF Path
<1>2. Settles
  BY <1>1 DEF Settles, Places
<1>3. ASSUME measured \in Nat, measured' \in Nat, measured <= measured'
      PROVE  Path'
  <2>1. 1..measured \subseteq 1..measured'
    BY <1>3
  <2>2. ASSUME NEW n \in Places
        PROVE  Sound(requests[n]) /\ Elements(requests[n].left) \subseteq 1..measured'
    BY <2>1 DEF Path, Left
  <2> QED BY <1>1, <2>2 DEF Path, Places, Left
<1> QED BY <1>2, <1>3

(* An answer the slave took up: a request no handler began is forgotten.      *)
LEMMA AnsweredSettles ==
  ASSUME Path, awaited = Len(requests), NEW status, Answered(status), measured' = measured
  PROVE  Path' /\ Settles
<1>1. requests \in Seq(Request) /\ Len(requests) \in Nat /\ Len(requests) > 0
  BY DEF Path, Answered
<1>2. CASE requests[awaited].began
  BY <1>1, <1>2 DEF Answered, Path, Settles, Places, Left
<1>3. CASE ~requests[awaited].began
  <2> DEFINE q == SubSeq(requests, 1, awaited - 1)
  <2>1. requests' = q
    BY <1>3 DEF Answered
  <2>2. /\ q \in Seq(Request) /\ Len(q) = Len(requests) - 1
        /\ \A m \in 1..Len(q) : m \in Places /\ q[m] = requests[m]
    BY <1>1 DEF Places
  <2> HIDE DEF q
  <2>3. Path'
    BY <2>1, <2>2 DEF Path, Places, Left
  <2>4. \A m \in Places : m > Len(q) => m = awaited
    BY <1>1, <2>2 DEF Places
  <2>5. Settles
    BY <1>1, <1>3, <2>1, <2>2, <2>4 DEF Settles
  <2> QED BY <2>3, <2>5
<1> QED BY <1>2, <1>3

(* A flush sends one request more. *)
LEMMA FlushFacts ==
  ASSUME Path, Placed, Flush
  PROVE  /\ Path' /\ Len(requests') = Len(requests) + 1 /\ Len(requests) \in Nat
         /\ awaited' = Len(requests')
         /\ \A m \in Places : requests'[m] = requests[m]
         /\ requests'[awaited'].left = batch' /\ requests'[awaited'].status = "sent"
         /\ ~requests'[awaited'].began
         /\ batch' = FirstOf(buffer, BatchLimit) /\ batch' # <<>>
         /\ Elements(batch') \subseteq Waiting
<1> DEFINE r == [left |-> batch', status |-> "sent", began |-> FALSE, late |-> FALSE]
<1>1. /\ requests' = Append(requests, r) /\ awaited' = Len(requests') /\ measured' = measured
      /\ batch' = FirstOf(buffer, BatchLimit) /\ buffer # <<>>
  BY DEF Flush
<1>2. buffer \in Seq(Cycles) /\ BatchLimit \in Nat /\ Ascending(buffer) /\ BatchLimit > 0
  BY DeliveryAssumption DEF Placed, QueueTyped, Ordered
<1>3. /\ batch' \in Seq(Cycles)
      /\ Len(batch') = (IF Len(buffer) < BatchLimit THEN Len(buffer) ELSE BatchLimit)
  BY <1>1, <1>2, CutFacts
<1>4. Ascending(batch') /\ Elements(batch') \subseteq Elements(buffer)
  BY <1>1, <1>2, CutOrder
<1>5. Len(buffer) \in Nat /\ Len(buffer) > 0
  BY <1>1, <1>2
<1>6. Len(batch') <= BatchLimit /\ Len(batch') > 0
  BY <1>2, <1>3, <1>5
<1>7. batch' # <<>>
  BY <1>6, ElementsEmpty, NothingLeft
<1>8. /\ r \in Request /\ r.left = batch' /\ r.status = "sent" /\ ~r.began /\ ~r.late
  BY <1>3 DEF Request
<1> HIDE DEF r
<1>9. Sound(r) /\ Elements(r.left) \subseteq 1..measured
  <2>1. Elements(batch') \subseteq 1..measured
    BY <1>4, WaitingMeasured DEF Waiting
  <2> QED BY <1>4, <1>6, <1>8, <2>1 DEF Sound
<1>10. requests \in Seq(Request) /\ Len(requests) \in Nat
  BY DEF Path
<1>11. /\ requests' \in Seq(Request) /\ Len(requests') = Len(requests) + 1
       /\ \A m \in Places : requests'[m] = requests[m]
       /\ requests'[Len(requests) + 1] = r
  BY <1>1, <1>8, <1>10, AppendProperties DEF Places
<1>12. \A m \in 1..Len(requests') : m \in Places \/ m = Len(requests) + 1
  BY <1>10, <1>11 DEF Places
<1>13. Path'
  BY <1>1, <1>9, <1>11, <1>12 DEF Path, Places, Left
<1> QED BY <1>1, <1>4, <1>7, <1>8, <1>10, <1>11, <1>13 DEF Waiting

-----------------------------------------------------------------------------
(* The inductive invariant: the runner and the master.                        *)

MasterTyped ==
  /\ registered \in BOOLEAN /\ resolves \in BOOLEAN /\ forgotten \in BOOLEAN
  /\ recent \in [{"slave"} -> Seq(Redelivery!Entry)]
  /\ stored \in Seq(Cycles) /\ unresolved \subseteq Cycles
  /\ faults \in 0..MaxFaults /\ overtaken \in Nat

(* The runner awaits the last request alone, with its batch in hand, and      *)
(* holds a batch nobody answers for only to register again, or to exit.       *)
RunnerKnows ==
  /\ phase \in {"register", "configure", "run", "reregister", "stopping", "final", "exited"}
  /\ awaited \in 0..Len(requests)
  /\ awaited # 0 => awaited = Len(requests) /\ batch # <<>> /\ phase \in {"run", "final"}
  /\ awaited = 0 /\ batch # <<>> => phase \in {"reregister", "final"}

Stored == Elements(stored)

(* Of the batch in hand, what the request awaited no longer carries has been  *)
(* ingested, now or by an earlier request, or has no target.                  *)
Covered ==
  awaited # 0 /\ requests[awaited].status \in {"sent", "handling", "ok"} =>
    Elements(batch) \subseteq Left(awaited) \cup Stored \cup unresolved

Newest == recent["slave"]

(* The window holds the youngest of what was stored, all of it while it is    *)
(* not full, unless the master forgot.                                        *)
RecentIsTail ==
  /\ Len(Newest) <= Len(stored) /\ Len(Newest) <= Window
  /\ \A i \in 1..Len(Newest) :
       Newest[i] = [id |-> stored[Len(stored) - Len(Newest) + i], live |-> TRUE]
  /\ ~forgotten => Len(Newest) = Window \/ Len(Newest) = Len(stored)

Core == RunnerKnows /\ Placed /\ Path /\ MasterTyped /\ Covered /\ RecentIsTail /\ AckedIsStored

(* The run's invariant is part of it. *)
LEMMA CoreImpliesInv == Core => Inv
<1> SUFFICES ASSUME Core PROVE Inv
  OBVIOUS
<1>1. requests \in Seq([left : Seq(Cycles), status : Answers \cup {"sent", "handling", "dead"},
                        began : BOOLEAN, late : BOOLEAN])
  BY DEF Core, Path, Request
<1>2. TypeOK
  BY <1>1 DEF Core, RunnerKnows, Placed, QueueTyped, MasterTyped, TypeOK
<1> QED BY <1>2 DEF Core, Placed, Inv

(* What the window remembers was stored. *)
LEMMA RememberedStored ==
  ASSUME MasterTyped, RecentIsTail
  PROVE  /\ Newest \in Seq(Redelivery!Entry) /\ Len(Newest) \in Nat /\ Len(stored) \in Nat
         /\ \A i \in 1..Len(Newest) : Len(stored) - Len(Newest) + i \in 1..Len(stored)
         /\ \A c : c \in Redelivery!Remembered("slave") <=>
              \E i \in 1..Len(Newest) : c = stored[Len(stored) - Len(Newest) + i]
         /\ Redelivery!Remembered("slave") \subseteq Stored
<1>1. /\ Newest \in Seq(Redelivery!Entry) /\ Len(Newest) \in Nat /\ Len(stored) \in Nat
      /\ Len(Newest) <= Len(stored)
  BY DEF MasterTyped, Newest, RecentIsTail
<1>2. \A i \in 1..Len(Newest) : Len(stored) - Len(Newest) + i \in 1..Len(stored)
  BY <1>1
<1>3. \A i \in 1..Len(Newest) :
        Newest[i].live /\ Newest[i].id = stored[Len(stored) - Len(Newest) + i]
  <2> SUFFICES ASSUME NEW i \in 1..Len(Newest)
               PROVE  Newest[i].live /\ Newest[i].id = stored[Len(stored) - Len(Newest) + i]
    OBVIOUS
  <2>1. Newest[i] = [id |-> stored[Len(stored) - Len(Newest) + i], live |-> TRUE]
    BY Zenon DEF RecentIsTail
  <2> QED BY <2>1
<1>4. Redelivery!Remembered("slave") = {Newest[i].id : i \in {j \in 1..Len(Newest) : Newest[j].live}}
  BY DEF Redelivery!Remembered, Newest
<1>5. \A c : c \in Redelivery!Remembered("slave") <=>
        \E i \in 1..Len(Newest) : c = stored[Len(stored) - Len(Newest) + i]
  BY <1>3, <1>4
<1>6. Redelivery!Remembered("slave") \subseteq Stored
  BY <1>2, <1>5 DEF Stored, Elements
<1> QED BY <1>1, <1>2, <1>5, <1>6

(* The cycle a pass of ingestBatch takes is stored, now or before, or has no  *)
(* target; nothing else reaches the sinks.                                    *)
IngestedOnly(c) ==
  /\ c \in Stored' \cup unresolved'
  /\ Stored \subseteq Stored' /\ Stored' \subseteq Stored \cup {c}
  /\ unresolved \subseteq unresolved'

(* The window slides over the cycle stored. *)
LEMMA StoreFacts ==
  ASSUME MasterTyped, RecentIsTail, NEW c \in Cycles,
         Redelivery!Ingest("slave", c), stored' = Append(stored, c), forgotten' = forgotten
  PROVE  /\ recent' \in [{"slave"} -> Seq(Redelivery!Entry)] /\ stored' \in Seq(Cycles)
         /\ RecentIsTail' /\ Stored' = Stored \cup {c}
<1> DEFINE e == [id |-> c, live |-> TRUE]
           old == IF Len(Newest) < Window THEN Newest ELSE Tail(Newest)
           L == Len(stored)
           K == Len(Newest)
<1>1. /\ Newest \in Seq(Redelivery!Entry) /\ K \in Nat /\ L \in Nat /\ K <= L /\ K <= Window
      /\ stored \in Seq(Cycles) /\ Window \in Nat /\ Window > 0
      /\ recent \in [{"slave"} -> Seq(Redelivery!Entry)]
  BY RememberedStored, DeliveryAssumption DEF MasterTyped, RecentIsTail
<1>2. e \in Redelivery!Entry
  BY DEF Redelivery!Entry
<1>3. /\ stored' \in Seq(Cycles) /\ Len(stored') = L + 1
      /\ (\A i \in 1..L : stored'[i] = stored[i]) /\ stored'[L + 1] = c
  BY <1>1, AppendProperties
<1>4. Stored' = Stored \cup {c}
  BY <1>1, AppendFacts DEF Stored
<1>5. /\ old \in Seq(Redelivery!Entry) /\ Len(old) \in Nat /\ Len(old) + 1 <= Window /\ Len(old) + 1 <= L + 1
      /\ \A i \in 1..Len(old) : old[i] = [id |-> stored[L - Len(old) + i], live |-> TRUE]
      /\ ~forgotten => Len(old) + 1 = Window \/ Len(old) = L
  <2>1. CASE K < Window
    <3>1. old = Newest
      BY <2>1
    <3>2. \A i \in 1..K : Newest[i] = [id |-> stored[L - K + i], live |-> TRUE]
      BY DEF RecentIsTail
    <3>3. ~forgotten => K = L
      BY <2>1, <1>1 DEF RecentIsTail
    <3> HIDE DEF old, K, L
    <3>4. Len(Newest) = K
      BY DEF K
    <3> QED BY <1>1, <2>1, <3>1, <3>2, <3>3, <3>4
  <2>2. CASE ~(K < Window)
    <3>1. /\ old = Tail(Newest) /\ K = Window /\ Newest # <<>>
      BY <2>2, <1>1
    <3>2. /\ old \in Seq(Redelivery!Entry) /\ Len(old) = K - 1
          /\ \A i \in 1..Len(old) : old[i] = Newest[i + 1]
      BY <1>1, <3>1, HeadTailProperties
    <3>3. \A i \in 1..K : Newest[i] = [id |-> stored[L - K + i], live |-> TRUE]
      BY DEF RecentIsTail
    <3> HIDE DEF old, K, L
    <3>4. ASSUME NEW i \in 1..Len(old)
          PROVE  old[i] = [id |-> stored[L - Len(old) + i], live |-> TRUE]
      <4>1. i + 1 \in 1..K /\ L - K + (i + 1) = L - Len(old) + i
        BY <1>1, <3>2
      <4>2. Newest[i + 1] = [id |-> stored[L - K + (i + 1)], live |-> TRUE]
        BY <3>3, <4>1
      <4>3. old[i] = Newest[i + 1]
        BY <3>2
      <4> QED BY <4>1, <4>2, <4>3
    <3> QED BY <1>1, <3>1, <3>2, <3>4
  <2> QED BY <2>1, <2>2
<1>6. recent' = [recent EXCEPT !["slave"] = Append(old, e)]
  BY DEF Redelivery!Ingest, Newest
<1> HIDE DEF old, e
<1>7. /\ Append(old, e) \in Seq(Redelivery!Entry) /\ Len(Append(old, e)) = Len(old) + 1
      /\ \A i \in 1..Len(old) : Append(old, e)[i] = old[i]
      /\ Append(old, e)[Len(old) + 1] = e
  BY <1>2, <1>5, AppendProperties
<1>8. recent' \in [{"slave"} -> Seq(Redelivery!Entry)] /\ Newest' = Append(old, e)
  BY <1>1, <1>6, <1>7 DEF Newest
<1> HIDE DEF K, L
<1>9. L = Len(stored)
  BY DEF L
<1>10. ASSUME NEW i \in 1..(Len(old) + 1)
       PROVE  Newest'[i] = [id |-> stored'[L + 1 - (Len(old) + 1) + i], live |-> TRUE]
  <2>1. CASE i \in 1..Len(old)
    <3>1. L - Len(old) + i \in 1..L /\ L + 1 - (Len(old) + 1) + i = L - Len(old) + i
      BY <1>1, <1>5, <2>1
    <3> QED BY <1>3, <1>5, <1>7, <1>8, <2>1, <3>1
  <2>2. CASE i = Len(old) + 1
    <3>1. L + 1 - (Len(old) + 1) + i = L + 1
      BY <1>1, <1>5, <2>2
    <3> QED BY <1>3, <1>7, <1>8, <2>2, <3>1 DEF e
  <2>3. Len(old) \in Nat
    BY <1>5
  <2>4. i \in 1..Len(old) \/ i = Len(old) + 1
    BY <2>3
  <2> QED BY <2>1, <2>2, <2>4, Zenon
<1>11. RecentIsTail'
  <2>1. Len(Newest') = Len(old) + 1 /\ Len(stored') = L + 1
    BY <1>3, <1>7, <1>8
  <2>2. ~forgotten' => Len(Newest') = Window \/ Len(Newest') = Len(stored')
    BY <1>5, <2>1
  <2>3. \A i \in 1..Len(Newest') :
          Newest'[i] = [id |-> stored'[Len(stored') - Len(Newest') + i], live |-> TRUE]
    <3> SUFFICES ASSUME NEW i \in 1..Len(Newest')
                 PROVE  Newest'[i] = [id |-> stored'[Len(stored') - Len(Newest') + i], live |-> TRUE]
      OBVIOUS
    <3>1. i \in 1..(Len(old) + 1)
      BY <2>1
    <3>2. Newest'[i] = [id |-> stored'[L + 1 - (Len(old) + 1) + i], live |-> TRUE]
      BY <1>10, <3>1
    <3>3. Len(stored') - Len(Newest') + i = L + 1 - (Len(old) + 1) + i
      <4>1. L \in Nat /\ Len(old) \in Nat
        BY <1>1, <1>5
      <4> QED BY <2>1, <4>1
    <3> QED BY <3>2, <3>3
  <2> QED BY <1>5, <2>1, <2>2, <2>3 DEF RecentIsTail
<1> QED BY <1>3, <1>4, <1>8, <1>11

(* The count of later requests begun is a number. *)
LEMMA LaterBegunFacts ==
  ASSUME Path, NEW n \in Places
  PROVE  /\ LaterBegun(n) \in Nat
         /\ LaterBegun(n) = 0 => \A m \in Places : n < m => ~requests[m].began
<1> DEFINE S == {m \in (n + 1)..Len(requests) : requests[m].began}
<1>1. Len(requests) \in Nat /\ n \in Nat /\ n + 1 \in Int
  BY DEF Path, Places
<1>2. IsFiniteSet((n + 1)..Len(requests))
  BY <1>1, FS_Interval
<1>3. IsFiniteSet(S)
  BY <1>2, FS_Subset
<1>4. LaterBegun(n) = Cardinality(S)
  BY DEF LaterBegun
<1>5. S = {} => \A m \in Places : n < m => ~requests[m].began
  BY <1>1 DEF Places
<1> HIDE DEF S
<1> QED BY <1>3, <1>4, <1>5, FS_CardinalityType, FS_EmptySet

(* What a pass of ingestBatch does to the master. *)
LEMMA IngestMaster ==
  ASSUME Path, MasterTyped, RecentIsTail, NEW n \in Places, Ingest(n)
  PROVE  MasterTyped' /\ RecentIsTail' /\ IngestedOnly(Head(requests[n].left))
<1> DEFINE c == Head(requests[n].left)
<1>1. c \in Cycles
  BY IngestFacts, TailFacts
<1>2. overtaken' \in Nat
  BY LaterBegunFacts DEF Ingest, Larger, MasterTyped
<1>3. UNCHANGED <<registered, resolves, faults, forgotten>>
  BY DEF Ingest
<1>4. CASE ~resolves /\ unresolved' = unresolved \cup {c} /\ recent' = recent /\ stored' = stored
  BY <1>1, <1>2, <1>3, <1>4 DEF MasterTyped, RecentIsTail, IngestedOnly, Stored, Newest
<1>5. CASE /\ resolves /\ c \in Redelivery!Remembered("slave")
           /\ recent' = recent /\ stored' = stored /\ unresolved' = unresolved
  <2>1. c \in Stored
    BY <1>5, RememberedStored
  <2> QED BY <1>2, <1>3, <1>5, <2>1 DEF MasterTyped, RecentIsTail, IngestedOnly, Stored, Newest
<1>6. CASE /\ resolves /\ Redelivery!Ingest("slave", c)
           /\ stored' = Append(stored, c) /\ unresolved' = unresolved
  <2>1. /\ recent' \in [{"slave"} -> Seq(Redelivery!Entry)] /\ stored' \in Seq(Cycles)
        /\ RecentIsTail' /\ Stored' = Stored \cup {c}
    BY <1>1, <1>3, <1>6, StoreFacts
  <2>2. MasterTyped'
    BY <1>2, <1>3, <1>6, <2>1 DEF MasterTyped
  <2>3. IngestedOnly(c)
    BY <1>6, <2>1 DEF IngestedOnly
  <2> QED BY <2>1, <2>2, <2>3
<1> QED BY <1>4, <1>5, <1>6 DEF Ingest

-----------------------------------------------------------------------------
(* The steps that neither measure, nor flush, nor ingest.                     *)

MasterKeeps ==
  /\ UNCHANGED <<stored, unresolved, overtaken>>
  /\ \/ UNCHANGED <<recent, forgotten>>
     \/ recent' = [recent EXCEPT !["slave"] = <<>>] /\ forgotten' = TRUE

Settling == Settles /\ MasterKeeps /\ (QueueSame \/ QueueBack \/ QueueEnds)

Quiet ==
  /\ Path' /\ Settling /\ RunnerKnows' /\ Covered' /\ AckedIsStored'
  /\ registered' \in BOOLEAN /\ resolves' \in BOOLEAN /\ faults' \in 0..MaxFaults

(* A quiet step keeps the core invariant. *)
LEMMA QuietCore ==
  ASSUME Core, Quiet
  PROVE  Core'
<1>1. Placed'
  <2>1. CASE QueueSame
    BY <2>1 DEF Core, Placed, QueueSame, QueueTyped, Ordered, OnePlace, Waiting
  <2>2. CASE QueueBack
    BY <2>2, PutBackPlaced DEF Core
  <2>3. CASE QueueEnds
    BY <2>3, EndsPlaced DEF Core
  <2> QED BY <2>1, <2>2, <2>3 DEF Quiet, Settling
<1>2. MasterTyped' /\ RecentIsTail'
  <2>1. CASE recent' = recent /\ forgotten' = forgotten
    BY <2>1 DEF Quiet, Settling, MasterKeeps, Core, MasterTyped, RecentIsTail, Newest
  <2>2. CASE recent' = [recent EXCEPT !["slave"] = <<>>] /\ forgotten' = TRUE
    <3>1. recent' \in [{"slave"} -> Seq(Redelivery!Entry)] /\ Newest' = <<>> /\ Len(<<>>) = 0
      BY <2>2 DEF Core, MasterTyped, Newest
    <3>2. Len(stored) \in Nat /\ stored' = stored /\ Window \in Nat
      BY DeliveryAssumption DEF Core, MasterTyped, Quiet, Settling, MasterKeeps
    <3>3. RecentIsTail'
      BY <2>2, <3>1, <3>2 DEF RecentIsTail
    <3> QED BY <2>2, <3>1, <3>3 DEF Quiet, Settling, MasterKeeps, Core, MasterTyped
  <2> QED BY <2>1, <2>2 DEF Quiet, Settling, MasterKeeps
<1> QED BY <1>1, <1>2 DEF Quiet, Core

(* A fault is counted. *)
LEMMA FaultFacts ==
  ASSUME Core
  PROVE  (Fault => faults' \in 0..MaxFaults) /\ (faults' = faults => faults' \in 0..MaxFaults)
BY DeliveryAssumption DEF Core, MasterTyped, Fault

(* Where no request is awaited and none with more left, nothing has to be     *)
(* covered and the batch is put back, ended with, or held.                    *)
LEMMA NobodyAwaited ==
  ASSUME Path', awaited' = 0,
         phase' \in {"register", "configure", "run", "reregister", "stopping", "final", "exited"},
         batch' # <<>> => phase' \in {"reregister", "final"}
  PROVE  RunnerKnows' /\ Covered'
<1>1. Len(requests') \in Nat
  BY DEF Path
<1> QED BY <1>1 DEF RunnerKnows, Covered

(* The first registration, the config refresh, an exit with nothing to push,  *)
(* a sweep and an edit of the targets leave queue and requests alone.         *)
LEMMA CalmQuiet ==
  ASSUME Core,
         Start \/ StartFails \/ Refresh \/ ExitEmpty \/ SweepSlave \/ EditTargets \/ UNCHANGED vars
  PROVE  Quiet
<1>1. QueueSame /\ requests' = requests /\ awaited' = awaited /\ MasterKeeps
  BY DEF Start, StartFails, Refresh, ExitEmpty, SweepSlave, EditTargets, vars, slave, master,
         QueueSame, MasterKeeps, Redelivery!Drop
<1>2. measured \in Nat /\ measured <= measured /\ measured' = measured
  BY <1>1 DEF Core, Placed, QueueTyped, QueueSame
<1>3. Path' /\ Settles
  BY <1>1, <1>2, SameSettles DEF Core
<1>4. RunnerKnows'
  BY <1>1 DEF Core, RunnerKnows, Start, StartFails, Refresh, ExitEmpty, SweepSlave, EditTargets,
              vars, slave, QueueSame
<1>5. Covered' /\ AckedIsStored'
  BY <1>1 DEF Core, Covered, AckedIsStored, QueueSame, MasterKeeps, Left, Stored
<1>6. registered' \in BOOLEAN /\ resolves' \in BOOLEAN
  BY DEF Start, StartFails, Refresh, ExitEmpty, SweepSlave, EditTargets, vars, master, Core, MasterTyped
<1>7. faults' \in 0..MaxFaults
  BY FaultFacts DEF Start, StartFails, Refresh, ExitEmpty, SweepSlave, EditTargets, vars
<1> QED BY <1>1, <1>3, <1>4, <1>5, <1>6, <1>7 DEF Quiet, Settling

(* The timeout, a failed or done re-registration and a shutdown put the batch *)
(* back and leave the requests where they are.                                *)
LEMMA BackQuiet ==
  ASSUME Core, GiveUpWaiting \/ TimeoutExpires \/ Reregister \/ ReregisterFails \/ Stop
  PROVE  Quiet
<1>1. QueueBack /\ requests' = requests /\ awaited' = 0 /\ MasterKeeps /\ batch' = <<>>
  BY DEF GiveUpWaiting, TimeoutExpires, Reregister, ReregisterFails, Stop, Holding, master,
         QueueBack, PutBack, MasterKeeps
<1>2. measured \in Nat /\ measured <= measured /\ measured' = measured
  BY <1>1 DEF Core, Placed, QueueTyped, QueueBack
<1>3. Path' /\ Settles
  BY <1>1, <1>2, SameSettles DEF Core
<1>4. phase' \in {"register", "configure", "run", "reregister", "stopping", "final", "exited"}
  BY DEF Core, RunnerKnows, GiveUpWaiting, TimeoutExpires, Reregister, ReregisterFails, Stop, Ended
<1>5. RunnerKnows' /\ Covered'
  BY <1>1, <1>3, <1>4, NobodyAwaited
<1>6. AckedIsStored'
  BY <1>1 DEF Core, AckedIsStored, QueueBack, MasterKeeps
<1>7. registered' \in BOOLEAN /\ resolves' \in BOOLEAN
  BY DEF GiveUpWaiting, TimeoutExpires, Reregister, ReregisterFails, Stop, master, Core, MasterTyped
<1>8. faults' \in 0..MaxFaults
  BY FaultFacts DEF GiveUpWaiting, TimeoutExpires, Reregister, ReregisterFails, Stop
<1> QED BY <1>1, <1>3, <1>5, <1>6, <1>7, <1>8 DEF Quiet, Settling

(* An answer ends the wait: the batch is acknowledged only if the request     *)
(* awaited was ingested whole, and otherwise given up, put back or held.      *)
LEMMA AnswerQuiet ==
  ASSUME Core, Acknowledged \/ Refused \/ Unauthorized \/ Unavailable \/ Unregistered
  PROVE  Quiet
<1>1. /\ awaited # 0 /\ awaited = Len(requests) /\ awaited \in Places
      /\ batch # <<>> /\ phase \in {"run", "final"}
  BY DEF Core, RunnerKnows, Path, Places, Acknowledged, Refused, Unauthorized, Unavailable, Unregistered,
         Answered
<1>2. /\ awaited' = 0 /\ measured' = measured /\ faults' = faults
      /\ UNCHANGED <<registered, resolves>> /\ MasterKeeps
      /\ \E status \in Answers : Answered(status)
  BY DEF Acknowledged, Refused, Unauthorized, Unavailable, Unregistered, Answered, Answers, master, MasterKeeps
<1>3. Path' /\ Settles
  BY <1>1, <1>2, AnsweredSettles DEF Core
<1>4. QueueSame \/ QueueBack \/ QueueEnds
  BY <1>1 DEF Acknowledged, Refused, Unauthorized, Unavailable, Unregistered,
              QueueSame, QueueBack, QueueEnds
<1>5. phase' \in {"register", "configure", "run", "reregister", "stopping", "final", "exited"}
  BY <1>1 DEF Acknowledged, Refused, Unauthorized, Unavailable, Unregistered, Ended
<1>6. batch' # <<>> => phase' \in {"reregister", "final"}
  BY DEF Acknowledged, Refused, Unauthorized, Unavailable, Unregistered, PutBack
<1>7. RunnerKnows' /\ Covered'
  BY <1>2, <1>3, <1>5, <1>6, NobodyAwaited
<1>8. AckedIsStored'
  <2>1. CASE Acknowledged
    <3>1. requests[awaited].status = "ok"
      BY <2>1 DEF Acknowledged, Answered
    <3>2. requests[awaited].left = <<>>
      BY <1>1, <3>1 DEF Core, Path, Sound
    <3>3. Elements(batch) \subseteq Stored \cup unresolved
      BY <1>1, <3>1, <3>2, NothingLeft DEF Core, Covered, Left
    <3> QED BY <1>2, <2>1, <3>3 DEF Acknowledged, AckedIsStored, Core, MasterKeeps, Stored
  <2>2. CASE ~Acknowledged
    <3>1. acked' = acked
      BY <2>2 DEF Refused, Unauthorized, Unavailable, Unregistered
    <3> QED BY <1>2, <3>1 DEF AckedIsStored, Core, MasterKeeps
  <2> QED BY <2>1, <2>2
<1>9. registered' \in BOOLEAN /\ resolves' \in BOOLEAN /\ faults' \in 0..MaxFaults
  BY <1>2, FaultFacts DEF Core, MasterTyped
<1> QED BY <1>2, <1>3, <1>4, <1>7, <1>8, <1>9 DEF Quiet, Settling

(* The awaited request, if the master did not change it, is still awaited and *)
(* covered.                                                                   *)
LEMMA StillCovered ==
  ASSUME Core, UNCHANGED slave, MasterKeeps, Len(requests') = Len(requests),
         \A m \in Places :
           requests'[m].status \in {"sent", "handling", "ok"} =>
             /\ requests[m].status \in {"sent", "handling", "ok"}
             /\ requests'[m].left = requests[m].left
  PROVE  QueueSame /\ RunnerKnows' /\ Covered' /\ AckedIsStored'
<1>1. QueueSame /\ awaited' = awaited /\ phase' = phase
  BY DEF slave, QueueSame
<1>2. RunnerKnows'
  BY <1>1 DEF Core, RunnerKnows, QueueSame
<1>3. awaited # 0 => awaited \in Places
  BY DEF Core, RunnerKnows, Places, Path
<1>4. Covered'
  BY <1>1, <1>3 DEF Core, Covered, QueueSame, MasterKeeps, Left, Stored
<1>5. AckedIsStored'
  BY <1>1 DEF Core, AckedIsStored, QueueSame, MasterKeeps
<1> QED BY <1>1, <1>2, <1>4, <1>5

(* A handler that answers, or a proxy, or a request turned away, leaves what  *)
(* the slave holds alone.                                                     *)
LEMMA HandlerQuiet ==
  ASSUME Core, NEW n \in Places, Arrive(n) \/ Fail(n) \/ Finish(n)
  PROVE  Quiet
<1>1. /\ UNCHANGED slave /\ MasterKeeps /\ measured' = measured
      /\ UNCHANGED <<registered, resolves>>
  BY DEF Arrive, Fail, Finish, slave, master, MasterKeeps
<1>2. faults' \in 0..MaxFaults
  BY FaultFacts DEF Arrive, Fail, Finish
<1>3. CASE Arrive(n)
  <2>1. Path' /\ Settles
    BY <1>1, <1>3, ArriveSettles DEF Core
  <2>2. /\ Touched(n)
        /\ requests'[n].status \in {"sent", "handling", "ok"} =>
             /\ requests[n].status \in {"sent", "handling", "ok"}
             /\ requests'[n].left = requests[n].left
    BY <1>3, ArriveFacts DEF Core
  <2>3. QueueSame /\ RunnerKnows' /\ Covered' /\ AckedIsStored'
    BY <1>1, <2>2, StillCovered DEF Touched
  <2> QED BY <1>1, <1>2, <2>1, <2>3 DEF Quiet, Settling, Core, MasterTyped
<1>4. CASE Fail(n) \/ Finish(n)
  <2>1. PICK status \in Answers :
          /\ Became(n, status)
          /\ status = "ok" => requests[n].status = "handling" /\ requests[n].left = <<>>
    BY <1>4 DEF Fail, Finish, Answers
  <2>2. Path' /\ Settles
    BY <1>1, <2>1, BecameSettles DEF Core
  <2>3. /\ Touched(n)
        /\ requests'[n].left = <<>> /\ requests'[n].status = status
    BY <2>1, BecameFacts DEF Core
  <2>4. requests'[n].status \in {"sent", "handling", "ok"} =>
          /\ requests[n].status \in {"sent", "handling", "ok"}
          /\ requests'[n].left = requests[n].left
    BY <2>1, <2>3 DEF Answers
  <2>5. QueueSame /\ RunnerKnows' /\ Covered' /\ AckedIsStored'
    BY <1>1, <2>3, <2>4, StillCovered DEF Touched
  <2> QED BY <1>1, <1>2, <2>2, <2>5 DEF Quiet, Settling, Core, MasterTyped
<1> QED BY <1>3, <1>4

(* A restart of the master takes its handlers along, and the window. *)
LEMMA RestartQuiet ==
  ASSUME Core, RestartMaster
  PROVE  Quiet
<1>1. /\ UNCHANGED slave /\ MasterKeeps /\ measured' = measured
      /\ registered' = FALSE /\ resolves' = resolves
  BY DEF RestartMaster, slave, MasterKeeps, Redelivery!Drop
<1>2. faults' \in 0..MaxFaults
  BY FaultFacts DEF RestartMaster
<1>3. /\ Path' /\ Settles /\ Len(requests') = Len(requests)
      /\ \A m \in Places : requests'[m].status \in {"sent", "handling", "ok"} =>
           requests'[m] = requests[m]
  BY <1>1, RestartSettles DEF Core
<1>4. QueueSame /\ RunnerKnows' /\ Covered' /\ AckedIsStored'
  <2>1. \A m \in Places :
          requests'[m].status \in {"sent", "handling", "ok"} =>
            /\ requests[m].status \in {"sent", "handling", "ok"}
            /\ requests'[m].left = requests[m].left
    BY <1>3
  <2> QED BY <1>1, <1>3, <2>1, StillCovered
<1> QED BY <1>1, <1>2, <1>3, <1>4 DEF Quiet, Settling, Core, MasterTyped

-----------------------------------------------------------------------------
(* Every step keeps the core invariant.                                       *)

(* Initially nothing was measured, sent or stored. *)
LEMMA InitCore == Init => Core
<1> SUFFICES ASSUME Init PROVE Core
  OBVIOUS
<1>1. /\ <<>> \in Seq(Cycles) /\ Ascending(<<>>) /\ Elements(<<>>) = {} /\ Len(<<>>) = 0
      /\ Cardinality({}) = 0 /\ <<>> \in Seq(Request)
      /\ BatchLimit \in Nat /\ Capacity \in Nat /\ MaxCycles \in Nat /\ MaxFaults \in Nat /\ Window \in Nat
  BY NothingLeft, FS_EmptySet, DeliveryAssumption
<1>2. Placed
  BY <1>1 DEF Init, Placed, QueueTyped, Ordered, OnePlace, Waiting, Precede
<1>3. Path
  BY <1>1 DEF Init, Path, Places
<1>4. Newest = <<>> /\ recent \in [{"slave"} -> Seq(Redelivery!Entry)]
  BY DEF Init, Redelivery!Init, Newest
<1>5. MasterTyped
  <2>1. registered \in BOOLEAN /\ resolves \in BOOLEAN /\ forgotten \in BOOLEAN
    BY DEF Init
  <2>2. stored \in Seq(Cycles) /\ unresolved \subseteq Cycles
    BY <1>1 DEF Init
  <2>3. faults \in 0..MaxFaults /\ overtaken \in Nat
    BY <1>1 DEF Init
  <2> QED BY <1>4, <2>1, <2>2, <2>3 DEF MasterTyped
<1>6. RecentIsTail
  <2>1. Len(Newest) = 0 /\ Len(stored) = 0 /\ 0 <= Window /\ 1..0 = {}
    BY <1>1, <1>4 DEF Init
  <2> QED BY <2>1 DEF RecentIsTail
<1>7. RunnerKnows /\ Covered /\ AckedIsStored
  BY <1>1 DEF Init, RunnerKnows, Covered, AckedIsStored
<1> QED BY <1>2, <1>3, <1>5, <1>6, <1>7 DEF Core

(* So does a measurement, *)
LEMMA MeasureCore ==
  ASSUME Core, Measure
  PROVE  Core'
<1>1. Placed'
  BY MeasurePlaced DEF Core
<1>2. measured \in Nat /\ measured' \in Nat /\ measured <= measured'
  BY DEF Measure, Core, Placed, QueueTyped
<1>3. Path'
  BY <1>2, SameSettles DEF Measure, Core
<1>4. UNCHANGED <<phase, batch, awaited, acked, requests, master, faults>>
  BY DEF Measure
<1>5. RunnerKnows' /\ Covered' /\ AckedIsStored'
  BY <1>4 DEF Core, RunnerKnows, Covered, AckedIsStored, Left, Stored, master
<1>6. MasterTyped' /\ RecentIsTail'
  BY <1>4 DEF Core, MasterTyped, RecentIsTail, Newest, master
<1> QED BY <1>1, <1>3, <1>5, <1>6 DEF Core

(* a flush, *)
LEMMA FlushCore ==
  ASSUME Core, Flush
  PROVE  Core'
<1>1. batch = <<>>
  BY DEF Core, RunnerKnows, Flush
<1>2. Placed'
  BY <1>1, FlushPlaced DEF Core
<1>3. /\ Path' /\ Len(requests') = Len(requests) + 1 /\ Len(requests) \in Nat
      /\ awaited' = Len(requests')
      /\ requests'[awaited'].left = batch' /\ batch' # <<>>
  BY FlushFacts DEF Core
<1>4. RunnerKnows'
  BY <1>3 DEF Flush, RunnerKnows
<1>5. Covered'
  BY <1>3 DEF Covered, Left
<1>6. AckedIsStored' /\ MasterTyped' /\ RecentIsTail'
  BY DEF Flush, master, Core, AckedIsStored, MasterTyped, RecentIsTail, Newest
<1> QED BY <1>2, <1>3, <1>4, <1>5, <1>6 DEF Core

(* and a pass of ingestBatch.                                                 *)
LEMMA IngestCore ==
  ASSUME Core, NEW n \in Places, Ingest(n)
  PROVE  Core'
<1> DEFINE c == Head(requests[n].left)
<1>1. UNCHANGED slave
  BY DEF Ingest
<1>2. Path'
  BY <1>1, IngestPath DEF Core, slave
<1>3. MasterTyped' /\ RecentIsTail' /\ IngestedOnly(c)
  BY IngestMaster DEF Core
<1>4. /\ Touched(n) /\ requests[n].left \in Seq(Cycles) /\ requests[n].left # <<>>
      /\ requests'[n].left = Tail(requests[n].left)
      /\ requests'[n].status = requests[n].status
  BY IngestFacts DEF Core
<1>5. Left(n) = {c} \cup Left(n)'
  BY <1>4, TailFacts DEF Left
<1>6. RunnerKnows' /\ Placed'
  BY <1>1, <1>4 DEF slave, Touched, Core, RunnerKnows, Placed, QueueTyped, Ordered, OnePlace, Waiting
<1>7. AckedIsStored'
  BY <1>1, <1>3 DEF Core, AckedIsStored, IngestedOnly, slave, Stored
<1>8. Covered'
  <2> SUFFICES ASSUME awaited # 0, requests'[awaited].status \in {"sent", "handling", "ok"}
               PROVE  Elements(batch) \subseteq Left(awaited)' \cup Stored' \cup unresolved'
    BY <1>1 DEF slave, Covered, Left
  <2>1. awaited \in Places
    BY DEF Core, RunnerKnows, Places, Path
  <2>2. requests[awaited].status = requests'[awaited].status
    BY <1>4, <2>1 DEF Touched
  <2>3. Elements(batch) \subseteq Left(awaited) \cup Stored \cup unresolved
    BY <2>2 DEF Core, Covered
  <2>4. Left(awaited) \subseteq Left(awaited)' \cup {c}
    BY <1>1, <1>4, <1>5, <2>1 DEF Touched, Left, slave
  <2> QED BY <1>3, <2>3, <2>4 DEF IngestedOnly
<1> QED BY <1>2, <1>3, <1>6, <1>7, <1>8 DEF Core

(* A step is a measurement, a flush, a pass of ingestBatch, or quiet.         *)
LEMMA StepKinds ==
  ASSUME Core, [Next]_vars
  PROVE  Measure \/ Flush \/ Quiet \/ \E n \in Places : Ingest(n)
<1>1. ASSUME NEW n \in Places, Handler(n) PROVE Quiet \/ Ingest(n)
  BY <1>1, HandlerQuiet DEF Handler
<1>2. CASE Runner
  BY <1>2, CalmQuiet, AnswerQuiet, BackQuiet DEF Runner
<1>3. CASE Refresh \/ UNCHANGED vars
  BY <1>3, CalmQuiet
<1>4. CASE Faulty
  BY <1>4, CalmQuiet, BackQuiet, RestartQuiet, HandlerQuiet DEF Faulty, Places
<1>5. CASE \E n \in 1..Len(requests) : Handler(n)
  BY <1>1, <1>5 DEF Places
<1> QED BY <1>2, <1>3, <1>4, <1>5 DEF Next

(* Every step keeps the core invariant. *)
LEMMA NextCore == Core /\ [Next]_vars => Core'
BY StepKinds, MeasureCore, FlushCore, QuietCore, IngestCore

(* Whatever the network loses, delays or answers, and whichever process       *)
(* restarts: every cycle measured has exactly one place on the slave, and an  *)
(* acknowledged one reached the sinks or has no target (runner.go lines 325   *)
(* to 395, inbound.go).                                                       *)
THEOREM DeliveryIsSound == Spec => []Inv
<1>1. Spec => []Core
  BY InitCore, NextCore, PTL DEF Spec
<1> QED BY <1>1, CoreImpliesInv, PTL

-----------------------------------------------------------------------------
(* The order of what is stored: what the invariant adds for it.               *)

(* The cycles the next flush would carry, or the last one did. *)
Front == IF batch # <<>> THEN batch ELSE FirstOf(buffer, BatchLimit)

(* The master has it or may still take it from a request. *)
Handed(d) == d \in Stored \/ \E k \in Places : d \in Left(k)

(* No later request began. *)
Open(n) == \A m \in Places : n < m => ~requests[m].began

(* What was handed out and is younger than something that waits fits into one *)
(* batch, the front of the queue.                                             *)
FrontCovers ==
  \A d, e \in Cycles : Handed(d) /\ e \in Waiting /\ e <= d => d \in Elements(Front)

(* The same for what is left of a request no later one overtook.              *)
Leads ==
  \A m \in Places : Open(m) =>
    \A d, e \in Cycles :
      /\ d \in Stored \/ \E k \in Places : k < m /\ d \in Left(k)
      /\ e \in Left(m) /\ e <= d
      => d \in Left(m)

(* A request skips no older cycle that can still come. *)
NoGap ==
  \A n \in Places : \A c, e \in Cycles :
    /\ c \in Left(n) /\ e < c
    /\ e \in Waiting \/ \E m \in Places : n < m /\ e \in Left(m)
    => e \in Left(n) \cup Stored \cup unresolved

(* What can still come in order. *)
Prospect(e) == e \in Waiting \/ \E m \in Places : Open(m) /\ e \in Left(m)

(* What is stored is in order, and what can still come is remembered, or      *)
(* younger than all of it.                                                    *)
OrderKept ==
  overtaken = 0 /\ ~forgotten /\ unresolved = {} =>
    /\ Ascending(stored)
    /\ \A e \in Cycles : Prospect(e) =>
         e \in Redelivery!Remembered("slave") \/ \A d \in Stored : d < e

OrderInv == FrontCovers /\ Leads /\ NoGap /\ OrderKept /\ Stored \subseteq 1..measured

IInv == Core /\ OrderInv

-----------------------------------------------------------------------------
(* What the steps do to the order.                                            *)

(* The first cycles of a sequence, by their places. *)
LEMMA FirstPlaces ==
  ASSUME NEW s \in Seq(Cycles), NEW n \in Nat
  PROVE  \A c : c \in Elements(FirstOf(s, n)) <=> \E i \in 1..Len(s) : i <= n /\ s[i] = c
<1> DEFINE f == FirstOf(s, n)
<1>1. /\ Len(s) \in Nat /\ Len(f) = (IF Len(s) < n THEN Len(s) ELSE n)
      /\ \A i \in 1..Len(f) : f[i] = s[i]
  <2>1. Len(s) \in Nat
    OBVIOUS
  <2>2. /\ Len(f) = (IF Len(s) < n THEN Len(s) ELSE n)
        /\ \A i \in 1..Len(f) : f[i] = s[i]
    BY CutFacts, Zenon
  <2> QED BY <2>1, <2>2
<1> HIDE DEF f
<1>2. Elements(f) = {f[i] : i \in 1..Len(f)}
  BY DEF Elements
<1>3. \A i : i \in 1..Len(f) <=> i \in 1..Len(s) /\ i <= n
  BY <1>1
<1> QED BY <1>1, <1>2, <1>3 DEF f

(* A requeued batch is at the front again. *)
LEMMA FrontAfterBack ==
  ASSUME Placed, QueueBack
  PROVE  Elements(Front) \subseteq Elements(Front)'
<1> DEFINE s == batch \o buffer
           f == FirstOf(s, Capacity)
<1>1. /\ batch \in Seq(Cycles) /\ buffer \in Seq(Cycles) /\ Len(batch) \in Nat /\ Len(buffer) \in Nat
      /\ Len(batch) <= BatchLimit
      /\ Capacity \in Nat /\ BatchLimit \in Nat /\ BatchLimit <= Capacity
  BY DeliveryAssumption DEF Placed, QueueTyped
<1>2. /\ s \in Seq(Cycles) /\ Len(s) = Len(batch) + Len(buffer)
      /\ \A i \in 1..Len(batch) : s[i] = batch[i]
      /\ batch = <<>> => s = buffer
  BY <1>1
<1>3. Front' = FirstOf(f, BatchLimit)
  BY DEF QueueBack, PutBack, Front
<1> HIDE DEF s
<1>4. /\ f \in Seq(Cycles) /\ Len(f) = (IF Len(s) < Capacity THEN Len(s) ELSE Capacity)
      /\ \A i \in 1..Len(f) : f[i] = s[i]
  BY <1>1, <1>2, CutFacts
<1> HIDE DEF f
<1>5. ASSUME NEW c \in Elements(Front)
      PROVE  \E i \in 1..Len(s) : i <= BatchLimit /\ s[i] = c
  <2>1. CASE batch # <<>>
    <3>1. PICK i \in 1..Len(batch) : batch[i] = c
      BY <2>1 DEF Front, Elements
    <3>2. i \in 1..Len(s) /\ i <= BatchLimit /\ s[i] = c
      BY <1>1, <1>2, <3>1
    <3> QED BY <3>2
  <2>2. CASE batch = <<>>
    <3>1. c \in Elements(FirstOf(s, BatchLimit))
      BY <1>2, <2>2 DEF Front
    <3> QED BY <1>1, <1>2, <3>1, FirstPlaces
  <2> QED BY <2>1, <2>2
<1>6. ASSUME NEW c \in Elements(Front)
      PROVE  c \in Elements(FirstOf(f, BatchLimit))
  <2>1. PICK i \in 1..Len(s) : i <= BatchLimit /\ s[i] = c
    BY <1>5
  <2>2. Len(s) \in Nat
    BY <1>1, <1>2
  <2>3. i \in 1..Len(f) /\ f[i] = c
    BY <1>1, <1>4, <2>1, <2>2
  <2> QED BY <1>1, <1>4, <2>1, <2>3, FirstPlaces
<1> QED BY <1>3, <1>6

(* What a quiet step leaves of queue, requests and window. *)
LEMMA QuietFacts ==
  ASSUME Core, Quiet
  PROVE  /\ Waiting' \subseteq Waiting
         /\ UNCHANGED <<stored, unresolved, overtaken>> /\ Stored' = Stored
         /\ \A m \in Places' :
              /\ m \in Places
              /\ Left(m)' = Left(m) \/ Left(m)' = {}
              /\ Open(m)' => Open(m)
         /\ ~forgotten' => ~forgotten /\ recent' = recent
<1>1. UNCHANGED <<stored, unresolved, overtaken>> /\ Stored' = Stored
  BY DEF Quiet, Settling, MasterKeeps, Stored
<1>2. ~forgotten' => ~forgotten /\ recent' = recent
  BY DEF Quiet, Settling, MasterKeeps
<1>3. Waiting' \subseteq Waiting
  <2>1. CASE QueueSame
    BY <2>1 DEF QueueSame, Waiting
  <2>2. CASE QueueBack
    <3> DEFINE s == batch \o buffer
    <3>1. s \in Seq(Cycles) /\ Elements(s) = Waiting /\ Capacity \in Nat
      BY ConcatFacts, DeliveryAssumption DEF Core, Placed, QueueTyped, Waiting
    <3>2. buffer' = FirstOf(s, Capacity) /\ batch' = <<>>
      BY <2>2 DEF QueueBack, PutBack
    <3> HIDE DEF s
    <3> QED BY <3>1, <3>2, CutOrder, ElementsEmpty DEF Waiting
  <2>3. CASE QueueEnds
    BY <2>3, ElementsEmpty DEF QueueEnds, Waiting
  <2> QED BY <2>1, <2>2, <2>3 DEF Quiet, Settling
<1>4. Settles /\ Len(requests) \in Nat /\ Len(requests') \in Nat
  BY DEF Quiet, Settling, Settles, Core, Path
<1>5. ASSUME NEW m \in Places'
      PROVE  /\ m \in Places
             /\ Left(m)' = Left(m) \/ Left(m)' = {}
             /\ Open(m)' => Open(m)
  <2>1. m \in 1..Len(requests') /\ m \in Places
    BY <1>4 DEF Places, Settles
  <2>2. Left(m)' = Left(m) \/ Left(m)' = {}
    BY <1>4, <2>1, NothingLeft DEF Settles, Left
  <2>3. ASSUME Open(m)', NEW k \in Places, m < k PROVE ~requests[k].began
    <3>1. CASE k > Len(requests')
      BY <1>4, <3>1 DEF Settles
    <3>2. CASE ~(k > Len(requests'))
      <4>1. k \in 1..Len(requests') /\ k \in Places'
        BY <1>4, <3>2 DEF Places
      <4> QED BY <1>4, <2>3, <4>1 DEF Open, Settles
    <3> QED BY <3>1, <3>2
  <2> QED BY <2>1, <2>2, <2>3 DEF Open
<1> QED BY <1>1, <1>2, <1>3, <1>5

(* A quiet step keeps the order. *)
LEMMA QuietOrder ==
  ASSUME IInv, Quiet
  PROVE  OrderInv'
<1>1. /\ Waiting' \subseteq Waiting
      /\ UNCHANGED <<stored, unresolved, overtaken>> /\ Stored' = Stored
      /\ \A m \in Places' :
           /\ m \in Places
           /\ Left(m)' = Left(m) \/ Left(m)' = {}
           /\ Open(m)' => Open(m)
      /\ ~forgotten' => ~forgotten /\ recent' = recent
  BY QuietFacts DEF IInv
<1>2. ASSUME NEW d \in Cycles, NEW e \in Cycles, Handed(d)', e \in Waiting', e <= d
      PROVE  d \in Elements(Front)'
  <2>1. Handed(d) /\ e \in Waiting
    BY <1>1, <1>2 DEF Handed
  <2>2. d \in Elements(Front)
    BY <1>2, <2>1 DEF IInv, OrderInv, FrontCovers
  <2>3. CASE QueueSame
    BY <2>2, <2>3 DEF QueueSame, Front
  <2>4. CASE QueueBack
    BY <2>2, <2>4, FrontAfterBack DEF IInv, Core
  <2>5. CASE QueueEnds
    <3>1. d \in Elements(batch) /\ e \in Elements(buffer)
      BY <1>2, <2>2, <2>5, ElementsEmpty DEF QueueEnds, Front, Waiting
    <3>2. e \in Int /\ d \in Int
      BY DeliveryAssumption DEF Cycles
    <3>3. d < e
      BY <3>1 DEF IInv, Core, Placed, Ordered, Precede
    <3> QED BY <1>2, <3>2, <3>3
  <2> QED BY <2>3, <2>4, <2>5 DEF Quiet, Settling
<1>3. FrontCovers'
  BY <1>2 DEF FrontCovers
<1>4. Leads'
  <2> SUFFICES ASSUME NEW m \in Places', Open(m)', NEW d \in Cycles, NEW e \in Cycles,
                      d \in Stored' \/ \E k \in Places' : k < m /\ d \in Left(k)',
                      e \in Left(m)', e <= d
               PROVE  d \in Left(m)'
    BY DEF Leads
  <2>1. m \in Places /\ Open(m) /\ Left(m)' = Left(m)
    BY <1>1
  <2>2. d \in Stored \/ \E k \in Places : k < m /\ d \in Left(k)
    BY <1>1
  <2> QED BY <2>1, <2>2 DEF IInv, OrderInv, Leads
<1>5. NoGap'
  <2> SUFFICES ASSUME NEW n \in Places', NEW c \in Cycles, NEW e \in Cycles,
                      c \in Left(n)', e < c,
                      e \in Waiting' \/ \E m \in Places' : n < m /\ e \in Left(m)'
               PROVE  e \in Left(n)' \cup Stored' \cup unresolved'
    BY DEF NoGap
  <2>1. n \in Places /\ Left(n)' = Left(n)
    BY <1>1
  <2>2. e \in Waiting \/ \E m \in Places : n < m /\ e \in Left(m)
    BY <1>1
  <2>3. e \in Left(n) \cup Stored \cup unresolved
    BY <2>1, <2>2 DEF IInv, OrderInv, NoGap
  <2> QED BY <1>1, <2>1, <2>3
<1>6. OrderKept'
  <2> SUFFICES ASSUME overtaken' = 0, ~forgotten', unresolved' = {}
               PROVE  /\ Ascending(stored')
                      /\ \A e \in Cycles : Prospect(e)' =>
                           e \in Redelivery!Remembered("slave")' \/ \A d \in Stored' : d < e
    BY DEF OrderKept
  <2>1. overtaken = 0 /\ ~forgotten /\ unresolved = {} /\ recent' = recent
    BY <1>1
  <2>2. \A e : Prospect(e)' => Prospect(e)
    BY <1>1 DEF Prospect
  <2>3. Redelivery!Remembered("slave")' = Redelivery!Remembered("slave")
    BY <2>1 DEF Redelivery!Remembered
  <2> QED BY <1>1, <2>1, <2>2, <2>3 DEF IInv, OrderInv, OrderKept
<1>7. Stored' \subseteq 1..measured'
  BY <1>1 DEF IInv, OrderInv, Quiet, Settling, QueueSame, QueueBack, QueueEnds
<1> QED BY <1>3, <1>4, <1>5, <1>6, <1>7 DEF OrderInv

(* The front is no longer than a batch. *)
LEMMA FrontTyped ==
  ASSUME Placed
  PROVE  Front \in Seq(Cycles) /\ Len(Front) <= BatchLimit
<1>1. BatchLimit \in Nat
  BY DeliveryAssumption
<1>2. CASE batch # <<>>
  BY <1>2 DEF Placed, QueueTyped, Front
<1>3. CASE batch = <<>>
  <2>1. buffer \in Seq(Cycles) /\ Len(buffer) \in Nat
    BY DEF Placed, QueueTyped
  <2>2. /\ FirstOf(buffer, BatchLimit) \in Seq(Cycles)
        /\ Len(FirstOf(buffer, BatchLimit)) = (IF Len(buffer) < BatchLimit THEN Len(buffer) ELSE BatchLimit)
    BY <1>1, <2>1, CutFacts
  <2> QED BY <1>1, <1>3, <2>1, <2>2 DEF Front
<1> QED BY <1>2, <1>3

(* A measurement: whatever was handed out is older than the new cycle, and    *)
(* what a full buffer sheds is its oldest.                                    *)
LEMMA MeasureOrder ==
  ASSUME IInv, Measure
  PROVE  OrderInv'
<1> DEFINE new == measured + 1
<1>1. /\ measured' = new /\ measured \in Nat /\ new \in Cycles /\ batch' = batch
      /\ UNCHANGED <<requests, master>>
      /\ Cycles \subseteq Int
  BY DeliveryAssumption DEF Measure, IInv, Core, Placed, QueueTyped, Cycles
<1>2. /\ Places' = Places /\ Stored' = Stored /\ UNCHANGED <<stored, unresolved, overtaken, forgotten, recent>>
      /\ \A m : Left(m)' = Left(m) /\ (Open(m)' <=> Open(m))
      /\ \A d : Handed(d)' <=> Handed(d)
  BY <1>1 DEF Places, Stored, Left, Open, Handed, master
<1>3. /\ buffer \in Seq(Cycles) /\ batch \in Seq(Cycles) /\ Len(buffer) \in Nat /\ Len(buffer) <= Capacity
      /\ Ascending(buffer)
      /\ BatchLimit \in Nat /\ BatchLimit > 0 /\ Capacity \in Nat /\ BatchLimit <= Capacity
  BY DeliveryAssumption DEF IInv, Core, Placed, QueueTyped, Ordered
<1>4. PICK t : /\ t = (IF Len(buffer) < Capacity THEN buffer ELSE Tail(buffer))
               /\ buffer' = Append(t, new)
  BY <1>1 DEF Measure
<1>5. /\ t \in Seq(Cycles) /\ Elements(t) \subseteq Elements(buffer) /\ Len(t) \in Nat
      /\ \A i \in 1..Len(buffer) : \A e \in Elements(t) :
           e <= buffer[i] => \E j \in 1..Len(t) : j <= i /\ t[j] = buffer[i]
  <2>1. CASE Len(buffer) < Capacity
    BY <1>3, <1>4, <2>1
  <2>2. CASE ~(Len(buffer) < Capacity)
    <3>1. buffer # <<>> /\ t = Tail(buffer)
      BY <1>3, <1>4, <2>2
    <3>2. /\ Head(buffer) = buffer[1] /\ Head(buffer) \in Cycles
          /\ Tail(buffer) \in Seq(Cycles) /\ Len(Tail(buffer)) = Len(buffer) - 1
          /\ Elements(buffer) = {Head(buffer)} \cup Elements(Tail(buffer))
          /\ \A c \in Elements(Tail(buffer)) : Head(buffer) < c
      BY <1>3, <3>1, TailFacts
    <3>3. \A j \in 1..Len(Tail(buffer)) : Tail(buffer)[j] = buffer[j + 1]
      BY <1>3, <3>1, HeadTailProperties
    <3>4. ASSUME NEW i \in 1..Len(buffer), NEW e \in Elements(t), e <= buffer[i]
          PROVE  \E j \in 1..Len(t) : j <= i /\ t[j] = buffer[i]
      <4>1. i # 1
        <5>1. buffer[1] < e /\ e \in Int /\ buffer[1] \in Int
          BY <1>1, <3>1, <3>2, ElementsFacts
        <5> QED BY <3>4, <5>1
      <4>2. i - 1 \in 1..Len(t) /\ i - 1 <= i /\ i - 1 + 1 = i
        BY <1>3, <3>1, <3>2, <4>1
      <4>3. t[i - 1] = buffer[i]
        BY <3>1, <3>3, <4>2
      <4> QED BY <4>2, <4>3
    <3> QED BY <1>3, <3>1, <3>2, <3>4
  <2> QED BY <2>1, <2>2
<1>6. /\ buffer' \in Seq(Cycles) /\ Len(buffer') = Len(t) + 1
      /\ Elements(buffer') = Elements(t) \cup {new}
      /\ \A j \in 1..Len(t) : buffer'[j] = t[j]
  <2>1. /\ Append(t, new) \in Seq(Cycles) /\ Len(Append(t, new)) = Len(t) + 1
        /\ Elements(Append(t, new)) = Elements(t) \cup {new}
    BY <1>1, <1>5, AppendFacts
  <2>2. \A j \in 1..Len(t) : Append(t, new)[j] = t[j]
    BY <1>1, <1>5, AppendProperties
  <2> QED BY <1>4, <2>1, <2>2
<1>7. Waiting' \subseteq Waiting \cup {new}
  BY <1>1, <1>5, <1>6 DEF Waiting
<1>8. \A d \in Cycles : Handed(d) => d < new
  BY <1>1 DEF Handed, IInv, OrderInv, Core, Path
<1>9. ASSUME NEW d \in Cycles, NEW e \in Cycles, Handed(d)', e \in Waiting', e <= d
      PROVE  d \in Elements(Front)'
  <2>1. e # new /\ e \in Waiting /\ Handed(d)
    BY <1>1, <1>2, <1>7, <1>8, <1>9
  <2>2. d \in Elements(Front)
    BY <1>9, <2>1 DEF IInv, OrderInv, FrontCovers
  <2>3. CASE batch # <<>>
    BY <1>1, <2>2, <2>3 DEF Front
  <2>4. CASE batch = <<>>
    <3>1. e \in Elements(t)
      BY <1>1, <1>6, <1>9, <2>1, <2>4, ElementsEmpty DEF Waiting
    <3>2. PICK i \in 1..Len(buffer) : i <= BatchLimit /\ buffer[i] = d
      BY <1>3, <2>2, <2>4, FirstPlaces DEF Front
    <3>3. PICK j \in 1..Len(t) : j <= i /\ t[j] = d
      BY <1>5, <1>9, <3>1, <3>2
    <3>4. j \in 1..Len(buffer') /\ j <= BatchLimit /\ buffer'[j] = d
      BY <1>3, <1>5, <1>6, <3>2, <3>3
    <3>5. d \in Elements(FirstOf(buffer', BatchLimit))
      BY <1>3, <1>6, <3>4, FirstPlaces
    <3> QED BY <1>1, <2>4, <3>5 DEF Front
  <2> QED BY <2>3, <2>4
<1>10. FrontCovers'
  BY <1>9 DEF FrontCovers
<1>11. Leads'
  BY <1>2 DEF Leads, IInv, OrderInv
<1>12. NoGap'
  <2> SUFFICES ASSUME NEW n \in Places, NEW c \in Cycles, NEW e \in Cycles,
                      c \in Left(n), e < c,
                      e \in Waiting' \/ \E m \in Places : n < m /\ e \in Left(m)
               PROVE  e \in Left(n) \cup Stored \cup unresolved
    BY <1>2 DEF NoGap
  <2>1. c < new
    BY <1>8 DEF Handed
  <2>2. e \in Waiting \/ \E m \in Places : n < m /\ e \in Left(m)
    BY <1>1, <1>7, <2>1
  <2> QED BY <2>2 DEF IInv, OrderInv, NoGap
<1>13. OrderKept'
  <2> SUFFICES ASSUME overtaken = 0, ~forgotten, unresolved = {}
               PROVE  /\ Ascending(stored)
                      /\ \A e \in Cycles : Prospect(e)' =>
                           e \in Redelivery!Remembered("slave")' \/ \A d \in Stored : d < e
    BY <1>2 DEF OrderKept
  <2>1. \A e : Prospect(e)' => Prospect(e) \/ e = new
    BY <1>2, <1>7 DEF Prospect
  <2>2. Redelivery!Remembered("slave")' = Redelivery!Remembered("slave")
    BY <1>2 DEF Redelivery!Remembered
  <2>3. \A d \in Stored : d < new
    BY <1>1 DEF IInv, OrderInv
  <2> QED BY <2>1, <2>2, <2>3 DEF IInv, OrderInv, OrderKept
<1>14. Stored' \subseteq 1..measured'
  BY <1>1, <1>2 DEF IInv, OrderInv
<1> QED BY <1>10, <1>11, <1>12, <1>13, <1>14 DEF OrderInv

(* A flush: the front becomes the last request. *)
LEMMA FlushOrder ==
  ASSUME IInv, Flush
  PROVE  OrderInv'
<1>0. PICK last : last = Len(requests) + 1
  OBVIOUS
<1>1. /\ batch = <<>> /\ UNCHANGED <<measured, master>>
      /\ batch' = FirstOf(buffer, BatchLimit) /\ buffer' = RestOf(buffer, BatchLimit)
  BY DEF Flush, IInv, Core, RunnerKnows
<1>2. /\ Len(requests') = last /\ Len(requests) \in Nat
      /\ \A m \in Places : requests'[m] = requests[m]
      /\ requests'[last].left = batch' /\ ~requests'[last].began
      /\ batch' # <<>> /\ Elements(batch') \subseteq Waiting
  BY <1>0, FlushFacts DEF IInv, Core
<1>3. /\ Places' = Places \cup {last} /\ last \notin Places /\ \A m \in Places : m < last
  BY <1>0, <1>2 DEF Places
<1>4. /\ Stored' = Stored /\ UNCHANGED <<stored, unresolved, overtaken, forgotten, recent>>
  BY <1>1 DEF Stored, master
<1>5. /\ \A m \in Places : Left(m)' = Left(m) /\ (Open(m)' <=> Open(m))
      /\ Left(last)' = Elements(batch')
  BY <1>2, <1>3 DEF Left, Open
<1>6. Front' = batch' /\ Front = batch'
  BY <1>1, <1>2 DEF Front
<1>7. /\ Waiting' = Waiting
      /\ Precede(Elements(batch'), Elements(buffer'))
      /\ Waiting' = Elements(batch') \cup Elements(buffer')
  <2>1. buffer \in Seq(Cycles) /\ BatchLimit \in Nat /\ Ascending(buffer)
    BY DeliveryAssumption DEF IInv, Core, Placed, QueueTyped, Ordered
  <2> QED BY <1>1, <2>1, CutOrder, ElementsEmpty DEF Waiting
<1>8. \A d : d \in Stored \/ (\E k \in Places : d \in Left(k)) => Handed(d)
  BY DEF Handed
<1>9. FrontCovers'
  <2> SUFFICES ASSUME NEW d \in Cycles, NEW e \in Cycles, Handed(d)', e \in Waiting', e <= d
               PROVE  d \in Elements(batch')
    BY <1>6 DEF FrontCovers
  <2>1. CASE Handed(d)
    BY <1>6, <1>7, <2>1 DEF IInv, OrderInv, FrontCovers
  <2>2. CASE ~Handed(d)
    BY <1>3, <1>4, <1>5, <2>2 DEF Handed
  <2> QED BY <2>1, <2>2
<1>10. Leads'
  <2> SUFFICES ASSUME NEW m \in Places', Open(m)', NEW d \in Cycles, NEW e \in Cycles,
                      d \in Stored' \/ \E k \in Places' : k < m /\ d \in Left(k)',
                      e \in Left(m)', e <= d
               PROVE  d \in Left(m)'
    BY DEF Leads
  <2>1. CASE m \in Places
    <3>1. d \in Stored \/ \E k \in Places : k < m /\ d \in Left(k)
      <4>1. ASSUME NEW k \in Places', k < m, d \in Left(k)' PROVE k \in Places /\ d \in Left(k)
        <5>1. k # last
          BY <1>2, <1>3, <2>1, <4>1 DEF Places
        <5> QED BY <1>3, <1>5, <4>1, <5>1
      <4> QED BY <1>4, <4>1
    <3>2. Open(m) /\ e \in Left(m)
      BY <1>5, <2>1
    <3>3. d \in Left(m)
      BY <2>1, <3>1, <3>2 DEF IInv, OrderInv, Leads
    <3> QED BY <1>5, <2>1, <3>3
  <2>2. CASE m = last
    <3>1. CASE Handed(d)
      <4>1. e \in Waiting
        BY <1>2, <1>5, <2>2
      <4> QED BY <1>5, <1>6, <2>2, <3>1, <4>1 DEF IInv, OrderInv, FrontCovers
    <3>2. CASE ~Handed(d)
      <4>1. \E k \in Places' : k < m /\ d \in Left(k)'
        BY <1>4, <3>2 DEF Handed
      <4> QED BY <1>3, <1>5, <2>2, <3>2, <4>1 DEF Handed
    <3> QED BY <3>1, <3>2
  <2> QED BY <1>3, <2>1, <2>2
<1>11. NoGap'
  <2> SUFFICES ASSUME NEW n \in Places', NEW c \in Cycles, NEW e \in Cycles,
                      c \in Left(n)', e < c,
                      e \in Waiting' \/ \E m \in Places' : n < m /\ e \in Left(m)'
               PROVE  e \in Left(n)' \cup Stored' \cup unresolved'
    BY DEF NoGap
  <2>1. CASE n \in Places
    <3>1. e \in Waiting \/ \E m \in Places : n < m /\ e \in Left(m)
      BY <1>2, <1>3, <1>5, <1>7
    <3>2. e \in Left(n) \cup Stored \cup unresolved
      BY <1>5, <2>1, <3>1 DEF IInv, OrderInv, NoGap
    <3> QED BY <1>4, <1>5, <2>1, <3>2
  <2>2. CASE n = last
    <3>1. ~\E m \in Places' : n < m
      BY <1>2, <1>3, <2>2 DEF Places
    <3>2. e \in Waiting'
      BY <3>1
    <3>3. c \in Elements(batch')
      BY <1>5, <2>2
    <3>4. e \notin Elements(buffer')
      <4>1. c \in Int /\ e \in Int
        BY DeliveryAssumption DEF Cycles
      <4> QED BY <1>7, <3>3, <4>1 DEF Precede
    <3> QED BY <1>5, <1>7, <2>2, <3>2, <3>4
  <2> QED BY <1>3, <2>1, <2>2
<1>12. OrderKept'
  <2>1. \A e : Prospect(e)' => Prospect(e)
    BY <1>2, <1>3, <1>5, <1>7 DEF Prospect
  <2>2. Redelivery!Remembered("slave")' = Redelivery!Remembered("slave")
    BY <1>4 DEF Redelivery!Remembered
  <2> QED BY <1>4, <2>1, <2>2 DEF IInv, OrderInv, OrderKept
<1>13. Stored' \subseteq 1..measured'
  BY <1>1, <1>4 DEF IInv, OrderInv
<1> QED BY <1>9, <1>10, <1>11, <1>12, <1>13 DEF OrderInv

(* More cycles than a batch holds do not fit into one: the youngest Window of *)
(* what was stored are too many (protocol.go lines 100 to 109).               *)
LEMMA WindowIsNoBatch ==
  ASSUME MasterTyped, RecentIsTail, Ascending(stored), Len(Newest) = Window,
         NEW s \in Seq(Cycles), Len(s) <= BatchLimit
  PROVE  \E i \in 1..Len(Newest) : stored[Len(stored) - Len(Newest) + i] \notin Elements(s)
<1> DEFINE place(i) == Len(stored) - Len(Newest) + i
           f == [i \in 1..Window |-> stored[place(i)]]
<1>1. SUFFICES ASSUME \A i \in 1..Window : stored[place(i)] \in Elements(s)
               PROVE  FALSE
  OBVIOUS
<1>2. /\ Len(stored) \in Nat /\ Len(Newest) \in Nat /\ stored \in Seq(Cycles)
      /\ \A i \in 1..Window : place(i) \in 1..Len(stored)
      /\ \A i, j \in 1..Window : i < j => place(i) < place(j)
  BY RememberedStored DEF MasterTyped
<1> HIDE DEF place
<1>3. \A i \in 1..Window : stored[place(i)] \in Int
  BY <1>2, DeliveryAssumption DEF Cycles
<1>4. \A i, j \in 1..Window : i < j => stored[place(i)] < stored[place(j)]
  BY <1>2 DEF Ascending
<1>5. \A i, j \in 1..Window : f[i] = f[j] => i = j
  BY <1>3, <1>4, DeliveryAssumption
<1>6. f \in [1..Window -> Elements(s)]
  BY <1>1
<1> HIDE DEF f
<1>7. f \in Injection(1..Window, Elements(s))
  BY <1>5, <1>6, Fun_IsInj
<1>8. IsFiniteSet(Elements(s)) /\ Cardinality(Elements(s)) <= Len(s) /\ Len(s) \in Nat
      /\ Cardinality(Elements(s)) \in Nat
  BY ElementsFacts, FS_CardinalityType
<1>9. Cardinality(1..Window) <= Cardinality(Elements(s))
  BY <1>7, <1>8, FS_Injection
<1>10. Cardinality(1..Window) = Window
  BY PlacesCount, DeliveryAssumption
<1> QED BY <1>8, <1>9, <1>10, DeliveryAssumption

(* What the window remembers, in terms of what was stored. *)
WindowKnown ==
  \A x : x \in Redelivery!Remembered("slave") <=>
    \E k \in 1..Len(Newest) : x = stored[Len(stored) - Len(Newest) + k]

(* The window remembers the youngest of what was stored, before and after any *)
(* step.                                                                      *)
LEMMA KnownWindow ==
  MasterTyped /\ RecentIsTail => WindowKnown /\ Len(Newest) \in Nat /\ Len(stored) \in Nat
BY RememberedStored DEF WindowKnown

(* Storing one cycle more makes the window forget its oldest at most. *)
LEMMA StillRemembered ==
  ASSUME MasterTyped, RecentIsTail, MasterTyped', RecentIsTail', ~forgotten',
         NEW c, stored' = Append(stored, c),
         NEW e \in Redelivery!Remembered("slave")
  PROVE  \/ e \in Redelivery!Remembered("slave")'
         \/ Len(Newest) = Window /\ e = stored[Len(stored) - Len(Newest) + 1]
<1>1. /\ Len(Newest) \in Nat /\ Len(stored) \in Nat /\ stored \in Seq(Cycles)
      /\ Len(Newest) <= Window /\ Len(Newest) <= Len(stored)
  BY RememberedStored DEF MasterTyped, RecentIsTail
<1>2. PICK i \in 1..Len(Newest) : e = stored[Len(stored) - Len(Newest) + i]
  BY RememberedStored
<1>3. /\ Len(stored') = Len(stored) + 1
      /\ \A k \in 1..Len(stored) : stored'[k] = stored[k]
  BY <1>1
<1> DEFINE remembered(x) == \E k \in 1..Len(Newest') : x = stored'[Len(stored') - Len(Newest') + k]
<1>4. /\ \A x : x \in Redelivery!Remembered("slave")' <=> remembered(x)
      /\ Len(Newest') \in Nat /\ Len(stored') \in Nat
  <2>1. (WindowKnown /\ Len(Newest) \in Nat /\ Len(stored) \in Nat)'
    BY KnownWindow, PTL
  <2> QED BY <2>1 DEF WindowKnown
<1>5. Len(Newest') = Window \/ Len(Newest') = Len(stored) + 1
  BY <1>3 DEF RecentIsTail
<1> DEFINE p == Len(stored) - Len(Newest) + i
           k == p - (Len(stored) + 1 - Len(Newest'))
<1>6. p \in 1..Len(stored) /\ p = Len(stored') - Len(Newest') + k
  BY <1>1, <1>3, <1>4
<1>7. CASE k >= 1
  <2>1. k \in 1..Len(Newest')
    BY <1>1, <1>4, <1>7
  <2>2. e = stored'[Len(stored') - Len(Newest') + k]
    BY <1>2, <1>3, <1>6
  <2>3. remembered(e)
    <3> HIDE DEF k
    <3> QED BY <2>1, <2>2
  <2> HIDE DEF remembered
  <2> QED BY <1>4, <2>3
<1>8. CASE ~(k >= 1)
  <2>1. Len(Newest') = Window
    BY <1>1, <1>5, <1>8
  <2>2. Len(Newest) = Window /\ i = 1
    BY <1>1, <1>8, <2>1
  <2> QED BY <1>2, <2>2
<1> QED BY <1>7, <1>8

(* Nothing that can still come is the oldest of a full window: what is        *)
(* younger of the window is handed out before it, and that fits into one      *)
(* batch.                                                                     *)
LEMMA OldestIsGone ==
  ASSUME IInv, Ascending(stored), Len(Newest) = Window,
         NEW e \in Cycles, Prospect(e), e = stored[Len(stored) - Len(Newest) + 1]
  PROVE  FALSE
<1> DEFINE place(i) == Len(stored) - Len(Newest) + i
<1>1. MasterTyped /\ RecentIsTail /\ Placed /\ Path
  BY DEF IInv, Core
<1>2. /\ Len(stored) \in Nat /\ Len(Newest) \in Nat /\ stored \in Seq(Cycles)
      /\ \A i \in 1..Len(Newest) : place(i) \in 1..Len(stored) /\ place(1) <= place(i)
      /\ place(1) \in 1..Len(stored)
  <2>1. Window \in Nat /\ Window > 0
    BY DeliveryAssumption
  <2>2. \A i \in 1..Len(Newest) : place(i) \in 1..Len(stored)
    BY <1>1, RememberedStored
  <2>3. Len(stored) \in Nat /\ Len(Newest) \in Nat /\ stored \in Seq(Cycles)
    BY <1>1, RememberedStored DEF MasterTyped
  <2> QED BY <2>1, <2>2, <2>3
<1> HIDE DEF place
<1>3. ASSUME NEW i \in 1..Len(Newest)
      PROVE  stored[place(i)] \in Stored /\ stored[place(i)] \in Cycles /\ e <= stored[place(i)]
  <2>1. stored[place(i)] \in Stored /\ stored[place(i)] \in Cycles
    BY <1>2 DEF Stored, Elements
  <2>2. e = stored[place(1)] /\ e \in Int /\ stored[place(i)] \in Int
    BY <2>1, DeliveryAssumption DEF place, Cycles
  <2>3. place(1) = place(i) \/ place(1) < place(i)
    BY <1>2
  <2>4. place(1) < place(i) => e < stored[place(i)]
    BY <1>2, <2>2 DEF Ascending
  <2> QED BY <2>1, <2>2, <2>3, <2>4
<1>4. CASE e \in Waiting
  <2>1. \A i \in 1..Len(Newest) : stored[place(i)] \in Elements(Front)
    BY <1>3, <1>4 DEF IInv, OrderInv, FrontCovers, Handed
  <2>2. \E i \in 1..Len(Newest) : stored[place(i)] \notin Elements(Front)
    BY <1>1, FrontTyped, WindowIsNoBatch DEF place
  <2> QED BY <2>1, <2>2
<1>5. ASSUME NEW m \in Places, Open(m), e \in Left(m)
      PROVE  FALSE
  <2>1. requests[m].left \in Seq(Cycles) /\ Len(requests[m].left) <= BatchLimit
    <3>1. m \in 1..Len(requests) /\ requests \in Seq(Request) /\ Sound(requests[m])
      BY <1>1, <1>5 DEF Path, Places
    <3>2. requests[m] \in Request
      BY <3>1, ElementOfSeq
    <3>3. requests[m].left \in Seq(Cycles)
      BY <3>2, RequestFields, Zenon
    <3> QED BY <3>1, <3>3, Zenon DEF Sound
  <2>2. \A i \in 1..Len(Newest) : stored[place(i)] \in Left(m)
    BY <1>3, <1>5 DEF IInv, OrderInv, Leads
  <2>3. \E i \in 1..Len(Newest) : stored[place(i)] \notin Elements(requests[m].left)
    BY <1>1, <2>1, WindowIsNoBatch DEF place
  <2> QED BY <2>2, <2>3 DEF Left
<1> QED BY <1>4, <1>5 DEF Prospect

(* A handler whose request nobody overtook stores a cycle it does not         *)
(* remember: it is younger than all that was stored, and what can still come  *)
(* is younger again, or remembered.                                           *)
LEMMA StoringKeepsOrder ==
  ASSUME IInv, NEW n \in Places, NEW c \in Cycles,
         MasterTyped', RecentIsTail', ~forgotten', unresolved = {},
         requests[n].began, Open(n), c \in Left(n),
         overtaken = 0, ~forgotten,
         c \notin Redelivery!Remembered("slave"), stored' = Append(stored, c),
         NEW later \in SUBSET Cycles, Left(n) = {c} \cup later, \A e \in later : c < e
  PROVE  /\ Ascending(stored')
         /\ \A e \in Cycles :
              e \in Waiting \cup later \/ (\E m \in Places : m # n /\ Open(m) /\ e \in Left(m)) =>
                e \in Redelivery!Remembered("slave")' \/ \A d \in Stored' : d < e
<1>1. /\ Ascending(stored)
      /\ \A e \in Cycles : Prospect(e) =>
           e \in Redelivery!Remembered("slave") \/ \A d \in Stored : d < e
  BY DEF IInv, OrderInv, OrderKept
<1>2. MasterTyped /\ RecentIsTail /\ Path /\ stored \in Seq(Cycles) /\ Cycles \subseteq Int
  BY DeliveryAssumption DEF IInv, Core, MasterTyped, Cycles
<1>3. \A d \in Stored : d < c
  BY <1>1 DEF Prospect
<1>4. Stored' = Stored \cup {c} /\ Ascending(stored') /\ Stored \subseteq Cycles
  BY <1>1, <1>2, <1>3, AppendFacts, ElementsFacts DEF Stored, Precede
<1>5. c \in Redelivery!Remembered("slave")'
  <2>1. (WindowKnown /\ Len(Newest) \in Nat /\ Len(stored) \in Nat)'
    BY KnownWindow, PTL
  <2>2. Len(stored') = Len(stored) + 1 /\ stored'[Len(stored) + 1] = c /\ Len(stored) \in Nat
    BY <1>2
  <2>3. Len(Newest') \in 1..Len(Newest')
    <3>1. Len(Newest') = Window \/ Len(Newest') = Len(stored')
      BY DEF RecentIsTail
    <3> QED BY <2>1, <2>2, <3>1, DeliveryAssumption
  <2>4. Len(stored') - Len(Newest') + Len(Newest') = Len(stored) + 1
    BY <2>1, <2>2
  <2> QED BY <2>1, <2>2, <2>3, <2>4 DEF WindowKnown
<1>6. ASSUME NEW e \in Cycles,
             e \in Waiting \cup later \/ (\E m \in Places : m # n /\ Open(m) /\ e \in Left(m))
      PROVE  e \in Redelivery!Remembered("slave")' \/ \A d \in Stored' : d < e
  <2>1. Prospect(e)
    BY <1>6 DEF Prospect
  <2>2. CASE e \in Redelivery!Remembered("slave")
    <3>1. \/ e \in Redelivery!Remembered("slave")'
          \/ Len(Newest) = Window /\ e = stored[Len(stored) - Len(Newest) + 1]
      BY <1>2, <2>2, StillRemembered
    <3> QED BY <1>1, <2>1, <3>1, OldestIsGone
  <2>3. CASE e = c
    BY <1>5, <2>3
  <2>4. CASE e # c /\ \A d \in Stored : d < e
    <3>1. c < e
      <4>1. CASE e \in later
        BY <4>1
      <4>2. CASE e \in Waiting \/ \E m \in Places : m # n /\ Open(m) /\ e \in Left(m)
        <5>1. e \in Waiting \/ \E m \in Places : n < m /\ e \in Left(m)
          <6>1. \A m \in Places : m # n /\ Open(m) => n < m
            BY DEF Open, Places
          <6> QED BY <4>2, <6>1
        <5>2. e < c => e \in Left(n) \cup Stored
          BY <5>1 DEF IInv, OrderInv, NoGap
        <5>3. e < c => e \in Stored
          BY <1>2, <2>4, <5>2
        <5>4. ~(e < c)
          BY <1>2, <2>4, <5>3
        <5> QED BY <1>2, <2>4, <5>4
      <4> QED BY <1>6, <4>1, <4>2
    <3> QED BY <1>4, <2>4, <3>1
  <2> QED BY <1>1, <2>1, <2>2, <2>3, <2>4
<1> QED BY <1>4, <1>6

(* A pass of ingestBatch keeps the order. *)
LEMMA IngestOrder ==
  ASSUME IInv, NEW n \in Places, Ingest(n)
  PROVE  OrderInv'
<1>0. PICK c : c = Head(requests[n].left)
  OBVIOUS
<1>1. /\ Touched(n) /\ requests[n].left \in Seq(Cycles) /\ requests[n].left # <<>>
      /\ requests'[n].left = Tail(requests[n].left)
      /\ requests'[n].began = requests[n].began /\ requests[n].began
  BY IngestFacts DEF IInv, Core
<1>2. /\ Places' = Places
      /\ \A m \in Places : m # n => Left(m)' = Left(m)
      /\ \A m \in Places : requests'[m].began = requests[m].began
  BY <1>1 DEF Touched, Places, Left
<1>3. \A m \in Places : Open(m)' <=> Open(m)
  BY <1>2 DEF Open
<1>4. /\ c \in Cycles /\ Left(n) = {c} \cup Left(n)' /\ Left(n)' \subseteq Cycles
      /\ \A e \in Left(n)' : c < e
      /\ Cycles \subseteq Int
  <2>1. Ascending(requests[n].left)
    BY DEF IInv, Core, Path, Sound
  <2> QED BY <1>0, <1>1, <2>1, TailFacts, ElementsFacts, DeliveryAssumption DEF Left, Cycles
<1>5. \A m \in Places : Left(m)' \subseteq Left(m)
  BY <1>2, <1>4
<1>6. IngestedOnly(c) /\ MasterTyped' /\ RecentIsTail'
  BY <1>0, IngestMaster DEF IInv, Core
<1>7. UNCHANGED slave /\ Waiting' = Waiting /\ Front' = Front /\ measured' = measured
      /\ forgotten' = forgotten
  BY DEF Ingest, slave, Waiting, Front
<1>8. \A d : Handed(d)' => Handed(d)
  BY <1>2, <1>4, <1>5, <1>6 DEF Handed, IngestedOnly
<1>9. FrontCovers'
  BY <1>7, <1>8 DEF FrontCovers, IInv, OrderInv
<1>10. Leads'
  <2> SUFFICES ASSUME NEW m \in Places, Open(m), NEW d \in Cycles, NEW e \in Cycles,
                      d \in Stored' \/ \E k \in Places : k < m /\ d \in Left(k)',
                      e \in Left(m)', e <= d
               PROVE  d \in Left(m)'
    BY <1>2, <1>3 DEF Leads
  <2>1. n = m \/ n < m
    <3>1. ~(m < n)
      BY <1>1 DEF Open
    <3> QED BY <3>1 DEF Places
  <2>2. d # c \/ n < m
    BY <1>4, <2>1
  <2>3. d \in Stored \/ \E k \in Places : k < m /\ d \in Left(k)
    BY <1>4, <1>5, <1>6, <2>2 DEF IngestedOnly
  <2>4. d \in Left(m)
    BY <1>5, <2>3 DEF IInv, OrderInv, Leads
  <2> QED BY <1>2, <1>4, <2>1, <2>2, <2>4
<1>11. NoGap'
  <2> SUFFICES ASSUME NEW p \in Places, NEW d \in Cycles, NEW e \in Cycles,
                      d \in Left(p)', e < d,
                      e \in Waiting \/ \E m \in Places : p < m /\ e \in Left(m)'
               PROVE  e \in Left(p)' \cup Stored' \cup unresolved'
    BY <1>2, <1>7 DEF NoGap
  <2>1. e \in Left(p) \cup Stored \cup unresolved
    BY <1>5 DEF IInv, OrderInv, NoGap
  <2>2. e \in Left(p) => e \in Left(p)' \/ e = c
    BY <1>2, <1>4
  <2> QED BY <1>6, <2>1, <2>2 DEF IngestedOnly
<1>12. OrderKept'
  <2> SUFFICES ASSUME overtaken' = 0, ~forgotten', unresolved' = {}
               PROVE  /\ Ascending(stored')
                      /\ \A e \in Cycles : Prospect(e)' =>
                           e \in Redelivery!Remembered("slave")' \/ \A d \in Stored' : d < e
    BY DEF OrderKept
  <2>1. overtaken = 0 /\ Open(n)
    <3>1. LaterBegun(n) \in Nat /\ overtaken \in Nat
          /\ (LaterBegun(n) = 0 => \A m \in Places : n < m => ~requests[m].began)
      BY LaterBegunFacts DEF IInv, Core, MasterTyped
    <3>2. Larger(overtaken, LaterBegun(n)) = 0
      BY DEF Ingest
    <3>3. overtaken = 0 /\ LaterBegun(n) = 0
      BY <3>1, <3>2 DEF Larger
    <3> QED BY <3>1, <3>3 DEF Open
  <2>2. unresolved = {} /\ ~forgotten
    BY <1>6, <1>7 DEF IngestedOnly
  <2>3. \A e \in Cycles : Prospect(e)' =>
          e \in Waiting \cup Left(n)' \/ (\E m \in Places : m # n /\ Open(m) /\ e \in Left(m))
    BY <1>2, <1>3, <1>7 DEF Prospect
  <2>4. CASE recent' = recent /\ stored' = stored
    <3>1. /\ Ascending(stored)
          /\ \A e \in Cycles : Prospect(e) =>
               e \in Redelivery!Remembered("slave") \/ \A d \in Stored : d < e
      BY <2>1, <2>2 DEF IInv, OrderInv, OrderKept
    <3>2. \A e \in Cycles : Prospect(e)' => Prospect(e)
      BY <1>5, <2>1, <2>3 DEF Prospect
    <3>3. Redelivery!Remembered("slave")' = Redelivery!Remembered("slave") /\ Stored' = Stored
      BY <2>4 DEF Redelivery!Remembered, Stored
    <3> QED BY <2>4, <3>1, <3>2, <3>3
  <2>5. CASE Redelivery!Ingest("slave", c) /\ stored' = Append(stored, c)
    <3>1. c \notin Redelivery!Remembered("slave")
      BY <2>5 DEF Redelivery!Ingest
    <3>2. c \in Left(n) /\ Left(n)' \in SUBSET Cycles
      BY <1>4
    <3>3. /\ Ascending(stored')
          /\ \A e \in Cycles :
               e \in Waiting \cup Left(n)' \/ (\E m \in Places : m # n /\ Open(m) /\ e \in Left(m)) =>
                 e \in Redelivery!Remembered("slave")' \/ \A d \in Stored' : d < e
      BY <1>1, <1>4, <1>6, <2>1, <2>2, <2>5, <3>1, <3>2, StoringKeepsOrder
    <3> QED BY <2>3, <3>3
  <2>6. (recent' = recent /\ stored' = stored)
          \/ (Redelivery!Ingest("slave", c) /\ stored' = Append(stored, c))
    BY <1>0 DEF Ingest
  <2> QED BY <2>4, <2>5, <2>6
<1>13. Stored' \subseteq 1..measured'
  <2>1. c \in 1..measured
    BY <1>4 DEF IInv, Core, Path
  <2> QED BY <1>6, <1>7, <2>1 DEF IngestedOnly, IInv, OrderInv
<1> QED BY <1>9, <1>10, <1>11, <1>12, <1>13 DEF OrderInv

(* At first nothing was handed out or stored. *)
LEMMA InitOrder == Init => OrderInv
<1> SUFFICES ASSUME Init PROVE OrderInv
  OBVIOUS
<1>1. Stored = {} /\ Places = {} /\ stored = <<>> /\ Waiting = {}
  BY ElementsEmpty DEF Init, Stored, Places, Waiting
<1>2. FrontCovers /\ Leads /\ NoGap
  BY <1>1 DEF FrontCovers, Leads, NoGap
<1>3. OrderKept
  BY <1>1, ElementsEmpty DEF OrderKept, Prospect
<1> QED BY <1>1, <1>2, <1>3 DEF OrderInv

(* Every step keeps core and order. *)
LEMMA NextIInv == IInv /\ [Next]_vars => IInv'
<1> SUFFICES ASSUME IInv, [Next]_vars PROVE IInv'
  OBVIOUS
<1>1. Core'
  BY NextCore DEF IInv
<1>2. Measure \/ Flush \/ Quiet \/ \E n \in Places : Ingest(n)
  BY StepKinds DEF IInv
<1>3. OrderInv'
  BY <1>2, MeasureOrder, FlushOrder, QuietOrder, IngestOrder
<1> QED BY <1>1, <1>3 DEF IInv

(* As long as no handler was overtaken, no window was lost and no cycle lost  *)
(* its target, the sinks see each cycle at most once and in the order of      *)
(* measurement, however often the batches are sent again: a window of two     *)
(* batches suffices, and protocol.go lines 101 to 109 has ten (dedup.go lines *)
(* 16 to 22).                                                                 *)
THEOREM OrderIsKept == Spec => []StoredOnceInOrder
<1>1. Init => IInv
  BY InitCore, InitOrder DEF IInv
<1>2. IInv => StoredOnceInOrder
  BY DEF IInv, OrderInv, OrderKept, StoredOnceInOrder, Ascending
<1> QED BY <1>1, <1>2, NextIInv, PTL DEF Spec

-----------------------------------------------------------------------------
(* Duplicates: a ledger of who stored what.                                   *)

Distinct(s) == \A i, j \in 1..Len(s) : i < j => s[i] # s[j]

(* No cycle left of an earlier request that is younger than one left of a     *)
(* later is missing there.                                                    *)
Ahead ==
  \A k, m \in Places : k < m =>
    \A e \in Left(m) : \A d \in Left(k) : e <= d => d \in Left(m)

(* The cycle at place j of stored came from place p of request k's batch: k   *)
(* has nothing left that it would have taken first, what k skipped and can    *)
(* still come is stored, and a later request that has something older left    *)
(* has this cycle left.                                                       *)
Booked(j, k, p) ==
  /\ requests[k].began /\ p <= BatchLimit - Len(requests[k].left)
  /\ \A e \in Left(k) : stored[j] < e
  /\ \A e \in Cycles :
       e < stored[j] /\ (e \in Waiting \/ \E m \in Places : k < m /\ e \in Left(m))
         => e \in Stored \cup unresolved
  /\ \A m \in Places : k <= m =>
       \A e \in Left(m) : e <= stored[j] => stored[j] \in Left(m)

(* Only stragglers store out of order, as long as nothing was stored twice.   *)
InOrderBut(by) ==
  unresolved = {} /\ Distinct(stored) =>
    \A i, j \in 1..Len(stored) : i < j =>
      stored[i] < stored[j] \/ (requests[by[j]].late /\ overtaken >= 1)

Traced(by, at) ==
  /\ by \in [1..Len(stored) -> Places] /\ at \in [1..Len(stored) -> 1..BatchLimit]
  /\ \A i, j \in 1..Len(stored) : by[i] = by[j] /\ at[i] = at[j] => i = j
  /\ \A j \in 1..Len(stored) : Booked(j, by[j], at[j])
  /\ InOrderBut(by)

Ledger == \E by, at : Traced(by, at)

Account == Ahead /\ Ledger /\ DuplicateNeedsStraggler

(* What every step but a store keeps of the ledger. *)
EntriesKept ==
  \A j \in 1..Len(stored), k \in Places, p \in 1..BatchLimit :
    Booked(j, k, p) =>
      k \in Places' /\ Booked(j, k, p)' /\ (requests[k].late => requests'[k].late)

(* Stragglers are not forgotten. *)
StragglersKept ==
  /\ overtaken \in Nat /\ overtaken' \in Nat /\ overtaken <= overtaken'
  /\ IsFiniteSet(Late') /\ Late \subseteq Late'
  /\ unresolved \subseteq unresolved' /\ (forgotten => forgotten')

(* A step that keeps the entries and stores nothing keeps the account.        *)
LEMMA AccountKept ==
  ASSUME Account, EntriesKept, StragglersKept, stored' = stored, Ahead'
  PROVE  Account'
<1>1. Ledger'
  <2>1. PICK by, at : Traced(by, at)
    BY DEF Account, Ledger
  <2>2. /\ by \in [1..Len(stored) -> Places] /\ at \in [1..Len(stored) -> 1..BatchLimit]
        /\ \A i, j \in 1..Len(stored) : by[i] = by[j] /\ at[i] = at[j] => i = j
        /\ \A j \in 1..Len(stored) : Booked(j, by[j], at[j])
    BY <2>1 DEF Traced
  <2>3. \A j \in 1..Len(stored) :
          /\ by[j] \in Places' /\ Booked(j, by[j], at[j])'
          /\ requests[by[j]].late => requests'[by[j]].late
    BY <2>2 DEF EntriesKept
  <2>4. by \in [1..Len(stored) -> Places']
    BY <2>2, <2>3
  <2>5. InOrderBut(by)'
    <3> SUFFICES ASSUME unresolved' = {}, Distinct(stored), NEW i \in 1..Len(stored), NEW j \in 1..Len(stored), i < j
                 PROVE  stored[i] < stored[j] \/ (requests'[by[j]].late /\ overtaken' >= 1)
      BY DEF InOrderBut
    <3>1. unresolved = {}
      BY DEF StragglersKept
    <3>2. stored[i] < stored[j] \/ (requests[by[j]].late /\ overtaken >= 1)
      BY <2>1, <3>1 DEF Traced, InOrderBut
    <3>3. overtaken >= 1 => overtaken' >= 1
      BY DEF StragglersKept
    <3> QED BY <2>3, <3>2, <3>3
  <2>6. Traced(by, at)'
    BY <2>2, <2>3, <2>4, <2>5 DEF Traced
  <2> QED BY <2>6 DEF Ledger
<1>2. DuplicateNeedsStraggler'
  <2> SUFFICES ASSUME unresolved' = {}, \E i, j \in 1..Len(stored) : i < j /\ stored[i] = stored[j], ~forgotten'
               PROVE  overtaken' + Cardinality(Late') > Window \div BatchLimit
    BY DEF DuplicateNeedsStraggler
  <2>1. unresolved = {} /\ ~forgotten
    BY DEF StragglersKept
  <2>2. overtaken + Cardinality(Late) > Window \div BatchLimit
    BY <2>1 DEF Account, DuplicateNeedsStraggler
  <2>3. /\ Cardinality(Late) <= Cardinality(Late')
        /\ Cardinality(Late) \in Nat /\ Cardinality(Late') \in Nat
        /\ overtaken <= overtaken' /\ overtaken \in Nat /\ overtaken' \in Nat
    BY FS_Subset, FS_CardinalityType DEF StragglersKept
  <2>4. Window \div BatchLimit \in Int
    BY DeliveryAssumption
  <2> QED BY <2>2, <2>3, <2>4
<1> QED BY <1>1, <1>2 DEF Account

(* The stragglers are finitely many. *)
LEMMA LateFinite ==
  ASSUME Path
  PROVE  IsFiniteSet(Late) /\ Late \subseteq Places /\ Cardinality(Late) \in Nat
<1>1. IsFiniteSet(Places) /\ Late \subseteq Places
  BY FS_Interval DEF Path, Places, Late
<1> QED BY <1>1, FS_Subset, FS_CardinalityType

(* A quiet step leaves fewer or no cycles of a request and forgets only       *)
(* requests that never began.                                                 *)
LEMMA QuietAccount ==
  ASSUME IInv, Account, Quiet
  PROVE  Account'
<1>1. /\ Waiting' \subseteq Waiting
      /\ UNCHANGED <<stored, unresolved, overtaken>> /\ Stored' = Stored
      /\ \A m \in Places' :
           /\ m \in Places
           /\ Left(m)' = Left(m) \/ Left(m)' = {}
           /\ Open(m)' => Open(m)
      /\ ~forgotten' => ~forgotten /\ recent' = recent
  BY QuietFacts DEF IInv
<1>2. Settles /\ Path /\ Path'
  BY DEF Quiet, Settling, IInv, Core
<1>3. ASSUME NEW k \in Places, requests[k].began
      PROVE  /\ k \in Places' /\ requests'[k].began
             /\ requests'[k].left = requests[k].left \/ requests'[k].left = <<>>
             /\ requests'[k].late = requests[k].late
  <2>1. ~(k > Len(requests')) /\ Len(requests') \in Nat
    BY <1>2, <1>3 DEF Settles, Path
  <2>2. k \in 1..Len(requests')
    BY <2>1 DEF Places
  <2> QED BY <1>2, <1>3, <2>2 DEF Settles, Places
<1>4. EntriesKept
  <2> SUFFICES ASSUME NEW j \in 1..Len(stored), NEW k \in Places, NEW p \in 1..BatchLimit, Booked(j, k, p)
               PROVE  k \in Places' /\ Booked(j, k, p)' /\ (requests[k].late => requests'[k].late)
    BY DEF EntriesKept
  <2>1. /\ k \in Places' /\ requests'[k].began /\ requests'[k].late = requests[k].late
        /\ requests'[k].left = requests[k].left \/ requests'[k].left = <<>>
    BY <1>3 DEF Booked
  <2>2. p <= BatchLimit - Len(requests'[k].left)
    <3>1. Len(requests[k].left) \in Nat /\ BatchLimit \in Nat
      BY <1>2, RequestFields, DeliveryAssumption DEF Path, Places
    <3>2. Len(requests'[k].left) <= Len(requests[k].left) /\ Len(requests'[k].left) \in Nat
      BY <2>1, <3>1, NothingLeft
    <3>3. p <= BatchLimit - Len(requests[k].left) /\ p \in Nat
      BY DEF Booked
    <3>4. \A x, y, z, q \in Nat : x <= y /\ q <= z - y => q <= z - x
      OBVIOUS
    <3> QED BY <3>1, <3>2, <3>3, <3>4
  <2>3. \A e \in Left(k)' : stored[j] < e
    BY <1>1, <2>1 DEF Booked
  <2>4. \A e \in Cycles :
          e < stored[j] /\ (e \in Waiting' \/ \E m \in Places' : k < m /\ e \in Left(m)')
            => e \in Stored \cup unresolved
    BY <1>1 DEF Booked
  <2>5. \A m \in Places' : k <= m => \A e \in Left(m)' : e <= stored[j] => stored[j] \in Left(m)'
    BY <1>1 DEF Booked
  <2> QED BY <1>1, <2>1, <2>2, <2>3, <2>4, <2>5 DEF Booked
<1>5. StragglersKept
  <2>1. \A k \in Places : requests[k].late => requests[k].began
    BY <1>2 DEF Path, Sound
  <2>2. Late \subseteq Late'
    BY <1>3, <2>1 DEF Late, Places
  <2>3. IsFiniteSet(Late')
    <3>1. IsFiniteSet(Places') /\ Late' \subseteq Places'
      BY <1>2, FS_Interval DEF Path, Places, Late
    <3> QED BY <3>1, FS_Subset
  <2>4. overtaken \in Nat /\ overtaken' = overtaken /\ unresolved' = unresolved /\ (forgotten => forgotten')
    BY <1>1 DEF IInv, Core, MasterTyped, Quiet, Settling, MasterKeeps
  <2> QED BY <2>2, <2>3, <2>4 DEF StragglersKept
<1>6. Ahead'
  <2>1. Ahead
    BY DEF Account
  <2>2. \A k \in Places' : k \in Places /\ (Left(k)' = Left(k) \/ Left(k)' = {})
    BY <1>1
  <2> QED BY <2>1, <2>2 DEF Ahead
<1> QED BY <1>1, <1>4, <1>5, <1>6, AccountKept

(* A measurement is younger than all that was stored. *)
LEMMA MeasureAccount ==
  ASSUME IInv, Account, Measure
  PROVE  Account'
<1>1. /\ measured' = measured + 1 /\ measured \in Nat /\ batch' = batch
      /\ UNCHANGED <<requests, master>>
      /\ Path /\ MasterTyped
  BY DEF Measure, IInv, Core, Placed, QueueTyped
<1>2. /\ Places' = Places /\ Stored' = Stored /\ UNCHANGED <<stored, unresolved, overtaken, forgotten>>
      /\ \A m : Left(m)' = Left(m)
      /\ Late' = Late
  BY <1>1 DEF Places, Stored, Left, master, Late
<1>3. Waiting' \subseteq Waiting \cup {measured + 1}
  <2>1. buffer \in Seq(Cycles) /\ Len(buffer) \in Nat /\ Capacity \in Nat \ {0} /\ measured + 1 \in Cycles
    BY DeliveryAssumption DEF IInv, Core, Placed, QueueTyped, Cycles, Measure
  <2>2. CASE Len(buffer) < Capacity
    <3>1. buffer' = Append(buffer, measured + 1)
      BY <1>1, <2>2 DEF Measure
    <3> QED BY <1>1, <2>1, <3>1, AppendFacts DEF Waiting
  <2>3. CASE ~(Len(buffer) < Capacity)
    <3>1. buffer' = Append(Tail(buffer), measured + 1) /\ buffer # <<>>
      BY <1>1, <2>1, <2>3 DEF Measure
    <3>2. Tail(buffer) \in Seq(Cycles) /\ Elements(Tail(buffer)) \subseteq Elements(buffer)
      BY <2>1, <3>1, TailFacts
    <3> QED BY <1>1, <2>1, <3>1, <3>2, AppendFacts DEF Waiting
  <2> QED BY <2>2, <2>3
<1>4. EntriesKept
  <2> SUFFICES ASSUME NEW j \in 1..Len(stored), NEW k \in Places, NEW p \in 1..BatchLimit, Booked(j, k, p)
               PROVE  Booked(j, k, p)'
    BY <1>1, <1>2 DEF EntriesKept
  <2>1. stored[j] <= measured /\ stored[j] \in Int
    <3>1. stored[j] \in Stored
      BY DEF Stored, Elements
    <3>2. Stored \subseteq 1..measured
      BY DEF IInv, OrderInv
    <3>3. stored[j] \in 1..measured
      BY <3>1, <3>2
    <3>4. measured \in Nat
      BY <1>1
    <3> QED BY <3>3, <3>4
  <2>2. \A e \in Cycles : e < stored[j] /\ e \in Waiting' => e \in Waiting
    BY <1>1, <1>3, <2>1
  <2>3. \A e \in Cycles :
          e < stored[j] /\ (e \in Waiting' \/ \E m \in Places : k < m /\ e \in Left(m))
            => e \in Stored \cup unresolved
    BY <2>2 DEF Booked
  <2> QED BY <1>1, <1>2, <2>3 DEF Booked
<1>5. StragglersKept
  BY <1>1, <1>2, LateFinite DEF StragglersKept, MasterTyped
<1>6. Ahead'
  BY <1>2 DEF Account, Ahead
<1> QED BY <1>2, <1>4, <1>5, <1>6, AccountKept

(* A flush: the new request carries the front, and so everything stored that  *)
(* is younger than one of its cycles.                                         *)
LEMMA FlushAccount ==
  ASSUME IInv, Account, Flush
  PROVE  Account'
<1>0. PICK last : last = Len(requests) + 1
  OBVIOUS
<1>1. /\ batch = <<>> /\ UNCHANGED <<measured, master>> /\ Path /\ MasterTyped /\ Placed
      /\ batch' = FirstOf(buffer, BatchLimit) /\ buffer' = RestOf(buffer, BatchLimit)
  BY DEF Flush, IInv, Core, RunnerKnows
<1>2. /\ Len(requests') = last /\ Len(requests) \in Nat
      /\ \A m \in Places : requests'[m] = requests[m]
      /\ requests'[last].left = batch' /\ ~requests'[last].began
      /\ batch' # <<>> /\ Elements(batch') \subseteq Waiting
  BY <1>0, <1>1, FlushFacts
<1>3. /\ Places' = Places \cup {last} /\ last \notin Places /\ \A m \in Places : m < last
  BY <1>0, <1>2 DEF Places
<1>4. /\ Stored' = Stored /\ UNCHANGED <<stored, unresolved, overtaken, forgotten>>
      /\ \A m \in Places : Left(m)' = Left(m)
      /\ Left(last)' = Elements(batch') /\ Elements(batch') \subseteq Cycles
  BY <1>1, <1>2, ElementsFacts, WaitingMeasured DEF Stored, master, Left, IInv, Core, Placed, QueueTyped, Waiting
<1>5. Waiting' = Waiting /\ Front = batch'
  <2>1. buffer \in Seq(Cycles) /\ BatchLimit \in Nat /\ Ascending(buffer)
    BY DeliveryAssumption DEF IInv, Core, Placed, QueueTyped, Ordered
  <2> QED BY <1>1, <2>1, CutOrder, ElementsEmpty DEF Waiting, Front
<1>6. ASSUME NEW e \in Left(last)', NEW d \in Cycles, Handed(d), e <= d
      PROVE  d \in Left(last)'
  BY <1>2, <1>4, <1>5, <1>6 DEF IInv, OrderInv, FrontCovers
<1>7. EntriesKept
  <2> SUFFICES ASSUME NEW j \in 1..Len(stored), NEW k \in Places, NEW p \in 1..BatchLimit, Booked(j, k, p)
               PROVE  Booked(j, k, p)'
    BY <1>2, <1>3 DEF EntriesKept
  <2>1. stored[j] \in Stored /\ stored[j] \in Cycles
    BY <1>1 DEF Stored, Elements, MasterTyped
  <2>2. requests'[k] = requests[k] /\ Left(k)' = Left(k)
    BY <1>2, <1>4
  <2>3. \A e \in Cycles :
          e < stored[j] /\ (e \in Waiting \/ \E m \in Places' : k < m /\ e \in Left(m)')
            => e \in Stored \cup unresolved
    <3>1. \A e \in Cycles : (\E m \in Places' : k < m /\ e \in Left(m)')
                              => e \in Waiting \/ \E m \in Places : k < m /\ e \in Left(m)
      BY <1>2, <1>3, <1>4
    <3> QED BY <3>1 DEF Booked
  <2>4. \A m \in Places' : k <= m => \A e \in Left(m)' : e <= stored[j] => stored[j] \in Left(m)'
    <3>1. \A e \in Left(last)' : e <= stored[j] => stored[j] \in Left(last)'
      BY <1>6, <2>1 DEF Handed
    <3> QED BY <1>3, <1>4, <3>1 DEF Booked
  <2>5. /\ requests'[k].began /\ p <= BatchLimit - Len(requests'[k].left)
        /\ \A e \in Left(k)' : stored[j] < e
    BY <2>2 DEF Booked
  <2> QED BY <1>4, <1>5, <2>3, <2>4, <2>5 DEF Booked
<1>8. StragglersKept
  <2>1. Path'
    BY <1>1, FlushFacts
  <2>2. IsFiniteSet(Late')
    <3>1. IsFiniteSet(Places') /\ Late' \subseteq Places'
      BY <2>1, FS_Interval DEF Path, Places, Late
    <3> QED BY <3>1, FS_Subset
  <2>3. Late \subseteq Late'
    BY <1>2, <1>3 DEF Late, Places
  <2> QED BY <1>1, <1>4, <2>2, <2>3 DEF StragglersKept, MasterTyped
<1>9. Ahead'
  <2> SUFFICES ASSUME NEW k \in Places', NEW m \in Places', k < m,
                      NEW e \in Left(m)', NEW d \in Left(k)', e <= d
               PROVE  d \in Left(m)'
    BY DEF Ahead
  <2>1. k \in Places
    <3>1. k \in 1..last /\ m \in 1..last /\ last \in Int
      BY <1>0, <1>2 DEF Places
    <3>2. k # last
      BY <3>1
    <3> QED BY <1>3, <3>2
  <2>2. CASE m \in Places
    BY <1>4, <2>1, <2>2 DEF Account, Ahead
  <2>3. CASE m = last
    <3>1. d \in Left(k) /\ d \in Cycles
      BY <1>1, <1>4, <2>1, RequestFields, ElementsFacts DEF Path, Places, Left
    <3>2. Handed(d)
      BY <2>1, <3>1 DEF Handed
    <3> QED BY <1>6, <2>3, <3>1, <3>2
  <2> QED BY <1>3, <2>2, <2>3
<1> QED BY <1>4, <1>7, <1>8, <1>9, AccountKept

(* What a pass of ingestBatch changes, as far as the ledger goes. *)
LEMMA IngestLedger ==
  ASSUME IInv, Account, NEW n \in Places, Ingest(n), NEW c, c = Head(requests[n].left)
  PROVE  /\ c \in Cycles /\ Left(n) = {c} \cup Left(n)' /\ \A e \in Left(n)' : c < e
         /\ Places' = Places /\ \A m \in Places : m # n => Left(m)' = Left(m)
         /\ \A m \in Places : Left(m)' \subseteq Left(m) /\ requests'[m].began = requests[m].began
         /\ Len(requests[n].left) \in 1..BatchLimit
         /\ Len(requests'[n].left) = Len(requests[n].left) - 1
         /\ requests[n].began /\ Waiting' = Waiting /\ IngestedOnly(c)
         /\ Late' = Late \cup (IF n < Len(requests) THEN {n} ELSE {})
         /\ overtaken' = Larger(overtaken, LaterBegun(n))
         /\ StragglersKept /\ Ahead'
<1>1. /\ Touched(n) /\ requests[n].left \in Seq(Cycles) /\ requests[n].left # <<>>
      /\ requests'[n].left = Tail(requests[n].left)
      /\ requests'[n].began = requests[n].began /\ requests[n].began
      /\ requests'[n].late = (requests[n].late \/ n < Len(requests))
  BY IngestFacts DEF IInv, Core
<1>2. /\ Places' = Places
      /\ \A m \in Places : m # n => Left(m)' = Left(m)
      /\ \A m \in Places : requests'[m].began = requests[m].began
  BY <1>1 DEF Touched, Places, Left
<1>3. Sound(requests[n]) /\ Path /\ MasterTyped
  BY DEF IInv, Core, Path
<1>4. /\ c \in Cycles /\ Left(n) = {c} \cup Left(n)' /\ \A e \in Left(n)' : c < e
      /\ Len(requests'[n].left) = Len(requests[n].left) - 1
  BY <1>1, <1>3, TailFacts DEF Left, Sound
<1>5. Len(requests[n].left) \in 1..BatchLimit
  BY <1>1, <1>3, DeliveryAssumption DEF Sound
<1>6. \A m \in Places : Left(m)' \subseteq Left(m)
  BY <1>2, <1>4
<1>7. IngestedOnly(c) /\ MasterTyped'
  BY IngestMaster DEF IInv, Core
<1>8. Waiting' = Waiting /\ forgotten' = forgotten /\ overtaken' = Larger(overtaken, LaterBegun(n))
  BY DEF Ingest, slave, Waiting
<1>9. Late' = Late \cup (IF n < Len(requests) THEN {n} ELSE {})
  <2>1. \A m \in Places : requests'[m].late <=> requests[m].late \/ (m = n /\ n < Len(requests))
    BY <1>1 DEF Touched
  <2>2. Late = {m \in Places : requests[m].late} /\ Late' = {m \in Places : requests'[m].late}
    BY <1>2 DEF Late, Places
  <2>3. \A m : m \in Late' <=> m \in Late \/ (m = n /\ n < Len(requests))
    BY <2>1, <2>2
  <2> HIDE DEF Late
  <2> QED BY <2>3
<1>10. StragglersKept
  <2>1. overtaken \in Nat /\ overtaken' \in Nat /\ overtaken <= overtaken'
    <3>1. LaterBegun(n) \in Nat /\ overtaken \in Nat
      BY <1>3, LaterBegunFacts DEF MasterTyped
    <3> QED BY <1>8, <3>1 DEF Larger
  <2>2. IsFiniteSet(Late')
    <3>1. IsFiniteSet(Places)
      BY <1>3, FS_Interval DEF Path, Places
    <3>2. Late' \subseteq Places
      BY <1>2 DEF Late, Places
    <3> QED BY <3>1, <3>2, FS_Subset
  <2> QED BY <1>7, <1>8, <1>9, <2>1, <2>2 DEF StragglersKept, IngestedOnly
<1>11. Ahead'
  <2> SUFFICES ASSUME NEW k \in Places, NEW m \in Places, k < m,
                      NEW e \in Left(m)', NEW d \in Left(k)', e <= d
               PROVE  d \in Left(m)'
    BY <1>2 DEF Ahead
  <2>1. d \in Left(m)
    BY <1>6 DEF Account, Ahead
  <2>2. m = n => d # c
    <3>1. c \in Int /\ \A x \in Left(m) : x \in Int
      BY <1>3, <1>4, RequestFields, ElementsFacts, DeliveryAssumption DEF Path, Places, Left, Cycles
    <3> QED BY <1>4, <1>6, <3>1
  <2> QED BY <1>2, <1>4, <2>1, <2>2
<1> QED BY <1>1, <1>2, <1>4, <1>5, <1>6, <1>7, <1>8, <1>9, <1>10, <1>11

(* A pass keeps the entries of the ledger. *)
LEMMA IngestEntries ==
  ASSUME IInv, Account, NEW n \in Places, Ingest(n),
         \A j \in 1..Len(stored) : stored'[j] = stored[j]
  PROVE  EntriesKept
<1>0. PICK c : c = Head(requests[n].left)
  OBVIOUS
<1>1. /\ c \in Cycles /\ Left(n) = {c} \cup Left(n)' /\ \A e \in Left(n)' : c < e
      /\ Places' = Places /\ \A m \in Places : m # n => Left(m)' = Left(m)
      /\ \A m \in Places : Left(m)' \subseteq Left(m) /\ requests'[m].began = requests[m].began
      /\ Len(requests[n].left) \in 1..BatchLimit
      /\ Len(requests'[n].left) = Len(requests[n].left) - 1
      /\ Waiting' = Waiting /\ IngestedOnly(c)
  BY <1>0, IngestLedger
<1>2. /\ Touched(n) /\ requests'[n].late = (requests[n].late \/ n < Len(requests))
      /\ Path /\ MasterTyped
  BY IngestFacts DEF IInv, Core
<1> SUFFICES ASSUME NEW j \in 1..Len(stored), NEW k \in Places, NEW p \in 1..BatchLimit, Booked(j, k, p)
             PROVE  Booked(j, k, p)' /\ (requests[k].late => requests'[k].late)
  BY <1>1 DEF EntriesKept
<1>3. requests'[k].began /\ (requests[k].late => requests'[k].late)
  BY <1>1, <1>2 DEF Booked, Touched
<1>4. p <= BatchLimit - Len(requests'[k].left)
  <2>1. p <= BatchLimit - Len(requests[k].left)
    BY DEF Booked
  <2>2. CASE k = n
    BY <1>1, <2>1, <2>2, DeliveryAssumption
  <2>3. CASE k # n
    BY <1>2, <2>1, <2>3 DEF Touched
  <2> QED BY <2>2, <2>3
<1>5. \A e \in Left(k)' : stored[j] < e
  BY <1>1 DEF Booked
<1>6. \A e \in Cycles :
        e < stored[j] /\ (e \in Waiting \/ \E m \in Places : k < m /\ e \in Left(m)')
          => e \in Stored' \cup unresolved'
  BY <1>1 DEF Booked, IngestedOnly
<1>7. ASSUME NEW m \in Places, k <= m, NEW e \in Left(m)', e <= stored[j]
      PROVE  stored[j] \in Left(m)'
  <2>1. e \in Left(m) /\ stored[j] \in Left(m)
    BY <1>1, <1>7 DEF Booked
  <2>2. m = n => stored[j] # c
    <3>1. c \in Int /\ \A x \in Left(m) : x \in Int
      BY <1>1, <1>2, RequestFields, ElementsFacts, DeliveryAssumption DEF Path, Places, Left, Cycles
    <3> QED BY <1>1, <1>7, <2>1, <3>1
  <2> QED BY <1>1, <2>1, <2>2
<1> QED BY <1>1, <1>3, <1>4, <1>5, <1>6, <1>7 DEF Booked

(* A pass that stores enters the cycle into the ledger. *)
LEMMA LedgerGrows ==
  ASSUME IInv, Account, NEW n \in Places, Ingest(n),
         NEW c, c = Head(requests[n].left), stored' = Append(stored, c)
  PROVE  Ledger'
<1>1. /\ c \in Cycles /\ Left(n) = {c} \cup Left(n)' /\ \A e \in Left(n)' : c < e
      /\ Places' = Places /\ \A m \in Places : m # n => Left(m)' = Left(m)
      /\ \A m \in Places : Left(m)' \subseteq Left(m) /\ requests'[m].began = requests[m].began
      /\ Len(requests[n].left) \in 1..BatchLimit
      /\ Len(requests'[n].left) = Len(requests[n].left) - 1
      /\ requests[n].began /\ Waiting' = Waiting /\ IngestedOnly(c)
      /\ overtaken' = Larger(overtaken, LaterBegun(n))
      /\ StragglersKept
  BY IngestLedger
<1>2. /\ Touched(n) /\ requests'[n].late = (requests[n].late \/ n < Len(requests))
      /\ Path /\ MasterTyped /\ stored \in Seq(Cycles) /\ Cycles \subseteq Int
      /\ BatchLimit \in Nat
  BY IngestFacts, DeliveryAssumption DEF IInv, Core, MasterTyped, Cycles
<1>3. PICK len : len = Len(stored) /\ len \in Nat
  BY <1>2
<1>4. /\ Len(stored') = len + 1 /\ stored'[len + 1] = c
      /\ \A j \in 1..len : stored'[j] = stored[j]
  BY <1>1, <1>2, <1>3, AppendProperties
<1>5. EntriesKept
  BY <1>3, <1>4, IngestEntries
<1>6. PICK by, at : Traced(by, at)
  BY DEF Account, Ledger
<1>7. /\ by \in [1..len -> Places] /\ at \in [1..len -> 1..BatchLimit]
      /\ \A i, j \in 1..len : by[i] = by[j] /\ at[i] = at[j] => i = j
      /\ \A j \in 1..len : Booked(j, by[j], at[j])
  BY <1>3, <1>6 DEF Traced
<1>8. PICK p : p = BatchLimit - Len(requests[n].left) + 1
  OBVIOUS
<1>9. p \in 1..BatchLimit /\ p <= BatchLimit - Len(requests'[n].left)
      /\ \A j \in 1..len : by[j] = n => at[j] < p
  <2>1. ASSUME NEW j \in 1..len, by[j] = n PROVE at[j] < p
    <3>1. at[j] <= BatchLimit - Len(requests[n].left) /\ at[j] \in Int
      BY <1>7, <2>1 DEF Booked
    <3> QED BY <1>1, <1>2, <1>8, <3>1
  <2>2. PICK l : l = Len(requests[n].left)
    OBVIOUS
  <2>3. p = BatchLimit - l + 1 /\ l \in 1..BatchLimit /\ Len(requests'[n].left) = l - 1
    BY <1>1, <1>8, <2>2
  <2>4. p \in 1..BatchLimit /\ p <= BatchLimit - (l - 1)
    BY <1>2, <2>3
  <2> QED BY <2>1, <2>3, <2>4
<1>10. PICK who, where :
         /\ who = [j \in 1..(len + 1) |-> IF j = len + 1 THEN n ELSE by[j]]
         /\ where = [j \in 1..(len + 1) |-> IF j = len + 1 THEN p ELSE at[j]]
  OBVIOUS
<1>11. /\ \A j \in 1..(len + 1) : j \in 1..len \/ j = len + 1
       /\ len + 1 \in 1..(len + 1) /\ len + 1 \notin 1..len
       /\ \A j \in 1..len : j \in 1..(len + 1) /\ j # len + 1
  BY <1>3
<1>12. /\ who[len + 1] = n /\ where[len + 1] = p
       /\ \A j \in 1..len : who[j] = by[j] /\ where[j] = at[j]
  BY <1>10, <1>11
<1>13. who \in [1..(len + 1) -> Places'] /\ where \in [1..(len + 1) -> 1..BatchLimit]
  BY <1>1, <1>7, <1>9, <1>10, <1>11
<1>14. ASSUME NEW i \in 1..(len + 1), NEW j \in 1..(len + 1), who[i] = who[j], where[i] = where[j]
       PROVE  i = j
  <2>1. CASE i \in 1..len /\ j \in 1..len
    BY <1>7, <1>12, <1>14, <2>1
  <2>2. CASE i = len + 1 /\ j \in 1..len
    <3>1. at[j] < p /\ at[j] = p
      BY <1>9, <1>12, <1>14, <2>2
    <3> QED BY <1>9, <3>1
  <2>3. CASE j = len + 1 /\ i \in 1..len
    <3>1. at[i] < p /\ at[i] = p
      BY <1>9, <1>12, <1>14, <2>3
    <3> QED BY <1>9, <3>1
  <2> QED BY <1>11, <2>1, <2>2, <2>3
<1>15. Booked(len + 1, n, p)'
  <2>1. \A e \in Cycles :
          e < c /\ (e \in Waiting' \/ \E m \in Places' : n < m /\ e \in Left(m)')
            => e \in Stored' \cup unresolved'
    <3> SUFFICES ASSUME NEW e \in Cycles, e < c, e \in Waiting \/ \E m \in Places : n < m /\ e \in Left(m)'
                 PROVE  e \in Stored' \cup unresolved'
      BY <1>1
    <3>1. e \in Left(n) \cup Stored \cup unresolved
      BY <1>1 DEF IInv, OrderInv, NoGap
    <3>2. e \notin Left(n)
      BY <1>1, <1>2
    <3> QED BY <1>1, <3>1, <3>2 DEF IngestedOnly
  <2>2. ASSUME NEW m \in Places, n <= m, NEW e \in Left(m)', e <= c
        PROVE  c \in Left(m)'
    <3>1. e \in Int
      <4>1. \A x \in Left(m) : x \in Int
        BY <1>2, RequestFields, ElementsFacts DEF Path, Places, Left
      <4> QED BY <1>1, <2>2, <4>1
    <3>2. m # n
      BY <1>1, <1>2, <2>2, <3>1
    <3>3. n < m
      BY <2>2, <3>2 DEF Places
    <3> QED BY <1>1, <2>2, <3>2, <3>3 DEF Account, Ahead
  <2> QED BY <1>1, <1>4, <1>9, <2>1, <2>2 DEF Booked
<1>16. \A j \in 1..(len + 1) : Booked(j, who[j], where[j])'
  <2>1. ASSUME NEW j \in 1..len PROVE Booked(j, by[j], at[j])'
    BY <1>3, <1>5, <1>7 DEF EntriesKept
  <2> QED BY <1>11, <1>12, <1>15, <2>1
<1>17. ASSUME unresolved' = {}, Distinct(stored'),
              NEW i \in 1..(len + 1), NEW j \in 1..(len + 1), i < j
       PROVE  stored'[i] < stored'[j] \/ (requests'[who[j]].late /\ overtaken' >= 1)
  <2>1. i \in 1..len /\ unresolved = {}
    BY <1>3, <1>11, <1>17, <1>1 DEF StragglersKept
  <2>2. CASE j \in 1..len
    <3>1. Distinct(stored)
      BY <1>3, <1>4, <1>11, <1>17 DEF Distinct
    <3>2. stored[i] < stored[j] \/ (requests[by[j]].late /\ overtaken >= 1)
      BY <1>3, <1>6, <1>17, <2>1, <2>2, <3>1 DEF Traced, InOrderBut
    <3>3. requests[by[j]].late => requests'[by[j]].late
      BY <1>3, <1>5, <1>7, <2>2 DEF EntriesKept
    <3>4. overtaken >= 1 => overtaken' >= 1
      BY <1>1 DEF StragglersKept
    <3> QED BY <1>4, <1>12, <2>1, <2>2, <3>2, <3>3, <3>4
  <2>3. CASE j = len + 1
    <3> SUFFICES ASSUME ~(stored[i] < c)
                 PROVE  requests'[n].late /\ overtaken' >= 1
      BY <1>4, <1>12, <2>1, <2>3
    <3>1. c < stored[i] /\ c \notin Stored
      <4>1. \A k \in 1..len : c # stored[k] /\ stored[k] \in Int
        <5> TAKE k \in 1..len
        <5>1. k < len + 1
          BY <1>3
        <5>2. k \in 1..Len(stored') /\ len + 1 \in 1..Len(stored')
          BY <1>4, <1>11
        <5>3. stored'[k] # stored'[len + 1]
          BY <1>17, <5>1, <5>2 DEF Distinct
        <5> QED BY <1>2, <1>3, <1>4, <5>3, DeliveryAssumption DEF Cycles
      <4> QED BY <1>1, <1>2, <1>3, <2>1, <4>1 DEF Stored, Elements
    <3>2. Booked(i, by[i], at[i]) /\ by[i] \in Places
      BY <1>7, <2>1
    <3>3. by[i] # n
      BY <1>1, <1>2, <3>1, <3>2 DEF Booked
    <3>4. ~(by[i] < n)
      BY <1>1, <2>1, <3>1, <3>2 DEF Booked
    <3>5. n < by[i] /\ requests[by[i]].began
      BY <3>2, <3>3, <3>4 DEF Booked, Places
    <3>6. n < Len(requests)
      BY <1>2, <3>2, <3>5 DEF Path, Places
    <3>7. LaterBegun(n) \in Nat /\ LaterBegun(n) # 0 /\ overtaken \in Nat
      BY <1>2, <3>2, <3>5, LaterBegunFacts DEF MasterTyped
    <3>8. overtaken' >= 1
      BY <1>1, <3>7 DEF Larger
    <3> QED BY <1>2, <3>6, <3>8
  <2> QED BY <1>11, <2>2, <2>3
<1>18. Traced(who, where)'
  <2>1. InOrderBut(who)'
    BY <1>4, <1>17 DEF InOrderBut
  <2> QED BY <1>4, <1>13, <1>14, <1>16, <2>1 DEF Traced
<1> QED BY <1>18 DEF Ledger

(* The requests a second store of request n can blame, and their batches.     *)
Blamed(n) ==
  {m \in (n + 1)..Len(requests) : requests[m].began} \cup {n}
    \cup (IF overtaken >= 1 THEN Late ELSE {})

(* What the window holds was stored after the cycle it forgot: by a request   *)
(* of a blamed one, or it is still left of this one.                          *)
LEMMA WindowIsBlamed ==
  ASSUME IInv, Account, NEW n \in Places, Ingest(n), NEW c, c = Head(requests[n].left),
         unresolved = {}, Distinct(stored),
         NEW by, NEW at, Traced(by, at),
         NEW i \in 1..Len(stored), stored[i] = c,
         NEW j \in 1..Len(stored), i < j
  PROVE  /\ stored[j] # c
         /\ \/ stored[j] \in Left(n)
            \/ /\ by[j] \in Blamed(n)
               /\ by[j] = n => at[j] <= BatchLimit - Len(requests[n].left)
<1>1. /\ c \in Cycles /\ c \in Left(n) /\ Path /\ MasterTyped /\ Cycles \subseteq Int
  BY IngestLedger, DeliveryAssumption DEF IInv, Core, Cycles
<1>2. stored[j] \in Int /\ stored[j] # c /\ by[j] \in Places /\ n \in Int /\ by[j] \in Int
  <2>1. by[j] \in Places
    BY DEF Traced
  <2>2. stored[j] \in Cycles /\ stored[i] # stored[j]
    BY <1>1 DEF MasterTyped, Distinct
  <2>3. Places \subseteq Int
    BY <1>1 DEF Path, Places
  <2> QED BY <1>1, <2>1, <2>2, <2>3
<1>3. Booked(j, by[j], at[j])
  BY DEF Traced
<1>4. CASE n < by[j]
  BY <1>1, <1>2, <1>3, <1>4 DEF Booked, Blamed, Places, Path
<1>5. CASE by[j] <= n /\ c <= stored[j]
  BY <1>1, <1>2, <1>3, <1>5 DEF Booked
<1>6. CASE by[j] <= n /\ stored[j] < c
  <2>1. requests[by[j]].late /\ overtaken >= 1
    BY <1>1, <1>2, <1>6 DEF Traced, InOrderBut
  <2>2. by[j] \in Blamed(n)
    BY <1>2, <2>1 DEF Blamed, Late, Places
  <2> QED BY <1>2, <1>3, <2>2 DEF Booked
<1> QED BY <1>1, <1>2, <1>4, <1>5, <1>6

(* So many batches fill the window.                                           *)
LEMMA WindowFits ==
  ASSUME IInv, Account, NEW n \in Places, Ingest(n), NEW c, c = Head(requests[n].left),
         unresolved = {}, ~forgotten, Distinct(stored),
         c \in Stored, c \notin Redelivery!Remembered("slave")
  PROVE  /\ IsFiniteSet(Blamed(n)) /\ Cardinality(Blamed(n)) \in Nat
         /\ Window < Cardinality(Blamed(n)) * BatchLimit
<1>1. /\ c \in Cycles /\ c \in Left(n) /\ Path /\ MasterTyped /\ RecentIsTail /\ Cycles \subseteq Int
      /\ Len(requests[n].left) \in 1..BatchLimit
      /\ Window \in Nat /\ BatchLimit \in Nat
  BY IngestLedger, DeliveryAssumption DEF IInv, Core, Cycles
<1>2. /\ requests[n].left \in Seq(Cycles) /\ requests[n].left # <<>>
      /\ c = requests[n].left[1]
  BY IngestFacts, TailFacts DEF IInv, Core
<1>3. PICK i \in 1..Len(stored) : stored[i] = c
  BY DEF Stored, Elements
<1>4. PICK by, at : Traced(by, at)
  BY DEF Account, Ledger
<1>5. /\ by \in [1..Len(stored) -> Places] /\ at \in [1..Len(stored) -> 1..BatchLimit]
      /\ \A j, k \in 1..Len(stored) : by[j] = by[k] /\ at[j] = at[k] => j = k
  BY <1>4 DEF Traced
<1>6. PICK place : place = [k \in 1..Window |-> Len(stored) - Window + k]
  OBVIOUS
<1>7. /\ \A k \in 1..Window : place[k] \in 1..Len(stored) /\ i < place[k]
      /\ \A k, l \in 1..Window : place[k] = place[l] => k = l
  <2>1. /\ Len(stored) \in Nat /\ Len(Newest) \in Nat /\ Len(Newest) <= Len(stored)
        /\ \A k \in 1..Len(Newest) : Len(stored) - Len(Newest) + k # i
    <3>1. WindowKnown /\ Len(stored) \in Nat /\ Len(Newest) \in Nat
      BY <1>1, KnownWindow
    <3> QED BY <1>1, <1>3, <3>1 DEF WindowKnown, RecentIsTail
  <2>2. Len(Newest) = Window
    <3>1. Len(Newest) = Window \/ Len(Newest) = Len(stored)
      BY <1>1 DEF RecentIsTail
    <3>2. Len(Newest) # Len(stored)
      <4> SUFFICES ASSUME Len(Newest) = Len(stored) PROVE FALSE
        OBVIOUS
      <4>1. i \in 1..Len(Newest) /\ Len(stored) - Len(Newest) + i = i
        BY <2>1
      <4> QED BY <2>1, <4>1
    <3> QED BY <3>1, <3>2
  <2>3. ~(i >= Len(stored) - Window + 1)
    <3> SUFFICES ASSUME i >= Len(stored) - Window + 1 PROVE FALSE
      OBVIOUS
    <3>1. PICK k : k = i - (Len(stored) - Window)
      OBVIOUS
    <3>2. k \in 1..Len(Newest) /\ Len(stored) - Len(Newest) + k = i
      BY <1>1, <2>1, <2>2, <3>1
    <3> QED BY <2>1, <3>2
  <2> QED BY <1>1, <1>6, <2>1, <2>2, <2>3
<1>8. ASSUME NEW k \in 1..Window
      PROVE  /\ stored[place[k]] # c
             /\ \/ stored[place[k]] \in Left(n)
                \/ /\ by[place[k]] \in Blamed(n)
                   /\ by[place[k]] = n => at[place[k]] <= BatchLimit - Len(requests[n].left)
  BY <1>3, <1>4, <1>7, WindowIsBlamed
<1> DEFINE here(k) == stored[place[k]] \in Left(n)
           spot(k) == CHOOSE x \in 1..Len(requests[n].left) : requests[n].left[x] = stored[place[k]]
           free == BatchLimit - Len(requests[n].left)
           f == [k \in 1..Window |-> IF here(k) THEN <<n, free + spot(k)>> ELSE <<by[place[k]], at[place[k]]>>]
           pairs == (Blamed(n) \X (1..BatchLimit)) \ {<<n, free + 1>>}
<1>9. ASSUME NEW k \in 1..Window, here(k)
      PROVE  spot(k) \in 2..Len(requests[n].left) /\ requests[n].left[spot(k)] = stored[place[k]]
  <2>1. \E x \in 1..Len(requests[n].left) : requests[n].left[x] = stored[place[k]]
    BY <1>9 DEF Left, Elements
  <2>2. spot(k) \in 1..Len(requests[n].left) /\ requests[n].left[spot(k)] = stored[place[k]]
    BY <2>1
  <2>3. spot(k) # 1
    BY <1>2, <1>8, <2>2
  <2> HIDE DEF spot
  <2> QED BY <1>1, <2>2, <2>3
<1> HIDE DEF here, spot
<1>10. free \in Int /\ free + 1 \in 1..BatchLimit /\ n \in Blamed(n)
       /\ \A x \in 2..Len(requests[n].left) : free + x \in 1..BatchLimit /\ free + x > free + 1
  <2>1. PICK l : l = Len(requests[n].left)
    OBVIOUS
  <2>2. l \in 1..BatchLimit /\ free = BatchLimit - l
    BY <1>1, <2>1
  <2> HIDE DEF free
  <2>3. free \in Int /\ free + 1 \in 1..BatchLimit
        /\ \A x \in 2..l : free + x \in 1..BatchLimit /\ free + x > free + 1
    BY <1>1, <2>2
  <2>4. n \in Blamed(n)
    BY DEF Blamed
  <2> QED BY <2>1, <2>3, <2>4
<1> HIDE DEF free
<1>11. ASSUME NEW k \in 1..Window
       PROVE  f[k] \in pairs
  <2>1. CASE here(k)
    <3>1. f[k] = <<n, free + spot(k)>> /\ free + spot(k) \in 1..BatchLimit /\ free + spot(k) # free + 1
      BY <1>9, <1>10, <2>1
    <3> QED BY <1>10, <3>1
  <2>2. CASE ~here(k)
    <3>1. f[k] = <<by[place[k]], at[place[k]]>> /\ by[place[k]] \in Blamed(n)
          /\ at[place[k]] \in 1..BatchLimit
          /\ (by[place[k]] = n => at[place[k]] <= free)
      BY <1>5, <1>7, <1>8, <2>2 DEF here, free
    <3>2. by[place[k]] = n => at[place[k]] # free + 1
      BY <1>10, <3>1
    <3> QED BY <3>1, <3>2
  <2> QED BY <2>1, <2>2
<1>12. ASSUME NEW k \in 1..Window, NEW l \in 1..Window, f[k] = f[l]
       PROVE  k = l
  <2>1. CASE here(k) /\ here(l)
    <3>1. free + spot(k) = free + spot(l)
      BY <1>12, <2>1
    <3>2. spot(k) = spot(l)
      BY <1>9, <1>10, <2>1, <3>1
    <3>3. stored[place[k]] = stored[place[l]]
      BY <1>9, <2>1, <3>2
    <3>4. place[k] = place[l]
      <4>1. place[k] \in Int /\ place[l] \in Int
        BY <1>7
      <4> QED BY <1>7, <3>3, <4>1 DEF Distinct
    <3> QED BY <1>7, <3>4
  <2>2. CASE ~here(k) /\ ~here(l)
    <3>1. by[place[k]] = by[place[l]] /\ at[place[k]] = at[place[l]]
      BY <1>12, <2>2
    <3> QED BY <1>5, <1>7, <3>1
  <2>3. ASSUME NEW x \in 1..Window, NEW y \in 1..Window, here(x), ~here(y), f[x] = f[y]
        PROVE  FALSE
    <3>1. by[place[y]] = n /\ at[place[y]] = free + spot(x)
      BY <2>3
    <3>2. at[place[y]] <= free /\ at[place[y]] \in Int
      BY <1>5, <1>7, <1>8, <2>3, <3>1 DEF here, free
    <3>3. free + spot(x) > free + 1
      BY <1>9, <1>10, <2>3
    <3> QED BY <1>10, <3>1, <3>2, <3>3
  <2> QED BY <1>12, <2>1, <2>2, <2>3
<1>13. f \in [1..Window -> pairs]
  BY <1>11
<1>14. IsFiniteSet(Blamed(n)) /\ Cardinality(Blamed(n)) \in Nat
  <2>1. IsFiniteSet(Places)
    BY <1>1, FS_Interval DEF Path, Places
  <2>2. Blamed(n) \subseteq Places
    <3>1. (n + 1)..Len(requests) \subseteq Places
      BY <1>1 DEF Path, Places
    <3> QED BY <1>1, <3>1, LateFinite DEF Blamed
  <2> QED BY <2>1, <2>2, FS_Subset, FS_CardinalityType
<1>15. IsFiniteSet(pairs) /\ Cardinality(pairs) = Cardinality(Blamed(n)) * BatchLimit - 1
  <2>1. IsFiniteSet(1..BatchLimit) /\ Cardinality(1..BatchLimit) = BatchLimit
    BY <1>1, PlacesCount, FS_Interval
  <2>2. /\ IsFiniteSet(Blamed(n) \X (1..BatchLimit))
        /\ Cardinality(Blamed(n) \X (1..BatchLimit)) = Cardinality(Blamed(n)) * BatchLimit
    BY <1>14, <2>1, FS_Product
  <2>3. <<n, free + 1>> \in Blamed(n) \X (1..BatchLimit)
    BY <1>10
  <2> HIDE DEF f
  <2>4. PICK all : all = Blamed(n) \X (1..BatchLimit)
    OBVIOUS
  <2>5. IsFiniteSet(all) /\ <<n, free + 1>> \in all /\ pairs = all \ {<<n, free + 1>>}
    BY <2>2, <2>3, <2>4
  <2>6. IsFiniteSet(pairs) /\ Cardinality(pairs) = Cardinality(all) - 1
    <3> HIDE DEF pairs
    <3>1. PICK corner : corner = <<n, free + 1>>
      OBVIOUS
    <3> QED BY <2>5, <3>1, FS_RemoveElement
  <2> HIDE DEF pairs
  <2> QED BY <2>2, <2>4, <2>6
<1> HIDE DEF f, pairs
<1>16. f \in Injection(1..Window, pairs)
  BY <1>12, <1>13, Fun_IsInj
<1>17. Cardinality(1..Window) <= Cardinality(pairs)
  BY <1>15, <1>16, FS_Injection
<1>18. Cardinality(1..Window) = Window
  BY <1>1, PlacesCount
<1>19. Cardinality(Blamed(n)) * BatchLimit \in Int
  BY <1>1, <1>14
<1> QED BY <1>1, <1>14, <1>15, <1>17, <1>18, <1>19

(* They are no more than what was counted. *)
LEMMA BlamedCounts ==
  ASSUME IInv, Account, NEW n \in Places, Ingest(n)
  PROVE  \/ Cardinality(Blamed(n)) <= overtaken' + Cardinality(Late')
         \/ Cardinality(Blamed(n)) = 1
<1> DEFINE later == {m \in (n + 1)..Len(requests) : requests[m].began}
<1>1. /\ Path /\ MasterTyped /\ Len(requests) \in Nat /\ n \in 1..Len(requests)
  BY DEF IInv, Core, Path, Places
<1>2. /\ Late' = Late \cup (IF n < Len(requests) THEN {n} ELSE {})
      /\ overtaken' = Larger(overtaken, LaterBegun(n))
      /\ StragglersKept
  BY IngestLedger
<1>3. LaterBegun(n) \in Nat /\ overtaken \in Nat /\ LaterBegun(n) = Cardinality(later)
  BY <1>1, LaterBegunFacts DEF MasterTyped, LaterBegun
<1>4. IsFiniteSet(later)
  <2>1. IsFiniteSet((n + 1)..Len(requests))
    BY <1>1, FS_Interval
  <2> QED BY <2>1, FS_Subset
<1>5. IsFiniteSet(Late') /\ Cardinality(Late') \in Nat /\ IsFiniteSet(Late) /\ Cardinality(Late) \in Nat
      /\ Cardinality(Late) <= Cardinality(Late')
  BY <1>1, <1>2, LateFinite, FS_Subset, FS_CardinalityType DEF StragglersKept
<1>6. Blamed(n) = later \cup {n} \cup (IF overtaken >= 1 THEN Late ELSE {})
  BY DEF Blamed
<1>7. n = Len(requests) => later = {}
  BY <1>1
<1> HIDE DEF later
<1>8. CASE n < Len(requests)
  <2>1. Blamed(n) \subseteq later \cup Late'
    BY <1>2, <1>6, <1>8
  <2>2. IsFiniteSet(later \cup Late') /\ Cardinality(later \cup Late')
          = Cardinality(later) + Cardinality(Late') - Cardinality(later \cap Late')
    BY <1>4, <1>5, FS_Union
  <2>3. IsFiniteSet(later \cap Late') /\ Cardinality(later \cap Late') \in Nat
    <3>1. later \cap Late' \subseteq later
      OBVIOUS
    <3> QED BY <1>4, <3>1, FS_Subset, FS_CardinalityType
  <2>4. Cardinality(Blamed(n)) <= Cardinality(later \cup Late') /\ Cardinality(Blamed(n)) \in Nat
    BY <2>1, <2>2, FS_Subset, FS_CardinalityType
  <2>5. Cardinality(later) <= overtaken' /\ overtaken' \in Nat
    BY <1>2, <1>3 DEF Larger
  <2> QED BY <1>3, <1>5, <2>2, <2>3, <2>4, <2>5
<1>9. CASE n = Len(requests) /\ overtaken >= 1
  <2>1. Blamed(n) = Late \cup {n}
    BY <1>6, <1>7, <1>9
  <2>2. Cardinality(Blamed(n)) <= Cardinality(Late) + 1 /\ Cardinality(Blamed(n)) \in Nat
    <3>1. /\ IsFiniteSet(Late \cup {n})
          /\ Cardinality(Late \cup {n}) = IF n \in Late THEN Cardinality(Late) ELSE Cardinality(Late) + 1
      <4> HIDE DEF Late
      <4> QED BY <1>5, FS_AddElement
    <3>2. Cardinality(Late \cup {n}) \in Nat
      BY <3>1, FS_CardinalityType
    <3> QED BY <1>5, <2>1, <3>1, <3>2
  <2>3. overtaken' >= 1 /\ overtaken' \in Nat
    BY <1>2, <1>3, <1>9 DEF Larger
  <2> QED BY <1>5, <2>2, <2>3
<1>10. CASE n = Len(requests) /\ ~(overtaken >= 1)
  <2>1. Blamed(n) = {n}
    BY <1>6, <1>7, <1>10
  <2> QED BY <2>1, FS_Singleton
<1> QED BY <1>1, <1>8, <1>9, <1>10

(* A second store of a cycle the window forgot. *)
LEMMA SecondStore ==
  ASSUME IInv, Account, NEW n \in Places, Ingest(n), NEW c, c = Head(requests[n].left),
         unresolved = {}, ~forgotten, Distinct(stored),
         c \in Stored, c \notin Redelivery!Remembered("slave")
  PROVE  overtaken' + Cardinality(Late') > Window \div BatchLimit
<1>1. /\ Cardinality(Blamed(n)) \in Nat /\ Window < Cardinality(Blamed(n)) * BatchLimit
  BY WindowFits
<1>2. /\ Window \in Nat /\ BatchLimit \in Nat \ {0} /\ Window >= 2 * BatchLimit
  BY DeliveryAssumption
<1>3. Cardinality(Blamed(n)) <= overtaken' + Cardinality(Late')
  <2>1. Cardinality(Blamed(n)) # 1
    BY <1>1, <1>2
  <2> QED BY <2>1, BlamedCounts
<1>4. PICK q : q = Window \div BatchLimit
  OBVIOUS
<1>5. q \in Int /\ BatchLimit * q <= Window
  BY <1>2, <1>4
<1>6. overtaken' + Cardinality(Late') \in Int
  <2>1. IsFiniteSet(Late') /\ overtaken' \in Nat
    BY IngestLedger DEF StragglersKept
  <2> QED BY <2>1, FS_CardinalityType
<1>7. BatchLimit * q < BatchLimit * Cardinality(Blamed(n))
  BY <1>1, <1>2, <1>5
<1>8. q < Cardinality(Blamed(n))
  BY <1>1, <1>2, <1>5, <1>7
<1> QED BY <1>1, <1>3, <1>4, <1>5, <1>6, <1>8

(* A pass of ingestBatch keeps the account. *)
LEMMA IngestAccount ==
  ASSUME IInv, Account, NEW n \in Places, Ingest(n)
  PROVE  Account'
<1>0. PICK c : c = Head(requests[n].left)
  OBVIOUS
<1>1. c \in Cycles /\ StragglersKept /\ Ahead' /\ MasterTyped
  BY <1>0, IngestLedger DEF IInv, Core
<1>2. CASE stored' = stored
  BY <1>1, <1>2, IngestEntries, AccountKept
<1>3. CASE Redelivery!Ingest("slave", c) /\ stored' = Append(stored, c)
  <2>1. c \notin Redelivery!Remembered("slave")
    BY <1>3 DEF Redelivery!Ingest
  <2>2. Ledger'
    BY <1>0, <1>3, LedgerGrows
  <2>3. /\ stored \in Seq(Cycles) /\ Len(stored) \in Nat /\ Len(stored') = Len(stored) + 1
        /\ stored'[Len(stored) + 1] = c
        /\ \A j \in 1..Len(stored) : stored'[j] = stored[j]
    BY <1>1, <1>3, AppendProperties DEF MasterTyped
  <2>4. DuplicateNeedsStraggler'
    <3> SUFFICES ASSUME unresolved' = {}, ~forgotten',
                        NEW i \in 1..Len(stored'), NEW j \in 1..Len(stored'), i < j, stored'[i] = stored'[j]
                 PROVE  overtaken' + Cardinality(Late') > Window \div BatchLimit
      BY DEF DuplicateNeedsStraggler
    <3>1. unresolved = {} /\ ~forgotten
      BY <1>1 DEF StragglersKept
    <3>2. CASE Distinct(stored)
      <4>1. j = Len(stored) + 1 /\ i \in 1..Len(stored)
        BY <2>3, <3>2 DEF Distinct
      <4>2. c \in Stored
        BY <2>3, <4>1 DEF Stored, Elements
      <4> QED BY <1>0, <2>1, <3>1, <3>2, <4>2, SecondStore
    <3>3. CASE ~Distinct(stored)
      <4>1. overtaken + Cardinality(Late) > Window \div BatchLimit
        BY <3>1, <3>3 DEF Distinct, Account, DuplicateNeedsStraggler
      <4>2. /\ Cardinality(Late) <= Cardinality(Late')
            /\ Cardinality(Late) \in Nat /\ Cardinality(Late') \in Nat
            /\ overtaken <= overtaken' /\ overtaken \in Nat /\ overtaken' \in Nat
        BY <1>1, FS_Subset, FS_CardinalityType DEF StragglersKept
      <4>3. Window \div BatchLimit \in Int
        BY DeliveryAssumption
      <4> QED BY <4>1, <4>2, <4>3
    <3> QED BY <3>2, <3>3
  <2> QED BY <1>1, <2>2, <2>4 DEF Account
<1>4. stored' = stored \/ (Redelivery!Ingest("slave", c) /\ stored' = Append(stored, c))
  BY <1>0 DEF Ingest
<1> QED BY <1>2, <1>3, <1>4

(* The account starts empty. *)
LEMMA InitAccount == Init => Account
<1> SUFFICES ASSUME Init PROVE Account
  OBVIOUS
<1>1. Places = {} /\ stored = <<>> /\ Len(stored) = 0 /\ 1..0 = {}
  BY DEF Init, Places
<1>2. Ahead /\ DuplicateNeedsStraggler
  BY <1>1 DEF Ahead, DuplicateNeedsStraggler
<1>3. PICK none : none = [j \in {} |-> 1]
  OBVIOUS
<1>4. Traced(none, none)
  BY <1>1, <1>3 DEF Traced, InOrderBut
<1> QED BY <1>2, <1>4 DEF Account, Ledger

(* Every step keeps the account. *)
LEMMA NextAccount == IInv /\ Account /\ [Next]_vars => Account'
<1> SUFFICES ASSUME IInv, Account, [Next]_vars PROVE Account'
  OBVIOUS
<1>1. Measure \/ Flush \/ Quiet \/ \E n \in Places : Ingest(n)
  BY StepKinds DEF IInv
<1> QED BY <1>1, MeasureAccount, FlushAccount, QuietAccount, IngestAccount

(* Redelivery neither doubles nor reorders what is stored, whatever the       *)
(* network loses and repeats: in order while no handler was overtaken, and a  *)
(* cycle twice only behind as many stragglers and overtaking batches as fill  *)
(* the window (dedup.go lines 16 to 22, protocol.go lines 100 to 109).        *)
THEOREM RedeliveryIsSound == Spec => []RedeliveryIsSafe
<1>1. Init => IInv /\ Account
  BY InitCore, InitOrder, InitAccount DEF IInv
<1>2. IInv /\ Account /\ [Next]_vars => (IInv /\ Account)'
  BY NextIInv, NextAccount
<1>3. IInv /\ Account => RedeliveryIsSafe
  BY DEF IInv, OrderInv, OrderKept, StoredOnceInOrder, Ascending, Account, RedeliveryIsSafe
<1> QED BY <1>1, <1>2, <1>3, PTL DEF Spec
=============================================================================
