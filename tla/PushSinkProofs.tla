--------------------------- MODULE PushSinkProofs ---------------------------
(* Theorems about the push buffer and the array it lives in, for every set of *)
(* targets, every cycle size, budget and batch limit.                         *)
EXTENDS PushRing, NumberLemmas, SequenceTheorems

-----------------------------------------------------------------------------
(* Sizes.                                                                     *)

(* A payload retains a natural number of bytes (payloadHeapBytes, pushsink.go *)
(* lines 106 to 127).                                                         *)
LEMMA PayloadBytesNat ==
  ASSUME NEW p \in Payload
  PROVE  p.base \in Nat /\ p.hops \in Nat /\ PayloadHeapBytes(p) \in Nat
<1>1. p.base \in BaseSizes /\ p.hops \in HopSizes
  BY DEF Payload
<1>2. p.base \in Nat /\ p.hops \in Nat
  BY <1>1, SizesAssumption
<1> QED BY <1>2 DEF PayloadHeapBytes

(* The running sums of a sequence of payloads: what the recursion says. *)
LEMMA RunningBytesDef ==
  ASSUME NEW s \in Seq(Payload)
  PROVE  /\ RunningBytes(s) \in [0..Len(s) -> Nat]
         /\ RunningBytes(s)[0] = 0
         /\ \A i \in 1..Len(s) :
              RunningBytes(s)[i] = RunningBytes(s)[i - 1] + PayloadHeapBytes(s[i])
<1> DEFINE w == [i \in 1..Len(s) |-> PayloadHeapBytes(s[i])]
           F == RunningBytes(s)
           Eq(g) == g = [i \in 0..Len(s) |->
                           IF i = 0 THEN 0 ELSE g[i - 1] + PayloadHeapBytes(s[i])]
<1>1. w \in [1..Len(s) -> Nat] /\ Len(s) \in Nat
  BY PayloadBytesNat
<1>2. F = CHOOSE g : Eq(g)
  BY DEF RunningBytes
<1>3. \A g : SumEquation(g, Len(s), w) <=> Eq(g)
  <2> SUFFICES ASSUME NEW g PROVE SumEquation(g, Len(s), w) <=> Eq(g)
    OBVIOUS
  <2>1. \A i \in 0..Len(s) :
          (IF i = 0 THEN 0 ELSE g[i - 1] + w[i])
            = (IF i = 0 THEN 0 ELSE g[i - 1] + PayloadHeapBytes(s[i]))
    OBVIOUS
  <2> HIDE DEF w
  <2> QED BY <2>1 DEF SumEquation
<1>4. SumEquation(F, Len(s), w)
  <2> HIDE DEF F, w, Eq
  <2> QED BY <1>1, <1>2, <1>3, SumEquationSolvable
<1>5. F \in [0..Len(s) -> Nat] /\ F[0] = 0 /\ \A i \in 1..Len(s) : F[i] = F[i - 1] + w[i]
  <2> HIDE DEF F, w
  <2> QED BY <1>1, <1>4, SumEquationFacts
<1> QED BY <1>5

(* So does a sequence of payloads.                                            *)
LEMMA HeapBytesNat ==
  ASSUME NEW s \in Seq(Payload)
  PROVE  HeapBytes(s) \in Nat
BY RunningBytesDef DEF HeapBytes

(* No payload, no bytes.                                                      *)
LEMMA HeapBytesEmpty == HeapBytes(<<>>) = 0
<1>1. <<>> \in Seq(Payload) /\ Len(<<>>) = 0
  OBVIOUS
<1> QED BY <1>1, RunningBytesDef DEF HeapBytes

(* One payload retains its own bytes.                                         *)
LEMMA HeapBytesOne ==
  ASSUME NEW p \in Payload
  PROVE  HeapBytes(<<p>>) = PayloadHeapBytes(p)
<1> DEFINE q == <<p>>
<1>1. q \in Seq(Payload) /\ Len(q) = 1 /\ q[1] = p
  OBVIOUS
<1> HIDE DEF q
<1>2. /\ RunningBytes(q)[0] = 0
      /\ \A i \in 1..1 : RunningBytes(q)[i] = RunningBytes(q)[i - 1] + PayloadHeapBytes(q[i])
  BY <1>1, RunningBytesDef
<1>3. RunningBytes(q)[1] = 0 + PayloadHeapBytes(p)
  <2>1. 1 \in 1..1 /\ 1 - 1 = 0
    OBVIOUS
  <2> QED BY <1>1, <1>2, <2>1
<1>4. HeapBytes(q) = PayloadHeapBytes(p)
  BY <1>1, <1>3, PayloadBytesNat DEF HeapBytes
<1> QED BY <1>4 DEF q

(* Bytes add up over concatenation. *)
LEMMA HeapBytesConcat ==
  ASSUME NEW s \in Seq(Payload), NEW t \in Seq(Payload)
  PROVE  HeapBytes(s \o t) = HeapBytes(s) + HeapBytes(t)
<1> DEFINE u == s \o t
           R == RunningBytes(u)
           Rs == RunningBytes(s)
           Rt == RunningBytes(t)
           b(i) == PayloadHeapBytes(i)
<1>1. /\ u \in Seq(Payload) /\ Len(u) = Len(s) + Len(t)
      /\ Len(s) \in Nat /\ Len(t) \in Nat
      /\ \A i \in 1..Len(s) : u[i] = s[i]
      /\ \A i \in 1..Len(t) : u[Len(s) + i] = t[i]
  OBVIOUS
<1> HIDE DEF u
<1>2. /\ R \in [0..Len(u) -> Nat] /\ R[0] = 0
      /\ \A i \in 1..Len(u) : R[i] = R[i - 1] + PayloadHeapBytes(u[i])
  BY <1>1, RunningBytesDef
<1>3. /\ Rs \in [0..Len(s) -> Nat] /\ Rs[0] = 0
      /\ \A i \in 1..Len(s) : Rs[i] = Rs[i - 1] + PayloadHeapBytes(s[i])
  BY RunningBytesDef
<1>4. /\ Rt \in [0..Len(t) -> Nat] /\ Rt[0] = 0
      /\ \A i \in 1..Len(t) : Rt[i] = Rt[i - 1] + PayloadHeapBytes(t[i])
  BY RunningBytesDef
<1> HIDE DEF R, Rs, Rt
<1>5. \A i \in 0..Len(s) : R[i] = Rs[i]
  <2> DEFINE S == {i \in Nat : R[i] = Rs[i]}
  <2>1. 0 \in S
    BY <1>2, <1>3
  <2>2. ASSUME NEW i \in 0..(Len(s) - 1), i \in S PROVE i + 1 \in S
    <3>1. i + 1 \in 1..Len(s) /\ i + 1 \in 1..Len(u) /\ i + 1 - 1 = i
      BY <1>1
    <3>2. R[i + 1] = R[i] + PayloadHeapBytes(u[i + 1])
      BY <3>1, <1>2
    <3>3. Rs[i + 1] = Rs[i] + PayloadHeapBytes(s[i + 1])
      BY <3>1, <1>3
    <3>4. u[i + 1] = s[i + 1]
      BY <3>1, <1>1
    <3> QED BY <2>2, <3>2, <3>3, <3>4
  <2>3. \A i \in 0..Len(s) : i \in S
    <3> HIDE DEF S
    <3> QED BY <1>1, <2>1, <2>2, UpToInduction
  <2> QED BY <2>3
<1>6. \A i \in 0..Len(t) : R[Len(s) + i] = Rs[Len(s)] + Rt[i]
  <2> DEFINE S == {i \in Nat : R[Len(s) + i] = Rs[Len(s)] + Rt[i]}
  <2>1. 0 \in S
    <3>1. Len(s) + 0 = Len(s) /\ Len(s) \in 0..Len(s)
      BY <1>1
    <3>2. R[Len(s)] = Rs[Len(s)] /\ Rs[Len(s)] \in Nat
      BY <3>1, <1>3, <1>5
    <3> QED BY <3>1, <3>2, <1>4
  <2>2. ASSUME NEW i \in 0..(Len(t) - 1), i \in S PROVE i + 1 \in S
    <3>1. /\ i + 1 \in 1..Len(t) /\ i + 1 - 1 = i
          /\ Len(s) + i + 1 \in 1..Len(u) /\ Len(s) + i + 1 - 1 = Len(s) + i
          /\ Len(s) + (i + 1) = Len(s) + i + 1
      BY <1>1
    <3>2. R[Len(s) + i + 1] = R[Len(s) + i] + PayloadHeapBytes(u[Len(s) + i + 1])
      BY <3>1, <1>2
    <3>3. Rt[i + 1] = Rt[i] + PayloadHeapBytes(t[i + 1])
      BY <3>1, <1>4
    <3>4. u[Len(s) + i + 1] = t[i + 1]
      BY <3>1, <1>1
    <3>5. R[Len(s) + i] = Rs[Len(s)] + Rt[i]
      BY <2>2
    <3>6. Len(s) \in 0..Len(s) /\ i \in 0..Len(t)
      BY <1>1, <3>1
    <3>7. Rs[Len(s)] \in Nat /\ Rt[i] \in Nat
      BY <3>6, <1>3, <1>4
    <3>8. t[i + 1] \in Payload
      BY <3>1
    <3>9. PayloadHeapBytes(t[i + 1]) \in Nat
      BY <3>8, PayloadBytesNat
    <3> QED BY <3>1, <3>2, <3>3, <3>4, <3>5, <3>7, <3>9
  <2>3. \A i \in 0..Len(t) : i \in S
    <3> HIDE DEF S
    <3> QED BY <1>1, <2>1, <2>2, UpToInduction
  <2> QED BY <2>3
<1>7. Len(t) \in 0..Len(t)
  BY <1>1
<1>8. HeapBytes(u) = R[Len(u)] /\ HeapBytes(s) = Rs[Len(s)] /\ HeapBytes(t) = Rt[Len(t)]
  BY DEF HeapBytes, R, Rs, Rt
<1>9. HeapBytes(u) = HeapBytes(s) + HeapBytes(t)
  BY <1>1, <1>6, <1>7, <1>8
<1> QED BY <1>9 DEF u

(* A cycle without its hop rows is still a payload, lighter by those rows. *)
Bare(p) == [p EXCEPT !.hops = 0]

(* Taking the hop rows off leaves a payload, its other bytes unchanged.       *)
LEMMA BareFacts ==
  ASSUME NEW p \in Payload
  PROVE  /\ Bare(p) \in Payload
         /\ Bare(p).hops = 0
         /\ Bare(p).seq = p.seq /\ Bare(p).target = p.target
         /\ PayloadHeapBytes(Bare(p)) = PayloadHeapBytes(p) - p.hops
<1>1. Bare(p) \in Payload /\ Bare(p).hops = 0 /\ Bare(p).base = p.base
      /\ Bare(p).seq = p.seq /\ Bare(p).target = p.target
  BY SizesAssumption DEF Bare, Payload
<1> QED BY <1>1, PayloadBytesNat DEF PayloadHeapBytes

(* Stripping one entry takes its hop rows off the total and nothing else. *)
LEMMA HeapBytesStrip ==
  ASSUME NEW s \in Seq(Payload), NEW k \in 1..Len(s), NEW t \in Seq(Payload),
         Len(t) = Len(s), t[k] = Bare(s[k]),
         \A i \in 1..Len(s) : i # k => t[i] = s[i]
  PROVE  HeapBytes(t) = HeapBytes(s) - s[k].hops
<1> DEFINE Rs == RunningBytes(s)
           Rt == RunningBytes(t)
           n == Len(s)
           off(i) == IF i < k THEN 0 ELSE s[k].hops
           S == {i \in Nat : Rs[i] = Rt[i] + off(i)}
<1>1. n \in Nat /\ k \in Nat /\ k > 0 /\ s[k] \in Payload
  OBVIOUS
<1>2. /\ Rs \in [0..n -> Nat] /\ Rs[0] = 0
      /\ \A i \in 1..n : Rs[i] = Rs[i - 1] + PayloadHeapBytes(s[i])
  BY RunningBytesDef
<1>3. /\ Rt \in [0..n -> Nat] /\ Rt[0] = 0
      /\ \A i \in 1..n : Rt[i] = Rt[i - 1] + PayloadHeapBytes(t[i])
  BY RunningBytesDef
<1>4. s[k].hops \in Nat /\ PayloadHeapBytes(s[k]) \in Nat
      /\ PayloadHeapBytes(t[k]) = PayloadHeapBytes(s[k]) - s[k].hops
  BY <1>1, PayloadBytesNat, BareFacts
<1> HIDE DEF Rs, Rt
<1>5. 0 \in S
  BY <1>1, <1>2, <1>3
<1>6. ASSUME NEW i \in 0..(n - 1), i \in S PROVE i + 1 \in S
  <2>1. i + 1 \in 1..n /\ i \in 0..n /\ i + 1 - 1 = i /\ i + 1 \in Nat
    BY <1>1
  <2>2. Rs[i + 1] = Rs[i] + PayloadHeapBytes(s[i + 1]) /\ Rs[i] \in Nat
    <3> HIDE DEF n
    <3>1. Rs[i + 1] = Rs[i + 1 - 1] + PayloadHeapBytes(s[i + 1])
      BY <2>1, <1>2
    <3>2. Rs[i] \in Nat
      BY <2>1, <1>2
    <3> QED BY <2>1, <3>1, <3>2, Zenon
  <2>3. Rt[i + 1] = Rt[i] + PayloadHeapBytes(t[i + 1]) /\ Rt[i] \in Nat
    BY <2>1, <1>3
  <2>4. Rs[i] = Rt[i] + off(i)
    BY <1>6
  <2>5. PayloadHeapBytes(s[i + 1]) \in Nat
    BY <2>1, PayloadBytesNat
  <2>6. CASE i + 1 = k
    <3>1. off(i) = 0 /\ off(i + 1) = s[k].hops
      BY <2>6, <2>1, <1>1
    <3>2. PayloadHeapBytes(t[i + 1]) = PayloadHeapBytes(s[i + 1]) - s[k].hops
      BY <2>6, <1>4
    <3> QED BY <2>1, <2>2, <2>3, <2>4, <2>5, <3>1, <3>2, <1>4
  <2>7. CASE i + 1 # k
    <3>1. off(i) = off(i + 1) /\ off(i) \in Nat
      BY <2>7, <2>1, <1>1, <1>4
    <3>2. PayloadHeapBytes(t[i + 1]) = PayloadHeapBytes(s[i + 1])
      BY <2>7, <2>1
    <3> HIDE DEF off
    <3> QED BY <2>1, <2>2, <2>3, <2>4, <2>5, <3>1, <3>2
  <2> QED BY <2>6, <2>7
<1>7. \A i \in 0..n : i \in S
  <2> HIDE DEF S, n
  <2> QED BY <1>1, <1>5, <1>6, UpToInduction
<1>8. n \in 0..n /\ off(n) = s[k].hops
  BY <1>1
<1>9. Rs[n] = Rt[n] + s[k].hops /\ Rt[n] \in Nat
  <2> HIDE DEF off, n
  <2> QED BY <1>3, <1>7, <1>8
<1>10. HeapBytes(s) = Rs[n] /\ HeapBytes(t) = Rt[n]
  BY DEF HeapBytes, Rs, Rt
<1> QED BY <1>4, <1>9, <1>10

-----------------------------------------------------------------------------
(* Ring sizes.                                                                *)

(* entriesFor returns a ring that is large enough. *)
LEMMA EntriesForFacts ==
  ASSUME NEW have \in Nat \ {0}, NEW need \in Nat
  PROVE  /\ EntriesFor(have, need) \in Nat \ {0}
         /\ EntriesFor(have, need) >= need
         /\ EntriesFor(have, need) >= have
         /\ need = 0 => EntriesFor(have, need) = have
<1> DEFINE D == Nat \ {0}
           grown(v) == IF v < need THEN 2 * v ELSE v
           step == [k \in 1..need |-> [v \in D |-> grown(v)]]
           Eq(f) == f = [k \in 0..need |-> IF k = 0 THEN have
                           ELSE IF f[k - 1] < need THEN 2 * f[k - 1] ELSE f[k - 1]]
           f == CHOOSE f : Eq(f)
<1>1. IsStep(step, need, D) /\ have \in D
  BY DEF IsStep
<1>2. PICK g : Follows(g, need, D, have, step)
  <2> HIDE DEF D, step
  <2> QED BY <1>1, PrimitiveRecursion
<1>3. /\ g \in [0..need -> D] /\ g[0] = have
      /\ \A k \in 1..need : g[k] = step[k][g[k - 1]]
  <2> HIDE DEF D, step
  <2> QED BY <1>2 DEF Follows
<1>4. ASSUME NEW k \in 1..need
      PROVE  g[k] = IF g[k - 1] < need THEN 2 * g[k - 1] ELSE g[k - 1]
  <2>1. g[k - 1] \in D
    BY <1>3
  <2> QED BY <1>3, <2>1
<1>5. Eq(g)
  BY <1>3, <1>4
<1>6. Eq(f)
  <2> HIDE DEF Eq
  <2> QED BY <1>5
<1>7. EntriesFor(have, need) = f[need]
  BY DEF EntriesFor
<1> HIDE DEF f
<1>8. f[0] = have
  BY <1>6
<1>9. ASSUME NEW k \in 1..need
      PROVE  f[k] = IF f[k - 1] < need THEN 2 * f[k - 1] ELSE f[k - 1]
  <2>1. k \in 0..need /\ k # 0
    OBVIOUS
  <2> QED BY <1>6, <2>1
<1> DEFINE S == {k \in Nat : f[k] \in Nat /\ f[k] >= have /\ (f[k] >= need \/ f[k] > k)}
<1>10. 0 \in S
  BY <1>8
<1>11. ASSUME NEW k \in 0..(need - 1), k \in S PROVE k + 1 \in S
  <2>1. k + 1 \in 1..need /\ k + 1 - 1 = k
    OBVIOUS
  <2>2. f[k + 1] = IF f[k] < need THEN 2 * f[k] ELSE f[k]
    BY <1>9, <2>1
  <2>3. f[k] \in Nat /\ f[k] >= have /\ (f[k] >= need \/ f[k] > k)
    BY <1>11
  <2> QED BY <2>1, <2>2, <2>3
<1>12. \A k \in 0..need : k \in S
  <2> HIDE DEF S
  <2> QED BY <1>10, <1>11, UpToInduction
<1>13. need \in S
  <2> HIDE DEF S
  <2> QED BY <1>12
<1> QED BY <1>7, <1>8, <1>13

(* shrinkIfIdle never cuts below the live entries. *)
LEMMA ShrunkForFacts ==
  ASSUME capacity \in Nat \ {0}, NEW live \in Nat, live <= capacity
  PROVE  /\ ShrunkFor(live) \in Nat \ {0} /\ live <= ShrunkFor(live)
         /\ capacity >= InitialEntries => ShrunkFor(live) >= InitialEntries
         /\ capacity >= InitialEntries /\ live = 0 => ShrunkFor(live) = InitialEntries
<1>1. InitialEntries \in Nat \ {0} /\ live * 2 \in Nat
  BY SizesAssumption
<1>2. /\ EntriesFor(InitialEntries, live * 2) \in Nat \ {0}
      /\ EntriesFor(InitialEntries, live * 2) >= live * 2
      /\ EntriesFor(InitialEntries, live * 2) >= InitialEntries
      /\ live * 2 = 0 => EntriesFor(InitialEntries, live * 2) = InitialEntries
  <2> DEFINE need == live * 2
  <2> HIDE DEF need
  <2>1. need \in Nat
    BY <1>1 DEF need
  <2>2. /\ EntriesFor(InitialEntries, need) \in Nat \ {0}
        /\ EntriesFor(InitialEntries, need) >= need
        /\ EntriesFor(InitialEntries, need) >= InitialEntries
        /\ need = 0 => EntriesFor(InitialEntries, need) = InitialEntries
    BY <1>1, <2>1, EntriesForFacts
  <2> QED BY <2>2 DEF need
<1> DEFINE entries == EntriesFor(InitialEntries, live * 2)
<1>3. ShrunkFor(live) = IF capacity <= InitialEntries \/ live * 4 >= capacity THEN capacity
                        ELSE IF entries < capacity THEN entries ELSE capacity
  BY DEF ShrunkFor
<1>4. /\ entries \in Nat \ {0} /\ entries >= live * 2 /\ entries >= InitialEntries
      /\ live * 2 = 0 => entries = InitialEntries
  BY <1>2
<1> HIDE DEF entries
<1>5. live * 2 \in Nat /\ live * 4 \in Nat /\ live * 2 >= live
  OBVIOUS
<1>6. CASE live = 0
  <2>1. live * 2 = 0 /\ live * 4 = 0
    BY <1>6
  <2> QED BY <1>1, <1>3, <1>4, <1>6, <2>1
<1>7. CASE live # 0
  BY <1>1, <1>3, <1>4, <1>5, <1>7
<1> QED BY <1>6, <1>7

-----------------------------------------------------------------------------
(* The inductive invariant.  The byte account, the strip index and the size   *)
(* of the array are one argument: each loop pass relies on the type of the    *)
(* others, and the walk's result is only right below a right index.           *)
IInv ==
  /\ TypeOK
  /\ HeapExact
  /\ StripPrefix
  /\ StripInRange
  /\ RingFits
  /\ mode = "cycle" => Len(incoming) = 1

(* Numbering a payload leaves it a payload.                                   *)
LEMMA StampFacts ==
  ASSUME NEW p \in Payload, NEW n \in Nat
  PROVE  [p EXCEPT !.seq = n] \in Payload
BY DEF Payload

(* OnCycle and Drain either pass a cycle on or take its hop rows off.         *)
LEMMA WithholdFacts ==
  ASSUME NEW p \in Payload
  PROVE  Withhold(p) = p \/ Withhold(p) = Bare(p)
BY DEF Withhold, Bare

(* A new sink satisfies the invariant (NewPushSink, lines 89 to 100).         *)
LEMMA InitIInv == Init => IInv
<1> SUFFICES ASSUME Init PROVE IInv
  OBVIOUS
<1>1. TypeOK
  <2>1. <<>> \in Seq(Payload) /\ capacity \in Nat \ {0}
    BY SizesAssumption DEF Init
  <2>2. arriving \in [Targets -> Payload \cup {NoCycle}]
    BY DEF Init
  <2>3. mode = "free" /\ incoming = <<>> /\ inflight = <<>> /\ ring = <<>>
    BY DEF Init
  <2>4. heap = 0 /\ stripIdx = 0 /\ dropped = 0 /\ stripped = 0 /\ cycles = 0 /\ settled = 0
        /\ hopMarkers = FALSE
    BY DEF Init
  <2>5. 0 \in Nat /\ 0 \in Int /\ FALSE \in BOOLEAN
    OBVIOUS
  <2> QED BY Zenon, <2>1, <2>2, <2>3, <2>4, <2>5 DEF TypeOK
<1>2. HeapExact
  BY HeapBytesEmpty DEF Init, HeapExact
<1>3. StripPrefix /\ StripInRange /\ RingFits
  BY SizesAssumption DEF Init, StripPrefix, StripInRange, RingFits
<1> QED BY <1>1, <1>2, <1>3 DEF IInv, Init

(* Steps that leave the buffer and the mutex alone. *)
LEMMA SetHopMarkersIInv ==
  ASSUME IInv, NEW ok \in BOOLEAN, SetHopMarkers(ok) PROVE IInv'
BY DEF IInv, SetHopMarkers, TypeOK, HeapExact, StripPrefix, StripInRange, RingFits,
       buffer, HeapBytes, RunningBytes

(* A probe measures without touching the buffer (OnCycle, lines 250 to 255).  *)
LEMMA MeasureIInv ==
  ASSUME IInv, NEW t \in Targets, Measure(t) PROVE IInv'
<1>1. PICK base \in BaseSizes, hops \in HopSizes :
        arriving' = [arriving EXCEPT ![t] =
          Withhold([seq |-> 0, target |-> t, base |-> base, hops |-> hops])]
  BY DEF Measure
<1>2. [seq |-> 0, target |-> t, base |-> base, hops |-> hops] \in Payload
  BY DEF Payload
<1>3. Withhold([seq |-> 0, target |-> t, base |-> base, hops |-> hops]) \in Payload
  BY <1>2, WithholdFacts, BareFacts
<1>4. arriving' \in [Targets -> Payload \cup {NoCycle}]
  BY <1>1, <1>3 DEF IInv, TypeOK
<1> QED BY <1>4 DEF IInv, Measure, TypeOK, HeapExact, StripPrefix, StripInRange,
       RingFits, buffer, HeapBytes, RunningBytes

(* Settling a batch leaves the buffer alone (flushOnce).                      *)
LEMMA SettleBatchIInv ==
  ASSUME IInv, SettleBatch PROVE IInv'
BY DEF IInv, SettleBatch, TypeOK, HeapExact, StripPrefix, StripInRange, RingFits,
       buffer, HeapBytes, RunningBytes

(* OnCycle takes the mutex with one payload to admit (lines 257 and 258).     *)
LEMMA LockForCycleIInv ==
  ASSUME IInv, NEW t \in Targets, LockForCycle(t) PROVE IInv'
<1>1. arriving[t] \in Payload
  BY DEF IInv, TypeOK, LockForCycle
<1>2. [arriving[t] EXCEPT !.seq = cycles + 1] \in Payload
  <2> cycles + 1 \in Nat
    BY DEF IInv, TypeOK
  <2> QED BY <1>1, StampFacts
<1>3. incoming' \in Seq(Payload) /\ Len(incoming') = 1 /\ incoming' # <<>>
  BY <1>2 DEF LockForCycle
<1>4. arriving' \in [Targets -> Payload \cup {NoCycle}]
  BY DEF IInv, TypeOK, LockForCycle
<1> QED BY <1>3, <1>4 DEF IInv, LockForCycle, TypeOK, HeapExact, StripPrefix,
       StripInRange, RingFits, buffer, HeapBytes, RunningBytes

(* Requeue takes the mutex with the batch to admit (lines 367 to 387).        *)
LEMMA LockForRequeueIInv ==
  ASSUME IInv, LockForRequeue PROVE IInv'
BY DEF IInv, LockForRequeue, TypeOK, HeapExact, StripPrefix, StripInRange, RingFits,
       buffer, HeapBytes, RunningBytes

(* The passes of makeRoom. *)
LEMMA StripOldestHopsIInv ==
  ASSUME IInv, StripOldestHops PROVE IInv'
<1>1. PICK k \in Carrying :
        /\ \A j \in Carrying : k <= j
        /\ ring' = [ring EXCEPT ![k].hops = 0]
        /\ heap' = heap - ring[k].hops
        /\ stripIdx' = k
  BY DEF StripOldestHops
<1>2. /\ ring \in Seq(Payload) /\ stripIdx \in Nat /\ heap \in Int /\ stripped \in Nat
      /\ k \in 1..Len(ring) /\ ring[k] \in Payload
  BY DEF IInv, TypeOK, Carrying
<1>3. ring' = [ring EXCEPT ![k] = Bare(ring[k])]
  BY <1>1 DEF Bare
<1>4. /\ ring' \in Seq(Payload) /\ Len(ring') = Len(ring)
      /\ ring'[k] = Bare(ring[k])
      /\ \A i \in 1..Len(ring) : i # k => ring'[i] = ring[i]
  BY <1>2, <1>3, BareFacts
<1>5. ring[k].hops \in Nat
  BY <1>2, PayloadBytesNat
<1>6. heap' = HeapBytes(ring')
  <2>1. HeapBytes(ring') = HeapBytes(ring) - ring[k].hops
    BY <1>2, <1>4, HeapBytesStrip
  <2> QED BY <1>1, <2>1 DEF IInv, HeapExact
<1>7. ASSUME NEW i \in 1..Len(ring'), i <= stripIdx' PROVE ring'[i].hops = 0
  <2>1. CASE i = k
    BY <2>1, <1>2, <1>4, BareFacts
  <2>2. CASE i # k
    <3>1. i \in 1..Len(ring) /\ i < k
      BY <1>1, <1>2, <1>4, <1>7, <2>2
    <3>2. i \notin Carrying
      BY <1>1, <1>2, <3>1 DEF Carrying
    <3>3. ring[i].hops \in Nat
      BY <1>2, <3>1, PayloadBytesNat
    <3>4. ring[i].hops = 0
      BY <1>2, <3>1, <3>2, <3>3 DEF Carrying, IInv, StripPrefix
    <3> QED BY <2>2, <3>1, <3>4, <1>4
  <2> QED BY <2>1, <2>2
<1>8. HeapExact'
  BY <1>6 DEF HeapExact, HeapBytes, RunningBytes
<1>9. StripPrefix'
  BY <1>7 DEF StripPrefix
<1>10. StripInRange' /\ RingFits'
  BY <1>1, <1>2, <1>4 DEF StripInRange, RingFits, IInv, StripOldestHops
<1>11. TypeOK'
  <2>1. heap' \in Int /\ stripIdx' \in Nat /\ stripped' \in Nat
    BY <1>1, <1>2, <1>5 DEF StripOldestHops
  <2> QED BY <1>4, <2>1 DEF TypeOK, IInv, StripOldestHops
<1> QED BY <1>8, <1>9, <1>10, <1>11 DEF IInv, StripOldestHops

(* When the walk finds nothing, nothing live has hop rows. *)
LEMMA NothingLeftToStrip ==
  ASSUME IInv, Carrying = {}
  PROVE  \A i \in 1..Len(ring) : ring[i].hops = 0
<1> SUFFICES ASSUME NEW i \in 1..Len(ring) PROVE ring[i].hops = 0
  OBVIOUS
<1>1. ring[i] \in Payload /\ stripIdx \in Nat
  BY DEF IInv, TypeOK
<1>2. ring[i].hops \in Nat
  BY <1>1, PayloadBytesNat
<1>3. CASE i <= stripIdx
  BY <1>3 DEF IInv, StripPrefix
<1>4. CASE ~(i <= stripIdx)
  BY <1>1, <1>2, <1>4 DEF Carrying
<1> QED BY <1>3, <1>4

(* Dropping the head keeps the invariant: the index moves with the entries    *)
(* (dropOldest, lines 170 to 180).                                            *)
LEMMA DropOldestIInv ==
  ASSUME IInv, DropOldest PROVE IInv'
<1> DEFINE first == <<Head(ring)>>
           rest == Tail(ring)
<1>1. /\ ring \in Seq(Payload) /\ ring # <<>> /\ Len(ring) \in Nat /\ Len(ring) > 0
      /\ stripIdx \in Nat /\ heap \in Int /\ mode = "cycle"
      /\ stripIdx <= Len(ring)
  BY DEF IInv, TypeOK, DropOldest, MakingRoom, StripInRange
<1>2. /\ first \in Seq(Payload) /\ rest \in Seq(Payload) /\ first \o rest = ring
      /\ Head(ring) \in Payload /\ Len(rest) = Len(ring) - 1
      /\ \A i \in 1..Len(rest) : rest[i] = ring[i + 1]
  BY <1>1
<1>3. ring' = rest /\ heap' = heap - PayloadHeapBytes(Head(ring))
  BY DEF DropOldest
<1>4. heap' = HeapBytes(ring')
  <2>1. HeapBytes(ring) = HeapBytes(first) + HeapBytes(rest)
    <3> HIDE DEF first, rest
    <3> QED BY <1>2, HeapBytesConcat
  <2>2. HeapBytes(first) = PayloadHeapBytes(Head(ring))
    BY <1>2, HeapBytesOne
  <2>3. HeapBytes(rest) \in Nat /\ PayloadHeapBytes(Head(ring)) \in Nat
    BY <1>2, HeapBytesNat, PayloadBytesNat
  <2>4. heap = HeapBytes(ring)
    BY DEF IInv, HeapExact
  <2> HIDE DEF first, rest
  <2> QED BY <1>3, <2>1, <2>2, <2>3, <2>4
<1>5. \A i \in 1..Len(ring') : ring'[i].hops = 0
  BY <1>1, <1>2, <1>3, NothingLeftToStrip DEF DropOldest
<1>6. stripIdx' = Len(ring) - 1 /\ stripIdx' = Len(ring') /\ stripIdx' \in Nat
  <2> HIDE DEF rest
  <2>1. WalkedPast = Len(ring)
    BY <1>1 DEF WalkedPast
  <2>2. stripIdx' = Len(ring) - 1
    BY <1>1, <2>1 DEF DropOldest, IndexAfterDropOldest
  <2> QED BY <1>1, <1>2, <1>3, <2>2
<1>7. HeapExact'
  BY <1>4 DEF HeapExact, HeapBytes, RunningBytes
<1>8. StripPrefix' /\ StripInRange'
  BY <1>5, <1>6 DEF StripPrefix, StripInRange
<1>9. RingFits'
  BY <1>1, <1>2, <1>3 DEF RingFits, IInv, TypeOK, DropOldest
<1>10. TypeOK'
  <2>1. heap' \in Int
    BY <1>1, <1>2, <1>3, PayloadBytesNat
  <2> QED BY <1>2, <1>3, <1>6, <2>1 DEF TypeOK, IInv, DropOldest
<1> QED BY <1>7, <1>8, <1>9, <1>10 DEF IInv, DropOldest

(* Dropping the youngest entry keeps the invariant (dropNewest, lines 404 to  *)
(* 417).                                                                      *)
LEMMA DropNewestIInv ==
  ASSUME IInv, DropNewest PROVE IInv'
<1> DEFINE n == Len(ring)
           last == <<ring[n]>>
           rest == SubSeq(ring, 1, n - 1)
<1>1. /\ ring \in Seq(Payload) /\ ring # <<>> /\ n \in Nat /\ n > 0
      /\ stripIdx \in Nat /\ heap \in Int /\ mode = "requeue"
  BY DEF IInv, TypeOK, DropNewest, MakingRoom
<1>2. /\ last \in Seq(Payload) /\ rest \in Seq(Payload) /\ rest \o last = ring
      /\ ring[n] \in Payload /\ Len(rest) = n - 1
      /\ \A i \in 1..Len(rest) : rest[i] = ring[i]
  BY <1>1
<1>3. ring' = rest /\ heap' = heap - PayloadHeapBytes(ring[n])
  BY DEF DropNewest
<1>4. heap' = HeapBytes(ring')
  <2>1. HeapBytes(ring) = HeapBytes(rest) + HeapBytes(last)
    <3> HIDE DEF last, rest
    <3> QED BY <1>2, HeapBytesConcat
  <2>2. HeapBytes(last) = PayloadHeapBytes(ring[n])
    BY <1>2, HeapBytesOne
  <2>3. HeapBytes(rest) \in Nat /\ PayloadHeapBytes(ring[n]) \in Nat
    BY <1>2, HeapBytesNat, PayloadBytesNat
  <2>4. heap = HeapBytes(ring)
    BY DEF IInv, HeapExact
  <2> HIDE DEF last, rest
  <2> QED BY <1>3, <2>1, <2>2, <2>3, <2>4
<1>5. \A i \in 1..Len(ring') : ring'[i].hops = 0
  <2>1. \A i \in 1..n : ring[i].hops = 0
    BY NothingLeftToStrip DEF DropNewest
  <2> HIDE DEF rest
  <2>2. \A i \in 1..Len(rest) : i \in 1..n
    BY <1>1, <1>2
  <2> QED BY <1>2, <1>3, <2>1, <2>2
<1>6. stripIdx' \in Nat
  BY <1>1 DEF DropNewest, WalkedPast
<1>7. HeapExact'
  BY <1>4 DEF HeapExact, HeapBytes, RunningBytes
<1>8. StripPrefix' /\ StripInRange'
  BY <1>5, <1>6 DEF StripPrefix, StripInRange, DropNewest
<1>9. RingFits'
  <2> HIDE DEF rest
  <2>1. Len(ring') <= capacity
    BY <1>1, <1>2, <1>3 DEF RingFits, IInv, TypeOK
  <2> QED BY <2>1 DEF RingFits, DropNewest
<1>10. TypeOK'
  <2> HIDE DEF rest
  <2>1. PayloadHeapBytes(ring[n]) \in Nat
    BY <1>2, PayloadBytesNat
  <2>2. heap' \in Int
    BY <1>1, <1>3, <2>1
  <2>3. ring' \in Seq(Payload) /\ dropped' \in Nat
    BY <1>2, <1>3 DEF IInv, TypeOK, DropNewest
  <2> QED BY <1>6, <2>2, <2>3 DEF TypeOK, IInv, DropNewest
<1> QED BY <1>7, <1>8, <1>9, <1>10 DEF IInv, DropNewest
(* Leaving the mutex. *)
LEMMA GrownFacts ==
  ASSUME IInv, NEW n \in Nat
  PROVE  /\ EntriesFor(capacity, Len(ring) + n) \in Nat \ {0}
         /\ Len(ring) + n <= EntriesFor(capacity, Len(ring) + n)
         /\ capacity <= EntriesFor(capacity, Len(ring) + n)
<1>1. capacity \in Nat \ {0} /\ Len(ring) + n \in Nat
  BY DEF IInv, TypeOK
<1>2. /\ EntriesFor(capacity, Len(ring) + n) \in Nat \ {0}
      /\ EntriesFor(capacity, Len(ring) + n) >= Len(ring) + n
      /\ EntriesFor(capacity, Len(ring) + n) >= capacity
  <2> DEFINE need == Len(ring) + n
  <2> HIDE DEF need
  <2>1. need \in Nat
    BY <1>1 DEF need
  <2>2. /\ EntriesFor(capacity, need) \in Nat \ {0} /\ EntriesFor(capacity, need) >= need
        /\ EntriesFor(capacity, need) >= capacity
    BY <1>1, <2>1, EntriesForFacts
  <2> QED BY <2>2 DEF need
<1> QED BY <1>1, <1>2

(* Concatenating a sequence of one is appending its element.                  *)
LEMMA AppendOne ==
  ASSUME NEW s \in Seq(Payload), NEW t \in Seq(Payload), Len(t) = 1
  PROVE  /\ t[1] \in Payload
         /\ s \o t = Append(s, t[1])
         /\ Len(s \o t) = Len(s) + 1
         /\ (s \o t)[Len(s) + 1] = t[1]
         /\ \A i \in 1..Len(s) : (s \o t)[i] = s[i]
<1> DEFINE p == t[1]
<1>1. p \in Payload
  <2>1. 1 \in 1..Len(t)
    OBVIOUS
  <2> QED BY <2>1, ElementOfSeq
<1>2. t = <<p>>
  OBVIOUS
<1> HIDE DEF p
<1>3. s \o <<p>> = Append(s, p)
  BY <1>1
<1>4. /\ Len(Append(s, p)) = Len(s) + 1
      /\ Append(s, p)[Len(s) + 1] = p
      /\ \A i \in 1..Len(s) : Append(s, p)[i] = s[i]
  BY <1>1
<1>5. s \o t = Append(s, p)
  BY <1>2, <1>3, Zenon
<1> QED BY <1>1, <1>4, <1>5 DEF p

(* The admitted cycle enters a ring grown for it (lines 259 to 266).          *)
LEMMA FinishCycleIInv ==
  ASSUME IInv, FinishCycle PROVE IInv'
<1>1. /\ ring \in Seq(Payload) /\ incoming \in Seq(Payload) /\ Len(incoming) = 1
      /\ stripIdx \in Nat /\ heap \in Int
  BY DEF IInv, TypeOK, FinishCycle
<1>2. ring' = ring \o incoming /\ heap' = heap + HeapBytes(incoming) /\ stripIdx' = stripIdx
  BY DEF FinishCycle
<1>3. /\ ring' \in Seq(Payload) /\ Len(ring') = Len(ring) + 1
      /\ \A i \in 1..Len(ring) : ring'[i] = ring[i]
  <2>1. ring \o incoming \in Seq(Payload)
    BY <1>1
  <2> QED BY <1>1, <1>2, <2>1, AppendOne
<1>4. capacity' \in Nat \ {0} /\ Len(ring') <= capacity'
  BY <1>3, GrownFacts DEF FinishCycle
<1>5. heap' = HeapBytes(ring') /\ heap' \in Int
  BY <1>1, <1>2, HeapBytesConcat, HeapBytesNat DEF IInv, HeapExact
<1>6. HeapExact'
  BY <1>5 DEF HeapExact, HeapBytes, RunningBytes
<1>7. stripIdx <= Len(ring)
  BY <1>1 DEF IInv, StripInRange, FinishCycle
<1>8. StripPrefix' /\ StripInRange'
  BY <1>1, <1>2, <1>3, <1>7 DEF IInv, StripPrefix, StripInRange
<1>9. RingFits'
  BY <1>4 DEF RingFits
<1>10. TypeOK'
  BY <1>1, <1>2, <1>3, <1>4, <1>5 DEF IInv, TypeOK, FinishCycle
<1> QED BY <1>6, <1>8, <1>9, <1>10 DEF IInv, FinishCycle

(* The batch enters in front of a ring grown for it (lines 388 to 402).       *)
LEMMA FinishRequeueIInv ==
  ASSUME IInv, FinishRequeue PROVE IInv'
<1>1. ring \in Seq(Payload) /\ incoming \in Seq(Payload) /\ heap \in Int
  BY DEF IInv, TypeOK
<1>2. ring' = incoming \o ring /\ heap' = heap + HeapBytes(incoming) /\ stripIdx' = 0
  BY DEF FinishRequeue, PutBack, IndexAfterRequeue
<1>3. ring' \in Seq(Payload) /\ Len(ring') = Len(ring) + Len(incoming) /\ Len(incoming) \in Nat
  BY <1>1, <1>2
<1>4. capacity' \in Nat \ {0} /\ Len(ring') <= capacity'
  BY <1>3, GrownFacts DEF FinishRequeue
<1>5. heap' = HeapBytes(ring') /\ heap' \in Int
  BY <1>1, <1>2, HeapBytesConcat, HeapBytesNat DEF IInv, HeapExact
<1>6. HeapExact'
  BY <1>5 DEF HeapExact, HeapBytes, RunningBytes
<1>7. StripPrefix' /\ StripInRange'
  BY <1>2, <1>3 DEF StripPrefix, StripInRange
<1>8. RingFits'
  BY <1>4 DEF RingFits
<1>9. TypeOK'
  BY <1>1, <1>2, <1>3, <1>4, <1>5 DEF IInv, TypeOK, FinishRequeue
<1> QED BY <1>6, <1>7, <1>8, <1>9 DEF IInv, FinishRequeue

(* What Drain does to the sequence, named once. *)
LEMMA DrainFacts ==
  ASSUME IInv, Drain
  PROVE  \E n \in 1..Len(ring) :
           /\ inflight' = HandedOut(SubSeq(ring, 1, n))
           /\ ring' = SubSeq(ring, n + 1, Len(ring))
           /\ heap' = heap - HeapBytes(SubSeq(ring, 1, n))
           /\ stripIdx' = IF stripIdx < n THEN 0 ELSE stripIdx - n
           /\ capacity' = ShrunkFor(Len(ring) - n)
<1> DEFINE n == IF BatchLimit < Len(ring) THEN BatchLimit ELSE Len(ring)
<1>1. ring \in Seq(Payload) /\ ring # <<>>
  BY DEF IInv, TypeOK, Drain
<1>2. n \in 1..Len(ring)
  BY <1>1, SizesAssumption
<1> QED BY <1>2 DEF Drain, Released, IndexAfterDrain

(* What Drain hands out are payloads.                                         *)
LEMMA HandedOutFacts ==
  ASSUME NEW s \in Seq(Payload)
  PROVE  /\ HandedOut(s) \in Seq(Payload)
         /\ Len(HandedOut(s)) = Len(s)
         /\ \A i \in 1..Len(s) : HandedOut(s)[i] = s[i] \/ HandedOut(s)[i] = Bare(s[i])
<1>1. \A i \in 1..Len(s) : s[i] \in Payload
  OBVIOUS
<1>2. \A i \in 1..Len(s) :
        Withhold(s[i]) \in Payload /\ (Withhold(s[i]) = s[i] \/ Withhold(s[i]) = Bare(s[i]))
  BY <1>1, WithholdFacts, BareFacts
<1> QED BY <1>2 DEF HandedOut

(* Draining keeps the invariant: bytes, index and capacity follow the entries *)
(* (lines 330 to 359).                                                        *)
LEMMA DrainIInv ==
  ASSUME IInv, Drain PROVE IInv'
<1>1. PICK n \in 1..Len(ring) :
           /\ inflight' = HandedOut(SubSeq(ring, 1, n))
           /\ ring' = SubSeq(ring, n + 1, Len(ring))
           /\ heap' = heap - HeapBytes(SubSeq(ring, 1, n))
           /\ stripIdx' = IF stripIdx < n THEN 0 ELSE stripIdx - n
           /\ capacity' = ShrunkFor(Len(ring) - n)
  BY DrainFacts
<1> DEFINE batch == SubSeq(ring, 1, n)
           rest  == SubSeq(ring, n + 1, Len(ring))
<1>2. /\ ring \in Seq(Payload) /\ Len(ring) \in Nat /\ n \in Nat /\ n > 0 /\ n <= Len(ring)
      /\ stripIdx \in Nat /\ heap \in Int /\ capacity \in Nat \ {0} /\ mode = "free"
      /\ Len(ring) <= capacity /\ stripIdx <= Len(ring)
  BY DEF IInv, TypeOK, RingFits, StripInRange, Drain
<1>3. /\ batch \in Seq(Payload) /\ rest \in Seq(Payload) /\ batch \o rest = ring
      /\ Len(rest) = Len(ring) - n
      /\ \A i \in 1..Len(rest) : rest[i] = ring[n + i]
  BY <1>2
<1>4. inflight' = HandedOut(batch) /\ ring' = rest /\ heap' = heap - HeapBytes(batch)
  BY <1>1
<1> HIDE DEF batch, rest
<1>5. heap' = HeapBytes(ring') /\ heap' \in Int
  <2>1. HeapBytes(ring) = HeapBytes(batch) + HeapBytes(rest)
    BY <1>3, HeapBytesConcat
  <2>2. HeapBytes(batch) \in Nat /\ HeapBytes(rest) \in Nat
    BY <1>3, HeapBytesNat
  <2> QED BY <1>4, <2>1, <2>2 DEF IInv, HeapExact
<1>6. capacity' \in Nat \ {0} /\ Len(ring') <= capacity'
  BY <1>1, <1>2, <1>3, <1>4, ShrunkForFacts
<1>7. stripIdx' \in Nat /\ stripIdx' <= Len(ring')
  BY <1>1, <1>2, <1>3, <1>4
<1>8. ASSUME NEW i \in 1..Len(ring'), i <= stripIdx' PROVE ring'[i].hops = 0
  <2>1. n + i \in 1..Len(ring) /\ n + i <= stripIdx
    BY <1>1, <1>2, <1>3, <1>4, <1>8
  <2>2. ring[n + i].hops = 0
    BY <2>1 DEF IInv, StripPrefix
  <2> QED BY <2>2, <1>3, <1>4
<1>9. HeapExact'
  BY <1>5 DEF HeapExact, HeapBytes, RunningBytes
<1>10. StripPrefix' /\ StripInRange'
  BY <1>7, <1>8, <1>3, <1>4 DEF StripPrefix, StripInRange
<1>11. RingFits'
  BY <1>6 DEF RingFits
<1>12. inflight' \in Seq(Payload)
  BY <1>3, <1>4, HandedOutFacts
<1>13. TypeOK'
  BY <1>2, <1>3, <1>4, <1>5, <1>6, <1>7, <1>12 DEF IInv, TypeOK, Drain
<1> QED BY <1>9, <1>10, <1>11, <1>13, <1>2 DEF IInv, Drain

(* A step that changes nothing keeps the invariant.                           *)
LEMMA StutterIInv ==
  ASSUME IInv, UNCHANGED vars PROVE IInv'
BY DEF IInv, vars, TypeOK, HeapExact, StripPrefix, StripInRange, RingFits,
       HeapBytes, RunningBytes

(* Every step keeps the inductive invariant. *)
LEMMA NextIInv == IInv /\ [Next]_vars => IInv'
<1> SUFFICES ASSUME IInv, [Next]_vars PROVE IInv'
  OBVIOUS
<1>1. ASSUME NEW ok \in BOOLEAN, SetHopMarkers(ok) PROVE IInv'
  BY <1>1, SetHopMarkersIInv
<1>2. ASSUME NEW t \in Targets, Measure(t) PROVE IInv'
  BY <1>2, MeasureIInv
<1>3. ASSUME NEW t \in Targets, LockForCycle(t) PROVE IInv'
  BY <1>3, LockForCycleIInv
<1>4. CASE LockForRequeue
  BY <1>4, LockForRequeueIInv
<1>5. CASE UnderLock
  BY <1>5, StripOldestHopsIInv, DropOldestIInv, DropNewestIInv, FinishCycleIInv,
     FinishRequeueIInv DEF UnderLock
<1>6. CASE Drain
  BY <1>6, DrainIInv
<1>7. CASE SettleBatch
  BY <1>7, SettleBatchIInv
<1>8. CASE UNCHANGED vars
  BY <1>8, StutterIInv
<1> QED BY <1>1, <1>2, <1>3, <1>4, <1>5, <1>6, <1>7, <1>8 DEF Next

(* The inductive invariant holds in every reachable state: types, the exact   *)
(* byte account, the strip index and the fit of the ring (pushsink.go lines   *)
(* 42 to 87).                                                                 *)
THEOREM InductiveInvariant == Spec => []IInv
<1>1. Init => IInv
  BY InitIInv
<1>2. IInv /\ [Next]_vars => IInv'
  BY NextIInv
<1> QED BY <1>1, <1>2, PTL DEF Spec

(* The variables of the push buffer keep their types (pushsink.go, PushSink). *)
THEOREM TypeCorrect == Spec => []TypeOK
<1>1. IInv => TypeOK
  BY DEF IInv
<1> QED BY <1>1, InductiveInvariant, PTL

(* The byte account is exact in every reachable state, for every budget,      *)
(* every cycle size and every sequence of admissions, sheds, drains and       *)
(* requeues (pushsink.go lines 161 to 413).                                   *)
THEOREM HeapIsExact == Spec => []HeapExact
<1>1. IInv => HeapExact
  BY DEF IInv
<1> QED BY <1>1, InductiveInvariant, PTL

(* The strip index never stands above a live entry that still has hop rows    *)
(* (the invariant the comment at lines 66 to 72 calls load-bearing).          *)
THEOREM StripIndexIsRight == Spec => [](StripPrefix /\ StripInRange)
<1>1. IInv => StripPrefix /\ StripInRange
  BY DEF IInv
<1> QED BY <1>1, InductiveInvariant, PTL

(* The backing array always holds the live entries (at, entriesFor, growFor,  *)
(* shrinkIfIdle).                                                             *)
THEOREM RingAlwaysFits == Spec => []RingFits
<1>1. IInv => RingFits
  BY DEF IInv
<1> QED BY <1>1, InductiveInvariant, PTL
-----------------------------------------------------------------------------
(* Slots and cycles.                                                          *)
Kept == capacity >= InitialEntries /\ EmptyGivesBack /\ NothingUnaccounted

(* What stays of an array after a drain is given back, what a cycle adds is   *)
(* counted where it goes: one step keeps both.                                *)
LEMMA KeptStep == IInv /\ Kept /\ [Next]_vars => Kept'
<1> SUFFICES ASSUME IInv, Kept, [Next]_vars PROVE Kept'
  OBVIOUS
<1>1. /\ ring \in Seq(Payload) /\ incoming \in Seq(Payload) /\ inflight \in Seq(Payload)
      /\ Len(ring) \in Nat /\ Len(incoming) \in Nat /\ Len(inflight) \in Nat
      /\ cycles \in Nat /\ settled \in Nat /\ dropped \in Nat /\ capacity \in Nat \ {0}
      /\ InitialEntries \in Nat \ {0}
      /\ mode = "free" <=> incoming = <<>>
  BY SizesAssumption DEF IInv, TypeOK
<1>2. /\ capacity >= InitialEntries
      /\ ring = <<>> /\ mode = "free" => capacity = InitialEntries
      /\ cycles = settled + dropped + Len(ring) + Len(incoming) + Len(inflight)
  BY DEF Kept, EmptyGivesBack, NothingUnaccounted
<1>3. ASSUME NEW ok \in BOOLEAN, SetHopMarkers(ok) PROVE Kept'
  BY <1>2, <1>3 DEF SetHopMarkers, buffer, Kept, EmptyGivesBack, NothingUnaccounted
<1>4. ASSUME NEW t \in Targets, Measure(t) PROVE Kept'
  BY <1>2, <1>4 DEF Measure, buffer, Kept, EmptyGivesBack, NothingUnaccounted
<1>5. ASSUME NEW t \in Targets, LockForCycle(t) PROVE Kept'
  <2>1. Len(incoming') = 1 /\ Len(incoming) = 0
    BY <1>1, <1>5 DEF LockForCycle
  <2>2. mode' # "free" /\ capacity' = capacity
    BY <1>5 DEF LockForCycle, buffer
  <2>3. cycles' = settled' + dropped' + Len(ring') + Len(incoming') + Len(inflight')
    BY <1>1, <1>2, <1>5, <2>1 DEF LockForCycle, buffer
  <2> QED BY <1>2, <2>2, <2>3 DEF Kept, EmptyGivesBack, NothingUnaccounted
<1>6. CASE LockForRequeue
  <2>1. Len(incoming) = 0 /\ Len(inflight') = 0
    BY <1>1, <1>6 DEF LockForRequeue
  <2>2. mode' # "free" /\ capacity' = capacity
    BY <1>6 DEF LockForRequeue, buffer
  <2>3. cycles' = settled' + dropped' + Len(ring') + Len(incoming') + Len(inflight')
    BY <1>1, <1>2, <1>6, <2>1 DEF LockForRequeue, buffer
  <2> QED BY <1>2, <2>2, <2>3 DEF Kept, EmptyGivesBack, NothingUnaccounted
<1>7. CASE StripOldestHops
  <2>1. Len(ring') = Len(ring)
    BY <1>1, <1>7 DEF StripOldestHops
  <2>2. mode' # "free"
    BY <1>7 DEF StripOldestHops, MakingRoom
  <2> QED BY <1>2, <1>7, <2>1, <2>2 DEF StripOldestHops, Kept, EmptyGivesBack, NothingUnaccounted
<1>8. CASE DropOldest
  <2>0. Len(ring) > 0
    BY <1>1, <1>8 DEF DropOldest, MakingRoom
  <2>1. Len(ring') = Len(ring) - 1 /\ dropped' = dropped + 1
    BY <1>1, <1>8, <2>0 DEF DropOldest
  <2>2. mode' # "free"
    BY <1>8 DEF DropOldest, MakingRoom
  <2>3. /\ cycles' = cycles /\ settled' = settled /\ incoming' = incoming
        /\ inflight' = inflight /\ capacity' = capacity
    BY <1>8 DEF DropOldest
  <2>4. cycles' = settled' + dropped' + Len(ring') + Len(incoming') + Len(inflight')
    BY <1>1, <1>2, <2>1, <2>3
  <2> QED BY <1>2, <2>2, <2>3, <2>4 DEF Kept, EmptyGivesBack, NothingUnaccounted
<1>9. CASE DropNewest
  <2>0. Len(ring) > 0
    BY <1>1, <1>9 DEF DropNewest, MakingRoom
  <2>1. Len(ring') = Len(ring) - 1 /\ dropped' = dropped + 1
    <3>1. Len(SubSeq(ring, 1, Len(ring) - 1)) = Len(ring) - 1
      <4> DEFINE n == Len(ring) - 1
      <4>1. n \in Nat /\ n <= Len(ring) /\ 1 <= n + 1
        BY <1>1, <2>0
      <4> HIDE DEF n
      <4>2. Len(SubSeq(ring, 1, n)) = n
        BY <1>1, <4>1
      <4> QED BY <4>2 DEF n
    <3>2. ring' = SubSeq(ring, 1, Len(ring) - 1) /\ dropped' = dropped + 1
      BY <1>9 DEF DropNewest
    <3> QED BY <3>1, <3>2
  <2>2. mode' # "free"
    BY <1>9 DEF DropNewest, MakingRoom
  <2>3. /\ cycles' = cycles /\ settled' = settled /\ incoming' = incoming
        /\ inflight' = inflight /\ capacity' = capacity
    BY <1>9 DEF DropNewest
  <2>4. cycles' = settled' + dropped' + Len(ring') + Len(incoming') + Len(inflight')
    BY <1>1, <1>2, <2>1, <2>3
  <2> QED BY <1>2, <2>2, <2>3, <2>4 DEF Kept, EmptyGivesBack, NothingUnaccounted
<1>10. CASE FinishCycle \/ FinishRequeue
  <2>1. incoming # <<>>
    BY <1>1, <1>10 DEF FinishCycle, FinishRequeue
  <2>2. Len(ring') = Len(ring) + Len(incoming) /\ Len(incoming') = 0
    BY <1>1, <1>10 DEF FinishCycle, FinishRequeue, PutBack
  <2>3. ring' # <<>>
    BY <1>1, <2>1, <2>2
  <2>4. capacity' >= InitialEntries
    <3>1. capacity' = EntriesFor(capacity, Len(ring) + Len(incoming))
      BY <1>10 DEF IInv, FinishCycle, FinishRequeue
    <3>2. capacity' \in Nat /\ capacity <= capacity'
      BY <1>1, <3>1, GrownFacts
    <3> QED BY <1>1, <1>2, <3>2
  <2>5. settled' = settled /\ dropped' = dropped /\ inflight' = inflight /\ cycles' = cycles
    BY <1>10 DEF FinishCycle, FinishRequeue
  <2> QED BY <1>1, <1>2, <2>2, <2>3, <2>4, <2>5 DEF Kept, EmptyGivesBack, NothingUnaccounted
<1>11. CASE Drain
  <2>1. PICK n \in 1..Len(ring) :
           /\ inflight' = HandedOut(SubSeq(ring, 1, n))
           /\ ring' = SubSeq(ring, n + 1, Len(ring))
           /\ capacity' = ShrunkFor(Len(ring) - n)
    BY <1>11, DrainFacts
  <2>2. SubSeq(ring, 1, n) \in Seq(Payload) /\ Len(SubSeq(ring, 1, n)) = n
    BY <1>1
  <2>3. Len(inflight') = n /\ Len(ring') = Len(ring) - n /\ Len(inflight) = 0
    <3>1. Len(HandedOut(SubSeq(ring, 1, n))) = Len(SubSeq(ring, 1, n))
      BY <2>2, HandedOutFacts
    <3>2. Len(inflight') = n
      BY <2>1, <2>2, <3>1
    <3>3. Len(SubSeq(ring, n + 1, Len(ring))) = Len(ring) - n
      BY <1>1
    <3>4. Len(inflight) = 0
      BY <1>11 DEF Drain
    <3> QED BY <2>1, <3>2, <3>3, <3>4
  <2>4. Len(ring) - n \in Nat /\ Len(ring) - n <= capacity
    BY <1>1 DEF IInv, RingFits
  <2>5. capacity' >= InitialEntries /\ (Len(ring) - n = 0 => capacity' = InitialEntries)
    <3> DEFINE live == Len(ring) - n
    <3> HIDE DEF live
    <3>1. live \in Nat /\ live <= capacity /\ capacity' = ShrunkFor(live)
      BY <2>1, <2>4 DEF live
    <3>2. capacity' >= InitialEntries /\ (live = 0 => capacity' = InitialEntries)
      BY <1>1, <1>2, <3>1, ShrunkForFacts
    <3> QED BY <3>2 DEF live
  <2>6. ring' = <<>> => Len(ring) - n = 0
    BY <2>3
  <2>7. cycles' = settled' + dropped' + Len(ring') + Len(incoming') + Len(inflight')
    <3>1. /\ cycles' = cycles /\ settled' = settled /\ dropped' = dropped
          /\ incoming' = incoming
      BY <1>11 DEF Drain
    <3> QED BY <1>1, <1>2, <2>3, <3>1
  <2> QED BY <2>5, <2>6, <2>7 DEF Kept, EmptyGivesBack, NothingUnaccounted
<1>12. CASE SettleBatch
  <2>1. Len(inflight') = 0 /\ settled' = settled + Len(inflight)
    BY <1>12 DEF SettleBatch
  <2> QED BY <1>1, <1>2, <1>12, <2>1 DEF SettleBatch, buffer, Kept, EmptyGivesBack, NothingUnaccounted
<1>13. CASE UNCHANGED vars
  BY <1>2, <1>13 DEF vars, Kept, EmptyGivesBack, NothingUnaccounted
<1> QED BY <1>3, <1>4, <1>5, <1>6, <1>7, <1>8, <1>9, <1>10, <1>11, <1>12, <1>13 DEF Next, UnderLock

(* Types, the byte account, the strip index, the array and the count of       *)
(* cycles hold together in every reachable state: no measurement vanishes     *)
(* without being counted, and an empty buffer has given its slots back        *)
(* (pushsink.go lines 152 to 413).                                            *)
THEOREM BufferIsSound == Spec => []Inv
<1>1. Init => Kept
  BY SizesAssumption DEF Init, Kept, EmptyGivesBack, NothingUnaccounted
<1>2. IInv /\ Kept /\ [Next]_vars => Kept'
  BY KeptStep
<1>3. IInv /\ Kept => Inv
  BY DEF IInv, Kept, Inv
<1> QED BY <1>1, <1>2, <1>3, InductiveInvariant, PTL DEF Spec

-----------------------------------------------------------------------------
(* Budget.                                                                    *)

(* One step that releases the mutex leaves the sink inside its budget or      *)
(* holding only what it admitted (makeRoom, lines 182 to 200).                *)
LEMMA BudgetStep ==
  ASSUME IInv, [Next]_vars, mode # "free", mode' = "free"
  PROVE  Total' <= Budget \/ ring' = incoming
<1>1. FinishCycle \/ FinishRequeue
  BY DEF Next, vars, SetHopMarkers, Measure, LockForCycle, LockForRequeue, UnderLock,
         StripOldestHops, DropOldest, DropNewest, Drain, SettleBatch
<1>2. /\ ring \in Seq(Payload) /\ incoming \in Seq(Payload)
      /\ FinishCycle => Len(incoming) = 1
      /\ ring = <<>> \/ Fits
  BY <1>1 DEF IInv, TypeOK, FinishCycle, FinishRequeue, RoomMade, MakingRoom
<1>3. capacity' = EntriesFor(capacity, Len(ring) + Len(incoming))
  BY <1>1, <1>2 DEF FinishCycle, FinishRequeue
<1>4. heap' = heap + HeapBytes(incoming)
  BY <1>1 DEF FinishCycle, FinishRequeue
<1>5. CASE ring = <<>>
  BY <1>1, <1>2, <1>5 DEF FinishCycle, FinishRequeue, PutBack
<1>6. CASE Fits
  <2> DEFINE entries == EntriesFor(capacity, Len(ring) + Len(incoming))
             more == HeapBytes(incoming)
  <2>1. entries * StructBytes + heap + more <= Budget
    BY <1>6 DEF Fits
  <2>2. more \in Nat /\ heap \in Int /\ StructBytes \in Nat /\ entries \in Nat
    <3>1. Len(incoming) \in Nat
      BY <1>2
    <3> QED BY <1>2, <3>1, HeapBytesNat, GrownFacts, SizesAssumption DEF IInv, TypeOK
  <2>3. Total' = entries * StructBytes + (heap + more)
    BY <1>3, <1>4 DEF Total
  <2> HIDE DEF entries, more
  <2>4. entries * StructBytes \in Int
    BY <2>2
  <2>5. entries * StructBytes + (heap + more) = entries * StructBytes + heap + more
    BY <2>2, <2>4
  <2> QED BY <2>1, <2>3, <2>5
<1> QED BY <1>2, <1>5, <1>6

(* An admission ends inside the byte budget, the ring array included, unless  *)
(* everything else was shed first (fits and makeRoom, pushsink.go lines 144   *)
(* to 200).                                                                   *)
THEOREM BudgetIsKept == Spec => BudgetKept
<1>1. IInv /\ [Next]_vars =>
        [mode # "free" /\ mode' = "free" => Total' <= Budget \/ ring' = incoming]_vars
  BY BudgetStep
<1> QED BY <1>1, InductiveInvariant, PTL DEF Spec, BudgetKept

-----------------------------------------------------------------------------
(* Hop rows of health targets.                                                *)

(* A step that hands out a batch without markers has cleared those rows       *)
(* (Drain, lines 320 to 329).                                                 *)
LEMMA WithheldStep ==
  ASSUME IInv, [Next]_vars, inflight = <<>>, inflight' # <<>>, ~hopMarkers
  PROVE  \A i \in 1..Len(inflight') :
           inflight'[i].target \in HealthTargets => inflight'[i].hops = 0
<1> DEFINE n == IF BatchLimit < Len(ring) THEN BatchLimit ELSE Len(ring)
           batch == SubSeq(ring, 1, n)
<1>1. inflight' = HandedOut(batch)
  BY DEF Next, vars, SetHopMarkers, Measure, LockForCycle, LockForRequeue, UnderLock,
         StripOldestHops, DropOldest, DropNewest, FinishCycle, FinishRequeue, Drain, SettleBatch
<1>2. batch \in Seq(Payload)
  <2>1. ring \in Seq(Payload)
    BY DEF IInv, TypeOK
  <2>2. n \in Nat /\ n <= Len(ring)
    BY <2>1, SizesAssumption
  <2> HIDE DEF n
  <2> QED BY <2>1, <2>2
<1> HIDE DEF batch
<1>3. Len(inflight') = Len(batch) /\ \A i \in 1..Len(batch) : inflight'[i] = Withhold(batch[i])
  BY <1>1, <1>2 DEF HandedOut
<1>4. ASSUME NEW i \in 1..Len(batch), inflight'[i].target \in HealthTargets
      PROVE  inflight'[i].hops = 0
  <2>1. batch[i] \in Payload
    BY <1>2
  <2>2. inflight'[i] = IF batch[i].target \in HealthTargets THEN [batch[i] EXCEPT !.hops = 0]
                       ELSE batch[i]
    BY <1>3 DEF Withhold
  <2> QED BY <1>4, <2>1, <2>2 DEF Payload
<1> QED BY <1>3, <1>4

(* Whatever the master understood when a cycle was buffered, a batch drained  *)
(* while it does not understand markers carries no hop rows of a health       *)
(* target (Drain, lines 320 to 329).                                          *)
THEOREM HealthHopsAreWithheld == Spec => HealthHopsWithheld
<1>1. IInv /\ [Next]_vars =>
        [inflight = <<>> /\ inflight' # <<>> /\ ~hopMarkers =>
           \A i \in 1..Len(inflight') :
              inflight'[i].target \in HealthTargets => inflight'[i].hops = 0]_vars
  BY WithheldStep
<1> QED BY <1>1, InductiveInvariant, PTL DEF Spec, HealthHopsWithheld

-----------------------------------------------------------------------------
(* Refinement: every pass of the code is a step of the shed-then-drop queue,  *)
(* or none.                                                                   *)
Away == inflight \o (IF mode = "requeue" THEN incoming ELSE <<>>)

(* What is outside the ring is the batch in flight or the one being put back. *)
LEMMA AwayFacts ==
  ASSUME IInv
  PROVE  /\ mode = "requeue" => Away = incoming
         /\ mode # "requeue" => Away = inflight
<1>1. inflight \in Seq(Payload) /\ incoming \in Seq(Payload)
      /\ (mode = "requeue" => inflight = <<>>)
  BY DEF IInv, TypeOK
<1> QED BY <1>1 DEF Away

(* The new sink is the empty queue.                                           *)
LEMMA InitRefines == Init => Promise!Init
BY DEF Init, Promise!Init

(* Each pass is a step of the queue or leaves it alone.                       *)
LEMMA NextRefines ==
  ASSUME IInv, [Next]_vars
  PROVE  [Promise!Next]_(Promise!vars)
<1>0. IInv'
  BY NextIInv
<1>1. /\ mode = "requeue" => Away = incoming
      /\ mode # "requeue" => Away = inflight
      /\ mode' = "requeue" => Away' = incoming'
      /\ mode' # "requeue" => Away' = inflight'
  <2>1. (mode = "requeue" => Away = incoming) /\ (mode # "requeue" => Away = inflight)
    BY AwayFacts
  <2>2. /\ inflight' \in Seq(Payload) /\ incoming' \in Seq(Payload)
        /\ (mode' = "requeue" => inflight' = <<>>)
    BY <1>0 DEF IInv, TypeOK
  <2>3. (mode' = "requeue" => Away' = incoming') /\ (mode' # "requeue" => Away' = inflight')
    BY <2>2 DEF Away
  <2> QED BY <2>1, <2>3
<1>2. ring \in Seq(Payload) /\ inflight \in Seq(Payload) /\ incoming \in Seq(Payload)
      /\ ring' \in Seq(Payload) /\ inflight' \in Seq(Payload)
  BY <1>0 DEF IInv, TypeOK
<1>3. SUFFICES ASSUME ring' # ring \/ Away' # Away PROVE Promise!Next
  BY DEF Promise!vars, Away
<1>4. ASSUME NEW ok \in BOOLEAN, SetHopMarkers(ok) PROVE FALSE
  BY <1>3, <1>4 DEF SetHopMarkers, buffer, Away
<1>5. ASSUME NEW t \in Targets, Measure(t) PROVE FALSE
  BY <1>3, <1>5 DEF Measure, buffer, Away
<1>6. ASSUME NEW t \in Targets, LockForCycle(t) PROVE FALSE
  BY <1>1, <1>3, <1>6 DEF LockForCycle, buffer
<1>7. CASE LockForRequeue
  BY <1>1, <1>3, <1>7 DEF LockForRequeue, buffer
<1>8. CASE StripOldestHops
  <2>1. PICK k \in Carrying : (\A j \in Carrying : k <= j) /\ ring' = [ring EXCEPT ![k].hops = 0]
    BY <1>8 DEF StripOldestHops
  <2>2. k \in 1..Len(ring) /\ ring[k].hops > 0 /\ stripIdx \in Nat
    BY DEF Carrying, IInv, TypeOK
  <2>3. ASSUME NEW j \in 1..(k - 1) PROVE ring[j].hops = 0
    <3>1. j \in 1..Len(ring) /\ j < k /\ ring[j] \in Payload
      BY <1>2, <2>2
    <3>2. ring[j].hops \in Nat
      BY <3>1, PayloadBytesNat
    <3>3. j \notin Carrying
      BY <2>1, <2>2, <3>1
    <3> QED BY <2>2, <3>1, <3>2, <3>3 DEF Carrying, IInv, StripPrefix
  <2>4. Away' = Away
    BY <1>8 DEF StripOldestHops, Away
  <2>5. Promise!Strip
    BY <2>1, <2>2, <2>3, <2>4 DEF Promise!Strip, Away
  <2> QED BY <2>5 DEF Promise!Next
<1>9. CASE DropOldest
  <2>1. \A i \in 1..Len(ring) : ring[i].hops = 0
    BY <1>9, NothingLeftToStrip DEF DropOldest
  <2>2. Away' = Away /\ ring # <<>> /\ ring' = Tail(ring)
    BY <1>9 DEF DropOldest, MakingRoom, Away
  <2>3. Promise!Lose
    BY <2>1, <2>2 DEF Promise!Lose, Promise!Hopless, Away
  <2> QED BY <2>3 DEF Promise!Next
<1>10. CASE DropNewest
  <2>1. \A i \in 1..Len(ring) : ring[i].hops = 0
    BY <1>10, NothingLeftToStrip DEF DropNewest
  <2>2. Away' = Away /\ ring # <<>> /\ ring' = SubSeq(ring, 1, Len(ring) - 1)
    BY <1>10 DEF DropNewest, MakingRoom, Away
  <2>3. Promise!Lose
    BY <2>1, <2>2 DEF Promise!Lose, Promise!Hopless, Away
  <2> QED BY <2>3 DEF Promise!Next
<1>11. CASE FinishCycle
  <2>1. ring' = ring \o incoming /\ Len(incoming) = 1
    BY <1>11 DEF IInv, FinishCycle
  <2>2. Len(ring') = Len(ring) + 1 /\ ring'[Len(ring')] = incoming[1]
        /\ ring' = Append(ring, incoming[1]) /\ incoming[1] \in Payload
    BY <1>2, <2>1, AppendOne
  <2>3. Away' = Away
    BY <1>11, <1>1 DEF FinishCycle
  <2>4. Promise!Join
    BY <2>1, <2>2, <2>3 DEF Promise!Join, Away
  <2> QED BY <2>4 DEF Promise!Next
<1>12. CASE FinishRequeue
  <2>1. Away = incoming /\ Away' = <<>> /\ incoming # <<>> /\ ring' = incoming \o ring
    <3>1. mode = "requeue" /\ mode' = "free" /\ inflight' = inflight
      BY <1>12 DEF FinishRequeue
    <3>2. inflight = <<>> /\ incoming # <<>>
      BY <3>1 DEF IInv, TypeOK
    <3> QED BY <1>1, <1>12, <3>1, <3>2 DEF FinishRequeue, PutBack
  <2>2. Away # <<>> /\ ring' = Away \o ring
    BY <2>1
  <2>3. Promise!Return
    BY <2>1, <2>2 DEF Promise!Return, Away
  <2> QED BY <2>3 DEF Promise!Next
<1>13. CASE Drain
  <2>1. PICK n \in 1..Len(ring) :
           /\ inflight' = HandedOut(SubSeq(ring, 1, n))
           /\ ring' = SubSeq(ring, n + 1, Len(ring))
    BY <1>13, DrainFacts
  <2> DEFINE batch == SubSeq(ring, 1, n)
  <2>2. batch \in Seq(Payload)
    BY <1>2
  <2>3. Away = <<>> /\ Away' = inflight'
    BY <1>1, <1>13 DEF Drain
  <2>4. Promise!Withheld(inflight', batch)
    <3> HIDE DEF batch
    <3>1. inflight' = HandedOut(batch)
      BY <2>1 DEF batch
    <3> QED BY <2>2, <3>1, HandedOutFacts DEF Promise!Withheld, Bare
  <2>5. Promise!Take
    BY <1>2, <2>1, <2>3, <2>4 DEF Promise!Take, Away
  <2> QED BY <2>5 DEF Promise!Next
<1>14. CASE SettleBatch
  <2>1. inflight # <<>> /\ inflight' = <<>> /\ ring' = ring /\ mode' = mode /\ incoming' = incoming
    BY <1>14 DEF SettleBatch, buffer
  <2>2. mode # "requeue"
    BY <2>1 DEF IInv, TypeOK
  <2>3. Away # <<>> /\ Away' = <<>>
    BY <1>1, <2>1, <2>2
  <2>4. Promise!Settle
    BY <2>1, <2>3 DEF Promise!Settle, Away
  <2> QED BY <2>4 DEF Promise!Next
<1>15. CASE UNCHANGED vars
  BY <1>3, <1>15 DEF vars, Away
<1> QED BY <1>4, <1>5, <1>6, <1>7, <1>8, <1>9, <1>10, <1>11, <1>12, <1>13, <1>14, <1>15
     DEF Next, UnderLock

(* The push buffer implements the shed-then-drop queue: what leaves keeps its *)
(* order, a requeued batch goes back in front, hop rows are shed from the     *)
(* oldest cycle first, and no buffered measurement is lost while a buffered   *)
(* cycle still has hop rows (pushsink.go lines 42 to 49).                     *)
THEOREM ImplementsPromise == Spec => ImplementsShedQueue
<1>1. Init => Promise!Init
  BY InitRefines
<1>2. IInv /\ [Next]_vars => [Promise!Next]_(Promise!vars)
  BY NextRefines
<1> QED BY <1>1, <1>2, InductiveInvariant, PTL DEF Spec, ImplementsShedQueue, Promise!Spec
-----------------------------------------------------------------------------
(* The backing array.  An array with W slots whose oldest entry is in slot h  *)
(* is, for the entries q it holds, one function of W, h and q: Pos numbers    *)
(* the slots from the head on, and a slot beyond the last entry is cleared.   *)
Pos(W, h, s) == IF s >= h THEN s - h ELSE s - h + W

Laid(W, h, q) ==
  [s \in 1..W |-> IF Pos(W, h, s - 1) < Len(q) THEN q[Pos(W, h, s - 1) + 1] ELSE Empty]

(* The modulo of at() wraps once.                                             *)
LEMMA Wraps ==
  ASSUME NEW W \in Nat \ {0}, NEW h \in 0..(W - 1), NEW i \in 0..W
  PROVE  (h + i) % W = IF h + i < W THEN h + i ELSE h + i - W
<1>1. CASE h + i < W
  <2>1. h + i \in 0..(W - 1)
    BY <1>1
  <2> QED BY <1>1, <2>1, ModSmall
<1>2. CASE h + i >= W
  <2>1. h + i \in Int /\ (h + i) - W \in 0..(W - 1)
    BY <1>2
  <2>2. ((h + i) - W) % W = (h + i) % W
    <3> DEFINE a == h + i
    <3> HIDE DEF a
    <3>1. a \in Int
      BY <2>1 DEF a
    <3>2. (a - W) % W = a % W
      BY <3>1, ModShift
    <3> QED BY <3>2 DEF a
  <2>3. ((h + i) - W) % W = (h + i) - W
    BY <2>1, ModSmall
  <2> QED BY <1>2, <2>2, <2>3
<1> QED BY <1>1, <1>2

(* Pos undoes the modulo.                                                     *)
LEMMA PosOfSlot ==
  ASSUME NEW W \in Nat \ {0}, NEW h \in 0..(W - 1)
  PROVE  /\ \A s \in 0..(W - 1) : Pos(W, h, s) \in 0..(W - 1)
         /\ \A i \in 0..(W - 1) : (h + i) % W \in 0..(W - 1)
         /\ \A s, i \in 0..(W - 1) : (h + i) % W = s <=> Pos(W, h, s) = i
<1>1. ASSUME NEW i \in 0..(W - 1)
      PROVE  (h + i) % W = IF h + i < W THEN h + i ELSE h + i - W
  <2>1. i \in 0..W
    OBVIOUS
  <2> QED BY <2>1, Wraps
<1> QED BY <1>1 DEF Pos

(* Read through at(), the array is the sequence it was laid for.              *)
LEMMA LaidFacts ==
  ASSUME NEW W \in Nat \ {0}, NEW h \in 0..(W - 1), NEW q \in Seq(Payload), Len(q) <= W
  PROVE  /\ Laid(W, h, q) \in Seq(Payload \cup {Empty})
         /\ Len(Laid(W, h, q)) = W /\ DOMAIN Laid(W, h, q) = 1..W
         /\ \A i \in 1..Len(q) : Laid(W, h, q)[((h + (i - 1)) % W) + 1] = q[i]
         /\ [i \in 1..Len(q) |-> Laid(W, h, q)[((h + (i - 1)) % W) + 1]] = q
<1>1. Len(q) \in Nat /\ DOMAIN q = 1..Len(q) /\ \A i \in 1..Len(q) : q[i] \in Payload
  OBVIOUS
<1>2. Laid(W, h, q) \in [1..W -> Payload \cup {Empty}]
  <2>1. ASSUME NEW s \in 1..W
        PROVE  (IF Pos(W, h, s - 1) < Len(q) THEN q[Pos(W, h, s - 1) + 1] ELSE Empty)
                 \in Payload \cup {Empty}
    <3>1. s - 1 \in 0..(W - 1)
      OBVIOUS
    <3>2. Pos(W, h, s - 1) \in 0..(W - 1)
      BY <3>1, PosOfSlot
    <3> QED BY <1>1, <3>2
  <2> QED BY <2>1 DEF Laid
<1>3. Laid(W, h, q) \in Seq(Payload \cup {Empty}) /\ Len(Laid(W, h, q)) = W
      /\ DOMAIN Laid(W, h, q) = 1..W
  <2> DEFINE b == Laid(W, h, q)
  <2>1. b \in [1..W -> Payload \cup {Empty}] /\ W \in Nat
    BY <1>2
  <2> HIDE DEF b
  <2>2. b \in Seq(Payload \cup {Empty}) /\ Len(b) = W /\ DOMAIN b = 1..W
    BY <2>1
  <2> QED BY <2>2 DEF b
<1>4. ASSUME NEW i \in 1..Len(q)
      PROVE  Laid(W, h, q)[((h + (i - 1)) % W) + 1] = q[i]
  <2> DEFINE s == (h + (i - 1)) % W
  <2>1. i - 1 \in 0..(W - 1) /\ i \in Int
    BY <1>1
  <2>2. s \in 0..(W - 1) /\ Pos(W, h, s) = i - 1
    <3> DEFINE p == i - 1
    <3> HIDE DEF p
    <3>1. p \in 0..(W - 1)
      BY <2>1 DEF p
    <3>2. (h + p) % W \in 0..(W - 1)
      BY <3>1, PosOfSlot
    <3>3. Pos(W, h, (h + p) % W) = p
      BY <3>1, <3>2, PosOfSlot
    <3> QED BY <3>2, <3>3 DEF p
  <2> HIDE DEF s
  <2>3. s + 1 \in 1..W /\ (s + 1) - 1 = s /\ i - 1 < Len(q) /\ (i - 1) + 1 = i
    BY <1>1, <2>1, <2>2
  <2>4. Laid(W, h, q)[s + 1] = IF Pos(W, h, s) < Len(q) THEN q[Pos(W, h, s) + 1] ELSE Empty
    BY <2>3 DEF Laid
  <2> QED BY <2>2, <2>3, <2>4 DEF s
<1>5. [i \in 1..Len(q) |-> Laid(W, h, q)[((h + (i - 1)) % W) + 1]] = q
  BY <1>1, <1>4
<1> QED BY <1>3, <1>4, <1>5

-----------------------------------------------------------------------------
(* One write into the array is one change of the sequence.                    *)

(* The same at one slot and one place.                                        *)
LEMMA SlotOfPos ==
  ASSUME NEW W \in Nat \ {0}, NEW h \in 0..(W - 1), NEW s \in 1..W, NEW k \in 0..(W - 1)
  PROVE  /\ s - 1 \in 0..(W - 1) /\ (h + k) % W \in 0..(W - 1)
         /\ Pos(W, h, s - 1) \in 0..(W - 1)
         /\ (h + k) % W = s - 1 <=> Pos(W, h, s - 1) = k
<1> DEFINE x == s - 1
<1>1. x \in 0..(W - 1)
  OBVIOUS
<1> HIDE DEF x
<1>2. (h + k) % W \in 0..(W - 1)
  BY PosOfSlot, Zenon
<1>3. Pos(W, h, x) \in 0..(W - 1)
  BY <1>1, PosOfSlot, Zenon
<1>4. (h + k) % W = x <=> Pos(W, h, x) = k
  <2>1. \A a, b \in 0..(W - 1) : (h + b) % W = a <=> Pos(W, h, a) = b
    BY PosOfSlot, Zenon
  <2> QED BY <1>1, <2>1, Zenon
<1> QED BY <1>1, <1>2, <1>3, <1>4 DEF x

Write(b, s, p) == [b EXCEPT ![s + 1] = p]

(* An entry rewritten in place (stripOldestHops, lines 154 to 164).           *)
LEMMA LaidRewrite ==
  ASSUME NEW W \in Nat \ {0}, NEW h \in 0..(W - 1), NEW q \in Seq(Payload), Len(q) <= W,
         NEW i \in 1..Len(q), NEW r \in Payload,
         NEW t \in Seq(Payload), Len(t) = Len(q),
         t[i] = r, \A j \in 1..Len(q) : j # i => t[j] = q[j]
  PROVE  Write(Laid(W, h, q), (h + (i - 1)) % W, r) = Laid(W, h, t)
<1> DEFINE k == i - 1
<1>1. Len(q) \in Nat /\ k \in 0..(W - 1) /\ k + 1 = i
  OBVIOUS
<1> HIDE DEF k
<1>2. ASSUME NEW s \in 1..W
      PROVE  [Laid(W, h, q) EXCEPT ![((h + k) % W) + 1] = r][s] = Laid(W, h, t)[s]
  <2> DEFINE p == Pos(W, h, s - 1)
  <2>1. s - 1 \in 0..(W - 1) /\ (h + k) % W \in 0..(W - 1)
        /\ p \in 0..(W - 1) /\ ((h + k) % W = s - 1 <=> p = k)
    BY <1>1, SlotOfPos
  <2>2. Laid(W, h, q)[s] = IF p < Len(q) THEN q[p + 1] ELSE Empty
    BY DEF Laid
  <2>3. Laid(W, h, t)[s] = IF p < Len(q) THEN t[p + 1] ELSE Empty
    BY DEF Laid
  <2>4. [Laid(W, h, q) EXCEPT ![((h + k) % W) + 1] = r][s] =
          IF s = ((h + k) % W) + 1 THEN r ELSE Laid(W, h, q)[s]
    BY DEF Laid
  <2> HIDE DEF p
  <2>5. s = ((h + k) % W) + 1 <=> p + 1 = i
    BY <2>1, <1>1
  <2>6. p < Len(q) => p + 1 \in 1..Len(q)
    BY <2>1, <1>1
  <2>7. p + 1 = i => p < Len(q)
    BY <2>1, <1>1
  <2> QED BY <2>2, <2>3, <2>4, <2>5, <2>6, <2>7
<1>3. [Laid(W, h, q) EXCEPT ![((h + k) % W) + 1] = r] = Laid(W, h, t)
  BY <1>2 DEF Laid
<1> QED BY <1>3 DEF k, Write

(* The oldest entry's slot cleared and head moved on (dropOldest).            *)
LEMMA LaidTail ==
  ASSUME NEW W \in Nat \ {0}, NEW h \in 0..(W - 1), NEW q \in Seq(Payload), Len(q) <= W, q # <<>>
  PROVE  /\ (h + 1) % W \in 0..(W - 1)
         /\ Write(Laid(W, h, q), h, Empty) = Laid(W, (h + 1) % W, Tail(q))
<1> DEFINE g == (h + 1) % W
<1>1. g = (IF h + 1 < W THEN h + 1 ELSE h + 1 - W) /\ g \in 0..(W - 1)
  <2>1. 1 \in 0..W
    OBVIOUS
  <2>2. g = IF h + 1 < W THEN h + 1 ELSE h + 1 - W
    BY <2>1, Wraps
  <2> HIDE DEF g
  <2> QED BY <2>2
<1> HIDE DEF g
<1>2. Len(q) \in Nat /\ Len(q) > 0 /\ Tail(q) \in Seq(Payload) /\ Len(Tail(q)) = Len(q) - 1
      /\ \A j \in 1..(Len(q) - 1) : Tail(q)[j] = q[j + 1]
  OBVIOUS
<1>3. ASSUME NEW s \in 1..W
      PROVE  [Laid(W, h, q) EXCEPT ![h + 1] = Empty][s] = Laid(W, g, Tail(q))[s]
  <2>1. Pos(W, h, s - 1) \in 0..(W - 1) /\ (Pos(W, h, s - 1) = 0 <=> s = h + 1)
    BY DEF Pos
  <2>2. Pos(W, g, s - 1) = IF s = h + 1 THEN W - 1 ELSE Pos(W, h, s - 1) - 1
    BY <1>1 DEF Pos
  <2>3. CASE s = h + 1
    <3>1. Laid(W, g, Tail(q))[s] = Empty
      BY <1>2, <2>2, <2>3 DEF Laid
    <3> QED BY <3>1, <2>3 DEF Laid
  <2>4. CASE s # h + 1
    <3> DEFINE p == Pos(W, h, s - 1)
    <3>1. p \in 0..(W - 1) /\ p # 0 /\ Pos(W, g, s - 1) = p - 1
      BY <2>1, <2>2, <2>4
    <3>2. Laid(W, h, q)[s] = IF p < Len(q) THEN q[p + 1] ELSE Empty
      BY DEF Laid
    <3>3. Laid(W, g, Tail(q))[s] =
            IF Pos(W, g, s - 1) < Len(Tail(q)) THEN Tail(q)[Pos(W, g, s - 1) + 1] ELSE Empty
      BY DEF Laid
    <3>4. [Laid(W, h, q) EXCEPT ![h + 1] = Empty][s] = Laid(W, h, q)[s]
      BY <2>4 DEF Laid
    <3> HIDE DEF p
    <3>5. p < Len(q) => p \in 1..(Len(q) - 1) /\ Tail(q)[p] = q[p + 1]
      BY <1>2, <3>1
    <3>6. p - 1 + 1 = p /\ (p - 1 < Len(q) - 1 <=> p < Len(q))
      BY <1>2, <3>1
    <3> QED BY <1>2, <3>1, <3>2, <3>3, <3>4, <3>5, <3>6
  <2> QED BY <2>3, <2>4
<1>4. [Laid(W, h, q) EXCEPT ![h + 1] = Empty] = Laid(W, g, Tail(q))
  BY <1>3 DEF Laid
<1> QED BY <1>1, <1>4 DEF g, Write

(* The newest entry's slot cleared (dropNewest).                              *)
LEMMA LaidFront ==
  ASSUME NEW W \in Nat \ {0}, NEW h \in 0..(W - 1), NEW q \in Seq(Payload), Len(q) <= W, q # <<>>
  PROVE  Write(Laid(W, h, q), (h + (Len(q) - 1)) % W, Empty)
           = Laid(W, h, SubSeq(q, 1, Len(q) - 1))
<1> DEFINE k == Len(q) - 1
<1>1. Len(q) \in Nat /\ k \in 0..(W - 1) /\ k + 1 = Len(q)
  OBVIOUS
<1> HIDE DEF k
<1>2. /\ SubSeq(q, 1, k) \in Seq(Payload) /\ Len(SubSeq(q, 1, k)) = k
      /\ \A j \in 1..k : SubSeq(q, 1, k)[j] = q[j]
  <2>1. k \in 0..Len(q)
    BY <1>1
  <2> QED BY <2>1, <1>1, SubSeqProperties
<1>3. ASSUME NEW s \in 1..W
      PROVE  [Laid(W, h, q) EXCEPT ![((h + k) % W) + 1] = Empty][s] = Laid(W, h, SubSeq(q, 1, k))[s]
  <2>1. s - 1 \in 0..(W - 1) /\ (h + k) % W \in 0..(W - 1)
    BY <1>1, SlotOfPos
  <2>2. Pos(W, h, s - 1) \in 0..(W - 1) /\ ((h + k) % W = s - 1 <=> Pos(W, h, s - 1) = k)
    BY <1>1, SlotOfPos
  <2>3. ((h + k) % W) + 1 = s <=> Pos(W, h, s - 1) = k
    BY <2>1, <2>2
  <2>4. Laid(W, h, q)[s] = IF Pos(W, h, s - 1) < Len(q) THEN q[Pos(W, h, s - 1) + 1] ELSE Empty
    BY DEF Laid
  <2>5. Laid(W, h, SubSeq(q, 1, k))[s] =
          IF Pos(W, h, s - 1) < k THEN SubSeq(q, 1, k)[Pos(W, h, s - 1) + 1] ELSE Empty
    BY <1>2 DEF Laid
  <2>6. [Laid(W, h, q) EXCEPT ![((h + k) % W) + 1] = Empty][s] =
          IF s = ((h + k) % W) + 1 THEN Empty ELSE Laid(W, h, q)[s]
    BY DEF Laid
  <2> DEFINE p == Pos(W, h, s - 1)
  <2>7. p \in 0..(W - 1) /\ (p < k => p + 1 \in 1..k)
    BY <2>2, <1>1
  <2> HIDE DEF p
  <2>8. p # k => (p < k <=> p < Len(q))
    BY <2>7, <1>1
  <2>9. p = k => ~(p < k)
    BY <1>1
  <2> QED BY <1>2, <2>3, <2>4, <2>5, <2>6, <2>7, <2>8, <2>9 DEF p
<1>4. [Laid(W, h, q) EXCEPT ![((h + k) % W) + 1] = Empty] = Laid(W, h, SubSeq(q, 1, k))
  BY <1>3 DEF Laid
<1> QED BY <1>4 DEF k, Write

(* An entry written behind the newest one (OnCycle, lines 261 to 264).        *)
LEMMA LaidAppend ==
  ASSUME NEW W \in Nat \ {0}, NEW h \in 0..(W - 1), NEW q \in Seq(Payload), Len(q) < W,
         NEW r \in Payload
  PROVE  Write(Laid(W, h, q), (h + Len(q)) % W, r) = Laid(W, h, Append(q, r))
<1> DEFINE k == Len(q)
<1>1. k \in 0..(W - 1)
  OBVIOUS
<1>2. /\ Append(q, r) \in Seq(Payload) /\ Len(Append(q, r)) = k + 1
      /\ Append(q, r)[k + 1] = r /\ \A j \in 1..k : Append(q, r)[j] = q[j]
  OBVIOUS
<1> HIDE DEF k
<1>3. ASSUME NEW s \in 1..W
      PROVE  [Laid(W, h, q) EXCEPT ![((h + k) % W) + 1] = r][s] = Laid(W, h, Append(q, r))[s]
  <2>1. s - 1 \in 0..(W - 1) /\ (h + k) % W \in 0..(W - 1)
    BY <1>1, SlotOfPos
  <2>2. Pos(W, h, s - 1) \in 0..(W - 1) /\ ((h + k) % W = s - 1 <=> Pos(W, h, s - 1) = k)
    BY <1>1, SlotOfPos
  <2>3. ((h + k) % W) + 1 = s <=> Pos(W, h, s - 1) = k
    BY <2>1, <2>2
  <2>4. Laid(W, h, q)[s] = IF Pos(W, h, s - 1) < k THEN q[Pos(W, h, s - 1) + 1] ELSE Empty
    BY DEF Laid, k
  <2>5. Laid(W, h, Append(q, r))[s] =
          IF Pos(W, h, s - 1) < k + 1 THEN Append(q, r)[Pos(W, h, s - 1) + 1] ELSE Empty
    BY <1>2 DEF Laid
  <2>6. [Laid(W, h, q) EXCEPT ![((h + k) % W) + 1] = r][s] =
          IF s = ((h + k) % W) + 1 THEN r ELSE Laid(W, h, q)[s]
    BY DEF Laid
  <2> DEFINE p == Pos(W, h, s - 1)
  <2>7. p \in 0..(W - 1) /\ (p < k => p + 1 \in 1..k)
    BY <2>2, <1>1
  <2> HIDE DEF p
  <2>8. CASE p = k
    BY <1>1, <1>2, <2>3, <2>5, <2>6, <2>8 DEF p
  <2>9. CASE p # k
    <3>1. p < k + 1 <=> p < k
      BY <2>7, <2>9, <1>1
    <3> QED BY <3>1, <1>2, <2>3, <2>4, <2>5, <2>6, <2>7, <2>9 DEF p
  <2> QED BY <2>8, <2>9
<1>4. [Laid(W, h, q) EXCEPT ![((h + k) % W) + 1] = r] = Laid(W, h, Append(q, r))
  BY <1>3 DEF Laid
<1> QED BY <1>4 DEF k, Write

(* A fresh array filled from slot 0 (resize).                                 *)
LEMMA LaidFresh ==
  ASSUME NEW W \in Nat \ {0}, NEW q \in Seq(Payload), Len(q) <= W
  PROVE  [s \in 1..W |-> IF s <= Len(q) THEN q[s] ELSE Empty] = Laid(W, 0, q)
<1>1. ASSUME NEW s \in 1..W
      PROVE  Pos(W, 0, s - 1) = s - 1 /\ (s - 1 < Len(q) <=> s <= Len(q)) /\ s - 1 + 1 = s
  BY DEF Pos
<1> QED BY <1>1 DEF Laid

(* A batch written in front of the oldest entry (Requeue, lines 396 to 403).  *)
PlaceOf(front, k, W) == ((front + k - 1) % W) + 1

Overlaid(b, front, t, W) ==
  [s \in 1..W |-> IF \E k \in 1..Len(t) : PlaceOf(front, k, W) = s
                 THEN t[CHOOSE k \in 1..Len(t) : PlaceOf(front, k, W) = s]
                 ELSE b[s]]

(* The batch is then what at() reads first.                                   *)
LEMMA LaidPrepend ==
  ASSUME NEW W \in Nat \ {0}, NEW h \in 0..(W - 1), NEW q \in Seq(Payload), NEW t \in Seq(Payload),
         Len(q) + Len(t) <= W
  PROVE  /\ Front(h, Len(t), W) \in 0..(W - 1)
         /\ Overlaid(Laid(W, h, q), Front(h, Len(t), W), t, W) = Laid(W, Front(h, Len(t), W), t \o q)
<1> DEFINE n        == Len(t)
           front    == Front(h, n, W)
           place(k) == PlaceOf(front, k, W)
<1>1. n \in Nat /\ Len(q) \in Nat /\ Len(q) + n <= W /\ n <= W
  OBVIOUS
<1>2. /\ t \o q \in Seq(Payload) /\ Len(t \o q) = n + Len(q)
      /\ \A j \in 1..n : (t \o q)[j] = t[j]
      /\ \A j \in 1..Len(q) : (t \o q)[n + j] = q[j]
  <2>1. /\ t \o q \in Seq(Payload) /\ Len(t \o q) = Len(t) + Len(q)
        /\ \A j \in 1..(Len(t) + Len(q)) :
             (t \o q)[j] = IF j <= Len(t) THEN t[j] ELSE q[j - Len(t)]
    OBVIOUS
  <2>2. \A j \in 1..n : j \in 1..(n + Len(q)) /\ j <= n
    BY <1>1
  <2>3. \A j \in 1..Len(q) : n + j \in 1..(n + Len(q)) /\ ~(n + j <= n) /\ (n + j) - n = j
    BY <1>1
  <2> QED BY <2>1, <2>2, <2>3
<1> HIDE DEF n
<1>3. front = (IF h < n THEN h - n + W ELSE h - n) /\ front \in 0..(W - 1)
  <2>1. W - n \in 0..W /\ h + (W - n) = h + W - n
    BY <1>1
  <2>2. (h + (W - n)) % W = IF h + (W - n) < W THEN h + (W - n) ELSE h + (W - n) - W
    BY <2>1, Wraps, Zenon
  <2>3. front = IF h + (W - n) < W THEN h + (W - n) ELSE h + (W - n) - W
    BY <2>1, <2>2 DEF Front
  <2> HIDE DEF front
  <2> QED BY <2>3, <1>1
<1> HIDE DEF front
<1>4. ASSUME NEW s \in 1..W, NEW k \in 1..n
      PROVE  place(k) = s <=> Pos(W, front, s - 1) = k - 1
  <2> DEFINE j == k - 1
  <2>1. j \in 0..(W - 1) /\ front + k - 1 = front + j
    BY <1>1, <1>3
  <2> HIDE DEF j
  <2>2. s - 1 \in 0..(W - 1) /\ (front + j) % W \in 0..(W - 1)
        /\ ((front + j) % W = s - 1 <=> Pos(W, front, s - 1) = j)
    <3>1. front \in 0..(W - 1) /\ j \in 0..(W - 1)
      BY <1>3, <2>1
    <3> HIDE DEF place
    <3> QED BY <3>1, SlotOfPos
  <2>3. place(k) = ((front + j) % W) + 1
    BY <2>1 DEF PlaceOf
  <2> HIDE DEF place
  <2>4. place(k) = s <=> (front + j) % W = s - 1
    BY <2>2, <2>3
  <2> QED BY <2>2, <2>4 DEF j
<1> HIDE DEF place
<1>5. ASSUME NEW s \in 1..W
      PROVE  (IF \E k \in 1..n : place(k) = s THEN t[CHOOSE k \in 1..n : place(k) = s]
              ELSE Laid(W, h, q)[s]) = Laid(W, front, t \o q)[s]
  <2> DEFINE p == Pos(W, front, s - 1)
             o == Pos(W, h, s - 1)
  <2>1. p \in 0..(W - 1) /\ o \in 0..(W - 1) /\ (p >= n => o = p - n)
    BY <1>1, <1>3 DEF Pos
  <2>2. Laid(W, front, t \o q)[s] = IF p < n + Len(q) THEN (t \o q)[p + 1] ELSE Empty
    BY <1>2 DEF Laid
  <2>3. Laid(W, h, q)[s] = IF o < Len(q) THEN q[o + 1] ELSE Empty
    BY DEF Laid
  <2>4. \A k \in 1..n : place(k) = s <=> p = k - 1
    BY <1>4
  <2> HIDE DEF p, o
  <2>5. CASE p < n
    <3>1. p + 1 \in 1..n /\ p < n + Len(q)
      BY <1>1, <2>1, <2>5
    <3>2. \A k \in 1..n : place(k) = s <=> k = p + 1
      BY <2>1, <2>4, <1>1
    <3>3. (CHOOSE k \in 1..n : place(k) = s) = p + 1
      BY <3>1, <3>2
    <3>4. \E k \in 1..n : place(k) = s
      BY <3>1, <3>2, Zenon
    <3>5. t[CHOOSE k \in 1..n : place(k) = s] = t[p + 1]
      BY <3>3, Zenon
    <3>6. Laid(W, front, t \o q)[s] = t[p + 1]
      BY <1>2, <2>2, <3>1
    <3> QED BY <3>4, <3>5, <3>6, Zenon
  <2>6. CASE p >= n
    <3>1. ~ \E k \in 1..n : place(k) = s
      BY <2>1, <2>4, <2>6, <1>1
    <3>2. o = p - n /\ (o < Len(q) <=> p < n + Len(q)) /\ p + 1 = n + (o + 1)
      BY <1>1, <2>1, <2>6
    <3>3. o < Len(q) => o + 1 \in 1..Len(q)
      BY <1>1, <2>1
    <3>4. Laid(W, front, t \o q)[s] = Laid(W, h, q)[s]
      BY <1>2, <2>2, <2>3, <3>2, <3>3
    <3> QED BY <3>1, <3>4, Zenon
  <2> QED BY <2>1, <2>5, <2>6, <1>1
<1>6. [s \in 1..W |-> IF \E k \in 1..n : place(k) = s THEN t[CHOOSE k \in 1..n : place(k) = s]
                      ELSE Laid(W, h, q)[s]]
        = [s \in 1..W |-> Laid(W, front, t \o q)[s]]
  BY <1>5
<1>7. [s \in 1..W |-> Laid(W, front, t \o q)[s]] = Laid(W, front, t \o q)
  BY DEF Laid
<1> QED BY <1>3, <1>6, <1>7 DEF place, front, n, Overlaid

(* The first n entries' slots cleared and head moved on (Drain).              *)
LEMMA LaidDrained ==
  ASSUME NEW W \in Nat \ {0}, NEW h \in 0..(W - 1), NEW q \in Seq(Payload), Len(q) <= W,
         NEW n \in 0..Len(q)
  PROVE  /\ (h + n) % W \in 0..(W - 1)
         /\ [s \in 1..W |-> IF \E i \in 0..(n - 1) : (h + i) % W = s - 1 THEN Empty
                            ELSE Laid(W, h, q)[s]]
              = Laid(W, (h + n) % W, SubSeq(q, n + 1, Len(q)))
<1> DEFINE g    == (h + n) % W
           rest == SubSeq(q, n + 1, Len(q))
<1>1. n \in Nat /\ Len(q) \in Nat /\ n <= Len(q) /\ n <= W /\ n \in 0..W
  OBVIOUS
<1>2. g = (IF h + n < W THEN h + n ELSE h + n - W) /\ g \in 0..(W - 1)
  <2>1. g = IF h + n < W THEN h + n ELSE h + n - W
    BY <1>1, Wraps
  <2> HIDE DEF g
  <2> QED BY <2>1, <1>1
<1>3. /\ rest \in Seq(Payload) /\ Len(rest) = Len(q) - n
      /\ \A j \in 1..(Len(q) - n) : rest[j] = q[n + j]
  BY <1>1
<1> HIDE DEF g, rest
<1>4. ASSUME NEW s \in 1..W
      PROVE  (IF \E i \in 0..(n - 1) : (h + i) % W = s - 1 THEN Empty ELSE Laid(W, h, q)[s])
               = Laid(W, g, rest)[s]
  <2> DEFINE p == Pos(W, h, s - 1)
             o == Pos(W, g, s - 1)
  <2>1. p \in 0..(W - 1) /\ o = IF p >= n THEN p - n ELSE p - n + W
    BY <1>1, <1>2 DEF Pos
  <2>2. ASSUME NEW i \in 0..(n - 1) PROVE (h + i) % W = s - 1 <=> p = i
    <3>1. i \in 0..(W - 1)
      BY <1>1
    <3> QED BY <3>1, SlotOfPos
  <2>3. Laid(W, g, rest)[s] = IF o < Len(q) - n THEN rest[o + 1] ELSE Empty
    BY <1>3 DEF Laid
  <2>4. Laid(W, h, q)[s] = IF p < Len(q) THEN q[p + 1] ELSE Empty
    BY DEF Laid
  <2> HIDE DEF p, o
  <2>5. CASE p < n
    <3>1. p \in 0..(n - 1)
      BY <2>1, <2>5, <1>1
    <3>2. \E i \in 0..(n - 1) : (h + i) % W = s - 1
      BY <2>2, <3>1, Zenon
    <3>3. ~(o < Len(q) - n)
      BY <1>1, <2>1, <2>5
    <3> QED BY <2>3, <3>2, <3>3, Zenon
  <2>6. CASE p >= n
    <3>1. ~ \E i \in 0..(n - 1) : (h + i) % W = s - 1
      BY <2>2, <2>1, <2>6, <1>1
    <3>2. o = p - n /\ (o < Len(q) - n <=> p < Len(q)) /\ p + 1 = n + (o + 1)
      BY <1>1, <2>1, <2>6
    <3>3. o < Len(q) - n => o + 1 \in 1..(Len(q) - n)
      BY <1>1, <2>1, <2>6
    <3>4. Laid(W, g, rest)[s] = Laid(W, h, q)[s]
      BY <1>3, <2>3, <2>4, <3>2, <3>3
    <3> QED BY <3>1, <3>4, Zenon
  <2> QED BY <2>1, <2>5, <2>6, <1>1
<1>5. [s \in 1..W |-> IF \E i \in 0..(n - 1) : (h + i) % W = s - 1 THEN Empty ELSE Laid(W, h, q)[s]]
        = [s \in 1..W |-> Laid(W, g, rest)[s]]
  BY <1>4
<1>6. [s \in 1..W |-> Laid(W, g, rest)[s]] = Laid(W, g, rest)
  BY DEF Laid
<1> QED BY <1>2, <1>5, <1>6 DEF g, rest

-----------------------------------------------------------------------------
(* The array and the sink's own view of it.                                   *)
Backs ==
  /\ Slots \in Nat \ {0}
  /\ head \in 0..(Slots - 1)
  /\ Len(ring) <= Slots
  /\ buf = Laid(Slots, head, ring)
  /\ size = Len(ring)
  /\ capacity = Slots

RingInv == IInv /\ Backs

(* What at() reads are the entries in order, and nothing else is there.       *)
LEMMA BacksFacts ==
  ASSUME RingInv
  PROVE  /\ ring \in Seq(Payload) /\ size \in Nat
         /\ \A i \in 1..size : At(i - 1) = ring[i]
         /\ buf \in Seq(Payload \cup {Empty}) /\ DOMAIN buf = 1..capacity
<1> DEFINE W == capacity
<1>1. /\ W \in Nat \ {0} /\ head \in 0..(W - 1) /\ ring \in Seq(Payload) /\ Len(ring) <= W
      /\ buf = Laid(W, head, ring) /\ size = Len(ring) /\ Slots = W
  BY DEF RingInv, Backs, IInv, TypeOK
<1> HIDE DEF W
<1>2. /\ Laid(W, head, ring) \in Seq(Payload \cup {Empty}) /\ DOMAIN Laid(W, head, ring) = 1..W
      /\ \A i \in 1..Len(ring) : Laid(W, head, ring)[((head + (i - 1)) % W) + 1] = ring[i]
  BY <1>1, LaidFacts
<1>3. ASSUME NEW i \in 1..size PROVE At(i - 1) = ring[i]
  BY <1>1, <1>2 DEF At, SlotOf
<1>4. Len(ring) \in Nat
  BY <1>1
<1> QED BY <1>1, <1>2, <1>3, <1>4 DEF W

(* A step that leaves the array laid for q is seen as ring = q.               *)
LEMMA SeenIs ==
  ASSUME Seen, NEW W \in Nat \ {0}, head' \in 0..(W - 1), NEW q \in Seq(Payload), Len(q) <= W,
         buf' = Laid(W, head', q), size' = Len(q)
  PROVE  ring' = q /\ capacity' = W /\ Backs'
<1>1. /\ Len(Laid(W, head', q)) = W
      /\ [i \in 1..Len(q) |-> Laid(W, head', q)[((head' + (i - 1)) % W) + 1]] = q
  BY LaidFacts
<1>2. Slots' = W
  BY <1>1 DEF Slots
<1>3. View' = [i \in 1..size' |-> buf'[((head' + (i - 1)) % Slots') + 1]]
  BY DEF View, At, SlotOf
<1>4. ring' = q
  BY <1>1, <1>2, <1>3 DEF Seen
<1>5. capacity' = W
  BY <1>2 DEF Seen
<1> QED BY <1>2, <1>4, <1>5 DEF Backs

(* growFor leaves the same entries in an array with room for n more.          *)
LEMMA GrowsFor ==
  ASSUME RingInv, NEW n \in Nat
  PROVE  LET g == Grown(n)
             entries == EntriesFor(capacity, Len(ring) + n)
         IN  /\ entries \in Nat \ {0} /\ Len(ring) + n <= entries
             /\ g.head \in 0..(entries - 1)
             /\ g.buf = Laid(entries, g.head, ring)
             /\ Len(g.buf) = entries
<1> DEFINE g == Grown(n)
           entries == EntriesFor(capacity, Len(ring) + n)
<1>1. /\ ring \in Seq(Payload) /\ size = Len(ring) /\ Len(ring) \in Nat /\ capacity = Slots
      /\ \A i \in 1..size : At(i - 1) = ring[i]
      /\ buf = Laid(capacity, head, ring) /\ head \in 0..(capacity - 1) /\ IInv
  BY BacksFacts DEF RingInv, Backs
<1>2. entries \in Nat \ {0} /\ Len(ring) + n <= entries /\ Len(ring) <= entries
  <2>1. entries \in Nat \ {0} /\ Len(ring) + n <= entries
    BY <1>1, GrownFacts
  <2> HIDE DEF entries
  <2> QED BY <1>1, <2>1
<1>3. g = IF entries = Slots THEN [buf |-> buf, head |-> head]
          ELSE [buf |-> Resized(entries), head |-> 0]
  BY <1>1 DEF Grown
<1>4. Resized(entries) = Laid(entries, 0, ring)
  <2>1. Resized(entries) = [s \in 1..entries |-> IF s <= Len(ring) THEN ring[s] ELSE Empty]
    <3>1. \A s \in 1..entries : s <= size => s \in 1..size
      BY <1>1
    <3> HIDE DEF entries
    <3> QED BY <1>1, <3>1 DEF Resized
  <2> HIDE DEF entries
  <2> QED BY <1>1, <1>2, <2>1, LaidFresh
<1> HIDE DEF g, entries
<1>5. g.head \in 0..(entries - 1) /\ g.buf = Laid(entries, g.head, ring)
  BY <1>1, <1>2, <1>3, <1>4
<1>6. Len(g.buf) = entries
  BY <1>1, <1>2, <1>5, LaidFacts
<1> QED BY <1>2, <1>5, <1>6 DEF g, entries

(* The zero payload is none: no cycle lies in a cleared slot.                 *)
LEMMA EmptyIsNoPayload == Empty \notin Payload
<1> SUFFICES ASSUME Empty \in Payload PROVE FALSE
  OBVIOUS
<1>1. DOMAIN Empty = {"seq"}
  BY DEF Empty
<1>2. "hops" \in DOMAIN Empty
  BY DEF Payload
<1> QED BY <1>1, <1>2

(* A new sink's array (NewPushSink).                                          *)
LEMMA RingInitIs == RingInit => Init /\ RingInv
<1> SUFFICES ASSUME RingInit PROVE Init /\ RingInv
  OBVIOUS
<1>1. Init /\ IInv
  BY InitIInv DEF RingInit
<1>2. InitialEntries \in Nat \ {0}
  BY SizesAssumption
<1>3. ring = <<>> /\ capacity = InitialEntries /\ head = 0 /\ size = 0
      /\ buf = [s \in 1..InitialEntries |-> Empty]
  BY DEF RingInit, Init
<1>4. buf = Laid(InitialEntries, 0, ring)
  <2>1. [s \in 1..InitialEntries |-> IF s <= Len(ring) THEN ring[s] ELSE Empty]
          = Laid(InitialEntries, 0, ring)
    <3>1. ring \in Seq(Payload) /\ Len(ring) <= InitialEntries
      BY <1>2, <1>3
    <3> QED BY <1>2, <3>1, LaidFresh
  <2>2. \A s \in 1..InitialEntries : ~(s <= Len(ring))
    BY <1>2, <1>3
  <2> QED BY <1>3, <2>1, <2>2
<1>5. Slots = InitialEntries
  BY <1>2, <1>3 DEF Slots
<1> QED BY <1>1, <1>2, <1>3, <1>4, <1>5 DEF RingInv, Backs

(* What touches no slot leaves the array the sink's.                          *)
LEMMA OutsideRefines ==
  ASSUME RingInv, Outside PROVE Next /\ Backs'
<1>1. Next
  BY DEF Outside, Next
<1>2. UNCHANGED <<buf, head, size>>
  BY DEF Outside, array
<1>3. UNCHANGED <<ring, capacity>>
  BY DEF Outside, SetHopMarkers, Measure, LockForCycle, LockForRequeue, SettleBatch, buffer
<1> QED BY <1>1, <1>2, <1>3 DEF RingInv, Backs, Slots


(* Shedding in the slot is shedding in the sequence (lines 154 to 164).       *)
LEMMA StripSlotRefines ==
  ASSUME RingInv, StripSlot PROVE StripOldestHops /\ Backs'
<1>1. PICK i \in Carrying :
        /\ \A j \in Carrying : i <= j
        /\ buf' = [buf EXCEPT ![SlotOf(i - 1) + 1].hops = 0]
        /\ heap' = heap - At(i - 1).hops
        /\ stripIdx' = i
  BY DEF StripSlot
<1> DEFINE W == capacity
           p == SlotOf(i - 1) + 1
           q == [ring EXCEPT ![i] = Bare(ring[i])]
<1>2. /\ W \in Nat \ {0} /\ head \in 0..(W - 1) /\ ring \in Seq(Payload) /\ Len(ring) <= W
      /\ buf = Laid(W, head, ring) /\ size = Len(ring) /\ Slots = W /\ DOMAIN buf = 1..W
      /\ head' = head /\ size' = size /\ Seen
  BY BacksFacts DEF RingInv, Backs, IInv, TypeOK, StripSlot
<1>3. i \in 1..Len(ring) /\ ring[i] \in Payload /\ Bare(ring[i]) \in Payload /\ At(i - 1) = ring[i]
  <2>1. i \in 1..Len(ring)
    BY DEF Carrying
  <2>2. ring[i] \in Payload
    BY <2>1, <1>2, ElementOfSeq
  <2> QED BY <2>1, <2>2, <1>2, BareFacts, BacksFacts
<1>4. q \in Seq(Payload) /\ Len(q) = Len(ring)
  BY <1>2, <1>3
<1>5. buf' = [buf EXCEPT ![p] = Bare(ring[i])]
  <2>1. buf[p] = ring[i]
    BY <1>3 DEF At
  <2>2. buf' = [buf EXCEPT ![p] = [buf[p] EXCEPT !.hops = 0]]
    BY <1>1
  <2> HIDE DEF p
  <2> QED BY <2>1, <2>2 DEF Bare
<1>6. buf' = Laid(W, head, q)
  <2>1. p = ((head + (i - 1)) % W) + 1
    BY <1>2 DEF SlotOf
  <2> HIDE DEF W, p, q
  <2>2. q[i] = Bare(ring[i]) /\ \A j \in 1..Len(ring) : j # i => q[j] = ring[j]
    BY <1>2, <1>3 DEF q
  <2>3. Write(Laid(W, head, ring), (head + (i - 1)) % W, Bare(ring[i])) = Laid(W, head, q)
    BY <1>2, <1>3, <1>4, <2>2, LaidRewrite
  <2> QED BY <1>2, <1>5, <2>1, <2>3 DEF Write
<1> HIDE DEF W, p
<1>7. ring' = q /\ capacity' = W /\ Backs'
  <2> HIDE DEF q
  <2> QED BY <1>2, <1>4, <1>6, SeenIs
<1>8. ring' = [ring EXCEPT ![i].hops = 0]
  BY <1>7 DEF Bare
<1>9. heap' = heap - ring[i].hops
  BY <1>1, <1>3
<1>10. /\ MakingRoom /\ stripped' = stripped + 1
       /\ UNCHANGED <<dropped, hopMarkers, mode, incoming, arriving, inflight, cycles, settled>>
  BY DEF StripSlot, others
<1>11. StripOldestHops
  BY <1>1, <1>7, <1>8, <1>9, <1>10 DEF StripOldestHops, W
<1> QED BY <1>7, <1>11

(* Dropping the head slot is dropping the oldest cycle (lines 168 to 180).    *)
LEMMA DropHeadRefines ==
  ASSUME RingInv, DropHead PROVE DropOldest /\ Backs'
<1> DEFINE W == capacity
<1>1. /\ W \in Nat \ {0} /\ head \in 0..(W - 1) /\ ring \in Seq(Payload) /\ Len(ring) <= W
      /\ buf = Laid(W, head, ring) /\ size = Len(ring) /\ Slots = W
      /\ ring # <<>> /\ Seen
  BY DEF RingInv, Backs, IInv, TypeOK, DropHead, MakingRoom
<1>2. /\ buf' = [buf EXCEPT ![head + 1] = Empty] /\ head' = (head + 1) % W /\ size' = size - 1
  BY <1>1 DEF DropHead, SlotOf
<1>3. Tail(ring) \in Seq(Payload) /\ Len(Tail(ring)) = Len(ring) - 1 /\ Len(ring) \in Nat
      /\ Len(ring) > 0
  BY <1>1
<1>4. head' \in 0..(W - 1) /\ buf' = Laid(W, head', Tail(ring))
  <2> HIDE DEF W
  <2> QED BY <1>1, <1>2, LaidTail DEF Write
<1>5. ring' = Tail(ring) /\ capacity' = W /\ Backs'
  <2> DEFINE q == Tail(ring)
  <2>1. q \in Seq(Payload) /\ Len(q) <= W /\ size' = Len(q)
    <3> HIDE DEF W
    <3> QED BY <1>1, <1>2, <1>3
  <2>2. buf' = Laid(W, head', q)
    BY <1>4
  <2> HIDE DEF W, q
  <2>3. ring' = q /\ capacity' = W /\ Backs'
    BY <1>1, <1>4, <2>1, <2>2, SeenIs
  <2> QED BY <2>3 DEF q
<1>6. At(0) = Head(ring)
  <2>1. 1 \in 1..size /\ 1 - 1 = 0
    BY <1>1, <1>3
  <2>2. At(1 - 1) = ring[1]
    BY <2>1, BacksFacts
  <2> QED BY <1>1, <2>1, <2>2
<1>7. DropOldest
  BY <1>5, <1>6 DEF DropHead, DropOldest, others, W
<1> QED BY <1>5, <1>7

(* Dropping the last slot is dropping the newest cycle (lines 343 to 353).    *)
LEMMA DropTailRefines ==
  ASSUME RingInv, DropTail PROVE DropNewest /\ Backs'
<1> DEFINE W == capacity
           q == SubSeq(ring, 1, Len(ring) - 1)
<1>1. /\ W \in Nat \ {0} /\ head \in 0..(W - 1) /\ ring \in Seq(Payload) /\ Len(ring) <= W
      /\ buf = Laid(W, head, ring) /\ size = Len(ring) /\ Slots = W
      /\ ring # <<>> /\ Seen /\ head' = head
  BY DEF RingInv, Backs, IInv, TypeOK, DropTail, MakingRoom
<1>2. buf' = [buf EXCEPT ![((head + (Len(ring) - 1)) % W) + 1] = Empty] /\ size' = size - 1
  BY <1>1 DEF DropTail, SlotOf
<1>3. q \in Seq(Payload) /\ Len(q) = Len(ring) - 1 /\ Len(ring) \in Nat /\ Len(ring) > 0
  BY <1>1
<1>4. buf' = Laid(W, head, q)
  <2> HIDE DEF W
  <2> QED BY <1>1, <1>2, LaidFront DEF Write
<1>5. ring' = q /\ capacity' = W /\ Backs'
  <2> HIDE DEF W, q
  <2>1. Len(q) <= W /\ size' = Len(q)
    BY <1>1, <1>2, <1>3
  <2>2. buf' = Laid(W, head', q) /\ head' \in 0..(W - 1)
    BY <1>1, <1>4
  <2> QED BY <1>1, <1>3, <2>1, <2>2, SeenIs
<1>6. At(size - 1) = ring[Len(ring)]
  <2>1. size \in 1..size
    BY <1>1, <1>3
  <2> QED BY <1>1, <2>1, BacksFacts
<1>7. DropNewest
  BY <1>5, <1>6 DEF DropTail, DropNewest, others, W
<1> QED BY <1>5, <1>7

(* Growing and writing one slot is appending (lines 259 to 266).              *)
LEMMA AppendCycleRefines ==
  ASSUME RingInv, AppendCycle PROVE FinishCycle /\ Backs'
<1> DEFINE g == Grown(1)
           W == EntriesFor(capacity, Len(ring) + 1)
           r == incoming[1]
           q == Append(ring, r)
<1>1. /\ ring \in Seq(Payload) /\ size = Len(ring) /\ Len(ring) \in Nat /\ mode = "cycle"
      /\ incoming \in Seq(Payload) /\ Len(incoming) = 1 /\ Seen
  BY DEF RingInv, Backs, IInv, TypeOK, AppendCycle
<1>2. /\ W \in Nat \ {0} /\ Len(ring) + 1 <= W /\ g.head \in 0..(W - 1)
      /\ g.buf = Laid(W, g.head, ring) /\ Len(g.buf) = W
  BY GrowsFor
<1>3. /\ buf' = [g.buf EXCEPT ![((g.head + Len(ring)) % W) + 1] = r]
      /\ head' = g.head /\ size' = size + 1
  BY <1>1, <1>2 DEF AppendCycle
<1>4. r \in Payload /\ q = ring \o incoming
  BY <1>1, AppendOne
<1> HIDE DEF g, W, r
<1>5. q \in Seq(Payload) /\ Len(q) = Len(ring) + 1
  BY <1>1, <1>4
<1>6. buf' = Laid(W, g.head, q)
  <2>1. Len(ring) < W
    BY <1>1, <1>2
  <2> DEFINE h == g.head
  <2>2. h \in 0..(W - 1)
    BY <1>2
  <2> HIDE DEF h
  <2>3. Write(Laid(W, h, ring), (h + Len(ring)) % W, r) = Laid(W, h, q)
    BY <1>1, <1>2, <1>4, <2>1, <2>2, LaidAppend
  <2> QED BY <1>2, <1>3, <2>3 DEF h, Write
<1>7. ring' = q /\ capacity' = W /\ Backs'
  <2>1. Len(q) <= W /\ size' = Len(q) /\ buf' = Laid(W, head', q) /\ head' \in 0..(W - 1)
    BY <1>1, <1>2, <1>3, <1>5, <1>6
  <2> HIDE DEF q
  <2> QED BY <1>1, <1>2, <1>5, <2>1, SeenIs
<1>8. FinishCycle
  <2>1. ring' = ring \o incoming /\ capacity' = EntriesFor(capacity, Len(ring) + 1)
    BY <1>4, <1>7 DEF W
  <2> QED BY <2>1 DEF AppendCycle, FinishCycle
<1> QED BY <1>7, <1>8

(* Growing and walking head back over a batch is putting it in front (lines   *)
(* 388 to 410).                                                               *)
LEMMA PrependBatchRefines ==
  ASSUME RingInv, PrependBatch PROVE FinishRequeue /\ Backs'
<1> DEFINE n     == Len(incoming)
           g     == Grown(n)
           W     == EntriesFor(capacity, Len(ring) + n)
           front == Front(g.head, n, W)
           place(k) == PlaceOf(front, k, W)
           q     == incoming \o ring
<1>1. /\ ring \in Seq(Payload) /\ size = Len(ring) /\ Len(ring) \in Nat
      /\ incoming \in Seq(Payload) /\ n \in Nat /\ Seen
  BY DEF RingInv, Backs, IInv, TypeOK, PrependBatch
<1>2. /\ W \in Nat \ {0} /\ Len(ring) + n <= W /\ g.head \in 0..(W - 1)
      /\ g.buf = Laid(W, g.head, ring) /\ Len(g.buf) = W
  BY <1>1, GrowsFor
<1>3. /\ buf' = [s \in 1..W |-> IF \E k \in 1..n : place(k) = s
                                THEN incoming[CHOOSE k \in 1..n : place(k) = s]
                                ELSE g.buf[s]]
      /\ head' = front /\ size' = size + n
  BY <1>2 DEF PrependBatch, PlaceOf
<1> HIDE DEF W, g
<1>4. front \in 0..(W - 1) /\ buf' = Laid(W, front, q)
  <2> DEFINE h == g.head
  <2>1. h \in 0..(W - 1) /\ Len(ring) + Len(incoming) <= W
    BY <1>2
  <2> HIDE DEF h
  <2>2. /\ Front(h, Len(incoming), W) \in 0..(W - 1)
        /\ Overlaid(Laid(W, h, ring), Front(h, Len(incoming), W), incoming, W)
             = Laid(W, Front(h, Len(incoming), W), incoming \o ring)
    BY <1>1, <1>2, <2>1, LaidPrepend
  <2> QED BY <1>2, <1>3, <2>2 DEF h, Overlaid
<1>5. q \in Seq(Payload) /\ Len(q) = Len(ring) + n
  BY <1>1
<1> HIDE DEF front, place
<1>6. ring' = q /\ capacity' = W /\ Backs'
  <2>1. Len(q) <= W /\ size' = Len(q) /\ buf' = Laid(W, head', q) /\ head' \in 0..(W - 1)
    BY <1>1, <1>2, <1>3, <1>4, <1>5
  <2> HIDE DEF q, n
  <2> QED BY <1>1, <1>2, <1>5, <2>1, SeenIs
<1>7. FinishRequeue
  BY <1>6 DEF PrependBatch, FinishRequeue, PutBack, W
<1> QED BY <1>6, <1>7

(* Copying the head slots out and clearing or cutting the array is draining   *)
(* (lines 330 to 359 and 220 to 229).                                         *)
LEMMA DrainSlotsRefines ==
  ASSUME RingInv, DrainSlots PROVE Drain /\ Backs'
<1> DEFINE W       == capacity
           n       == IF BatchLimit < size THEN BatchLimit ELSE size
           batch   == [i \in 1..n |-> At(i - 1)]
           entries == ShrunkFor(size - n)
           q       == SubSeq(ring, n + 1, Len(ring))
<1>1. /\ W \in Nat \ {0} /\ head \in 0..(W - 1) /\ ring \in Seq(Payload) /\ Len(ring) <= W
      /\ buf = Laid(W, head, ring) /\ size = Len(ring) /\ Slots = W /\ Len(ring) \in Nat
      /\ Len(ring) > 0 /\ Seen /\ mode = "free" /\ inflight = <<>>
  BY DEF RingInv, Backs, IInv, TypeOK, DrainSlots
<1>2. n \in 1..Len(ring) /\ n \in 0..Len(ring)
  BY <1>1, SizesAssumption
<1>3. /\ inflight' = HandedOut(batch) /\ heap' = heap - Released(batch)
      /\ size' = size - n /\ stripIdx' = IndexAfterDrain(n)
      /\ IF entries < Slots
         THEN /\ buf' = [s \in 1..entries |-> IF s <= size - n THEN At(n + s - 1) ELSE Empty]
              /\ head' = 0
         ELSE /\ buf' = Cleared(n)
              /\ head' = SlotOf(n)
      /\ UNCHANGED <<dropped, stripped, hopMarkers, mode, incoming, arriving, cycles, settled>>
  BY DEF DrainSlots
<1> HIDE DEF n
<1>4. batch = SubSeq(ring, 1, n)
  <2>1. \A i \in 1..n : i \in 1..size
    BY <1>1, <1>2
  <2>2. batch = [i \in 1..n |-> ring[i]]
    BY <2>1, BacksFacts
  <2> QED BY <1>1, <1>2, <2>2
<1>5. /\ q \in Seq(Payload) /\ Len(q) = Len(ring) - n
      /\ \A i \in 1..(Len(ring) - n) : q[i] = ring[n + i]
  BY <1>1, <1>2
<1>6. entries \in Nat \ {0} /\ Len(q) <= entries /\ entries <= W
  <2> DEFINE live == size - n
  <2>1. live \in Nat /\ live <= capacity /\ live = Len(q)
    BY <1>1, <1>2, <1>5
  <2> HIDE DEF live
  <2>2. ShrunkFor(live) \in Nat \ {0} /\ live <= ShrunkFor(live)
    BY <1>1, <2>1, ShrunkForFacts
  <2>3. ShrunkFor(live) <= capacity
    <3> DEFINE e == EntriesFor(InitialEntries, live * 2)
    <3>1. ShrunkFor(live) = capacity \/ (e < capacity /\ ShrunkFor(live) = e)
      BY DEF ShrunkFor
    <3> HIDE DEF e
    <3> QED BY <1>1, <2>2, <3>1
  <2> QED BY <2>1, <2>2, <2>3 DEF live
<1> HIDE DEF W, batch, entries
<1>7. ASSUME entries < W PROVE ring' = q /\ capacity' = entries /\ Backs'
  <2>1. buf' = [s \in 1..entries |-> IF s <= size - n THEN At(n + s - 1) ELSE Empty] /\ head' = 0
    BY <1>1, <1>3, <1>7
  <2>2. ASSUME NEW s \in 1..(size - n) PROVE At(n + s - 1) = q[s]
    <3>1. n + s \in 1..size /\ s \in 1..(Len(ring) - n)
      BY <1>1, <1>2
    <3> DEFINE i == n + s
    <3>2. At(i - 1) = ring[i]
      <4> HIDE DEF i
      <4> QED BY <3>1, BacksFacts DEF i
    <3>3. q[s] = ring[n + s]
      BY <1>5, <3>1
    <3>4. (n + s) - 1 = n + s - 1
      BY <3>1, <1>1, <1>2
    <3>5. At((n + s) - 1) = At(n + s - 1)
      BY <3>4 DEF At, SlotOf
    <3> HIDE DEF q
    <3> QED BY <3>2, <3>3, <3>5, Zenon
  <2>3. buf' = [s \in 1..entries |-> IF s <= Len(q) THEN q[s] ELSE Empty]
    <3>1. \A s \in 1..entries : s <= size - n => s \in 1..(size - n)
      BY <1>1, <1>2
    <3>2. size - n = Len(q)
      BY <1>1, <1>5
    <3> HIDE DEF q
    <3> QED BY <2>1, <2>2, <3>1, <3>2
  <2>4. buf' = Laid(entries, 0, q)
    <3> HIDE DEF q
    <3> QED BY <1>5, <1>6, <2>3, LaidFresh
  <2>5. ring' = q /\ capacity' = entries /\ Backs'
    <3>1. head' \in 0..(entries - 1) /\ size' = Len(q) /\ buf' = Laid(entries, head', q)
      BY <1>1, <1>3, <1>5, <1>6, <2>1, <2>4
    <3> HIDE DEF q
    <3> QED BY <1>1, <1>5, <1>6, <3>1, SeenIs
  <2> QED BY <2>5
<1>8. ASSUME ~(entries < W) PROVE ring' = q /\ capacity' = entries /\ Backs'
  <2>1. buf' = Cleared(n) /\ head' = (head + n) % W /\ entries = W
    BY <1>1, <1>3, <1>6, <1>8 DEF SlotOf
  <2>2. Cleared(n) = [s \in 1..W |-> IF \E i \in 0..(n - 1) : (head + i) % W = s - 1 THEN Empty
                                     ELSE Laid(W, head, ring)[s]]
    BY <1>1 DEF Cleared, SlotOf
  <2>3. (head + n) % W \in 0..(W - 1) /\ Cleared(n) = Laid(W, (head + n) % W, q)
    BY <1>1, <1>2, <2>2, LaidDrained
  <2>4. ring' = q /\ capacity' = W /\ Backs'
    <3>1. head' \in 0..(W - 1) /\ size' = Len(q) /\ buf' = Laid(W, head', q) /\ Len(q) <= W
      BY <1>1, <1>3, <1>5, <1>6, <2>1, <2>3
    <3> HIDE DEF q
    <3> QED BY <1>1, <1>5, <3>1, SeenIs
  <2> QED BY <2>1, <2>4
<1>9. ring' = q /\ capacity' = entries /\ Backs'
  BY <1>7, <1>8
<1>10. Drain
  <2>1. n = IF BatchLimit < Len(ring) THEN BatchLimit ELSE Len(ring)
    BY <1>1 DEF n
  <2>2. capacity' = ShrunkFor(Len(ring) - n)
    BY <1>1, <1>9 DEF entries
  <2>3. ring # <<>>
    BY <1>1
  <2> QED BY <1>1, <1>3, <1>4, <1>9, <2>1, <2>2, <2>3 DEF Drain
<1> QED BY <1>9, <1>10

(* Every step of the array is the sink's step of the same name.               *)
LEMMA RingStep ==
  ASSUME RingInv, [RingNext]_ringVars
  PROVE  [Next]_vars /\ RingInv'
<1>1. CASE Outside
  BY <1>1, OutsideRefines, NextIInv DEF RingInv
<1>2. CASE StripSlot
  BY <1>2, StripSlotRefines, NextIInv DEF RingInv, Next, UnderLock
<1>3. CASE DropHead
  BY <1>3, DropHeadRefines, NextIInv DEF RingInv, Next, UnderLock
<1>4. CASE DropTail
  BY <1>4, DropTailRefines, NextIInv DEF RingInv, Next, UnderLock
<1>5. CASE AppendCycle
  BY <1>5, AppendCycleRefines, NextIInv DEF RingInv, Next, UnderLock
<1>6. CASE PrependBatch
  BY <1>6, PrependBatchRefines, NextIInv DEF RingInv, Next, UnderLock
<1>7. CASE DrainSlots
  BY <1>7, DrainSlotsRefines, NextIInv DEF RingInv, Next
<1>8. CASE UNCHANGED ringVars
  <2>1. UNCHANGED vars /\ UNCHANGED <<buf, head, size, ring, capacity>>
    BY <1>8 DEF ringVars, array, vars
  <2>2. Backs'
    BY <2>1 DEF RingInv, Backs, Slots
  <2> QED BY <2>1, <2>2, StutterIInv DEF RingInv
<1> QED BY <1>1, <1>2, <1>3, <1>4, <1>5, <1>6, <1>7, <1>8 DEF RingNext, UnderArrayLock

(* Behind the sink's view there always is an array that holds exactly it, at  *)
(* whatever head, size and length.                                            *)
THEOREM ArrayBacksTheRing == RingSpec => []RingInv
<1>1. RingInit => RingInv
  BY RingInitIs
<1>2. RingInv /\ [RingNext]_ringVars => RingInv'
  BY RingStep
<1> QED BY <1>1, <1>2, PTL DEF RingSpec

(* The slots outside the live window are exactly the cleared ones, and head   *)
(* and size stay inside the array, however often it wraps, grows, shrinks and *)
(* walks backwards (pushsink.go lines 129 to 218 and 330 to 417).             *)
THEOREM ArrayIsSound == RingSpec => []ArrayInv
<1>1. RingInv => ArrayInv
  <2> SUFFICES ASSUME RingInv PROVE ArrayInv
    OBVIOUS
  <2> DEFINE W == capacity
  <2>1. /\ W \in Nat \ {0} /\ head \in 0..(W - 1) /\ ring \in Seq(Payload) /\ Len(ring) <= W
        /\ buf = Laid(W, head, ring) /\ size = Len(ring) /\ Slots = W /\ Len(ring) \in Nat
    BY DEF RingInv, Backs, IInv, TypeOK
  <2> HIDE DEF W
  <2>2. ArrayTypeOK
    BY <2>1, LaidFacts DEF ArrayTypeOK
  <2>3. ASSUME NEW s \in 0..(Slots - 1)
        PROVE  buf[s + 1] = Empty <=> \A i \in 0..(size - 1) : SlotOf(i) # s
    <3> DEFINE p == Pos(W, head, s)
    <3>1. p \in 0..(W - 1) /\ s + 1 \in 1..W /\ s + 1 - 1 = s
      <4>1. s \in 0..(W - 1) /\ s + 1 \in 1..W /\ s + 1 - 1 = s
        BY <2>1
      <4>2. p \in 0..(W - 1)
        BY <4>1, <2>1, PosOfSlot, Zenon
      <4> QED BY <4>1, <4>2
    <3>2. buf[s + 1] = IF p < Len(ring) THEN ring[p + 1] ELSE Empty
      BY <2>1, <3>1 DEF Laid
    <3>3. ASSUME NEW i \in 0..(size - 1) PROVE SlotOf(i) = s <=> p = i
      <4>1. i \in 0..(W - 1) /\ s \in 0..(W - 1)
        BY <2>1
      <4> QED BY <2>1, <4>1, PosOfSlot DEF SlotOf
    <3> HIDE DEF p
    <3>4. CASE p < Len(ring)
      <4>1. p \in 0..(size - 1) /\ p + 1 \in 1..Len(ring)
        BY <2>1, <3>1, <3>4
      <4>2. SlotOf(p) = s
        BY <3>3, <4>1
      <4>3. ring[p + 1] \in Payload
        BY <2>1, <4>1, ElementOfSeq
      <4>4. buf[s + 1] # Empty
        BY <3>2, <3>4, <4>3, EmptyIsNoPayload
      <4> QED BY <4>1, <4>2, <4>4
    <3>5. CASE ~(p < Len(ring))
      <4>1. ASSUME NEW i \in 0..(size - 1) PROVE p # i
        BY <2>1, <3>1, <3>5
      <4> QED BY <3>2, <3>3, <3>5, <4>1
    <3> QED BY <3>4, <3>5
  <2> QED BY <2>2, <2>3 DEF ArrayInv, DeadSlotsCleared
<1> QED BY <1>1, ArrayBacksTheRing, PTL

(* Read through at(), the array takes exactly the sink's steps, so every      *)
(* theorem about the sink is one about the array.                             *)
THEOREM ArrayImplementsSink == RingSpec => ImplementsPushSink
<1>1. RingInit => Init
  BY RingInitIs
<1>2. RingInv /\ [RingNext]_ringVars => [Next]_vars
  BY RingStep
<1> QED BY <1>1, <1>2, ArrayBacksTheRing, PTL DEF RingSpec, ImplementsPushSink
=============================================================================
