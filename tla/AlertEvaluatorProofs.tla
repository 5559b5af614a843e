------------------------ MODULE AlertEvaluatorProofs ------------------------
(* Proofs about AlertEvaluator, for any sources, schedules, quorums, windows  *)
(* and ceilings: no measurement is applied twice, none is barred by a stamp   *)
(* ahead of the clock, the operator was told what the evaluator keeps, and a  *)
(* majority page is the living majority's.  And, in the second half, about    *)
(* AlertDelivery: what is committed gets to the operator, in order, but for a *)
(* recovery that a later firing of the key takes along.                       *)
EXTENDS AlertEvaluator, AlertDelivery, NumberLemmas, SequenceTheorems, FiniteSetTheorems, TLAPS

(* What the marks of a source remember: every stamp applied is behind both    *)
(* marks, or remembered on its own, or too old for any schedule.              *)
Remembers(s, t) ==
  /\ t <= StateOf(s).lastCycle
  /\ t <= StateOf(s).pastCycle \/ t \in StateOf(s).ahead

TooOld(t) == clock - t > AlertIdentityRetention

MarksCover ==
  \A s \in Sources : \A t \in applied[s] \ evicted[s] : TooOld(t) \/ Remembers(s, t)

(* And what they remember was applied: the marks invent nothing.              *)
MarksAreApplied ==
  \A s \in Sources :
    /\ genuine[s] \subseteq applied[s]
    /\ StateOf(s).lastCycle # 0 => StateOf(s).lastCycle \in applied[s]
    /\ StateOf(s).pastCycle # 0 => StateOf(s).pastCycle \in genuine[s]
    /\ StateOf(s).ahead \subseteq applied[s]

(* What a source was heard of is what its entry says, and nothing is newer.   *)
HeardOf ==
  /\ \A s \in DOMAIN states : states[s].lastSeen = heard[s] /\ heard[s] > 0
  /\ warmup.sourcesSeen \subseteq {s \in Sources : heard[s] > 0}

(* Until quorum is switched the evaluator's copy of the switch is current.    *)
SwitchKnown == ~flipped => enabled = Enabled(config.quorum)

IInv ==
  /\ TypeOK /\ MarksCover /\ MarksAreApplied
  /\ HeardOf /\ SwitchKnown /\ ToldWhatIs

-----------------------------------------------------------------------------
(* Arithmetic and sets.                                                       *)

(* A schedule that is longer keeps an identity longer. *)
LEMMA RetentionCoversFreshness ==
  ASSUME NEW interval \in Intervals
  PROVE  /\ AlertFreshness(interval) \in Nat /\ AlertIdentityRetention \in Nat
         /\ AlertFreshness(interval) <= AlertIdentityRetention
         /\ AlertFreshness(MaxInterval) = AlertIdentityRetention
<1>1. /\ interval \in Nat /\ interval <= MaxInterval /\ MaxInterval \in Nat
      /\ StaleIntervals \in Nat /\ Skew \in Nat
  BY EvaluatorAssumption
<1>2. StaleIntervals * interval <= StaleIntervals * MaxInterval BY <1>1
<1>3. StaleIntervals * interval \in Nat /\ StaleIntervals * MaxInterval \in Nat BY <1>1
<1> DEFINE a == StaleIntervals * interval
           b == StaleIntervals * MaxInterval
<1> HIDE DEF a, b
<1>4. a <= b /\ a \in Nat /\ b \in Nat BY <1>2, <1>3 DEF a, b
<1>5. /\ AlertFreshness(interval) = IF a >= Skew THEN a ELSE Skew
      /\ AlertFreshness(MaxInterval) = IF b >= Skew THEN b ELSE Skew
  BY DEF AlertFreshness, StalenessWindow, Larger, a, b
<1> QED BY <1>1, <1>4, <1>5 DEF AlertIdentityRetention

(* Stamps are positive numbers, and any set of them is finite. *)
LEMMA StampFacts ==
  /\ Stamps \subseteq Nat /\ IsFiniteSet(Stamps)
  /\ \A t \in Stamps : t >= 1
  /\ \A S \in SUBSET Stamps : IsFiniteSet(S) /\ Cardinality(S) \in Nat
<1>1. MaxClock + Skew \in Int BY EvaluatorAssumption
<1>2. IsFiniteSet(1..(MaxClock + Skew)) BY <1>1, FS_Interval
<1>3. Stamps \subseteq Nat /\ \A t \in Stamps : t >= 1 BY <1>1 DEF Stamps
<1>4. IsFiniteSet(Stamps) BY <1>2 DEF Stamps
<1>5. \A S \in SUBSET Stamps : IsFiniteSet(S) /\ Cardinality(S) \in Nat
  BY <1>4, FS_Subset, FS_CardinalityType
<1> QED BY <1>3, <1>4, <1>5

(* The ceiling holds: one stamp more than it makes one leave. *)
LEMMA TrimmedFacts ==
  ASSUME NEW S \in SUBSET Stamps, Cardinality(S) <= AheadCeiling, NEW t \in Stamps
  PROVE  /\ Trimmed(S \cup {t}) \subseteq S \cup {t}
         /\ Cardinality(Trimmed(S \cup {t})) <= AheadCeiling
<1>1. IsFiniteSet(S) /\ Cardinality(S) \in Nat /\ AheadCeiling \in Nat
  BY StampFacts, EvaluatorAssumption
<1> DEFINE T == S \cup {t}
<1>2. IsFiniteSet(T) /\ Cardinality(T) \in Nat /\ Cardinality(T) <= Cardinality(S) + 1
  BY <1>1, FS_AddElement
<1> HIDE DEF T
<1>3. CASE Cardinality(T) > AheadCeiling
  <2>1. Trimmed(T) = T \ {Oldest(T)} BY <1>3 DEF Trimmed
  <2>2. Oldest(T) \in T
    <3>1. \E x \in T : \A y \in T : x <= y
      <4>1. T \subseteq Nat BY StampFacts DEF T
      <4>2. T # {} BY DEF T
      <4> QED BY <4>1, <4>2, LeastNatural
    <3> QED BY <3>1 DEF Oldest
  <2>3. Cardinality(T \ {Oldest(T)}) = Cardinality(T) - 1 BY <1>2, <2>2, FS_RemoveElement
  <2>4. Cardinality(Trimmed(T)) <= AheadCeiling BY <1>1, <1>2, <2>1, <2>3
  <2> QED BY <2>1, <2>4 DEF T
<1>4. CASE ~(Cardinality(T) > AheadCeiling)
  <2>1. Trimmed(T) = T BY <1>4 DEF Trimmed
  <2>2. Cardinality(T) <= AheadCeiling BY <1>1, <1>2, <1>4
  <2> QED BY <2>1, <2>2 DEF T
<1> QED BY <1>3, <1>4

-----------------------------------------------------------------------------
(* One source's entry.                                                        *)

SoundEntry(st) == st \in SourceState /\ Cardinality(st.ahead) <= AheadCeiling

SameMarks(a, b) ==
  /\ a.lastSeen = b.lastSeen /\ a.lastCycle = b.lastCycle
  /\ a.pastCycle = b.pastCycle /\ a.ahead = b.ahead

(* A source without an entry starts with a sound one. *)
LEMMA EntryOf ==
  ASSUME TypeOK, NEW s \in Sources
  PROVE  SoundEntry(StateOf(s))
<1>1. CASE s \in DOMAIN states BY <1>1 DEF TypeOK, StateOf, SoundEntry
<1>2. CASE s \notin DOMAIN states
  <2>1. NewState \in SourceState /\ NewState.ahead = {} BY DEF NewState, SourceState
  <2>2. Cardinality({}) = 0 BY FS_EmptySet
  <2> QED BY <1>2, <2>1, <2>2, EvaluatorAssumption DEF StateOf, SoundEntry
<1> QED BY <1>1, <1>2

(* accept moves the marks, and only forward. *)
LEMMA AcceptedFacts ==
  ASSUME TypeOK, NEW st, SoundEntry(st), NEW t \in Stamps, Admits(st, t)
  PROVE  /\ SoundEntry(Accepted(st, t))
         /\ Accepted(st, t).lastSeen = clock /\ Accepted(st, t).state = st.state
         /\ Accepted(st, t).lastCycle = Larger(st.lastCycle, t)
         /\ t > clock => /\ Accepted(st, t).pastCycle = st.pastCycle
                         /\ Accepted(st, t).ahead = Trimmed(st.ahead \cup {t})
         /\ ~(t > clock) => /\ Accepted(st, t).pastCycle = t /\ t > st.pastCycle
                            /\ \A x : x \in Accepted(st, t).ahead <=> (x \in st.ahead /\ x > t)
<1>1. clock \in Nat /\ t \in Nat BY StampFacts, EvaluatorAssumption DEF TypeOK, Larger
<1>2. /\ st.state \in {"OK", "PENDING", "FIRING"} /\ st.consecHits \in Nat
      /\ st.lastCycle \in Nat /\ st.pastCycle \in Nat /\ st.ahead \in SUBSET Stamps
      /\ Cardinality(st.ahead) <= AheadCeiling
      /\ st = [state |-> st.state, consecHits |-> st.consecHits, lastSeen |-> st.lastSeen,
               lastCycle |-> st.lastCycle, pastCycle |-> st.pastCycle, ahead |-> st.ahead]
  BY DEF SoundEntry, SourceState
<1>3. Larger(st.lastCycle, t) \in Nat BY <1>1, <1>2 DEF Larger
<1>4. CASE t > clock
  <2>1. Trimmed(st.ahead \cup {t}) \in SUBSET Stamps
        /\ Cardinality(Trimmed(st.ahead \cup {t})) <= AheadCeiling
    BY <1>2, TrimmedFacts
  <2>2. Accepted(st, t) =
          [state |-> st.state, consecHits |-> st.consecHits, lastSeen |-> clock,
           lastCycle |-> Larger(st.lastCycle, t), pastCycle |-> st.pastCycle,
           ahead |-> Trimmed(st.ahead \cup {t})]
    BY <1>2, <1>4 DEF Accepted
  <2> QED BY <1>1, <1>2, <1>3, <1>4, <2>1, <2>2 DEF SoundEntry, SourceState
<1>5. CASE ~(t > clock)
  <2> DEFINE left == {x \in st.ahead : x > t}
  <2>1. left \in SUBSET Stamps BY <1>2
  <2>2. Cardinality(left) <= AheadCeiling
    <3>1. left \in SUBSET st.ahead OBVIOUS
    <3>2. IsFiniteSet(st.ahead) BY <1>2, StampFacts
    <3>3. Cardinality(left) <= Cardinality(st.ahead) BY <3>1, <3>2, FS_Subset
    <3>4. Cardinality(left) \in Nat /\ Cardinality(st.ahead) \in Nat BY <1>2, <2>1, StampFacts
    <3> QED BY <1>2, <3>3, <3>4, EvaluatorAssumption
  <2>3. Accepted(st, t) =
          [state |-> st.state, consecHits |-> st.consecHits, lastSeen |-> clock,
           lastCycle |-> Larger(st.lastCycle, t), pastCycle |-> t, ahead |-> left]
    BY <1>2, <1>5 DEF Accepted
  <2>4. t > st.pastCycle BY <1>5 DEF Admits
  <2> HIDE DEF left
  <2>5. SoundEntry(Accepted(st, t))
    BY <1>1, <1>2, <1>3, <2>1, <2>2, <2>3 DEF SoundEntry, SourceState
  <2> QED BY <1>5, <2>3, <2>4, <2>5 DEF left
<1> QED BY <1>4, <1>5

(* The state machine does not touch the marks. *)
LEMMA JudgedFacts ==
  ASSUME NEW st, SoundEntry(st), NEW bad \in BOOLEAN
  PROVE  SoundEntry(Judged(st, bad)) /\ SameMarks(Judged(st, bad), st)
<1> DEFINE hits == IF bad THEN st.consecHits + 1 ELSE 0
           verdict == IF ~bad THEN "OK"
                      ELSE IF st.state = "FIRING" \/ hits >= Sustained THEN "FIRING" ELSE "PENDING"
<1>1. /\ st.state \in {"OK", "PENDING", "FIRING"} /\ st.consecHits \in Nat
      /\ st.lastSeen \in Nat /\ st.lastCycle \in Nat /\ st.pastCycle \in Nat
      /\ st.ahead \in SUBSET Stamps /\ Cardinality(st.ahead) <= AheadCeiling
      /\ st = [state |-> st.state, consecHits |-> st.consecHits, lastSeen |-> st.lastSeen,
               lastCycle |-> st.lastCycle, pastCycle |-> st.pastCycle, ahead |-> st.ahead]
  BY DEF SoundEntry, SourceState
<1>2. hits \in Nat /\ verdict \in {"OK", "PENDING", "FIRING"} BY <1>1
<1>3. Judged(st, bad) = [st EXCEPT !.consecHits = hits, !.state = verdict] BY DEF Judged
<1> HIDE DEF hits, verdict
<1>4. Judged(st, bad) =
        [state |-> verdict, consecHits |-> hits, lastSeen |-> st.lastSeen,
         lastCycle |-> st.lastCycle, pastCycle |-> st.pastCycle, ahead |-> st.ahead]
  BY <1>1, <1>3
<1> QED BY <1>1, <1>2, <1>4 DEF SoundEntry, SameMarks, SourceState

(* The table after a cycle was applied, before anything is pruned.            *)
LEMMA EvaluatedFacts ==
  ASSUME TypeOK, NEW s \in Sources, NEW t \in Stamps, NEW bad \in BOOLEAN,
         Admits(StateOf(s), t)
  PROVE  /\ DOMAIN Evaluated(s, t, bad) = DOMAIN states \cup {s}
         /\ \A x \in DOMAIN states : x # s => Evaluated(s, t, bad)[x] = states[x]
         /\ \A x \in DOMAIN Evaluated(s, t, bad) : SoundEntry(Evaluated(s, t, bad)[x])
         /\ SameMarks(Evaluated(s, t, bad)[s], Accepted(StateOf(s), t))
         /\ ~Quiet(Evaluated(s, t, bad)[s])
<1> DEFINE E == Evaluated(s, t, bad)
<1>1. SoundEntry(Accepted(StateOf(s), t)) /\ Accepted(StateOf(s), t).lastSeen = clock
  BY EntryOf, AcceptedFacts
<1>2. DOMAIN E = DOMAIN states \cup {s} BY DEF Evaluated
<1>3. E[s] = Judged(Accepted(StateOf(s), t), bad) BY DEF Evaluated
<1>4. \A x \in DOMAIN states : x # s => E[x] = states[x] BY DEF Evaluated
<1> HIDE DEF E
<1>5. SoundEntry(E[s]) /\ SameMarks(E[s], Accepted(StateOf(s), t)) BY <1>1, <1>3, JudgedFacts
<1>6. \A x \in DOMAIN states : SoundEntry(states[x]) BY DEF TypeOK, SoundEntry
<1>7. \A x \in DOMAIN E : SoundEntry(E[x]) BY <1>2, <1>4, <1>5, <1>6
<1>8. ~Quiet(E[s])
  <2>1. E[s].lastSeen = clock BY <1>1, <1>5 DEF SameMarks
  <2>2. LivenessWindow(config.interval) \in Nat
    BY RetentionCoversFreshness DEF TypeOK, LivenessWindow
  <2>3. clock \in Nat BY EvaluatorAssumption DEF TypeOK, Larger
  <2>4. clock - clock = 0 BY <2>3
  <2> QED BY <2>1, <2>2, <2>4 DEF Quiet
<1> QED BY <1>2, <1>4, <1>5, <1>7, <1>8 DEF E

(* What a cycle leaves of the table: entries keep their marks but for the     *)
(* source's own, and only spent entries go.                                   *)
TableAfter(s, t) ==
  /\ s \in DOMAIN states' /\ DOMAIN states' \subseteq DOMAIN states \cup {s}
  /\ \A x \in DOMAIN states' : SoundEntry(states'[x])
  /\ \A x \in DOMAIN states' : x # s => SameMarks(states'[x], states[x])
  /\ SameMarks(states'[s], Accepted(StateOf(s), t))
  /\ \A x \in DOMAIN states : x \notin DOMAIN states' => Spent(states[x])

(* pruneQuietSources keeps the source that was just heard, and every firing.  *)
LEMMA PruneQuietFacts ==
  ASSUME TypeOK, NEW s \in Sources, NEW t \in Stamps, NEW bad \in BOOLEAN,
         Admits(StateOf(s), t), NEW by, by = PruneQuiet(Evaluated(s, t, bad))
  PROVE  /\ s \in DOMAIN by /\ DOMAIN by \subseteq DOMAIN states \cup {s}
         /\ \A x \in DOMAIN by : by[x] = Evaluated(s, t, bad)[x]
         /\ \A x \in DOMAIN by : x # s => x \in DOMAIN states /\ by[x] = states[x]
         /\ \A x \in DOMAIN states :
              x \notin DOMAIN by => Spent(states[x]) /\ states[x].state # "FIRING"
<1> DEFINE E == Evaluated(s, t, bad)
<1>1. /\ DOMAIN E = DOMAIN states \cup {s}
      /\ \A x \in DOMAIN states : x # s => E[x] = states[x]
      /\ ~Quiet(E[s])
  BY EvaluatedFacts
<1> HIDE DEF E
<1>2. /\ DOMAIN by = {x \in DOMAIN E : Quiet(E[x]) /\ Spent(E[x]) => E[x].state = "FIRING"}
      /\ \A x \in DOMAIN by : by[x] = E[x]
  BY DEF PruneQuiet, Keeping, E
<1>3. s \in DOMAIN by BY <1>1, <1>2
<1>4. \A x \in DOMAIN states :
        x \notin DOMAIN by => Spent(states[x]) /\ states[x].state # "FIRING"
  BY <1>1, <1>2, <1>3
<1> QED BY <1>1, <1>2, <1>3, <1>4 DEF E

(* tally keeps the source that was just heard; a quiet one is not firing.     *)
LEMMA TalliedFacts ==
  ASSUME TypeOK, NEW s \in Sources, NEW t \in Stamps, NEW bad \in BOOLEAN,
         Admits(StateOf(s), t), NEW by, by = Tallied(Evaluated(s, t, bad))
  PROVE  /\ s \in DOMAIN by /\ DOMAIN by \subseteq DOMAIN states \cup {s}
         /\ \A x \in DOMAIN by : SoundEntry(by[x]) /\ SameMarks(by[x], Evaluated(s, t, bad)[x])
         /\ \A x \in DOMAIN by : x # s => x \in DOMAIN states /\ SameMarks(by[x], states[x])
         /\ \A x \in DOMAIN states : x \notin DOMAIN by => Spent(states[x])
<1> DEFINE E == Evaluated(s, t, bad)
<1>1. /\ DOMAIN E = DOMAIN states \cup {s}
      /\ \A x \in DOMAIN states : x # s => E[x] = states[x]
      /\ \A x \in DOMAIN E : SoundEntry(E[x])
      /\ ~Quiet(E[s])
  BY EvaluatedFacts
<1> HIDE DEF E
<1>2. /\ DOMAIN by = {x \in DOMAIN E : ~(Quiet(E[x]) /\ Spent(E[x]))}
      /\ \A x \in DOMAIN by :
           by[x] = IF Quiet(E[x]) THEN [E[x] EXCEPT !.state = "OK", !.consecHits = 0] ELSE E[x]
  BY DEF Tallied, E
<1>3. s \in DOMAIN by BY <1>1, <1>2
<1>4. ASSUME NEW x \in DOMAIN by PROVE SoundEntry(by[x]) /\ SameMarks(by[x], E[x])
  <2>1. SoundEntry(E[x]) BY <1>1, <1>2
  <2>2. CASE Quiet(E[x])
    <3>1. by[x] = [E[x] EXCEPT !.state = "OK", !.consecHits = 0] BY <1>2, <2>2
    <3>2. by[x] = [state |-> "OK", consecHits |-> 0, lastSeen |-> E[x].lastSeen,
                   lastCycle |-> E[x].lastCycle, pastCycle |-> E[x].pastCycle,
                   ahead |-> E[x].ahead]
      BY <2>1, <3>1 DEF SoundEntry, SourceState
    <3> QED BY <2>1, <3>2 DEF SoundEntry, SameMarks, SourceState
  <2>3. CASE ~Quiet(E[x])
    <3>1. by[x] = E[x] BY <1>2, <2>3
    <3> QED BY <2>1, <3>1 DEF SameMarks
  <2> QED BY <2>2, <2>3
<1>5. \A x \in DOMAIN by : x # s => x \in DOMAIN states /\ SameMarks(by[x], states[x])
  BY <1>1, <1>2, <1>4
<1>6. \A x \in DOMAIN states : x \notin DOMAIN by => Spent(states[x])
  BY <1>1, <1>2, <1>3
<1> QED BY <1>1, <1>2, <1>3, <1>4, <1>5, <1>6 DEF E

(* Both kinds of evaluation leave such a table. *)
LEMMA CycleTable ==
  ASSUME TypeOK, NEW s \in Sources, NEW t \in Stamps, NEW bad \in BOOLEAN,
         OnCycleAlone(s, t, bad) \/ OnCycleQuorum(s, t, bad)
  PROVE  TableAfter(s, t)
<1> DEFINE E == Evaluated(s, t, bad)
<1>1. Admits(StateOf(s), t) BY DEF OnCycleAlone, OnCycleQuorum, Applies
<1>2. /\ \A x \in DOMAIN E : SoundEntry(E[x])
      /\ DOMAIN E = DOMAIN states \cup {s}
      /\ SameMarks(E[s], Accepted(StateOf(s), t))
  BY <1>1, EvaluatedFacts
<1>3. CASE OnCycleAlone(s, t, bad)
  <2> DEFINE by == PruneQuiet(E)
             prev == StateOf(s).state
  <2>1. PICK accepted \in BOOLEAN : states' = Settled(by, s, prev, accepted)
    BY <1>3 DEF OnCycleAlone, Verdict
  <2>2. /\ s \in DOMAIN by /\ DOMAIN by \subseteq DOMAIN states \cup {s}
        /\ \A x \in DOMAIN by : by[x] = E[x]
        /\ \A x \in DOMAIN by : x # s => x \in DOMAIN states /\ by[x] = states[x]
        /\ \A x \in DOMAIN states : x \notin DOMAIN by => Spent(states[x])
    BY <1>1, PruneQuietFacts
  <2>3. prev \in {"OK", "PENDING", "FIRING"} BY EntryOf DEF SoundEntry, SourceState
  <2> HIDE DEF by, prev, E
  <2>4. /\ DOMAIN states' = DOMAIN by
        /\ \A x \in DOMAIN by : x # s => states'[x] = by[x]
        /\ states'[s] = IF accepted THEN by[s] ELSE [by[s] EXCEPT !.state = prev]
    BY <2>1, <2>2 DEF Settled
  <2>5. SoundEntry(states'[s]) /\ SameMarks(states'[s], E[s])
    <3>1. by[s] = E[s] /\ SoundEntry(E[s]) BY <1>2, <2>2
    <3>2. CASE accepted BY <2>4, <3>1, <3>2 DEF SameMarks
    <3>3. CASE ~accepted
      <4>1. states'[s] = [E[s] EXCEPT !.state = prev] BY <2>4, <3>1, <3>3
      <4>2. states'[s] =
              [state |-> prev, consecHits |-> E[s].consecHits, lastSeen |-> E[s].lastSeen,
               lastCycle |-> E[s].lastCycle, pastCycle |-> E[s].pastCycle,
               ahead |-> E[s].ahead]
        BY <3>1, <4>1 DEF SoundEntry, SourceState
      <4> QED BY <2>3, <3>1, <4>2 DEF SoundEntry, SameMarks, SourceState
    <3> QED BY <3>2, <3>3
  <2>6. \A x \in DOMAIN states' : SoundEntry(states'[x]) BY <1>2, <2>2, <2>4, <2>5
  <2>7. \A x \in DOMAIN states' : x # s => SameMarks(states'[x], states[x])
    BY <2>2, <2>4 DEF SameMarks
  <2>8. SameMarks(states'[s], Accepted(StateOf(s), t)) BY <1>2, <2>5 DEF SameMarks
  <2> QED BY <2>2, <2>4, <2>6, <2>7, <2>8 DEF TableAfter
<1>4. CASE OnCycleQuorum(s, t, bad)
  <2>1. states' = Tallied(E) BY <1>4 DEF OnCycleQuorum
  <2>2. /\ s \in DOMAIN states' /\ DOMAIN states' \subseteq DOMAIN states \cup {s}
        /\ \A x \in DOMAIN states' : SoundEntry(states'[x]) /\ SameMarks(states'[x], E[x])
        /\ \A x \in DOMAIN states' :
             x # s => x \in DOMAIN states /\ SameMarks(states'[x], states[x])
        /\ \A x \in DOMAIN states : x \notin DOMAIN states' => Spent(states[x])
    BY <1>1, <2>1, TalliedFacts
  <2> HIDE DEF E
  <2>3. SameMarks(states'[s], Accepted(StateOf(s), t)) BY <1>2, <2>2 DEF SameMarks
  <2> QED BY <2>2, <2>3 DEF TableAfter
<1> QED BY <1>3, <1>4

-----------------------------------------------------------------------------
(* The steps.                                                                 *)

(* The types after a cycle. *)
LEMMA CycleTypes ==
  ASSUME TypeOK, NEW s \in Sources, NEW t \in Stamps, NEW bad \in BOOLEAN,
         OnCycleAlone(s, t, bad) \/ OnCycleQuorum(s, t, bad)
  PROVE  TypeOK'
<1>1. TableAfter(s, t) BY CycleTable
<1>2. /\ DOMAIN states' \subseteq Sources
      /\ \A x \in DOMAIN states' :
           states'[x] \in SourceState /\ Cardinality(states'[x].ahead) <= AheadCeiling
  BY <1>1 DEF TableAfter, SoundEntry, TypeOK
<1>3. Applies(s, t) BY DEF OnCycleAlone, OnCycleQuorum
<1>4. clock \in Nat BY EvaluatorAssumption DEF TypeOK, Larger
<1>5. /\ cycles' \in Nat /\ applied' \in [Sources -> SUBSET Stamps]
      /\ genuine' \in [Sources -> SUBSET Stamps] /\ heard' \in [Sources -> Nat]
  BY <1>3, <1>4 DEF Applies, TypeOK
<1>6. evicted' \in [Sources -> SUBSET Stamps]
  <2>1. StateOf(s).ahead \in SUBSET Stamps BY EntryOf DEF SoundEntry, SourceState
  <2> DEFINE lost == (StateOf(s).ahead \cup {t}) \ Trimmed(StateOf(s).ahead \cup {t})
  <2>2. lost \in SUBSET Stamps BY <2>1
  <2>3. evicted' = [evicted EXCEPT ![s] = IF t > clock THEN @ \cup lost ELSE @]
    BY <1>3 DEF Applies
  <2> HIDE DEF lost
  <2> QED BY <2>2, <2>3 DEF TypeOK
<1>7. CASE OnCycleAlone(s, t, bad)
  <2>1. told' \in {told, told \cup {s}, told \ {s}} BY <1>7 DEF OnCycleAlone
  <2>2. told' \subseteq Sources BY <2>1 DEF TypeOK
  <2>3. UNCHANGED <<clock, config, enabled, probing, agg, warmup, reloads, toldAgg, flipped>>
    BY <1>7 DEF OnCycleAlone
  <2> QED BY <1>2, <1>5, <1>6, <2>2, <2>3 DEF TypeOK, SourceState
<1>8. CASE OnCycleQuorum(s, t, bad)
  <2>1. UNCHANGED <<clock, config, enabled, probing, reloads, told, flipped>>
    BY <1>8 DEF OnCycleQuorum
  <2>2. warmup' \in [firstSeen : Nat, sourcesSeen : SUBSET Sources]
    <3>1. warmup' = [firstSeen   |-> IF warmup = NoWarmup THEN clock ELSE warmup.firstSeen,
                     sourcesSeen |-> warmup.sourcesSeen \cup {s}]
      BY <1>8 DEF OnCycleQuorum
    <3>2. warmup.firstSeen \in Nat /\ warmup.sourcesSeen \subseteq Sources BY DEF TypeOK
    <3> QED BY <1>4, <3>1, <3>2
  <2>3. agg' \in {NoState, "OK", "FIRING"}
    <3>1. agg' \in {agg, "OK", "FIRING"} BY <1>8 DEF OnCycleQuorum, SettledAgg, TypeOK
    <3> QED BY <3>1 DEF TypeOK
  <2>4. toldAgg' \in BOOLEAN
    <3>1. PICK f \in {toldAgg, TRUE, FALSE} : toldAgg' = f
      <4>1. \E next \in {"OK", "FIRING"}, p \in BOOLEAN :
              toldAgg' = IF p THEN next = "FIRING" ELSE toldAgg
        BY <1>8 DEF OnCycleQuorum
      <4> QED BY <4>1
    <3> QED BY <3>1 DEF TypeOK
  <2> QED BY <1>2, <1>5, <1>6, <2>1, <2>2, <2>3, <2>4 DEF TypeOK, SourceState
<1> QED BY <1>7, <1>8

(* Every step keeps the types. *)
LEMMA TypesStep ==
  ASSUME TypeOK, [Next]_vars
  PROVE  TypeOK'
<1>1. ASSUME NEW s \in Sources, NEW t \in Stamps, NEW bad \in BOOLEAN,
             OnCycleAlone(s, t, bad) \/ OnCycleQuorum(s, t, bad)
      PROVE  TypeOK'
  BY <1>1, CycleTypes
<1>2. CASE Tick
  <2>1. clock' \in 1..Larger(MaxClock, 1)
    BY <1>2, EvaluatorAssumption DEF Tick, TypeOK, Larger
  <2> QED BY <1>2, <2>1 DEF Tick, TypeOK, evaluator, marks, pages, SourceState
<1>3. CASE Reload
  <2>1. probing' \in BOOLEAN /\ flipped' \in BOOLEAN
    <3>1. probing' = (probing \/ config'.named) /\ config'.named \in BOOLEAN
      BY <1>3 DEF Reload
    <3>2. flipped' = (flipped \/ Enabled(config'.quorum) # Enabled(config.quorum))
      BY <1>3 DEF Reload
    <3> QED BY Zenon, <3>1, <3>2 DEF TypeOK
  <2>2. /\ config' \in [interval : Intervals, quorum : Quorums, named : BOOLEAN]
        /\ reloads' \in Nat
        /\ UNCHANGED <<clock, evaluator, cycles, marks, pages>>
    BY <1>3 DEF Reload, TypeOK
  <2> QED BY <2>1, <2>2 DEF TypeOK, evaluator, marks, pages, SourceState
<1>4. CASE Refresh
  <2>1. enabled' \in BOOLEAN
    <3>1. enabled' = Enabled(config.quorum) BY <1>4 DEF Refresh
    <3>2. config.quorum.majority \in BOOLEAN BY DEF TypeOK, Quorums
    <3> QED BY Zenon, <3>1, <3>2 DEF Enabled
  <2>2. warmup' \in [firstSeen : Nat, sourcesSeen : SUBSET Sources] BY <1>4 DEF Refresh, NoWarmup
  <2> QED BY <1>4, <2>1, <2>2 DEF Refresh, TypeOK, marks, pages, SourceState
<1>5. CASE PruneDeparted
  <2>1. warmup' \in [firstSeen : Nat, sourcesSeen : SUBSET Sources]
    BY <1>5 DEF PruneDeparted, NoWarmup
  <2>2. DOMAIN states' = {} BY <1>5 DEF PruneDeparted
  <2>3. /\ applied' \in [Sources -> SUBSET Stamps] /\ genuine' \in [Sources -> SUBSET Stamps]
        /\ evicted' \in [Sources -> SUBSET Stamps]
    BY <1>5 DEF PruneDeparted
  <2> QED BY <1>5, <2>1, <2>2, <2>3 DEF PruneDeparted, TypeOK
<1>6. CASE UNCHANGED vars
  BY <1>6 DEF vars, evaluator, marks, pages, TypeOK, SourceState
<1> QED BY <1>1, <1>2, <1>3, <1>4, <1>5, <1>6 DEF Next

(* A cycle that is applied joins what its source's marks remember, and pushes *)
(* out at most what the ceiling makes it forget.                              *)
LEMMA OwnMarks ==
  ASSUME TypeOK, MarksCover, MarksAreApplied, NEW s \in Sources, NEW t \in Stamps,
         NEW bad \in BOOLEAN, OnCycleAlone(s, t, bad) \/ OnCycleQuorum(s, t, bad)
  PROVE  /\ \A u \in applied'[s] \ evicted'[s] : TooOld(u) \/ Remembers(s, u)'
         /\ genuine'[s] \subseteq applied'[s]
         /\ StateOf(s)'.lastCycle # 0 => StateOf(s)'.lastCycle \in applied'[s]
         /\ StateOf(s)'.pastCycle # 0 => StateOf(s)'.pastCycle \in genuine'[s]
         /\ StateOf(s)'.ahead \subseteq applied'[s]
<1> DEFINE st == StateOf(s)
           a  == Accepted(st, t)
           n  == states'[s]
<1>1. TableAfter(s, t) BY CycleTable
<1>2. Applies(s, t) BY DEF OnCycleAlone, OnCycleQuorum
<1>3. SoundEntry(st) /\ Admits(st, t) BY <1>2, EntryOf DEF Applies
<1>4. s \in DOMAIN states' /\ StateOf(s)' = n BY <1>1 DEF TableAfter, StateOf
<1>5. /\ n.lastCycle = Larger(st.lastCycle, t)
      /\ t > clock => n.pastCycle = st.pastCycle /\ n.ahead = Trimmed(st.ahead \cup {t})
      /\ ~(t > clock) => /\ n.pastCycle = t /\ t > st.pastCycle
                         /\ \A x : x \in n.ahead <=> (x \in st.ahead /\ x > t)
  <2>1. SameMarks(n, a) BY <1>1 DEF TableAfter
  <2>2. a.lastCycle = Larger(st.lastCycle, t) BY <1>3, AcceptedFacts
  <2>3. ASSUME t > clock
        PROVE  a.pastCycle = st.pastCycle /\ a.ahead = Trimmed(st.ahead \cup {t})
    BY <1>3, <2>3, AcceptedFacts
  <2>4. ASSUME ~(t > clock)
        PROVE  a.pastCycle = t /\ t > st.pastCycle
    BY <1>3, <2>4, AcceptedFacts
  <2>5. ASSUME ~(t > clock)
        PROVE  \A x : x \in a.ahead <=> (x \in st.ahead /\ x > t)
    BY <1>3, <2>5, AcceptedFacts
  <2> HIDE DEF n, a, st
  <2> QED BY <2>1, <2>2, <2>3, <2>4, <2>5 DEF SameMarks
<1>6. /\ st.lastCycle \in Nat /\ st.pastCycle \in Nat /\ st.ahead \in SUBSET Stamps
      /\ Cardinality(st.ahead) <= AheadCeiling
      /\ t \in Nat /\ t >= 1 /\ clock \in Nat
  BY <1>3, StampFacts, EvaluatorAssumption DEF SoundEntry, SourceState, TypeOK, Larger
<1>7. Trimmed(st.ahead \cup {t}) \subseteq st.ahead \cup {t} BY <1>6, TrimmedFacts
<1>8. /\ applied'[s] = applied[s] \cup {t}
      /\ t > clock => genuine'[s] = genuine[s]
      /\ ~(t > clock) => genuine'[s] = genuine[s] \cup {t}
      /\ t > clock => evicted'[s] = evicted[s] \cup
                        ((st.ahead \cup {t}) \ Trimmed(st.ahead \cup {t}))
      /\ ~(t > clock) => evicted'[s] = evicted[s]
  BY <1>2 DEF Applies, TypeOK
<1>9. /\ genuine[s] \subseteq applied[s]
      /\ st.lastCycle # 0 => st.lastCycle \in applied[s]
      /\ st.pastCycle # 0 => st.pastCycle \in genuine[s]
      /\ st.ahead \subseteq applied[s]
  BY DEF MarksAreApplied
<1>10. \A u \in applied[s] \ evicted[s] :
         TooOld(u) \/ (u <= st.lastCycle /\ (u <= st.pastCycle \/ u \in st.ahead))
  BY DEF MarksCover, Remembers
<1>11. applied[s] \subseteq Nat BY StampFacts DEF TypeOK
<1> HIDE DEF st, a, n
<1>12. ASSUME NEW u \in applied'[s] \ evicted'[s]
       PROVE  TooOld(u) \/ (u <= n.lastCycle /\ (u <= n.pastCycle \/ u \in n.ahead))
  <2>1. u \in Nat BY <1>6, <1>8, <1>11
  <2>2. CASE u = t
    <3>1. u <= n.lastCycle BY <1>5, <1>6, <2>2 DEF Larger
    <3>2. t > clock => u \in n.ahead BY <1>5, <1>8, <2>2
    <3>3. ~(t > clock) => u <= n.pastCycle BY <1>5, <1>6, <2>2
    <3> QED BY <3>1, <3>2, <3>3
  <2>3. CASE u # t
    <3>1. u \in applied[s] \ evicted[s] BY <1>8, <2>3
    <3>2. CASE u <= st.lastCycle /\ (u <= st.pastCycle \/ u \in st.ahead)
      <4>1. u <= n.lastCycle BY <1>5, <1>6, <2>1, <3>2 DEF Larger
      <4>2. CASE t > clock
        <5>1. u \in st.ahead => u \in n.ahead BY <1>5, <1>8, <4>2
        <5> QED BY <1>5, <3>2, <4>1, <4>2, <5>1
      <4>3. CASE ~(t > clock)
        <5>1. u <= st.pastCycle => u <= n.pastCycle BY <1>5, <1>6, <2>1, <4>3
        <5>2. u \in st.ahead => u <= n.pastCycle \/ u \in n.ahead BY <1>5, <1>6, <2>1, <4>3
        <5> QED BY <3>2, <4>1, <5>1, <5>2
      <4> QED BY <4>2, <4>3
    <3> QED BY <1>10, <3>1, <3>2
  <2> QED BY <2>2, <2>3
<1>13. genuine'[s] \subseteq applied'[s] BY <1>8, <1>9
<1>14. n.lastCycle # 0 => n.lastCycle \in applied'[s] BY <1>5, <1>8, <1>9 DEF Larger
<1>15. n.pastCycle # 0 => n.pastCycle \in genuine'[s] BY <1>5, <1>8, <1>9
<1>16. n.ahead \subseteq applied'[s] BY <1>5, <1>7, <1>8, <1>9
<1> QED BY <1>4, <1>12, <1>13, <1>14, <1>15, <1>16 DEF Remembers

(* The marks of every other source stay, or go with an entry that is spent.   *)
LEMMA OtherMarks ==
  ASSUME TypeOK, MarksCover, MarksAreApplied, NEW s \in Sources, NEW t \in Stamps,
         NEW bad \in BOOLEAN, OnCycleAlone(s, t, bad) \/ OnCycleQuorum(s, t, bad),
         NEW x \in Sources, x # s
  PROVE  /\ \A u \in applied'[x] \ evicted'[x] : TooOld(u) \/ Remembers(x, u)'
         /\ genuine'[x] \subseteq applied'[x]
         /\ StateOf(x)'.lastCycle # 0 => StateOf(x)'.lastCycle \in applied'[x]
         /\ StateOf(x)'.pastCycle # 0 => StateOf(x)'.pastCycle \in genuine'[x]
         /\ StateOf(x)'.ahead \subseteq applied'[x]
<1>1. TableAfter(s, t) BY CycleTable
<1>2. Applies(s, t) BY DEF OnCycleAlone, OnCycleQuorum
<1>3. applied'[x] = applied[x] /\ genuine'[x] = genuine[x] /\ evicted'[x] = evicted[x]
  BY <1>2 DEF Applies, TypeOK
<1>4. /\ \A u \in applied[x] \ evicted[x] :
           TooOld(u) \/ ( /\ u <= StateOf(x).lastCycle
                          /\ (u <= StateOf(x).pastCycle \/ u \in StateOf(x).ahead))
      /\ genuine[x] \subseteq applied[x]
      /\ StateOf(x).lastCycle # 0 => StateOf(x).lastCycle \in applied[x]
      /\ StateOf(x).pastCycle # 0 => StateOf(x).pastCycle \in genuine[x]
      /\ StateOf(x).ahead \subseteq applied[x]
  BY DEF MarksCover, MarksAreApplied, Remembers
<1>5. CASE x \in DOMAIN states'
  <2>1. SameMarks(states'[x], states[x]) /\ x \in DOMAIN states BY <1>1, <1>5 DEF TableAfter
  <2>2. StateOf(x)' = states'[x] /\ StateOf(x) = states[x] BY <1>5, <2>1 DEF StateOf
  <2> QED BY <1>3, <1>4, <2>1, <2>2 DEF SameMarks, Remembers
<1>6. CASE x \notin DOMAIN states'
  <2>1. StateOf(x)' = NewState BY <1>6 DEF StateOf
  <2>2. /\ StateOf(x)'.lastCycle = 0 /\ StateOf(x)'.pastCycle = 0
        /\ StateOf(x)'.ahead = {}
    BY <2>1 DEF NewState
  <2>3. ASSUME NEW u \in applied[x] \ evicted[x] PROVE TooOld(u)
    <3>1. u \in Nat /\ u >= 1 /\ clock \in Nat
      BY StampFacts, EvaluatorAssumption DEF TypeOK, Larger
    <3>2. CASE x \in DOMAIN states
      <4>1. clock - states[x].lastCycle > AlertIdentityRetention
        BY <1>1, <1>6, <3>2 DEF TableAfter, Spent
      <4>2. states[x].lastCycle \in Nat /\ StateOf(x) = states[x]
        BY <3>2 DEF TypeOK, SourceState, StateOf
      <4>3. AlertIdentityRetention \in Nat BY RetentionCoversFreshness, EvaluatorAssumption
      <4>4. u <= states[x].lastCycle => clock - u > AlertIdentityRetention
        BY <3>1, <4>1, <4>2, <4>3
      <4> QED BY <1>4, <4>2, <4>4 DEF TooOld
    <3>3. CASE x \notin DOMAIN states
      <4>1. StateOf(x) = NewState BY <3>3 DEF StateOf
      <4>2. StateOf(x).lastCycle = 0 BY <4>1 DEF NewState
      <4> QED BY <1>4, <3>1, <4>2
    <3> QED BY <3>2, <3>3
  <2> QED BY <1>3, <1>4, <2>2, <2>3
<1> QED BY <1>5, <1>6

(* Every step keeps what the marks remember, and that they invent nothing.    *)
LEMMA MarksStep ==
  ASSUME TypeOK, MarksCover, MarksAreApplied, [Next]_vars
  PROVE  MarksCover' /\ MarksAreApplied'
<1>1. ASSUME NEW s \in Sources, NEW t \in Stamps, NEW bad \in BOOLEAN,
             OnCycleAlone(s, t, bad) \/ OnCycleQuorum(s, t, bad)
      PROVE  MarksCover' /\ MarksAreApplied'
  <2>1. clock' = clock BY <1>1 DEF OnCycleAlone, OnCycleQuorum
  <2>2. \A u : TooOld(u)' <=> TooOld(u) BY <2>1 DEF TooOld
  <2>3. ASSUME NEW x \in Sources
        PROVE  /\ \A u \in applied'[x] \ evicted'[x] : TooOld(u) \/ Remembers(x, u)'
               /\ genuine'[x] \subseteq applied'[x]
               /\ StateOf(x)'.lastCycle # 0 => StateOf(x)'.lastCycle \in applied'[x]
               /\ StateOf(x)'.pastCycle # 0 => StateOf(x)'.pastCycle \in genuine'[x]
               /\ StateOf(x)'.ahead \subseteq applied'[x]
    <3>1. CASE x = s BY <1>1, <3>1, OwnMarks
    <3>2. CASE x # s BY <1>1, <3>2, OtherMarks
    <3> QED BY <3>1, <3>2
  <2>4. MarksCover' BY <2>2, <2>3 DEF MarksCover
  <2>5. MarksAreApplied' BY <2>3 DEF MarksAreApplied
  <2> QED BY <2>4, <2>5
<1>2. ASSUME UNCHANGED <<states, applied, genuine, evicted>>, clock' = clock \/ clock' = clock + 1
      PROVE  MarksCover' /\ MarksAreApplied'
  <2>1. clock \in Nat /\ AlertIdentityRetention \in Nat
    <3>1. clock \in Nat BY EvaluatorAssumption DEF TypeOK, Larger
    <3>2. AlertIdentityRetention \in Nat BY RetentionCoversFreshness, EvaluatorAssumption
    <3> QED BY <3>1, <3>2
  <2>2. \A u \in Nat : TooOld(u) => TooOld(u)' BY <1>2, <2>1 DEF TooOld
  <2>3. \A x \in Sources : StateOf(x)' = StateOf(x) BY <1>2 DEF StateOf
  <2>4. \A x \in Sources : \A u : Remembers(x, u)' <=> Remembers(x, u)
    BY <2>3 DEF Remembers
  <2>5. \A x \in Sources : applied[x] \subseteq Nat BY StampFacts DEF TypeOK
  <2>6. MarksCover' BY <1>2, <2>2, <2>4, <2>5 DEF MarksCover
  <2>7. MarksAreApplied' BY <1>2, <2>3 DEF MarksAreApplied
  <2> QED BY <2>6, <2>7
<1>3. CASE Tick \/ Reload \/ Refresh \/ UNCHANGED vars
  BY <1>2, <1>3 DEF Tick, Reload, Refresh, vars, evaluator, marks
<1>4. CASE PruneDeparted
  <2>1. \A x \in Sources : applied'[x] = {} /\ genuine'[x] = {} /\ evicted'[x] = {}
    BY <1>4 DEF PruneDeparted
  <2>2. \A x \in Sources : StateOf(x)' = NewState BY <1>4 DEF PruneDeparted, StateOf
  <2> QED BY <2>1, <2>2 DEF MarksCover, MarksAreApplied, NewState
<1> QED BY <1>1, <1>3, <1>4 DEF Next

(* What a source was heard of follows its cycles.                             *)
LEMMA HeardStep ==
  ASSUME TypeOK, HeardOf, [Next]_vars
  PROVE  HeardOf'
<1>1. ASSUME NEW s \in Sources, NEW t \in Stamps, NEW bad \in BOOLEAN,
             OnCycleAlone(s, t, bad) \/ OnCycleQuorum(s, t, bad)
      PROVE  HeardOf'
  <2>1. TableAfter(s, t) BY <1>1, CycleTable
  <2>2. Applies(s, t) BY <1>1 DEF OnCycleAlone, OnCycleQuorum
  <2>3. heard' = [heard EXCEPT ![s] = clock] BY <2>2 DEF Applies
  <2>4. clock > 0 /\ clock \in Nat BY EvaluatorAssumption DEF TypeOK, Larger
  <2>5. SoundEntry(StateOf(s)) /\ Admits(StateOf(s), t) BY <2>2, EntryOf DEF Applies
  <2>6. states'[s].lastSeen = clock BY <2>1, <2>5, AcceptedFacts DEF TableAfter, SameMarks
  <2>7. \A x \in Sources : x # s => heard'[x] = heard[x] BY <2>3 DEF TypeOK
  <2>8. heard'[s] = clock BY <2>3 DEF TypeOK
  <2>9. \A x \in DOMAIN states' : states'[x].lastSeen = heard'[x] /\ heard'[x] > 0
    <3> SUFFICES ASSUME NEW x \in DOMAIN states'
                 PROVE  states'[x].lastSeen = heard'[x] /\ heard'[x] > 0
      OBVIOUS
    <3>1. CASE x = s BY <2>4, <2>6, <2>8, <3>1
    <3>2. CASE x # s
      <4>1. x \in DOMAIN states /\ x \in Sources BY <2>1, <3>2 DEF TableAfter, TypeOK
      <4>2. states'[x].lastSeen = states[x].lastSeen
        BY <2>1, <3>2 DEF TableAfter, SameMarks
      <4> QED BY <2>7, <3>2, <4>1, <4>2 DEF HeardOf
    <3> QED BY <3>1, <3>2
  <2>10. \A x \in warmup'.sourcesSeen : x = s \/ x \in warmup.sourcesSeen
    <3>1. CASE OnCycleAlone(s, t, bad) BY <3>1 DEF OnCycleAlone
    <3>2. CASE OnCycleQuorum(s, t, bad)
      <4>1. warmup'.sourcesSeen = warmup.sourcesSeen \cup {s} BY <3>2 DEF OnCycleQuorum
      <4> QED BY <4>1
    <3> QED BY <1>1, <3>1, <3>2
  <2>11. warmup'.sourcesSeen \subseteq {x \in Sources : heard'[x] > 0}
    BY <2>4, <2>7, <2>8, <2>10 DEF HeardOf
  <2> QED BY <2>9, <2>11 DEF HeardOf
<1>2. CASE Tick \/ Reload \/ UNCHANGED vars
  BY <1>2 DEF Tick, Reload, vars, evaluator, marks, HeardOf
<1>3. CASE Refresh BY <1>3 DEF Refresh, marks, HeardOf, NoWarmup
<1>4. CASE PruneDeparted BY <1>4 DEF PruneDeparted, HeardOf, NoWarmup
<1> QED BY <1>1, <1>2, <1>3, <1>4 DEF Next

(* Only a reload switches quorum, and flipped says that one did.              *)
LEMMA SwitchStep ==
  ASSUME TypeOK, SwitchKnown, [Next]_vars
  PROVE  SwitchKnown'
<1>1. ASSUME NEW s \in Sources, NEW t \in Stamps, NEW bad \in BOOLEAN,
             OnCycleAlone(s, t, bad) \/ OnCycleQuorum(s, t, bad)
      PROVE  UNCHANGED <<config, enabled, flipped>>
  BY <1>1 DEF OnCycleAlone, OnCycleQuorum
<1>2. CASE UNCHANGED <<config, enabled, flipped>>
  BY <1>2 DEF SwitchKnown
<1>3. CASE Tick \/ PruneDeparted \/ UNCHANGED vars
  BY <1>2, <1>3 DEF Tick, PruneDeparted, vars, evaluator
<1>4. CASE Reload
  <2>1. /\ flipped' = (flipped \/ Enabled(config'.quorum) # Enabled(config.quorum))
        /\ enabled' = enabled
    BY <1>4 DEF Reload, evaluator
  <2>2. Enabled(config.quorum)' = Enabled(config'.quorum) BY DEF Enabled
  <2> QED BY <2>1, <2>2 DEF SwitchKnown
<1>5. CASE Refresh
  <2>1. UNCHANGED config /\ enabled' = Enabled(config.quorum) BY <1>5 DEF Refresh
  <2> QED BY <2>1 DEF SwitchKnown
<1> QED BY <1>1, <1>2, <1>3, <1>4, <1>5 DEF Next

(* A cycle of an alert without quorum tells what it leaves of the source.     *)
LEMMA AloneTold ==
  ASSUME TypeOK, told = {x \in DOMAIN states : states[x].state = "FIRING"},
         NEW s \in Sources, NEW t \in Stamps, NEW bad \in BOOLEAN, OnCycleAlone(s, t, bad)
  PROVE  told' = {x \in DOMAIN states' : states'[x].state = "FIRING"}
<1> DEFINE by   == PruneQuiet(Evaluated(s, t, bad))
           prev == StateOf(s).state
           next == by[s].state
<1>1. PICK accepted \in BOOLEAN :
        /\ states' = Settled(by, s, prev, accepted)
        /\ told' = IF ~accepted \/ ~Wanted(prev, next) THEN told
                   ELSE IF next = "FIRING" THEN told \cup {s} ELSE told \ {s}
  BY DEF OnCycleAlone, Verdict
<1>2. Admits(StateOf(s), t) BY DEF OnCycleAlone, Applies
<1>3. /\ s \in DOMAIN by
      /\ \A x \in DOMAIN by : SoundEntry(by[x])
      /\ \A x \in DOMAIN by : x # s => x \in DOMAIN states /\ by[x] = states[x]
      /\ \A x \in DOMAIN states : x \notin DOMAIN by => states[x].state # "FIRING"
  <2> DEFINE E == Evaluated(s, t, bad)
  <2>1. /\ DOMAIN E = DOMAIN states \cup {s}
        /\ \A x \in DOMAIN E : SoundEntry(E[x])
    BY <1>2, EvaluatedFacts
  <2>2. /\ s \in DOMAIN by /\ DOMAIN by \subseteq DOMAIN states \cup {s}
        /\ \A x \in DOMAIN by : by[x] = E[x]
        /\ \A x \in DOMAIN by : x # s => x \in DOMAIN states /\ by[x] = states[x]
        /\ \A x \in DOMAIN states : x \notin DOMAIN by => states[x].state # "FIRING"
    BY <1>2, PruneQuietFacts
  <2> HIDE DEF E, by
  <2> QED BY <2>1, <2>2
<1>4. prev = "FIRING" <=> s \in told BY DEF StateOf, NewState
<1> HIDE DEF by, prev
<1>5. /\ DOMAIN states' = DOMAIN by
      /\ \A x \in DOMAIN by : x # s => states'[x] = by[x]
      /\ states'[s].state = IF accepted THEN next ELSE prev
  <2>1. by[s] \in SourceState BY <1>3 DEF SoundEntry
  <2> QED BY <1>1, <1>3, <2>1 DEF Settled, SourceState
<1>6. \A x : x # s => (x \in told' <=> x \in told)
  BY <1>1
<1>7. s \in told' <=> states'[s].state = "FIRING"
  <2> HIDE DEF next
  <2> QED BY <1>1, <1>4, <1>5 DEF Wanted
<1>8. \A x : x # s => (x \in told' <=> x \in DOMAIN states' /\ states'[x].state = "FIRING")
  BY <1>3, <1>5, <1>6
<1>9. \A x : x \in told' <=> x \in DOMAIN states' /\ states'[x].state = "FIRING"
  BY <1>3, <1>5, <1>7, <1>8
<1> QED BY <1>9

(* A cycle of a quorum alert tells what it leaves of the aggregate.           *)
LEMMA QuorumTold ==
  ASSUME TypeOK, toldAgg = (agg = "FIRING"),
         NEW s \in Sources, NEW t \in Stamps, NEW bad \in BOOLEAN, OnCycleQuorum(s, t, bad)
  PROVE  toldAgg' = (agg' = "FIRING")
<1> DEFINE prev == IF agg = NoState THEN "OK" ELSE agg
<1>1. PICK next \in {"OK", "FIRING"}, accepted \in BOOLEAN :
        /\ agg' = IF prev = next THEN agg ELSE SettledAgg(prev, next, accepted)
        /\ toldAgg' = IF prev # next /\ accepted THEN next = "FIRING" ELSE toldAgg
  BY DEF OnCycleQuorum, Verdict
<1>2. prev = "FIRING" <=> agg = "FIRING" BY DEF NoState
<1> HIDE DEF prev
<1>3. CASE prev = next BY <1>1, <1>3
<1>4. CASE prev # next /\ accepted
  <2>1. agg' = next /\ toldAgg' = (next = "FIRING") BY <1>1, <1>4 DEF SettledAgg
  <2> QED BY <2>1
<1>5. CASE prev # next /\ ~accepted
  <2>1. agg' = prev /\ toldAgg' = toldAgg BY <1>1, <1>5 DEF SettledAgg
  <2> QED BY <1>2, <2>1
<1> QED BY <1>3, <1>4, <1>5

(* Every step tells the operator what it leaves.                              *)
LEMMA ToldStep ==
  ASSUME TypeOK, SwitchKnown, ToldWhatIs, [Next]_vars
  PROVE  ToldWhatIs'
<1> USE DEF ToldWhatIs
<1>1. ASSUME NEW s \in Sources, NEW t \in Stamps, NEW bad \in BOOLEAN, OnCycleAlone(s, t, bad)
      PROVE  ToldWhatIs'
  <2>1. ~Enabled(config.quorum) /\ UNCHANGED <<config, flipped>> BY <1>1 DEF OnCycleAlone
  <2>2. ~Enabled(config.quorum)' BY <2>1 DEF Enabled
  <2>3. ~flipped => told' = {x \in DOMAIN states' : states'[x].state = "FIRING"}
    BY <1>1, <2>1, AloneTold
  <2> QED BY <2>1, <2>2, <2>3
<1>2. ASSUME NEW s \in Sources, NEW t \in Stamps, NEW bad \in BOOLEAN, OnCycleQuorum(s, t, bad)
      PROVE  ToldWhatIs'
  <2>1. Enabled(config.quorum) /\ UNCHANGED <<config, flipped>> BY <1>2 DEF OnCycleQuorum
  <2>2. Enabled(config.quorum)' BY <2>1 DEF Enabled
  <2>3. ~flipped => toldAgg' = (agg' = "FIRING") BY <1>2, <2>1, QuorumTold
  <2> QED BY <2>1, <2>2, <2>3
<1>3. CASE UNCHANGED <<config, flipped, states, agg, told, toldAgg>>
  <2>1. Enabled(config.quorum)' = Enabled(config.quorum) BY <1>3 DEF Enabled
  <2> QED BY <1>3, <2>1
<1>4. CASE Tick \/ UNCHANGED vars
  BY <1>3, <1>4 DEF Tick, vars, evaluator, pages
<1>5. CASE Reload
  <2>1. /\ flipped' = (flipped \/ Enabled(config'.quorum) # Enabled(config.quorum))
        /\ UNCHANGED <<states, agg, told, toldAgg>>
    BY <1>5 DEF Reload, evaluator, pages
  <2>2. Enabled(config.quorum)' = Enabled(config'.quorum) BY DEF Enabled
  <2>3. ~flipped' => ~flipped /\ Enabled(config.quorum)' = Enabled(config.quorum)
    BY <2>1, <2>2
  <2> QED BY <2>1, <2>3
<1>6. CASE Refresh
  <2>1. flipped /\ flipped' = flipped BY <1>6 DEF Refresh, SwitchKnown
  <2> QED BY <2>1
<1>7. CASE PruneDeparted
  <2>1. /\ told' = {} /\ toldAgg' = FALSE /\ DOMAIN states' = {} /\ agg' = NoState
    BY <1>7 DEF PruneDeparted
  <2> QED BY <2>1 DEF NoState
<1> QED BY <1>1, <1>2, <1>4, <1>5, <1>6, <1>7 DEF Next

-----------------------------------------------------------------------------
(* The theorems.                                                              *)

(* The invariant holds at the start. *)
LEMMA InitInvariant == Init => IInv
<1> SUFFICES ASSUME Init PROVE IInv
  OBVIOUS
<1>1. /\ clock = 1 /\ DOMAIN states = {} /\ agg = NoState /\ warmup = NoWarmup
      /\ config \in [interval : Intervals, quorum : Quorums, named : {TRUE}]
      /\ enabled = Enabled(config.quorum) /\ probing = TRUE /\ flipped = FALSE
      /\ cycles = 0 /\ reloads = 0 /\ told = {} /\ toldAgg = FALSE
      /\ applied = [s \in Sources |-> {}] /\ genuine = applied /\ evicted = applied
      /\ heard = [s \in Sources |-> 0]
  <2>1. states = <<>> BY DEF Init
  <2>2. DOMAIN states = {} BY <2>1
  <2> QED BY <2>2, Zenon DEF Init
<1>2. enabled \in BOOLEAN
  <2>1. config.quorum.majority \in BOOLEAN BY <1>1 DEF Quorums
  <2> QED BY Zenon, <1>1, <2>1 DEF Enabled
<1>3. 1 \in 1..Larger(MaxClock, 1) BY EvaluatorAssumption DEF Larger
<1>4. TypeOK
  <2>1. warmup \in [firstSeen : Nat, sourcesSeen : SUBSET Sources] BY <1>1 DEF NoWarmup
  <2>2. config \in [interval : Intervals, quorum : Quorums, named : BOOLEAN] BY <1>1
  <2> QED BY <1>1, <1>2, <1>3, <2>1, <2>2 DEF TypeOK
<1>5. \A s \in Sources : StateOf(s) = NewState BY <1>1 DEF StateOf
<1>6. MarksCover /\ MarksAreApplied BY <1>1, <1>5 DEF MarksCover, MarksAreApplied, NewState
<1>7. HeardOf BY <1>1 DEF HeardOf, NoWarmup
<1>8. SwitchKnown BY <1>1 DEF SwitchKnown
<1>9. ToldWhatIs BY <1>1 DEF ToldWhatIs, NoState
<1> QED BY <1>4, <1>6, <1>7, <1>8, <1>9 DEF IInv

(* And every step keeps it. *)
LEMMA StepInvariant == IInv /\ [Next]_vars => IInv'
BY TypesStep, MarksStep, HeardStep, SwitchStep, ToldStep DEF IInv

(* The marks that are kept remember all that was applied and nothing else,    *)
(* and what was heard and told is on record, in every state.                  *)
THEOREM EvaluatorInvariant == Spec => []IInv
BY InitInvariant, StepInvariant, PTL DEF Spec

(* What admits refuses was applied, or is behind a cycle of its kind that was. *)
LEMMA StaleOnly == IInv => RefusesOnlyStale
<1> SUFFICES ASSUME IInv, NEW s \in Sources, NEW t \in Stamps, ~Admits(StateOf(s), t)
             PROVE  \/ t \in applied[s]
                    \/ t > clock /\ \E u \in applied[s] : u > t
                    \/ t <= clock /\ \E u \in genuine[s] : u > t
  BY DEF RefusesOnlyStale
<1> DEFINE st == StateOf(s)
<1>1. /\ st.lastCycle \in Nat /\ st.pastCycle \in Nat /\ t \in Nat /\ t >= 1 /\ clock \in Nat
  BY EntryOf, StampFacts, EvaluatorAssumption DEF IInv, TypeOK, SoundEntry, SourceState, Larger
<1>2. /\ genuine[s] \subseteq applied[s]
      /\ st.lastCycle # 0 => st.lastCycle \in applied[s]
      /\ st.pastCycle # 0 => st.pastCycle \in genuine[s]
      /\ st.ahead \subseteq applied[s]
  BY DEF IInv, MarksAreApplied
<1> HIDE DEF st
<1>3. CASE t > clock
  <2>1. t <= st.lastCycle BY <1>1, <1>3 DEF Admits, st
  <2>2. st.lastCycle \in applied[s] BY <1>1, <1>2, <2>1
  <2> QED BY <1>1, <1>3, <2>1, <2>2
<1>4. CASE ~(t > clock)
  <2>1. t <= st.pastCycle \/ t \in st.ahead BY <1>1, <1>4 DEF Admits, st
  <2>2. CASE t \in st.ahead BY <1>2, <2>2
  <2>3. CASE t <= st.pastCycle
    <3>1. st.pastCycle \in genuine[s] BY <1>1, <1>2, <2>3
    <3> QED BY <1>1, <1>2, <1>4, <2>3, <3>1
  <2> QED BY <2>1, <2>2, <2>3
<1> QED BY <1>3, <1>4

(* No genuine cycle is barred by a stamp ahead of the clock.                  *)
THEOREM EvaluatorIsSound == Spec => []Inv
<1>1. IInv => Inv BY StaleOnly DEF IInv, Inv
<1> QED BY <1>1, EvaluatorInvariant, PTL

(* What the marks remember, or is too old for any schedule, is not applied.   *)
LEMMA NothingTwice == IInv => ReplaysRefused
<1> SUFFICES ASSUME IInv, NEW s \in Sources, NEW t \in applied[s] \ evicted[s], CanApply(s, t)
             PROVE  FALSE
  BY DEF ReplaysRefused
<1>1. t \in Nat /\ clock \in Nat
  <2>1. applied[s] \subseteq Nat BY StampFacts DEF IInv, TypeOK
  <2> QED BY <2>1, EvaluatorAssumption DEF IInv, TypeOK, Larger
<1>2. /\ AlertIdentityRetention \in Nat
      /\ AlertFreshness(MaxInterval) = AlertIdentityRetention
  BY RetentionCoversFreshness, EvaluatorAssumption
<1>3. clock - t <= AlertIdentityRetention /\ Admits(StateOf(s), t) BY <1>2 DEF CanApply
<1>4. ~TooOld(t) BY <1>1, <1>2, <1>3 DEF TooOld
<1>5. /\ t <= StateOf(s).lastCycle
      /\ t <= StateOf(s).pastCycle \/ t \in StateOf(s).ahead
  BY <1>4 DEF IInv, MarksCover, Remembers
<1>6. StateOf(s).lastCycle \in Nat /\ StateOf(s).pastCycle \in Nat
  BY EntryOf DEF IInv, SoundEntry, SourceState
<1> QED BY <1>1, <1>3, <1>5, <1>6 DEF Admits

(* A measurement counts once, under any schedule a later config may adopt.    *)
THEOREM ReplaysAreRefused == Spec => []ReplaysRefused
BY NothingTwice, EvaluatorInvariant, PTL

(* The operator was told what the evaluator keeps.                            *)
THEOREM OperatorIsTold == Spec => []ToldWhatIs
<1>1. IInv => ToldWhatIs BY DEF IInv
<1> QED BY <1>1, EvaluatorInvariant, PTL

(* Who tally counts as live is who was heard from within the window.          *)
LEMMA LiveIsLiving ==
  ASSUME TypeOK, TypeOK', HeardOf'
  PROVE  /\ {s \in Sources : Living(s)} = Live(states')
         /\ IsFiniteSet(Live(states')) /\ IsFiniteSet({s \in Sources : heard'[s] > 0})
<1>1. DOMAIN states' \subseteq Sources /\ \A s \in DOMAIN states' : states'[s].lastSeen = heard'[s]
  BY DEF TypeOK, HeardOf
<1>2. \A s \in DOMAIN states' : heard'[s] \in Nat BY <1>1 DEF TypeOK
<1>3. ASSUME NEW s PROVE (s \in Sources /\ Living(s)) <=> s \in Live(states')
  <2>1. CASE s \notin DOMAIN states' BY <2>1 DEF Living, Live
  <2>2. CASE s \in DOMAIN states'
    <3>1. states'[s].lastSeen = heard'[s] /\ s \in Sources BY <1>1, <2>2
    <3>2. Quiet(states'[s]) <=> clock - heard'[s] > LivenessWindow(config.interval)
      BY <3>1 DEF Quiet
    <3>3. clock \in Nat BY EvaluatorAssumption DEF TypeOK, Larger
    <3>4. LivenessWindow(config.interval) \in Nat
      BY RetentionCoversFreshness DEF TypeOK, LivenessWindow
    <3>5. Quiet(states'[s]) <=> ~(clock - heard'[s] <= LivenessWindow(config.interval))
      BY <1>2, <2>2, <3>2, <3>3, <3>4
    <3> QED BY <2>2, <3>1, <3>5 DEF Living, Live
  <2> QED BY <2>1, <2>2
<1>4. {s \in Sources : Living(s)} = Live(states') BY <1>3
<1>5. Live(states') \subseteq Sources BY <1>1 DEF Live
<1>6. {s \in Sources : heard'[s] > 0} \subseteq Sources OBVIOUS
<1> QED BY <1>4, <1>5, <1>6, FS_Subset, EvaluatorAssumption

(* A page of a majority alert is the voice of the living.                     *)
LEMMA PageStep ==
  ASSUME IInv, IInv', [Next]_vars, toldAgg', ~toldAgg, config.quorum.majority
  PROVE  LET living == {s \in Sources : Living(s)}
             firing == {s \in living : states'[s].state = "FIRING"}
         IN  /\ 2 * Cardinality(firing) > Cardinality(living)
             /\ \/ Cardinality({s \in Sources : heard'[s] > 0}) >= 2
                \/ clock - warmup'.firstSeen >= StalenessWindow(config.interval)
<1>1. PICK s \in Sources, t \in Stamps, bad \in BOOLEAN : OnCycleQuorum(s, t, bad)
  BY DEF Next, Tick, Reload, Refresh, PruneDeparted, OnCycleAlone, vars, pages
<1>2. QuorumReached(states') /\ Ready(warmup')
  <2> DEFINE prev == IF agg = NoState THEN "OK" ELSE agg
             by   == Tallied(Evaluated(s, t, bad))
  <2>1. states' = by BY <1>1 DEF OnCycleQuorum
  <2>2. PICK next \in {"OK", "FIRING"}, accepted \in BOOLEAN :
          /\ next = IF QuorumReached(by) /\ (prev = "FIRING" \/ Ready(warmup'))
                    THEN "FIRING" ELSE "OK"
          /\ toldAgg' = IF prev # next /\ accepted THEN next = "FIRING" ELSE toldAgg
    BY <1>1 DEF OnCycleQuorum, Verdict
  <2> HIDE DEF by
  <2>3. prev # next /\ next = "FIRING" BY <2>2
  <2> HIDE DEF prev
  <2>4. QuorumReached(by) /\ Ready(warmup') BY <2>2, <2>3
  <2> QED BY <2>1, <2>4
<1>3. /\ {x \in Sources : Living(x)} = Live(states')
      /\ IsFiniteSet(Live(states')) /\ IsFiniteSet({x \in Sources : heard'[x] > 0})
  BY LiveIsLiving DEF IInv
<1>4. 2 * Cardinality(Firing(states')) > Cardinality(Live(states'))
  <2>1. Cardinality(Firing(states')) >= (Cardinality(Live(states')) \div 2) + 1
    BY <1>2 DEF QuorumReached, Threshold
  <2>2. Cardinality(Live(states')) \in Nat BY <1>3, FS_CardinalityType
  <2>3. Firing(states') \subseteq Live(states') BY DEF Firing
  <2>4. Cardinality(Firing(states')) \in Nat BY <1>3, <2>3, FS_Subset, FS_CardinalityType
  <2> QED BY <2>1, <2>2, <2>4
<1>5. \/ Cardinality({x \in Sources : heard'[x] > 0}) >= 2
      \/ clock - warmup'.firstSeen >= StalenessWindow(config.interval)
  <2>1. CASE Cardinality(warmup'.sourcesSeen) >= 2
    <3>1. warmup'.sourcesSeen \subseteq {x \in Sources : heard'[x] > 0} BY DEF IInv, HeardOf
    <3> DEFINE H == {x \in Sources : heard'[x] > 0}
    <3> HIDE DEF H
    <3>2. /\ IsFiniteSet(warmup'.sourcesSeen)
          /\ Cardinality(warmup'.sourcesSeen) <= Cardinality(H)
      BY <1>3, <3>1, FS_Subset DEF H
    <3>3. Cardinality(warmup'.sourcesSeen) \in Nat /\ Cardinality(H) \in Nat
      BY <1>3, <3>2, FS_CardinalityType DEF H
    <3> QED BY <2>1, <3>2, <3>3 DEF H
  <2>2. CASE ~(Cardinality(warmup'.sourcesSeen) >= 2) BY <1>2, <2>2 DEF Ready
  <2> QED BY <2>1, <2>2
<1> QED BY <1>3, <1>4, <1>5 DEF Firing

(* Whatever the sources' clocks say, a majority page is the living majority's. *)
THEOREM MajorityIsLiving == Spec => MajorityPages
<1>1. IInv /\ IInv' /\ [Next]_vars =>
        [toldAgg' /\ ~toldAgg /\ config.quorum.majority =>
           LET living == {s \in Sources : Living(s)}
               firing == {s \in living : states'[s].state = "FIRING"}
           IN  /\ 2 * Cardinality(firing) > Cardinality(living)
               /\ \/ Cardinality({s \in Sources : heard'[s] > 0}) >= 2
                  \/ clock - warmup'.firstSeen >= StalenessWindow(config.interval)]_vars
  BY PageStep
<1> QED BY <1>1, EvaluatorInvariant, PTL DEF Spec, MajorityPages

-----------------------------------------------------------------------------
(* The events that are committed and whose delivery has not begun to tell.    *)
AtHand == worker \in {"cancel", "cancelling", "dispatch"}

Pipe == {pending[i] : i \in 1..Len(pending)} \cup (IF AtHand THEN {inHand} ELSE {})

(* The queue holds the events in the order they were committed, the one in    *)
(* hand ahead of them, and whatever was delivered was ahead of that.          *)
QueueOrder ==
  /\ \A i, j \in 1..Len(pending) : i < j => pending[i].id < pending[j].id
  /\ \A i \in 1..Len(pending) : inHand.id < pending[i].id
  /\ inHand.id <= events
  /\ \A e \in Pipe : e.id <= events
  /\ \A e \in Pipe, s \in States : posted[s].id < e.id
  /\ \A e \in Pipe, k \in Keys : paged[k] < e.id
  /\ \A e \in Pipe : \A i \in DOMAIN resolves : i < e.id
  /\ \A s \in States : posted[s].id <= events /\ committed[s].id <= events
  /\ \A k \in Keys : paged[k] <= events
  /\ \A i \in DOMAIN resolves : i <= events

(* The running total of what the shard holds, the event in hand first: the    *)
(* bytes reserved are its last value.                                         *)
Totals(sum) ==
  /\ sum \in [0..Len(pending) -> Nat]
  /\ sum[0] = inHand.bytes
  /\ \A i \in 1..Len(pending) : sum[i] = sum[i - 1] + pending[i].bytes
  /\ \A i, j \in 0..Len(pending) : i <= j => sum[i] <= sum[j]
  /\ sum[Len(pending)] = queuedBytes

BytesAdd == \E sum \in [0..Len(pending) -> Nat] : Totals(sum)

(* A resolve whose POST may still begin. *)
Alive(i) == i \in DOMAIN resolves /\ resolves[i].stage = "waiting" /\ ~resolves[i].cancelled

(* No resolve of s may still post, but for those Close is about to cancel;    *)
(* none of the key k may.                                                     *)
Stilled(s) == \A i \in DOMAIN resolves : Alive(i) /\ resolves[i].of = s => i \in dCancels

Harmless(k) == \A i \in DOMAIN resolves : Alive(i) /\ KeyOf(resolves[i].of) = k => i \in dCancels

(* What the stages of the worker and of the two Close calls imply. *)
Stages ==
  /\ cancels # {} => worker = "cancelling"
  /\ worker \in {"cancel", "cancelling"} => inHand.next = "FIRING"
  /\ worker \in {"draining", "gone"} => quit
  /\ worker = "gone" => pending = <<>>
  /\ quit => closed
  /\ dClosed => quit /\ listed = {}
  /\ ~dClosed => dCancels = {}

(* A resolve that may still post is on the map, or about to be cancelled, is  *)
(* the only one of its state, and newer than the last notification of the     *)
(* state and the last firing of the key; before a firing is posted there is   *)
(* none of the key.                                                           *)
ResolvesFound ==
  /\ \A i \in DOMAIN resolves : Alive(i) => i \in listed \cup cancels \cup dCancels
  /\ \A i \in cancels : i \in DOMAIN resolves => KeyOf(resolves[i].of) = KeyOf(inHand.of)
  /\ \A i, j \in DOMAIN resolves : Alive(i) /\ Alive(j) /\ resolves[i].of = resolves[j].of => i = j
  /\ \A i \in DOMAIN resolves : Alive(i) /\ i \notin dCancels =>
       posted[resolves[i].of].id < i /\ paged[KeyOf(resolves[i].of)] < i
  /\ worker = "cancelling" =>
       \A i \in DOMAIN resolves :
         Alive(i) /\ KeyOf(resolves[i].of) = KeyOf(inHand.of) => i \in cancels \cup dCancels
  /\ worker = "dispatch" /\ inHand.next = "FIRING" => Harmless(KeyOf(inHand.of))

(* The firing g comes before the transition n, and no recovery of s between   *)
(* the two: g silences s until n.  Or s is silent already: stilled, and with  *)
(* no recovery on its way before n.                                           *)
Recovers(s, e) == e.of = s /\ e.next = "OK"

Silences(s, g, n) ==
  /\ g \in Pipe /\ KeyOf(g.of) = KeyOf(s) /\ g.next = "FIRING" /\ g.id < n
  /\ \A e \in Pipe : Recovers(s, e) => ~(g.id < e.id /\ e.id < n)

Silent(s, n) ==
  Stilled(s) /\ \A e \in Pipe : Recovers(s, e) => ~(e.id < n)

(* When it comes to the transition n no resolve of s may post any more.       *)
Guarded(s, n) == Silent(s, n) \/ \E g \in Pipe : Silences(s, g, n)

(* A recovery is told of once the firing before it has silenced its state, so *)
(* that one resolve of a state waits at a time.                               *)
Recoveries ==
  worker \notin {"draining", "gone"} =>
    /\ \A e \in Pipe : e.next = "OK" => Guarded(e.of, e.id)
    /\ \A s \in States : committed[s].next = "FIRING" => Guarded(s, events + 1)

(* What the evaluator keeps of a state is its last transition.                *)
Commits ==
  /\ \A s \in States : committed[s].id = 0 => committed[s] = Untold
  /\ \A e \in Pipe : LET c == committed[e.of] IN
       c.id = 0 \/ e.id < c.id \/ (e.id = c.id /\ e.next = c.next)
  /\ \A i \in DOMAIN resolves : LET c == committed[resolves[i].of] IN c.id = 0 \/ i <= c.id

(* Once the last transition of a state was delivered the operator knows it,   *)
(* or its resolve waits, or a firing of the key came or comes in between.     *)
Known(s) ==
  \/ posted[s] = committed[s]
  \/ /\ committed[s].next = "OK"
     /\ \/ Alive(committed[s].id) /\ resolves[committed[s].id].of = s
        \/ paged[KeyOf(s)] > committed[s].id
        \/ \E g \in Pipe : KeyOf(g.of) = KeyOf(s) /\ g.next = "FIRING" /\ committed[s].id < g.id

(* The transition the evaluator keeps is yet to be told. *)
Awaited(s) == \E e \in Pipe : e.of = s /\ e.id = committed[s].id

OperatorTold ==
  ~closed => \A s \in States :
    committed[s].id # 0 /\ KeyOf(s) \notin panicked /\ ~Awaited(s) => Known(s)

ShardIInv == ShardTypeOK /\ QueueOrder /\ BytesAdd /\ Stages /\ ResolvesFound
            /\ Recoveries /\ Commits /\ OperatorTold

(* A step of the shard that is not a step of its queue. *)
AroundQueue ==
  \/ Close \/ CloseQuit \/ DispatcherClose \/ DispatcherCancels
  \/ Leave \/ CancelPending \/ Cancels
  \/ \E i \in DOMAIN resolves : Resolve(i)

(* The event in hand is told: posted, left to a goroutine or lost to a panic. *)
Tells == PostFiring \/ DelayWebhook \/ Panic

(* A state is one of its key. *)
LEMMA StateFacts ==
  ASSUME NEW s \in States
  PROVE  KeyOf(s) \in Keys
BY DeliveryAssumption DEF KeyOf

(* What an event is made of. *)
LEMMA EventFacts ==
  ASSUME NEW e \in Event
  PROVE  /\ e.of \in States /\ KeyOf(e.of) \in Keys
         /\ e.id \in 1..MaxEvents /\ e.id \in Nat /\ e.id # 0
         /\ e.next \in {"OK", "FIRING"} /\ e.bytes \in Nat \ {0} /\ e # NoEvent
<1>1. /\ e.of \in States /\ e.id \in 1..MaxEvents /\ e.next \in {"OK", "FIRING"} /\ e.bytes \in Sizes
  BY DEF Event, Ids
<1>2. e.bytes \in Nat \ {0} /\ e.id \in Nat /\ e.id # 0
  <2>1. Sizes \subseteq Nat \ {0} /\ MaxEvents \in Nat
    BY DeliveryAssumption
  <2>2. e.bytes \in Nat \ {0}
    BY <1>1, <2>1
  <2>3. \A n \in 1..MaxEvents : n \in Nat /\ n # 0
    BY <2>1
  <2> QED BY <1>1, <2>2, <2>3
<1>3. e # NoEvent
  BY <1>2 DEF NoEvent
<1>4. KeyOf(e.of) \in Keys
  BY <1>1, StateFacts
<1> QED BY <1>1, <1>2, <1>3, <1>4

(* The queue and the event in hand. *)
LEMMA QueueFacts ==
  ASSUME ShardTypeOK
  PROVE  /\ pending \in Seq(Event) /\ Len(pending) \in Nat
         /\ \A i \in 1..Len(pending) : pending[i] \in Event
         /\ worker \notin {"idle", "draining", "gone"} => inHand \in Event
         /\ inHand.id \in Nat /\ inHand.bytes \in Nat /\ events \in Nat
         /\ Pipe \subseteq Event
<1>1. pending \in Seq(Event) /\ Len(pending) \in Nat /\ events \in Nat
      /\ \A i \in 1..Len(pending) : pending[i] \in Event
  BY ElementOfSeq DEF ShardTypeOK
<1>2. worker \notin {"idle", "draining", "gone"} => inHand \in Event
  BY DEF ShardTypeOK
<1>3. inHand.id \in Nat /\ inHand.bytes \in Nat
  <2>1. CASE inHand \in Event
    BY <2>1, EventFacts
  <2>2. CASE inHand = NoEvent
    BY <2>2 DEF NoEvent
  <2> QED BY <2>1, <2>2 DEF ShardTypeOK
<1>4. Pipe \subseteq Event
  BY <1>1, <1>2 DEF Pipe, AtHand
<1> QED BY <1>1, <1>2, <1>3, <1>4

(* The events of the shard stay where they are in a step around its queue.    *)
LEMMA AroundFacts ==
  ASSUME AroundQueue \/ UNCHANGED shardVars
  PROVE  /\ UNCHANGED <<committed, events, pending, queuedBytes, inHand, paged, panicked>>
         /\ AtHand' = AtHand /\ Pipe' = Pipe
<1>1. /\ UNCHANGED <<committed, events, pending, queuedBytes, inHand, paged, panicked>>
      /\ AtHand' = AtHand
  <2>1. CASE Close
    BY <2>1 DEF Close, kept, queue, outside, AtHand
  <2>2. CASE CloseQuit
    BY <2>2 DEF CloseQuit, kept, queue, outside, AtHand
  <2>3. CASE DispatcherClose
    BY <2>3 DEF DispatcherClose, kept, queue, outside, AtHand
  <2>4. CASE DispatcherCancels
    BY <2>4 DEF DispatcherCancels, kept, queue, outside, AtHand
  <2>5. CASE Leave
    BY <2>5 DEF Leave, kept, queue, outside, AtHand
  <2>6. CASE CancelPending
    BY <2>6 DEF CancelPending, kept, queue, outside, AtHand
  <2>7. CASE Cancels
    BY <2>7 DEF Cancels, kept, queue, outside, AtHand
  <2>8. ASSUME NEW i, Resolve(i)
        PROVE  /\ UNCHANGED <<committed, events, pending, queuedBytes, inHand, paged, panicked>>
               /\ AtHand' = AtHand
    BY <2>8 DEF Resolve, GraceEnds, ResolvePosted, RemovePending,
       kept, queue, outside, AtHand
  <2>9. CASE UNCHANGED shardVars
    BY <2>9 DEF shardVars, kept, queue, outside, AtHand
  <2> QED BY <2>1, <2>2, <2>3, <2>4, <2>5, <2>6, <2>7, <2>8, <2>9 DEF AroundQueue
<1> QED BY <1>1 DEF Pipe

(* Telling takes the event in hand out of the pipe. *)
LEMMA TellFacts ==
  ASSUME ShardIInv, Tells
  PROVE  /\ UNCHANGED <<committed, events, pending, queuedBytes, inHand, cancels, closed, quit,
                        dClosed, dCancels>>
         /\ worker = "dispatch" /\ worker' = "posting" /\ inHand \in Event /\ inHand \in Pipe
         /\ Pipe' = Pipe \ {inHand}
         /\ \A e \in Pipe' : inHand.id < e.id /\ e \in Pipe
<1>1. /\ UNCHANGED <<committed, events, pending, queuedBytes, inHand, cancels, closed, quit, dClosed, dCancels>>
      /\ worker = "dispatch" /\ worker' = "posting"
  BY DEF Tells, PostFiring, DelayWebhook, Panic, kept, queue,
     dispatcher, outside
<1>2. inHand \in Event /\ inHand.id \in Nat
  BY <1>1, QueueFacts DEF ShardIInv
<1>3. inHand \in Pipe
  BY <1>1 DEF Pipe, AtHand
<1>4. Pipe' = {pending[i] : i \in 1..Len(pending)}
  BY <1>1 DEF Pipe, AtHand
<1>5. \A i \in 1..Len(pending) : inHand.id < pending[i].id
  BY DEF ShardIInv, QueueOrder
<1>6. Pipe = {pending[i] : i \in 1..Len(pending)} \cup {inHand}
  BY <1>1 DEF Pipe, AtHand
<1>7. \A i \in 1..Len(pending) : pending[i] # inHand
  BY <1>2, <1>5
<1> QED BY <1>1, <1>2, <1>3, <1>4, <1>5, <1>6, <1>7

(* A transition puts its event behind every other. *)
LEMMA TransitionFacts ==
  ASSUME ShardIInv, NEW s \in States, NEW bytes \in Sizes, Transition(s, bytes)
  PROVE  /\ UNCHANGED <<worker, inHand, cancels, closed, quit, resolves, listed, dClosed, dCancels,
                        posted, paged, panicked>>
         /\ ~closed /\ events' = events + 1 /\ events' \in 1..MaxEvents /\ queuedBytes' = queuedBytes + bytes
         /\ committed' \in [States -> Told] /\ committed'[s].id = events + 1
         /\ committed'[s].next = "FIRING" <=> committed[s].next = "OK"
         /\ \A x \in States : x # s => committed'[x] = committed[x]
         /\ \E e \in Event :
              /\ e.of = s /\ e.id = events + 1 /\ e.next = committed'[s].next /\ e.bytes = bytes
              /\ pending' = Append(pending, e) /\ Len(pending') = Len(pending) + 1
              /\ pending'[Len(pending) + 1] = e
              /\ \A i \in 1..Len(pending) : pending'[i] = pending[i]
              /\ Pipe' = Pipe \cup {e}
         /\ pending' \in Seq(Event) /\ Len(pending') <= ShardDepth
<1>0. ShardTypeOK
  BY DEF ShardIInv
<1>1. PICK next, e : /\ next = (IF committed[s].next = "OK" THEN "FIRING" ELSE "OK")
                     /\ e = [of |-> s, id |-> events + 1, next |-> next, bytes |-> bytes]
  OBVIOUS
<1>2. /\ ~closed /\ events < MaxEvents /\ Len(pending) < ShardDepth
      /\ committed' = [committed EXCEPT ![s] = [id |-> events + 1, next |-> next]]
      /\ pending' = Append(pending, e)
      /\ events' = events + 1 /\ queuedBytes' = queuedBytes + bytes
      /\ UNCHANGED <<worker, inHand, cancels, closed, quit, resolves, listed, dClosed, dCancels,
                     posted, paged, panicked>>
  BY <1>1 DEF Transition, Takes, dispatcher, outside
<1>3. events \in Nat /\ MaxEvents \in Nat /\ events + 1 \in 1..MaxEvents
  BY <1>0, <1>2, QueueFacts, DeliveryAssumption
<1>4. e \in Event
  BY <1>1, <1>3 DEF Event, Ids
<1>5. e.of = s /\ e.id = events + 1 /\ e.next = next /\ e.bytes = bytes
  BY <1>1
<1>6. /\ committed' \in [States -> Told] /\ committed'[s] = [id |-> events + 1, next |-> next]
      /\ \A x \in States : x # s => committed'[x] = committed[x]
  <2>1. [id |-> events + 1, next |-> next] \in Told
    BY <1>1, <1>3 DEF Told
  <2> QED BY <1>0, <1>2, <2>1 DEF ShardTypeOK
<1>7. committed'[s].id = events + 1 /\ committed'[s].next = next
      /\ (committed'[s].next = "FIRING" <=> committed[s].next = "OK")
  BY <1>1, <1>6
<1>8. pending \in Seq(Event) /\ Len(pending) \in Nat
  BY <1>0, QueueFacts
<1>9. /\ Len(pending') = Len(pending) + 1 /\ pending'[Len(pending) + 1] = e
      /\ pending' \in Seq(Event)
      /\ \A i \in 1..Len(pending) : pending'[i] = pending[i]
  BY <1>2, <1>4, <1>8, AppendProperties
<1>10. Len(pending') <= ShardDepth
  BY <1>2, <1>8, <1>9, DeliveryAssumption
<1>11. Pipe' = Pipe \cup {e}
  <2>1. {pending'[i] : i \in 1..Len(pending')} = {pending[i] : i \in 1..Len(pending)} \cup {e}
    <3>1. 1..Len(pending') = 1..Len(pending) \cup {Len(pending) + 1}
      BY <1>8, <1>9
    <3> QED BY <1>9, <3>1
  <2> QED BY <1>2, <2>1 DEF Pipe, AtHand
<1> QED BY <1>2, <1>3, <1>4, <1>5, <1>6, <1>7, <1>9, <1>10, <1>11

(* A pair that departs changes nothing but what is kept. *)
LEMMA DepartFacts ==
  ASSUME ShardTypeOK, NEW k \in Keys, Depart(k)
  PROVE  /\ UNCHANGED <<events, pending, queuedBytes, worker, inHand, cancels, closed, quit, resolves,
                        listed, dClosed, dCancels, posted, paged, panicked>>
         /\ Pipe' = Pipe /\ committed' \in [States -> Told]
         /\ \A s \in States : committed'[s] = committed[s] \/ committed'[s] = Untold
<1>1. /\ UNCHANGED <<events, pending, queuedBytes, worker, inHand, cancels, closed, quit, resolves,
                     listed, dClosed, dCancels, posted, paged, panicked>>
      /\ committed' = [s \in States |-> IF KeyOf(s) = k THEN Untold ELSE committed[s]]
  BY DEF Depart, queue, dispatcher, outside
<1>2. \A s \in States : committed'[s] = committed[s] \/ committed'[s] = Untold
  BY <1>1
<1>3. Untold \in Told
  BY DeliveryAssumption DEF Told, Untold
<1>4. committed' \in [States -> Told]
  BY <1>1, <1>3 DEF ShardTypeOK
<1>5. Pipe' = Pipe
  BY <1>1 DEF Pipe, AtHand
<1> QED BY <1>1, <1>2, <1>4, <1>5

(* The first event of the queue leaves it: into the worker's hands, or, once  *)
(* the worker is draining, for good.                                          *)
LEMMA HeadFacts ==
  ASSUME ShardTypeOK, pending # <<>>, pending' = Tail(pending)
  PROVE  /\ Head(pending) = pending[1] /\ pending[1] \in Event /\ 1 \in 1..Len(pending)
         /\ pending' \in Seq(Event) /\ Len(pending') = Len(pending) - 1 /\ Len(pending') \in Nat
         /\ Len(pending') <= ShardDepth
         /\ \A i \in 1..Len(pending') : pending'[i] = pending[i + 1] /\ i + 1 \in 1..Len(pending)
         /\ {pending[i] : i \in 1..Len(pending)} = {pending'[i] : i \in 1..Len(pending')} \cup {pending[1]}
<1>1. pending \in Seq(Event) /\ Len(pending) \in Nat /\ Len(pending) <= ShardDepth
  BY QueueFacts DEF ShardTypeOK
<1>2. Len(pending) # 0
  BY <1>1, EmptySeq
<1>3. /\ Head(pending) = pending[1] /\ pending' \in Seq(Event) /\ Len(pending') = Len(pending) - 1
      /\ \A i \in 1..Len(pending') : pending'[i] = pending[i + 1]
  BY <1>1, HeadTailProperties
<1>4. 1 \in 1..Len(pending) /\ pending[1] \in Event
  BY <1>1, <1>2, ElementOfSeq
<1>5. Len(pending') \in Nat /\ Len(pending') <= ShardDepth
  BY <1>1, <1>2, <1>3, DeliveryAssumption
<1>6. \A i \in 1..Len(pending') : i + 1 \in 1..Len(pending)
  BY <1>1, <1>2, <1>3
<1>7. \A i \in 1..Len(pending) : i = 1 \/ (i - 1 \in 1..Len(pending') /\ (i - 1) + 1 = i)
  BY <1>1, <1>2, <1>3
<1>8. {pending[i] : i \in 1..Len(pending)} \subseteq {pending'[i] : i \in 1..Len(pending')} \cup {pending[1]}
  <2>1. ASSUME NEW i \in 1..Len(pending), i # 1
        PROVE  \E j \in 1..Len(pending') : pending[i] = pending'[j]
    <3>1. i - 1 \in 1..Len(pending') /\ (i - 1) + 1 = i
      BY <1>7, <2>1
    <3>2. pending'[i - 1] = pending[(i - 1) + 1]
      BY <1>3, <3>1
    <3> QED BY <3>1, <3>2
  <2>2. \A i \in 1..Len(pending) : pending[i] \in {pending'[j] : j \in 1..Len(pending')} \cup {pending[1]}
    BY Zenon, <2>1
  <2> QED BY Zenon, <2>2
<1>9. {pending'[i] : i \in 1..Len(pending')} \cup {pending[1]} \subseteq {pending[i] : i \in 1..Len(pending)}
  BY <1>3, <1>4, <1>6
<1> QED BY <1>3, <1>4, <1>5, <1>6, <1>8, <1>9

-----------------------------------------------------------------------------
(* Types.                                                                     *)

(* A resolve that a step marks or moves stays one.                            *)
LEMMA ResolveTypes ==
  ASSUME ShardTypeOK
  PROVE  /\ \A S : /\ DOMAIN Cancelled(S) = DOMAIN resolves
                   /\ \A i \in DOMAIN resolves :
                        /\ Cancelled(S)[i].of = resolves[i].of
                        /\ Cancelled(S)[i].stage = resolves[i].stage
                        /\ Cancelled(S)[i].cancelled = (resolves[i].cancelled \/ i \in S)
                        /\ Cancelled(S)[i]
                              \in [of : States, stage : {"waiting", "posting", "leaving"}, cancelled : BOOLEAN]
         /\ \A i \in DOMAIN resolves : \A s \in {"posting", "leaving"} :
              /\ DOMAIN Moved(i, s) = DOMAIN resolves
              /\ Moved(i, s)[i].of = resolves[i].of /\ Moved(i, s)[i].stage = s
              /\ Moved(i, s)[i].cancelled = resolves[i].cancelled
              /\ \A j \in DOMAIN resolves :
                   /\ Moved(i, s)[j]
                         \in [of : States, stage : {"waiting", "posting", "leaving"}, cancelled : BOOLEAN]
                   /\ j # i => Moved(i, s)[j] = resolves[j]
<1> DEFINE R == [of : States, stage : {"waiting", "posting", "leaving"}, cancelled : BOOLEAN]
<1>1. \A i \in DOMAIN resolves : resolves[i] \in R
  BY DEF ShardTypeOK
<1>2. ASSUME NEW S, NEW i \in DOMAIN resolves
      PROVE  /\ Cancelled(S)[i].of = resolves[i].of
             /\ Cancelled(S)[i].stage = resolves[i].stage
             /\ Cancelled(S)[i].cancelled = (resolves[i].cancelled \/ i \in S)
             /\ Cancelled(S)[i] \in R
  <2>1. CASE i \in S
    <3>1. Cancelled(S)[i] = [resolves[i] EXCEPT !.cancelled = TRUE]
      BY <2>1 DEF Cancelled
    <3>2. resolves[i] \in R
      BY <1>1
    <3> QED BY <2>1, <3>1, <3>2
  <2>2. CASE i \notin S
    <3>1. Cancelled(S)[i] = resolves[i]
      BY <2>2 DEF Cancelled
    <3>2. resolves[i] \in R
      BY <1>1
    <3> QED BY <2>2, <3>1, <3>2
  <2> QED BY <2>1, <2>2
<1>3. ASSUME NEW i \in DOMAIN resolves, NEW s \in {"posting", "leaving"}
      PROVE  /\ DOMAIN Moved(i, s) = DOMAIN resolves
             /\ Moved(i, s)[i].of = resolves[i].of /\ Moved(i, s)[i].stage = s
             /\ Moved(i, s)[i].cancelled = resolves[i].cancelled
             /\ \A j \in DOMAIN resolves :
                  /\ Moved(i, s)[j] \in R
                  /\ j # i => Moved(i, s)[j] = resolves[j]
  <2>1. /\ DOMAIN Moved(i, s) = DOMAIN resolves
        /\ Moved(i, s)[i] = [resolves[i] EXCEPT !.stage = s]
        /\ \A j \in DOMAIN resolves : j # i => Moved(i, s)[j] = resolves[j]
    BY DEF Moved
  <2>2. resolves[i] \in R
    BY <1>1
  <2>3. [resolves[i] EXCEPT !.stage = s].of = resolves[i].of /\ [resolves[i] EXCEPT !.stage = s].stage = s
        /\ [resolves[i] EXCEPT !.stage = s].cancelled = resolves[i].cancelled
        /\ [resolves[i] EXCEPT !.stage = s] \in R
    BY <2>2
  <2>4. \A j \in DOMAIN resolves : Moved(i, s)[j] \in R
    BY <1>1, <2>1, <2>3
  <2> QED BY <2>1, <2>3, <2>4
<1>4. \A S : DOMAIN Cancelled(S) = DOMAIN resolves
  BY DEF Cancelled
<1> QED BY <1>2, <1>3, <1>4

(* The steps of the queue keep the type. *)
LEMMA QueueTypes ==
  ASSUME ShardIInv,
         \/ \E s \in States, bytes \in Sizes : Transition(s, bytes)
         \/ \E k \in Keys : Depart(k)
         \/ Take \/ Drain
  PROVE  /\ queuedBytes' \in Nat => ShardTypeOK'
         /\ UNCHANGED <<cancels, closed, quit, resolves, listed, dClosed, dCancels, posted, paged, panicked>>
<1>0. ShardTypeOK
  BY DEF ShardIInv
<1>1. ASSUME NEW s \in States, NEW bytes \in Sizes, Transition(s, bytes)
      PROVE  /\ queuedBytes' \in Nat => ShardTypeOK'
             /\ UNCHANGED <<cancels, closed, quit, resolves, listed, dClosed, dCancels, posted, paged, panicked>>
  <2>1. /\ UNCHANGED <<worker, inHand, cancels, closed, quit, resolves, listed, dClosed, dCancels,
                       posted, paged, panicked>>
        /\ events' \in 1..MaxEvents /\ committed' \in [States -> Told]
        /\ pending' \in Seq(Event) /\ Len(pending') <= ShardDepth
    BY <1>1, TransitionFacts
  <2>2. events' \in 0..MaxEvents
    BY <2>1, DeliveryAssumption
  <2> QED BY <1>0, <2>1, <2>2 DEF ShardTypeOK
<1>4. ASSUME NEW k \in Keys, Depart(k)
      PROVE  /\ queuedBytes' \in Nat => ShardTypeOK'
             /\ UNCHANGED <<cancels, closed, quit, resolves, listed, dClosed, dCancels, posted, paged, panicked>>
  BY <1>0, <1>4, DepartFacts DEF ShardTypeOK
<1>2. CASE Take
  <2>1. /\ worker = "idle" /\ pending # <<>> /\ inHand' = Head(pending) /\ pending' = Tail(pending)
        /\ worker' = IF inHand'.next = "FIRING" THEN "cancel" ELSE "dispatch"
        /\ UNCHANGED <<committed, events, queuedBytes, cancels, closed, quit, resolves, listed,
                       dClosed, dCancels, posted, paged, panicked>>
    BY <1>2 DEF Take, kept, dispatcher, outside
  <2>2. inHand' \in Event /\ inHand' # NoEvent
    BY <1>0, <2>1, HeadFacts, EventFacts
  <2>3. pending' \in Seq(Event) /\ Len(pending') <= ShardDepth
    BY <1>0, <2>1, HeadFacts
  <2>4. inHand' = NoEvent <=> worker' \in {"idle", "draining", "gone"}
    BY <2>1, <2>2
  <2> QED BY <1>0, <2>1, <2>2, <2>3, <2>4 DEF ShardTypeOK
<1>3. CASE Drain
  <2>1. /\ worker = "draining"
        /\ UNCHANGED <<committed, events, inHand, cancels, closed, quit, resolves, listed, dClosed,
                       dCancels, posted, paged, panicked>>
    BY <1>3 DEF Drain, kept, dispatcher, outside
  <2>2. CASE pending = <<>>
    <3>1. worker' = "gone" /\ UNCHANGED <<pending, queuedBytes>>
      BY <1>3, <2>2 DEF Drain, queue
    <3> QED BY <1>0, <2>1, <3>1 DEF ShardTypeOK
  <2>3. CASE pending # <<>>
    <3>1. worker' = worker /\ pending' = Tail(pending)
      BY <1>3, <2>3 DEF Drain
    <3>2. pending' \in Seq(Event) /\ Len(pending') <= ShardDepth
      BY <1>0, <2>3, <3>1, HeadFacts
    <3> QED BY <1>0, <2>1, <3>1, <3>2 DEF ShardTypeOK
  <2> QED BY <2>2, <2>3
<1> QED BY <1>1, <1>2, <1>3, <1>4

(* So do those around it.                                                     *)
LEMMA AroundTypes ==
  ASSUME ShardIInv, AroundQueue \/ UNCHANGED shardVars
  PROVE  ShardTypeOK'
<1>0. /\ ShardTypeOK
      /\ UNCHANGED <<committed, events, pending, queuedBytes, inHand, paged, panicked>>
  BY AroundFacts DEF ShardIInv
<1>1. CASE Close \/ CloseQuit \/ Leave \/ UNCHANGED shardVars
  BY <1>0, <1>1 DEF ShardTypeOK, Close, CloseQuit, Leave, shardVars, dispatcher,
     outside, kept, queue
<1>2. CASE DispatcherClose \/ CancelPending
  <2>1. /\ UNCHANGED <<closed, quit, resolves, posted>>
        /\ listed' \subseteq listed
    BY <1>2 DEF DispatcherClose, CancelPending, outside
  <2>2. cancels' \cup dCancels' \subseteq cancels \cup dCancels \cup listed
    BY <1>2 DEF DispatcherClose, CancelPending, OfKey
  <2>3. dClosed' \in BOOLEAN
    BY <1>0, <1>2 DEF DispatcherClose, CancelPending, ShardTypeOK
  <2>4. /\ worker' \in {"idle", "cancel", "cancelling", "dispatch", "posting", "draining", "gone"}
        /\ inHand' = NoEvent <=> worker' \in {"idle", "draining", "gone"}
    BY <1>0, <1>2 DEF DispatcherClose, CancelPending, ShardTypeOK
  <2> QED BY <1>0, <2>1, <2>2, <2>3, <2>4 DEF ShardTypeOK
<1>3. CASE DispatcherCancels \/ Cancels
  <2>1. PICK S : resolves' = Cancelled(S)
    BY <1>3 DEF DispatcherCancels, Cancels
  <2>2. DOMAIN resolves' = DOMAIN resolves
        /\ \A i \in DOMAIN resolves' :
             resolves'[i] \in [of : States, stage : {"waiting", "posting", "leaving"}, cancelled : BOOLEAN]
    BY <1>0, <2>1, ResolveTypes
  <2>3. /\ UNCHANGED <<closed, quit, listed, dClosed, posted>>
        /\ cancels' \subseteq cancels /\ dCancels' \subseteq dCancels
    BY <1>3 DEF DispatcherCancels, Cancels, outside
  <2>4. /\ worker' \in {"idle", "cancel", "cancelling", "dispatch", "posting", "draining", "gone"}
        /\ inHand' = NoEvent <=> worker' \in {"idle", "draining", "gone"}
    BY <1>0, <1>3 DEF DispatcherCancels, Cancels, ShardTypeOK
  <2> QED BY <1>0, <2>2, <2>3, <2>4 DEF ShardTypeOK
<1>4. ASSUME NEW i \in DOMAIN resolves, GraceEnds(i) \/ ResolvePosted(i) PROVE ShardTypeOK'
  <2>1. PICK s \in {"posting", "leaving"} : resolves' = Moved(i, s)
    BY <1>4 DEF GraceEnds, ResolvePosted
  <2>2. DOMAIN resolves' = DOMAIN resolves
        /\ \A j \in DOMAIN resolves' :
             resolves'[j] \in [of : States, stage : {"waiting", "posting", "leaving"}, cancelled : BOOLEAN]
    BY <1>0, <2>1, ResolveTypes
  <2>3. UNCHANGED <<worker, cancels, closed, quit, listed, dClosed, dCancels>>
    BY <1>4 DEF GraceEnds, ResolvePosted
  <2>4. posted' \in [States -> Told]
    <3>1. posted' = posted \/ posted' = [posted EXCEPT ![resolves[i].of] = [id |-> i, next |-> "OK"]]
      BY <1>4 DEF GraceEnds, ResolvePosted, outside
    <3>2. [id |-> i, next |-> "OK"] \in Told
      BY <1>0, DeliveryAssumption DEF ShardTypeOK, Ids, Told
    <3> QED BY <1>0, <3>1, <3>2 DEF ShardTypeOK
  <2> QED BY <1>0, <2>2, <2>3, <2>4 DEF ShardTypeOK
<1>5. ASSUME NEW i \in DOMAIN resolves, RemovePending(i) PROVE ShardTypeOK'
  <2>1. /\ DOMAIN resolves' = DOMAIN resolves \ {i} /\ \A j \in DOMAIN resolves' : resolves'[j] = resolves[j]
        /\ listed' = listed \ {i}
        /\ UNCHANGED <<worker, cancels, closed, quit, dClosed, dCancels, posted>>
    BY <1>5 DEF RemovePending, outside
  <2> QED BY <1>0, <2>1 DEF ShardTypeOK
<1> QED BY <1>1, <1>2, <1>3, <1>4, <1>5 DEF AroundQueue, Resolve

(* And those that tell, or end a delivery. *)
LEMMA TellTypes ==
  ASSUME ShardIInv, Tells
  PROVE  ShardTypeOK'
<1>0. /\ ShardTypeOK
      /\ UNCHANGED <<committed, events, pending, queuedBytes, inHand, cancels, closed, quit, dClosed, dCancels>>
      /\ worker = "dispatch" /\ worker' = "posting" /\ inHand \in Event
  BY TellFacts DEF ShardIInv
<1>1. inHand.id \in 0..MaxEvents /\ inHand.id \in Ids /\ inHand.of \in States /\ KeyOf(inHand.of) \in Keys
  BY <1>0, EventFacts, DeliveryAssumption DEF Ids
<1>2. inHand' = NoEvent <=> worker' \in {"idle", "draining", "gone"}
  BY <1>0 DEF ShardTypeOK
<1>3. CASE PostFiring
  <2>1. /\ posted' = [posted EXCEPT ![inHand.of] = [id |-> inHand.id, next |-> "FIRING"]]
        /\ paged' = [paged EXCEPT ![KeyOf(inHand.of)] = inHand.id]
        /\ UNCHANGED <<resolves, listed, panicked>>
    BY <1>3 DEF PostFiring, dispatcher
  <2>2. [id |-> inHand.id, next |-> "FIRING"] \in Told /\ paged' \in [Keys -> 0..MaxEvents]
    BY <1>0, <1>1, <2>1 DEF Told, ShardTypeOK
  <2>3. posted' \in [States -> Told]
    BY <1>0, <2>1, <2>2 DEF ShardTypeOK
  <2> QED BY <1>0, <1>2, <2>1, <2>2, <2>3 DEF ShardTypeOK
<1>4. CASE DelayWebhook
  <2>1. UNCHANGED <<posted, paged, panicked>>
    BY <1>4 DEF DelayWebhook, outside
  <2>2. CASE dClosed
    <3>1. UNCHANGED <<resolves, listed>>
      BY <1>4, <2>2 DEF DelayWebhook
    <3> QED BY <1>0, <1>2, <2>1, <3>1 DEF ShardTypeOK
  <2>3. CASE ~dClosed
    <3>1. /\ DOMAIN resolves' = DOMAIN resolves \cup {inHand.id} /\ listed' = listed \cup {inHand.id}
          /\ resolves'[inHand.id] = [of |-> inHand.of, stage |-> "waiting", cancelled |-> FALSE]
          /\ \A j \in DOMAIN resolves : j # inHand.id => resolves'[j] = resolves[j]
      BY <1>4, <2>3 DEF DelayWebhook
    <3>2. [of |-> inHand.of, stage |-> "waiting", cancelled |-> FALSE]
             \in [of : States, stage : {"waiting", "posting", "leaving"}, cancelled : BOOLEAN]
      BY <1>1
    <3>3. \A j \in DOMAIN resolves' :
             resolves'[j] \in [of : States, stage : {"waiting", "posting", "leaving"}, cancelled : BOOLEAN]
      BY <1>0, <3>1, <3>2 DEF ShardTypeOK
    <3> QED BY <1>0, <1>1, <1>2, <2>1, <3>1, <3>3 DEF ShardTypeOK
  <2> QED BY <2>2, <2>3
<1>5. CASE Panic
  <2>1. UNCHANGED <<resolves, listed, posted, paged>> /\ panicked' = panicked \cup {KeyOf(inHand.of)}
    BY <1>5 DEF Panic, dispatcher
  <2> QED BY <1>0, <1>1, <1>2, <2>1 DEF ShardTypeOK
<1> QED BY <1>3, <1>4, <1>5 DEF Tells

(* The delivery ends. *)
LEMMA DeliveredFacts ==
  ASSUME ShardIInv, Delivered
  PROVE  /\ UNCHANGED <<committed, events, pending, cancels, closed, quit, resolves, listed,
                        dClosed, dCancels, posted, paged, panicked>>
         /\ worker = "posting" /\ worker' = "idle" /\ inHand' = NoEvent
         /\ queuedBytes' = queuedBytes - inHand.bytes /\ Pipe' = Pipe
         /\ queuedBytes' \in Nat => ShardTypeOK'
<1>1. /\ UNCHANGED <<committed, events, pending, cancels, closed, quit, resolves, listed, dClosed,
                     dCancels, posted, paged, panicked>>
      /\ worker = "posting" /\ worker' = "idle" /\ inHand' = NoEvent
      /\ queuedBytes' = queuedBytes - inHand.bytes
  BY DEF Delivered, kept, dispatcher, outside
<1>2. Pipe' = Pipe
  BY <1>1 DEF Pipe, AtHand
<1>3. queuedBytes' \in Nat => ShardTypeOK'
  BY <1>1 DEF ShardIInv, ShardTypeOK
<1> QED BY <1>1, <1>2, <1>3

-----------------------------------------------------------------------------
(* The bytes reserved.                                                        *)

(* They are the event in hand's and the queue's. *)
LEMMA TotalFacts ==
  ASSUME ShardIInv
  PROVE  \E sum \in [0..Len(pending) -> Nat] :
           /\ Totals(sum)
           /\ Len(pending) \in Nat
           /\ \A i \in 0..Len(pending) : sum[i] \in Nat /\ inHand.bytes <= sum[i]
           /\ sum[Len(pending)] = queuedBytes
           /\ queuedBytes \in Nat /\ inHand.bytes \in Nat
<1>1. PICK sum \in [0..Len(pending) -> Nat] : Totals(sum)
  BY DEF ShardIInv, BytesAdd
<1>2. Len(pending) \in Nat /\ inHand.bytes \in Nat
  BY QueueFacts DEF ShardIInv
<1>3. \A i \in 0..Len(pending) : sum[0] <= sum[i] /\ sum[i] \in Nat /\ 0 \in 0..Len(pending)
  BY <1>1, <1>2 DEF Totals
<1>4. sum[Len(pending)] = queuedBytes /\ sum[0] = inHand.bytes
  BY <1>1 DEF Totals
<1>5. queuedBytes \in Nat
  BY <1>2, <1>3, <1>4
<1> QED BY <1>1, <1>2, <1>3, <1>4, <1>5

(* An event that comes in adds its own. *)
LEMMA TransitionBytes ==
  ASSUME ShardIInv, NEW s \in States, NEW bytes \in Sizes, Transition(s, bytes)
  PROVE  BytesAdd' /\ queuedBytes' \in Nat
<1>1. PICK sum \in [0..Len(pending) -> Nat] :
        /\ Totals(sum) /\ Len(pending) \in Nat
        /\ \A i \in 0..Len(pending) : sum[i] \in Nat
        /\ sum[Len(pending)] = queuedBytes /\ queuedBytes \in Nat
  BY TotalFacts
<1>2. /\ inHand' = inHand /\ queuedBytes' = queuedBytes + bytes
      /\ Len(pending') = Len(pending) + 1 /\ pending'[Len(pending) + 1].bytes = bytes
      /\ \A i \in 1..Len(pending) : pending'[i] = pending[i]
  BY TransitionFacts
<1>3. bytes \in Nat
  BY DeliveryAssumption
<1>4. PICK n \in Nat, q \in Nat : n = Len(pending) /\ q = queuedBytes
  BY <1>1
<1>5. /\ sum \in [0..n -> Nat] /\ sum[0] = inHand.bytes
      /\ \A i \in 1..n : sum[i] = sum[i - 1] + pending[i].bytes
      /\ \A i, j \in 0..n : i <= j => sum[i] <= sum[j]
      /\ sum[n] = q
  BY <1>1, <1>4 DEF Totals
<1> DEFINE new == [i \in 0..(n + 1) |-> IF i <= n THEN sum[i] ELSE q + bytes]
<1>6. \A i \in 0..(n + 1) : i \in 0..n \/ (i = n + 1 /\ ~(i <= n))
  OBVIOUS
<1>7. /\ \A i \in 0..n : new[i] = sum[i]
      /\ new[n + 1] = q + bytes
  OBVIOUS
<1>8. new \in [0..(n + 1) -> Nat]
  BY <1>1, <1>3, <1>4, <1>6, <1>7
<1> HIDE DEF new
<1>9. \A i \in 1..(n + 1) : new[i] = new[i - 1] + pending'[i].bytes
  <2> TAKE i \in 1..(n + 1)
  <2>1. CASE i = n + 1
    <3>1. i - 1 = n /\ n \in 0..n
      BY <2>1
    <3> QED BY <1>2, <1>4, <1>5, <1>7, <2>1, <3>1
  <2>2. CASE i # n + 1
    <3>1. i \in 1..n /\ i \in 0..n /\ i - 1 \in 0..n
      BY <2>2
    <3> QED BY <1>2, <1>4, <1>5, <1>7, <3>1
  <2> QED BY <2>1, <2>2
<1>10. \A i, j \in 0..(n + 1) : i <= j => new[i] <= new[j]
  <2> SUFFICES ASSUME NEW i \in 0..(n + 1), NEW j \in 0..(n + 1), i <= j PROVE new[i] <= new[j]
    OBVIOUS
  <2>1. CASE i \in 0..n /\ j \in 0..n
    BY <1>5, <1>7, <2>1
  <2>2. CASE i \in 0..n /\ j = n + 1
    <3>1. sum[i] <= q /\ sum[i] \in Nat
      BY <1>1, <1>4, <1>5, <2>2
    <3>2. sum[i] <= q + bytes
      BY <1>1, <1>3, <3>1
    <3> QED BY <1>7, <2>2, <3>2
  <2>3. CASE i = n + 1
    <3>1. j = n + 1
      BY <2>3
    <3> QED BY <1>1, <1>3, <1>7, <2>3, <3>1
  <2> QED BY <1>6, <2>1, <2>2, <2>3
<1>11. new[0] = inHand.bytes
  BY <1>5, <1>7
<1>12. Totals(new)'
  <2>1. Len(pending') = n + 1 /\ inHand'.bytes = inHand.bytes /\ queuedBytes' = q + bytes
    BY <1>2, <1>4
  <2> QED BY <1>7, <1>8, <1>9, <1>10, <1>11, <2>1 DEF Totals
<1>13. new \in [0..Len(pending') -> Nat]
  BY <1>2, <1>4, <1>8
<1>14. queuedBytes' \in Nat
  BY <1>1, <1>2, <1>3
<1> QED BY <1>12, <1>13, <1>14 DEF BytesAdd

(* One that leaves the queue keeps its bytes while the worker holds it, and   *)
(* gives them back when it is dropped.                                        *)
LEMMA HeadBytes ==
  ASSUME ShardIInv, pending # <<>>, pending' = Tail(pending),
         inHand = NoEvent, inHand' \in Event \cup {NoEvent},
         NEW given \in Nat, given + inHand'.bytes = Head(pending).bytes, queuedBytes' = queuedBytes - given
  PROVE  BytesAdd' /\ queuedBytes' \in Nat
<1>1. PICK sum \in [0..Len(pending) -> Nat] :
        /\ Totals(sum) /\ Len(pending) \in Nat
        /\ \A i \in 0..Len(pending) : sum[i] \in Nat
        /\ sum[Len(pending)] = queuedBytes /\ queuedBytes \in Nat
  BY TotalFacts
<1>2. /\ Head(pending) = pending[1] /\ 1 \in 1..Len(pending)
      /\ Len(pending') = Len(pending) - 1 /\ Len(pending') \in Nat
      /\ \A i \in 1..Len(pending') : pending'[i] = pending[i + 1] /\ i + 1 \in 1..Len(pending)
  BY HeadFacts DEF ShardIInv
<1>3. inHand'.bytes \in Nat /\ inHand.bytes = 0
  <2>1. CASE inHand' \in Event
    BY <2>1, EventFacts DEF NoEvent
  <2>2. CASE inHand' = NoEvent
    BY <2>2 DEF NoEvent
  <2> QED BY <2>1, <2>2
<1>4. PICK n \in Nat : n + 1 = Len(pending) /\ n = Len(pending')
  <2>1. Len(pending') + 1 = Len(pending)
    BY <1>1, <1>2
  <2> QED BY <1>2, <2>1
<1>5. /\ sum[0] = 0
      /\ \A i \in 1..(n + 1) : sum[i] = sum[i - 1] + pending[i].bytes
      /\ \A i, j \in 0..(n + 1) : i <= j => sum[i] <= sum[j]
      /\ \A i \in 0..(n + 1) : sum[i] \in Nat
      /\ sum[n + 1] = queuedBytes
  BY <1>1, <1>3, <1>4 DEF Totals
<1>6. sum[1] = given + inHand'.bytes
  <2>1. 1 \in 1..(n + 1) /\ 1 - 1 = 0
    OBVIOUS
  <2>2. sum[1] = sum[0] + pending[1].bytes
    BY <1>5, <2>1
  <2>3. pending[1].bytes \in Nat
    BY <1>2, <1>3
  <2> QED BY <1>2, <1>5, <2>2, <2>3
<1>7. \A i \in 0..n : i + 1 \in 0..(n + 1) /\ 1 \in 0..(n + 1) /\ 1 <= i + 1
  OBVIOUS
<1>8. \A i \in 0..n : given <= sum[i + 1] /\ sum[i + 1] \in Nat
  <2> TAKE i \in 0..n
  <2>1. sum[1] <= sum[i + 1] /\ sum[1] \in Nat /\ sum[i + 1] \in Nat
    BY <1>5, <1>7
  <2> QED BY <1>3, <1>6, <2>1
<1> DEFINE new == [i \in 0..n |-> sum[i + 1] - given]
<1>9. /\ \A i \in 0..n : new[i] = sum[i + 1] - given
      /\ new \in [0..n -> Nat]
  BY <1>8
<1> HIDE DEF new
<1>10. new[0] = inHand'.bytes
  <2>1. 0 \in 0..n /\ 0 + 1 = 1
    OBVIOUS
  <2>2. new[0] = sum[1] - given
    BY <1>9, <2>1
  <2> QED BY <1>3, <1>6, <2>2
<1>11. \A i \in 1..n : new[i] = new[i - 1] + pending'[i].bytes
  <2> TAKE i \in 1..n
  <2>1. i \in 0..n /\ i - 1 \in 0..n /\ (i - 1) + 1 = i /\ i + 1 \in 1..(n + 1) /\ (i + 1) - 1 = i
    OBVIOUS
  <2>2. sum[i + 1] = sum[i] + pending[i + 1].bytes
    BY <1>5, <2>1
  <2>3. pending'[i] = pending[i + 1] /\ pending[i + 1].bytes \in Nat
    <3>1. pending[i + 1] \in Event
      BY <1>4, <2>1, QueueFacts DEF ShardIInv
    <3> QED BY <1>2, <1>4, <3>1, EventFacts
  <2>4. new[i] = sum[i + 1] - given /\ new[i - 1] = sum[i] - given
    BY <1>9, <2>1
  <2>5. sum[i] \in Nat /\ sum[i + 1] \in Nat
    BY <1>5, <2>1
  <2>6. \A x, y, z \in Nat : x = y + z => x - given = (y - given) + z
    OBVIOUS
  <2>7. sum[i + 1] - given = (sum[i] - given) + pending[i + 1].bytes
    BY <2>2, <2>3, <2>5, <2>6
  <2> QED BY <2>3, <2>4, <2>7
<1>12. \A i, j \in 0..n : i <= j => new[i] <= new[j]
  <2> SUFFICES ASSUME NEW i \in 0..n, NEW j \in 0..n, i <= j PROVE new[i] <= new[j]
    OBVIOUS
  <2>1. i + 1 <= j + 1
    OBVIOUS
  <2>2. sum[i + 1] <= sum[j + 1] /\ sum[i + 1] \in Nat /\ sum[j + 1] \in Nat
    BY <1>5, <1>7, <2>1
  <2>3. new[i] = sum[i + 1] - given /\ new[j] = sum[j + 1] - given
    BY <1>9
  <2> QED BY <2>2, <2>3
<1>13. new[n] = queuedBytes' /\ queuedBytes' \in Nat
  <2>1. n \in 0..n
    OBVIOUS
  <2>2. new[n] = sum[n + 1] - given /\ new[n] \in Nat
    BY <1>9, <2>1
  <2> QED BY <1>5, <2>2
<1>14. Totals(new)'
  BY <1>4, <1>9, <1>10, <1>11, <1>12, <1>13 DEF Totals
<1> QED BY <1>4, <1>9, <1>13, <1>14 DEF BytesAdd

(* The end of a delivery gives back those of the event in hand. *)
LEMMA DeliveredBytes ==
  ASSUME ShardIInv, Delivered
  PROVE  BytesAdd' /\ queuedBytes' \in Nat
<1>1. PICK sum \in [0..Len(pending) -> Nat] :
        /\ Totals(sum) /\ Len(pending) \in Nat
        /\ \A i \in 0..Len(pending) : sum[i] \in Nat /\ inHand.bytes <= sum[i]
        /\ sum[Len(pending)] = queuedBytes /\ inHand.bytes \in Nat
  BY TotalFacts
<1>2. pending' = pending /\ inHand'.bytes = 0 /\ queuedBytes' = queuedBytes - inHand.bytes
  BY DeliveredFacts DEF NoEvent
<1>3. PICK n \in Nat, b \in Nat : n = Len(pending) /\ b = inHand.bytes
  BY <1>1
<1>4. /\ sum[0] = b /\ \A i \in 1..n : sum[i] = sum[i - 1] + pending[i].bytes
      /\ \A i, j \in 0..n : i <= j => sum[i] <= sum[j]
      /\ sum[n] = queuedBytes
  BY <1>1, <1>3 DEF Totals
<1> DEFINE new == [i \in 0..n |-> sum[i] - b]
<1>5. /\ \A i \in 0..n : new[i] = sum[i] - b /\ sum[i] \in Nat /\ b <= sum[i]
      /\ new \in [0..n -> Nat]
  BY <1>1, <1>3
<1> HIDE DEF new
<1>6. new[0] = 0
  <2>1. 0 \in 0..n
    OBVIOUS
  <2> QED BY <1>4, <1>5, <2>1
<1>7. \A i \in 1..n : new[i] = new[i - 1] + pending[i].bytes
  <2> TAKE i \in 1..n
  <2>1. i \in 0..n /\ i - 1 \in 0..n
    OBVIOUS
  <2>2. pending[i].bytes \in Nat
    <3>1. pending[i] \in Event
      BY <1>3, QueueFacts DEF ShardIInv
    <3> QED BY <3>1, EventFacts
  <2>3. /\ new[i] = sum[i] - b /\ new[i - 1] = sum[i - 1] - b
        /\ sum[i - 1] \in Nat /\ sum[i] = sum[i - 1] + pending[i].bytes
    BY <1>4, <1>5, <2>1
  <2> QED BY <2>2, <2>3
<1>8. \A i, j \in 0..n : i <= j => new[i] <= new[j]
  <2> SUFFICES ASSUME NEW i \in 0..n, NEW j \in 0..n, i <= j PROVE new[i] <= new[j]
    OBVIOUS
  <2>1. sum[i] <= sum[j] /\ sum[i] \in Nat /\ sum[j] \in Nat
    BY <1>4, <1>5
  <2>2. new[i] = sum[i] - b /\ new[j] = sum[j] - b
    BY <1>5
  <2> QED BY <2>1, <2>2
<1>9. new[n] = queuedBytes' /\ queuedBytes' \in Nat
  <2>1. n \in 0..n
    OBVIOUS
  <2>2. new[n] = sum[n] - b /\ new[n] \in Nat
    BY <1>5, <2>1
  <2> QED BY <1>2, <1>3, <1>4, <2>2
<1>10. Totals(new)'
  BY <1>2, <1>3, <1>5, <1>6, <1>7, <1>8, <1>9 DEF Totals
<1> QED BY <1>2, <1>3, <1>5, <1>9, <1>10 DEF BytesAdd

(* No other step changes what the shard holds. *)
LEMMA SameBytes ==
  ASSUME ShardIInv, UNCHANGED <<pending, inHand, queuedBytes>>
  PROVE  BytesAdd' /\ queuedBytes' \in Nat
<1>1. PICK sum \in [0..Len(pending) -> Nat] : Totals(sum)
  BY DEF ShardIInv, BytesAdd
<1>2. Totals(sum)' /\ sum \in [0..Len(pending') -> Nat]
  BY <1>1 DEF Totals
<1>3. queuedBytes' \in Nat
  BY DEF ShardIInv, ShardTypeOK
<1> QED BY <1>2, <1>3 DEF BytesAdd

-----------------------------------------------------------------------------
(* The order of the queue.                                                    *)

(* The worker's hands get the head of the queue, from the same pipe. *)
LEMMA TakeFacts ==
  ASSUME ShardIInv, Take
  PROVE  /\ UNCHANGED <<committed, events, queuedBytes, cancels, closed, quit, resolves, listed,
                        dClosed, dCancels, posted, paged, panicked>>
         /\ pending # <<>> /\ pending' = Tail(pending) /\ inHand' = Head(pending) /\ inHand = NoEvent
         /\ worker = "idle" /\ worker' = IF inHand'.next = "FIRING" THEN "cancel" ELSE "dispatch"
         /\ AtHand' /\ Pipe' = Pipe /\ inHand' = pending[1]
<1>1. /\ UNCHANGED <<committed, events, queuedBytes, cancels, closed, quit, resolves, listed,
                     dClosed, dCancels, posted, paged, panicked>>
      /\ pending # <<>> /\ pending' = Tail(pending) /\ inHand' = Head(pending)
      /\ worker = "idle" /\ worker' = IF inHand'.next = "FIRING" THEN "cancel" ELSE "dispatch"
  BY DEF Take, kept, dispatcher, outside
<1>2. inHand = NoEvent
  BY <1>1 DEF ShardIInv, ShardTypeOK
<1>3. AtHand' /\ ~AtHand
  BY <1>1 DEF AtHand
<1>4. Head(pending) = pending[1] /\
      {pending[i] : i \in 1..Len(pending)} = {pending'[i] : i \in 1..Len(pending')} \cup {pending[1]}
  BY <1>1, HeadFacts DEF ShardIInv
<1>5. Pipe' = Pipe
  BY <1>1, <1>3, <1>4 DEF Pipe
<1> QED BY <1>1, <1>2, <1>3, <1>4, <1>5

(* A draining worker drops the head of the queue, or is gone. *)
LEMMA DrainFacts ==
  ASSUME ShardIInv, Drain
  PROVE  /\ UNCHANGED <<committed, events, inHand, cancels, closed, quit, resolves, listed,
                        dClosed, dCancels, posted, paged, panicked>>
         /\ worker = "draining" /\ worker' \in {"draining", "gone"} /\ inHand = NoEvent
         /\ ~AtHand /\ ~AtHand' /\ Pipe' \subseteq Pipe
         /\ \A e \in Pipe', g \in Pipe \ Pipe' : g.id < e.id
         /\ \/ pending = <<>> /\ UNCHANGED <<pending, queuedBytes>>
            \/ /\ pending # <<>> /\ worker' = "draining" /\ pending' = Tail(pending)
               /\ queuedBytes' = queuedBytes - Head(pending).bytes
<1>1. /\ UNCHANGED <<committed, events, inHand, cancels, closed, quit, resolves, listed, dClosed,
                     dCancels, posted, paged, panicked>>
      /\ worker = "draining" /\ worker' \in {"draining", "gone"}
      /\ \/ pending = <<>> /\ UNCHANGED <<pending, queuedBytes>>
         \/ /\ pending # <<>> /\ worker' = "draining" /\ pending' = Tail(pending)
            /\ queuedBytes' = queuedBytes - Head(pending).bytes
  BY DEF Drain, kept, dispatcher, outside, queue
<1>2. inHand = NoEvent /\ ~AtHand /\ ~AtHand'
  BY <1>1 DEF ShardIInv, ShardTypeOK, AtHand
<1>3. Pipe' \subseteq Pipe /\ \A e \in Pipe', g \in Pipe \ Pipe' : g.id < e.id
  <2>1. CASE pending = <<>>
    BY <1>1, <1>2, <2>1 DEF Pipe
  <2>2. CASE pending # <<>>
    <3>1. /\ {pending[i] : i \in 1..Len(pending)} = {pending'[i] : i \in 1..Len(pending')} \cup {pending[1]}
          /\ 1 \in 1..Len(pending) /\ Len(pending') \in Nat
          /\ \A i \in 1..Len(pending') : pending'[i] = pending[i + 1] /\ i + 1 \in 1..Len(pending)
      BY <1>1, <2>2, HeadFacts DEF ShardIInv
    <3>2. \A i \in 1..Len(pending') : pending[1].id < pending'[i].id
      <4> TAKE i \in 1..Len(pending')
      <4>1. 1 < i + 1
        BY <3>1
      <4> QED BY <3>1, <4>1 DEF ShardIInv, QueueOrder
    <3> QED BY <1>2, <3>1, <3>2 DEF Pipe
  <2> QED BY <2>1, <2>2
<1> QED BY <1>1, <1>2, <1>3

(* Around the queue resolves are only marked, moved on and removed, and what  *)
(* is posted is one that lives.                                               *)
LEMMA AroundResolves ==
  ASSUME ShardIInv, AroundQueue \/ UNCHANGED shardVars
  PROVE  /\ DOMAIN resolves' \subseteq DOMAIN resolves
         /\ \A i \in DOMAIN resolves' : resolves'[i].of = resolves[i].of /\ (Alive(i)' => Alive(i))
         /\ \/ posted' = posted
            \/ \E i \in DOMAIN resolves :
                 /\ Alive(i) /\ ~Alive(i)' /\ resolves[i].of \in States /\ i \in Nat
                 /\ posted'[resolves[i].of] = [id |-> i, next |-> "OK"]
                 /\ \A q \in States : q # resolves[i].of => posted'[q] = posted[q]
                 /\ UNCHANGED <<worker, cancels, closed, quit, listed, dClosed, dCancels>>
                 /\ \A j \in DOMAIN resolves : j # i => j \in DOMAIN resolves' /\ (Alive(j) <=> Alive(j)')
<1>0. ShardTypeOK
  BY DEF ShardIInv
<1>1. CASE \/ Close \/ CloseQuit \/ DispatcherClose
           \/ Leave \/ CancelPending \/ UNCHANGED shardVars
  <2>1. resolves' = resolves /\ posted' = posted
    BY <1>1 DEF Close, CloseQuit, DispatcherClose, Leave, CancelPending,
       shardVars, dispatcher, outside
  <2> QED BY <2>1 DEF Alive
<1>2. CASE DispatcherCancels \/ Cancels
  <2>1. PICK S : resolves' = Cancelled(S)
    BY <1>2 DEF DispatcherCancels, Cancels
  <2>2. posted' = posted
    BY <1>2 DEF DispatcherCancels, Cancels, outside
  <2>3. /\ DOMAIN resolves' = DOMAIN resolves
        /\ \A i \in DOMAIN resolves :
             /\ resolves'[i].of = resolves[i].of /\ resolves'[i].stage = resolves[i].stage
             /\ resolves'[i].cancelled = (resolves[i].cancelled \/ i \in S)
    BY <1>0, <2>1, ResolveTypes
  <2> QED BY <2>2, <2>3 DEF Alive
<1>3. ASSUME NEW i \in DOMAIN resolves, GraceEnds(i) \/ ResolvePosted(i)
      PROVE  /\ DOMAIN resolves' \subseteq DOMAIN resolves
             /\ \A j \in DOMAIN resolves' : resolves'[j].of = resolves[j].of /\ (Alive(j)' => Alive(j))
             /\ \/ posted' = posted
                \/ /\ Alive(i) /\ ~Alive(i)' /\ resolves[i].of \in States /\ i \in Nat
                   /\ posted'[resolves[i].of] = [id |-> i, next |-> "OK"]
                   /\ \A q \in States : q # resolves[i].of => posted'[q] = posted[q]
                   /\ UNCHANGED <<worker, cancels, closed, quit, listed, dClosed, dCancels>>
                   /\ \A j \in DOMAIN resolves : j # i => j \in DOMAIN resolves' /\ (Alive(j) <=> Alive(j)')
  <2>1. PICK s \in {"posting", "leaving"} : resolves' = Moved(i, s)
    BY <1>3 DEF GraceEnds, ResolvePosted
  <2>2. /\ DOMAIN resolves' = DOMAIN resolves
        /\ resolves'[i].of = resolves[i].of /\ resolves'[i].stage = s
        /\ \A j \in DOMAIN resolves : j # i => resolves'[j] = resolves[j]
    BY <1>0, <2>1, ResolveTypes
  <2>3. ~Alive(i)' /\ s # "waiting"
    BY <2>2 DEF Alive
  <2>4. \A j \in DOMAIN resolves : j # i => (Alive(j) <=> Alive(j)')
    BY <2>2 DEF Alive
  <2>5. resolves[i].of \in States /\ i \in Nat
    BY <1>0, DeliveryAssumption DEF ShardTypeOK, Ids
  <2>6. \/ posted' = posted
        \/ posted' = [posted EXCEPT ![resolves[i].of] = [id |-> i, next |-> "OK"]] /\ Alive(i)
    BY <1>3 DEF GraceEnds, ResolvePosted, outside, Alive
  <2>7. posted' # posted => /\ posted'[resolves[i].of] = [id |-> i, next |-> "OK"]
                            /\ \A q \in States : q # resolves[i].of => posted'[q] = posted[q]
    BY <1>0, <2>5, <2>6 DEF ShardTypeOK
  <2>8. UNCHANGED <<worker, cancels, closed, quit, listed, dClosed, dCancels>>
    BY <1>3 DEF GraceEnds, ResolvePosted
  <2> QED BY <2>2, <2>3, <2>4, <2>5, <2>6, <2>7, <2>8
<1>4. ASSUME NEW i \in DOMAIN resolves, RemovePending(i)
      PROVE  /\ DOMAIN resolves' \subseteq DOMAIN resolves
             /\ \A j \in DOMAIN resolves' : resolves'[j].of = resolves[j].of /\ (Alive(j)' => Alive(j))
             /\ posted' = posted
  <2>1. /\ DOMAIN resolves' = DOMAIN resolves \ {i} /\ \A j \in DOMAIN resolves' : resolves'[j] = resolves[j]
        /\ posted' = posted
    BY <1>4 DEF RemovePending, outside
  <2> QED BY <2>1 DEF Alive
<1> QED BY <1>1, <1>2, <1>3, <1>4 DEF AroundQueue, Resolve

(* What telling does to what is posted and to the resolves. *)
LEMMA TellDispatch ==
  ASSUME ShardIInv, Tells
  PROVE  /\ DOMAIN resolves' \subseteq DOMAIN resolves \cup {inHand.id}
         /\ DOMAIN resolves \subseteq DOMAIN resolves'
         /\ \A i \in DOMAIN resolves : i # inHand.id /\ resolves'[i] = resolves[i]
         /\ \A s \in States : s # inHand.of => posted'[s] = posted[s]
         /\ \A k \in Keys : k # KeyOf(inHand.of) => paged'[k] = paged[k]
         /\ \/ /\ PostFiring /\ inHand.next = "FIRING" /\ UNCHANGED <<resolves, listed, panicked>>
               /\ posted'[inHand.of] = [id |-> inHand.id, next |-> "FIRING"]
               /\ paged'[KeyOf(inHand.of)] = inHand.id
            \/ /\ inHand.next = "OK" /\ ~dClosed /\ UNCHANGED <<posted, paged, panicked>>
               /\ DOMAIN resolves' = DOMAIN resolves \cup {inHand.id}
               /\ resolves'[inHand.id].of = inHand.of /\ Alive(inHand.id)' /\ listed' = listed \cup {inHand.id}
            \/ inHand.next = "OK" /\ dClosed /\ UNCHANGED <<posted, paged, panicked, resolves, listed>>
            \/ UNCHANGED <<resolves, listed, posted, paged>> /\ panicked' = panicked \cup {KeyOf(inHand.of)}
<1>1. inHand \in Event /\ inHand \in Pipe /\ inHand.id \in Nat /\ inHand.of \in States
      /\ KeyOf(inHand.of) \in Keys
  BY TellFacts, EventFacts
<1>2. \A i \in DOMAIN resolves : i # inHand.id
  <2>1. \A i \in DOMAIN resolves : i < inHand.id
    BY <1>1 DEF ShardIInv, QueueOrder
  <2> QED BY <1>1, <2>1
<1>3. ShardTypeOK
  BY DEF ShardIInv
<1>4. CASE PostFiring
  <2>1. /\ inHand.next = "FIRING" /\ UNCHANGED <<resolves, listed, panicked>>
        /\ posted' = [posted EXCEPT ![inHand.of] = [id |-> inHand.id, next |-> "FIRING"]]
        /\ paged' = [paged EXCEPT ![KeyOf(inHand.of)] = inHand.id]
    BY <1>4 DEF PostFiring, dispatcher
  <2>2. posted'[inHand.of] = [id |-> inHand.id, next |-> "FIRING"]
        /\ \A s \in States : s # inHand.of => posted'[s] = posted[s]
    BY <1>1, <1>3, <2>1 DEF ShardTypeOK
  <2>3. paged'[KeyOf(inHand.of)] = inHand.id
        /\ \A k \in Keys : k # KeyOf(inHand.of) => paged'[k] = paged[k]
    BY <1>1, <1>3, <2>1 DEF ShardTypeOK
  <2> QED BY <1>2, <1>4, <2>1, <2>2, <2>3
<1>5. CASE DelayWebhook
  <2>1. inHand.next = "OK" /\ UNCHANGED <<posted, paged, panicked>>
    BY <1>5 DEF DelayWebhook, outside
  <2>2. CASE dClosed
    <3>1. UNCHANGED <<resolves, listed>>
      BY <1>5, <2>2 DEF DelayWebhook
    <3> QED BY <1>2, <2>1, <2>2, <3>1
  <2>3. CASE ~dClosed
    <3>1. /\ DOMAIN resolves' = DOMAIN resolves \cup {inHand.id} /\ listed' = listed \cup {inHand.id}
          /\ resolves'[inHand.id] = [of |-> inHand.of, stage |-> "waiting", cancelled |-> FALSE]
          /\ \A j \in DOMAIN resolves : j # inHand.id => resolves'[j] = resolves[j]
      BY <1>5, <2>3 DEF DelayWebhook
    <3>2. resolves'[inHand.id].of = inHand.of /\ inHand' = inHand
      BY <3>1, TellFacts
    <3>3. Alive(inHand.id)'
      BY <3>1, <3>2 DEF Alive
    <3> QED BY <1>2, <2>1, <2>3, <3>1, <3>2, <3>3
  <2> QED BY <2>2, <2>3
<1>6. CASE Panic
  <2>1. UNCHANGED <<resolves, listed, posted, paged>> /\ panicked' = panicked \cup {KeyOf(inHand.of)}
    BY <1>6 DEF Panic, dispatcher
  <2> QED BY <1>2, <2>1
<1> QED BY <1>4, <1>5, <1>6 DEF Tells

(* The shard's steps, in six kinds. *)
LEMMA StepKinds ==
  ASSUME [ShardNext]_shardVars
  PROVE  \/ \E s \in States, bytes \in Sizes : Transition(s, bytes)
         \/ \E k \in Keys : Depart(k)
         \/ Take \/ Drain
         \/ Tells
         \/ Delivered
         \/ AroundQueue \/ UNCHANGED shardVars
BY Zenon DEF ShardNext, Worker, Tells, AroundQueue

(* Every step keeps the order. *)
LEMMA OrderStep ==
  ASSUME ShardIInv, [ShardNext]_shardVars
  PROVE  QueueOrder'
<1>0. ShardTypeOK /\ QueueOrder
  BY DEF ShardIInv
<1>1. /\ Len(pending) \in Nat /\ inHand.id \in Nat /\ events \in Nat
      /\ \A i \in 1..Len(pending) : pending[i] \in Event /\ pending[i].id \in Nat /\ pending[i].id # 0
      /\ \A e \in Pipe : e.id \in Nat
  BY <1>0, QueueFacts, EventFacts
<1>2. /\ \A s \in States : posted[s].id \in Nat /\ committed[s].id \in Nat
      /\ \A k \in Keys : paged[k] \in Nat
      /\ \A i \in DOMAIN resolves : i \in Nat
  BY <1>0, DeliveryAssumption DEF ShardTypeOK, Ids, Told
<1>3. ASSUME NEW s \in States, NEW bytes \in Sizes, Transition(s, bytes)
      PROVE  QueueOrder'
  <2>1. PICK e \in Event :
          /\ e.id = events + 1 /\ Len(pending') = Len(pending) + 1 /\ pending'[Len(pending) + 1] = e
          /\ \A i \in 1..Len(pending) : pending'[i] = pending[i]
          /\ Pipe' = Pipe \cup {e}
    BY <1>3, TransitionFacts
  <2>2. /\ UNCHANGED <<inHand, resolves, posted, paged>> /\ events' = events + 1
        /\ committed'[s].id = events + 1
        /\ \A x \in States : x # s => committed'[x] = committed[x]
    BY <1>3, TransitionFacts
  <2>3. \A i \in 1..Len(pending') : i = Len(pending) + 1 \/ i \in 1..Len(pending)
    BY <1>1, <2>1
  <2>4. \A i \in 1..Len(pending) : pending[i].id <= events /\ pending[i] \in Pipe
    BY <1>0 DEF QueueOrder, Pipe
  <2>5. \A i, j \in 1..Len(pending') : i < j => pending'[i].id < pending'[j].id
    <3> SUFFICES ASSUME NEW i \in 1..Len(pending'), NEW j \in 1..Len(pending'), i < j
                 PROVE  pending'[i].id < pending'[j].id
      OBVIOUS
    <3>1. i \in 1..Len(pending)
      BY <1>1, <2>1, <2>3
    <3>2. CASE j = Len(pending) + 1
      BY <1>1, <2>1, <2>4, <3>1, <3>2
    <3>3. CASE j \in 1..Len(pending)
      BY <1>0, <2>1, <3>1, <3>3 DEF QueueOrder
    <3> QED BY <2>3, <3>2, <3>3
  <2>6. \A i \in 1..Len(pending') : inHand'.id < pending'[i].id
    <3> TAKE i \in 1..Len(pending')
    <3>1. CASE i \in 1..Len(pending)
      BY <1>0, <2>1, <2>2, <3>1 DEF QueueOrder
    <3>2. CASE i = Len(pending) + 1
      <4>1. inHand.id <= events
        BY <1>0 DEF QueueOrder
      <4> QED BY <1>1, <2>1, <2>2, <3>2, <4>1
    <3> QED BY <2>3, <3>1, <3>2
  <2>7. \A x \in Pipe' : /\ x.id <= events'
                         /\ \A y \in States : posted'[y].id < x.id
                         /\ \A k \in Keys : paged'[k] < x.id
                         /\ \A i \in DOMAIN resolves' : i < x.id
    <3> TAKE x \in Pipe'
    <3>1. CASE x \in Pipe
      <4>1. x.id <= events
        BY <1>0, <3>1 DEF QueueOrder
      <4>2. x.id <= events'
        BY <1>1, <2>2, <3>1, <4>1
      <4> QED BY <1>0, <2>2, <3>1, <4>2 DEF QueueOrder
    <3>2. CASE x = e
      BY <1>0, <1>1, <1>2, <2>1, <2>2, <3>2 DEF QueueOrder
    <3> QED BY <2>1, <3>1, <3>2
  <2>8. /\ \A y \in States : posted'[y].id <= events' /\ committed'[y].id <= events'
        /\ \A k \in Keys : paged'[k] <= events'
        /\ \A i \in DOMAIN resolves' : i <= events'
    BY <1>0, <1>1, <1>2, <2>2 DEF QueueOrder
  <2>9. inHand'.id <= events'
    BY <1>0, <1>1, <2>2 DEF QueueOrder
  <2> QED BY <2>5, <2>6, <2>7, <2>8, <2>9 DEF QueueOrder
<1>4. CASE Take
  <2>1. /\ UNCHANGED <<committed, events, resolves, posted, paged>> /\ Pipe' = Pipe /\ inHand' = pending[1]
        /\ pending # <<>> /\ pending' = Tail(pending)
    BY <1>4, TakeFacts
  <2>2. /\ 1 \in 1..Len(pending) /\ Len(pending') \in Nat
        /\ \A i \in 1..Len(pending') : pending'[i] = pending[i + 1] /\ i + 1 \in 1..Len(pending)
    BY <1>0, <2>1, HeadFacts
  <2>3. \A i, j \in 1..Len(pending') : i < j => pending'[i].id < pending'[j].id
    <3> SUFFICES ASSUME NEW i \in 1..Len(pending'), NEW j \in 1..Len(pending'), i < j
                 PROVE  pending'[i].id < pending'[j].id
      OBVIOUS
    <3>1. i + 1 < j + 1
      BY <2>2
    <3> QED BY <1>0, <2>2, <3>1 DEF QueueOrder
  <2>4. \A i \in 1..Len(pending') : inHand'.id < pending'[i].id
    <3> TAKE i \in 1..Len(pending')
    <3>1. 1 < i + 1
      BY <2>2
    <3> QED BY <1>0, <2>1, <2>2, <3>1 DEF QueueOrder
  <2>5. inHand'.id <= events'
    BY <1>0, <2>1, <2>2 DEF QueueOrder, Pipe
  <2> QED BY <1>0, <2>1, <2>3, <2>4, <2>5 DEF QueueOrder
<1>5. CASE Drain
  <2>1. UNCHANGED <<committed, events, resolves, posted, paged, inHand>> /\ Pipe' \subseteq Pipe
    BY <1>5, DrainFacts
  <2>2. /\ \A i, j \in 1..Len(pending') : i < j => pending'[i].id < pending'[j].id
        /\ \A i \in 1..Len(pending') : inHand'.id < pending'[i].id
    <3>1. CASE pending' = pending
      BY <1>0, <2>1, <3>1 DEF QueueOrder
    <3>2. CASE pending' # pending
      <4>1. pending # <<>> /\ pending' = Tail(pending)
        BY <1>5, <3>2, DrainFacts
      <4>2. /\ 1 \in 1..Len(pending) /\ Len(pending') \in Nat
            /\ \A i \in 1..Len(pending') : pending'[i] = pending[i + 1] /\ i + 1 \in 1..Len(pending)
        BY <1>0, <4>1, HeadFacts
      <4>3. \A i, j \in 1..Len(pending') : i < j => pending'[i].id < pending'[j].id
        <5> SUFFICES ASSUME NEW i \in 1..Len(pending'), NEW j \in 1..Len(pending'), i < j
                     PROVE  pending'[i].id < pending'[j].id
          OBVIOUS
        <5>1. i + 1 < j + 1
          BY <4>2
        <5> QED BY <1>0, <4>2, <5>1 DEF QueueOrder
      <4>4. \A i \in 1..Len(pending') : inHand'.id < pending'[i].id
        BY <1>0, <2>1, <4>2 DEF QueueOrder
      <4> QED BY <4>3, <4>4
    <3> QED BY <3>1, <3>2
  <2> QED BY <1>0, <2>1, <2>2 DEF QueueOrder
<1>6. CASE Tells
  <2>1. /\ UNCHANGED <<committed, events, pending, inHand>> /\ inHand \in Pipe
        /\ \A e \in Pipe' : inHand.id < e.id /\ e \in Pipe
    BY <1>6, TellFacts
  <2>2. /\ DOMAIN resolves' \subseteq DOMAIN resolves \cup {inHand.id}
        /\ \A s \in States : posted'[s].id = posted[s].id \/ posted'[s].id = inHand.id
        /\ \A k \in Keys : paged'[k] = paged[k] \/ paged'[k] = inHand.id
    BY <1>6, TellDispatch
  <2>3. inHand.id <= events
    BY <1>0 DEF QueueOrder
  <2>4. \A e \in Pipe' : e.id <= events'
    BY <1>0, <2>1 DEF QueueOrder
  <2>5. /\ \A e \in Pipe', s \in States : posted'[s].id < e.id
        /\ \A e \in Pipe', k \in Keys : paged'[k] < e.id
    BY <1>0, <2>1, <2>2 DEF QueueOrder
  <2>6. \A e \in Pipe' : \A i \in DOMAIN resolves' : i < e.id
    BY <1>0, <2>1, <2>2 DEF QueueOrder
  <2>7. /\ \A s \in States : posted'[s].id <= events' /\ committed'[s].id <= events'
        /\ \A k \in Keys : paged'[k] <= events'
        /\ \A i \in DOMAIN resolves' : i <= events'
    BY <1>0, <2>1, <2>2, <2>3 DEF QueueOrder
  <2>8. /\ \A i, j \in 1..Len(pending') : i < j => pending'[i].id < pending'[j].id
        /\ \A i \in 1..Len(pending') : inHand'.id < pending'[i].id
    BY <1>0, <2>1 DEF QueueOrder
  <2>9. inHand'.id <= events'
    BY <2>1, <2>3
  <2> QED BY <2>4, <2>5, <2>6, <2>7, <2>8, <2>9 DEF QueueOrder
<1>7. CASE Delivered
  <2>1. UNCHANGED <<committed, events, pending, resolves, posted, paged>> /\ inHand' = NoEvent /\ Pipe' = Pipe
    BY <1>0, <1>7, DeliveredFacts
  <2>2. inHand'.id = 0
    BY <2>1 DEF NoEvent
  <2>3. \A i \in 1..Len(pending') : inHand'.id < pending'[i].id
    BY <1>1, <2>1, <2>2
  <2>4. inHand'.id <= events'
    BY <1>1, <2>1, <2>2
  <2> QED BY <1>0, <2>1, <2>3, <2>4 DEF QueueOrder
<1>8. CASE AroundQueue \/ UNCHANGED shardVars
  <2>1. UNCHANGED <<committed, events, pending, inHand, paged>> /\ Pipe' = Pipe
    BY <1>8, AroundFacts
  <2>2. DOMAIN resolves' \subseteq DOMAIN resolves
    BY <1>8, AroundResolves
  <2>3. \A s \in States : posted'[s].id = posted[s].id \/ posted'[s].id \in DOMAIN resolves
    <3>1. CASE posted' = posted
      BY <3>1
    <3>2. CASE posted' # posted
      <4>1. PICK i \in DOMAIN resolves :
              /\ posted'[resolves[i].of] = [id |-> i, next |-> "OK"]
              /\ \A q \in States : q # resolves[i].of => posted'[q] = posted[q]
        BY <1>8, <3>2, AroundResolves
      <4>2. \A s \in States : s = resolves[i].of => posted'[s].id = i
        BY <4>1
      <4> QED BY <4>1, <4>2
    <3> QED BY <3>1, <3>2
  <2>4. \A e \in Pipe', s \in States : posted'[s].id < e.id
    BY <1>0, <2>1, <2>3 DEF QueueOrder
  <2>5. \A s \in States : posted'[s].id <= events'
    BY <1>0, <2>1, <2>3 DEF QueueOrder
  <2> QED BY <1>0, <2>1, <2>2, <2>4, <2>5 DEF QueueOrder
<1>9. ASSUME NEW k \in Keys, Depart(k)
      PROVE  QueueOrder'
  <2>1. /\ UNCHANGED <<events, pending, inHand, resolves, posted, paged>> /\ Pipe' = Pipe
        /\ \A s \in States : committed'[s] = committed[s] \/ committed'[s] = Untold
    BY <1>0, <1>9, DepartFacts
  <2>2. \A s \in States : committed'[s].id <= events'
    BY <1>0, <1>1, <2>1 DEF QueueOrder, Untold
  <2> QED BY <1>0, <2>1, <2>2 DEF QueueOrder
<1> QED BY <1>3, <1>4, <1>5, <1>6, <1>7, <1>8, <1>9, StepKinds

-----------------------------------------------------------------------------
(* Types and bytes.                                                           *)

(* Every step keeps the types and the sum of the bytes.                       *)
LEMMA HoldStep ==
  ASSUME ShardIInv, [ShardNext]_shardVars
  PROVE  ShardTypeOK' /\ BytesAdd'
<1>0. ShardTypeOK
  BY DEF ShardIInv
<1>1. ASSUME NEW s \in States, NEW bytes \in Sizes, Transition(s, bytes)
      PROVE  ShardTypeOK' /\ BytesAdd'
  BY <1>1, QueueTypes, TransitionBytes
<1>2. CASE Take
  <2>1. pending # <<>> /\ pending' = Tail(pending) /\ inHand' = Head(pending) /\ queuedBytes' = queuedBytes
        /\ inHand = NoEvent
    BY <1>2, TakeFacts
  <2>2. Head(pending) = pending[1] /\ pending[1] \in Event
    BY <1>0, <2>1, HeadFacts
  <2>3. inHand'.bytes \in Nat /\ queuedBytes \in Nat
    BY <1>0, <2>1, <2>2, EventFacts DEF ShardTypeOK
  <2>4. 0 + inHand'.bytes = Head(pending).bytes /\ queuedBytes' = queuedBytes - 0
    BY <2>1, <2>3
  <2>5. BytesAdd' /\ queuedBytes' \in Nat
    BY <2>1, <2>2, <2>4, HeadBytes
  <2> QED BY <1>2, <2>5, QueueTypes
<1>3. CASE Drain
  <2>1. CASE pending # <<>>
    <3>1. pending' = Tail(pending) /\ queuedBytes' = queuedBytes - Head(pending).bytes
          /\ inHand = NoEvent /\ inHand' = NoEvent
      BY <1>3, <2>1, DrainFacts
    <3>2. Head(pending).bytes \in Nat
      BY <1>0, <2>1, <3>1, HeadFacts, EventFacts
    <3>3. Head(pending).bytes + inHand'.bytes = Head(pending).bytes
      BY <3>1, <3>2 DEF NoEvent
    <3>4. BytesAdd' /\ queuedBytes' \in Nat
      BY <2>1, <3>1, <3>2, <3>3, HeadBytes
    <3> QED BY <1>3, <3>4, QueueTypes
  <2>2. CASE pending = <<>>
    <3>1. UNCHANGED <<pending, inHand, queuedBytes>>
      BY <1>3, <2>2, DrainFacts
    <3> QED BY <1>3, <3>1, SameBytes, QueueTypes
  <2> QED BY <2>1, <2>2
<1>4. CASE Tells
  <2>1. UNCHANGED <<pending, inHand, queuedBytes>>
    BY <1>4, TellFacts
  <2> QED BY <1>4, <2>1, SameBytes, TellTypes
<1>5. CASE Delivered
  BY <1>5, DeliveredFacts, DeliveredBytes
<1>6. CASE AroundQueue \/ UNCHANGED shardVars
  <2>1. UNCHANGED <<pending, inHand, queuedBytes>>
    BY <1>6, AroundFacts
  <2> QED BY <1>6, <2>1, SameBytes, AroundTypes
<1>7. ASSUME NEW k \in Keys, Depart(k)
      PROVE  ShardTypeOK' /\ BytesAdd'
  <2>1. UNCHANGED <<pending, inHand, queuedBytes>>
    BY <1>0, <1>7, DepartFacts
  <2> QED BY <1>7, <2>1, SameBytes, QueueTypes
<1> QED BY <1>1, <1>2, <1>3, <1>4, <1>5, <1>6, <1>7, StepKinds

-----------------------------------------------------------------------------
(* The resolves.                                                              *)

(* Around the queue the stages follow each other as Stages says. *)
LEMMA AroundStages ==
  ASSUME ShardIInv, AroundQueue \/ UNCHANGED shardVars
  PROVE  /\ Stages'
         /\ closed => closed'
         /\ worker \in {"draining", "gone"} => worker' = worker
<1>0. Stages
  BY DEF ShardIInv
<1>1. CASE Close
  BY <1>0, <1>1 DEF Close, kept, queue, dispatcher, outside, Stages
<1>2. CASE CloseQuit
  BY <1>0, <1>2 DEF CloseQuit, kept, queue, dispatcher, outside, Stages
<1>3. CASE DispatcherClose
  BY <1>0, <1>3 DEF DispatcherClose, kept, queue, outside, Stages
<1>4. CASE DispatcherCancels
  BY <1>0, <1>4 DEF DispatcherCancels, kept, queue, outside, Stages
<1>5. CASE Leave
  BY <1>0, <1>5 DEF Leave, kept, queue, dispatcher, outside, Stages
<1>6. CASE CancelPending
  BY <1>0, <1>6 DEF CancelPending, kept, queue, outside, Stages
<1>7. CASE Cancels
  BY <1>0, <1>7 DEF Cancels, kept, queue, outside, Stages
<1>8. ASSUME NEW i, GraceEnds(i) \/ ResolvePosted(i)
      PROVE  Stages' /\ (closed => closed') /\ worker' = worker
  BY <1>0, <1>8 DEF GraceEnds, ResolvePosted, kept, queue, outside, Stages
<1>9. ASSUME NEW i, RemovePending(i)
      PROVE  Stages' /\ (closed => closed') /\ worker' = worker
  BY <1>0, <1>9 DEF RemovePending, kept, queue, outside, Stages
<1>10. CASE UNCHANGED shardVars
  BY <1>0, <1>10 DEF shardVars, kept, queue, dispatcher, outside, Stages
<1> QED BY <1>1, <1>2, <1>3, <1>4, <1>5, <1>6, <1>7, <1>8, <1>9, <1>10 DEF AroundQueue, Resolve

(* Every step keeps what the stages imply. *)
LEMMA StagesStep ==
  ASSUME ShardIInv, [ShardNext]_shardVars
  PROVE  Stages'
<1>0. Stages
  BY DEF ShardIInv
<1>1. ASSUME NEW s \in States, NEW bytes \in Sizes, Transition(s, bytes)
      PROVE  Stages'
  <2>1. /\ UNCHANGED <<worker, inHand, cancels, closed, quit, listed, dClosed, dCancels>>
        /\ ~closed
    BY <1>1, TransitionFacts
  <2> QED BY <1>0, <2>1 DEF Stages
<1>2. CASE Take
  <2>1. /\ UNCHANGED <<cancels, closed, quit, listed, dClosed, dCancels>>
        /\ worker = "idle" /\ worker' = IF inHand'.next = "FIRING" THEN "cancel" ELSE "dispatch"
    BY <1>2, TakeFacts
  <2> QED BY <1>0, <2>1 DEF Stages
<1>3. CASE Drain
  <2>1. /\ UNCHANGED <<cancels, closed, quit, listed, dClosed, dCancels>>
        /\ worker = "draining" /\ worker' \in {"draining", "gone"}
        /\ worker' = "gone" => pending' = <<>>
    BY <1>3, DrainFacts
  <2> QED BY <1>0, <2>1 DEF Stages
<1>4. CASE Tells
  <2>1. /\ UNCHANGED <<cancels, closed, quit, dClosed, dCancels>>
        /\ worker = "dispatch" /\ worker' = "posting"
    BY <1>4, TellFacts
  <2>2. dClosed => listed' = listed
    BY <1>4, TellDispatch
  <2> QED BY <1>0, <2>1, <2>2 DEF Stages
<1>5. CASE Delivered
  <2>1. /\ UNCHANGED <<cancels, closed, quit, listed, dClosed, dCancels>>
        /\ worker = "posting" /\ worker' = "idle"
    BY <1>5, DeliveredFacts
  <2> QED BY <1>0, <2>1 DEF Stages
<1>6. CASE AroundQueue \/ UNCHANGED shardVars
  BY <1>6, AroundStages
<1>7. ASSUME NEW k \in Keys, Depart(k)
      PROVE  Stages'
  <2>1. UNCHANGED <<pending, worker, inHand, cancels, closed, quit, listed, dClosed, dCancels>>
    BY <1>7, DepartFacts DEF ShardIInv
  <2> QED BY <1>0, <2>1 DEF Stages
<1> QED BY <1>1, <1>2, <1>3, <1>4, <1>5, <1>6, <1>7, StepKinds

(* Around the queue a resolve that may still post stays where it is found.    *)
LEMMA AroundFound ==
  ASSUME ShardIInv, AroundQueue \/ UNCHANGED shardVars
  PROVE  /\ \A i : Alive(i)' => Alive(i)
         /\ \A i : Alive(i)' /\ i \in dCancels => i \in dCancels'
         /\ \A i : Alive(i)' /\ i \in listed \cup cancels \cup dCancels
                => i \in (listed \cup cancels \cup dCancels)'
         /\ \A k : Harmless(k) => Harmless(k)'
         /\ \A s : Stilled(s) => Stilled(s)'
<1>1. \A i : Alive(i)' => Alive(i) /\ resolves'[i].of = resolves[i].of
  BY AroundResolves DEF Alive
<1>2. \A i : Alive(i)' => i \in DOMAIN resolves' /\ resolves'[i].stage = "waiting" /\ ~resolves'[i].cancelled
  BY DEF Alive
<1>3. /\ \A i : Alive(i)' /\ i \in dCancels => i \in dCancels'
      /\ \A i : Alive(i)' /\ i \in listed \cup cancels \cup dCancels
             => i \in (listed \cup cancels \cup dCancels)'
  <2>1. CASE Close \/ CloseQuit \/ Leave \/ UNCHANGED shardVars
    BY <2>1 DEF Close, CloseQuit, Leave, shardVars, dispatcher
  <2>2. CASE DispatcherClose
    BY <2>2 DEF DispatcherClose, ShardIInv, Stages
  <2>3. CASE CancelPending
    BY <2>3 DEF CancelPending, ShardIInv, Stages
  <2>4. CASE DispatcherCancels \/ Cancels
    <3>1. PICK S : /\ resolves' = Cancelled(S)
                   /\ \/ S = dCancels /\ UNCHANGED <<cancels, listed>>
                      \/ S = cancels /\ UNCHANGED <<dCancels, listed>>
      BY <2>4 DEF DispatcherCancels, Cancels
    <3>2. \A i \in DOMAIN resolves : resolves'[i].cancelled = (resolves[i].cancelled \/ i \in S)
      BY <3>1, ResolveTypes DEF ShardIInv
    <3>3. \A i : Alive(i)' => i \notin S
      BY <1>1, <1>2, <3>2 DEF Alive
    <3> QED BY <3>1, <3>3
  <2>5. ASSUME NEW i, GraceEnds(i) \/ ResolvePosted(i) \/ RemovePending(i)
        PROVE  /\ \A j : Alive(j)' /\ j \in dCancels => j \in dCancels'
               /\ \A j : Alive(j)' /\ j \in listed \cup cancels \cup dCancels
                      => j \in (listed \cup cancels \cup dCancels)'
    <3>1. CASE GraceEnds(i) \/ ResolvePosted(i)
      BY <3>1 DEF GraceEnds, ResolvePosted
    <3>2. CASE RemovePending(i)
      <4>1. UNCHANGED <<cancels, dCancels>> /\ listed' = listed \ {i} /\ i \notin DOMAIN resolves'
        BY <3>2 DEF RemovePending
      <4> QED BY <1>2, <4>1
    <3> QED BY <2>5, <3>1, <3>2
  <2>6. CASE \E i \in DOMAIN resolves : Resolve(i)
    <3>1. PICK i \in DOMAIN resolves : Resolve(i)
      BY <2>6
    <3>2. GraceEnds(i) \/ ResolvePosted(i) \/ RemovePending(i)
      BY <3>1 DEF Resolve
    <3> QED BY <2>5, <3>2
  <2> QED BY <2>1, <2>2, <2>3, <2>4, <2>6 DEF AroundQueue
<1>4. ASSUME NEW k, Harmless(k)
      PROVE  Harmless(k)'
  BY <1>1, <1>2, <1>3, <1>4 DEF Harmless, Alive
<1>5. ASSUME NEW s, Stilled(s)
      PROVE  Stilled(s)'
  BY <1>1, <1>2, <1>3, <1>5 DEF Stilled, Alive
<1> QED BY <1>1, <1>3, <1>4, <1>5

(* The event in hand is the first of all. *)
LEMMA HandIsFirst ==
  ASSUME ShardIInv, AtHand
  PROVE  /\ inHand \in Pipe /\ inHand \in Event
         /\ \A f \in Pipe : inHand.id <= f.id
         /\ \A f \in Pipe : f = inHand \/ inHand.id < f.id
<1>1. inHand \in Pipe /\ inHand \in Event /\ inHand.id \in Nat
  BY QueueFacts DEF ShardIInv, AtHand, Pipe
<1>2. \A f \in Pipe : f = inHand \/ inHand.id < f.id
  BY DEF ShardIInv, QueueOrder, Pipe
<1>3. \A f \in Pipe : f.id \in Nat
  BY QueueFacts, EventFacts DEF ShardIInv
<1> QED BY <1>1, <1>2, <1>3

(* Before a resolve is delayed no earlier resolve of its state may post,      *)
(* before a firing is told none of its key: Close apart.                      *)
LEMMA QuietBeforeTelling ==
  ASSUME ShardIInv, worker = "dispatch"
  PROVE  /\ Stilled(inHand.of)
         /\ inHand.next = "FIRING" => Harmless(KeyOf(inHand.of))
<1>1. AtHand
  BY DEF AtHand
<1>2. inHand \in Pipe /\ inHand.next \in {"OK", "FIRING"} /\ inHand.id \in Nat
      /\ \A f \in Pipe : f.id \in Nat /\ inHand.id <= f.id
  BY <1>1, HandIsFirst, QueueFacts, EventFacts DEF ShardIInv
<1>3. ASSUME inHand.next = "OK"
      PROVE  Stilled(inHand.of)
  <2>1. Guarded(inHand.of, inHand.id)
    BY <1>2, <1>3 DEF ShardIInv, Recoveries
  <2>2. ~\E g \in Pipe : Silences(inHand.of, g, inHand.id)
    BY <1>2 DEF Silences
  <2> QED BY <2>1, <2>2 DEF Guarded, Silent
<1>4. ASSUME inHand.next = "FIRING"
      PROVE  Harmless(KeyOf(inHand.of)) /\ Stilled(inHand.of)
  <2>1. Harmless(KeyOf(inHand.of))
    BY <1>4 DEF ShardIInv, ResolvesFound
  <2> QED BY <2>1 DEF Harmless, Stilled
<1> QED BY <1>2, <1>3, <1>4

(* A step that leaves the resolves, their lists and what was posted alone     *)
(* keeps them found.                                                          *)
LEMMA FoundSame ==
  ASSUME ShardIInv, UNCHANGED <<resolves, listed, dCancels, posted, paged, cancels>>,
         cancels # {} => inHand' = inHand, worker' # "cancelling",
         worker' = "dispatch" /\ inHand'.next = "FIRING" => worker = "dispatch" /\ inHand' = inHand
  PROVE  ResolvesFound'
BY DEF ShardIInv, ResolvesFound, Harmless, Alive

(* Around the queue every resolve stays found. *)
LEMMA AroundStaysFound ==
  ASSUME ShardIInv, AroundQueue \/ UNCHANGED shardVars
  PROVE  ResolvesFound'
<1>0. ResolvesFound /\ Stages
  BY DEF ShardIInv
<1>1. /\ \A i : Alive(i)' => Alive(i) /\ i \in DOMAIN resolves /\ i \in DOMAIN resolves'
                             /\ resolves'[i].of = resolves[i].of
      /\ DOMAIN resolves' \subseteq DOMAIN resolves
      /\ \A i \in DOMAIN resolves' : resolves'[i].of = resolves[i].of
  BY AroundResolves DEF Alive
<1>2. inHand' = inHand /\ paged' = paged
  BY AroundFacts
<1>3. \A i \in DOMAIN resolves' : Alive(i)' => i \in (listed \cup cancels \cup dCancels)'
  BY <1>0, <1>1, AroundFound DEF ResolvesFound
<1>4. \A i, j \in DOMAIN resolves' : Alive(i)' /\ Alive(j)' /\ resolves'[i].of = resolves'[j].of => i = j
  BY <1>0, <1>1 DEF ResolvesFound
<1>5. \A i \in DOMAIN resolves' : Alive(i)' /\ i \notin dCancels' =>
        posted'[resolves'[i].of].id < i /\ paged'[KeyOf(resolves'[i].of)] < i
  <2> SUFFICES ASSUME NEW i, Alive(i)', i \notin dCancels'
               PROVE  posted'[resolves[i].of].id < i /\ paged[KeyOf(resolves[i].of)] < i
    BY <1>1, <1>2
  <2>1. Alive(i) /\ i \in DOMAIN resolves /\ i \notin dCancels
    BY <1>1, AroundFound
  <2>2. posted[resolves[i].of].id < i /\ paged[KeyOf(resolves[i].of)] < i
    BY <1>0, <2>1 DEF ResolvesFound
  <2>3. CASE posted' = posted
    BY <2>2, <2>3
  <2>4. CASE posted' # posted
    <3>1. PICK j \in DOMAIN resolves :
            /\ Alive(j) /\ ~Alive(j)'
            /\ \A q \in States : q # resolves[j].of => posted'[q] = posted[q]
      BY <2>4, AroundResolves
    <3>2. resolves[i].of # resolves[j].of
      BY <1>0, <2>1, <3>1 DEF ResolvesFound
    <3>3. resolves[i].of \in States
      BY <2>1 DEF ShardIInv, ShardTypeOK
    <3> QED BY <2>2, <3>1, <3>2, <3>3
  <2> QED BY <2>3, <2>4
<1>6. /\ \A i \in cancels' : i \in DOMAIN resolves' => KeyOf(resolves'[i].of) = KeyOf(inHand'.of)
      /\ worker' = "cancelling" =>
           \A i \in DOMAIN resolves' : Alive(i)' /\ KeyOf(resolves'[i].of) = KeyOf(inHand'.of)
               => i \in (cancels \cup dCancels)'
      /\ worker' = "dispatch" /\ inHand'.next = "FIRING" => Harmless(KeyOf(inHand.of))'
  <2>1. CASE CancelPending
    <3>1. /\ worker = "cancel" /\ worker' = "cancelling" /\ cancels' = OfKey(KeyOf(inHand.of))
          /\ dCancels' = dCancels
      BY <2>1 DEF CancelPending
    <3>2. cancels = {}
      BY <1>0, <3>1 DEF Stages
    <3>3. \A i : i \in cancels' <=> i \in listed /\ KeyOf(resolves[i].of) = KeyOf(inHand.of)
      BY <3>1 DEF OfKey
    <3>4. \A i \in DOMAIN resolves' : Alive(i)' /\ KeyOf(resolves'[i].of) = KeyOf(inHand.of) => i \in cancels' \cup dCancels'
      BY <1>0, <1>1, <3>1, <3>2, <3>3 DEF ResolvesFound
    <3> QED BY <1>1, <1>2, <3>1, <3>3, <3>4
  <2>2. CASE Cancels
    <3>1. /\ worker = "cancelling" /\ worker' = "dispatch" /\ cancels' = {} /\ dCancels' = dCancels
          /\ resolves' = Cancelled(cancels)
      BY <2>2 DEF Cancels
    <3>2. \A i \in DOMAIN resolves : resolves'[i].cancelled = (resolves[i].cancelled \/ i \in cancels)
      BY <3>1, ResolveTypes DEF ShardIInv
    <3>3. \A i : Alive(i)' => i \notin cancels
      BY <1>1, <3>2 DEF Alive
    <3>4. \A i \in DOMAIN resolves' : Alive(i)' /\ KeyOf(resolves'[i].of) = KeyOf(inHand.of) => i \in dCancels'
      BY <1>0, <1>1, <3>1, <3>3 DEF ResolvesFound
    <3> QED BY <1>2, <3>1, <3>4 DEF Harmless
  <2>3. CASE ~CancelPending /\ ~Cancels
    <3>1. cancels' = cancels /\ (worker' = worker \/ worker' = "draining")
      BY <2>3 DEF AroundQueue, Close, CloseQuit, DispatcherClose, DispatcherCancels,
         Leave, Resolve, GraceEnds, ResolvePosted, RemovePending, shardVars
    <3>2. \A i \in cancels' : i \in DOMAIN resolves' => KeyOf(resolves'[i].of) = KeyOf(inHand'.of)
      BY <1>0, <1>1, <1>2, <3>1 DEF ResolvesFound
    <3>3. ASSUME worker' = "cancelling", NEW i \in DOMAIN resolves', Alive(i)', KeyOf(resolves'[i].of) = KeyOf(inHand'.of)
          PROVE  i \in (cancels \cup dCancels)'
      <4>1. i \in cancels \cup dCancels
        BY <1>0, <1>1, <1>2, <3>1, <3>3 DEF ResolvesFound
      <4> QED BY <3>1, <3>3, <4>1, AroundFound
    <3>4. ASSUME worker' = "dispatch", inHand'.next = "FIRING"
          PROVE  Harmless(KeyOf(inHand.of))'
      <4>1. PICK k : k = KeyOf(inHand.of) /\ k = KeyOf(inHand'.of)
        BY <1>2
      <4>2. Harmless(k)
        BY <1>0, <1>2, <3>1, <3>4, <4>1 DEF ResolvesFound
      <4>3. Harmless(k)'
        BY <4>2, AroundFound
      <4> QED BY <4>1, <4>3 DEF Harmless
    <3> QED BY <3>2, <3>3, <3>4
  <2> QED BY <2>1, <2>2, <2>3
<1> QED BY <1>3, <1>4, <1>5, <1>6 DEF ResolvesFound

(* Telling keeps them found: the one it adds is on the map and alone.         *)
LEMMA TellStaysFound ==
  ASSUME ShardIInv, Tells
  PROVE  ResolvesFound'
<1>0. ResolvesFound /\ Stages /\ ShardTypeOK
  BY DEF ShardIInv
<1>1. /\ UNCHANGED <<inHand, cancels, closed, quit, dClosed, dCancels>>
      /\ worker = "dispatch" /\ worker' = "posting" /\ inHand \in Pipe
  BY TellFacts
<1>2. cancels' = {} /\ cancels = {}
  BY <1>0, <1>1 DEF Stages
<1>3. /\ worker' # "cancelling" /\ worker' # "dispatch"
      /\ \A i \in cancels' : i \in DOMAIN resolves' => KeyOf(resolves'[i].of) = KeyOf(inHand'.of)
  BY <1>1, <1>2
<1>4. Stilled(inHand.of) /\ (inHand.next = "FIRING" => Harmless(KeyOf(inHand.of)))
  BY <1>1, QuietBeforeTelling
<1>5. ASSUME UNCHANGED <<resolves, listed>>,
             \/ inHand.next = "FIRING"
             \/ posted' = posted /\ paged' = paged
      PROVE  ResolvesFound'
  <2>1. \A i \in DOMAIN resolves' : Alive(i)' /\ i \notin dCancels' =>
          posted'[resolves'[i].of].id < i /\ paged'[KeyOf(resolves'[i].of)] < i
    <3> SUFFICES ASSUME NEW i \in DOMAIN resolves, Alive(i), i \notin dCancels
                 PROVE  posted'[resolves[i].of].id < i /\ paged'[KeyOf(resolves[i].of)] < i
      BY <1>1, <1>5 DEF Alive
    <3>1. posted[resolves[i].of].id < i /\ paged[KeyOf(resolves[i].of)] < i
      BY <1>0 DEF ResolvesFound
    <3>2. CASE inHand.next = "FIRING"
      <4>1. KeyOf(resolves[i].of) # KeyOf(inHand.of) /\ resolves[i].of # inHand.of
        BY <1>4, <3>2 DEF Harmless
      <4>2. resolves[i].of \in States /\ KeyOf(resolves[i].of) \in Keys
        BY <1>0, StateFacts DEF ShardTypeOK
      <4>3. posted'[resolves[i].of] = posted[resolves[i].of]
            /\ paged'[KeyOf(resolves[i].of)] = paged[KeyOf(resolves[i].of)]
        BY <4>1, <4>2, TellDispatch
      <4> QED BY <3>1, <4>3
    <3> QED BY <1>5, <3>1, <3>2
  <2>2. \A i : Alive(i)' <=> Alive(i)
    BY <1>5 DEF Alive
  <2>3. \A i \in DOMAIN resolves' : Alive(i)' => i \in (listed \cup cancels \cup dCancels)'
    BY <1>0, <1>1, <1>5, <2>2 DEF ResolvesFound
  <2>4. \A i, j \in DOMAIN resolves' : Alive(i)' /\ Alive(j)' /\ resolves'[i].of = resolves'[j].of => i = j
    BY <1>0, <1>5, <2>2 DEF ResolvesFound
  <2> QED BY <1>3, <2>1, <2>3, <2>4 DEF ResolvesFound
<1>6. ASSUME /\ inHand.next = "OK" /\ ~dClosed /\ posted' = posted /\ paged' = paged
             /\ DOMAIN resolves' = DOMAIN resolves \cup {inHand.id}
             /\ resolves'[inHand.id].of = inHand.of /\ listed' = listed \cup {inHand.id}
      PROVE  ResolvesFound'
  <2>1. dCancels = {} /\ dCancels' = {}
    BY <1>0, <1>1, <1>6 DEF Stages
  <2>2. \A i \in DOMAIN resolves : i # inHand.id /\ resolves'[i] = resolves[i]
    BY TellDispatch
  <2>3. \A i : i # inHand.id => (Alive(i)' <=> Alive(i))
    BY <1>6, <2>2 DEF Alive
  <2>4. \A i \in DOMAIN resolves : Alive(i) => resolves[i].of # inHand.of
    BY <1>4, <2>1 DEF Stilled
  <2>5. \A i \in DOMAIN resolves' : Alive(i)' => i \in (listed \cup cancels \cup dCancels)'
    BY <1>0, <1>1, <1>6, <2>3 DEF ResolvesFound
  <2>6. \A i, j \in DOMAIN resolves' : Alive(i)' /\ Alive(j)' /\ resolves'[i].of = resolves'[j].of => i = j
    BY <1>0, <1>6, <2>2, <2>3, <2>4 DEF ResolvesFound
  <2>7. \A i \in DOMAIN resolves' : Alive(i)' /\ i \notin dCancels' =>
          posted'[resolves'[i].of].id < i /\ paged'[KeyOf(resolves'[i].of)] < i
    <3>1. inHand.of \in States /\ KeyOf(inHand.of) \in Keys
      BY TellFacts, EventFacts
    <3>2. posted[inHand.of].id < inHand.id /\ paged[KeyOf(inHand.of)] < inHand.id
      BY <1>1, <3>1 DEF ShardIInv, QueueOrder
    <3>3. \A i \in DOMAIN resolves : Alive(i) =>
            posted[resolves[i].of].id < i /\ paged[KeyOf(resolves[i].of)] < i
      BY <1>0, <2>1 DEF ResolvesFound
    <3> QED BY <1>6, <2>2, <2>3, <3>2, <3>3
  <2> QED BY <1>3, <2>5, <2>6, <2>7 DEF ResolvesFound
<1> QED BY <1>5, <1>6, TellDispatch

(* Every step keeps the resolves found. *)
LEMMA FoundStep ==
  ASSUME ShardIInv, [ShardNext]_shardVars
  PROVE  ResolvesFound'
<1>0. Stages
  BY DEF ShardIInv
<1>1. ASSUME NEW s \in States, NEW bytes \in Sizes, Transition(s, bytes)
      PROVE  ResolvesFound'
  <2>1. UNCHANGED <<worker, inHand, cancels, resolves, listed, dCancels, posted, paged>>
    BY <1>1, TransitionFacts
  <2> QED BY <2>1 DEF ShardIInv, ResolvesFound, Harmless, Alive
<1>2. CASE Take
  <2>1. /\ UNCHANGED <<cancels, resolves, listed, dCancels, posted, paged>> /\ worker = "idle"
        /\ worker' = IF inHand'.next = "FIRING" THEN "cancel" ELSE "dispatch"
    BY <1>2, TakeFacts
  <2> QED BY <1>0, <2>1, FoundSame DEF Stages
<1>3. CASE Drain
  <2>1. /\ UNCHANGED <<inHand, cancels, resolves, listed, dCancels, posted, paged>> /\ worker' \in {"draining", "gone"}
    BY <1>3, DrainFacts
  <2> QED BY <2>1, FoundSame
<1>4. CASE Tells
  BY <1>4, TellStaysFound
<1>5. CASE Delivered
  <2>1. UNCHANGED <<cancels, resolves, listed, dCancels, posted, paged>> /\ worker = "posting" /\ worker' = "idle"
    BY <1>5, DeliveredFacts
  <2> QED BY <1>0, <2>1, FoundSame DEF Stages
<1>6. CASE AroundQueue \/ UNCHANGED shardVars
  BY <1>6, AroundStaysFound
<1>7. ASSUME NEW k \in Keys, Depart(k)
      PROVE  ResolvesFound'
  <2>1. UNCHANGED <<worker, inHand, cancels, resolves, listed, dCancels, posted, paged>>
    BY <1>7, DepartFacts DEF ShardIInv
  <2> QED BY <2>1 DEF ShardIInv, ResolvesFound, Harmless, Alive
<1> QED BY <1>1, <1>2, <1>3, <1>4, <1>5, <1>6, <1>7, StepKinds

-----------------------------------------------------------------------------
(* One resolve of a state at a time.                                          *)

(* A step that leaves the pipe as it is and keeps what is quiet so takes      *)
(* nothing from the guards.                                                   *)
LEMMA GuardsStay ==
  ASSUME Recoveries, Pipe' = Pipe, events' = events,
         \A s \in States : committed'[s] = committed[s] \/ committed'[s] = Untold,
         \A s : Stilled(s) => Stilled(s)',
         worker \in {"draining", "gone"} => worker' = worker
  PROVE  Recoveries'
<1>1. ASSUME NEW s, NEW n, Guarded(s, n)
      PROVE  Guarded(s, n)'
  <2>1. CASE Silent(s, n)
    <3>1. Silent(s, n)'
      BY <2>1 DEF Silent
    <3> QED BY <3>1 DEF Guarded
  <2>2. ASSUME NEW g \in Pipe, Silences(s, g, n)
        PROVE  Guarded(s, n)'
    <3>1. Silences(s, g, n)'
      BY <2>2 DEF Silences
    <3> QED BY <3>1 DEF Guarded
  <2> QED BY <1>1, <2>1, <2>2 DEF Guarded
<1> SUFFICES ASSUME worker' \notin {"draining", "gone"}
             PROVE  /\ \A e \in Pipe' : e.next = "OK" => Guarded(e.of, e.id)'
                    /\ \A s \in States, n \in {events' + 1} : committed'[s].next = "FIRING" => Guarded(s, n)'
  BY DEF Recoveries, Guarded, Silent, Silences, Stilled, Recovers, Alive
<1>2. ASSUME NEW e \in Pipe', e.next = "OK"
      PROVE  Guarded(e.of, e.id)'
  BY <1>1, <1>2 DEF Recoveries
<1>3. ASSUME NEW s \in States, NEW n \in {events' + 1}, committed'[s].next = "FIRING"
      PROVE  Guarded(s, n)'
  <2>1. committed'[s] = committed[s] /\ n = events + 1
    BY <1>3 DEF Untold
  <2>2. Guarded(s, n)
    BY <1>3, <2>1 DEF Recoveries
  <2> QED BY <1>1, <2>2
<1> QED BY <1>2, <1>3

(* A transition comes last: it takes nothing from the guards before it, and a *)
(* firing guards the recovery that may follow.                                *)
LEMMA TransitionGuards ==
  ASSUME ShardIInv, NEW s \in States, NEW bytes \in Sizes, Transition(s, bytes)
  PROVE  Recoveries'
<1>0. Recoveries /\ QueueOrder /\ ShardTypeOK
  BY DEF ShardIInv
<1>1. /\ UNCHANGED <<worker, resolves, dCancels>> /\ events' = events + 1
      /\ committed' \in [States -> Told]
      /\ committed'[s].next = "FIRING" <=> committed[s].next = "OK"
      /\ \A x \in States : x # s => committed'[x] = committed[x]
  BY TransitionFacts
<1>2. PICK e \in Event :
        e.of = s /\ e.id = events + 1 /\ e.next = committed'[s].next /\ Pipe' = Pipe \cup {e}
  BY TransitionFacts
<1>3. events \in Nat /\ \A x \in Pipe : x.id \in Nat /\ x.id <= events
  BY <1>0, QueueFacts, EventFacts DEF QueueOrder
<1> PICK m \in Nat : m = events
  BY <1>3
<1>4. \A q : Stilled(q)' <=> Stilled(q)
  BY <1>1 DEF Stilled, Alive
<1>5. committed[s].next \in {"OK", "FIRING"} /\ committed'[s].next \in {"OK", "FIRING"}
  BY <1>0, <1>1 DEF ShardTypeOK, Told
<1>6. ASSUME NEW q, NEW n \in Nat, n <= m + 1, Guarded(q, n)
      PROVE  Guarded(q, n)'
  <2>1. CASE Silent(q, n)
    <3>1. Silent(q, n)'
      BY <1>2, <1>3, <1>4, <1>6, <2>1 DEF Silent, Recovers
    <3> QED BY <3>1 DEF Guarded
  <2>2. ASSUME NEW g \in Pipe, Silences(q, g, n)
        PROVE  Guarded(q, n)'
    <3>1. Silences(q, g, n)'
      BY <1>2, <1>3, <1>6, <2>2 DEF Silences, Recovers
    <3> QED BY <1>2, <3>1 DEF Guarded
  <2> QED BY <1>6, <2>1, <2>2 DEF Guarded
<1>7. ASSUME NEW q, q # s, Guarded(q, m + 1)
      PROVE  Guarded(q, m + 2)'
  <2>1. CASE Silent(q, m + 1)
    <3>1. Silent(q, m + 2)'
      BY <1>2, <1>3, <1>4, <1>7, <2>1 DEF Silent, Recovers
    <3> QED BY <3>1 DEF Guarded
  <2>2. ASSUME NEW g \in Pipe, Silences(q, g, m + 1)
        PROVE  Guarded(q, m + 2)'
    <3>1. Silences(q, g, m + 2)'
      BY <1>2, <1>3, <1>7, <2>2 DEF Silences, Recovers
    <3> QED BY <1>2, <3>1 DEF Guarded
  <2> QED BY <1>7, <2>1, <2>2 DEF Guarded
<1> SUFFICES ASSUME worker' \notin {"draining", "gone"}
             PROVE  /\ \A x \in Pipe' : x.next = "OK" => Guarded(x.of, x.id)'
                    /\ \A q \in States, n \in {events' + 1} : committed'[q].next = "FIRING" => Guarded(q, n)'
  BY DEF Recoveries, Guarded, Silent, Silences, Stilled, Recovers, Alive
<1>8. ASSUME NEW x \in Pipe', x.next = "OK"
      PROVE  Guarded(x.of, x.id)'
  <2>1. CASE x \in Pipe
    <3>1. Guarded(x.of, x.id) /\ x.id \in Nat /\ x.id <= m + 1
      BY <1>0, <1>1, <1>3, <1>8, <2>1 DEF Recoveries
    <3> QED BY <1>6, <3>1
  <2>2. CASE x = e
    <3>1. committed[s].next = "FIRING"
      BY <1>1, <1>2, <1>5, <1>8, <2>2
    <3>2. Guarded(s, m + 1)
      BY <1>0, <1>1, <3>1 DEF Recoveries
    <3>3. Guarded(s, m + 1)'
      BY <1>6, <3>2
    <3>4. x.of = s /\ x.id = m + 1
      BY <1>2, <2>2
    <3> QED BY <3>3, <3>4
  <2> QED BY <1>2, <2>1, <2>2
<1>9. ASSUME NEW q \in States, NEW n \in {events' + 1}, committed'[q].next = "FIRING"
      PROVE  Guarded(q, n)'
  <2>1. n = m + 2
    BY <1>1
  <2>2. CASE q = s
    <3>1. Silences(s, e, m + 2)'
      BY <1>2, <1>3, <1>9, <2>2 DEF Silences, Recovers
    <3>2. Guarded(s, m + 2)'
      BY <1>2, <3>1 DEF Guarded
    <3> QED BY <2>1, <2>2, <3>2
  <2>3. CASE q # s
    <3>1. Guarded(q, m + 1)
      BY <1>0, <1>1, <1>9, <2>3 DEF Recoveries
    <3>2. Guarded(q, m + 2)'
      BY <1>7, <2>3, <3>1
    <3> QED BY <2>1, <3>2
  <2> QED BY <2>2, <2>3
<1> QED BY <1>8, <1>9

(* What is quiet stays so when an event is told, unless it is a recovery of   *)
(* its own.                                                                   *)
LEMMA TellStaysQuiet ==
  ASSUME ShardIInv, Tells, NEW s, Stilled(s), s # inHand.of \/ inHand.next = "FIRING"
  PROVE  Stilled(s)'
<1>1. dCancels' = dCancels
  BY TellFacts
<1>2. CASE resolves' = resolves
  BY <1>1, <1>2 DEF Stilled, Alive
<1>3. CASE resolves' # resolves
  <2>1. /\ s # inHand.of /\ DOMAIN resolves' = DOMAIN resolves \cup {inHand.id}
        /\ resolves'[inHand.id].of = inHand.of
        /\ \A i \in DOMAIN resolves : i # inHand.id /\ resolves'[i] = resolves[i]
    BY <1>3, TellDispatch
  <2> QED BY <1>1, <2>1 DEF Stilled, Alive
<1> QED BY <1>2, <1>3

(* Telling takes the first event out of the pipe: a firing leaves its key     *)
(* silent, a recovery guards nothing.                                         *)
LEMMA TellGuards ==
  ASSUME ShardIInv, Tells
  PROVE  Recoveries'
<1>0. Recoveries /\ QueueOrder
  BY DEF ShardIInv
<1>1. /\ UNCHANGED <<committed, events>> /\ worker = "dispatch" /\ inHand \in Pipe
      /\ Pipe' = Pipe \ {inHand}
      /\ \A e \in Pipe' : inHand.id < e.id /\ e \in Pipe
  BY TellFacts
<1>2. /\ inHand.next \in {"OK", "FIRING"} /\ inHand.id \in Nat /\ events \in Nat
      /\ \A e \in Pipe : e.id \in Nat
  BY <1>1, QueueFacts, EventFacts DEF ShardIInv
<1>3. inHand.next = "FIRING" => Harmless(KeyOf(inHand.of))
  BY <1>1, QuietBeforeTelling
<1>4. ASSUME NEW s, NEW n \in Nat, inHand.id < n, Guarded(s, n)
      PROVE  Guarded(s, n)'
  <2>1. CASE Silent(s, n)
    <3>1. Stilled(s) /\ ~Recovers(s, inHand)
      BY <1>1, <1>4, <2>1 DEF Silent
    <3>2. Stilled(s)'
      BY <1>2, <3>1, TellStaysQuiet DEF Recovers
    <3>3. Silent(s, n)'
      BY <1>1, <2>1, <3>2 DEF Silent
    <3> QED BY <3>3 DEF Guarded
  <2>2. ASSUME Silences(s, inHand, n)
        PROVE  Guarded(s, n)'
    <3>1. inHand.next = "FIRING" /\ KeyOf(inHand.of) = KeyOf(s)
          /\ \A e \in Pipe : Recovers(s, e) => ~(inHand.id < e.id /\ e.id < n)
      BY <2>2 DEF Silences
    <3>2. Stilled(s)
      BY <1>3, <3>1 DEF Harmless, Stilled
    <3>3. Stilled(s)'
      BY <3>1, <3>2, TellStaysQuiet
    <3>4. Silent(s, n)'
      BY <1>1, <3>1, <3>3 DEF Silent, Recovers
    <3> QED BY <3>4 DEF Guarded
  <2>3. ASSUME NEW g \in Pipe, g # inHand, Silences(s, g, n)
        PROVE  Guarded(s, n)'
    <3>1. Silences(s, g, n)'
      BY <1>1, <2>3 DEF Silences, Recovers
    <3> QED BY <1>1, <2>3, <3>1 DEF Guarded
  <2> QED BY <1>4, <2>1, <2>2, <2>3 DEF Guarded
<1> SUFFICES ASSUME worker' \notin {"draining", "gone"}
             PROVE  /\ \A e \in Pipe' : e.next = "OK" => Guarded(e.of, e.id)'
                    /\ \A s \in States, n \in {events' + 1} : committed'[s].next = "FIRING" => Guarded(s, n)'
  BY DEF Recoveries, Guarded, Silent, Silences, Stilled, Recovers, Alive
<1>5. ASSUME NEW e \in Pipe', e.next = "OK"
      PROVE  Guarded(e.of, e.id)'
  <2>1. e \in Pipe /\ inHand.id < e.id /\ e.id \in Nat
    BY <1>1, <1>2
  <2>2. Guarded(e.of, e.id)
    BY <1>0, <1>1, <1>5, <2>1 DEF Recoveries
  <2> QED BY <1>4, <2>1, <2>2
<1>6. ASSUME NEW s \in States, NEW n \in {events' + 1}, committed'[s].next = "FIRING"
      PROVE  Guarded(s, n)'
  <2>1. n = events + 1 /\ n \in Nat /\ inHand.id < n
    BY <1>0, <1>1, <1>2 DEF QueueOrder
  <2>2. Guarded(s, n)
    BY <1>0, <1>1, <1>6, <2>1 DEF Recoveries
  <2> QED BY <1>4, <2>1, <2>2
<1> QED BY <1>5, <1>6

(* Every step keeps the recoveries guarded. *)
LEMMA RecoveriesStep ==
  ASSUME ShardIInv, [ShardNext]_shardVars
  PROVE  Recoveries'
<1>0. Recoveries
  BY DEF ShardIInv
<1>1. ASSUME NEW s \in States, NEW bytes \in Sizes, Transition(s, bytes)
      PROVE  Recoveries'
  BY <1>1, TransitionGuards
<1>2. ASSUME NEW k \in Keys, Depart(k)
      PROVE  Recoveries'
  <2>1. /\ UNCHANGED <<events, worker, resolves, dCancels>> /\ Pipe' = Pipe
        /\ \A s \in States : committed'[s] = committed[s] \/ committed'[s] = Untold
    BY <1>2, DepartFacts DEF ShardIInv
  <2>2. \A s : Stilled(s) => Stilled(s)'
    BY <2>1 DEF Stilled, Alive
  <2> QED BY <1>0, <2>1, <2>2, GuardsStay
<1>3. CASE Take
  <2>1. UNCHANGED <<committed, events, resolves, dCancels>> /\ Pipe' = Pipe /\ worker = "idle"
    BY <1>3, TakeFacts
  <2>2. \A s : Stilled(s) => Stilled(s)'
    BY <2>1 DEF Stilled, Alive
  <2> QED BY <1>0, <2>1, <2>2, GuardsStay
<1>4. CASE Drain
  <2>1. worker' \in {"draining", "gone"}
    BY <1>4, DrainFacts
  <2> QED BY <2>1 DEF Recoveries
<1>5. CASE Tells
  BY <1>5, TellGuards
<1>6. CASE Delivered
  <2>1. UNCHANGED <<committed, events, resolves, dCancels>> /\ Pipe' = Pipe /\ worker = "posting"
    BY <1>6, DeliveredFacts
  <2>2. \A s : Stilled(s) => Stilled(s)'
    BY <2>1 DEF Stilled, Alive
  <2> QED BY <1>0, <2>1, <2>2, GuardsStay
<1>7. CASE AroundQueue \/ UNCHANGED shardVars
  <2>1. Pipe' = Pipe /\ committed' = committed /\ events' = events
    BY <1>7, AroundFacts
  <2>2. \A s : Stilled(s) => Stilled(s)'
    BY <1>7, AroundFound
  <2>3. worker \in {"draining", "gone"} => worker' = worker
    BY <1>7, AroundStages
  <2> QED BY <1>0, <2>1, <2>2, <2>3, GuardsStay
<1> QED BY <1>1, <1>2, <1>3, <1>4, <1>5, <1>6, <1>7, StepKinds

(* No event and no resolve is newer than the transition a state was last      *)
(* moved by, whatever leaves the pipe, the goroutines or the config.          *)
LEMMA CommitsStay ==
  ASSUME Commits, ShardTypeOK, Pipe' \subseteq Pipe,
         \A s \in States : committed'[s] = committed[s] \/ committed'[s] = Untold,
         DOMAIN resolves' \subseteq DOMAIN resolves,
         \A i \in DOMAIN resolves' : resolves'[i].of = resolves[i].of
  PROVE  Commits'
<1>1. \A s \in States : committed'[s].id = 0 => committed'[s] = Untold
  BY DEF Commits
<1>2. \A e \in Pipe' : LET c == committed'[e.of] IN
        c.id = 0 \/ e.id < c.id \/ (e.id = c.id /\ e.next = c.next)
  <2> TAKE e \in Pipe'
  <2>1. e \in Pipe /\ e.of \in States
    BY QueueFacts, EventFacts
  <2> QED BY <2>1 DEF Commits, Untold
<1>3. \A i \in DOMAIN resolves' : LET c == committed'[resolves'[i].of] IN c.id = 0 \/ i <= c.id
  <2> TAKE i \in DOMAIN resolves'
  <2>1. i \in DOMAIN resolves /\ resolves'[i].of = resolves[i].of /\ resolves[i].of \in States
    BY DEF ShardTypeOK
  <2> QED BY <2>1 DEF Commits, Untold
<1> QED BY <1>1, <1>2, <1>3 DEF Commits

(* Every step keeps the kept states the newest. *)
LEMMA CommitsStep ==
  ASSUME ShardIInv, [ShardNext]_shardVars
  PROVE  Commits'
<1>0. Commits /\ ShardTypeOK /\ QueueOrder
  BY DEF ShardIInv
<1>1. ASSUME NEW s \in States, NEW bytes \in Sizes, Transition(s, bytes)
      PROVE  Commits'
  <2>1. /\ UNCHANGED resolves /\ committed'[s].id = events + 1
        /\ \A x \in States : x # s => committed'[x] = committed[x]
    BY <1>1, TransitionFacts
  <2>2. PICK e \in Event :
          e.of = s /\ e.id = events + 1 /\ e.next = committed'[s].next /\ Pipe' = Pipe \cup {e}
    BY <1>1, TransitionFacts
  <2>3. /\ events \in Nat
        /\ \A x \in Pipe : x.id \in Nat /\ x.id <= events /\ x.of \in States
        /\ \A i \in DOMAIN resolves : i \in Nat /\ i <= events /\ resolves[i].of \in States
    BY <1>0, QueueFacts, EventFacts, DeliveryAssumption DEF QueueOrder, ShardTypeOK, Ids
  <2>4. \A q \in States : committed'[q].id = 0 => committed'[q] = Untold
    BY <1>0, <2>1, <2>3 DEF Commits
  <2>5. \A x \in Pipe' : LET c == committed'[x.of] IN
          c.id = 0 \/ x.id < c.id \/ (x.id = c.id /\ x.next = c.next)
    <3> TAKE x \in Pipe'
    <3>1. CASE x = e
      BY <2>1, <2>2, <3>1
    <3>2. CASE x \in Pipe
      BY <1>0, <2>1, <2>3, <3>2 DEF Commits
    <3> QED BY <2>2, <3>1, <3>2
  <2>6. \A i \in DOMAIN resolves' : LET c == committed'[resolves'[i].of] IN c.id = 0 \/ i <= c.id
    BY <1>0, <2>1, <2>3 DEF Commits
  <2> QED BY <2>4, <2>5, <2>6 DEF Commits
<1>2. ASSUME NEW k \in Keys, Depart(k)
      PROVE  Commits'
  BY <1>0, <1>2, DepartFacts, CommitsStay
<1>3. CASE Take
  BY <1>0, <1>3, TakeFacts, CommitsStay
<1>4. CASE Drain
  BY <1>0, <1>4, DrainFacts, CommitsStay
<1>5. CASE Tells
  <2>1. /\ committed' = committed /\ inHand \in Pipe /\ Pipe' \subseteq Pipe
    BY <1>5, TellFacts
  <2>2. /\ DOMAIN resolves' \subseteq DOMAIN resolves \cup {inHand.id}
        /\ \A i \in DOMAIN resolves : i # inHand.id /\ resolves'[i] = resolves[i]
        /\ inHand.id \in DOMAIN resolves' => resolves'[inHand.id].of = inHand.of
    BY <1>5, TellDispatch
  <2>3. inHand.id \in Nat /\ inHand.of \in States
    BY <1>0, <2>1, QueueFacts, EventFacts
  <2>4. \A i \in DOMAIN resolves' : LET c == committed'[resolves'[i].of] IN c.id = 0 \/ i <= c.id
    <3> TAKE i \in DOMAIN resolves'
    <3>1. CASE i \in DOMAIN resolves
      BY <1>0, <2>1, <2>2, <3>1 DEF Commits
    <3>2. CASE i = inHand.id
      <4>1. committed[inHand.of].id \in Nat
        BY <1>0, <2>3, DeliveryAssumption DEF ShardTypeOK, Told
      <4> QED BY <1>0, <2>1, <2>2, <2>3, <3>2, <4>1 DEF Commits
    <3> QED BY <2>2, <3>1, <3>2
  <2> QED BY <1>0, <2>1, <2>4 DEF Commits
<1>6. CASE Delivered
  BY <1>0, <1>6, DeliveredFacts, CommitsStay
<1>7. CASE AroundQueue \/ UNCHANGED shardVars
  <2>1. Pipe' = Pipe /\ committed' = committed
    BY <1>7, AroundFacts
  <2>2. DOMAIN resolves' \subseteq DOMAIN resolves
        /\ \A i \in DOMAIN resolves' : resolves'[i].of = resolves[i].of
    BY <1>7, AroundResolves
  <2> QED BY <1>0, <2>1, <2>2, CommitsStay
<1> QED BY <1>1, <1>2, <1>3, <1>4, <1>5, <1>6, <1>7, StepKinds

-----------------------------------------------------------------------------
(* The operator.                                                              *)

(* While the evaluator is open, a resolve that may post is only cancelled for *)
(* the firing in hand and only leaves by being posted.                        *)
LEMMA AroundLives ==
  ASSUME ShardIInv, AroundQueue \/ UNCHANGED shardVars, ~closed', NEW j, Alive(j)
  PROVE  \/ Alive(j)' /\ resolves'[j].of = resolves[j].of
         \/ AtHand /\ KeyOf(resolves[j].of) = KeyOf(inHand.of) /\ inHand.next = "FIRING"
         \/ posted'[resolves[j].of] = [id |-> j, next |-> "OK"]
<1>0. Stages /\ ResolvesFound /\ ShardTypeOK
  BY DEF ShardIInv
<1>1. j \in DOMAIN resolves /\ resolves[j].stage = "waiting" /\ ~resolves[j].cancelled
  BY DEF Alive
<1>2. CASE resolves' = resolves
  BY <1>2 DEF Alive
<1>3. CASE DispatcherCancels
  <2>1. closed' = closed /\ dCancels # {}
    BY <1>3 DEF DispatcherCancels
  <2> QED BY <1>0, <2>1 DEF Stages
<1>4. CASE Cancels
  <2>1. resolves' = Cancelled(cancels) /\ AtHand /\ inHand.next = "FIRING"
    BY <1>0, <1>4 DEF Cancels, AtHand, Stages
  <2>2. /\ DOMAIN resolves' = DOMAIN resolves
        /\ resolves'[j].of = resolves[j].of /\ resolves'[j].stage = resolves[j].stage
        /\ resolves'[j].cancelled = (resolves[j].cancelled \/ j \in cancels)
    BY <1>0, <1>1, <2>1, ResolveTypes
  <2>3. CASE j \in cancels
    <3>1. KeyOf(resolves[j].of) = KeyOf(inHand.of)
      BY <1>0, <1>1, <2>3 DEF ResolvesFound
    <3> QED BY <2>1, <3>1
  <2>4. CASE j \notin cancels
    BY <1>1, <2>2, <2>4 DEF Alive
  <2> QED BY <2>3, <2>4
<1>5. ASSUME NEW i \in DOMAIN resolves, GraceEnds(i) \/ ResolvePosted(i)
      PROVE  \/ Alive(j)' /\ resolves'[j].of = resolves[j].of
             \/ posted'[resolves[j].of] = [id |-> j, next |-> "OK"]
  <2>1. PICK s \in {"posting", "leaving"} : resolves' = Moved(i, s)
    BY <1>5 DEF GraceEnds, ResolvePosted
  <2>2. CASE i # j
    <3>1. DOMAIN resolves' = DOMAIN resolves /\ resolves'[j] = resolves[j]
      BY <1>0, <1>1, <2>1, <2>2, ResolveTypes
    <3> QED BY <1>1, <3>1 DEF Alive
  <2>3. CASE i = j
    <3>1. posted' = [posted EXCEPT ![resolves[j].of] = [id |-> j, next |-> "OK"]]
      BY <1>1, <1>5, <2>3 DEF GraceEnds, ResolvePosted
    <3>2. resolves[j].of \in States
      BY <1>0, <1>1 DEF ShardTypeOK
    <3> QED BY <1>0, <3>1, <3>2 DEF ShardTypeOK
  <2> QED BY <2>2, <2>3
<1>6. ASSUME NEW i \in DOMAIN resolves, RemovePending(i)
      PROVE  Alive(j)' /\ resolves'[j].of = resolves[j].of
  <2>1. i # j
    BY <1>1, <1>6 DEF RemovePending
  <2>2. j \in DOMAIN resolves' /\ resolves'[j] = resolves[j]
    BY <1>1, <1>6, <2>1 DEF RemovePending
  <2> QED BY <1>1, <2>2 DEF Alive
<1>7. CASE \E i \in DOMAIN resolves : Resolve(i)
  BY <1>5, <1>6, <1>7 DEF Resolve
<1>8. CASE \/ Close \/ CloseQuit \/ DispatcherClose
           \/ Leave \/ CancelPending \/ UNCHANGED shardVars
  <2>1. resolves' = resolves
    BY <1>8 DEF Close, CloseQuit, DispatcherClose, Leave, CancelPending,
       shardVars, dispatcher
  <2> QED BY <1>2, <2>1
<1> QED BY <1>3, <1>4, <1>7, <1>8 DEF AroundQueue

(* Around the queue the operator stays told. *)
LEMMA AroundTold ==
  ASSUME ShardIInv, AroundQueue \/ UNCHANGED shardVars
  PROVE  OperatorTold'
<1> SUFFICES ASSUME ~closed', NEW s \in States, committed'[s].id # 0, KeyOf(s) \notin panicked',
                    ~Awaited(s)'
             PROVE  Known(s)'
  BY DEF OperatorTold
<1>1. /\ Pipe' = Pipe /\ committed' = committed /\ panicked' = panicked /\ paged' = paged /\ ~closed
  BY AroundFacts, AroundStages
<1>2. Stages /\ ResolvesFound /\ Commits /\ QueueOrder /\ ShardTypeOK
  BY DEF ShardIInv
<1>3. Known(s)
  BY <1>1 DEF ShardIInv, OperatorTold, Awaited
<1>4. dCancels = {} /\ committed[s] \in Told /\ committed[s].id \in Nat
  BY <1>1, <1>2, DeliveryAssumption DEF Stages, ShardTypeOK, Told
<1>5. CASE paged[KeyOf(s)] > committed[s].id /\ committed[s].next = "OK"
  BY <1>1, <1>5 DEF Known
<1>6. CASE committed[s].next = "OK"
           /\ \E g \in Pipe : KeyOf(g.of) = KeyOf(s) /\ g.next = "FIRING" /\ committed[s].id < g.id
  BY <1>1, <1>6 DEF Known
<1>7. CASE committed[s].next = "OK" /\ Alive(committed[s].id) /\ resolves[committed[s].id].of = s
  <2> PICK j : j = committed[s].id
    OBVIOUS
  <2>1. Alive(j) /\ resolves[j].of = s /\ j \in DOMAIN resolves
    BY <1>7 DEF Alive
  <2>2. CASE Alive(j)' /\ resolves'[j].of = resolves[j].of
    <3>1. j = committed'[s].id
      BY <1>1
    <3> QED BY <1>1, <1>7, <2>1, <2>2, <3>1 DEF Known, Alive
  <2>3. CASE AtHand /\ KeyOf(resolves[j].of) = KeyOf(inHand.of) /\ inHand.next = "FIRING"
    <3>1. inHand \in Pipe /\ j < inHand.id
      BY <1>2, <2>1, <2>3, HandIsFirst DEF QueueOrder, ShardIInv
    <3> QED BY <1>1, <1>7, <2>1, <2>3, <3>1 DEF Known
  <2>4. CASE posted'[resolves[j].of] = [id |-> j, next |-> "OK"]
    <3>1. committed[s] = [id |-> j, next |-> "OK"]
      BY <1>4, <1>7 DEF Told
    <3> QED BY <1>1, <2>1, <2>4, <3>1 DEF Known
  <2> QED BY <2>1, <2>2, <2>3, <2>4, AroundLives
<1>8. CASE posted[s] = committed[s]
  <2>1. CASE posted'[s] = posted[s]
    BY <1>1, <1>8, <2>1 DEF Known
  <2>2. CASE posted'[s] # posted[s]
    <3>1. PICK i \in DOMAIN resolves :
            /\ Alive(i) /\ i \in Nat
            /\ \A x \in States : x # resolves[i].of => posted'[x] = posted[x]
      BY <2>2, AroundResolves
    <3>2. resolves[i].of = s
      BY <2>2, <3>1
    <3>3. posted[s].id < i
      BY <1>2, <1>4, <3>1, <3>2 DEF ResolvesFound
    <3>4. i <= committed[s].id
      BY <1>1, <1>2, <3>2 DEF Commits
    <3> QED BY <1>4, <1>8, <3>1, <3>3, <3>4
  <2> QED BY <2>1, <2>2
<1> QED BY <1>3, <1>5, <1>6, <1>7, <1>8 DEF Known

(* Telling tells the operator what the evaluator keeps, or leaves it to the   *)
(* resolve it starts, unless it panics.                                       *)
LEMMA TellTold ==
  ASSUME ShardIInv, Tells
  PROVE  OperatorTold'
<1> SUFFICES ASSUME ~closed', NEW s \in States, committed'[s].id # 0, KeyOf(s) \notin panicked',
                    ~Awaited(s)'
             PROVE  Known(s)'
  BY DEF OperatorTold
<1>1. /\ UNCHANGED <<committed, inHand, closed, dClosed>> /\ inHand \in Pipe /\ Pipe' = Pipe \ {inHand}
      /\ inHand.id \in Nat /\ inHand.of \in States
  BY TellFacts, EventFacts
<1>2. ~dClosed /\ ~closed
  BY <1>1 DEF ShardIInv, Stages
<1>3. /\ \A i \in DOMAIN resolves : i \in DOMAIN resolves' /\ resolves'[i] = resolves[i]
      /\ panicked \subseteq panicked'
  BY TellDispatch
<1>4. Commits /\ QueueOrder /\ ShardTypeOK
  BY DEF ShardIInv
<1>5. committed[s] \in Told /\ committed[s].id \in Nat /\ KeyOf(s) \in Keys /\ paged[KeyOf(s)] \in Nat
  BY <1>4, StateFacts, DeliveryAssumption DEF ShardTypeOK, Told
<1>6. CASE inHand.of = s /\ inHand.id = committed[s].id
  <2>1. inHand.next = committed[s].next
    BY <1>1, <1>4, <1>6 DEF Commits
  <2>2. CASE inHand.next = "FIRING" /\ posted'[inHand.of] = [id |-> inHand.id, next |-> "FIRING"]
    <3>1. committed[s] = [id |-> inHand.id, next |-> "FIRING"]
      BY <1>5, <1>6, <2>1, <2>2 DEF Told
    <3> QED BY <1>1, <1>6, <2>2, <3>1 DEF Known
  <2>3. CASE inHand.next = "OK" /\ Alive(inHand.id)' /\ resolves'[inHand.id].of = inHand.of
    <3> PICK i : i = inHand.id
      OBVIOUS
    <3>1. Alive(i)' /\ resolves'[i].of = s /\ i = committed'[s].id
      BY <1>1, <1>6, <2>3 DEF Alive
    <3> QED BY <1>1, <2>1, <2>3, <3>1 DEF Known, Alive
  <2>4. panicked' # panicked \cup {KeyOf(inHand.of)}
    BY <1>6
  <2> QED BY <1>2, <2>2, <2>3, <2>4, TellDispatch
<1>7. ASSUME inHand.of # s \/ inHand.id # committed[s].id
      PROVE  Known(s)'
  <2>1. Known(s)
    BY <1>1, <1>2, <1>3, <1>7 DEF ShardIInv, OperatorTold, Awaited
  <2>2. CASE posted[s] = committed[s]
    <3>1. inHand.of # s
      <4>1. ASSUME inHand.of = s PROVE FALSE
        <5>1. inHand.id <= committed[s].id
          BY <1>1, <1>4, <1>5, <1>7, <4>1 DEF Commits
        <5>2. posted[s].id < inHand.id
          BY <1>1, <1>4 DEF QueueOrder
        <5> QED BY <1>1, <1>5, <2>2, <5>1, <5>2
      <4> QED BY <4>1
    <3>2. posted'[s] = posted[s]
      BY <3>1, TellDispatch
    <3> QED BY <1>1, <2>2, <3>2 DEF Known
  <2>3. CASE committed[s].next = "OK" /\ Alive(committed[s].id) /\ resolves[committed[s].id].of = s
    <3> PICK i : i = committed[s].id
      OBVIOUS
    <3>1. Alive(i)' /\ resolves'[i].of = s /\ i = committed'[s].id
      BY <1>1, <1>3, <2>3 DEF Alive
    <3> QED BY <1>1, <2>3, <3>1 DEF Known, Alive
  <2>4. CASE committed[s].next = "OK" /\ paged[KeyOf(s)] > committed[s].id
    <3>1. paged[KeyOf(s)] < inHand.id
      BY <1>1, <1>4, <1>5 DEF QueueOrder
    <3>2. paged'[KeyOf(s)] = paged[KeyOf(s)] \/ paged'[KeyOf(s)] = inHand.id
      BY <1>5, TellDispatch
    <3>3. paged'[KeyOf(s)] > committed[s].id
      BY <1>1, <1>5, <2>4, <3>1, <3>2
    <3> QED BY <1>1, <2>4, <3>3 DEF Known
  <2>5. ASSUME committed[s].next = "OK",
               NEW g \in Pipe, KeyOf(g.of) = KeyOf(s), g.next = "FIRING", committed[s].id < g.id
        PROVE  Known(s)'
    <3>1. CASE g # inHand
      BY <1>1, <2>5, <3>1 DEF Known
    <3>2. CASE g = inHand
      <4>1. panicked' # panicked \cup {KeyOf(inHand.of)}
        BY <2>5, <3>2
      <4>2. paged'[KeyOf(s)] = inHand.id
        BY <2>5, <3>2, <4>1, TellDispatch
      <4> QED BY <1>1, <2>5, <3>2, <4>2 DEF Known
    <3> QED BY <3>1, <3>2
  <2> QED BY <2>1, <2>2, <2>3, <2>4, <2>5 DEF Known
<1> QED BY <1>6, <1>7

(* Every step leaves the operator told. *)
LEMMA ShardToldStep ==
  ASSUME ShardIInv, [ShardNext]_shardVars
  PROVE  OperatorTold'
<1>0. OperatorTold
  BY DEF ShardIInv
<1>1. ASSUME NEW s \in States, NEW bytes \in Sizes, Transition(s, bytes)
      PROVE  OperatorTold'
  <2>1. /\ UNCHANGED <<closed, resolves, posted, paged, panicked>> /\ committed'[s].id = events + 1
        /\ \A x \in States : x # s => committed'[x] = committed[x]
    BY <1>1, TransitionFacts
  <2>2. PICK e \in Event : e.of = s /\ e.id = events + 1 /\ Pipe' = Pipe \cup {e}
    BY <1>1, TransitionFacts
  <2>3. ASSUME ~closed', NEW x \in States, committed'[x].id # 0, KeyOf(x) \notin panicked', ~Awaited(x)'
        PROVE  Known(x)'
    <3>1. x # s
      BY <2>1, <2>2, <2>3 DEF Awaited
    <3>2. ~Awaited(x)
      BY <2>1, <2>2, <2>3, <3>1 DEF Awaited
    <3>3. Known(x)
      BY <1>0, <2>1, <2>3, <3>1, <3>2 DEF OperatorTold
    <3> QED BY <2>1, <2>2, <3>1, <3>3 DEF Known, Alive
  <2> QED BY <2>3 DEF OperatorTold
<1>2. ASSUME NEW k \in Keys, Depart(k)
      PROVE  OperatorTold'
  <2>1. /\ UNCHANGED <<closed, resolves, posted, paged, panicked>> /\ Pipe' = Pipe
        /\ \A s \in States : committed'[s] = committed[s] \/ committed'[s] = Untold
    BY <1>2, DepartFacts DEF ShardIInv
  <2>2. ASSUME ~closed', NEW x \in States, committed'[x].id # 0, KeyOf(x) \notin panicked', ~Awaited(x)'
        PROVE  Known(x)'
    <3>1. committed'[x] = committed[x]
      BY <2>1, <2>2 DEF Untold
    <3>2. Known(x)
      BY <1>0, <2>1, <2>2, <3>1 DEF OperatorTold, Awaited
    <3> QED BY <2>1, <3>1, <3>2 DEF Known, Alive
  <2> QED BY <2>2 DEF OperatorTold
<1>3. ASSUME UNCHANGED <<committed, closed, resolves, posted, paged, panicked>>, Pipe' = Pipe
      PROVE  OperatorTold'
  BY <1>0, <1>3 DEF OperatorTold, Known, Alive, Awaited
<1>4. CASE Take
  BY <1>3, <1>4, TakeFacts
<1>5. CASE Drain
  <2>1. worker = "draining" /\ closed' = closed
    BY <1>5, DrainFacts
  <2> QED BY <2>1 DEF ShardIInv, Stages, OperatorTold
<1>6. CASE Tells
  BY <1>6, TellTold
<1>7. CASE Delivered
  BY <1>3, <1>7, DeliveredFacts
<1>8. CASE AroundQueue \/ UNCHANGED shardVars
  BY <1>8, AroundTold
<1> QED BY <1>1, <1>2, <1>4, <1>5, <1>6, <1>7, <1>8, StepKinds

-----------------------------------------------------------------------------
(* The shard holds nothing at first. *)
LEMMA ShardStarts ==
  ASSUME ShardInit
  PROVE  ShardIInv
<1> USE DEF ShardInit
<1>1. DOMAIN resolves = {} /\ Len(pending) = 0 /\ ~AtHand /\ pending = <<>>
  BY DEF AtHand
<1>2. Pipe = {}
  BY <1>1 DEF Pipe
<1>3. ShardTypeOK
  <2>1. committed \in [States -> Told] /\ events \in 0..MaxEvents
        /\ posted \in [States -> Told] /\ paged \in [Keys -> 0..MaxEvents]
    BY DeliveryAssumption DEF Told, Untold
  <2>2. pending \in Seq(Event) /\ Len(pending) <= ShardDepth
    BY <1>1, EmptySeq, DeliveryAssumption
  <2> QED BY <1>1, <2>1, <2>2 DEF ShardTypeOK
<1>4. QueueOrder
  <2>1. \A i \in 1..Len(pending) : FALSE
    BY <1>1
  <2>2. /\ inHand.id <= events /\ \A k \in Keys : paged[k] <= events
        /\ \A s \in States : posted[s].id <= events /\ committed[s].id <= events
    BY DEF NoEvent, Untold
  <2> QED BY <1>1, <1>2, <2>1, <2>2 DEF QueueOrder
<1>5. BytesAdd
  <2> DEFINE sum == [i \in 0..0 |-> 0]
  <2>1. sum \in [0..Len(pending) -> Nat] /\ \A i \in 0..Len(pending) : i = 0 /\ sum[i] = 0
    BY <1>1
  <2>2. 0 \in 0..Len(pending) /\ Len(pending) \in 0..Len(pending)
    BY <1>1
  <2>3. inHand.bytes = 0 /\ queuedBytes = 0
    BY DEF NoEvent
  <2> HIDE DEF sum
  <2>4. \A i \in 1..Len(pending) : FALSE
    BY <1>1
  <2>5. \A i, j \in 0..Len(pending) : i <= j => sum[i] <= sum[j]
    BY <2>1
  <2>6. Totals(sum)
    BY <2>1, <2>2, <2>3, <2>4, <2>5 DEF Totals
  <2> QED BY <2>1, <2>6 DEF BytesAdd
<1>6. Stages
  BY DEF Stages
<1>7. ResolvesFound
  BY <1>1 DEF ResolvesFound
<1>8. Recoveries
  BY <1>2 DEF Recoveries, Untold
<1>9. Commits
  BY <1>1, <1>2 DEF Commits, Untold
<1>10. OperatorTold
  BY DEF OperatorTold, Untold
<1> QED BY <1>3, <1>4, <1>5, <1>6, <1>7, <1>8, <1>9, <1>10 DEF ShardIInv

(* Every step keeps the shard's invariant. *)
LEMMA ShardStep ==
  ASSUME ShardIInv, [ShardNext]_shardVars
  PROVE  ShardIInv'
<1>1. ShardTypeOK' /\ BytesAdd'
  BY HoldStep
<1>2. QueueOrder' /\ Stages' /\ ResolvesFound'
  BY OrderStep, StagesStep, FoundStep
<1>3. Recoveries' /\ Commits' /\ OperatorTold'
  BY RecoveriesStep, CommitsStep, ShardToldStep
<1> QED BY <1>1, <1>2, <1>3 DEF ShardIInv

(* What the invariant says of the queue that is idle, left or at rest.        *)
LEMMA ShardIsSound ==
  ASSUME ShardIInv
  PROVE  ShardInv
<1>0. ShardTypeOK /\ Stages
  BY DEF ShardIInv
<1>1. ASSUME inHand = NoEvent, pending = <<>>
      PROVE  queuedBytes = 0
  <2>1. PICK sum \in [0..Len(pending) -> Nat] : Totals(sum)
    BY DEF ShardIInv, BytesAdd
  <2>2. Len(pending) = 0 /\ inHand.bytes = 0
    BY <1>1, EmptySeq DEF NoEvent
  <2> QED BY <2>1, <2>2 DEF Totals
<1>2. IdleShardTakesAny
  <2> SUFFICES ASSUME worker = "idle", pending = <<>> PROVE \A bytes \in Sizes : Takes(bytes)
    BY DEF IdleShardTakesAny
  <2>1. queuedBytes = 0
    BY <1>0, <1>1 DEF ShardTypeOK
  <2>2. Len(pending) < ShardDepth
    BY EmptySeq, DeliveryAssumption
  <2> QED BY <2>1, <2>2 DEF Takes
<1>3. NothingBehindTheWorker
  BY <1>0, <1>1 DEF Stages, ShardTypeOK, NothingBehindTheWorker
<1>4. OperatorKnows
  <2> SUFFICES ASSUME Rest, ~closed, NEW s \in States, committed[s] # Untold, KeyOf(s) \notin panicked
               PROVE  \/ posted[s] = committed[s]
                      \/ committed[s].next = "OK" /\ paged[KeyOf(s)] > committed[s].id
    BY DEF OperatorKnows
  <2>1. Pipe = {} /\ DOMAIN resolves = {}
    BY EmptySeq DEF Rest, Pipe, AtHand
  <2>2. committed[s].id # 0
    BY DEF ShardIInv, Commits
  <2>3. Known(s)
    BY <2>1, <2>2 DEF ShardIInv, OperatorTold, Awaited
  <2> QED BY <2>1, <2>3 DEF Known, Alive
<1> QED BY <1>0, <1>2, <1>3, <1>4 DEF ShardInv

(* A step posts what is newer than the state's last notification and the      *)
(* key's last page, and a firing only what is newer than all of the key's.    *)
LEMMA StepPostsNewer ==
  ASSUME ShardIInv, [ShardNext]_shardVars, dCancels = {}, NEW s \in States, Begins(s)
  PROVE  /\ posted'[s].id > posted[s].id
         /\ posted'[s].id > paged[KeyOf(s)]
         /\ posted'[s].next = "FIRING" =>
              \A q \in States : KeyOf(q) = KeyOf(s) => posted'[s].id > posted[q].id
<1>0. posted'[s] # posted[s] /\ KeyOf(s) \in Keys
  BY StateFacts DEF Begins
<1>1. ASSUME Tells
      PROVE  /\ posted'[s].id > paged[KeyOf(s)]
             /\ \A q \in States : posted'[s].id > posted[q].id
  <2>1. posted'[s].id = inHand.id /\ inHand \in Pipe
    BY <1>0, <1>1, TellDispatch, TellFacts
  <2> QED BY <1>0, <2>1 DEF ShardIInv, QueueOrder
<1>2. ASSUME AroundQueue \/ UNCHANGED shardVars
      PROVE  posted'[s].id > posted[s].id /\ posted'[s].id > paged[KeyOf(s)] /\ posted'[s].next = "OK"
  <2>1. PICK i \in DOMAIN resolves :
          /\ Alive(i) /\ posted'[resolves[i].of] = [id |-> i, next |-> "OK"]
          /\ \A q \in States : q # resolves[i].of => posted'[q] = posted[q]
    BY <1>0, <1>2, AroundResolves
  <2>2. resolves[i].of = s /\ posted'[s].id = i /\ posted'[s].next = "OK"
    BY <1>0, <2>1
  <2>3. posted[s].id < i /\ paged[KeyOf(s)] < i
    BY <2>1, <2>2 DEF ShardIInv, ResolvesFound
  <2> QED BY <2>2, <2>3
<1>3. ASSUME \/ \E x \in States, bytes \in Sizes : Transition(x, bytes)
             \/ \E k \in Keys : Depart(k)
             \/ Take \/ Drain \/ Delivered
      PROVE  posted' = posted
  BY <1>3, TransitionFacts, DepartFacts, TakeFacts, DrainFacts, DeliveredFacts DEF ShardIInv
<1> QED BY <1>0, <1>1, <1>2, <1>3, StepKinds

(* The shard takes any event once it is idle and holds nothing behind a       *)
(* worker that is gone; and when nothing is left to do the operator was told  *)
(* of every state that fires, and of every one that recovered unless a later  *)
(* firing of its key was told: for any sources, depth, ceiling and weights.   *)
THEOREM ShardDelivers == ShardSpec => []ShardInv
<1>1. ShardInit => ShardIInv
  BY ShardStarts
<1>2. ShardIInv /\ [ShardNext]_shardVars => ShardIInv'
  BY ShardStep
<1>3. ShardIInv => ShardInv
  BY ShardIsSound
<1> QED BY <1>1, <1>2, <1>3, PTL DEF ShardSpec

(* The notifications of a state begin in the order of its transitions, and    *)
(* those of a key in theirs where one of the two is a firing, however many    *)
(* resolves of other sources wait beside each other.                          *)
THEOREM NotificationsKeepOrder == ShardSpec => PostedInOrder
<1>1. ShardInit => ShardIInv
  BY ShardStarts
<1>2. ShardIInv /\ [ShardNext]_shardVars => ShardIInv'
  BY ShardStep
<1>3. ShardIInv /\ [ShardNext]_shardVars =>
        [dCancels = {} => \A s \in States : Begins(s) =>
           /\ posted'[s].id > posted[s].id
           /\ posted'[s].id > paged[KeyOf(s)]
           /\ posted'[s].next = "FIRING" =>
                \A q \in States : KeyOf(q) = KeyOf(s) => posted'[s].id > posted[q].id]_shardVars
  BY StepPostsNewer
<1> QED BY <1>1, <1>2, <1>3, PTL DEF ShardSpec, PostedInOrder
=============================================================================
