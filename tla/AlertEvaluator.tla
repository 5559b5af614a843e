--------------------------- MODULE AlertEvaluator ---------------------------
(* The alert evaluator, internal/alert/evaluator.go, for one target and one   *)
(* alert: which cycles it applies, the state of every source, the aggregate   *)
(* of a quorum alert, and what it tells the delivery queue.                   *)
(*                                                                            *)
(* OnCycle's evaluate, Refresh and PruneDeparted hold e.mu and are one action *)
(* each.  The config is published by Store.Reload, the evaluator hears of it  *)
(* later (Refresh) and drops departed targets only after a Build that         *)
(* succeeded (PruneDeparted), so these are three actions.  The queue's        *)
(* verdict is an input here; AlertDelivery models the queue.  A condition's   *)
(* verdict on a cycle is an input too.                                        *)
(*                                                                            *)
(* Time is the master's receive clock, in units, and never steps back; a      *)
(* cycle's stamp is chosen by the slave.                                      *)
EXTENDS Integers, Sequences, FiniteSets

CONSTANTS
  Sources,         \* nodes that measure the target
  Intervals,       \* schedules the config may adopt
  Mins,            \* counts a quorum of the config may ask for, 0 for none
  MaxInterval,     \* config.MaxProbeInterval
  Skew,            \* config.MaxFutureSkew
  StaleIntervals,  \* intervals a source may miss: 3 in stalenessWindow
  Sustained,       \* the alert's threshold of consecutive cycles
  AheadCeiling,    \* stamps ahead of the clock that are remembered
  MaxClock,        \* bound: time
  MaxCycles,       \* bound: cycles applied
  MaxReloads       \* bound: configs published

ASSUME EvaluatorAssumption ==
  /\ IsFiniteSet(Sources)
  /\ MaxInterval \in Nat \ {0}
  /\ Intervals \subseteq 1..MaxInterval /\ Intervals # {}
  /\ Mins \subseteq Nat /\ Mins # {}
  /\ Skew \in Nat
  /\ StaleIntervals \in Nat \ {0}
  /\ Sustained \in Nat \ {0}
  /\ AheadCeiling \in Nat \ {0}
  /\ MaxClock \in Nat /\ MaxCycles \in Nat /\ MaxReloads \in Nat

(* config.Quorum: a majority or a count. *)
Quorums == {q \in [majority : BOOLEAN, min : Mins] : ~(q.majority /\ q.min > 0)}

Enabled(quorum) == quorum.majority \/ quorum.min > 0

Threshold(quorum, live) == IF quorum.majority THEN (live \div 2) + 1 ELSE quorum.min

VARIABLES
  clock,    \* nowFn
  config,   \* store.Current(): the interval, the quorum, whether it names the pair
  enabled,  \* quorumEnabled as of the last Refresh
  probing,  \* whether something still produces cycles of the pair
  states,   \* e.states[key], a function on the sources that have an entry
  agg,      \* e.agg[key]
  warmup,   \* e.warmup[key]
  cycles,   \* cycles applied so far
  reloads,  \* configs published so far
  applied,  \* every stamp applied to a source
  genuine,  \* those that were not ahead of the clock when they were
  evicted,  \* those the ceiling on `ahead' made the evaluator forget
  heard,    \* when a source's last cycle was applied
  told,     \* the sources whose last notification was a firing
  toldAgg,  \* whether the last notification of the aggregate was
  flipped   \* whether quorum was ever switched since the start

evaluator == <<enabled, states, agg, warmup>>
marks     == <<applied, genuine, evicted, heard>>
pages     == <<told, toldAgg>>

vars == <<clock, config, probing, evaluator, cycles, reloads, marks, pages, flipped>>

Stamps == 1..(MaxClock + Skew)

NoState  == "no state"
NoWarmup == [firstSeen |-> 0, sourcesSeen |-> {}]

Larger(a, b) == IF a >= b THEN a ELSE b

StalenessWindow(interval) == StaleIntervals * interval
AlertFreshness(interval)  == Larger(StalenessWindow(interval), Skew)
LivenessWindow(interval)  == AlertFreshness(interval)

AlertIdentityRetention == AlertFreshness(MaxInterval)

-----------------------------------------------------------------------------
(* The replay marks of one source: alertState.admits and alertState.accept.   *)
(* (A definition named X_Y is X with the mistake Y; no behaviour uses it.)    *)
NewState ==
  [state |-> "OK", consecHits |-> 0, lastSeen |-> 0,
   lastCycle |-> 0, pastCycle |-> 0, ahead |-> {}]

Admits_OneMark(st, t) == t > st.lastCycle

(* Stamps are positive, so an entry that has accepted nothing admits all.     *)
Admits(st, t) ==
  IF t > clock THEN t > st.lastCycle ELSE t > st.pastCycle /\ t \notin st.ahead

(* Stamps ahead of the clock are accepted in rising order, so the oldest of   *)
(* them is the smallest.                                                      *)
Oldest(S) == CHOOSE x \in S : \A y \in S : x <= y

Trimmed(S) == IF Cardinality(S) > AheadCeiling THEN S \ {Oldest(S)} ELSE S

Accepted(st, t) ==
  LET newest == [st EXCEPT !.lastCycle = Larger(@, t), !.lastSeen = clock]
  IN  IF t > clock
      THEN [newest EXCEPT !.ahead = Trimmed(@ \cup {t})]
      ELSE [newest EXCEPT !.pastCycle = t, !.ahead = {x \in @ : x > t}]

(* The state machine of one source. *)
Judged(st, bad) ==
  LET hits == IF bad THEN st.consecHits + 1 ELSE 0
  IN  [st EXCEPT !.consecHits = hits,
         !.state = IF ~bad THEN "OK"
                   ELSE IF @ = "FIRING" \/ hits >= Sustained THEN "FIRING" ELSE "PENDING"]

StateOf(s) == IF s \in DOMAIN states THEN states[s] ELSE NewState

Evaluated(s, t, bad) ==
  [x \in DOMAIN states \cup {s} |->
     IF x = s THEN Judged(Accepted(StateOf(s), t), bad) ELSE states[x]]

-----------------------------------------------------------------------------
(* Who still counts, and whose identity may be dropped. *)
Quiet_ByStamp(st) == clock - st.lastCycle > LivenessWindow(config.interval)
Quiet(st) == clock - st.lastSeen > LivenessWindow(config.interval)

Spent_OnLiveWindow(st) == clock - st.lastCycle > AlertFreshness(config.interval)
Spent(st) == clock - st.lastCycle > AlertIdentityRetention

Keeping(by, S) == [x \in S |-> by[x]]

(* pruneQuietSources, of a per-source alert. *)
PruneQuiet(by) ==
  Keeping(by, {x \in DOMAIN by : Quiet(by[x]) /\ Spent(by[x]) => by[x].state = "FIRING"})

(* tally, of a quorum alert. *)
Tallied(by) ==
  [x \in {y \in DOMAIN by : ~(Quiet(by[y]) /\ Spent(by[y]))} |->
     IF Quiet(by[x]) THEN [by[x] EXCEPT !.state = "OK", !.consecHits = 0] ELSE by[x]]

Live(by)   == {x \in DOMAIN by : ~Quiet(by[x])}
Firing(by) == {x \in Live(by) : by[x].state = "FIRING"}

QuorumReached(by) ==
  Live(by) # {} /\ Cardinality(Firing(by)) >= Threshold(config.quorum, Cardinality(Live(by)))

(* aggWarmup.ready. *)
Ready(w) ==
  \/ Cardinality(w.sourcesSeen) >= 2
  \/ clock - w.firstSeen >= StalenessWindow(config.interval)

-----------------------------------------------------------------------------
Init ==
  /\ clock = 1
  /\ config \in [interval : Intervals, quorum : Quorums, named : {TRUE}]
  /\ enabled = Enabled(config.quorum) /\ probing = TRUE
  /\ states = <<>> /\ agg = NoState /\ warmup = NoWarmup
  /\ cycles = 0 /\ reloads = 0
  /\ applied = [s \in Sources |-> {}] /\ genuine = applied /\ evicted = applied
  /\ heard = [s \in Sources |-> 0]
  /\ told = {} /\ toldAgg = FALSE
  /\ flipped = FALSE

(* A cycle that reaches evaluate with something to apply: it sent probes, is  *)
(* fresh, and admits takes its stamp.  Any other cycle changes nothing.       *)
Fresh(t) == clock - t <= AlertFreshness(config.interval) /\ t <= clock + Skew

Applies(s, t) ==
  /\ probing
  /\ Fresh(t)
  /\ Admits(StateOf(s), t)
  /\ cycles < MaxCycles
  /\ cycles' = cycles + 1
  /\ applied' = [applied EXCEPT ![s] = @ \cup {t}]
  /\ genuine' = IF t > clock THEN genuine ELSE [genuine EXCEPT ![s] = @ \cup {t}]
  /\ evicted' = [evicted EXCEPT ![s] =
       IF t > clock
       THEN @ \cup ((StateOf(s).ahead \cup {t}) \ Trimmed(StateOf(s).ahead \cup {t}))
       ELSE @]
  /\ heard' = [heard EXCEPT ![s] = clock]

(* Wants: only a transition into or out of firing is queued, any other counts *)
(* as accepted.                                                               *)
Wanted(prev, next) == next = "FIRING" \/ prev = "FIRING"

(* What the queue answers to a transition, if there is one. *)
Verdict(prev, next) == IF prev # next /\ Wanted(prev, next) THEN BOOLEAN ELSE {TRUE}

(* evaluate of an alert without quorum: a refused transition is taken back,   *)
(* the hits are not.                                                          *)
Settled_Kept(by, s, prev, accepted) == by
Settled(by, s, prev, accepted) == IF accepted THEN by ELSE [by EXCEPT ![s].state = prev]

OnCycleAlone(s, t, bad) ==
  /\ ~Enabled(config.quorum)
  /\ Applies(s, t)
  /\ LET prev == StateOf(s).state
         by   == PruneQuiet(Evaluated(s, t, bad))
         next == by[s].state
     IN  \E accepted \in Verdict(prev, next) :
           /\ states' = Settled(by, s, prev, accepted)
           /\ told' = IF ~accepted \/ ~Wanted(prev, next) THEN told
                      ELSE IF next = "FIRING" THEN told \cup {s} ELSE told \ {s}
  /\ UNCHANGED <<clock, config, enabled, probing, agg, warmup, reloads, toldAgg, flipped>>

(* evaluate of a quorum alert: the tally, warm-up, and the change of the      *)
(* aggregate.                                                                 *)
SettledAgg(prev, next, accepted) == IF accepted THEN next ELSE prev

OnCycleQuorum(s, t, bad) ==
  /\ Enabled(config.quorum)
  /\ Applies(s, t)
  /\ LET by      == Tallied(Evaluated(s, t, bad))
         prev    == IF agg = NoState THEN "OK" ELSE agg
         warm    == [firstSeen   |-> IF warmup = NoWarmup THEN clock ELSE warmup.firstSeen,
                     sourcesSeen |-> warmup.sourcesSeen \cup {s}]
         reached == QuorumReached(by) /\ (prev = "FIRING" \/ Ready(warm))
         next    == IF reached THEN "FIRING" ELSE "OK"
     IN  /\ states' = by
         /\ warmup' = warm
         /\ \E accepted \in Verdict(prev, next) :
              /\ agg' = IF prev = next THEN agg ELSE SettledAgg(prev, next, accepted)
              /\ toldAgg' = IF prev # next /\ accepted THEN next = "FIRING" ELSE toldAgg
  /\ UNCHANGED <<clock, config, enabled, probing, reloads, told, flipped>>

Tick ==
  /\ clock < MaxClock
  /\ clock' = clock + 1
  /\ UNCHANGED <<config, probing, evaluator, cycles, reloads, marks, pages, flipped>>

(* Store.Reload publishes a config: evaluate reads it at once. *)
Reload ==
  /\ reloads < MaxReloads
  /\ reloads' = reloads + 1
  /\ config' \in [interval : Intervals, quorum : Quorums, named : BOOLEAN]
  /\ config' # config
  /\ probing' = (probing \/ config'.named)
  /\ flipped' = (flipped \/ Enabled(config'.quorum) # Enabled(config.quorum))
  /\ UNCHANGED <<clock, evaluator, cycles, marks, pages>>

(* OnReload: Refresh, with pruneStaleAggregates. *)
Refresh ==
  /\ enabled # Enabled(config.quorum)
  /\ enabled' = Enabled(config.quorum)
  /\ agg' = NoState /\ warmup' = NoWarmup
  /\ UNCHANGED <<clock, config, probing, states, cycles, reloads, marks, pages, flipped>>

(* OnRebuilt: PruneDeparted.  The scheduler that probed the pair is gone, and *)
(* so is the duty to close its page.                                          *)
PruneDeparted ==
  /\ probing /\ ~config.named
  /\ probing' = FALSE
  /\ states' = <<>> /\ agg' = NoState /\ warmup' = NoWarmup
  /\ applied' = [s \in Sources |-> {}] /\ genuine' = applied' /\ evicted' = applied'
  /\ told' = {} /\ toldAgg' = FALSE
  /\ UNCHANGED <<clock, config, enabled, cycles, reloads, heard, flipped>>

Next ==
  \/ Tick \/ Reload \/ Refresh \/ PruneDeparted
  \/ \E s \in Sources, t \in Stamps, bad \in BOOLEAN :
       OnCycleAlone(s, t, bad) \/ OnCycleQuorum(s, t, bad)

Spec == Init /\ [][Next]_vars

-----------------------------------------------------------------------------
SourceState ==
  [state : {"OK", "PENDING", "FIRING"}, consecHits : Nat, lastSeen : Nat,
   lastCycle : Nat, pastCycle : Nat, ahead : SUBSET Stamps]

(* The type of every variable. *)
TypeOK ==
  /\ clock \in 1..Larger(MaxClock, 1)
  /\ config \in [interval : Intervals, quorum : Quorums, named : BOOLEAN]
  /\ enabled \in BOOLEAN /\ probing \in BOOLEAN /\ flipped \in BOOLEAN
  /\ DOMAIN states \subseteq Sources
  /\ \A s \in DOMAIN states :
       states[s] \in SourceState /\ Cardinality(states[s].ahead) <= AheadCeiling
  /\ agg \in {NoState, "OK", "FIRING"}
  /\ warmup \in [firstSeen : Nat, sourcesSeen : SUBSET Sources]
  /\ cycles \in Nat /\ reloads \in Nat
  /\ applied \in [Sources -> SUBSET Stamps]
  /\ genuine \in [Sources -> SUBSET Stamps]
  /\ evicted \in [Sources -> SUBSET Stamps]
  /\ heard \in [Sources -> Nat]
  /\ told \subseteq Sources /\ toldAgg \in BOOLEAN

CanApply(s, t) ==
  clock - t <= AlertFreshness(MaxInterval) /\ Admits(StateOf(s), t)

(* A measurement counts once: whatever its source, order of arrival and the   *)
(* clock it was stamped by, no redelivery of it is applied again, under any   *)
(* interval a later config may adopt, unless the ceiling on `ahead' forgot it *)
(* (admits, accept, and the retention tally and pruneQuietSources keep to).   *)
ReplaysRefused ==
  \A s \in Sources : \A t \in applied[s] \ evicted[s] : ~CanApply(s, t)

(* A stamp ahead of the clock bars no genuine cycle behind it: what is        *)
(* refused was applied before, or is older than a cycle of the same kind that *)
(* was (the comments on pastCycle and ahead, lines 128 to 140).               *)
RefusesOnlyStale ==
  \A s \in Sources : \A t \in Stamps :
    Fresh(t) /\ ~Admits(StateOf(s), t) =>
      \/ t \in applied[s]
      \/ t > clock /\ \E u \in applied[s] : u > t
      \/ t <= clock /\ \E u \in genuine[s] : u > t

(* The replay marks are bounded and bar no genuine cycle.                     *)
Inv == TypeOK /\ RefusesOnlyStale

(* The operator's view is the evaluator's: as long as quorum was never        *)
(* switched, the last notification accepted about a source (or about the      *)
(* aggregate) is a firing exactly if the state kept is.  A refused page is    *)
(* found again, a source that went quiet while firing keeps its page open     *)
(* until it recovers, and departed state goes only with what it pages for     *)
(* (lines 868 to 898, 936 to 960, pruneQuietSources).                         *)
ToldWhatIs ==
  ~flipped =>
    IF Enabled(config.quorum) THEN toldAgg = (agg = "FIRING")
    ELSE told = {s \in DOMAIN states : states[s].state = "FIRING"}

Living(s) == s \in DOMAIN states' /\ clock - heard'[s] <= LivenessWindow(config.interval)

(* A page of a majority alert is the voice of the living: when it is sent,    *)
(* more than half of the sources heard from within the liveness window, by    *)
(* the master's clock and not their own, are firing, and two sources were     *)
(* heard or the warm-up is over.  (A source dropped under a shorter interval  *)
(* is counted again from its next cycle on.)                                  *)
MajorityPages ==
  [][toldAgg' /\ ~toldAgg /\ config.quorum.majority =>
       LET living == {s \in Sources : Living(s)}
           firing == {s \in living : states'[s].state = "FIRING"}
       IN  /\ 2 * Cardinality(firing) > Cardinality(living)
           /\ \/ Cardinality({s \in Sources : heard'[s] > 0}) >= 2
              \/ clock - warmup'.firstSeen >= StalenessWindow(config.interval)]_vars

(* What the comment on pruneStaleAggregates says (lines 596 to 602):          *)
(* per-source dispatch sends a correct resolve for a real recovery regardless *)
(* of quorum mode, so a source that was paged for and is healthy was resolved.*)
RecoveryIsTold ==
  \A s \in told \cap DOMAIN states : states[s].state = "FIRING"
=============================================================================
