------------------------------ MODULE TimeGrid ------------------------------
(* The widths the query windows are cut into: the step ladders of             *)
(* internal/storage/backend.go and the overrides and windows the API's        *)
(* handlers admit (internal/api/api.go).  Time is in ticks.                   *)
EXTENDS Integers, FiniteSets

CONSTANT Second   \* ticks of one second

ASSUME SecondAssumption == Second \in Nat \ {0}

Minute == 60 * Second
Hour == 60 * Minute
Day == 24 * Hour

Smaller(a, b) == IF a < b THEN a ELSE b
Larger(a, b) == IF a < b THEN b ELSE a

(* The width of a cycle query; 0 is raw. *)
PickCycleStep(span) ==
  CASE span <= 2 * Hour  -> 0
    [] span > 2 * Hour /\ span <= Day -> 2 * Minute
    [] span > Day /\ span <= 7 * Day -> 15 * Minute
    [] span > 7 * Day /\ span <= 30 * Day -> Hour
    [] span > 30 * Day /\ span <= 180 * Day -> 6 * Hour
    [] OTHER -> Day

MaxHopTimelineWindow == 7 * Day
MaxHopGridSlots == MaxHopTimelineWindow \div (15 * Minute) + 1
FinestHopTierSpan == 2 * Hour

(* The smallest whole second whose grid over the finest tier fits.  (A        *)
(* definition named X_Y is X with the mistake Y; no behaviour uses it.)       *)
MinHopStep_RoundedDown ==
  ((FinestHopTierSpan \div Second) \div (MaxHopGridSlots - 1)) * Second
MinHopStep ==
  ((FinestHopTierSpan \div Second + MaxHopGridSlots - 2) \div (MaxHopGridSlots - 1)) * Second

WholeSecondsUp(d) == ((d + Second - 1) \div Second) * Second

PickHopStep(span, interval) ==
  LET tier == CASE span <= FinestHopTierSpan -> MinHopStep
                [] span > FinestHopTierSpan /\ span <= Day -> 5 * Minute
                [] OTHER -> 15 * Minute
  IN  IF interval > tier THEN WholeSecondsUp(interval) ELSE tier

(* toStartOfInterval's slots over [from, to). *)
SlotsOf(from, to, step) == (to - 1) \div step - from \div step + 1

(* /hops/timeline refuses a wider window. *)
HopWindowServed(span) == span > 0 /\ span <= MaxHopTimelineWindow

-----------------------------------------------------------------------------
MaxOverrideBuckets == 1000

WithinOverrideBuckets(step, span) ==
  span \div step <=
    (IF PickCycleStep(span) = 0 THEN MaxOverrideBuckets
     ELSE Larger(MaxOverrideBuckets, span \div PickCycleStep(span)))

Overrides == {"raw", "1h", "1d", "none"}

(* pickStep: the width served, and whether the request is. *)
PickStep(override, span) ==
  CASE override = "raw" -> [step |-> 0, ok |-> PickCycleStep(span) = 0]
    [] override = "1h"  -> [step |-> Hour, ok |-> WithinOverrideBuckets(Hour, span)]
    [] override = "1d"  -> [step |-> Day, ok |-> WithinOverrideBuckets(Day, span)]
    [] OTHER -> [step |-> PickCycleStep(span), ok |-> TRUE]

StatusRecentCycles == 50
StatusWindow(interval) == Smaller(StatusRecentCycles * interval, Day)

-----------------------------------------------------------------------------
(* Every hop grid that is served fits the slots the reader's row cap counts   *)
(* on, wherever its window begins, and has no column finer than the cadence   *)
(* that fills it (backend.go lines 94 to 133, reader.go lines 358 to 374).    *)
HopGridFits(spans, intervals) ==
  \A span \in {s \in spans : HopWindowServed(s)}, interval \in intervals :
    LET step == PickHopStep(span, interval)
    IN  /\ step % Second = 0 /\ step >= interval /\ step > 0
        /\ \A from \in {0, 1, step \div 2, step - 1} :
             SlotsOf(from, from + span, step) <= MaxHopGridSlots

(* A cycle query is never wider than its ladder allows: raw rows inside two   *)
(* hours only, an accepted override within a thousand buckets or within what  *)
(* the ladder would return, and the ladder's own step always accepted.  A     *)
(* wider window is never cut finer (api.go lines 1092 to 1139).               *)
CycleGridFits(spans) ==
  /\ \A span \in spans, override \in Overrides :
       LET pick == PickStep(override, span)
           own == PickCycleStep(span)
       IN  /\ pick.ok /\ pick.step = 0 => span <= 2 * Hour
           /\ pick.ok /\ pick.step # 0 /\ span <= MaxOverrideBuckets * Day =>
                SlotsOf(pick.step - 1, pick.step - 1 + span, pick.step) <= MaxOverrideBuckets + 2
           /\ pick.ok /\ pick.step # 0 /\ own # 0 /\ span > MaxOverrideBuckets * Day =>
                pick.step >= own
           /\ pick.step = own => pick.ok
  /\ \A a, b \in spans : a <= b => PickCycleStep(a) <= PickCycleStep(b)
=============================================================================
