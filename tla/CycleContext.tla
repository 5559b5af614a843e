---------------------------- MODULE CycleContext ----------------------------
(* The context one probe cycle runs under (scheduler.go, runCycle, lines 140  *)
(* to 143): it ends with the scheduler's own context or after one interval.   *)
(* Time passes in ticks; whatever is due at an instant happens before the     *)
(* next tick, so the code itself takes no time.                               *)
EXTENDS Integers

CONSTANT Interval   \* cfg.Interval, in ticks

ASSUME IntervalAssumption == Interval \in Nat \ {0}

VARIABLES
  now,       \* ticks since the cycle began
  ctx,       \* what cycleCtx.Err() says: "live", "expired" or "cancelled"
  stopping   \* the scheduler's own context is done

clockVars == <<now, ctx, stopping>>

Done == ctx # "live"

(* The cycle's deadline passes. *)
Expire ==
  /\ ctx = "live" /\ now >= Interval
  /\ ctx' = "expired"
  /\ UNCHANGED <<now, stopping>>

(* Shutdown, or a rebuild that replaces the scheduler. *)
Stop ==
  /\ ~stopping
  /\ stopping' = TRUE
  /\ ctx' = IF Done THEN ctx ELSE "cancelled"
  /\ UNCHANGED now

ClockStart == now' = 0 /\ ctx' = (IF stopping THEN "cancelled" ELSE "live") /\ UNCHANGED stopping

ClockTypeOK ==
  now \in Nat /\ ctx \in {"live", "expired", "cancelled"} /\ stopping \in BOOLEAN
=============================================================================
