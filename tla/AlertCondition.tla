--------------------------- MODULE AlertCondition ---------------------------
(* What a parsed alert condition says of a cycle (internal/alert/condition.go)*)
(* A reading is a fraction, so that thresholds may lie between the values a   *)
(* field can have.                                                            *)
EXTENDS Integers

Ops == {">", ">=", "<", "<=", "==", "!="}

(* fieldGetter; loss in percent, times in ticks. *)
Reading(field, c) ==
  CASE field = "loss_pct" -> IF c.sent = 0 THEN <<0, 1>> ELSE <<100 * c.lost, c.sent>>
    [] field = "rtt_min" -> <<c.summary.min, 1>>
    [] field = "rtt_max" -> <<c.summary.max, 1>>
    [] field = "rtt_mean" -> <<c.summary.mean, 1>>
    [] field = "rtt_median" -> <<c.summary.median, 1>>
    [] field = "rtt_p5" -> <<c.summary.percentiles[5], 1>>
    [] field = "rtt_p95" -> <<c.summary.percentiles[95], 1>>
    [] field = "rtt_stddev" -> <<c.summary.stddev, 1>>

RTTFields ==
  {"rtt_min", "rtt_max", "rtt_mean", "rtt_median", "rtt_p5", "rtt_p95", "rtt_stddev"}

Compared(actual, op, value) ==
  CASE op = ">"  -> actual > value
    [] op = ">=" -> actual >= value
    [] op = "<"  -> actual < value
    [] op = "<=" -> actual <= value
    [] op = "==" -> actual = value
    [] op = "!=" -> actual # value

(* Condition.Eval; the value is a whole number. *)
Eval(field, op, value, c) ==
  LET r == Reading(field, c) IN Compared(r[1], op, value * r[2])
=============================================================================
