------------------------- MODULE MCMeasurementPath -------------------------
(* One target's loop on two ticks of pings, and tables of up to three cycles. *)
EXTENDS MeasurementPath, TLC

Shape(count, missed, fast, slow) ==
  [sent |-> count, lost |-> missed, min |-> fast, median |-> fast, max |-> slow]

Healthy == Shape(2, 0, 2, 2)
Slow == Shape(4, 2, 5, 7)
Dead == Shape(2, 2, 0, 0)

(* Nothing sent; a row of an older writer with successes nobody measured,     *)
(* some lost or none.                                                         *)
Odd == {Shape(0, 0, 0, 0), Shape(2, 1, 0, 0), Shape(2, 0, 0, 0)}

Rows(shapes, times) ==
  {s @@ [time |-> t, source |-> src] : s \in shapes, t \in times, src \in StoreSources}

MCTables ==
  {c \in UNION {[1..size -> Rows({Healthy, Slow, Dead} \cup Odd, {0, 1, 3})] : size \in 0..2}
           \cup [1..3 -> Rows({Healthy, Slow, Dead}, {0, 1, 3})] : OneRowPerKey(c)}

(* Every tier's edges, and intervals below a second, off the second and up to *)
(* the longest.                                                               *)
MCSpans ==
  {edge + d : edge \in {Minute, Hour, 2 * Hour, Day, 3 * Day, 7 * Day, 30 * Day, 31 * Day,
                         41 * Day, 180 * Day, 365 * Day, 1000 * Day, 1200 * Day},
              d \in {-1, 0, 1}}
MCIntervals ==
  {1, Second, 10 * Second, 11 * Second, 11 * Second + 1, Minute, 5 * Minute + 1, 15 * Minute,
   20 * Minute - 1, 71 * Minute}
=============================================================================
