------------------------------ MODULE Schedule ------------------------------
(* The schedules that Validate (internal/config/config.go) lets into the      *)
(* store and probe.Build (internal/probe/probe.go) builds probes for: an      *)
(* interval, a number of pings and the types of the probes.  Durations are    *)
(* whole ticks.                                                               *)
EXTENDS Integers

CONSTANTS
  MaxProbeInterval, MaxPingsPerCycle, MaxTraceRounds,
  ICMPPingSpacing,  \* the gap between two echoes
  MinPingBudget     \* the least time a ping may be left with

ASSUME ScheduleAssumption ==
  {MaxProbeInterval, MaxPingsPerCycle, MaxTraceRounds, ICMPPingSpacing, MinPingBudget}
    \subseteq Nat \ {0}

ValidateInterval(interval) == 0 < interval /\ interval <= MaxProbeInterval

ValidatePingCount(pings) == 0 < pings /\ pings <= MaxPingsPerCycle

(* ICMPPingBudget returns no error: with no ping answered, each still has the *)
(* least budget.                                                              *)
HasPingBudget(interval, pings) ==
  /\ pings <= interval \div ICMPPingSpacing + 1
  /\ pings <= MaxPingsPerCycle
  /\ (interval - (pings - 1) * ICMPPingSpacing) \div pings >= MinPingBudget

(* The part Validate and Build share. *)
ValidSchedule(interval, pings, types) ==
  /\ ValidateInterval(interval)
  /\ ValidatePingCount(pings)
  /\ "icmp" \in types => HasPingBudget(interval, pings)
  /\ "mtr" \in types =>
       HasPingBudget(interval, IF pings < MaxTraceRounds THEN pings ELSE MaxTraceRounds)
=============================================================================
