--------------------------- MODULE CycleProtocol ---------------------------
(* How a slave's cycle crosses to the master: internal/cluster/protocol.go.   *)
(* FromCycle writes it, Validate bounds a batch at ingest and refuses all of  *)
(* it for one cycle out of bounds, ToCycle rebuilds the cycle.  A cycle is    *)
(* [time, sent, lost, rtts, summary, hops, samples]; labels are left out.     *)
EXTENDS Statistics

CONSTANTS
  MaxCyclesPerBatch,
  MaxPingsPerCycle,        \* RTTs of one cycle, and pings a config may ask for
  MaxTraceRounds, MaxTraceTTL,
  MaxRTTsPerHop,
  MaxHTTPSamplesPerCycle,
  MaxSampleRTT,            \* and the longest interval a config may have
  MaxCounter, MaxHopIndex, \* ceilings of the UInt16 and UInt8 columns
  MaxInterfaceNameLen,     \* what a host names its interfaces
  MaxCycleAge, MaxFutureSkew

ASSUME ProtocolAssumption ==
  /\ {MaxCyclesPerBatch, MaxPingsPerCycle, MaxTraceRounds, MaxTraceTTL, MaxRTTsPerHop,
      MaxHTTPSamplesPerCycle, MaxSampleRTT, MaxCounter, MaxHopIndex, MaxInterfaceNameLen,
      MaxCycleAge, MaxFutureSkew} \subseteq Nat
  /\ 1 <= MaxCyclesPerBatch
  /\ MaxPingsPerCycle <= MaxCounter /\ MaxTraceRounds <= MaxCounter
  /\ MaxTraceTTL <= MaxHopIndex
  /\ MaxTraceRounds <= MaxRTTsPerHop

MaxHopsPerCycle == 2 * (MaxTraceRounds * MaxTraceTTL)
MaxHopZoneLen == 2 * MaxInterfaceNameLen

-----------------------------------------------------------------------------
(* The text of a hop's address: none, no address at all, or an address, with  *)
(* its zone, in one of its spellings.                                         *)
NoText == [kind |-> "none"]
Garbage == [kind |-> "garbage"]
AddrText(addr, zone, spelling) ==
  [kind |-> "addr", addr |-> addr, zone |-> zone, spelling |-> spelling]
Zone(length, clean) == [length |-> length, clean |-> clean]
NoZone == Zone(0, TRUE)

InterfaceZoneShaped(zone) == zone.length <= MaxHopZoneLen /\ zone.clean
ParseHopAddr(text) == text.kind = "addr" /\ InterfaceZoneShaped(text.zone)
CanonicalHopAddr(text) ==
  IF ParseHopAddr(text) THEN [text EXCEPT !.spelling = "canonical"] ELSE NoText

UnreachOther == "unreachable-other"
UnreachLabels ==
  {"net-unreachable", "host-unreachable", "proto-unreachable", "port-unreachable",
   "frag-needed", "source-route-failed", "admin-prohibited", "no-route", "beyond-scope",
   "addr-unreachable", "policy-fail", "reject-route", UnreachOther}
CanonicalUnreach(label) ==
  IF label \in UnreachLabels \cup {""} THEN label ELSE UnreachOther

-----------------------------------------------------------------------------
(* A definition named X_Y is X with the mistake Y; no behaviour uses it.      *)
BoundCounters_Strict(counted, missed) ==
  {counted, missed} \subseteq 0..MaxCounter /\ (counted > 0 => missed < counted)
BoundCounters(counted, missed) ==
  {counted, missed} \subseteq 0..MaxCounter /\ missed <= counted

BoundRTTs(latencies) == latencies \subseteq 0..MaxSampleRTT

BoundSummary(s) ==
  BoundRTTs({s.min, s.max, s.mean, s.median, s.stddev}
              \cup {s.percentiles[p] : p \in PercentileSet})

InWindow(t, at) == at - MaxCycleAge <= t /\ t <= at + MaxFutureSkew

ValidSample(s, at) ==
  InWindow(s.time, at) /\ s.status \in 0..999 /\ BoundRTTs({s.rtt})

ValidHop(h) ==
  /\ h.index \in 0..MaxHopIndex
  /\ h.addr = NoText \/ ParseHopAddr(h.addr)
  /\ BoundCounters(h.sent, h.lost)
  /\ Len(h.rtts) <= MaxRTTsPerHop /\ BoundRTTs(Range(h.rtts))

ValidCycle(p, at) ==
  /\ InWindow(p.time, at)
  /\ BoundCounters(p.sent, p.lost)
  /\ Len(p.rtts) <= MaxPingsPerCycle /\ BoundRTTs(Range(p.rtts))
  /\ Len(p.rtts) <= p.sent - p.lost
  /\ BoundSummary(p.summary)
  /\ Len(p.samples) <= MaxHTTPSamplesPerCycle
  /\ \A i \in DOMAIN p.samples : ValidSample(p.samples[i], at)
  /\ Len(p.hops) <= MaxHopsPerCycle
  /\ \A i \in DOMAIN p.hops : ValidHop(p.hops[i])

Validate(batch, at) ==
  Len(batch) <= MaxCyclesPerBatch /\ \A i \in DOMAIN batch : ValidCycle(batch[i], at)

(* What the wire carries of a cycle: every field as it is.  *)
FromCycle(c) ==
  [time |-> c.time, sent |-> c.sent, lost |-> c.lost, rtts |-> c.rtts, summary |-> c.summary,
   hops |-> c.hops, samples |-> c.samples]

(* The cycle the master makes of it: the attempts and the summary are those   *)
(* of the RTTs it accepted, whatever the payload says.                        *)
ToCycle(p) ==
  [time |-> p.time, lost |-> p.lost, rtts |-> p.rtts, samples |-> p.samples,
   sent |-> p.lost + Len(p.rtts),
   summary |-> Compute(p.rtts),
   hops |-> [i \in DOMAIN p.hops |->
              [p.hops[i] EXCEPT !.addr = CanonicalHopAddr(@), !.unreach = CanonicalUnreach(@)]]]
=============================================================================
