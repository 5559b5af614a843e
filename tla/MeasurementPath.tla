-------------------------- MODULE MeasurementPath --------------------------
(* A cycle from the probe to what is shown of it: the target loop on a slave, *)
(* the wire to the master (CycleProtocol), the row the master stores and the  *)
(* views of the stored rows (StoredViews) on the grids their windows are cut  *)
(* into (TimeGrid), and what an alert reads of the cycle (AlertCondition).    *)
(* Everything after the loop is a function of the cycle and of the table, so  *)
(* the states are the loop's.                                                 *)
EXTENDS TargetLoop, CycleProtocol, StoredViews, TimeGrid, AlertCondition

CONSTANTS
  Tables,      \* the stored cycles to look at: sequences of rows, by time and source
  WindowEnd, \* their window begins at 0 and ends before this
  Step,
  Spans, ScheduleIntervals   \* windows and intervals to cut grids for, in ticks

(* The schedule is one Validate accepts, where an echo may be left with a     *)
(* tick; the probes walk no further than config.go lines 672 to 683 say.      *)
Config == INSTANCE Schedule WITH MaxProbeInterval <- MaxSampleRTT, ICMPPingSpacing <- Spacing,
                                 MinPingBudget <- 1
ASSUME ConfigAssumption ==
  /\ Config!ValidSchedule(Interval, Pings, Kinds)
  /\ WalkRounds <= MaxTraceRounds /\ WalkDepth <= MaxTraceTTL
  /\ HTTPRequests <= MaxHTTPSamplesPerCycle
  /\ Interval <= MaxCycleAge

(* A window is some time, and so is an interval; the writer made the tables.  *)
ASSUME GridAssumption == Spans \subseteq Nat /\ ScheduleIntervals \subseteq Nat \ {0}
ASSUME TableAssumption ==
  /\ WindowEnd \in Nat /\ Step \in Nat \ {0}
  /\ \A cycles \in Tables : IsTable(cycles)

-----------------------------------------------------------------------------
(* The address of a responder as net/netip prints it: a router's may be local *)
(* to a link, and then names the interface.                                   *)
HopText(who) ==
  CASE who = "nobody" -> NoText
    [] who = "target" -> AddrText(who, NoZone, "canonical")
    [] OTHER -> AddrText(who, Zone(MaxInterfaceNameLen, TRUE), "canonical")

(* The Cycle of runCycle, stamped when the probe has returned.  The walk's    *)
(* rows keep how many answers they rest on; an answer may take as long as a   *)
(* step.  http adds a sample per request, the earliest as old as the cycle.   *)
Recorded ==
  [time |-> now, sent |-> cycle.sent, lost |-> cycle.lost, rtts |-> cycle.rtts,
   summary |-> Compute(cycle.rtts),
   hops |-> [i \in DOMAIN cycle.hops |->
     LET h == cycle.hops[i]
     IN  [index |-> h.index, addr |-> HopText(h.who), target |-> h.echo,
          unreach |-> IF h.unreach THEN "host-unreachable" ELSE "",
          sent |-> h.sent, lost |-> h.lost,
          rtts |-> [k \in 1..(h.sent - h.lost) |-> Smaller(TraceTimeout, Interval)]]],
   samples |-> IF kind # "http" THEN <<>>
               ELSE [i \in 1..cycle.sent |->
                 [time |-> 0, status |-> IF i <= Len(cycle.rtts) THEN 200 ELSE 0,
                  rtt |-> IF i <= Len(cycle.rtts) THEN cycle.rtts[i] ELSE 0]]]

(* The slave's clock when it pushes and how far the master's is off: whatever *)
(* the two allow for a cycle that is not too old.                             *)
IngestClocks ==
  {at \in (now - MaxFutureSkew)..(MaxCycleAge + Interval) : at <= MaxCycleAge}

(* durUS: a latency that was measured is at least a microsecond.  A tick is   *)
(* many.                                                                      *)
Micros(s, answered) ==
  LET us(d) == IF answered THEN d + 1 ELSE 0
  IN  [min |-> us(s.min), median |-> us(s.median), max |-> us(s.max)]

StoredRows(c) ==
  StoredCycles(<<WriterRow(c.time, 1, c.sent, c.lost, Micros(c.summary, c.rtts # <<>>))>>)

(* What an alert reads of a measured cycle is what the chart of its row       *)
(* shows: the same loss, and of a target that did not answer no latency above *)
(* any threshold but all of the loss (condition.go lines 99 to 154).         *)
AlertsReadTheRecord(c, points) ==
  c.sent > 0 =>
    /\ \A i \in DOMAIN points, v \in {0, 1, 50, 51, 100}, op \in {">=", "<"} :
         Eval("loss_pct", op, v, c) = Compared(LossPct(points[i]), op, v)
    /\ Eval("loss_pct", "==", 100, c) <=> c.rtts = <<>>
    /\ \A f \in RTTFields : Eval(f, ">", 0, c) => c.rtts # <<>>

-----------------------------------------------------------------------------
(* The rest of the way keeps what the probe measured.  No cycle a probe can   *)
(* make is one the ingest refuses, which would take the whole batch with it,  *)
(* for any delay and clock skew the two ends promise to bear; the master      *)
(* rebuilds exactly that cycle; and its row is one point with the same        *)
(* attempts and losses, with a latency iff a ping was answered, or no row at  *)
(* all when none was sent (protocol.go lines 177 to 301 and 361 to 480,       *)
(* writer.go lines 199 to 224, reader.go lines 84 to 173).  An alert reads of *)
(* it what that point shows (AlertsReadTheRecord).                            *)
RecordArrives ==
  loop = "sinks" =>
    LET c == Recorded
        points == RawPoints(StoredRows(c), {1}, now, now + 1)
    IN  /\ \A at \in IngestClocks : Validate(<<FromCycle(c)>>, at)
        /\ ToCycle(FromCycle(c)) = c
        /\ SummaryIsOrdered(cycle.rtts)
        /\ Len(points) = (IF cycle.sent = 0 THEN 0 ELSE 1)
        /\ \A i \in DOMAIN points :
             /\ points[i].sent = cycle.sent /\ points[i].lost = cycle.lost
             /\ points[i].max > 0 <=> cycle.rtts # <<>>
        /\ AlertsReadTheRecord(c, points)

(* What says nothing of the loop is looked at in one of its states.           *)
AtTheStart == loop = "jitter" /\ ~stopping /\ kind = CHOOSE k \in Kinds : TRUE

EveryViewAgrees ==
  \A cycles \in Tables :
    /\ LossAgrees(cycles, 0, WindowEnd, Step)
    /\ LatencyIsMeasured(cycles, 0, WindowEnd, Step)
    /\ PathsAreOneCycle(cycles, WindowEnd - 1, Step)
    /\ StatusIsRecent(cycles, 0, WindowEnd)

(* Whatever has been stored, by this version or by one that counted pings it  *)
(* never finished, once or twice, every view of it tells the same loss, shows *)
(* only latencies that were measured, and pairs a path with its own cycle's   *)
(* loss (reader.go lines 84 to 280, 410 to 718; overview.go; api.go lines 841 *)
(* to 943; api/overview.go lines 237 to 299).                                 *)
ViewsAgree == AtTheStart => EveryViewAgrees

EveryGridFits ==
  /\ HopGridFits(Spans, ScheduleIntervals)
  /\ CycleGridFits(Spans)
  /\ \A i \in ScheduleIntervals : StatusWindow(i) <= Day

(* No window the API serves is cut into more slots than the reader's row caps *)
(* are derived from, or into slots finer than what fills them (HopGridFits,   *)
(* CycleGridFits), and the status scan never exceeds a day (backend.go lines  *)
(* 66 to 133, api.go lines 853 and 1104 to 1139).                             *)
GridsFit == AtTheStart => EveryGridFits
=============================================================================
