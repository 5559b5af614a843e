---------------------------- MODULE StoredViews -----------------------------
(* What the stored cycles of one target are shown as.  The writer's rows      *)
(* (storage/clickhouse/writer.go), the reads over them (reader.go,            *)
(* overview.go of the same package) and what the API makes of those           *)
(* (internal/api).  A table is a sequence of rows in the order they were      *)
(* stored; a SELECT is a set of places in it, or the sequence it returns.     *)
EXTENDS Listing, FiniteSetsExt, Functions

CONSTANTS
  StoreSources,         \* labels that have stored rows, naturals for their order
  MaxCycleCounterKeys,
  StatusCycles,         \* statusRecentCycles
  StatusMaxSources,
  SparkBuckets,         \* overviewSparkBuckets
  FutureSkew            \* config.MaxFutureSkew, as the reader has it

ASSUME StoreAssumption ==
  /\ StoreSources \subseteq Nat
  /\ {MaxCycleCounterKeys, StatusCycles, StatusMaxSources, SparkBuckets} \subseteq Nat \ {0}
  /\ FutureSkew \in Nat

(* OnCycle and flushCycles: a cycle that sent nothing has no row in           *)
(* probe_cycle; its hop rows go all the same.  A latency of 0 is no latency.  *)
WriterRow(at, source, count, missed, s) ==
  [time |-> at, source |-> source, sent |-> count, lost |-> missed,
   min |-> s.min, median |-> s.median, max |-> s.max]
StoredCycles(cycles) == Chosen(cycles, LAMBDA c : c.sent > 0)
StoredHops(cycles) == cycles

(* What may be stored: no more is lost than was sent, a latency is of an      *)
(* attempt that was not lost, no round trip rounds to 0 (durUS), and a cycle  *)
(* stored again is the same cycle.                                            *)
CycleRows ==
  [time : Nat, source : StoreSources, sent : Nat, lost : Nat, min : Nat, median : Nat, max : Nat]
Key(r) == [source |-> r.source, time |-> r.time]
OneRowPerKey(cycles) ==
  \A i, j \in DOMAIN cycles : Key(cycles[i]) = Key(cycles[j]) => cycles[i] = cycles[j]
IsTable(cycles) ==
  /\ cycles \in Seq(CycleRows) /\ OneRowPerKey(cycles)
  /\ \A i \in DOMAIN cycles :
       LET r == cycles[i]
       IN  r.lost <= r.sent /\ (r.max > 0 => r.lost < r.sent /\ r.median > 0)

-----------------------------------------------------------------------------
(* effectiveCycleMeasurements: rows of an older writer may claim successes    *)
(* without an RTT.                                                            *)
EffectiveSent(r) == IF r.max = 0 THEN r.lost ELSE r.sent

(* latency_weight.  (A definition named X_Y is X with the mistake Y; no       *)
(* behaviour uses it.)                                                        *)
Weight_BySent(r) == EffectiveSent(r)
Weight(r) == EffectiveSent(r) - r.lost

Percent(part, whole) == IF whole = 0 THEN 0 ELSE (100 * part) \div whole
LossPct(r) == Percent(r.lost, EffectiveSent(r))

(* The sum of F over the rows of a set of places. *)
SumOver(places, F(_)) == SumFunctionOnSet([i \in places |-> F(i)], places)

(* quantilesExactWeighted: the least value that the wanted share of the       *)
(* weight does not exceed, 0 when nothing has a weight.  Level in hundredths. *)
QuantileExactWeighted(places, value, weight, level) ==
  LET upTo(v) == SumOver({i \in places : value[i] <= v}, LAMBDA i : weight[i])
      all == SumOver(places, LAMBDA i : weight[i])
      weighty == {i \in places : weight[i] > 0}
  IN  IF all = 0 THEN 0
      ELSE Min({value[i] : i \in {j \in weighty : 100 * upTo(value[j]) >= level * all}})

(* The rows a query's predicates admit, and those of them with an attempt.    *)
Admitted(table, sources, from, to) ==
  {i \in DOMAIN table :
     table[i].source \in sources /\ from <= table[i].time /\ table[i].time < to}
Attempted(table, sources, from, to) ==
  {i \in Admitted(table, sources, from, to) : EffectiveSent(table[i]) > 0}

(* queryCyclesRaw. *)
RawPoints(table, sources, from, to) ==
  Ordered(table, Attempted(table, sources, from, to), LAMBDA a, b : a.time < b.time)

Slot(t, step) == (t \div step) * step
GroupsOf(table, places, step) ==
  {[time |-> Slot(table[i].time, step), source |-> table[i].source] : i \in places}
PlacesIn(table, places, g, step) ==
  {i \in places : table[i].source = g.source /\ Slot(table[i].time, step) = g.time}

(* queryCyclesBucketed. *)
BucketedPoints(table, sources, from, to, step) ==
  LET rows == Admitted(table, sources, from, to)
      point(g) ==
        LET at == PlacesIn(table, rows, g, step)
            measured == {i \in at : Weight(table[i]) > 0}
        IN  [time |-> g.time, source |-> g.source,
             sent |-> SumOver(at, LAMBDA i : EffectiveSent(table[i])),
             lost |-> SumOver(at, LAMBDA i : table[i].lost),
             min |-> IF measured = {} THEN 0 ELSE Min({table[i].min : i \in measured}),
             median |-> QuantileExactWeighted(at, [i \in at |-> table[i].median],
                                              [i \in at |-> Weight(table[i])], 50),
             max |-> Max({table[i].max : i \in at})]
  IN  {p \in {point(g) : g \in GroupsOf(table, rows, step)} : p.sent > 0}

(* queryHopTimelineLoss: one source, empty or not. *)
TimelineLoss(table, source, from, to, step) ==
  LET rows == Attempted(table, {source}, from, to)
      at(g) == PlacesIn(table, rows, g, step)
  IN  {[time |-> g.time, source |-> source,
        sent |-> SumOver(at(g), LAMBDA i : EffectiveSent(table[i])),
        lost |-> SumOver(at(g), LAMBDA i : table[i].lost)] : g \in GroupsOf(table, rows, step)}

-----------------------------------------------------------------------------
(* The pinned reads.  Their CTEs pick one timestamp per source: the newest    *)
(* that is fresh enough and not further ahead than the clocks may differ, or  *)
(* the nearest to an instant; two that are as near are the server's choice.   *)
TimesOf(hops, places, source) == {hops[i].time : i \in {j \in places : hops[j].source = source}}
LatestPins(hops, floor, clock) ==
  LET fresh == {i \in DOMAIN hops : floor <= hops[i].time /\ hops[i].time <= clock + FutureSkew}
  IN  {[s \in {hops[i].source : i \in fresh} |-> Max(TimesOf(hops, fresh, s))]}

Away(t, at) == IF t < at THEN at - t ELSE t - at
NearestPins(hops, at, half, clock) ==
  LET near == {i \in DOMAIN hops :
                /\ at - half <= hops[i].time /\ hops[i].time < at + half
                /\ hops[i].time <= clock + FutureSkew}
      named == {hops[i].source : i \in near}
  IN  {f \in [named -> {hops[i].time : i \in near}] :
        \A s \in named : LET times == TimesOf(hops, near, s)
                         IN  f[s] \in times /\ \A t \in times : Away(f[s], at) <= Away(t, at)}

(* pinnedHopRows: ORDER BY source. *)
PinnedHopRows(hops, pins) ==
  Ordered(hops,
         {i \in DOMAIN hops : hops[i].source \in DOMAIN pins /\ pins[hops[i].source] = hops[i].time},
         LAMBDA a, b : a.source < b.source)

CycleKeys(path) ==
  Picked([i \in DOMAIN path |-> Key(path[i])],
     {i \in DOMAIN path : \A j \in 1..(i - 1) : Key(path[j]) # Key(path[i])})

(* Past its budget only the newest keys are asked about. *)
TrimmedKeys(keys) ==
  IF Len(keys) <= MaxCycleCounterKeys THEN keys
  ELSE SubSeq(Ordered(keys, DOMAIN keys, LAMBDA a, b : a.time > b.time), 1, MaxCycleCounterKeys)

(* queryCycleCounters: one row per key, the values of any of its rows. *)
CycleCounters(table, path) ==
  LET keys == Range(TrimmedKeys(CycleKeys(path)))
      rows == {i \in DOMAIN table : EffectiveSent(table[i]) > 0 /\ Key(table[i]) \in keys}
      any(k) == table[Min({i \in rows : Key(table[i]) = k})]
  IN  {[source |-> k.source, time |-> k.time,
        sent |-> EffectiveSent(any(k)), lost |-> any(k).lost] : k \in {Key(table[i]) : i \in rows}}

-----------------------------------------------------------------------------
NoValue == -1   \* a nil slot of a sparkline, a JSON null

(* QueryOverview's row of one source with rows in the window. *)
OverviewRow(table, source, from, to) ==
  LET rows == Attempted(table, {source}, from, to)
      width == Max({(to - from) \div SparkBuckets, 1})
      bucket(i) == (table[i].time - from) \div width
      at(b) == {i \in rows : bucket(i) = b}
      used == {bucket(i) : i \in rows}
      recv(b) == SumOver(at(b), LAMBDA i : Weight(table[i]))
      median(b) == QuantileExactWeighted(at(b), [i \in at(b) |-> table[i].median],
                                         [i \in at(b) |-> Weight(table[i])], 50)
      lossAvg(b) == SumOver(at(b), LAMBDA i : LossPct(table[i])) \div Cardinality(at(b))
  IN  [source |-> source,
       loss_avg |-> SumOver(used, lossAvg) \div Cardinality(used),
       loss_max |-> Max({LossPct(table[i]) : i \in rows}),
       rtt_median |-> QuantileExactWeighted(used, [b \in used |-> median(b)],
                                            [b \in used |-> recv(b)], 50),
       rtt_max |-> Max({table[i].max : i \in rows}),
       has_rtt |-> SumOver(used, recv) > 0,
       last_seen |-> Max({table[i].time : i \in rows}),
       sparkline |-> [b \in 0..(SparkBuckets - 1) |->
          IF b \in used /\ recv(b) > 0 THEN median(b) ELSE NoValue]]

QueryOverview(table, from, to) ==
  {OverviewRow(table, s, from, to) :
     s \in {table[i].source : i \in Attempted(table, StoreSources, from, to)}}

(* collapseSources: the worst source speaks for the target. *)
Worse(a, b) ==
  \/ a.loss_avg > b.loss_avg
  \/ a.loss_avg = b.loss_avg /\ a.rtt_max > b.rtt_max
  \/ a.loss_avg = b.loss_avg /\ a.rtt_max = b.rtt_max /\ a.source < b.source
MostOf(values) == IF values \subseteq {NoValue} THEN NoValue ELSE Max(values)
CollapseSources(rows) ==
  LET worst == CHOOSE r \in rows : \A q \in rows \ {r} : Worse(r, q)
  IN  [loss_avg |-> worst.loss_avg, loss_max |-> worst.loss_max,
       worst_source |-> worst.source,
       rtt_median |-> IF worst.has_rtt THEN worst.rtt_median ELSE NoValue,
       rtt_max |-> MostOf({r.rtt_max : r \in {q \in rows : q.has_rtt}}),
       last_seen |-> Max({r.last_seen : r \in rows}),
       sparkline |-> [b \in 0..(SparkBuckets - 1) |-> MostOf({r.sparkline[b] : r \in rows})]]

(* getStatus. *)
OfSource(points, s) == Chosen(points, LAMBDA p : p.source = s)
TrimPerSource(points, most) ==
  LET newer(i) == Cardinality({j \in (i + 1)..Len(points) : points[j].source = points[i].source})
  IN  Picked(points, {i \in DOMAIN points : newer(i) < most})

NewestOf(points, s) == Max({p.time : p \in Range(OfSource(points, s))})
SourcesIn(points) == {p.source : p \in Range(points)}
KeepRecentSources(points, most) ==
  LET ahead(s) == {q \in SourcesIn(points) :
                     \/ NewestOf(points, q) > NewestOf(points, s)
                     \/ NewestOf(points, q) = NewestOf(points, s) /\ q < s}
      kept == {s \in SourcesIn(points) : Cardinality(ahead(s)) < most}
  IN  [points |-> Chosen(points, LAMBDA p : p.source \in kept),
       omitted |-> Cardinality(SourcesIn(points) \ kept)]

StatusOf(table, sources, from, to) ==
  KeepRecentSources(TrimPerSource(RawPoints(table, sources, from, to), StatusCycles),
                    StatusMaxSources)
-----------------------------------------------------------------------------
(* The views of a table of cycles agree.  A window is [from, to).             *)

(* The points of a source, its buckets and its timeline add up to the same    *)
(* attempts and losses, and the buckets are the timeline's.                   *)
Totals(points) ==
  [sent |-> SumOver(points, LAMBDA p : p.sent), lost |-> SumOver(points, LAMBDA p : p.lost)]
LossAgrees(cycles, from, to, step) ==
  LET table == StoredCycles(cycles)
  IN  \A s \in StoreSources :
        LET raw == RawPoints(table, {s}, from, to)
            buckets == BucketedPoints(table, {s}, from, to, step)
            timeline == TimelineLoss(table, s, from, to, step)
        IN  /\ Totals(timeline) =
                 [sent |-> SumOver(DOMAIN raw, LAMBDA i : EffectiveSent(raw[i])),
                  lost |-> SumOver(DOMAIN raw, LAMBDA i : raw[i].lost)]
            /\ timeline = {[time |-> b.time, source |-> s, sent |-> b.sent, lost |-> b.lost]
                            : b \in buckets}

(* A latency that is shown was measured: cycles without one change neither a  *)
(* bucket's band nor the overview's, and where nothing was measured nothing   *)
(* is shown.                                                                  *)
Band(b) == [time |-> b.time, source |-> b.source, min |-> b.min, median |-> b.median, max |-> b.max]
LatencyIsMeasured(cycles, from, to, step) ==
  LET table == StoredCycles(cycles)
      measured == Chosen(table, LAMBDA r : r.max > 0)
      places == {i \in DOMAIN measured : from <= measured[i].time /\ measured[i].time < to}
      rows == QueryOverview(table, from, to)
      shown == CollapseSources(rows)
  IN  /\ {Band(b) : b \in {p \in BucketedPoints(table, StoreSources, from, to, step) :
                              p.lost < p.sent}}
           = {Band(b) : b \in BucketedPoints(measured, StoreSources, from, to, step)}
      /\ \A r \in rows :
           IF r.has_rtt
           THEN /\ \E i \in places : measured[i].source = r.source
                /\ LET only == OverviewRow(measured, r.source, from, to)
                   IN  /\ r.sparkline = only.sparkline
                       /\ r.rtt_median = only.rtt_median /\ r.rtt_max = only.rtt_max
           ELSE \A i \in places : measured[i].source # r.source
      /\ rows # {} =>
           /\ shown.rtt_max = MostOf({measured[i].max : i \in places})
           /\ 0 \notin Range(shown.sparkline) \cup {shown.rtt_median, shown.rtt_max}
           /\ \A r \in rows : r.loss_avg <= shown.loss_avg /\ r.last_seen <= shown.last_seen

(* A path is of one cycle per source, and the loss shown beside it is that    *)
(* very cycle's, counted once however often it was stored; past the budget    *)
(* it is the oldest cycles that go without.                                   *)
PathIsOneCycle(cycles, pins) ==
  LET table == StoredCycles(cycles)
      path == PinnedHopRows(StoredHops(cycles), pins)
      counters == CycleCounters(table, path)
      counted(r) == \E c \in counters : Key(c) = Key(r)
      measured(r) == \E i \in DOMAIN table : Key(table[i]) = Key(r) /\ EffectiveSent(table[i]) > 0
  IN  /\ {r.source : r \in Range(path)} = DOMAIN pins
      /\ \A r, q \in Range(path) : r.source = q.source => r.time = q.time
      /\ Cardinality(counters) = Cardinality({c.source : c \in counters})
      /\ \A c \in counters :
           /\ \E r \in Range(path) : Key(r) = Key(c)
           /\ \E i \in DOMAIN table :
                Key(table[i]) = Key(c) /\ EffectiveSent(table[i]) = c.sent /\ table[i].lost = c.lost
      /\ \A r \in Range(path) : measured(r) /\ ~counted(r) =>
           Cardinality({q \in DOMAIN pins : pins[q] >= r.time}) > MaxCycleCounterKeys
PathsAreOneCycle(cycles, clock, half) ==
  \A at \in 0..clock :
    \A pins \in LatestPins(StoredHops(cycles), at, clock)
                 \cup NearestPins(StoredHops(cycles), at, half, clock) :
      PathIsOneCycle(cycles, pins)

(* The status strip shows the newest points of the most recent sources, each  *)
(* series whole up to its length.                                             *)
StatusIsRecent(cycles, from, to) ==
  LET raw == RawPoints(StoredCycles(cycles), StoreSources, from, to)
      status == StatusOf(StoredCycles(cycles), StoreSources, from, to)
      served == SourcesIn(status.points)
      left == SourcesIn(raw) \ served
  IN  /\ Cardinality(served) = Min({Cardinality(SourcesIn(raw)), StatusMaxSources})
      /\ status.omitted = Cardinality(left)
      /\ \A s \in served :
           LET all == OfSource(raw, s)
           IN  OfSource(status.points, s)
                 = SubSeq(all, Max({1, Len(all) - StatusCycles + 1}), Len(all))
      /\ \A s \in served, q \in left : NewestOf(raw, s) >= NewestOf(raw, q)
=============================================================================
