------------------------------ MODULE PushSink ------------------------------
(* The slave's push buffer, internal/cluster/slave/pushsink.go: every cycle   *)
(* the probes produce is buffered here until the push loop ships it.  The     *)
(* buffer is bounded in bytes.  This module keeps the logical ring (entry 1   *)
(* is the head), the bytes it accounts and the strip index; PushRing adds the *)
(* backing array.                                                             *)
(*                                                                            *)
(* One action is one pass of a loop that runs under the mutex: mode says who  *)
(* holds it across several passes.  SetHopMarkers and the part of OnCycle     *)
(* before Lock need no mutex and interleave with everything.                  *)
EXTENDS Integers, Sequences, FiniteSets

CONSTANTS
  Targets,          \* probed targets, each with a goroutine of its own
  HealthTargets,    \* those of the synthesized slave-health group
  BaseSizes,        \* heap bytes of a cycle apart from its hop rows
  HopSizes,         \* heap bytes of its hop rows, 0 when it has none
  StructBytes,      \* payloadStructBytes: what one ring slot costs
  InitialEntries,   \* initialRingEntries
  Budget,           \* NewPushSink's byte budget
  BatchLimit,       \* what the push loop asks Drain for
  MaxCycles         \* bound: cycles admitted in a behaviour

ASSUME SizesAssumption ==
  /\ HealthTargets \subseteq Targets
  /\ BaseSizes \subseteq Nat
  /\ 0 \in HopSizes /\ HopSizes \subseteq Nat
  /\ StructBytes \in Nat \ {0}
  /\ InitialEntries \in Nat \ {0}
  /\ Budget \in Nat \ {0}
  /\ BatchLimit \in Nat \ {0}
  /\ MaxCycles \in Nat

(* seq is the order in which cycles took the mutex; 0 before they did.  A     *)
(* stripped or withheld cycle has hops = 0.                                   *)
Payload == [seq : Nat, target : Targets, base : BaseSizes, hops : HopSizes]

NoCycle == [seq |-> 0]

VARIABLES
  ring,         \* buf[head .. head+size), oldest first
  capacity,     \* len(buf)
  heap,         \* bytes accounted for the payloads in the ring
  stripIdx,     \* entries 1..stripIdx have been shed
  dropped,      \* cycles lost whole
  stripped,     \* cycles that lost their hop rows
  hopMarkers,   \* the master understands hop markers
  mode,         \* "free", or the operation between two passes under the mutex
  incoming,     \* the payloads that operation is making room for
  arriving,     \* per target: a cycle that has read hopMarkers and awaits the mutex
  inflight,     \* the batch Drain handed to the push loop
  cycles,       \* cycles that have taken the mutex so far
  settled       \* cycles of batches acknowledged or given up

vars == <<ring, capacity, heap, stripIdx, dropped, stripped, hopMarkers,
          mode, incoming, arriving, inflight, cycles, settled>>

buffer == <<ring, capacity, heap, stripIdx, dropped, stripped>>

-----------------------------------------------------------------------------
PayloadHeapBytes(p) == p.base + p.hops

(* RunningBytes(s)[i] is the heap the first i payloads retain. *)
RunningBytes(s) ==
  LET sum[i \in 0..Len(s)] ==
        IF i = 0 THEN 0 ELSE sum[i - 1] + PayloadHeapBytes(s[i])
  IN  sum

HeapBytes(s) == RunningBytes(s)[Len(s)]

(* The ring that holds need entries, doubling from have.                      *)
EntriesFor(have, need) ==
  LET doubled[k \in 0..need] ==
        IF k = 0 THEN have
        ELSE IF doubled[k - 1] < need THEN 2 * doubled[k - 1] ELSE doubled[k - 1]
  IN  doubled[need]

(* (A definition named X_Y is X with the mistake Y; no behaviour uses it.)    *)
Fits_WithoutGrowth ==
  capacity * StructBytes + heap + HeapBytes(incoming) <= Budget

Fits ==
  EntriesFor(capacity, Len(ring) + Len(incoming)) * StructBytes
    + heap + HeapBytes(incoming) <= Budget

Total == capacity * StructBytes + heap

(* The entries stripOldestHops can still shed: it takes the first. *)
Carrying_SkipsOne == {i \in 1..Len(ring) : i > stripIdx + 1 /\ ring[i].hops > 0}

Carrying == {i \in 1..Len(ring) : i > stripIdx /\ ring[i].hops > 0}

(* Where the walk leaves stripIdx when it finds nothing to shed. *)
WalkedPast == IF stripIdx < Len(ring) THEN Len(ring) ELSE stripIdx

(* stripIdx once the head is gone, once n entries were drained, and once a    *)
(* batch with hop rows of its own was put in front.                           *)
IndexAfterDropOldest == IF WalkedPast > 0 THEN WalkedPast - 1 ELSE 0

IndexAfterDrain(n) == IF stripIdx < n THEN 0 ELSE stripIdx - n

IndexAfterRequeue == 0

(* shrinkIfIdle: the capacity kept for size live entries. *)
ShrunkFor(size) ==
  IF capacity <= InitialEntries \/ size * 4 >= capacity THEN capacity
  ELSE LET entries == EntriesFor(InitialEntries, size * 2)
       IN  IF entries < capacity THEN entries ELSE capacity

Withhold(p) ==
  IF p.target \in HealthTargets /\ ~hopMarkers THEN [p EXCEPT !.hops = 0] ELSE p

(* What Drain hands out, and the bytes it takes off the account: those of the *)
(* payloads as they were buffered.                                            *)
HandedOut_AsBuffered(batch) == batch
HandedOut(batch) == [i \in 1..Len(batch) |-> Withhold(batch[i])]

Released_AsHandedOut(batch) == HeapBytes(HandedOut(batch))
Released(batch) == HeapBytes(batch)

(* The ring with the requeued batch in front. *)
PutBack(batch) == batch \o ring

-----------------------------------------------------------------------------
Init ==
  /\ ring = <<>> /\ capacity = InitialEntries /\ heap = 0 /\ stripIdx = 0
  /\ dropped = 0 /\ stripped = 0
  /\ hopMarkers = FALSE
  /\ mode = "free" /\ incoming = <<>>
  /\ arriving = [t \in Targets |-> NoCycle]
  /\ inflight = <<>>
  /\ cycles = 0 /\ settled = 0

(* The config pull records what the master advertises. *)
SetHopMarkers(ok) ==
  /\ hopMarkers' = ok
  /\ UNCHANGED <<buffer, mode, incoming, arriving, inflight, cycles, settled>>

(* OnCycle up to Lock: the hop rows of a health target are cleared unless the *)
(* master understands markers now.                                            *)
Measure(t) ==
  /\ arriving[t] = NoCycle
  /\ cycles + Cardinality({u \in Targets : arriving[u] # NoCycle}) < MaxCycles
  /\ \E base \in BaseSizes, hops \in HopSizes :
       arriving' = [arriving EXCEPT ![t] =
         Withhold([seq |-> 0, target |-> t, base |-> base, hops |-> hops])]
  /\ UNCHANGED <<buffer, hopMarkers, mode, incoming, inflight, cycles, settled>>

(* OnCycle takes the mutex and starts making room for its one payload. *)
LockForCycle(t) ==
  /\ mode = "free"
  /\ arriving[t] # NoCycle
  /\ mode' = "cycle"
  /\ incoming' = <<[arriving[t] EXCEPT !.seq = cycles + 1]>>
  /\ cycles' = cycles + 1
  /\ arriving' = [arriving EXCEPT ![t] = NoCycle]
  /\ UNCHANGED <<buffer, hopMarkers, inflight, settled>>

(* Requeue takes the mutex and starts making room for the whole batch. *)
LockForRequeue ==
  /\ mode = "free"
  /\ inflight # <<>>
  /\ mode' = "requeue"
  /\ incoming' = inflight
  /\ inflight' = <<>>
  /\ UNCHANGED <<buffer, hopMarkers, arriving, cycles, settled>>

(* One pass of makeRoom's loop, which runs while the ring is not empty and    *)
(* the incoming payloads do not fit.                                          *)
MakingRoom == mode # "free" /\ ring # <<>> /\ ~Fits

RoomMade_OnlyIfFits == Fits
RoomMade == ~MakingRoom

StripOldestHops ==
  /\ MakingRoom
  /\ \E i \in Carrying :
       /\ \A j \in Carrying : i <= j
       /\ ring' = [ring EXCEPT ![i].hops = 0]
       /\ heap' = heap - ring[i].hops
       /\ stripIdx' = i
  /\ stripped' = stripped + 1
  /\ UNCHANGED <<capacity, dropped, hopMarkers, mode, incoming, arriving,
                 inflight, cycles, settled>>

DropOldest ==
  /\ MakingRoom
  /\ mode = "cycle"
  /\ Carrying = {}
  /\ ring' = Tail(ring)
  /\ heap' = heap - PayloadHeapBytes(Head(ring))
  /\ stripIdx' = IndexAfterDropOldest
  /\ dropped' = dropped + 1
  /\ UNCHANGED <<capacity, stripped, hopMarkers, mode, incoming, arriving,
                 inflight, cycles, settled>>

DropNewest ==
  /\ MakingRoom
  /\ mode = "requeue"
  /\ Carrying = {}
  /\ ring' = SubSeq(ring, 1, Len(ring) - 1)
  /\ heap' = heap - PayloadHeapBytes(ring[Len(ring)])
  /\ stripIdx' = WalkedPast
  /\ dropped' = dropped + 1
  /\ UNCHANGED <<capacity, stripped, hopMarkers, mode, incoming, arriving,
                 inflight, cycles, settled>>

(* makeRoom is done: OnCycle grows the ring, appends and unlocks. *)
FinishCycle ==
  /\ mode = "cycle"
  /\ RoomMade
  /\ capacity' = EntriesFor(capacity, Len(ring) + 1)
  /\ ring' = ring \o incoming
  /\ heap' = heap + HeapBytes(incoming)
  /\ mode' = "free" /\ incoming' = <<>>
  /\ UNCHANGED <<stripIdx, dropped, stripped, hopMarkers, arriving, inflight,
                 cycles, settled>>

(* makeRoom is done: Requeue grows the ring, prepends and restarts the walk. *)
FinishRequeue ==
  /\ mode = "requeue"
  /\ RoomMade
  /\ capacity' = EntriesFor(capacity, Len(ring) + Len(incoming))
  /\ ring' = PutBack(incoming)
  /\ heap' = heap + HeapBytes(incoming)
  /\ stripIdx' = IndexAfterRequeue
  /\ mode' = "free" /\ incoming' = <<>>
  /\ UNCHANGED <<dropped, stripped, hopMarkers, arriving, inflight, cycles,
                 settled>>

(* The push loop drains its next batch; it has one in flight at a time. *)
Drain ==
  /\ mode = "free"
  /\ inflight = <<>>
  /\ ring # <<>>
  /\ LET n     == IF BatchLimit < Len(ring) THEN BatchLimit ELSE Len(ring)
         batch == SubSeq(ring, 1, n)
     IN  /\ inflight' = HandedOut(batch)
         /\ ring' = SubSeq(ring, n + 1, Len(ring))
         /\ heap' = heap - Released(batch)
         /\ stripIdx' = IndexAfterDrain(n)
         /\ capacity' = ShrunkFor(Len(ring) - n)
  /\ UNCHANGED <<dropped, stripped, hopMarkers, mode, incoming, arriving,
                 cycles, settled>>

(* The master took the batch, or flushOnce gave it up: it is not put back. *)
SettleBatch ==
  /\ inflight # <<>>
  /\ settled' = settled + Len(inflight)
  /\ inflight' = <<>>
  /\ UNCHANGED <<buffer, hopMarkers, mode, incoming, arriving, cycles>>

UnderLock == StripOldestHops \/ DropOldest \/ DropNewest \/ FinishCycle \/ FinishRequeue

Next ==
  \/ \E ok \in BOOLEAN : SetHopMarkers(ok)
  \/ \E t \in Targets : Measure(t) \/ LockForCycle(t)
  \/ LockForRequeue
  \/ UnderLock
  \/ Drain
  \/ SettleBatch

(* A goroutine that holds the mutex runs on. *)
Fairness == WF_vars(UnderLock)

Spec == Init /\ [][Next]_vars /\ Fairness

-----------------------------------------------------------------------------
(* The type of every variable; between two operations nothing is being        *)
(* admitted.                                                                  *)
TypeOK ==
  /\ ring \in Seq(Payload)
  /\ capacity \in Nat \ {0}
  /\ heap \in Int
  /\ stripIdx \in Nat
  /\ dropped \in Nat /\ stripped \in Nat
  /\ hopMarkers \in BOOLEAN
  /\ mode \in {"free", "cycle", "requeue"}
  /\ incoming \in Seq(Payload)
  /\ (mode = "free" <=> incoming = <<>>)
  /\ arriving \in [Targets -> Payload \cup {NoCycle}]
  /\ inflight \in Seq(Payload)
  /\ (mode = "requeue" => inflight = <<>>)
  /\ cycles \in Nat /\ settled \in Nat

(* The byte account is exact: what every admission added and every strip,     *)
(* drop and drain took back is what the live payloads retain (pushsink.go     *)
(* lines 161, 172, 262, 348, 394, 413).  A drift either way never heals: the  *)
(* sink would shed early or overrun its budget for the life of the process.   *)
HeapExact == heap = HeapBytes(ring)

(* Every live entry at or below stripIdx has been shed (the comment at lines  *)
(* 66 to 72 calls the invariant load-bearing): above a live hop-bearing entry *)
(* the index would make makeRoom drop a measurement it could have kept.       *)
StripPrefix == \A i \in 1..Len(ring) : i <= stripIdx => ring[i].hops = 0

(* stripIdx runs past the live entries only inside Requeue, between a         *)
(* dropNewest and the reset (lines 407 to 410).                               *)
StripInRange == stripIdx > Len(ring) => mode = "requeue"

(* The backing array holds the live entries (at, line 130, would alias two    *)
(* logical entries otherwise).                                                *)
RingFits == Len(ring) <= capacity

(* A buffer drained empty has given its slots back (shrinkIfIdle, lines 220   *)
(* to 229): otherwise one backlog of hopless cycles would leave most of the   *)
(* budget spent on empty slots.                                               *)
EmptyGivesBack == ring = <<>> /\ mode = "free" => capacity = InitialEntries

(* Every cycle admitted is in exactly one place or counted: buffered, in      *)
(* flight, settled with the master, or in dropped.                            *)
NothingUnaccounted ==
  cycles = settled + dropped + Len(ring) + Len(incoming) + Len(inflight)

(* What the buffer keeps between any two steps: the index never hides hop     *)
(* rows that could be shed instead of a measurement, the byte account is that *)
(* of the live payloads, the array holds its entries and is given back, and   *)
(* no cycle is gone without being counted.                                    *)
Inv ==
  /\ TypeOK
  /\ HeapExact
  /\ StripPrefix /\ StripInRange
  /\ RingFits /\ EmptyGivesBack
  /\ NothingUnaccounted

(* An admission ends inside the budget, ring array included, unless it found  *)
(* the ring empty (makeRoom's escape, lines 182 to 187).                      *)
BudgetKept ==
  [][mode # "free" /\ mode' = "free" => Total' <= Budget \/ ring' = incoming]_vars

(* A batch drained while the master does not understand markers carries no    *)
(* hop rows of a health target, also when they were buffered under a master   *)
(* that did (Drain, lines 320 to 329).                                        *)
HealthHopsWithheld ==
  [][inflight = <<>> /\ inflight' # <<>> /\ ~hopMarkers =>
       \A i \in 1..Len(inflight') :
          inflight'[i].target \in HealthTargets => inflight'[i].hops = 0]_vars

(* makeRoom terminates: whoever took the mutex to admit releases it (lines    *)
(* 191 and 192).                                                              *)
MutexReleased == mode # "free" ~> mode = "free"

(* The buffer keeps the promise of ShedQueue: order, hop rows before          *)
(* measurements, and requeued batches in front.                               *)
Promise == INSTANCE ShedQueue WITH
  queue   <- ring,
  outside <- inflight \o (IF mode = "requeue" THEN incoming ELSE <<>>)

ImplementsShedQueue == Promise!Spec
=============================================================================
