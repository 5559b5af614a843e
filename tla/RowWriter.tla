------------------------------ MODULE RowWriter ------------------------------
(* One table of the ClickHouse writer, internal/storage/clickhouse/writer.go: *)
(* the bounded channel producers offer rows to (offer), the goroutine that    *)
(* batches and flushes them (runTable), and Close.  The four tables share     *)
(* nothing but the connection.                                                *)
(*                                                                            *)
(* offer takes no lock: each of its channel operations is a step, and so is   *)
(* its look at closed.  runTable's select is one step per case, a flush has a *)
(* beginning and an end.  A producer's rows are numbered in its own order;    *)
(* which columns they have is left out.                                       *)
EXTENDS Integers, Sequences, FiniteSets

CONSTANTS
  Producers,     \* goroutines in OnCycle
  ChanCap,       \* writerChanCap
  MaxRows,       \* storage.clickhouse.batch.max_rows
  RetainFactor,  \* flushRetainFactor
  RowsEach,      \* bound: rows a producer offers
  MaxFailures    \* bound: flushes that fail

ASSUME WriterAssumption ==
  /\ IsFiniteSet(Producers)
  /\ ChanCap \in Nat \ {0}
  /\ MaxRows \in Nat \ {0}
  /\ RetainFactor \in Nat \ {0}
  /\ RowsEach \in Nat /\ MaxFailures \in Nat

VARIABLES
  rows,       \* w.chans[table]
  dropped,    \* w.dropped[table]
  closed,     \* w.closed
  cancelled,  \* loopCtx
  offering,   \* where each producer is in offer
  offered,    \* rows each producer has begun to offer
  pending,    \* runTable's batch
  failing,    \* runTable's flushFailing
  flusher,    \* where runTable is
  stored,     \* rows the server has, in order of arrival
  saved,      \* rows of flushes that returned no error
  failures,   \* flushes that failed so far
  repeated,   \* whether a flush reached the server and failed all the same
  refilled    \* producers behind whose eviction another one sent

channel  == <<rows, dropped>>
closing  == <<closed, cancelled>>
producer == <<offering, offered>>
table    == <<pending, failing, flusher>>
server   == <<stored, saved, failures, repeated>>

vars == <<channel, closing, producer, table, server, refilled>>

Row == [from : Producers, n : 1..RowsEach]

-----------------------------------------------------------------------------
Init ==
  /\ rows = <<>> /\ dropped = 0
  /\ closed = FALSE /\ cancelled = FALSE
  /\ offering = [p \in Producers |-> "idle"] /\ offered = [p \in Producers |-> 0]
  /\ pending = <<>> /\ failing = FALSE /\ flusher = "select"
  /\ stored = <<>> /\ saved = 0 /\ failures = 0 /\ repeated = FALSE
  /\ refilled = {}

(* offer's look at closed: a row that comes after Close is counted at once.   *)
Offer(p) ==
  /\ offering[p] = "idle"
  /\ offered[p] < RowsEach
  /\ offered' = [offered EXCEPT ![p] = @ + 1]
  /\ IF closed THEN dropped' = dropped + 1 /\ UNCHANGED offering
     ELSE offering' = [offering EXCEPT ![p] = "first"] /\ UNCHANGED dropped
  /\ UNCHANGED <<rows, closing, table, server, refilled>>

At(p, step) == offering[p] = step

MovedOn(p, step) == offering' = [offering EXCEPT ![p] = step]

(* A send that finds room ends the offer. *)
Send(p) ==
  /\ At(p, "first") \/ At(p, "second") \/ At(p, "last")
  /\ Len(rows) < ChanCap
  /\ rows' = Append(rows, [from |-> p, n |-> offered[p]])
  /\ MovedOn(p, "idle")
  /\ refilled' = (refilled \cup {q \in Producers : At(q, "last")}) \ {p}
  /\ UNCHANGED <<dropped, closing, offered, table, server>>

(* The first send finds none, and the second.                                 *)
Full(p) ==
  /\ At(p, "first") \/ At(p, "second")
  /\ Len(rows) = ChanCap
  /\ MovedOn(p, IF At(p, "first") THEN "second" ELSE "evict")
  /\ UNCHANGED <<channel, closing, offered, table, server, refilled>>

(* The oldest row makes room, if there still is one ...                       *)
Evict(p) ==
  /\ At(p, "evict")
  /\ IF rows = <<>> THEN UNCHANGED channel
     ELSE rows' = Tail(rows) /\ dropped' = dropped + 1
  /\ MovedOn(p, "last")
  /\ UNCHANGED <<closing, offered, table, server, refilled>>

(* ... which a concurrent producer may take first: then this row goes too.    *)
GiveUp(p) ==
  /\ At(p, "last")
  /\ Len(rows) = ChanCap
  /\ dropped' = dropped + 1
  /\ MovedOn(p, "idle")
  /\ refilled' = refilled \ {p}
  /\ UNCHANGED <<rows, closing, offered, table, server>>

Producer(p) == Send(p) \/ Full(p) \/ Evict(p) \/ GiveUp(p)

-----------------------------------------------------------------------------
(* runTable's select.  While flushes fail the channel is not read, and only   *)
(* the ticker tries again.                                                    *)
Receive ==
  /\ flusher = "select" /\ ~failing
  /\ rows # <<>>
  /\ pending' = Append(pending, Head(rows)) /\ rows' = Tail(rows)
  /\ flusher' = IF Len(pending') >= MaxRows THEN "flush" ELSE "select"
  /\ UNCHANGED <<dropped, closing, producer, failing, server, refilled>>

(* (A definition named X_Y is X with the mistake Y; no behaviour uses it.)    *)
Tick_NoRetry ==
  /\ flusher = "select"
  /\ IF pending = <<>> THEN failing' = FALSE /\ UNCHANGED flusher
     ELSE ~failing /\ flusher' = "flush" /\ UNCHANGED failing
  /\ UNCHANGED <<channel, closing, producer, pending, server, refilled>>

Tick ==
  /\ flusher = "select"
  /\ IF pending = <<>> THEN failing' = FALSE /\ UNCHANGED flusher
     ELSE flusher' = "flush" /\ UNCHANGED failing
  /\ UNCHANGED <<channel, closing, producer, pending, server, refilled>>

Shutdown ==
  /\ flusher = "select"
  /\ cancelled
  /\ flusher' = "drain"
  /\ UNCHANGED <<channel, closing, producer, pending, failing, server, refilled>>

Drain ==
  /\ flusher = "drain"
  /\ IF rows = <<>> THEN flusher' = "final" /\ UNCHANGED <<rows, pending>>
     ELSE /\ pending' = Append(pending, Head(rows)) /\ rows' = Tail(rows)
          /\ UNCHANGED flusher
  /\ UNCHANGED <<dropped, closing, producer, failing, server, refilled>>

(* flush: the INSERT of the whole batch (flushCycles and its siblings).       *)
Inserted_Kept ==
  /\ stored' = stored \o pending
  /\ saved' = saved + Len(pending)
  /\ failing' = FALSE
  /\ UNCHANGED <<pending, failures, repeated>>

Inserted ==
  /\ stored' = stored \o pending
  /\ saved' = saved + Len(pending)
  /\ pending' = <<>> /\ failing' = FALSE
  /\ UNCHANGED <<failures, repeated>>

(* An error keeps the batch, cut to the newest rows.  The server may have     *)
(* stored it: the connection can die after the send.                          *)
Retained(batch) ==
  LET over == Len(batch) - MaxRows * RetainFactor
  IN  IF over > 0 THEN SubSeq(batch, over + 1, Len(batch)) ELSE batch

Refused ==
  /\ failures < MaxFailures
  /\ failures' = failures + 1
  /\ \E arrived \in BOOLEAN :
       /\ stored' = IF arrived THEN stored \o pending ELSE stored
       /\ repeated' = (repeated \/ arrived)
  /\ UNCHANGED saved

FlushSucceeds ==
  /\ flusher = "flush"
  /\ Inserted
  /\ flusher' = "select"
  /\ UNCHANGED <<channel, closing, producer, refilled>>

FlushFails ==
  /\ flusher = "flush"
  /\ Refused
  /\ pending' = Retained(pending) /\ failing' = TRUE
  /\ dropped' = dropped + (Len(pending) - Len(Retained(pending)))
  /\ flusher' = "select"
  /\ UNCHANGED <<rows, closing, producer, refilled>>

(* The last flush has a context of its own; what it leaves is counted.        *)
FinalSucceeds ==
  /\ flusher = "final"
  /\ Inserted
  /\ flusher' = "done"
  /\ UNCHANGED <<channel, closing, producer, refilled>>

FinalFails_TrimOnly ==
  /\ flusher = "final" /\ pending # <<>>
  /\ Refused
  /\ dropped' = dropped + (Len(pending) - Len(Retained(pending)))
  /\ pending' = <<>> /\ failing' = TRUE
  /\ flusher' = "done"
  /\ UNCHANGED <<rows, closing, producer, refilled>>

FinalFails ==
  /\ flusher = "final" /\ pending # <<>>
  /\ Refused
  /\ dropped' = dropped + Len(pending)
  /\ pending' = <<>> /\ failing' = TRUE
  /\ flusher' = "done"
  /\ UNCHANGED <<rows, closing, producer, refilled>>

(* Close. *)
Close ==
  /\ ~closed
  /\ closed' = TRUE
  /\ UNCHANGED <<channel, cancelled, producer, table, server, refilled>>

Cancel ==
  /\ closed /\ ~cancelled
  /\ cancelled' = TRUE
  /\ UNCHANGED <<channel, closed, producer, table, server, refilled>>

Flush == FlushSucceeds \/ FlushFails \/ FinalSucceeds \/ FinalFails

Next ==
  \/ \E p \in Producers : Offer(p) \/ Producer(p)
  \/ Receive \/ Tick \/ Shutdown \/ Drain \/ Flush
  \/ Close \/ Cancel

(* Goroutines run, the ticker ticks, a flush ends (the last one has ten       *)
(* seconds).  A select picks among ready cases at random, so a case that is   *)
(* ready again and again is taken.                                            *)
Fairness ==
  /\ \A p \in Producers : WF_vars(Producer(p))
  /\ WF_vars(Tick) /\ WF_vars(Drain) /\ WF_vars(Flush) /\ WF_vars(Cancel)
  /\ SF_vars(Receive) /\ SF_vars(Shutdown)

Spec == Init /\ [][Next]_vars /\ Fairness

-----------------------------------------------------------------------------
(* The type of every variable. *)
TypeOK ==
  /\ rows \in Seq(Row) /\ Len(rows) <= ChanCap
  /\ dropped \in Nat /\ saved \in Nat /\ failures \in 0..MaxFailures
  /\ closed \in BOOLEAN /\ cancelled \in BOOLEAN /\ failing \in BOOLEAN
  /\ offering \in [Producers -> {"idle", "first", "second", "evict", "last"}]
  /\ offered \in [Producers -> 0..RowsEach]
  /\ pending \in Seq(Row) /\ stored \in Seq(Row)
  /\ flusher \in {"select", "flush", "drain", "final", "done"}
  /\ repeated \in BOOLEAN /\ refilled \subseteq Producers

Offering == {p \in Producers : offering[p] # "idle"}

Begun == {row \in Row : row.n <= offered[row.from]}

(* Every row is stored, waiting, or counted as dropped: the counter is the    *)
(* only trace a lost row leaves, through overflow, outage and shutdown        *)
(* (recordDrop at its five call sites).                                       *)
EveryRowAccounted ==
  Cardinality(Begun)
    = Cardinality(Offering) + Len(rows) + Len(pending) + saved + dropped

(* The rows of one producer reach the table once and in its order, unless a   *)
(* flush was stored and reported as failed.                                   *)
StoredInOrder ==
  ~repeated =>
    \A i, j \in 1..Len(stored) :
      i < j /\ stored[i].from = stored[j].from => stored[i].n < stored[j].n

(* During an outage the backlog stays in the channel: the batch exceeds       *)
(* max_rows only by the shutdown drain, so what all four tables may hold is   *)
(* what their channels were sized for (lines 96 to 99).                       *)
BacklogInChannel ==
  flusher \in {"select", "flush"} => Len(pending) <= MaxRows

(* The newest row is lost only to a rival: a producer that evicted for its    *)
(* row and drops it nevertheless saw another send into the slot.              *)
NewestLostToRival ==
  \A p \in Producers : offering[p] = "last" /\ Len(rows) = ChanCap => p \in refilled

(* Rows stranded behind Close: a producer that had passed the check on closed *)
(* may send one row into a channel nobody reads, no producer more than one.   *)
StrandedBounded ==
  flusher = "done" => Len(rows) + Cardinality(Offering) <= Cardinality(Producers)

(* What waits in memory is bounded, through overflow, outage and Close, and   *)
(* the row given up at a full channel is not simply the newest; and every row *)
(* is stored, waiting or counted.                                             *)
Inv ==
  /\ TypeOK /\ EveryRowAccounted
  /\ BacklogInChannel /\ NewestLostToRival /\ StrandedBounded

(* Close returns: the drain ends although producers may still be sending.     *)
CloseReturns == closed ~> flusher = "done"

(* Once the server answers again a batch does not stay behind.                *)
BatchLeaves == pending # <<>> ~> pending = <<>>

(* Nothing waits for ever: neither Close nor a batch. *)
NothingWaits == CloseReturns /\ BatchLeaves
=============================================================================
