--------------------------- MODULE ClusterDelivery ---------------------------
(* One slave and its master: the slave's runner (internal/cluster/slave/      *)
(* runner.go, client.go) ships the cycles of its push buffer over an HTTP     *)
(* path that may lose, delay and reorder requests and replies, and the        *)
(* master's handlers (internal/cluster/master/server.go, inbound.go) pass     *)
(* them through the redelivery window to the sinks.                           *)
(*                                                                            *)
(* The buffer is the queue ShedQueue promises, with room counted in cycles,   *)
(* and the window is RecentWindow, which CycleDedup implements.  Other slaves *)
(* share nothing with this one but the number of windows (CycleDedup).        *)
EXTENDS Integers, Sequences, FiniteSets

CONSTANTS
  BatchLimit,  \* PushBatchCycles: cycles per push
  Window,      \* dedupWindowPerSource: identities the master remembers
  Capacity,    \* cycles the push buffer has room for
  MaxCycles,   \* bound: cycles measured in a behaviour
  MaxFaults    \* bound: faults of the network, the path or the processes

ASSUME DeliveryAssumption ==
  /\ BatchLimit \in Nat \ {0}
  /\ Window \in Nat /\ Window >= 2 * BatchLimit   \* ten times: protocol.go lines 101 to 109
  /\ Capacity \in Nat /\ Capacity >= BatchLimit
  /\ MaxCycles \in Nat /\ MaxFaults \in Nat

(* A cycle is its place in the order of measurement. *)
Cycles == 1..MaxCycles

VARIABLES
  phase,       \* where the runner is
  buffer,      \* the push buffer, oldest first
  batch,       \* the cycles flushOnce drained and holds
  awaited,     \* the request whose answer flushOnce awaits, 0 if none
  measured,    \* cycles measured so far
  acked,       \* cycles of batches the master acknowledged
  shed,        \* cycles lost to the buffer's budget
  givenUp,     \* cycles of batches flushOnce dropped
  requests,    \* every POST /cycles so far: [left, status, began, late]
  registered,  \* the master's registry holds the slave
  resolves,    \* the master's config still holds the slave's targets
  recent,      \* the redelivery window
  stored,      \* cycles handed to the sinks, in order, with repetitions
  unresolved,  \* cycles dropped because their target is gone
  faults,      \* faults so far
  forgotten,   \* the master lost the window: a restart or a sweep
  overtaken    \* most later requests a handler ever found begun at a step

slave    == <<phase, buffer, batch, awaited, measured, acked, shed, givenUp>>
master   == <<registered, resolves, recent, stored, unresolved, forgotten, overtaken>>
vars     == <<slave, requests, master, faults>>

Redelivery == INSTANCE RecentWindow WITH Sources <- {"slave"}, Ids <- Cycles

-----------------------------------------------------------------------------
Elements(s) == {s[i] : i \in 1..Len(s)}

FirstOf(s, n) == SubSeq(s, 1, IF Len(s) < n THEN Len(s) ELSE n)
RestOf(s, n)  == SubSeq(s, n + 1, Len(s))


(* The statuses a handler, or a proxy on the path, can answer. *)
Answers == {"ok", "unregistered", "refused", "unavailable", "unauthorized"}

Running == phase \in {"run", "reregister"}

Init ==
  /\ phase = "register"
  /\ buffer = <<>> /\ batch = <<>> /\ awaited = 0 /\ measured = 0
  /\ acked = {} /\ shed = {} /\ givenUp = {}
  /\ requests = <<>>
  /\ registered = FALSE /\ resolves = TRUE
  /\ Redelivery!Init
  /\ stored = <<>> /\ unresolved = {}
  /\ faults = 0 /\ forgotten = FALSE /\ overtaken = 0

Fault == faults < MaxFaults /\ faults' = faults + 1

-----------------------------------------------------------------------------
(* The slave.                                                                 *)

(* PushSink.Requeue: the batch goes back in front, newer cycles make room.    *)
(* (A definition named X_Y is X with the mistake Y; no behaviour uses it.)    *)
PutBack_AtTheTail ==
  /\ buffer' = FirstOf(buffer \o batch, Capacity)
  /\ shed' = shed \cup Elements(RestOf(buffer \o batch, Capacity))
  /\ batch' = <<>>

PutBack ==
  /\ buffer' = FirstOf(batch \o buffer, Capacity)
  /\ shed' = shed \cup Elements(RestOf(batch \o buffer, Capacity))
  /\ batch' = <<>>

(* registerForever and pullConfigInitial: both enter the slave in the master's*)
(* registry; an answer that is lost is asked for again, a refusal is final.   *)
Start ==
  /\ phase \in {"register", "configure"}
  /\ registered' = TRUE
  /\ phase' = IF phase = "register" THEN "configure" ELSE "run"
  /\ UNCHANGED <<buffer, batch, awaited, measured, acked, shed, givenUp, requests, resolves,
                 recent, stored, unresolved, faults, forgotten, overtaken>>

StartFails ==
  /\ phase \in {"register", "configure"}
  /\ Fault
  /\ \/ registered' \in {registered, TRUE} /\ UNCHANGED phase
     \/ phase' = "exited" /\ UNCHANGED registered
  /\ UNCHANGED <<buffer, batch, awaited, measured, acked, shed, givenUp, requests, resolves,
                 recent, stored, unresolved, forgotten, overtaken>>

(* PushSink.OnCycle: past its room the buffer loses its oldest cycle. *)
Measure ==
  /\ Running \/ phase = "stopping"
  /\ measured < MaxCycles
  /\ measured' = measured + 1
  /\ IF Len(buffer) < Capacity THEN buffer' = Append(buffer, measured') /\ UNCHANGED shed
     ELSE buffer' = Append(Tail(buffer), measured') /\ shed' = shed \cup {Head(buffer)}
  /\ UNCHANGED <<phase, batch, awaited, acked, givenUp, requests, master, faults>>

(* flushOnce drains a batch and posts it; finalFlush does so once. *)
Flush ==
  /\ phase \in {"run", "stopping"}
  /\ awaited = 0
  /\ buffer # <<>>
  /\ batch' = FirstOf(buffer, BatchLimit)
  /\ buffer' = RestOf(buffer, BatchLimit)
  /\ requests' = Append(requests, [left |-> batch', status |-> "sent", began |-> FALSE,
                                  late |-> FALSE])
  /\ awaited' = Len(requests')
  /\ phase' = IF phase = "stopping" THEN "final" ELSE phase
  /\ UNCHANGED <<measured, acked, shed, givenUp, master, faults>>

(* What a flush that ended with the given phase leaves behind: finalFlush is  *)
(* the last thing the process does.                                           *)
Ended(next) == phase' = IF phase = "final" THEN "exited" ELSE next

(* The answer to the request awaited, the last one.  One no handler began is  *)
(* over and needs no record.                                                  *)
Answered(status) ==
  /\ awaited # 0
  /\ requests[awaited].status = status
  /\ requests' = IF requests[awaited].began THEN requests ELSE SubSeq(requests, 1, awaited - 1)
  /\ awaited' = 0

Acknowledged ==
  /\ Answered("ok")
  /\ acked' = acked \cup Elements(batch)
  /\ batch' = <<>>
  /\ Ended(phase)
  /\ UNCHANGED <<buffer, measured, shed, givenUp, master, faults>>

(* A permanent 4xx, marked or not, and a 404: the batch is dropped. *)
Refused ==
  /\ Answered("refused")
  /\ givenUp' = givenUp \cup Elements(batch)
  /\ batch' = <<>>
  /\ Ended(phase)
  /\ UNCHANGED <<buffer, measured, acked, shed, master, faults>>

(* 401: the batch in hand is gone and the runner shuts down. *)
Unauthorized ==
  /\ Answered("unauthorized")
  /\ givenUp' = givenUp \cup Elements(batch)
  /\ batch' = <<>>
  /\ Ended("stopping")
  /\ UNCHANGED <<buffer, measured, acked, shed, master, faults>>

(* A 5xx, a redirect or a retryable 4xx. *)
Unavailable ==
  /\ Answered("unavailable")
  /\ PutBack
  /\ Ended(phase)
  /\ UNCHANGED <<measured, acked, givenUp, master, faults>>

(* No answer: the client's timeout, a lost connection or a lost reply.  The   *)
(* request itself may still be on its way, or in the hands of a handler.      *)
GiveUpWaiting ==
  /\ awaited # 0
  /\ Fault
  /\ awaited' = 0
  /\ PutBack
  /\ Ended(phase)
  /\ UNCHANGED <<measured, acked, givenUp, requests, master>>

(* The handler died with its process: only the timeout ends the wait. *)
TimeoutExpires ==
  /\ awaited # 0 /\ requests[awaited].status = "dead"
  /\ awaited' = 0
  /\ PutBack
  /\ Ended(phase)
  /\ UNCHANGED <<measured, acked, givenUp, requests, master, faults>>

(* 403: flushOnce registers again, holding on to the batch. *)
Unregistered ==
  /\ Answered("unregistered")
  /\ phase' = IF phase = "final" THEN "final" ELSE "reregister"
  /\ UNCHANGED <<buffer, batch, measured, acked, shed, givenUp, master, faults>>

Holding == batch # <<>> /\ awaited = 0

Reregister_Never ==
  /\ Holding
  /\ PutBack
  /\ Ended("run")
  /\ UNCHANGED <<awaited, measured, acked, givenUp, requests, registered, resolves,
                 recent, stored, unresolved, faults, forgotten, overtaken>>

Reregister ==
  /\ Holding
  /\ registered' = TRUE
  /\ PutBack
  /\ Ended("run")
  /\ UNCHANGED <<awaited, measured, acked, givenUp, requests, resolves,
                 recent, stored, unresolved, faults, forgotten, overtaken>>

(* The registration fails: for now, or for good.  The batch is put back.      *)
ReregisterFails ==
  /\ Holding
  /\ Fault
  /\ registered' \in {registered, TRUE}
  /\ PutBack
  /\ \/ Ended("run") \/ Ended("stopping")
  /\ UNCHANGED <<awaited, measured, acked, givenUp, requests, resolves,
                 recent, stored, unresolved, forgotten, overtaken>>

(* The config refresh touches the registry. *)
Refresh ==
  /\ Running
  /\ ~registered
  /\ registered' = TRUE
  /\ UNCHANGED <<slave, requests, resolves, recent, stored, unresolved, faults, forgotten, overtaken>>

(* SIGTERM, or a 401 at the config refresh: the context of a request in       *)
(* progress is cancelled, which requeues its batch; before the first config   *)
(* there is nothing to flush.                                                 *)
Stop ==
  /\ phase \notin {"stopping", "final", "exited"}
  /\ Fault
  /\ awaited' = 0
  /\ PutBack
  /\ phase' = IF Running THEN "stopping" ELSE "exited"
  /\ UNCHANGED <<measured, acked, givenUp, requests, master>>

(* finalFlush finds nothing to push. *)
ExitEmpty ==
  /\ phase = "stopping"
  /\ buffer = <<>>
  /\ phase' = "exited"
  /\ UNCHANGED <<buffer, batch, awaited, measured, acked, shed, givenUp, requests, master, faults>>

-----------------------------------------------------------------------------
(* The master.                                                                *)

Became(n, status) == requests' = [requests EXCEPT ![n].status = status, ![n].left = <<>>]

(* A request arrives, late or not: handleCycles asks the registry first. *)
Arrive(n) ==
  /\ requests[n].status = "sent"
  /\ IF registered THEN requests' = [requests EXCEPT ![n].status = "handling", ![n].began = TRUE]
                   ELSE Became(n, "unregistered")
  /\ UNCHANGED <<slave, master, faults>>

(* The master, or a proxy in front of it, answers without ingesting. *)
Fail(n) ==
  /\ requests[n].status = "sent"
  /\ Fault
  /\ \E status \in {"refused", "unavailable", "unauthorized"} : Became(n, status)
  /\ UNCHANGED <<slave, master>>

LaterBegun(n) == Cardinality({m \in (n + 1)..Len(requests) : requests[m].began})

Larger(a, b) == IF a > b THEN a ELSE b

(* ingestBatch takes the next cycle: its target is unknown, or the window     *)
(* remembers it, or it goes to the sinks.                                     *)
Ingest(n) ==
  /\ requests[n].status = "handling"
  /\ requests[n].left # <<>>
  /\ requests' = [requests EXCEPT ![n].left = Tail(@), ![n].late = @ \/ n < Len(requests)]
  /\ overtaken' = Larger(overtaken, LaterBegun(n))
  /\ LET c == Head(requests[n].left)
     IN  \/ /\ ~resolves
            /\ unresolved' = unresolved \cup {c}
            /\ UNCHANGED <<recent, stored>>
         \/ /\ resolves
            /\ c \in Redelivery!Remembered("slave")
            /\ UNCHANGED <<recent, stored, unresolved>>
         \/ /\ resolves
            /\ Redelivery!Ingest("slave", c)
            /\ stored' = Append(stored, c)
            /\ UNCHANGED unresolved
  /\ UNCHANGED <<slave, registered, resolves, faults, forgotten>>

Finish_BeforeIngest(n) ==
  /\ requests[n].status = "handling"
  /\ Became(n, "ok")
  /\ UNCHANGED <<slave, master, faults>>

Finish(n) ==
  /\ requests[n].status = "handling"
  /\ requests[n].left = <<>>
  /\ Became(n, "ok")
  /\ UNCHANGED <<slave, master, faults>>

(* The master restarts: registry and windows are in memory, handlers die. *)
RestartMaster ==
  /\ Fault
  /\ registered' = FALSE
  /\ Redelivery!Drop("slave")
  /\ forgotten' = TRUE
  /\ requests' = [n \in 1..Len(requests) |->
       IF requests[n].status = "handling" THEN [requests[n] EXCEPT !.status = "dead", !.left = <<>>]
       ELSE requests[n]]
  /\ UNCHANGED <<slave, resolves, stored, unresolved, overtaken>>

(* Sweep: the slave was silent for a day. *)
SweepSlave ==
  /\ registered
  /\ Fault
  /\ registered' = FALSE
  /\ Redelivery!Drop("slave")
  /\ forgotten' = TRUE
  /\ UNCHANGED <<slave, requests, resolves, stored, unresolved, overtaken>>

(* An operator takes the slave's targets out of the master's config, or puts  *)
(* them back.                                                                 *)
EditTargets ==
  /\ Fault
  /\ resolves' = ~resolves
  /\ UNCHANGED <<slave, requests, registered, recent, stored, unresolved, forgotten, overtaken>>

-----------------------------------------------------------------------------
Runner ==
  \/ Start \/ Flush \/ Acknowledged \/ Refused \/ Unauthorized \/ Unavailable
  \/ TimeoutExpires \/ Unregistered \/ Reregister \/ ExitEmpty

Handler(n) == Arrive(n) \/ Ingest(n) \/ Finish(n)

Faulty ==
  \/ StartFails \/ GiveUpWaiting \/ ReregisterFails \/ Stop
  \/ RestartMaster \/ SweepSlave \/ EditTargets
  \/ \E n \in 1..Len(requests) : Fail(n)

Next ==
  \/ Runner
  \/ Measure
  \/ Refresh
  \/ \E n \in 1..Len(requests) : Handler(n)
  \/ Faulty

(* The push loop's ticker keeps flushing, and a request the slave still waits *)
(* for is answered while its master lives.                                    *)
AwaitedHandled == awaited # 0 /\ Handler(awaited)

Fairness == WF_vars(Runner) /\ WF_vars(AwaitedHandled)

Spec == Init /\ [][Next]_vars /\ Fairness

-----------------------------------------------------------------------------
(* The type of every variable. *)
TypeOK ==
  /\ phase \in {"register", "configure", "run", "reregister", "stopping", "final", "exited"}
  /\ buffer \in Seq(Cycles) /\ Len(buffer) <= Capacity
  /\ batch \in Seq(Cycles) /\ Len(batch) <= BatchLimit
  /\ awaited \in 0..Len(requests) /\ measured \in 0..MaxCycles
  /\ acked \subseteq Cycles /\ shed \subseteq Cycles /\ givenUp \subseteq Cycles
  /\ requests \in Seq([left : Seq(Cycles), status : Answers \cup {"sent", "handling", "dead"},
                       began : BOOLEAN, late : BOOLEAN])
  /\ registered \in BOOLEAN /\ resolves \in BOOLEAN /\ forgotten \in BOOLEAN
  /\ recent \in [{"slave"} -> Seq(Redelivery!Entry)]
  /\ stored \in Seq(Cycles) /\ unresolved \subseteq Cycles
  /\ faults \in 0..MaxFaults /\ overtaken \in Nat

(* Every cycle measured is in one place on the slave: buffered, in hand,      *)
(* acknowledged, shed or dropped with its batch, never in two and never in    *)
(* none (flushOnce, runner.go lines 325 to 395).                              *)
OnePlace ==
  /\ 1..measured = Elements(buffer) \cup Elements(batch) \cup acked \cup shed \cup givenUp
  /\ measured = Len(buffer) + Len(batch) + Cardinality(acked) + Cardinality(shed)
                  + Cardinality(givenUp)

(* An acknowledgement means something: every cycle of the batch was handed to *)
(* the sinks, now or by an earlier request, unless its target is gone from    *)
(* the master's config (handleCycles, ingestBatch).                           *)
AckedIsStored == acked \subseteq Elements(stored) \cup unresolved

(* Whatever fails, restarts or is refused, the bookkeeping is whole: each     *)
(* cycle the slave measured has one place, inside the buffer's bounds, and an *)
(* acknowledged one reached the sinks.                                        *)
Inv == TypeOK /\ OnePlace /\ AckedIsStored

(* Without late handlers and with its window intact, the master stores each   *)
(* cycle at most once and in the order of measurement, through any number of  *)
(* lost replies, refusals and re-registrations: the whole redelivered set is  *)
(* one batch (dedup.go lines 16 to 22).  Only a target that came back after   *)
(* cycles of it were dropped may be stored out of order: a redelivery brings  *)
(* the dropped cycle behind later ones of its batch.                          *)
StoredOnceInOrder ==
  overtaken = 0 /\ ~forgotten /\ unresolved = {} =>
    \A i, j \in 1..Len(stored) : i < j => stored[i] < stored[j]

Late == {n \in 1..Len(requests) : requests[n].late}

(* A duplicate needs as many requests around it as fill a window: batches     *)
(* that overtook a straggler, or further stragglers.  One slow handler is not *)
(* enough (the factor of ten between MaxCyclesPerBatch and PushBatchCycles,   *)
(* protocol.go lines 100 to 108).  A target that came back spoils the count   *)
(* with the order.                                                            *)
DuplicateNeedsStraggler ==
  unresolved = {} /\ (\E i, j \in 1..Len(stored) : i < j /\ stored[i] = stored[j]) =>
    forgotten \/ overtaken + Cardinality(Late) > Window \div BatchLimit

(* Redelivery neither doubles nor reorders what is stored, short of a window  *)
(* filled behind stragglers.                                                  *)
RedeliveryIsSafe == StoredOnceInOrder /\ DuplicateNeedsStraggler

(* Once the faults and the measuring are over, no cycle stays on the slave:   *)
(* by Inv each is then acknowledged or accounted for as lost, unless the      *)
(* process ended.  A restarted master forgot the slave and only flushOnce's   *)
(* re-registration brings it back: the config refresh may be disabled         *)
(* (runner.go lines 316 to 321).                                              *)
EveryCycleLeaves ==
  <>[](phase = "exited" \/ (buffer = <<>> /\ batch = <<>>))
=============================================================================
