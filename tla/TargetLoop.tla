----------------------------- MODULE TargetLoop -----------------------------
(* One target's loop in the scheduler (internal/scheduler/scheduler.go,       *)
(* loopTarget and runCycle) with everything a cycle sets off: the probe's     *)
(* batch, the TTL walk joined before the probe returns (icmp.go, mtr.go), the *)
(* cycle made of both, and the sinks it is handed to one after the other      *)
(* (fanout.go).                                                               *)
EXTENDS TtlWalk, FiniteSetsExt

CONSTANT Sinks   \* the fanout's sinks, in order: 1..Sinks

ASSUME LoopAssumption == Sinks \in Nat \ {0}

VARIABLES
  loop,    \* "jitter", "waiting" for a tick, "probing", "sinks" or "exited"
  cycle,   \* the cycle being handed out
  given    \* how many sinks have been called with it

loopVars == <<loop, cycle, given>>
cycleVars == <<clockVars, batchVars, walkVars, loopVars>>

NoCycle == [sent |-> 0, lost |-> 0, rtts |-> <<>>, hops |-> <<>>]

-----------------------------------------------------------------------------
LoopInit ==
  /\ now = 0 /\ ctx = "live" /\ stopping = FALSE
  /\ BatchInit /\ WalkInit
  /\ loop = "jitter" /\ cycle = NoCycle /\ given = 0

(* The jitter is over or the ticker fired: runCycle calls Probe.  A select    *)
(* that finds the context done as well may still choose the tick.  mtr starts *)
(* its walk first.                                                            *)
BeginCycle ==
  /\ loop = "jitter" \/ (loop = "waiting" /\ now >= Interval)
  /\ loop' = "probing"
  /\ ClockStart
  /\ BatchStart(stopping)
  /\ IF kind = "mtr" THEN WalkStart ELSE UNCHANGED walkVars
  /\ UNCHANGED <<cycle, given>>

Exit ==
  /\ loop \in {"jitter", "waiting"} /\ stopping
  /\ loop' = "exited"
  /\ UNCHANGED <<clockVars, batchVars, walkVars, cycle, given>>

Air == EchoWire \cup WalkWire

(* A step of the batch.  icmp starts its walk once its own socket is open,    *)
(* unless the probe says no_trace.                                            *)
Measure ==
  /\ loop = "probing"
  /\ BatchStep(Air)
  /\ IF kind = "icmp" /\ stage = "resolve" /\ stage' = "ready"
     THEN WalkStart \/ UNCHANGED walkVars
     ELSE UNCHANGED walkVars
  /\ UNCHANGED <<clockVars, loopVars>>

Trace ==
  /\ WalkStep(Air)
  /\ UNCHANGED <<clockVars, batchVars, loopVars>>

(* Probe's deferred join.  (A definition named X_Y is X with the mistake Y;   *)
(* no behaviour uses it.)                                                     *)
Joined_EchoOnly == stage \in Ended
Joined == stage \in Ended /\ WalkEnded

(* What runCycle makes of no result at all: the target did not answer, unless *)
(* the scheduler itself is going away.  The parent context tells, as the      *)
(* cycle's own also ends when a resolver hangs.                               *)
NothingCameBack ==
  IF stopping THEN NoCycle ELSE [NoCycle EXCEPT !.sent = Pings, !.lost = Pings]

(* mtr returns a result of its own, with an empty batch, when its echo        *)
(* returned none.                                                             *)
Result ==
  IF stage = "nil" /\ kind # "mtr" THEN NothingCameBack
  ELSE [sent |-> sent, lost |-> lost, rtts |-> rtts,
        hops |-> IF walk = "done" THEN Hops ELSE <<>>]

(* What the cycle's frames held is gone when runCycle returns. *)
Return ==
  /\ loop' = "waiting" /\ given' = 0 /\ cycle' = NoCycle
  /\ stage' = "off" /\ n' = 0 /\ base' = 0 /\ sent' = 0 /\ lost' = 0 /\ rtts' = <<>>
  /\ fate' = [k \in DOMAIN fate |-> "unsent"]
  /\ walk' = "off" /\ round' = 0 /\ ttl' = 0 /\ wuntil' = 0
  /\ seen' = [t \in Depths |-> Nobody] /\ attempted' = 0 /\ reached' = 0
  /\ last' = [r \in Rounds |-> 0] /\ misled' = FALSE
  /\ UNCHANGED <<clockVars, kind, began, until, promised, cut>>

(* The probe has returned ... *)
TakeResult ==
  /\ loop = "probing" /\ Joined /\ stage # "panicked"
  /\ loop' = "sinks" /\ cycle' = Result
  /\ UNCHANGED <<clockVars, batchVars, walkVars, given>>

(* ... or its panic reaches runCycle's recover: no record, and the loop goes on. *)
ProbePanicked_LoopDies ==
  /\ loop = "probing" /\ Joined /\ stage = "panicked"
  /\ loop' = "exited"
  /\ UNCHANGED <<clockVars, batchVars, walkVars, cycle, given>>
ProbePanicked ==
  /\ loop = "probing" /\ Joined /\ stage = "panicked"
  /\ Return

(* The next sink takes the cycle, or panics: deliver recovers either way.     *)
OnCycle ==
  /\ loop = "sinks"
  /\ IF given + 1 = Sinks THEN Return
     ELSE given' = given + 1 /\ UNCHANGED <<clockVars, batchVars, walkVars, loop, cycle>>

(* Nothing is due: a tick passes. *)
Tick ==
  /\ \/ loop = "waiting" /\ now < Interval
     \/ loop = "probing" /\ ~Joined /\ ~BatchDue /\ ~WalkDue
  /\ ~(ctx = "live" /\ now >= Interval)
  /\ now' = now + 1
  /\ UNCHANGED <<ctx, stopping, batchVars, walkVars, loopVars>>

ContextEnds ==
  /\ loop = "probing"
  /\ Expire
  /\ UNCHANGED <<batchVars, walkVars, loopVars>>

Shutdown ==
  /\ loop # "exited"
  /\ Stop
  /\ UNCHANGED <<batchVars, walkVars, loopVars>>

Loop == BeginCycle \/ TakeResult \/ ProbePanicked \/ OnCycle

LoopNext ==
  \/ Loop \/ Exit
  \/ Measure \/ Trace
  \/ Tick \/ ContextEnds
  \/ Shutdown

(* Goroutines run, time passes, and a loop that keeps finding its context     *)
(* done takes that case in the end.                                           *)
LoopFairness ==
  /\ WF_cycleVars(Loop) /\ SF_cycleVars(Exit)
  /\ WF_cycleVars(Measure) /\ WF_cycleVars(Trace) /\ WF_cycleVars(Tick \/ ContextEnds)

LoopSpec == LoopInit /\ [][LoopNext]_cycleVars /\ LoopFairness

-----------------------------------------------------------------------------
(* Types, and that nothing of a cycle outlives it: no goroutine of a walk     *)
(* runs once the probe has returned (icmp.go lines 209 to 229, mtr.go lines   *)
(* 104 to 113), and a cycle is over by its deadline, or one step of the walk  *)
(* after a shutdown.                                                          *)
LoopInv ==
  /\ ClockTypeOK /\ BatchTypeOK /\ WalkTypeOK
  /\ loop \in {"jitter", "waiting", "probing", "sinks", "exited"}
  /\ given \in 0..(Sinks - 1)
  /\ loop # "probing" => WalkEnded
  /\ loop = "probing" => now <= Interval

(* A record says what was measured.  Each RTT is the target's own answer to a *)
(* ping of this cycle, whatever else the socket saw.  An echo that the end of *)
(* the cycle or a shutdown cut off counts neither as sent nor as lost         *)
(* (icmp.go lines 196 to 199 and 254 to 257).  A record of full loss without  *)
(* a single ping is made exactly when the name did not resolve and the        *)
(* scheduler was not stopping (scheduler.go lines 149 to 166).                *)
MeasuredOnly ==
  loop = "sinks" =>
    /\ WithFate({"misread"}) = {}
    /\ Len(cycle.rtts) = Cardinality(WithFate({"answered"}))
    /\ IF stage = "nil" /\ kind # "mtr"
       THEN /\ cycle.lost = cycle.sent /\ cycle.sent \in {0, Pings}
            /\ cycle.sent = 0 => stopping
       ELSE /\ cycle.sent = cycle.lost + Len(cycle.rtts)
            /\ cycle.lost = Cardinality(WithFate({"silent", "refused"} \cup
                  (IF Echoing THEN {} ELSE {"interrupted"})))

RowsAt(t) == {i \in DOMAIN cycle.hops : cycle.hops[i].index = t}
EchoedTTLs == {cycle.hops[i].index : i \in {j \in DOMAIN cycle.hops : cycle.hops[j].echo}}

(* The path is one the probes took: every row rests on answers to its own     *)
(* steps, the target closes the path at one TTL and nothing is shown beyond   *)
(* it, and the rows of a TTL add up to the steps made there, each lost once   *)
(* or answered once (trace.go lines 206 to 292).                              *)
PathIsReal ==
  loop = "sinks" =>
    /\ ~misled
    /\ Cardinality(EchoedTTLs) <= 1
    /\ \A t \in EchoedTTLs, i \in DOMAIN cycle.hops : cycle.hops[i].index <= t
    /\ \A t \in Depths : RowsAt(t) # {} =>
         MapThenSumSet(LAMBDA i : cycle.hops[i].sent, RowsAt(t))
           = Cardinality({r \in Rounds : last[r] >= t})

(* The loop keeps measuring, through panics of a probe and of a sink, and     *)
(* ends when the scheduler does, whatever the probe was waiting for.          *)
LoopLives ==
  []<>(IF stopping THEN loop = "exited" ELSE loop = "probing")
=============================================================================
