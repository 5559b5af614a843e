------------------------------ MODULE TtlWalk -------------------------------
(* The TTL walk of one cycle, internal/probe/trace.go: rounds of TTL-limited  *)
(* echoes over a raw socket, which sees every ICMP datagram of the host, and  *)
(* the hop rows made of the answers (walkRounds).  It runs on a goroutine of  *)
(* its own beside the echo batch, under the same context.                     *)
EXTENDS EchoBatch

CONSTANTS
  TraceTimeout,  \* how long one step may wait
  TraceSpacing   \* gap between two steps

ASSUME WalkAssumption == TraceTimeout \in Nat \ {0} /\ TraceSpacing \in Nat

VARIABLES
  walk,       \* where the walk is; "done" and "failed" are its ends
  round, ttl, \* the step
  wuntil,     \* the deadline of its read or gap
  seen,       \* per TTL: the responders' rows, in order, and the steps lost
  attempted,  \* completed rounds
  reached,    \* those the target echoed in
  last,       \* history: the deepest TTL each round has probed
  misled      \* history: an answer was taken that was none to the step

walkVars == <<walk, round, ttl, wuntil, seen, attempted, reached, last, misled>>

Depths == 1..WalkDepth
Rounds == 0..(WalkRounds - 1)
WalkEnded == walk \in {"off", "done", "failed"}

(* mtr walks as many rounds as it sends pings. *)
RoundsToWalk == IF kind = "mtr" THEN Count ELSE WalkRounds

-----------------------------------------------------------------------------
(* traceOnConn: every step of every round has a sequence number of its own. *)
WalkSeq(r, t) == r * (WalkDepth + 1) + t

(* What may come back for a step, over a route that may change at any time: a *)
(* router's TimeExceeded, or the target's echo or unreachable.  A router may  *)
(* also answer in the target's place.                                         *)
StepAnswers(r, t) ==
  LET d(from, type, about) == Datagram(from, type, Own, WalkSeq(r, t), about)
      step == <<"step", r, t>>
  IN  {d("router", "exceeded", step), d("target", "reply", step), d("target", "unreach", step),
       d("router", "reply", <<"impostor">>)}

(* Another trace of the host to the same target: its identifier differs.      *)
StrangerAnswers ==
  {Datagram("target", "reply", Other, WalkSeq(round, ttl), <<"stranger">>),
   Datagram("router", "exceeded", Other, WalkSeq(round, ttl), <<"stranger">>)}

WalkWire ==
  StrangerAnswers \cup
  UNION {UNION {StepAnswers(r, t) : t \in 1..last[r]} : r \in Rounds}

(* The step a reply carries, or an error quotes of the datagram it is about.  *)
Quotes(d) == d.id = Own /\ d.seq = WalkSeq(round, ttl)

(* classifyReply: echoes must come from the target, errors may come from      *)
(* anywhere but must quote the step.  (A definition named X_Y is X with the   *)
(* mistake Y; no behaviour uses it.)                                          *)
ClassifyReply_AnySource(d) ==
  IF ~Quotes(d) THEN "none"
  ELSE CASE d.type = "reply" -> "echo"
         [] d.type = "request" -> "none"
         [] OTHER -> d.type
ClassifyReply(d) ==
  IF ~Quotes(d) THEN "none"
  ELSE CASE d.type = "reply" -> IF d.from = "target" THEN "echo" ELSE "none"
         [] d.type = "request" -> "none"
         [] OTHER -> d.type

-----------------------------------------------------------------------------
Nobody == [rows |-> <<>>, lost |-> 0]

WalkInit ==
  /\ walk = "off" /\ round = 0 /\ ttl = 0 /\ wuntil = 0
  /\ seen = [t \in Depths |-> Nobody]
  /\ attempted = 0 /\ reached = 0
  /\ last = [r \in Rounds |-> 0] /\ misled = FALSE

(* startTrace. *)
WalkStart ==
  /\ walk' = "resolve" /\ round' = 0 /\ ttl' = 0 /\ wuntil' = 0
  /\ seen' = [t \in Depths |-> Nobody]
  /\ attempted' = 0 /\ reached' = 0
  /\ last' = [r \in Rounds |-> 0] /\ misled' = FALSE

(* No address, no raw socket, or a panic, which the goroutine recovers. *)
WalkFails ==
  /\ walk = "resolve"
  /\ walk' = "failed"
  /\ UNCHANGED <<round, ttl, wuntil, seen, attempted, reached, last, misled>>

(* A round starts. *)
WalkRound ==
  /\ walk \in {"resolve", "round"}
  /\ walk = "resolve" => ~Done
  /\ IF Done THEN walk' = "done" /\ UNCHANGED ttl
     ELSE walk' = "step" /\ ttl' = 1
  /\ UNCHANGED <<round, wuntil, seen, attempted, reached, last, misled>>

(* sendTTL up to its read, whose deadline the cycle's own clips.  A cancelled *)
(* context ends the walk between steps only.                                  *)
WalkSend ==
  /\ walk = "step"
  /\ IF Done THEN walk' = "done" /\ UNCHANGED <<wuntil, last>>
     ELSE /\ walk' = "wait"
          /\ wuntil' = AtMost(now + TraceTimeout, Interval)
          /\ last' = [last EXCEPT ![round] = ttl]
  /\ UNCHANGED <<round, ttl, seen, attempted, reached, misled>>

(* The row of this responder: an echo and an error of one address are two.    *)
RowOf(a, who, echo) == {i \in 1..Len(a.rows) : a.rows[i].who = who /\ a.rows[i].echo = echo}

WithAnswer(a, who, echo, unreach) ==
  LET more(row) == [row EXCEPT !.sent = @ + 1, !.unreach = @ \/ unreach]
  IN  IF RowOf(a, who, echo) = {}
      THEN [a EXCEPT !.rows =
             Append(@, [who |-> who, echo |-> echo, sent |-> 1, unreach |-> unreach])]
      ELSE [a EXCEPT !.rows = [i \in 1..Len(@) |->
             IF i \in RowOf(a, who, echo) THEN more(@[i]) ELSE @[i]]]

(* After a step: a terminal answer or the deepest TTL completes the round.    *)
AfterStep(terminal, echo) ==
  IF terminal \/ ttl = WalkDepth
  THEN /\ attempted' = attempted + 1
       /\ reached' = IF echo THEN reached + 1 ELSE reached
       /\ ttl' = 0 /\ wuntil' = 0
       /\ IF round = RoundsToWalk - 1 THEN walk' = "done" /\ UNCHANGED round
          ELSE walk' = "round" /\ round' = round + 1
  ELSE /\ walk' = "gap" /\ ttl' = ttl + 1
       /\ wuntil' = now + TraceSpacing
       /\ UNCHANGED <<round, attempted, reached>>

WalkReceive(wire) ==
  /\ walk = "wait"
  /\ \E d \in wire :
       LET what == ClassifyReply(d)
       IN  /\ what # "none"
           /\ seen' = [seen EXCEPT ![ttl] =
                WithAnswer(@, d.from, what = "echo", what = "unreach")]
           /\ misled' = (misled \/ d.about # <<"step", round, ttl>>)
           /\ AfterStep(what # "exceeded", what = "echo")
  /\ UNCHANGED last

Lost ==
  /\ seen' = [seen EXCEPT ![ttl].lost = @ + 1]
  /\ last' = [last EXCEPT ![round] = ttl]
  /\ AfterStep(FALSE, FALSE)
  /\ UNCHANGED misled

(* Nothing came in time. *)
WalkLoses ==
  /\ walk = "wait" /\ now >= wuntil
  /\ Lost

(* The hop limit could not be set or the send failed: nothing left the host,  *)
(* and the step is lost all the same.                                         *)
WalkUnsent ==
  /\ walk = "step" /\ ~Done
  /\ Lost

WalkGap ==
  /\ walk = "gap"
  /\ Done \/ now >= wuntil
  /\ walk' = "step" /\ wuntil' = 0
  /\ UNCHANGED <<round, ttl, seen, attempted, reached, last, misled>>

WalkStep(wire) ==
  WalkFails \/ WalkRound \/ WalkSend \/ WalkReceive(wire) \/ WalkLoses \/ WalkUnsent \/ WalkGap

WalkDue ==
  \/ walk \in {"round", "step"}
  \/ walk = "resolve" /\ Done
  \/ walk = "wait" /\ now >= wuntil
  \/ walk = "gap" /\ (Done \/ now >= wuntil)

-----------------------------------------------------------------------------
Echoed(t) == \E i \in 1..Len(seen[t].rows) : seen[t].rows[i].echo

(* The nearest TTL the target echoed at clamps the path. *)
Shown == {t \in Depths : \A u \in 1..(t - 1) : ~Echoed(u)}

(* The hop rows of one TTL: the responders', or one of loss alone.  Loss is   *)
(* on the first row.                                                          *)
HopsAt(t) ==
  LET a == seen[t]
  IN  IF a.rows = <<>>
      THEN IF a.lost = 0 THEN <<>>
           ELSE <<[index |-> t, who |-> "nobody", echo |-> FALSE, unreach |-> FALSE,
                   sent |-> a.lost, lost |-> a.lost]>>
      ELSE [i \in 1..Len(a.rows) |->
             [index |-> t, who |-> a.rows[i].who, echo |-> a.rows[i].echo,
              unreach |-> a.rows[i].unreach,
              sent |-> a.rows[i].sent + (IF i = 1 THEN a.lost ELSE 0),
              lost |-> IF i = 1 THEN a.lost ELSE 0]]

(* walkRounds' result. *)
Hops ==
  LET upTo[t \in 0..WalkDepth] ==
        IF t = 0 THEN <<>> ELSE upTo[t - 1] \o (IF t \in Shown THEN HopsAt(t) ELSE <<>>)
  IN  upTo[WalkDepth]

WalkTypeOK ==
  /\ walk \in {"off", "resolve", "round", "step", "wait", "gap", "done", "failed"}
  /\ round \in Rounds /\ ttl \in 0..WalkDepth /\ wuntil \in Nat
  /\ attempted \in 0..WalkRounds /\ reached \in 0..attempted
  /\ last \in [Rounds -> 0..WalkDepth] /\ misled \in BOOLEAN
=============================================================================
