----------------------------- MODULE EchoBatch ------------------------------
(* The measurement of one cycle: the batch of pings of the icmp probe         *)
(* (internal/probe/icmp.go, Probe and sendOne) and of mtr's direct echo       *)
(* (mtr.go), and the dials, lookups and requests of tcp.go, dns.go and        *)
(* http.go, which share one loop.  A read may return any datagram its socket  *)
(* can see by then; which of them is the answer is matchEchoReply's to say.   *)
(* The batch and the walk beside it have drawn the same identifier, Own: the  *)
(* draw that sequence numbers must make harmless.                             *)
EXTENDS CycleContext, Sequences, FiniteSets

CONSTANTS
  Kinds,         \* of "icmp", "mtr", "tcp", "dns" and "http"
  Pings,         \* cfg.Pings
  Timeout,       \* the probe's configured timeout
  Spacing,       \* gap between two attempts
  HTTPRequests,  \* maxHTTPRequests
  SeqSpace,      \* 2^16: sequence numbers on the wire
  WalkRounds,    \* rounds of the TTL walk beside the batch
  WalkDepth      \* its deepest TTL

ASSUME BatchAssumption ==
  /\ Kinds \subseteq {"icmp", "mtr", "tcp", "dns", "http"}
  /\ Pings \in Nat \ {0} /\ Timeout \in Nat \ {0} /\ Spacing \in Nat
  /\ HTTPRequests \in Nat \ {0}
  /\ WalkRounds \in Nat \ {0} /\ WalkDepth \in Nat \ {0}
  /\ SeqSpace \in Nat
  /\ SeqSpace >= WalkRounds * (WalkDepth + 1) + Pings   \* pinned at icmp.go:139

VARIABLES
  kind,      \* the target's probe
  stage,     \* where Probe is; "over", "nil" and "panicked" are its ends
  n,         \* the attempt
  began,     \* when the attempt was made
  until,     \* the deadline of the read or of the gap
  promised,  \* configuredDeadline: when the attempt's own time is up
  cut,       \* the context interrupted the read before that
  base,      \* the batch's first sequence number
  sent, lost, rtts,   \* the Result so far
  fate       \* history: what became of each attempt

batchVars == <<kind, stage, n, began, until, promised, cut, base, sent, lost, rtts, fate>>

Echoing == kind \in {"icmp", "mtr"}
Ended == {"over", "nil", "panicked"}

-----------------------------------------------------------------------------
AtMost(a, b) == IF a < b THEN a ELSE b

Count ==
  CASE kind = "http" -> AtMost(Pings, HTTPRequests)
    [] kind = "mtr"  -> AtMost(Pings, WalkRounds)
    [] OTHER         -> Pings

(* echoTimeout: attempt k's share of what is left of the cycle; 0 when none. *)
Budget(k) ==
  LET left == Interval - now - (Count - 1 - k) * Spacing
  IN  IF left <= 0 THEN 0 ELSE AtMost(left \div (Count - k), Timeout)

(* One past the largest sequence number the walk emits. *)
TraceSeqCeil == WalkRounds * (WalkDepth + 1)

(* echoBaseSeq draws a window above the walk's and below the wrap. *)
BaseSeqs == TraceSeqCeil .. (SeqSpace - Count)
SeqOf(k) == (base + k) % SeqSpace

Own == 0
Other == 1

(* A datagram: who sent it, its type, the identifier and sequence number it   *)
(* carries or quotes, and for the history what it is really an answer to.     *)
Datagram(from, type, i, s, about) ==
  [from |-> from, type |-> type, id |-> i, seq |-> s, about |-> about]

(* What may come back for the pings sent: the target's reply, the reply of a  *)
(* router in its place, and a request that looks like a reply.                *)
EchoWire ==
  UNION {{Datagram("target", "reply", Own, SeqOf(k), <<"ping", k>>),
          Datagram("router", "reply", Own, SeqOf(k), <<"impostor">>),
          Datagram("target", "request", Own, SeqOf(k), <<"impostor">>)}
         : k \in {j \in DOMAIN fate : fate[j] # "unsent"}}

(* matchEchoReply.  On a ping socket the kernel matches the identifier. *)
MatchEchoReply(d) ==
  d.type = "reply" /\ d.id = Own /\ d.seq = SeqOf(n) /\ d.from = "target"

-----------------------------------------------------------------------------
BatchInit ==
  /\ kind \in Kinds
  /\ stage = "off" /\ n = 0 /\ began = 0 /\ until = 0 /\ promised = 0 /\ cut = FALSE /\ base = 0
  /\ sent = 0 /\ lost = 0 /\ rtts = <<>>
  /\ fate = [k \in 0..(Pings - 1) |-> "unsent"]

(* Probe is called; http alone does not look at the context first.  The dead  *)
(* argument is whether the context is done by then.                           *)
BatchStart(dead) ==
  /\ stage' = IF kind = "http" THEN "ready"
              ELSE IF dead THEN "over"
              ELSE IF Echoing THEN "resolve" ELSE "ready"
  /\ n' = 0 /\ began' = 0 /\ until' = 0 /\ promised' = 0 /\ cut' = FALSE /\ base' = 0
  /\ sent' = 0 /\ lost' = 0 /\ rtts' = <<>>
  /\ fate' = [k \in 0..(Pings - 1) |-> "unsent"]
  /\ UNCHANGED kind

(* No address for the target: Probe returns nothing at all.  *)
ResolveFails ==
  /\ stage = "resolve"
  /\ stage' = "nil"
  /\ UNCHANGED <<kind, n, began, until, promised, cut, base, sent, lost, rtts, fate>>

(* The local socket fails: an empty Result. *)
ListenFails ==
  /\ stage = "resolve" /\ ~Done
  /\ stage' = "over"
  /\ UNCHANGED <<kind, n, began, until, promised, cut, base, sent, lost, rtts, fate>>

Listen ==
  /\ stage = "resolve" /\ ~Done
  /\ base' \in BaseSeqs
  /\ stage' = "ready"
  /\ UNCHANGED <<kind, n, began, until, promised, cut, sent, lost, rtts, fate>>

(* The read's deadline: the attempt's own or the cycle's. *)
ReadUntil(own) == AtMost(own, Interval)

(* The next attempt, unless the cycle is over or has no time left for it. *)
Attempt ==
  /\ stage = "ready"
  /\ IF Done \/ (Echoing /\ Budget(n) = 0)
     THEN stage' = "over" /\ UNCHANGED <<began, until, promised, cut, sent, fate>>
     ELSE /\ stage' = "wait"
          /\ began' = now
          /\ promised' = now + (IF Echoing THEN Budget(n) ELSE Timeout)
          /\ until' = ReadUntil(promised')
          /\ cut' = FALSE
          /\ sent' = sent + 1
          /\ fate' = [fate EXCEPT ![n] = "pending"]
  /\ UNCHANGED <<kind, n, base, lost, rtts>>

(* After an attempt: the gap, or the end of the batch. *)
Onward(dead) ==
  /\ IF n = Count - 1 \/ dead THEN stage' = "over" /\ until' = 0
     ELSE stage' = "gap" /\ until' = now + Spacing
  /\ began' = 0 /\ promised' = 0 /\ cut' = FALSE

Succeeds(as) ==
  /\ fate' = [fate EXCEPT ![n] = as]
  /\ rtts' = Append(rtts, now - began)
  /\ Onward(FALSE)
  /\ UNCHANGED <<kind, n, base, sent, lost>>

Loses(as) ==
  /\ fate' = [fate EXCEPT ![n] = as]
  /\ lost' = lost + 1
  /\ Onward(Done)
  /\ UNCHANGED <<kind, n, base, sent, rtts>>

(* A read returns one of the datagrams in the air. *)
Receive(wire) ==
  /\ stage = "wait" /\ Echoing
  /\ \E d \in wire :
       /\ MatchEchoReply(d)
       /\ Succeeds(IF d.about = <<"ping", n>> THEN "answered" ELSE "misread")

(* A connection. *)
Connect ==
  /\ stage = "wait" /\ kind = "tcp"
  /\ Succeeds("answered")

(* An answer of the resolver. *)
Lookup ==
  /\ stage = "wait" /\ kind = "dns"
  /\ Succeeds("answered")

(* A response within the status codes that count. *)
Respond ==
  /\ stage = "wait" /\ kind = "http"
  /\ Succeeds("answered")

(* The send or the read fails with an error of its own: a write refused by    *)
(* the kernel, a refused connection, a status outside 200 to 399.             *)
Refused ==
  /\ stage = "wait"
  /\ Loses("refused")

(* sendOne's AfterFunc, and what a dialer does itself: the context ends the   *)
(* read early.                                                                *)
Interrupt ==
  /\ stage = "wait" /\ Done /\ now < until
  /\ until' = now
  /\ cut' = (now < promised)
  /\ UNCHANGED <<kind, stage, n, began, promised, base, sent, lost, rtts, fate>>

(* The deadline a read ran into was the context's.  (A definition named X_Y   *)
(* is X with the mistake Y; no behaviour uses it.)                            *)
BlameContext_DeadlineOnly == Interval <= promised
BlameContext == Interval <= promised \/ cut

(* A read that ran into the context's end is taken back; icmp stops there.    *)
TimeOut ==
  /\ stage = "wait" /\ now >= until
  /\ IF Echoing /\ BlameContext
     THEN /\ sent' = sent - 1
          /\ fate' = [fate EXCEPT ![n] = "interrupted"]
          /\ stage' = "over" /\ began' = 0 /\ until' = 0 /\ promised' = 0 /\ cut' = FALSE
          /\ UNCHANGED <<kind, n, base, lost, rtts>>
     ELSE Loses(IF now >= promised THEN "silent" ELSE "interrupted")

(* The gap between two attempts, which the context ends as well. *)
Gap ==
  /\ stage = "gap"
  /\ IF now >= until THEN stage' = "ready" /\ n' = n + 1
     ELSE Done /\ stage' = "over" /\ UNCHANGED n
  /\ until' = 0
  /\ UNCHANGED <<kind, began, promised, cut, base, sent, lost, rtts, fate>>

(* The probe panics; Probe's deferred calls still run. *)
BatchPanics ==
  /\ stage = "ready"
  /\ stage' = "panicked"
  /\ UNCHANGED <<kind, n, began, until, promised, cut, base, sent, lost, rtts, fate>>

BatchStep(wire) ==
  \/ ResolveFails \/ ListenFails \/ Listen
  \/ Attempt \/ Receive(wire) \/ Connect \/ Lookup \/ Respond \/ Refused
  \/ Interrupt \/ TimeOut \/ Gap \/ BatchPanics

(* The batch has something to do at this very instant. *)
BatchDue ==
  \/ stage = "ready"
  \/ stage = "resolve" /\ Done
  \/ stage \in {"wait", "gap"} /\ (Done \/ now >= until)

Fates == {"unsent", "pending", "answered", "misread", "silent", "refused", "interrupted"}
WithFate(f) == {k \in DOMAIN fate : fate[k] \in f}

BatchTypeOK ==
  /\ kind \in Kinds
  /\ stage \in {"off", "resolve", "ready", "wait", "gap"} \cup Ended
  /\ n \in 0..(Pings - 1)
  /\ {began, until, promised} \subseteq Nat /\ cut \in BOOLEAN
  /\ base \in 0..(SeqSpace - 1)
  /\ sent \in 0..Pings /\ lost \in 0..Pings /\ rtts \in Seq(0..Interval)
  /\ fate \in [0..(Pings - 1) -> Fates]
=============================================================================
