---------------------------- MODULE AlertDelivery ----------------------------
(* From a committed transition to the operator: one shard of the evaluator's  *)
(* delivery queue (enqueueDispatch, deliverLoop, deliver and Close of         *)
(* internal/alert/evaluator.go) and the dispatcher it feeds                   *)
(* (internal/alert/dispatcher.go), whose webhook resolves wait out a grace    *)
(* period on goroutines of their own.                                         *)
(*                                                                            *)
(* A state is kept for each source of a (target, alert) pair, or one for all  *)
(* of them where the alert has a quorum.  Its transitions are its own, but    *)
(* shard, queue and pending resolves are those of the pair, the key: a firing *)
(* of any of its sources cancels the resolves of all.  Whether an alert has a *)
(* quorum does not change here (AlertEvaluator has that).                     *)
(*                                                                            *)
(* The producer holds e.mu over the transition and the offer: one action.     *)
(* The worker's steps, the goroutines', and the steps of the two Close calls  *)
(* interleave; d.pendingMu makes the reads and writes of `pending' atomic,    *)
(* the calls of cancel after its release are a later step.  An alert here has *)
(* one webhook action: discord, exec and log actions are sent in line and     *)
(* keep the queue's order.  Time is abstract: a grace period ends at any      *)
(* moment, a POST takes any time up to its timeout.                           *)
EXTENDS Integers, Sequences, FiniteSets

CONSTANTS
  Keys,        \* the (target, alert) pairs of the shard
  Origins,     \* the sources, and all of them together under a quorum
  States,      \* the states kept: for which key, and for which origin
  Sizes,       \* what an event's payload and actions may weigh
  ShardDepth,  \* dispatchShardDepth
  ShardBytes,  \* dispatchShardBytes
  MaxEvents    \* bound: transitions committed

ASSUME DeliveryAssumption ==
  /\ States \subseteq Keys \X Origins
  /\ Sizes \subseteq Nat \ {0}
  /\ ShardDepth \in Nat \ {0}
  /\ ShardBytes \in Nat
  /\ MaxEvents \in Nat

VARIABLES
  committed,    \* the last transition of each state
  events,       \* transitions committed so far
  pending,      \* the shard's channel
  queuedBytes,  \* the bytes reserved
  worker,       \* what the worker is doing: see Take, Leave
  inHand,       \* the event the worker delivers
  cancels,      \* resolves the worker took off the map and has yet to cancel
  closed, quit, \* Evaluator.Close
  resolves,     \* the goroutines of delayWebhook, by event
  listed,       \* d.pending: the resolves that can be found
  dClosed,      \* ActionDispatcher.closed
  dCancels,     \* resolves ActionDispatcher.Close has yet to cancel
  posted,       \* the last transition of each state that a POST was begun for
  paged,        \* per key the last firing a POST was begun for
  panicked      \* keys a dispatch panicked for

kept       == <<committed, events>>
queue      == <<pending, queuedBytes>>
dispatcher == <<resolves, listed, dClosed, dCancels>>
outside    == <<posted, paged, panicked>>

shardVars == <<kept, queue, worker, inHand, cancels, closed, quit, dispatcher, outside>>

Ids == 1..MaxEvents

KeyOf(s) == s[1]

(* What a state was last moved to, and by which transition. *)
Told == [id : 0..MaxEvents, next : {"OK", "FIRING"}]

Untold == [id |-> 0, next |-> "OK"]

Event == [of : States, id : Ids, next : {"OK", "FIRING"}, bytes : Sizes]

NoEvent == [id |-> 0, bytes |-> 0]

-----------------------------------------------------------------------------
ShardInit ==
  /\ committed = [s \in States |-> Untold] /\ events = 0
  /\ pending = <<>> /\ queuedBytes = 0
  /\ worker = "idle" /\ inHand = NoEvent /\ cancels = {}
  /\ closed = FALSE /\ quit = FALSE
  /\ resolves = <<>> /\ listed = {} /\ dClosed = FALSE /\ dCancels = {}
  /\ posted = [s \in States |-> Untold] /\ paged = [k \in Keys |-> 0]
  /\ panicked = {}

(* enqueueDispatch: the byte ceiling, except for an event that is the whole   *)
(* backlog, and the depth.  A refused transition is taken back by the caller, *)
(* so nothing changes.                                                        *)
Takes(bytes) ==
  /\ queuedBytes + bytes <= ShardBytes \/ queuedBytes = 0
  /\ Len(pending) < ShardDepth

Transition(s, bytes) ==
  /\ ~closed
  /\ events < MaxEvents
  /\ Takes(bytes)
  /\ events' = events + 1
  /\ LET next == IF committed[s].next = "OK" THEN "FIRING" ELSE "OK"
     IN  /\ committed' = [committed EXCEPT ![s] = [id |-> events', next |-> next]]
         /\ pending' = Append(pending, [of |-> s, id |-> events', next |-> next, bytes |-> bytes])
  /\ queuedBytes' = queuedBytes + bytes
  /\ UNCHANGED <<worker, inHand, cancels, closed, quit, dispatcher, outside>>

(* PruneDeparted: the config no longer names the pair, whose states go        *)
(* untold.  An edit may bring it back.                                        *)
Depart(k) ==
  /\ committed' = [s \in States |-> IF KeyOf(s) = k THEN Untold ELSE committed[s]]
  /\ UNCHANGED <<events, queue, worker, inHand, cancels, closed, quit, dispatcher, outside>>

(* Evaluator.Close sets closed under e.mu and then closes quit. *)
Close ==
  /\ ~closed
  /\ closed' = TRUE
  /\ UNCHANGED <<kept, queue, worker, inHand, cancels, quit, dispatcher, outside>>

CloseQuit ==
  /\ closed /\ ~quit
  /\ quit' = TRUE
  /\ UNCHANGED <<kept, queue, worker, inHand, cancels, closed, dispatcher, outside>>

-----------------------------------------------------------------------------
(* deliverLoop takes an event, or, quit being closed, leaves: which of the    *)
(* two, when both are ready, is open.                                         *)
Take ==
  /\ worker = "idle"
  /\ pending # <<>>
  /\ inHand' = Head(pending)
  /\ pending' = Tail(pending)
  /\ worker' = IF inHand'.next = "FIRING" THEN "cancel" ELSE "dispatch"
  /\ UNCHANGED <<kept, queuedBytes, cancels, closed, quit, dispatcher, outside>>

Leave ==
  /\ worker = "idle"
  /\ quit
  /\ worker' = "draining"
  /\ UNCHANGED <<kept, queue, inHand, cancels, closed, quit, dispatcher, outside>>

(* (A definition named X_Y is X with the mistake Y; no behaviour uses it.)    *)
Drain_AtOnce ==
  /\ worker = "draining"
  /\ worker' = "gone"
  /\ UNCHANGED <<kept, queue, inHand, cancels, closed, quit, dispatcher, outside>>

Drain ==
  /\ worker = "draining"
  /\ IF pending = <<>>
     THEN worker' = "gone" /\ UNCHANGED queue
     ELSE /\ queuedBytes' = queuedBytes - Head(pending).bytes
          /\ pending' = Tail(pending)
          /\ UNCHANGED worker
  /\ UNCHANGED <<kept, inHand, cancels, closed, quit, dispatcher, outside>>

(* DispatchActions of a firing: cancelPending takes the key's resolves off    *)
(* the map and, after the unlock, cancels them.                               *)
OfKey(k) == {i \in listed : KeyOf(resolves[i].of) = k}

CancelPending ==
  /\ worker = "cancel"
  /\ cancels' = OfKey(KeyOf(inHand.of))
  /\ listed' = listed \ OfKey(KeyOf(inHand.of))
  /\ worker' = "cancelling"
  /\ UNCHANGED <<kept, queue, inHand, closed, quit, resolves, dClosed, dCancels, outside>>

Cancelled(S) ==
  [i \in DOMAIN resolves |->
     IF i \in S THEN [resolves[i] EXCEPT !.cancelled = TRUE] ELSE resolves[i]]

Cancels ==
  /\ worker = "cancelling"
  /\ resolves' = Cancelled(cancels) /\ cancels' = {}
  /\ worker' = "dispatch"
  /\ UNCHANGED <<kept, queue, inHand, closed, quit, listed, dClosed, dCancels, outside>>

(* The webhook of a firing is sent in line. *)
PostFiring ==
  /\ worker = "dispatch" /\ inHand.next = "FIRING"
  /\ posted' = [posted EXCEPT ![inHand.of] = [id |-> inHand.id, next |-> "FIRING"]]
  /\ paged' = [paged EXCEPT ![KeyOf(inHand.of)] = inHand.id]
  /\ worker' = "posting"
  /\ UNCHANGED <<kept, queue, inHand, cancels, closed, quit, dispatcher, panicked>>

(* That of a resolve is left to a goroutine, unless the dispatcher is closed. *)
DelayWebhook ==
  /\ worker = "dispatch" /\ inHand.next = "OK"
  /\ IF dClosed THEN UNCHANGED <<resolves, listed>>
     ELSE /\ resolves' = [i \in DOMAIN resolves \cup {inHand.id} |->
               IF i = inHand.id
               THEN [of |-> inHand.of, stage |-> "waiting", cancelled |-> FALSE]
               ELSE resolves[i]]
          /\ listed' = listed \cup {inHand.id}
  /\ worker' = "posting"
  /\ UNCHANGED <<kept, queue, inHand, cancels, closed, quit, dClosed, dCancels, outside>>

(* A template or an action panics, after the cancellations; deliver recovers. *)
Panic ==
  /\ worker = "dispatch"
  /\ panicked' = panicked \cup {KeyOf(inHand.of)}
  /\ worker' = "posting"
  /\ UNCHANGED <<kept, queue, inHand, cancels, closed, quit, dispatcher, posted, paged>>

(* deliver returns and gives the bytes back. *)
Delivered_KeepsBytes ==
  /\ worker = "posting"
  /\ inHand' = NoEvent
  /\ worker' = "idle"
  /\ UNCHANGED <<kept, queue, cancels, closed, quit, dispatcher, outside>>

Delivered ==
  /\ worker = "posting"
  /\ queuedBytes' = queuedBytes - inHand.bytes
  /\ inHand' = NoEvent
  /\ worker' = "idle"
  /\ UNCHANGED <<kept, pending, cancels, closed, quit, dispatcher, outside>>

-----------------------------------------------------------------------------
(* The goroutine of one delayed resolve.  When the timer and the cancellation *)
(* are both ready the select may take the timer, but the POST's context is    *)
(* made from the cancelled one, so none is begun.                             *)
Moved(i, stage) == [resolves EXCEPT ![i].stage = stage]

GraceEnds_Detached(i) ==
  /\ resolves[i].stage = "waiting"
  /\ posted' = [posted EXCEPT ![resolves[i].of] = [id |-> i, next |-> "OK"]]
  /\ resolves' = Moved(i, "posting")
  /\ UNCHANGED <<kept, queue, worker, inHand, cancels, closed, quit,
                 listed, dClosed, dCancels, paged, panicked>>

GraceEnds(i) ==
  /\ resolves[i].stage = "waiting"
  /\ IF resolves[i].cancelled
     THEN resolves' = Moved(i, "leaving") /\ UNCHANGED posted
     ELSE /\ posted' = [posted EXCEPT ![resolves[i].of] = [id |-> i, next |-> "OK"]]
          /\ resolves' = Moved(i, "posting")
  /\ UNCHANGED <<kept, queue, worker, inHand, cancels, closed, quit,
                 listed, dClosed, dCancels, paged, panicked>>

ResolvePosted(i) ==
  /\ resolves[i].stage = "posting"
  /\ resolves' = Moved(i, "leaving")
  /\ UNCHANGED <<kept, queue, worker, inHand, cancels, closed, quit,
                 listed, dClosed, dCancels, outside>>

RemovePending(i) ==
  /\ resolves[i].stage = "leaving"
  /\ listed' = listed \ {i}
  /\ resolves' = [j \in DOMAIN resolves \ {i} |-> resolves[j]]
  /\ UNCHANGED <<kept, queue, worker, inHand, cancels, closed, quit,
                 dClosed, dCancels, outside>>

(* ActionDispatcher.Close. *)
DispatcherClose ==
  /\ quit /\ ~dClosed
  /\ dClosed' = TRUE
  /\ dCancels' = listed /\ listed' = {}
  /\ UNCHANGED <<kept, queue, worker, inHand, cancels, closed, quit, resolves, outside>>

DispatcherCancels ==
  /\ dCancels # {}
  /\ resolves' = Cancelled(dCancels) /\ dCancels' = {}
  /\ UNCHANGED <<kept, queue, worker, inHand, cancels, closed, quit, listed, dClosed, outside>>

Worker ==
  \/ Take \/ Leave \/ Drain
  \/ CancelPending \/ Cancels \/ PostFiring \/ DelayWebhook \/ Delivered

Resolve(i) == GraceEnds(i) \/ ResolvePosted(i) \/ RemovePending(i)

ShardNext ==
  \/ \E s \in States, bytes \in Sizes : Transition(s, bytes)
  \/ \E k \in Keys : Depart(k)
  \/ Close \/ CloseQuit \/ DispatcherClose \/ DispatcherCancels
  \/ Worker \/ Panic
  \/ \E i \in DOMAIN resolves : Resolve(i)

(* The worker and the goroutines run: every POST and every grace period ends. *)
Fairness ==
  /\ WF_shardVars(Worker)
  /\ WF_shardVars(DispatcherCancels)
  /\ \A i \in Ids : WF_shardVars(i \in DOMAIN resolves /\ Resolve(i))

ShardSpec == ShardInit /\ [][ShardNext]_shardVars /\ Fairness

-----------------------------------------------------------------------------
(* The type of every variable. *)
ShardTypeOK ==
  /\ committed \in [States -> Told] /\ events \in 0..MaxEvents
  /\ pending \in Seq(Event) /\ Len(pending) <= ShardDepth
  /\ queuedBytes \in Nat
  /\ worker \in {"idle", "cancel", "cancelling", "dispatch", "posting", "draining", "gone"}
  /\ inHand \in Event \cup {NoEvent}
  /\ inHand = NoEvent <=> worker \in {"idle", "draining", "gone"}
  /\ closed \in BOOLEAN /\ quit \in BOOLEAN /\ dClosed \in BOOLEAN
  /\ DOMAIN resolves \subseteq Ids
  /\ \A i \in DOMAIN resolves :
       resolves[i] \in [of : States, stage : {"waiting", "posting", "leaving"},
                        cancelled : BOOLEAN]
  /\ listed \subseteq DOMAIN resolves /\ cancels \cup dCancels \subseteq Ids
  /\ posted \in [States -> Told] /\ paged \in [Keys -> 0..MaxEvents]
  /\ panicked \subseteq Keys

(* An idle shard takes any event, however large: without that an alert whose  *)
(* snapshot outweighs the ceiling is refused, taken back and found again for  *)
(* ever.  It needs every way an event leaves to give back what it reserved    *)
(* (enqueueDispatch, lines 722 to 735, deliver, deliverLoop).                 *)
IdleShardTakesAny ==
  worker = "idle" /\ pending = <<>> => \A bytes \in Sizes : Takes(bytes)

(* No event is left behind a worker that is gone: it would be committed,      *)
(* undelivered and never found again (Close, lines 417 to 421).               *)
NothingBehindTheWorker ==
  worker = "gone" => pending = <<>> /\ queuedBytes = 0

(* The notifications of a state begin in the order of its transitions.  Those *)
(* of a key keep the order too where a firing is concerned: none is begun     *)
(* after a later one, and once it was no resolve of an earlier outage is,     *)
(* whosever it was and though its timer may have just gone off                *)
(* (cancelPending, delayWebhook).  Two resolves of different sources wait     *)
(* side by side and may change places.  Only Close, between the unlock and    *)
(* its calls of cancel, holds resolves a firing cannot find.                  *)
Begins(s) == posted'[s] # posted[s]

PostedInOrder ==
  [][dCancels = {} => \A s \in States : Begins(s) =>
       /\ posted'[s].id > posted[s].id
       /\ posted'[s].id > paged[KeyOf(s)]
       /\ posted'[s].next = "FIRING" =>
            \A q \in States : KeyOf(q) = KeyOf(s) => posted'[s].id > posted[q].id]_shardVars

Rest == worker = "idle" /\ pending = <<>> /\ resolves = <<>>

(* When nothing is left to do, what the evaluator keeps of a state was told:  *)
(* of one that fires always, however often it flapped within a grace period;  *)
(* of one that recovered unless a later firing of the key was, whose          *)
(* cancellation a resolve of another source does not survive.  Excepted are a *)
(* process that is going down, a dispatch that panicked and a pair that left  *)
(* the config.                                                                *)
OperatorKnows ==
  Rest /\ ~closed =>
    \A s \in States : committed[s] # Untold /\ KeyOf(s) \notin panicked =>
      \/ posted[s] = committed[s]
      \/ committed[s].next = "OK" /\ paged[KeyOf(s)] > committed[s].id

(* The shard's queue is sound: inside its bounds, open to any event when      *)
(* idle, empty behind its worker, and at rest nothing is left untold.         *)
ShardInv == ShardTypeOK /\ IdleShardTakesAny /\ NothingBehindTheWorker /\ OperatorKnows

(* Everything that was committed gets through: the queue empties and no       *)
(* goroutine stays, whatever panics or is closed.                             *)
Drains == <>[](pending = <<>> /\ inHand = NoEvent /\ resolves = <<>>)
=============================================================================
