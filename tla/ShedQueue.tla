------------------------------ MODULE ShedQueue ------------------------------
(* What the slave's push buffer promises, with no bytes, no ring and no       *)
(* strip index (internal/cluster/slave/pushsink.go, lines 32 to 49): cycles   *)
(* leave in the order they were measured, a batch that could not be pushed    *)
(* goes back in front of everything newer, and space is made first by         *)
(* shedding the hop rows of the oldest cycle that still has some; a           *)
(* measurement is lost only when no queued cycle has hop rows left.           *)
EXTENDS Integers, Sequences

CONSTANT Payload   \* the cycles that may be queued: records with a field hops

VARIABLES
  queue,           \* the buffered cycles, oldest first
  outside          \* the batch drained and not yet acknowledged or put back

vars == <<queue, outside>>

Hopless(q) == \A i \in 1..Len(q) : q[i].hops = 0

Init == queue = <<>> /\ outside = <<>>

(* One cycle joins at the back. *)
Join == /\ Len(queue') = Len(queue) + 1
        /\ queue'[Len(queue')] \in Payload
        /\ queue' = Append(queue, queue'[Len(queue')])
        /\ UNCHANGED outside

(* The oldest cycle with hop rows loses them, and nothing else. *)
Strip == /\ \E i \in 1..Len(queue) :
              /\ queue[i].hops > 0
              /\ \A j \in 1..(i - 1) : queue[j].hops = 0
              /\ queue' = [queue EXCEPT ![i].hops = 0]
         /\ UNCHANGED outside

(* A cycle is lost from one end, and only from a queue without hop rows. *)
Lose == /\ queue # <<>>
        /\ Hopless(queue)
        /\ \/ queue' = Tail(queue)
           \/ queue' = SubSeq(queue, 1, Len(queue) - 1)
        /\ UNCHANGED outside

(* What a batch may look like once drained: the same cycles in the same       *)
(* order, some of them with their hop rows withheld.                          *)
Withheld(out, batch) ==
  /\ Len(out) = Len(batch)
  /\ \A i \in 1..Len(batch) :
        out[i] = batch[i] \/ out[i] = [batch[i] EXCEPT !.hops = 0]

(* The oldest n cycles leave together. *)
Take == /\ outside = <<>>
        /\ \E n \in 1..Len(queue) :
              /\ outside' \in Seq(Payload)
              /\ Withheld(outside', SubSeq(queue, 1, n))
              /\ queue' = SubSeq(queue, n + 1, Len(queue))

(* The batch is acknowledged, or given up: it never comes back. *)
Settle == /\ outside # <<>>
          /\ outside' = <<>>
          /\ UNCHANGED queue

(* The batch goes back in front. *)
Return == /\ outside # <<>>
          /\ queue' = outside \o queue
          /\ outside' = <<>>

Next == Join \/ Strip \/ Lose \/ Take \/ Settle \/ Return

Spec == Init /\ [][Next]_vars
=============================================================================
