------------------------------ MODULE PushRing ------------------------------
(* The push buffer down to its backing array: the slots of buf, head, size    *)
(* and the modulo arithmetic between them (pushsink.go, lines 53 to 57, 129   *)
(* to 218 and 330 to 417).  ring and capacity, which PushSink moves, are here *)
(* what a reader sees through at() and len(buf) after each step: history of   *)
(* the array, which no guard of an array step would miss.                     *)
EXTENDS PushSink

VARIABLES
  buf,       \* the backing array: slot number |-> payload or Empty
  head,      \* the slot of the oldest entry
  size       \* how many entries are live

array == <<buf, head, size>>
ringVars == <<array, vars>>

(* The zero CyclePayload a freed slot is overwritten with. *)
Empty == [seq |-> 0]

Slots == Len(buf)

(* at(i): the entry at logical offset i; buf[s + 1] is slot s. *)
SlotOf(i) == (head + i) % Slots
At(i) == buf[SlotOf(i) + 1]

(* What the step leaves to be seen. *)
View == [i \in 1..size |-> At(i - 1)]
Seen == ring' = View' /\ capacity' = Slots'

others == <<hopMarkers, mode, incoming, arriving, inflight, cycles, settled>>

-----------------------------------------------------------------------------
(* resize: the live entries re-linearised from slot 0 of a new array. *)
(* (A definition named X_Y is X with the mistake Y; no behaviour uses it.)    *)
Resized_SlotOrder(entries) == [s \in 1..entries |-> IF s <= Slots THEN buf[s] ELSE Empty]
Resized(entries) == [s \in 1..entries |-> IF s <= size THEN At(s - 1) ELSE Empty]

(* growFor: the array and head once n more entries fit. *)
Grown(n) ==
  LET entries == EntriesFor(Slots, size + n)
  IN  IF entries = Slots THEN [buf |-> buf, head |-> head]
      ELSE [buf |-> Resized(entries), head |-> 0]

(* Where head ends after walking back n slots of an array. *)
Front(h, n, slots) == (h + slots - n) % slots

(* The array with its first n entries zeroed. *)
Cleared_Kept(n) == buf
Cleared(n) ==
  [s \in 1..Slots |-> IF \E i \in 0..(n - 1) : SlotOf(i) = s - 1 THEN Empty ELSE buf[s]]

RingInit ==
  /\ Init
  /\ buf = [s \in 1..InitialEntries |-> Empty] /\ head = 0 /\ size = 0

(* What touches no slot is the sink's own step. *)
Outside ==
  /\ UNCHANGED array
  /\ \/ \E ok \in BOOLEAN : SetHopMarkers(ok)
     \/ \E t \in Targets : Measure(t) \/ LockForCycle(t)
     \/ LockForRequeue
     \/ SettleBatch

StripSlot ==
  /\ MakingRoom
  /\ \E i \in Carrying :
       /\ \A j \in Carrying : i <= j
       /\ buf' = [buf EXCEPT ![SlotOf(i - 1) + 1].hops = 0]
       /\ heap' = heap - At(i - 1).hops
       /\ stripIdx' = i
  /\ stripped' = stripped + 1
  /\ UNCHANGED <<head, size, dropped, others>>
  /\ Seen

DropHead ==
  /\ MakingRoom
  /\ mode = "cycle" /\ Carrying = {}
  /\ heap' = heap - PayloadHeapBytes(At(0))
  /\ buf' = [buf EXCEPT ![head + 1] = Empty]
  /\ head' = SlotOf(1)
  /\ size' = size - 1
  /\ stripIdx' = IndexAfterDropOldest
  /\ dropped' = dropped + 1
  /\ UNCHANGED <<stripped, others>>
  /\ Seen

DropTail ==
  /\ MakingRoom
  /\ mode = "requeue" /\ Carrying = {}
  /\ heap' = heap - PayloadHeapBytes(At(size - 1))
  /\ buf' = [buf EXCEPT ![SlotOf(size - 1) + 1] = Empty]
  /\ size' = size - 1
  /\ stripIdx' = WalkedPast
  /\ dropped' = dropped + 1
  /\ UNCHANGED <<head, stripped, others>>
  /\ Seen

(* growFor(1), then one write past the newest entry. *)
AppendCycle ==
  /\ mode = "cycle" /\ RoomMade
  /\ LET g == Grown(1)
     IN  /\ buf' = [g.buf EXCEPT ![((g.head + size) % Len(g.buf)) + 1] = incoming[1]]
         /\ head' = g.head
  /\ size' = size + 1
  /\ heap' = heap + HeapBytes(incoming)
  /\ mode' = "free" /\ incoming' = <<>>
  /\ UNCHANGED <<stripIdx, dropped, stripped, hopMarkers, arriving, inflight, cycles, settled>>
  /\ Seen

(* growFor(n), then head walks back one slot per payload of the batch. *)
PrependBatch ==
  /\ mode = "requeue" /\ RoomMade
  /\ LET g     == Grown(Len(incoming))
         slots == Len(g.buf)
         front == Front(g.head, Len(incoming), slots)
         place(k) == ((front + k - 1) % slots) + 1
     IN  /\ buf' = [s \in 1..slots |->
                      IF \E k \in 1..Len(incoming) : place(k) = s
                      THEN incoming[CHOOSE k \in 1..Len(incoming) : place(k) = s]
                      ELSE g.buf[s]]
         /\ head' = front
  /\ size' = size + Len(incoming)
  /\ heap' = heap + HeapBytes(incoming)
  /\ stripIdx' = IndexAfterRequeue
  /\ mode' = "free" /\ incoming' = <<>>
  /\ UNCHANGED <<dropped, stripped, hopMarkers, arriving, inflight, cycles, settled>>
  /\ Seen

(* The first n entries are copied out and their slots cleared; then shrinkIfIdle. *)
DrainSlots ==
  /\ mode = "free" /\ inflight = <<>> /\ size > 0
  /\ LET n       == IF BatchLimit < size THEN BatchLimit ELSE size
         batch   == [i \in 1..n |-> At(i - 1)]
         entries == ShrunkFor(size - n)
     IN  /\ inflight' = HandedOut(batch)
         /\ heap' = heap - Released(batch)
         /\ size' = size - n
         /\ stripIdx' = IndexAfterDrain(n)
         /\ IF entries < Slots
            THEN /\ buf' = [s \in 1..entries |-> IF s <= size - n THEN At(n + s - 1) ELSE Empty]
                 /\ head' = 0
            ELSE /\ buf' = Cleared(n)
                 /\ head' = SlotOf(n)
  /\ UNCHANGED <<dropped, stripped, hopMarkers, mode, incoming, arriving, cycles, settled>>
  /\ Seen

UnderArrayLock == StripSlot \/ DropHead \/ DropTail \/ AppendCycle \/ PrependBatch

RingNext == Outside \/ UnderArrayLock \/ DrainSlots

RingSpec == RingInit /\ [][RingNext]_ringVars /\ WF_ringVars(UnderArrayLock)

-----------------------------------------------------------------------------
(* Types: the array is never empty and head stays inside it. *)
ArrayTypeOK ==
  /\ buf \in Seq(Payload \cup {Empty})
  /\ Slots > 0
  /\ head \in 0..(Slots - 1)
  /\ size \in 0..Slots

(* Every slot outside the live window is cleared, so the array keeps no       *)
(* payload alive that heap no longer counts (lines 173, 349, 414).            *)
DeadSlotsCleared ==
  \A s \in 0..(Slots - 1) :
    buf[s + 1] = Empty <=> \A i \in 0..(size - 1) : SlotOf(i) # s

(* The array and its bounds: what at() reads is inside them, what is outside  *)
(* the live window holds nothing.                                             *)
ArrayInv == ArrayTypeOK /\ DeadSlotsCleared

(* Whatever wraps, grows, shrinks or walks backwards, the array read through  *)
(* at() makes exactly the steps of the logical buffer.                        *)
ImplementsPushSink == Init /\ [][Next]_vars
=============================================================================
