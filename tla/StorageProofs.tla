---------------------------- MODULE StorageProofs ----------------------------
(* Proofs about the two ends of the store, which share no variable: RowWriter *)
(* and then QueryCache.  For any producers, sizes and number of failures: the *)
(* types, what may wait in memory, that every row is accounted for, and that  *)
(* the rows of a producer are stored in its order.  For any keys, callers and *)
(* ceilings: who runs a query and who waits for it, and that no answer is     *)
(* older than one already given.                                              *)
EXTENDS RowWriter, QueryCache, FiniteSetTheorems, SequenceTheorems, TLAPS

(* The accounting of the writer needs that an offer in progress is one row,   *)
(* and the order needs that the server's rows, the batch and the channel form *)
(* one line.                                                                  *)

(* A row that is being offered has a number. *)
OffersNumbered == \A p \in Producers : offering[p] # "idle" => offered[p] >= 1

(* A batch that is full is flushed before the select is entered again, unless *)
(* flushes fail.                                                              *)
SelectHasRoom == flusher = "select" /\ ~failing => Len(pending) < MaxRows

(* runTable leaves its select only behind Close. *)
DrainsAfterClose ==
  /\ cancelled => closed
  /\ flusher \notin {"select", "flush"} => cancelled

(* From the last flush on the channel takes only rows already on their way. *)
OnTheirWay ==
  flusher \in {"final", "done"} => Len(rows) + Cardinality(Offering) <= Cardinality(Producers)

(* One line: the server's rows, the batch, the channel. *)
Ordered(s) ==
  \A i, j \in 1..Len(s) : i < j /\ s[i].from = s[j].from => s[i].n < s[j].n

Ahead(s, t) ==
  \A i \in 1..Len(s), j \in 1..Len(t) : s[i].from = t[j].from => s[i].n < t[j].n

Line(s, b, c) ==
  /\ Ordered(s) /\ Ordered(b) /\ Ordered(c)
  /\ Ahead(s, b) /\ Ahead(s, c) /\ Ahead(b, c)

InLine == ~repeated => Line(stored, pending, rows)

(* The rows a producer is done with, and that no row in the line is another.  *)
Taken(p) == IF offering[p] = "idle" THEN offered[p] ELSE offered[p] - 1

Numbered(s) == \A i \in 1..Len(s) : s[i].n <= Taken(s[i].from)

AllNumbered == Numbered(stored) /\ Numbered(pending) /\ Numbered(rows)

BegunFinite == IsFiniteSet(Begun)

IInv ==
  /\ TypeOK /\ OffersNumbered
  /\ SelectHasRoom /\ BacklogInChannel
  /\ NewestLostToRival
  /\ DrainsAfterClose /\ OnTheirWay
  /\ BegunFinite /\ EveryRowAccounted
  /\ AllNumbered /\ InLine

-----------------------------------------------------------------------------
(* Sequences.                                                                 *)

IsSuffix(t, s) ==
  \E k \in Nat : Len(t) + k = Len(s) /\ \A i \in 1..Len(t) : t[i] = s[i + k]

(* What a failed flush keeps is the end of the batch. *)
LEMMA RetainedFacts ==
  ASSUME NEW batch \in Seq(Row)
  PROVE  /\ Retained(batch) \in Seq(Row)
         /\ Len(Retained(batch)) \in 0..Len(batch)
         /\ IsSuffix(Retained(batch), batch)
<1> DEFINE bound == MaxRows * RetainFactor
           over  == Len(batch) - bound
<1>1. bound \in Nat BY WriterAssumption
<1>2. Len(batch) \in Nat OBVIOUS
<1>3. Retained(batch) = IF over > 0 THEN SubSeq(batch, over + 1, Len(batch)) ELSE batch
  BY DEF Retained
<1> HIDE DEF bound
<1>4. CASE over > 0
  <2>1. \A i \in (over + 1)..Len(batch) : batch[i] \in Row BY <1>1, <1>2, <1>4
  <2>2. over + 1 \in Int /\ Len(batch) \in Int BY <1>1, <1>2
  <2> DEFINE kept == SubSeq(batch, over + 1, Len(batch))
  <2>3. /\ kept \in Seq(Row)
        /\ Len(kept) = IF over + 1 <= Len(batch) THEN Len(batch) - (over + 1) + 1 ELSE 0
        /\ \A i \in 1..(Len(batch) - (over + 1) + 1) : kept[i] = batch[(over + 1) + i - 1]
    BY <2>1, <2>2, SubSeqProperties
  <2> HIDE DEF kept
  <2>4. Len(kept) + over = Len(batch) BY <2>3, <1>1, <1>2, <1>4
  <2>5. \A i \in 1..Len(kept) : kept[i] = batch[i + over]
    BY <2>3, <2>4, <1>1, <1>2, <1>4
  <2>6. over \in Nat BY <1>1, <1>2, <1>4
  <2>7. Retained(batch) = kept BY <1>3, <1>4 DEF kept
  <2>8. IsSuffix(kept, batch) BY <2>4, <2>5, <2>6 DEF IsSuffix
  <2>9. Len(kept) \in 0..Len(batch) BY <2>3, <2>4, <2>6, <1>2
  <2> QED BY <2>3, <2>7, <2>8, <2>9
<1>5. CASE ~(over > 0)
  <2>1. Retained(batch) = batch BY <1>3, <1>5
  <2>2. IsSuffix(batch, batch) BY <1>2 DEF IsSuffix
  <2> QED BY <2>1, <2>2, <1>2
<1> QED BY <1>4, <1>5

(* Taking the first element off leaves the end of a sequence. *)
LEMMA TailIsSuffix ==
  ASSUME NEW s \in Seq(Row), s # <<>>
  PROVE  /\ Tail(s) \in Seq(Row) /\ Head(s) \in Row /\ Head(s) = s[1]
         /\ Len(Tail(s)) = Len(s) - 1 /\ Len(s) >= 1
         /\ IsSuffix(Tail(s), s)
<1>1. /\ Tail(s) \in Seq(Row) /\ Head(s) \in Row
      /\ Len(Tail(s)) = Len(s) - 1
      /\ \A i \in 1..Len(Tail(s)) : Tail(s)[i] = s[i + 1]
  BY HeadTailProperties
<1>2. Len(s) \in Nat \ {0} BY EmptySeq
<1>3. Head(s) = s[1] BY <1>2
<1>4. IsSuffix(Tail(s), s) BY <1>1, <1>2 DEF IsSuffix
<1> QED BY <1>1, <1>2, <1>3, <1>4

(* Rows stay in line when the line loses rows at the front of a part ...      *)
LEMMA SuffixOrder ==
  ASSUME NEW s \in Seq(Row), NEW t \in Seq(Row), IsSuffix(t, s), NEW u \in Seq(Row)
  PROVE  /\ Ordered(s) => Ordered(t)
         /\ Ahead(s, u) => Ahead(t, u)
         /\ Ahead(u, s) => Ahead(u, t)
         /\ Numbered(s) => Numbered(t)
<1>1. PICK k \in Nat : Len(t) + k = Len(s) /\ \A i \in 1..Len(t) : t[i] = s[i + k]
  BY DEF IsSuffix
<1>2. Len(s) \in Nat /\ Len(t) \in Nat /\ Len(u) \in Nat OBVIOUS
<1>3. \A i \in 1..Len(t) : i + k \in 1..Len(s) BY <1>1, <1>2
<1>4. Ordered(s) => Ordered(t)
  <2> SUFFICES ASSUME Ordered(s), NEW i \in 1..Len(t), NEW j \in 1..Len(t), i < j,
                      t[i].from = t[j].from
               PROVE  t[i].n < t[j].n
    BY DEF Ordered
  <2>1. t[i] = s[i + k] /\ t[j] = s[j + k] BY <1>1
  <2>2. i + k < j + k /\ i + k \in 1..Len(s) /\ j + k \in 1..Len(s) BY <1>2, <1>3
  <2> QED BY <2>1, <2>2 DEF Ordered
<1>5. Ahead(s, u) => Ahead(t, u) BY <1>1, <1>3 DEF Ahead
<1>6. Ahead(u, s) => Ahead(u, t) BY <1>1, <1>3 DEF Ahead
<1>7. Numbered(s) => Numbered(t) BY <1>1, <1>3 DEF Numbered
<1> QED BY <1>4, <1>5, <1>6, <1>7

(* ... or takes a row behind all rows of its producer ...                     *)
LEMMA AppendOrder ==
  ASSUME NEW s \in Seq(Row), NEW r \in Row, NEW u \in Seq(Row),
         \A i \in 1..Len(s) : s[i].from = r.from => s[i].n < r.n
  PROVE  /\ Ordered(s) => Ordered(Append(s, r))
         /\ Ahead(u, s) /\ (\A i \in 1..Len(u) : u[i].from = r.from => u[i].n < r.n)
              => Ahead(u, Append(s, r))
         /\ Ahead(s, u) /\ (\A i \in 1..Len(u) : u[i].from = r.from => r.n < u[i].n)
              => Ahead(Append(s, r), u)
<1> DEFINE t == Append(s, r)
<1>1. Len(s) \in Nat OBVIOUS
<1>2. /\ Len(t) = Len(s) + 1 /\ t[Len(s) + 1] = r
      /\ \A i \in 1..Len(s) : t[i] = s[i]
  OBVIOUS
<1> HIDE DEF t
<1>3. \A i \in 1..Len(t) : i \in 1..Len(s) \/ i = Len(s) + 1 BY <1>1, <1>2
<1>4. Ordered(s) => Ordered(t)
  <2> SUFFICES ASSUME Ordered(s), NEW i \in 1..Len(t), NEW j \in 1..Len(t), i < j,
                      t[i].from = t[j].from
               PROVE  t[i].n < t[j].n
    BY DEF Ordered
  <2>1. i \in 1..Len(s) BY <1>1, <1>2
  <2>2. CASE j \in 1..Len(s) BY <2>1, <2>2, <1>2 DEF Ordered
  <2>3. CASE j = Len(s) + 1 BY <2>1, <2>3, <1>2
  <2> QED BY <1>3, <2>2, <2>3
<1>5. ASSUME Ahead(u, s), \A i \in 1..Len(u) : u[i].from = r.from => u[i].n < r.n
      PROVE  Ahead(u, t)
  BY <1>2, <1>3, <1>5 DEF Ahead
<1>6. ASSUME Ahead(s, u), \A i \in 1..Len(u) : u[i].from = r.from => r.n < u[i].n
      PROVE  Ahead(t, u)
  BY <1>2, <1>3, <1>6 DEF Ahead
<1> QED BY <1>4, <1>5, <1>6 DEF t

(* ... or joins the part before it.                                           *)
LEMMA ConcatOrder ==
  ASSUME NEW s \in Seq(Row), NEW t \in Seq(Row), NEW u \in Seq(Row), Ahead(s, t)
  PROVE  /\ Ordered(s) /\ Ordered(t) => Ordered(s \o t)
         /\ Ahead(s, u) /\ Ahead(t, u) => Ahead(s \o t, u)
         /\ Numbered(s) /\ Numbered(t) => Numbered(s \o t)
<1> DEFINE c == s \o t
<1>1. /\ Len(s) \in Nat /\ Len(t) \in Nat
      /\ Len(c) = Len(s) + Len(t)
      /\ \A i \in 1..Len(c) : c[i] = IF i <= Len(s) THEN s[i] ELSE t[i - Len(s)]
  BY ConcatProperties
<1> HIDE DEF c
<1>2. \A i \in 1..Len(c) : \/ i \in 1..Len(s) /\ c[i] = s[i]
                           \/ i - Len(s) \in 1..Len(t) /\ c[i] = t[i - Len(s)] /\ i > Len(s)
  BY <1>1
<1>3. ASSUME Ordered(s), Ordered(t) PROVE Ordered(c)
  <2> SUFFICES ASSUME NEW i \in 1..Len(c), NEW j \in 1..Len(c), i < j, c[i].from = c[j].from
               PROVE  c[i].n < c[j].n
    BY DEF Ordered
  <2>1. CASE i \in 1..Len(s) /\ c[i] = s[i] /\ j \in 1..Len(s) /\ c[j] = s[j]
    BY <2>1, <1>3 DEF Ordered
  <2>2. CASE /\ i \in 1..Len(s) /\ c[i] = s[i]
             /\ j - Len(s) \in 1..Len(t) /\ c[j] = t[j - Len(s)]
    BY <2>2 DEF Ahead
  <2>3. CASE /\ i - Len(s) \in 1..Len(t) /\ c[i] = t[i - Len(s)]
             /\ j - Len(s) \in 1..Len(t) /\ c[j] = t[j - Len(s)]
    <3>1. i - Len(s) < j - Len(s) BY <1>1
    <3> QED BY <2>3, <3>1, <1>3 DEF Ordered
  <2> QED BY <1>1, <1>2, <2>1, <2>2, <2>3
<1>4. ASSUME Ahead(s, u), Ahead(t, u) PROVE Ahead(c, u)
  BY <1>2, <1>4 DEF Ahead
<1>5. ASSUME Numbered(s), Numbered(t) PROVE Numbered(c)
  BY <1>2, <1>5 DEF Numbered
<1> QED BY <1>3, <1>4, <1>5 DEF c

(* A producer puts a row behind the line: its numbers rise.                   *)
LEMMA LineGrows ==
  ASSUME NEW s \in Seq(Row), NEW b \in Seq(Row), NEW c \in Seq(Row), NEW r \in Row,
         Line(s, b, c),
         \A i \in 1..Len(s) : s[i].from = r.from => s[i].n < r.n,
         \A i \in 1..Len(b) : b[i].from = r.from => b[i].n < r.n,
         \A i \in 1..Len(c) : c[i].from = r.from => c[i].n < r.n
  PROVE  Line(s, b, Append(c, r))
<1>1. Ordered(Append(c, r)) BY AppendOrder DEF Line
<1>2. Ahead(s, Append(c, r)) BY AppendOrder DEF Line
<1>3. Ahead(b, Append(c, r)) BY AppendOrder DEF Line
<1> QED BY <1>1, <1>2, <1>3 DEF Line

(* The flusher moves a row from the channel to the batch.                     *)
LEMMA LineMoves ==
  ASSUME NEW s \in Seq(Row), NEW b \in Seq(Row), NEW c \in Seq(Row), c # <<>>, Line(s, b, c)
  PROVE  Line(s, Append(b, Head(c)), Tail(c))
<1>1. /\ Tail(c) \in Seq(Row) /\ Head(c) \in Row /\ Head(c) = c[1]
      /\ Len(Tail(c)) = Len(c) - 1 /\ Len(c) >= 1 /\ IsSuffix(Tail(c), c)
  BY TailIsSuffix
<1>2. Ordered(Tail(c)) /\ Ahead(s, Tail(c)) /\ Ahead(b, Tail(c)) BY <1>1, SuffixOrder DEF Line
<1>3. 1 \in 1..Len(c) BY <1>1
<1>4. \A i \in 1..Len(b) : b[i].from = Head(c).from => b[i].n < Head(c).n
  BY <1>1, <1>3 DEF Line, Ahead
<1>5. \A i \in 1..Len(s) : s[i].from = Head(c).from => s[i].n < Head(c).n
  BY <1>1, <1>3 DEF Line, Ahead
<1>6. \A i \in 1..Len(Tail(c)) : Tail(c)[i] = c[i + 1] /\ i + 1 \in 1..Len(c) /\ 1 < i + 1
  BY <1>1, HeadTailProperties
<1>7. \A i \in 1..Len(Tail(c)) : Tail(c)[i].from = Head(c).from => Head(c).n < Tail(c)[i].n
  BY <1>1, <1>3, <1>6 DEF Line, Ordered
<1>8. Ordered(Append(b, Head(c))) BY <1>1, <1>4, AppendOrder DEF Line
<1>9. Ahead(s, Append(b, Head(c))) BY <1>1, <1>4, <1>5, AppendOrder DEF Line
<1>10. Ahead(Append(b, Head(c)), Tail(c)) BY <1>1, <1>2, <1>4, <1>7, AppendOrder
<1> QED BY <1>2, <1>8, <1>9, <1>10 DEF Line

(* An INSERT moves the batch to the server. *)
LEMMA LineInserts ==
  ASSUME NEW s \in Seq(Row), NEW b \in Seq(Row), NEW c \in Seq(Row), Line(s, b, c)
  PROVE  Line(s \o b, <<>>, c)
<1>1. Ordered(s \o b) /\ Ahead(s \o b, c) BY ConcatOrder DEF Line
<1>2. Ordered(<<>>) /\ Ahead(s \o b, <<>>) /\ Ahead(<<>>, c) BY DEF Ordered, Ahead
<1> QED BY <1>1, <1>2 DEF Line

(* The line loses rows at the front of the batch, or of the channel.          *)
LEMMA LineLoses ==
  ASSUME NEW s \in Seq(Row), NEW b \in Seq(Row), NEW c \in Seq(Row), Line(s, b, c),
         NEW b2 \in Seq(Row), IsSuffix(b2, b), NEW c2 \in Seq(Row), IsSuffix(c2, c)
  PROVE  Line(s, b2, c2)
<1>1. Ordered(b2) /\ Ahead(s, b2) /\ Ahead(b2, c) BY SuffixOrder DEF Line
<1>2. Ordered(c2) /\ Ahead(s, c2) /\ Ahead(b2, c2) BY <1>1, SuffixOrder DEF Line
<1> QED BY <1>1, <1>2 DEF Line

(* A sequence is the end of itself, and the empty one the end of any.         *)
LEMMA Suffixes ==
  ASSUME NEW s \in Seq(Row)
  PROVE  IsSuffix(s, s) /\ IsSuffix(<<>>, s) /\ <<>> \in Seq(Row)
<1>1. <<>> \in Seq(Row) /\ Len(<<>>) = 0 /\ Len(s) \in Nat BY EmptySeq
<1>2. Len(s) + 0 = Len(s) /\ \A i \in 1..Len(s) : s[i] = s[i + 0] BY <1>1
<1>3. Len(<<>>) + Len(s) = Len(s) /\ \A i \in 1..Len(<<>>) : FALSE BY <1>1
<1>4. IsSuffix(s, s) BY <1>2 DEF IsSuffix
<1>5. IsSuffix(<<>>, s) BY <1>1, <1>3 DEF IsSuffix
<1> QED BY <1>1, <1>4, <1>5

-----------------------------------------------------------------------------
(* Types. *)

(* Nothing happened yet. *)
LEMMA InitTypes == ASSUME Init PROVE TypeOK
<1>1. <<>> \in Seq(Row) /\ Len(<<>>) = 0 BY EmptySeq
<1>2. rows \in Seq(Row) /\ Len(rows) <= ChanCap /\ pending \in Seq(Row) /\ stored \in Seq(Row)
  BY <1>1, WriterAssumption DEF Init
<1>3. /\ dropped \in Nat /\ saved \in Nat /\ failures \in 0..MaxFailures
      /\ offered \in [Producers -> 0..RowsEach]
  BY WriterAssumption DEF Init
<1>4. offering \in [Producers -> {"idle", "first", "second", "evict", "last"}] BY DEF Init
<1> QED BY <1>2, <1>3, <1>4 DEF Init, TypeOK

(* Every step keeps the types; a row that is sent has a number.               *)
LEMMA TypesStep ==
  ASSUME TypeOK, OffersNumbered, [Next]_vars
  PROVE  TypeOK'
<1> USE DEF TypeOK
<1>1. ASSUME NEW p \in Producers, Offer(p) PROVE TypeOK'
  <2>1. offered' \in [Producers -> 0..RowsEach]
    <3>1. offered[p] + 1 \in 0..RowsEach BY <1>1, WriterAssumption DEF Offer
    <3> QED BY <1>1, <3>1 DEF Offer
  <2>2. /\ dropped' \in Nat
        /\ offering' \in [Producers -> {"idle", "first", "second", "evict", "last"}]
    BY <1>1 DEF Offer
  <2> QED BY <1>1, <2>1, <2>2 DEF Offer, closing, table, server
<1>2. ASSUME NEW p \in Producers, Send(p) PROVE TypeOK'
  <2>1. offered[p] \in 1..RowsEach BY <1>2, WriterAssumption DEF Send, At, OffersNumbered
  <2>2. [from |-> p, n |-> offered[p]] \in Row BY <2>1 DEF Row
  <2>3. rows' \in Seq(Row) /\ Len(rows') = Len(rows) + 1 BY <1>2, <2>2 DEF Send
  <2>4. Len(rows') <= ChanCap BY <1>2, <2>3, WriterAssumption DEF Send
  <2> QED BY <1>2, <2>3, <2>4 DEF Send, MovedOn, closing, table, server
<1>3. ASSUME NEW p \in Producers, Full(p) PROVE TypeOK'
  BY <1>3 DEF Full, MovedOn, channel, closing, table, server
<1>4. ASSUME NEW p \in Producers, Evict(p) PROVE TypeOK'
  <2>1. rows' \in Seq(Row) /\ Len(rows') <= ChanCap /\ dropped' \in Nat
    <3>1. CASE rows = <<>> BY <1>4, <3>1 DEF Evict, channel
    <3>2. CASE rows # <<>>
      <4>1. Tail(rows) \in Seq(Row) /\ Len(Tail(rows)) = Len(rows) - 1
        BY <3>2, TailIsSuffix
      <4>2. rows' = Tail(rows) /\ dropped' = dropped + 1 BY <1>4, <3>2 DEF Evict
      <4> QED BY <4>1, <4>2, WriterAssumption
    <3> QED BY <3>1, <3>2
  <2> QED BY <1>4, <2>1 DEF Evict, MovedOn, closing, table, server
<1>5. ASSUME NEW p \in Producers, GiveUp(p) PROVE TypeOK'
  BY <1>5 DEF GiveUp, MovedOn, closing, table, server
<1>6. CASE Receive
  <2>1. rows' \in Seq(Row) /\ Len(rows') <= ChanCap
    BY <1>6, TailIsSuffix, WriterAssumption DEF Receive
  <2>2. pending' \in Seq(Row) BY <1>6, TailIsSuffix DEF Receive
  <2> QED BY <1>6, <2>1, <2>2 DEF Receive, closing, producer, server
<1>7. CASE Tick BY <1>7 DEF Tick, channel, closing, producer, server
<1>8. CASE Shutdown BY <1>8 DEF Shutdown, channel, closing, producer, server
<1>9. CASE Drain
  <2>1. CASE rows = <<>> BY <1>9, <2>1 DEF Drain, closing, producer, server
  <2>2. CASE rows # <<>>
    <3>1. /\ Tail(rows) \in Seq(Row) /\ Head(rows) \in Row
          /\ Len(Tail(rows)) = Len(rows) - 1
      BY <2>2, TailIsSuffix
    <3>2. pending' = Append(pending, Head(rows)) /\ rows' = Tail(rows)
      BY <1>9, <2>2 DEF Drain
    <3>3. rows' \in Seq(Row) /\ Len(rows') <= ChanCap BY <3>1, <3>2, WriterAssumption
    <3>4. pending' \in Seq(Row) BY <3>1, <3>2
    <3>5. UNCHANGED <<dropped, closing, producer, failing, flusher, server, refilled>>
      BY <1>9, <2>2 DEF Drain
    <3> QED BY <3>3, <3>4, <3>5 DEF closing, producer, server
  <2> QED BY <2>1, <2>2
<1>10. CASE FlushSucceeds \/ FinalSucceeds
  <2>1. Inserted BY <1>10 DEF FlushSucceeds, FinalSucceeds
  <2>2. stored \o pending \in Seq(Row) /\ <<>> \in Seq(Row) BY ConcatProperties, EmptySeq
  <2>3. saved + Len(pending) \in Nat OBVIOUS
  <2>4. flusher' \in {"select", "done"} /\ UNCHANGED <<channel, closing, producer, refilled>>
    BY <1>10 DEF FlushSucceeds, FinalSucceeds
  <2> QED BY <2>1, <2>2, <2>3, <2>4 DEF Inserted, channel, closing, producer
<1>11. CASE FlushFails
  BY <1>11, RetainedFacts, WriterAssumption DEF FlushFails, Refused, closing, producer
<1>12. CASE FinalFails
  BY <1>12, WriterAssumption DEF FinalFails, Refused, closing, producer
<1>13. CASE Close BY <1>13 DEF Close, channel, producer, table, server
<1>14. CASE Cancel BY <1>14 DEF Cancel, channel, producer, table, server
<1>15. CASE UNCHANGED vars
  BY <1>15 DEF vars, channel, closing, producer, table, server
<1> QED
  BY <1>1, <1>2, <1>3, <1>4, <1>5, <1>6, <1>7, <1>8, <1>9, <1>10, <1>11, <1>12, <1>13,
     <1>14, <1>15
  DEF Next, Producer, Flush

-----------------------------------------------------------------------------
(* What may wait.                                                             *)

(* The batch grows past max_rows only in the drain behind Close.              *)
LEMMA BatchStep ==
  ASSUME TypeOK, SelectHasRoom, BacklogInChannel, [Next]_vars
  PROVE  SelectHasRoom' /\ BacklogInChannel'
<1> USE DEF SelectHasRoom, BacklogInChannel
<1>0. Len(pending) \in Nat BY DEF TypeOK
<1>1. CASE UNCHANGED <<pending, failing, flusher>> BY <1>1
<1>2. CASE Receive
  <2>1. rows \in Seq(Row) /\ pending \in Seq(Row) BY DEF TypeOK
  <2>2. Head(rows) \in Row BY <1>2, <2>1, TailIsSuffix DEF Receive
  <2>3. Len(pending') = Len(pending) + 1 BY <1>2, <2>1, <2>2 DEF Receive
  <2> QED BY <1>0, <1>2, <2>3, WriterAssumption DEF Receive
<1>3. CASE Tick BY <1>3, <1>0, WriterAssumption DEF Tick
<1>4. CASE Shutdown \/ Drain BY <1>4 DEF Shutdown, Drain
<1>5. CASE FlushSucceeds \/ FinalSucceeds
  BY <1>5, WriterAssumption, EmptySeq DEF FlushSucceeds, FinalSucceeds, Inserted
<1>6. CASE FlushFails
  <2>1. Len(Retained(pending)) \in 0..Len(pending) BY RetainedFacts DEF TypeOK
  <2> QED BY <1>0, <1>6, <2>1, WriterAssumption DEF FlushFails
<1>7. CASE FinalFails BY <1>7 DEF FinalFails
<1>8. CASE \E q \in Producers : Offer(q) \/ Producer(q)
  BY <1>1, <1>8 DEF Offer, Producer, Send, Full, Evict, GiveUp, table
<1>9. CASE Close \/ Cancel \/ UNCHANGED vars BY <1>1, <1>9 DEF Close, Cancel, vars, table
<1> QED BY <1>2, <1>3, <1>4, <1>5, <1>6, <1>7, <1>8, <1>9 DEF Next, Flush

(* A producer leaves room when it evicts; whoever fills it is written down.   *)
LEMMA RivalStep ==
  ASSUME TypeOK, NewestLostToRival, [Next]_vars
  PROVE  NewestLostToRival'
<1>0. Len(rows) \in Nat /\ ChanCap \in Nat \ {0} BY WriterAssumption DEF TypeOK
<1>1. SUFFICES ASSUME NEW p \in Producers, offering'[p] = "last", Len(rows') = ChanCap
               PROVE  p \in refilled'
  BY DEF NewestLostToRival
<1>2. CASE UNCHANGED <<rows, offering, refilled>> BY <1>1, <1>2 DEF NewestLostToRival
<1>3. ASSUME NEW q \in Producers, Offer(q) PROVE p \in refilled'
  BY <1>1, <1>3 DEF Offer, NewestLostToRival, TypeOK
<1>4. ASSUME NEW q \in Producers, Send(q) PROVE p \in refilled'
  BY <1>1, <1>4 DEF Send, MovedOn, At, TypeOK
<1>5. ASSUME NEW q \in Producers, Full(q) PROVE p \in refilled'
  BY <1>1, <1>5 DEF Full, MovedOn, At, NewestLostToRival, TypeOK
<1>6. ASSUME NEW q \in Producers, Evict(q) PROVE p \in refilled'
  <2>1. CASE rows = <<>>
    <3>1. Len(rows') = 0 BY <1>6, <2>1 DEF Evict, channel
    <3> QED BY <1>0, <1>1, <3>1
  <2>2. CASE rows # <<>>
    <3>1. Len(Tail(rows)) = Len(rows) - 1 BY <2>2, TailIsSuffix DEF TypeOK
    <3>2. rows' = Tail(rows) BY <1>6, <2>2 DEF Evict
    <3>3. Len(rows) <= ChanCap BY DEF TypeOK
    <3> QED BY <1>0, <1>1, <3>1, <3>2, <3>3
  <2> QED BY <2>1, <2>2
<1>7. ASSUME NEW q \in Producers, GiveUp(q) PROVE p \in refilled'
  BY <1>1, <1>7 DEF GiveUp, MovedOn, At, NewestLostToRival, TypeOK
<1>8. CASE Receive \/ Drain
  <2>1. CASE rows = <<>> BY <1>2, <1>8, <2>1 DEF Receive, Drain, producer
  <2>2. CASE rows # <<>>
    <3>1. Len(Tail(rows)) = Len(rows) - 1 BY <2>2, TailIsSuffix DEF TypeOK
    <3>2. rows' = Tail(rows) BY <1>8, <2>2 DEF Receive, Drain
    <3>3. Len(rows) <= ChanCap BY DEF TypeOK
    <3> QED BY <1>0, <1>1, <3>1, <3>2, <3>3
  <2> QED BY <2>1, <2>2
<1>9. CASE Tick \/ Shutdown \/ Flush \/ Close \/ Cancel \/ UNCHANGED vars
  BY <1>2, <1>9
  DEF Tick, Shutdown, Flush, FlushSucceeds, FlushFails, FinalSucceeds, FinalFails, Close, Cancel,
      vars, channel, producer
<1> QED BY <1>3, <1>4, <1>5, <1>6, <1>7, <1>8, <1>9 DEF Next, Producer

(* closed and cancelled are never taken back, and lead the flusher. *)
LEMMA CloseStep ==
  ASSUME DrainsAfterClose, [Next]_vars
  PROVE  DrainsAfterClose'
<1> USE DEF DrainsAfterClose
<1>1. CASE \E p \in Producers : Offer(p) \/ Producer(p)
  BY <1>1 DEF Offer, Producer, Send, Full, Evict, GiveUp, closing, table
<1>2. CASE Receive \/ Tick \/ Shutdown \/ Drain
  BY <1>2 DEF Receive, Tick, Shutdown, Drain, closing
<1>3. CASE Flush
  BY <1>3 DEF Flush, FlushSucceeds, FlushFails, FinalSucceeds, FinalFails, closing
<1>4. CASE Close \/ Cancel BY <1>4 DEF Close, Cancel, table
<1>5. CASE UNCHANGED vars BY <1>5 DEF vars, closing, table
<1> QED BY <1>1, <1>2, <1>3, <1>4, <1>5 DEF Next

(* The set of producers in an offer, as one of them moves.                    *)
LEMMA OfferingMoves ==
  ASSUME TypeOK, NEW p \in Producers, NEW step,
         offering' = [offering EXCEPT ![p] = step]
  PROVE  /\ IsFiniteSet(Offering) /\ Cardinality(Offering) \in Nat
         /\ Cardinality(Offering) <= Cardinality(Producers)
         /\ offering[p] = "idle" /\ step # "idle"
              => Cardinality(Offering') = Cardinality(Offering) + 1
         /\ offering[p] # "idle" /\ step = "idle"
              => Cardinality(Offering') = Cardinality(Offering) - 1
         /\ offering[p] # "idle" /\ step # "idle" => Offering' = Offering
<1>1. Offering \in SUBSET Producers BY DEF Offering
<1>2. IsFiniteSet(Offering) /\ Cardinality(Offering) <= Cardinality(Producers)
  BY <1>1, FS_Subset, WriterAssumption
<1>3. Cardinality(Offering) \in Nat BY <1>2, FS_CardinalityType
<1>4. \A q \in Producers : offering'[q] = IF q = p THEN step ELSE offering[q] BY DEF TypeOK
<1>5. ASSUME offering[p] = "idle", step # "idle"
      PROVE  Cardinality(Offering') = Cardinality(Offering) + 1
  <2>1. Offering' = Offering \cup {p} BY <1>4, <1>5 DEF Offering
  <2>2. p \notin Offering BY <1>5 DEF Offering
  <2> QED BY <1>2, <2>1, <2>2, FS_AddElement
<1>6. ASSUME offering[p] # "idle", step = "idle"
      PROVE  Cardinality(Offering') = Cardinality(Offering) - 1
  <2>1. Offering' = Offering \ {p} BY <1>4, <1>6 DEF Offering
  <2>2. p \in Offering BY <1>6 DEF Offering
  <2> QED BY <1>2, <2>1, <2>2, FS_RemoveElement
<1>7. ASSUME offering[p] # "idle", step # "idle" PROVE Offering' = Offering
  BY <1>4, <1>7 DEF Offering
<1> QED BY <1>2, <1>3, <1>5, <1>6, <1>7

(* Once the channel was drained for the last time, only offers in progress    *)
(* add to it, and behind Close none begins.                                   *)
LEMMA OnTheirWayStep ==
  ASSUME TypeOK, DrainsAfterClose, OnTheirWay, [Next]_vars
  PROVE  OnTheirWay'
<1> DEFINE Many == Cardinality(Offering)
           All  == Cardinality(Producers)
           Last == {"final", "done"}
<1>0. Len(rows) \in Nat BY DEF TypeOK
<1>1. Many \in Nat /\ All \in Nat /\ Many <= All
  <2>1. Offering \in SUBSET Producers BY DEF Offering
  <2> QED BY <2>1, FS_Subset, FS_CardinalityType, WriterAssumption
<1>2. flusher \in Last => closed /\ Len(rows) + Many <= All BY DEF OnTheirWay, DrainsAfterClose
<1>3. ASSUME Len(rows') \in Nat, Len(rows') <= Len(rows), Many' = Many \/ Many' = Many - 1,
             flusher' \in Last => flusher \in Last
      PROVE  OnTheirWay'
  BY <1>0, <1>1, <1>2, <1>3 DEF OnTheirWay
<1>4. offering' = offering => Many' = Many BY DEF Offering
<1>5. ASSUME NEW p \in Producers, Offer(p) PROVE OnTheirWay'
  <2>1. flusher' \in Last => closed BY <1>2, <1>5 DEF Offer, table
  <2>2. rows' = rows /\ flusher' = flusher BY <1>5 DEF Offer, table
  <2>3. closed => offering' = offering BY <1>5 DEF Offer
  <2>4. CASE closed BY <1>0, <1>3, <1>4, <2>2, <2>3, <2>4
  <2>5. CASE ~closed BY <2>1, <2>5 DEF OnTheirWay
  <2> QED BY <2>4, <2>5
<1>6. ASSUME NEW p \in Producers, Send(p) PROVE OnTheirWay'
  <2>1. offering' = [offering EXCEPT ![p] = "idle"] /\ offering[p] # "idle"
    BY <1>6 DEF Send, MovedOn, At
  <2>2. Many' = Many - 1 BY <2>1, OfferingMoves
  <2>3. Len(rows') = Len(rows) + 1 BY <1>6 DEF Send, TypeOK
  <2>4. flusher' = flusher BY <1>6 DEF Send, table
  <2> QED BY <1>0, <1>1, <1>2, <2>2, <2>3, <2>4 DEF OnTheirWay
<1>7. ASSUME NEW p \in Producers, Full(p) \/ Evict(p) PROVE OnTheirWay'
  <2>1. /\ offering[p] # "idle" /\ flusher' = flusher
        /\ \E step \in {"second", "evict", "last"} : offering' = [offering EXCEPT ![p] = step]
    BY <1>7 DEF Full, Evict, MovedOn, At, table
  <2>2. Offering' = Offering BY <2>1, OfferingMoves
  <2>3. Len(rows') \in Nat /\ Len(rows') <= Len(rows)
    <3>1. CASE rows' = rows BY <1>0, <3>1
    <3>2. CASE rows # <<>> /\ rows' = Tail(rows)
      <4>1. Tail(rows) \in Seq(Row) /\ Len(Tail(rows)) = Len(rows) - 1
        BY <3>2, TailIsSuffix DEF TypeOK
      <4> QED BY <1>0, <3>2, <4>1
    <3> QED BY <1>7, <3>1, <3>2 DEF Full, Evict, channel
  <2>4. Many' = Many BY <2>2
  <2> QED BY <1>3, <2>1, <2>3, <2>4
<1>8. ASSUME NEW p \in Producers, GiveUp(p) PROVE OnTheirWay'
  <2>1. offering' = [offering EXCEPT ![p] = "idle"] /\ offering[p] # "idle"
    BY <1>8 DEF GiveUp, MovedOn, At
  <2>2. Many' = Many - 1 BY <2>1, OfferingMoves
  <2>3. rows' = rows /\ flusher' = flusher BY <1>8 DEF GiveUp, table
  <2> QED BY <1>0, <1>3, <2>2, <2>3
<1>9. CASE Receive
  <2>1. flusher' \notin Last BY <1>9 DEF Receive
  <2> QED BY <2>1 DEF OnTheirWay
<1>10. CASE Tick \/ Shutdown \/ FlushSucceeds \/ FlushFails
  <2>1. flusher' \notin Last BY <1>10 DEF Tick, Shutdown, FlushSucceeds, FlushFails
  <2> QED BY <2>1 DEF OnTheirWay
<1>11. CASE Drain
  <2>1. CASE rows = <<>>
    <3>1. Len(rows') = 0 /\ offering' = offering BY <1>11, <2>1 DEF Drain, producer
    <3>2. Many' = Many BY <3>1, <1>4
    <3> QED BY <1>1, <3>1, <3>2 DEF OnTheirWay
  <2>2. CASE rows # <<>>
    <3>1. flusher' \notin Last BY <1>11, <2>2 DEF Drain
    <3> QED BY <3>1 DEF OnTheirWay
  <2> QED BY <2>1, <2>2
<1>12. CASE FinalSucceeds \/ FinalFails
  <2>1. rows' = rows /\ offering' = offering /\ flusher = "final"
    BY <1>12 DEF FinalSucceeds, FinalFails, channel, producer
  <2>2. Many' = Many BY <2>1, <1>4
  <2> QED BY <1>0, <1>3, <2>1, <2>2
<1>13. CASE Close \/ Cancel \/ UNCHANGED vars
  <2>1. rows' = rows /\ offering' = offering /\ flusher' = flusher
    BY <1>13 DEF Close, Cancel, vars, channel, producer, table
  <2>2. Many' = Many BY <2>1, <1>4
  <2> QED BY <1>0, <1>3, <2>1, <2>2
<1> QED
  BY <1>5, <1>6, <1>7, <1>8, <1>9, <1>10, <1>11, <1>12, <1>13 DEF Next, Producer, Flush

-----------------------------------------------------------------------------
(* The accounts.                                                              *)

(* An offer begins exactly one row. *)
LEMMA BegunGrows ==
  ASSUME TypeOK, BegunFinite, NEW p \in Producers, offered[p] < RowsEach,
         offered' = [offered EXCEPT ![p] = @ + 1]
  PROVE  BegunFinite' /\ Cardinality(Begun') = Cardinality(Begun) + 1
<1> DEFINE row == [from |-> p, n |-> offered[p] + 1]
<1>1. offered[p] + 1 \in 1..RowsEach /\ offered[p] \in Nat BY WriterAssumption DEF TypeOK
<1>2. row \in Row /\ row.from = p /\ row.n = offered[p] + 1 BY <1>1 DEF Row
<1>3. row \notin Begun BY <1>1, <1>2 DEF Begun
<1>4. \A q \in Producers : offered'[q] = IF q = p THEN offered[p] + 1 ELSE offered[q]
  BY DEF TypeOK
<1>5. \A r \in Row : r.from \in Producers /\ r.n \in 1..RowsEach
                     /\ r = [from |-> r.from, n |-> r.n]
  BY DEF Row
<1> HIDE DEF row
<1>6. Begun' = Begun \cup {row}
  <2>1. ASSUME NEW r \in Row PROVE r \in Begun' <=> r \in Begun \/ r = row
    <3>1. CASE r.from = p
      <4>1. r \in Begun' <=> r.n <= offered[p] + 1 BY <1>4, <1>5, <3>1 DEF Begun
      <4>2. r \in Begun <=> r.n <= offered[p] BY <3>1 DEF Begun
      <4>3. r = row <=> r.n = offered[p] + 1 BY <1>2, <1>5, <3>1 DEF row
      <4> QED BY <1>1, <1>5, <4>1, <4>2, <4>3
    <3>2. CASE r.from # p
      <4>1. r \in Begun' <=> r \in Begun BY <1>4, <1>5, <3>2 DEF Begun
      <4>2. r # row BY <1>2, <3>2
      <4> QED BY <4>1, <4>2
    <3> QED BY <3>1, <3>2
  <2> QED BY <2>1, <1>2 DEF Begun
<1> QED BY <1>3, <1>6, FS_AddElement DEF BegunFinite

(* Every step moves a row between two of the accounts: from an offer to the   *)
(* channel, from there to the batch, from there to the server, and from each  *)
(* to the counter.                                                            *)
LEMMA AccountStep ==
  ASSUME TypeOK, BegunFinite, EveryRowAccounted, [Next]_vars
  PROVE  BegunFinite' /\ EveryRowAccounted'
<1> DEFINE Many == Cardinality(Offering)
           Tally == Cardinality(Begun)
<1>0. /\ Len(rows) \in Nat /\ Len(pending) \in Nat /\ saved \in Nat /\ dropped \in Nat
      /\ rows \in Seq(Row) /\ pending \in Seq(Row)
  BY DEF TypeOK
<1>1. Many \in Nat /\ Tally \in Nat
  <2>1. Offering \in SUBSET Producers BY DEF Offering
  <2>2. IsFiniteSet(Offering) BY <2>1, FS_Subset, WriterAssumption
  <2> QED BY <2>2, FS_CardinalityType DEF BegunFinite
<1>2. Tally = Many + Len(rows) + Len(pending) + saved + dropped BY DEF EveryRowAccounted
<1>3. offered' = offered => BegunFinite' /\ Tally' = Tally
  <2>1. offered' = offered => Begun' = Begun BY DEF Begun
  <2> QED BY <2>1 DEF BegunFinite
<1>4. offering' = offering => Many' = Many BY DEF Offering
<1>5. ASSUME Tally' = Many' + Len(rows') + Len(pending') + saved' + dropped'
      PROVE  EveryRowAccounted'
  BY <1>5 DEF EveryRowAccounted
<1> HIDE DEF Many, Tally
<1>6. ASSUME NEW p \in Producers, Offer(p) PROVE BegunFinite' /\ EveryRowAccounted'
  <2>1. BegunFinite' /\ Tally' = Tally + 1 BY <1>6, BegunGrows DEF Offer, Tally
  <2>2. rows' = rows /\ pending' = pending /\ saved' = saved
    BY <1>6 DEF Offer, table, server
  <2>3. CASE closed
    <3>1. dropped' = dropped + 1 /\ Many' = Many BY <1>4, <1>6, <2>3 DEF Offer
    <3> QED BY <1>0, <1>1, <1>2, <1>5, <2>1, <2>2, <3>1
  <2>4. CASE ~closed
    <3>1. /\ dropped' = dropped /\ offering[p] = "idle"
          /\ offering' = [offering EXCEPT ![p] = "first"]
      BY <1>6, <2>4 DEF Offer
    <3>2. Many' = Many + 1
      <4>1. "first" # "idle" OBVIOUS
      <4> QED BY <3>1, <4>1, OfferingMoves DEF Many
    <3> QED BY <1>0, <1>1, <1>2, <1>5, <2>1, <2>2, <3>1, <3>2
  <2> QED BY <2>3, <2>4
<1>7. ASSUME NEW p \in Producers, Send(p) PROVE BegunFinite' /\ EveryRowAccounted'
  <2>1. offering' = [offering EXCEPT ![p] = "idle"] /\ offering[p] # "idle"
    BY <1>7 DEF Send, MovedOn, At
  <2>2. Many' = Many - 1 BY <2>1, OfferingMoves DEF Many
  <2>3. Len(rows') = Len(rows) + 1 BY <1>0, <1>7 DEF Send
  <2>4. dropped' = dropped /\ pending' = pending /\ saved' = saved /\ offered' = offered
    BY <1>7 DEF Send, table, server
  <2> QED BY <1>0, <1>1, <1>2, <1>3, <1>5, <2>2, <2>3, <2>4
<1>8. ASSUME NEW p \in Producers, Full(p) \/ Evict(p) PROVE BegunFinite' /\ EveryRowAccounted'
  <2>1. /\ offering[p] # "idle"
        /\ \E step \in {"second", "evict", "last"} : offering' = [offering EXCEPT ![p] = step]
        /\ pending' = pending /\ saved' = saved /\ offered' = offered
    BY <1>8 DEF Full, Evict, MovedOn, At, table, server
  <2>2. Offering' = Offering BY <2>1, OfferingMoves
  <2>3. Len(rows') + dropped' = Len(rows) + dropped
    <3>1. CASE rows' = rows /\ dropped' = dropped BY <3>1
    <3>2. CASE rows # <<>> /\ rows' = Tail(rows) /\ dropped' = dropped + 1
      <4>1. Len(Tail(rows)) = Len(rows) - 1 BY <1>0, <3>2, TailIsSuffix
      <4> QED BY <1>0, <3>2, <4>1
    <3> QED BY <1>8, <3>1, <3>2 DEF Full, Evict, channel
  <2>4. Len(rows') \in Nat /\ dropped' \in Nat
    <3>1. CASE rows' = rows /\ dropped' = dropped BY <1>0, <3>1
    <3>2. CASE rows # <<>> /\ rows' = Tail(rows) /\ dropped' = dropped + 1
      <4>1. Len(Tail(rows)) = Len(rows) - 1 /\ Tail(rows) \in Seq(Row)
        BY <1>0, <3>2, TailIsSuffix
      <4> QED BY <1>0, <3>2, <4>1
    <3> QED BY <1>8, <3>1, <3>2 DEF Full, Evict, channel
  <2>5. Many' = Many BY <2>2 DEF Many
  <2> QED BY <1>0, <1>1, <1>2, <1>3, <1>5, <2>1, <2>3, <2>4, <2>5
<1>9. ASSUME NEW p \in Producers, GiveUp(p) PROVE BegunFinite' /\ EveryRowAccounted'
  <2>1. offering' = [offering EXCEPT ![p] = "idle"] /\ offering[p] # "idle"
    BY <1>9 DEF GiveUp, MovedOn, At
  <2>2. Many' = Many - 1 BY <2>1, OfferingMoves DEF Many
  <2>3. /\ rows' = rows /\ dropped' = dropped + 1 /\ pending' = pending /\ saved' = saved
        /\ offered' = offered
    BY <1>9 DEF GiveUp, table, server
  <2> QED BY <1>0, <1>1, <1>2, <1>3, <1>5, <2>2, <2>3
<1>10. CASE (Receive \/ Drain) /\ rows # <<>>
  <2>1. /\ Len(Tail(rows)) = Len(rows) - 1 /\ Tail(rows) \in Seq(Row)
        /\ Head(rows) \in Row
    BY <1>0, <1>10, TailIsSuffix
  <2>2. rows' = Tail(rows) /\ pending' = Append(pending, Head(rows))
    BY <1>10 DEF Receive, Drain
  <2>3. Len(pending') = Len(pending) + 1 BY <1>0, <2>1, <2>2
  <2>4. dropped' = dropped /\ saved' = saved /\ offered' = offered /\ offering' = offering
    BY <1>10 DEF Receive, Drain, producer, server
  <2>5. Many' = Many BY <1>4, <2>4
  <2> QED BY <1>0, <1>1, <1>2, <1>3, <1>5, <2>1, <2>2, <2>3, <2>4, <2>5
<1>11. CASE FlushSucceeds \/ FinalSucceeds
  <2>1. Inserted BY <1>11 DEF FlushSucceeds, FinalSucceeds
  <2>2. pending' = <<>> /\ saved' = saved + Len(pending) BY <2>1 DEF Inserted
  <2>3. Len(pending') = 0 BY <2>2, EmptySeq
  <2>4. rows' = rows /\ dropped' = dropped /\ offered' = offered /\ offering' = offering
    BY <1>11 DEF FlushSucceeds, FinalSucceeds, channel, producer
  <2>5. Many' = Many BY <1>4, <2>4
  <2> QED BY <1>0, <1>1, <1>2, <1>3, <1>5, <2>2, <2>3, <2>4, <2>5
<1>12. CASE FlushFails \/ FinalFails
  <2>1. rows' = rows /\ saved' = saved /\ offered' = offered /\ offering' = offering
    BY <1>12 DEF FlushFails, FinalFails, Refused, producer
  <2>2. Len(pending') \in Nat /\ dropped' = dropped + (Len(pending) - Len(pending'))
    <3>1. CASE FlushFails
      <4>1. Len(Retained(pending)) \in 0..Len(pending) BY <1>0, RetainedFacts
      <4> QED BY <1>0, <3>1, <4>1 DEF FlushFails
    <3>2. CASE FinalFails
      <4>1. pending' = <<>> /\ dropped' = dropped + Len(pending) BY <3>2 DEF FinalFails
      <4>2. Len(pending') = 0 BY <4>1, EmptySeq
      <4> QED BY <1>0, <4>1, <4>2
    <3> QED BY <1>12, <3>1, <3>2
  <2>3. Many' = Many BY <1>4, <2>1
  <2> QED BY <1>0, <1>1, <1>2, <1>3, <1>5, <2>1, <2>2, <2>3
<1>13. CASE Tick \/ Shutdown \/ (Drain /\ rows = <<>>) \/ Close \/ Cancel \/ UNCHANGED vars
  <2>1. /\ rows' = rows /\ pending' = pending /\ dropped' = dropped /\ saved' = saved
        /\ offered' = offered /\ offering' = offering
    BY <1>13 DEF Tick, Shutdown, Drain, Close, Cancel, vars, channel, producer, table, server
  <2>2. Many' = Many BY <1>4, <2>1
  <2> QED BY <1>2, <1>3, <1>5, <2>1, <2>2
<1>14. Receive => rows # <<>> BY DEF Receive
<1>15. CASE \E p \in Producers : Offer(p) \/ Producer(p)
  BY <1>6, <1>7, <1>8, <1>9, <1>15 DEF Producer
<1>16. CASE Receive \/ Drain BY <1>10, <1>13, <1>14, <1>16
<1>17. CASE Flush BY <1>11, <1>12, <1>17 DEF Flush
<1>18. CASE Tick \/ Shutdown \/ Close \/ Cancel \/ UNCHANGED vars BY <1>13, <1>18
<1> QED BY <1>15, <1>16, <1>17, <1>18 DEF Next

-----------------------------------------------------------------------------
(* The line.                                                                  *)

(* A producer moves on through its offers, and never back.                    *)
LEMMA TakenGrows ==
  ASSUME TypeOK, OffersNumbered, [Next]_vars
  PROVE  OffersNumbered' /\ \A p \in Producers : Taken(p)' \in Nat /\ Taken(p) <= Taken(p)'
<1>1. \A p \in Producers : offered[p] \in Nat BY WriterAssumption DEF TypeOK
<1>2. ASSUME offering' = offering, offered' = offered
      PROVE  OffersNumbered' /\ \A p \in Producers : Taken(p)' \in Nat /\ Taken(p) <= Taken(p)'
  BY <1>1, <1>2 DEF OffersNumbered, Taken
<1>3. ASSUME NEW q \in Producers, Offer(q)
      PROVE  OffersNumbered' /\ \A p \in Producers : Taken(p)' \in Nat /\ Taken(p) <= Taken(p)'
  <2>1. offering[q] = "idle" /\ offered' = [offered EXCEPT ![q] = @ + 1] BY <1>3 DEF Offer
  <2>2. \A p \in Producers : offered'[p] = IF p = q THEN offered[q] + 1 ELSE offered[p]
    BY <2>1 DEF TypeOK
  <2>3. \A p \in Producers : p # q => offering'[p] = offering[p] BY <1>3 DEF Offer, TypeOK
  <2> QED BY <1>1, <2>1, <2>2, <2>3 DEF OffersNumbered, Taken
<1>4. ASSUME NEW q \in Producers, Producer(q)
      PROVE  OffersNumbered' /\ \A p \in Producers : Taken(p)' \in Nat /\ Taken(p) <= Taken(p)'
  <2>1. offered' = offered /\ offering[q] # "idle"
    BY <1>4 DEF Producer, Send, Full, Evict, GiveUp, At
  <2>2. \A p \in Producers : p # q => offering'[p] = offering[p]
    BY <1>4 DEF Producer, Send, Full, Evict, GiveUp, MovedOn, TypeOK
  <2> QED BY <1>1, <2>1, <2>2 DEF OffersNumbered, Taken
<1>5. CASE Receive \/ Tick \/ Shutdown \/ Drain
  BY <1>2, <1>5 DEF Receive, Tick, Shutdown, Drain, producer
<1>6. CASE Flush
  BY <1>2, <1>6 DEF Flush, FlushSucceeds, FlushFails, FinalSucceeds, FinalFails, producer
<1>7. CASE Close \/ Cancel \/ UNCHANGED vars BY <1>2, <1>7 DEF Close, Cancel, vars, producer
<1> QED BY <1>3, <1>4, <1>5, <1>6, <1>7 DEF Next

(* What a step does to the line, whatever else it does: a row joins at the    *)
(* end, moves up, arrives at the server, or rows leave at the front of a part.*)
LEMMA LineSteps ==
  ASSUME TypeOK, [Next]_vars
  PROVE  \/ UNCHANGED <<stored, pending, rows, repeated>>
         \/ /\ UNCHANGED <<stored, pending, repeated>>
            /\ \E p \in Producers :
                 /\ offering[p] # "idle" /\ offering'[p] = "idle" /\ offered' = offered
                 /\ rows' = Append(rows, [from |-> p, n |-> offered[p]])
         \/ /\ UNCHANGED <<stored, repeated>>
            /\ rows # <<>> /\ rows' = Tail(rows) /\ pending' = Append(pending, Head(rows))
         \/ UNCHANGED <<rows, repeated>> /\ stored' = stored \o pending /\ pending' = <<>>
         \/ /\ IsSuffix(pending', pending) /\ IsSuffix(rows', rows)
            /\ \/ stored' = stored /\ repeated' = repeated
               \/ stored' = stored \o pending /\ repeated' = TRUE
<1>0. pending \in Seq(Row) /\ rows \in Seq(Row) /\ repeated \in BOOLEAN BY DEF TypeOK
<1>1. IsSuffix(pending, pending) /\ IsSuffix(rows, rows) /\ IsSuffix(<<>>, pending)
  BY <1>0, Suffixes
<1>2. ASSUME NEW p \in Producers, Offer(p)
      PROVE  UNCHANGED <<stored, pending, rows, repeated>>
  BY <1>2 DEF Offer, table, server
<1>3. ASSUME NEW p \in Producers, Send(p)
      PROVE  /\ UNCHANGED <<stored, pending, repeated>>
             /\ offering[p] # "idle" /\ offering'[p] = "idle" /\ offered' = offered
             /\ rows' = Append(rows, [from |-> p, n |-> offered[p]])
  BY <1>3 DEF Send, At, MovedOn, table, server, TypeOK
<1>4. ASSUME NEW p \in Producers, Full(p) \/ GiveUp(p)
      PROVE  UNCHANGED <<stored, pending, rows, repeated>>
  BY <1>4 DEF Full, GiveUp, channel, table, server
<1>5. ASSUME NEW p \in Producers, Evict(p)
      PROVE  UNCHANGED <<stored, pending, repeated>> /\ IsSuffix(rows', rows)
  <2>1. UNCHANGED <<stored, pending, repeated>> BY <1>5 DEF Evict, table, server
  <2>2. CASE rows = <<>>
    <3>1. rows' = rows BY <1>5, <2>2 DEF Evict, channel
    <3> QED BY <1>1, <2>1, <3>1
  <2>3. CASE rows # <<>>
    <3>1. rows' = Tail(rows) BY <1>5, <2>3 DEF Evict
    <3>2. IsSuffix(Tail(rows), rows) BY <1>0, <2>3, TailIsSuffix
    <3> QED BY <2>1, <3>1, <3>2
  <2> QED BY <2>2, <2>3
<1>6. ASSUME Receive \/ (Drain /\ rows # <<>>)
      PROVE  /\ UNCHANGED <<stored, repeated>>
             /\ rows # <<>> /\ rows' = Tail(rows) /\ pending' = Append(pending, Head(rows))
  BY <1>6 DEF Receive, Drain, server
<1>7. ASSUME Drain, rows = <<>> PROVE UNCHANGED <<stored, pending, rows, repeated>>
  BY <1>7 DEF Drain, server
<1>8. ASSUME FlushSucceeds \/ FinalSucceeds
      PROVE  UNCHANGED <<rows, repeated>> /\ stored' = stored \o pending /\ pending' = <<>>
  BY <1>8 DEF FlushSucceeds, FinalSucceeds, Inserted, channel
<1>9. ASSUME FlushFails \/ FinalFails
      PROVE  /\ IsSuffix(pending', pending) /\ IsSuffix(rows', rows)
             /\ \/ stored' = stored /\ repeated' = repeated
                \/ stored' = stored \o pending /\ repeated' = TRUE
  <2>1. Refused /\ rows' = rows BY <1>9 DEF FlushFails, FinalFails
  <2>2. PICK arrived \in BOOLEAN : /\ stored' = IF arrived THEN stored \o pending ELSE stored
                                   /\ repeated' = (repeated \/ arrived)
    BY <2>1 DEF Refused
  <2>3. \/ stored' = stored /\ repeated' = repeated
        \/ stored' = stored \o pending /\ repeated' = TRUE
    <3>1. CASE arrived = TRUE
      <4>1. stored' = stored \o pending BY <2>2, <3>1
      <4>2. repeated' = TRUE BY Zenon, <2>2, <3>1
      <4> QED BY <4>1, <4>2
    <3>2. CASE arrived = FALSE
      <4>1. stored' = stored BY <2>2, <3>2
      <4>2. repeated' = repeated BY <1>0, <2>2, <3>2
      <4> QED BY <4>1, <4>2
    <3> QED BY <3>1, <3>2
  <2>4. IsSuffix(Retained(pending), pending) BY <1>0, RetainedFacts
  <2>5. pending' \in {Retained(pending), <<>>} BY <1>9 DEF FlushFails, FinalFails
  <2> QED BY <1>1, <2>1, <2>3, <2>4, <2>5
<1>10. ASSUME Tick \/ Shutdown \/ Close \/ Cancel \/ UNCHANGED vars
       PROVE  UNCHANGED <<stored, pending, rows, repeated>>
  BY <1>10 DEF Tick, Shutdown, Close, Cancel, vars, channel, table, server
<1>11. CASE \E p \in Producers : Offer(p) \/ Producer(p)
  BY <1>1, <1>2, <1>3, <1>4, <1>5, <1>11 DEF Producer
<1>12. CASE Receive \/ Drain BY <1>6, <1>7, <1>12
<1>13. CASE Flush BY <1>8, <1>9, <1>13 DEF Flush
<1>14. CASE Tick \/ Shutdown \/ Close \/ Cancel \/ UNCHANGED vars BY <1>10, <1>14
<1> QED BY <1>11, <1>12, <1>13, <1>14 DEF Next

(* The line stays numbered and in order. *)
LEMMA LineStep ==
  ASSUME TypeOK, OffersNumbered, AllNumbered, InLine, [Next]_vars
  PROVE  AllNumbered' /\ InLine'
<1>0. /\ stored \in Seq(Row) /\ pending \in Seq(Row) /\ rows \in Seq(Row)
      /\ repeated \in BOOLEAN /\ <<>> \in Seq(Row)
  BY EmptySeq DEF TypeOK
<1>1. TypeOK' BY TypesStep
<1>2. stored' \in Seq(Row) /\ pending' \in Seq(Row) /\ rows' \in Seq(Row) BY <1>1 DEF TypeOK
<1> DEFINE next == [p \in Producers |-> Taken(p)']
<1>3. \A p \in Producers : next[p] = Taken(p)' /\ next[p] \in Nat /\ Taken(p) <= next[p]
  BY TakenGrows
<1>4. \A p \in Producers : Taken(p) \in Int BY WriterAssumption DEF TypeOK, Taken
<1> DEFINE Fits(s) == \A i \in 1..Len(s) : s[i].n <= next[s[i].from]
<1> HIDE DEF next
<1>5. ASSUME NEW s \in Seq(Row), Numbered(s) PROVE Fits(s)
  <2> SUFFICES ASSUME NEW i \in 1..Len(s) PROVE s[i].n <= next[s[i].from]
    OBVIOUS
  <2>1. s[i] \in Row BY ElementOfSeq
  <2>2. s[i].from \in Producers /\ s[i].n \in Int BY <2>1 DEF Row
  <2>3. s[i].n <= Taken(s[i].from) BY <1>5 DEF Numbered
  <2> QED BY <1>3, <1>4, <2>2, <2>3
<1>6. Fits(stored) /\ Fits(pending) /\ Fits(rows)
  <2>1. Numbered(stored) /\ Numbered(pending) /\ Numbered(rows) BY DEF AllNumbered
  <2> HIDE DEF Fits
  <2> QED BY <1>0, <1>5, <2>1
<1>7. ASSUME Fits(stored'), Fits(pending'), Fits(rows') PROVE AllNumbered'
  <2>1. \A p \in Producers :
          next[p] = IF offering'[p] = "idle" THEN offered'[p] ELSE offered'[p] - 1
    BY <1>3 DEF Taken
  <2>2. \A r \in Row : r.from \in Producers BY DEF Row
  <2>3. \A i \in 1..Len(stored') : stored'[i] \in Row BY <1>2
  <2>4. \A i \in 1..Len(pending') : pending'[i] \in Row BY <1>2
  <2>5. \A i \in 1..Len(rows') : rows'[i] \in Row BY <1>2
  <2>6. Numbered(stored)' BY <1>7, <2>1, <2>2, <2>3 DEF Numbered, Taken
  <2>7. Numbered(pending)' BY <1>7, <2>1, <2>2, <2>4 DEF Numbered, Taken
  <2>8. Numbered(rows)' BY <1>7, <2>1, <2>2, <2>5 DEF Numbered, Taken
  <2> QED BY <2>6, <2>7, <2>8 DEF AllNumbered
<1>8. Fits(stored \o pending)
  <2>1. \A i \in 1..Len(stored \o pending) :
          \/ i \in 1..Len(stored) /\ (stored \o pending)[i] = stored[i]
          \/ /\ i - Len(stored) \in 1..Len(pending)
             /\ (stored \o pending)[i] = pending[i - Len(stored)]
    BY <1>0, ConcatProperties
  <2> QED BY <1>6, <2>1 DEF Fits
<1> HIDE DEF Fits
<1>9. CASE UNCHANGED <<stored, pending, rows, repeated>>
  <2>1. AllNumbered' BY <1>6, <1>7, <1>9
  <2>2. InLine' BY <1>9 DEF InLine
  <2> QED BY <2>1, <2>2
<1>10. ASSUME UNCHANGED <<stored, pending, repeated>>, NEW p \in Producers,
             offering[p] # "idle", offering'[p] = "idle", offered' = offered,
             rows' = Append(rows, [from |-> p, n |-> offered[p]])
      PROVE  AllNumbered' /\ InLine'
  <2> DEFINE r == [from |-> p, n |-> offered[p]]
  <2>1. offered[p] \in 1..RowsEach BY <1>10, WriterAssumption DEF OffersNumbered, TypeOK
  <2>2. r \in Row /\ r.from = p /\ r.n = offered[p] BY <2>1 DEF Row
  <2>3. Taken(p) = offered[p] - 1 /\ next[p] = offered[p] BY <1>3, <1>10 DEF Taken
  <2> HIDE DEF r
  <2>4. ASSUME NEW s \in Seq(Row), Numbered(s)
        PROVE  \A i \in 1..Len(s) : s[i].from = r.from => s[i].n < r.n
    <3> SUFFICES ASSUME NEW i \in 1..Len(s), s[i].from = r.from PROVE s[i].n < r.n
      OBVIOUS
    <3>1. s[i] \in Row BY ElementOfSeq
    <3>2. s[i].n \in Int BY <3>1 DEF Row
    <3>3. s[i].n <= Taken(p) BY <2>2, <2>4 DEF Numbered
    <3> QED BY <2>1, <2>2, <2>3, <3>2, <3>3
  <2>5. rows' = Append(rows, r) BY <1>10 DEF r
  <2>6. Fits(rows')
    <3>1. Len(rows') = Len(rows) + 1 /\ Len(rows) \in Nat BY <1>0, <2>2, <2>5
    <3>2. rows'[Len(rows) + 1] = r /\ \A i \in 1..Len(rows) : rows'[i] = rows[i]
      BY <1>0, <2>2, <2>5
    <3>3. \A i \in 1..Len(rows') : i \in 1..Len(rows) \/ i = Len(rows) + 1 BY <3>1
    <3>4. r.n <= next[r.from] BY <2>1, <2>2, <2>3
    <3> QED BY <1>6, <3>2, <3>3, <3>4 DEF Fits
  <2>7. AllNumbered' BY <1>6, <1>7, <1>10, <2>6
  <2>8. repeated' = repeated BY <1>10
  <2>9. CASE ~repeated
    <3>1. Line(stored, pending, rows) BY <2>9 DEF InLine
    <3>2. Line(stored, pending, Append(rows, r))
      <4>1. Numbered(stored) /\ Numbered(pending) /\ Numbered(rows) BY DEF AllNumbered
      <4>2. \A i \in 1..Len(stored) : stored[i].from = r.from => stored[i].n < r.n
        BY <1>0, <2>4, <4>1
      <4>3. \A i \in 1..Len(pending) : pending[i].from = r.from => pending[i].n < r.n
        BY <1>0, <2>4, <4>1
      <4>4. \A i \in 1..Len(rows) : rows[i].from = r.from => rows[i].n < r.n
        BY <1>0, <2>4, <4>1
      <4> QED BY <1>0, <2>2, <3>1, <4>2, <4>3, <4>4, LineGrows
    <3> QED BY <1>10, <2>5, <2>7, <3>2 DEF InLine
  <2>10. CASE repeated BY <2>7, <2>8, <2>10 DEF InLine
  <2> QED BY <2>9, <2>10
<1>11. ASSUME UNCHANGED <<stored, repeated>>, rows # <<>>, rows' = Tail(rows),
              pending' = Append(pending, Head(rows))
       PROVE  AllNumbered' /\ InLine'
  <2>1. /\ Tail(rows) \in Seq(Row) /\ Head(rows) \in Row /\ Head(rows) = rows[1]
        /\ Len(rows) >= 1 /\ IsSuffix(Tail(rows), rows)
    BY <1>0, <1>11, TailIsSuffix
  <2>2. Numbered(Tail(rows)) BY <1>0, <2>1, SuffixOrder DEF AllNumbered
  <2>3. Fits(rows') BY <1>5, <1>11, <2>1, <2>2
  <2>4. Fits(pending')
    <3>1. Len(pending') = Len(pending) + 1 /\ Len(pending) \in Nat BY <1>0, <1>11, <2>1
    <3>2. /\ pending'[Len(pending) + 1] = rows[1]
          /\ \A i \in 1..Len(pending) : pending'[i] = pending[i]
      BY <1>0, <1>11, <2>1
    <3>3. \A i \in 1..Len(pending') : i \in 1..Len(pending) \/ i = Len(pending) + 1 BY <3>1
    <3>4. 1 \in 1..Len(rows) BY <1>0, <2>1
    <3> QED BY <1>6, <3>2, <3>3, <3>4 DEF Fits
  <2>5. AllNumbered' BY <1>6, <1>7, <1>11, <2>3, <2>4
  <2>6. ~repeated => Line(stored, Append(pending, Head(rows)), Tail(rows))
    BY <1>0, <1>11, LineMoves DEF InLine
  <2> QED BY <1>11, <2>5, <2>6 DEF InLine
<1>12. ASSUME UNCHANGED <<rows, repeated>>, stored' = stored \o pending, pending' = <<>>
       PROVE  AllNumbered' /\ InLine'
  <2>1. Fits(<<>>) BY EmptySeq DEF Fits
  <2>2. AllNumbered' BY <1>6, <1>7, <1>8, <1>12, <2>1
  <2>3. ASSUME ~repeated PROVE Line(stored \o pending, <<>>, rows)
    BY <1>0, <2>3, LineInserts DEF InLine
  <2> QED BY <1>12, <2>2, <2>3 DEF InLine
<1>13. ASSUME IsSuffix(pending', pending), IsSuffix(rows', rows),
              \/ stored' = stored /\ repeated' = repeated
              \/ stored' = stored \o pending /\ repeated' = TRUE
       PROVE  AllNumbered' /\ InLine'
  <2>1. Numbered(pending') /\ Numbered(rows')
    BY <1>0, <1>2, <1>13, SuffixOrder DEF AllNumbered
  <2>2. Fits(pending') /\ Fits(rows') BY <1>2, <1>5, <2>1
  <2>3. CASE stored' = stored /\ repeated' = repeated
    <3>1. AllNumbered' BY <1>6, <1>7, <2>2, <2>3
    <3>2. ASSUME ~repeated PROVE Line(stored, pending', rows')
      BY <1>0, <1>2, <1>13, <3>2, LineLoses DEF InLine
    <3> QED BY <2>3, <3>1, <3>2 DEF InLine
  <2>4. CASE stored' = stored \o pending /\ repeated' = TRUE
    <3>1. AllNumbered' BY <1>7, <1>8, <2>2, <2>4
    <3> QED BY <2>4, <3>1 DEF InLine
  <2> QED BY <1>13, <2>3, <2>4
<1> QED BY <1>9, <1>10, <1>11, <1>12, <1>13, LineSteps

-----------------------------------------------------------------------------
(* The invariant.                                                             *)

(* It holds in the beginning, when there is no row anywhere ... *)
LEMMA InitInvariant == ASSUME Init PROVE IInv
<1>1. TypeOK BY InitTypes
<1>2. /\ OffersNumbered /\ NewestLostToRival /\ DrainsAfterClose /\ OnTheirWay
      /\ flusher = "select" /\ dropped = 0 /\ saved = 0
      /\ rows = <<>> /\ pending = <<>> /\ stored = <<>>
  BY DEF Init, OffersNumbered, NewestLostToRival, DrainsAfterClose, OnTheirWay
<1>3. Len(<<>>) = 0 BY EmptySeq
<1>4. SelectHasRoom /\ BacklogInChannel
  BY <1>2, <1>3, WriterAssumption DEF SelectHasRoom, BacklogInChannel
<1>5. Begun = {}
  <2>1. \A r \in Row : r.from \in Producers /\ r.n \in 1..RowsEach BY DEF Row
  <2>2. \A p \in Producers : offered[p] = 0 BY DEF Init
  <2>3. ASSUME NEW r \in Row PROVE ~(r.n <= offered[r.from])
    BY <2>1, <2>2, WriterAssumption
  <2> QED BY <2>3 DEF Begun
<1>6. Offering = {} BY DEF Init, Offering
<1>7. BegunFinite /\ EveryRowAccounted
  BY <1>2, <1>3, <1>5, <1>6, FS_EmptySet DEF BegunFinite, EveryRowAccounted
<1>8. AllNumbered /\ InLine
  BY <1>2, <1>3 DEF AllNumbered, Numbered, InLine, Line, Ordered, Ahead
<1> QED BY <1>1, <1>2, <1>4, <1>7, <1>8 DEF IInv

(* ... and through every step. *)
LEMMA StepInvariant == ASSUME IInv, [Next]_vars PROVE IInv'
<1>1. TypeOK' BY TypesStep DEF IInv
<1>2. OffersNumbered' BY TakenGrows DEF IInv
<1>3. SelectHasRoom' /\ BacklogInChannel' BY BatchStep DEF IInv
<1>4. NewestLostToRival' BY RivalStep DEF IInv
<1>5. DrainsAfterClose' BY CloseStep DEF IInv
<1>6. OnTheirWay' BY OnTheirWayStep DEF IInv
<1>7. BegunFinite' /\ EveryRowAccounted' BY AccountStep DEF IInv
<1>8. AllNumbered' /\ InLine' BY LineStep DEF IInv
<1> QED BY <1>1, <1>2, <1>3, <1>4, <1>5, <1>6, <1>7, <1>8 DEF IInv

(* The inductive invariant of the writer. *)
THEOREM WriterInvariant == Spec => []IInv
BY InitInvariant, StepInvariant, PTL DEF Spec

(* What waits in memory is bounded for any number of producers, any size of   *)
(* channel and batch and any outage: the backlog stays in the channel, only a *)
(* rival costs the newest row, behind Close no producer strands more than     *)
(* one, and every row is accounted for (runTable, offer, Close).              *)
THEOREM WriterIsSound == Spec => []Inv
<1>1. IInv => Inv
  BY DEF IInv, Inv, OnTheirWay, StrandedBounded
<1> QED BY <1>1, WriterInvariant, PTL

(* Every row is stored, waiting or counted, whatever overflows, fails or is   *)
(* closed (offer, recordDrop, runTable).                                      *)
THEOREM RowsAreAccounted == Spec => []EveryRowAccounted
<1>1. IInv => EveryRowAccounted BY DEF IInv
<1> QED BY <1>1, WriterInvariant, PTL

(* A producer's rows are stored once and in its order, unless the server      *)
(* stored what it reported as failed (offer, runTable).                       *)
THEOREM RowsKeepTheirOrder == Spec => []StoredInOrder
<1>1. IInv => StoredInOrder BY DEF IInv, InLine, Line, Ordered, StoredInOrder
<1> QED BY <1>1, WriterInvariant, PTL

-----------------------------------------------------------------------------
(* The query cache.                                                           *)
Results == [rows : Versions, err : {"nil", "failed", "refused"}]

CallStates ==
  [key : Keys, stage : {"querying"}]
    \cup [key : Keys, stage : {"answered", "finished"}, result : Results]

CallerStates ==
  {Idle}
    \cup [stage : {"lookup", "missed"}, key : Keys, floor : Versions]
    \cup [stage : {"waiting"}, key : Keys, floor : Versions, call : 1..MaxRequests]
    \cup [stage : {"woken"}, key : Keys, floor : Versions, result : Results]

CacheTypes ==
  /\ data \in Versions /\ requests \in 0..MaxRequests
  /\ newest \in [Keys -> Versions]
  /\ caller \in [Callers -> CallerStates]
  /\ DOMAIN calls \subseteq 1..MaxRequests
  /\ \A c \in DOMAIN calls : calls[c] \in CallStates

(* The list holds the keys of the map, each once, and no more than fit.       *)
ListIsMap(o, f) ==
  /\ o \in Seq(Keys) /\ Len(o) <= MaxEntries
  /\ \A i, j \in 1..Len(o) : o[i] = o[j] => i = j
  /\ DOMAIN f = {o[i] : i \in 1..Len(o)}
  /\ \A k \in DOMAIN f : f[k] \in [rows : Versions, fresh : BOOLEAN]

(* The flight table is the map from a key to the one query that runs for it.  *)
FlightTable ==
  /\ DOMAIN inflight \subseteq Keys
  /\ IsFiniteSet(DOMAIN inflight) /\ Cardinality(DOMAIN inflight) <= MaxLeaders
  /\ \A k \in DOMAIN inflight : inflight[k] \in Running /\ calls[inflight[k]].key = k
  /\ \A c \in Running : calls[c].key \in DOMAIN inflight /\ inflight[calls[c].key] = c

(* Requests that may still start a query. *)
Asking == {r \in Callers : caller[r].stage \in {"lookup", "missed"}}

(* There is a number left for each of them. *)
NumbersLast ==
  /\ IsFiniteSet(Asking)
  /\ Cardinality(DOMAIN calls) + Cardinality(Asking) <= requests

Waits(r) == caller[r].stage = "waiting"
Done(c)  == calls[c].stage = "finished" /\ calls[c].result.err = "nil"
Fresh(c) == calls[c].stage = "answered" /\ calls[c].result.err = "nil"
Hears(r) == caller[r].stage = "woken" /\ caller[r].result.err = "nil"

(* A request waits for a query of its own key. *)
WaitersFollow ==
  \A r \in Callers : Waits(r) => caller[r].call \in DOMAIN calls /\ calls[caller[r].call].key = caller[r].key

(* The versions of a key that requests were told, or that are on their way.   *)
Known(k) ==
  {newest[k]}
    \cup {calls[c].result.rows : c \in {x \in DOMAIN calls : calls[x].key = k /\ Done(x)}}
    \cup {caller[r].result.rows : r \in {x \in Callers : Hears(x) /\ caller[x].key = k}}

(* None of them is newer than the database, than what is cached or than what  *)
(* the query that runs has read.                                              *)
NothingIsNewer ==
  \A k \in Keys : \A v \in Known(k) :
    /\ v <= data
    /\ k \in DOMAIN items => v <= items[k].rows
    /\ \A c \in DOMAIN calls : calls[c].key = k /\ Fresh(c) => v <= calls[c].result.rows

(* What is cached is not newer either. *)
CacheIsOlder ==
  /\ \A k \in DOMAIN items : items[k].rows <= data
  /\ \A c \in DOMAIN calls :
       Fresh(c) => /\ calls[c].result.rows <= data
                   /\ calls[c].key \in DOMAIN items => items[calls[c].key].rows <= calls[c].result.rows

(* A request began with what was known, and is sent nothing older.            *)
FloorHolds(r) ==
  /\ caller[r].stage # "idle" => caller[r].floor <= newest[caller[r].key]
  /\ Waits(r) /\ Done(caller[r].call) => caller[r].floor <= calls[caller[r].call].result.rows
  /\ Hears(r) => caller[r].floor <= caller[r].result.rows

FloorsHold == \A r \in Callers : FloorHolds(r)

CacheIInv ==
  /\ CacheTypes /\ ListIsMap(order, items) /\ FlightTable /\ NumbersLast /\ WaitersFollow
  /\ NothingIsNewer /\ CacheIsOlder /\ FloorsHold

(* Where a cached key is in the list. *)
LEMMA PlaceFacts ==
  ASSUME ListIsMap(order, items), NEW k
  PROVE  /\ k \in DOMAIN items => Place(k) \in 1..Len(order) /\ order[Place(k)] = k
         /\ k \notin DOMAIN items => Place(k) = Len(order) + 1
         /\ Place(k) \in Nat /\ 1 <= Place(k)
<1>1. Len(order) \in Nat
  BY DEF ListIsMap
<1>2. CASE k \in DOMAIN items
  <2>1. \E i \in 1..Len(order) : order[i] = k
    BY <1>2 DEF ListIsMap
  <2>2. Place(k) = CHOOSE i \in 1..Len(order) : order[i] = k
    BY <1>2 DEF Place
  <2>3. Place(k) \in 1..Len(order) /\ order[Place(k)] = k
    BY <2>1, <2>2
  <2> QED BY <1>1, <1>2, <2>3
<1>3. CASE k \notin DOMAIN items
  BY <1>1, <1>3 DEF Place
<1> QED BY <1>2, <1>3

(* The list with a key in front: the key comes first, those that were before  *)
(* its place move by one, and nothing else changes.                           *)
LEMMA FrontFacts ==
  ASSUME ListIsMap(order, items), NEW k \in Keys, NEW p, p = Place(k),
         NEW n, n = (IF k \in DOMAIN items THEN Len(order) ELSE Len(order) + 1),
         NEW q, q = ToFront(k)
  PROVE  /\ q \in Seq(Keys) /\ Len(q) = n /\ n \in Nat /\ 1 <= n
         /\ q[1] = k
         /\ \A j \in 2..p : q[j] = order[j - 1]
         /\ \A j \in (p + 1)..n : q[j] = order[j]
         /\ p \in 1..n
<1>1. /\ k \in DOMAIN items => p \in 1..Len(order) /\ order[p] = k
      /\ k \notin DOMAIN items => p = Len(order) + 1
      /\ p \in Nat /\ 1 <= p
  BY PlaceFacts
<1>2. Len(order) \in Nat /\ \A i \in 1..Len(order) : order[i] \in Keys
  BY ElementOfSeq DEF ListIsMap
<1>3. n \in Nat /\ p \in 1..n
  BY <1>1, <1>2
<1>4. q = [j \in 1..n |-> IF j = 1 THEN k ELSE IF j <= p THEN order[j - 1] ELSE order[j]]
  BY DEF ToFront
<1>5. \A j \in 2..p : j - 1 \in 1..Len(order) /\ j \in 1..n /\ j # 1
  BY <1>1, <1>2, <1>3
<1>6. \A j \in (p + 1)..n : j \in 1..Len(order) /\ j \in 1..n /\ j # 1 /\ ~(j <= p)
  BY <1>1, <1>2, <1>3
<1>7. \A j \in 1..n : q[j] \in Keys
  <2> TAKE j \in 1..n
  <2>1. j = 1 \/ j \in 2..p \/ j \in (p + 1)..n
    BY <1>3
  <2> QED BY <1>2, <1>4, <1>5, <1>6, <2>1
<1>8. q \in Seq(Keys) /\ Len(q) = n
  <2>1. DOMAIN q = 1..n
    BY <1>4
  <2>2. q \in [1..n -> Keys]
    BY <1>4, <1>7
  <2> QED BY <1>3, <2>1, <2>2, LenProperties
<1>9. q[1] = k
  BY <1>3, <1>4
<1>10. \A j \in 2..p : q[j] = order[j - 1]
  BY <1>4, <1>5
<1>11. \A j \in (p + 1)..n : q[j] = order[j]
  BY <1>4, <1>6
<1> QED BY <1>3, <1>8, <1>9, <1>10, <1>11

(* It still holds every key once, that key included. *)
LEMMA FrontKeys ==
  ASSUME ListIsMap(order, items), NEW k \in Keys, NEW q, q = ToFront(k)
  PROVE  /\ \A i, j \in 1..Len(q) : q[i] = q[j] => i = j
         /\ {q[i] : i \in 1..Len(q)} = DOMAIN items \cup {k}
<1>0. PICK p, n : p = Place(k) /\ n = (IF k \in DOMAIN items THEN Len(order) ELSE Len(order) + 1)
  OBVIOUS
<1>1. /\ k \in DOMAIN items => p \in 1..Len(order) /\ order[p] = k
      /\ k \notin DOMAIN items => p = Len(order) + 1
      /\ p \in Nat /\ 1 <= p
  BY <1>0, PlaceFacts
<1>2. /\ Len(q) = n /\ n \in Nat /\ 1 <= n /\ q[1] = k
      /\ \A j \in 2..p : q[j] = order[j - 1]
      /\ \A j \in (p + 1)..n : q[j] = order[j]
      /\ p \in 1..n
  BY <1>0, FrontFacts
<1>3. /\ k \in DOMAIN items => n = Len(order)
      /\ k \notin DOMAIN items => n = Len(order) + 1
      /\ Len(order) \in Nat
  BY <1>0 DEF ListIsMap
<1>4. /\ \A i, j \in 1..Len(order) : order[i] = order[j] => i = j
      /\ DOMAIN items = {order[i] : i \in 1..Len(order)}
  BY DEF ListIsMap
(* From a place of the new list to one of the old, k aside. *)
<1> DEFINE Back(j) == IF j <= p THEN j - 1 ELSE j
<1>5. \A j \in 2..n : /\ Back(j) \in 1..Len(order) /\ q[j] = order[Back(j)]
                      /\ Back(j) # p \/ k \notin DOMAIN items
  <2> TAKE j \in 2..n
  <2>1. j \in 2..p \/ j \in (p + 1)..n
    BY <1>2
  <2>2. CASE j \in 2..p
    <3>1. Back(j) = j - 1 /\ j - 1 \in 1..Len(order) /\ j - 1 # p
      BY <1>1, <1>2, <1>3, <2>2
    <3> QED BY <1>2, <2>2, <3>1
  <2>3. CASE j \in (p + 1)..n
    <3>1. Back(j) = j /\ j \in 1..Len(order) /\ j # p
      BY <1>1, <1>2, <1>3, <2>3
    <3> QED BY <1>2, <2>3, <3>1
  <2> QED BY <2>1, <2>2, <2>3
<1>6. \A i, j \in 2..n : Back(i) = Back(j) => i = j
  <2>1. \A i, j \in 2..n : (IF i <= p THEN i - 1 ELSE i) = (IF j <= p THEN j - 1 ELSE j) /\ i # j =>
          \/ i <= p /\ ~(j <= p) /\ j = i - 1
          \/ j <= p /\ ~(i <= p) /\ i = j - 1
    BY <1>2
  <2>2. \A i, j \in 2..n : ~(i <= p /\ ~(j <= p) /\ j = i - 1)
    BY <1>2
  <2> QED BY <2>1, <2>2
<1>7. \A j \in 2..n : q[j] # k
  <2> SUFFICES ASSUME NEW j \in 2..n, q[j] = k PROVE FALSE
    OBVIOUS
  <2>1. order[Back(j)] = k /\ Back(j) \in 1..Len(order)
    BY <1>5
  <2> HIDE DEF Back
  <2>2. k \in DOMAIN items
    BY <1>4, <2>1
  <2>3. Back(j) = p
    BY <1>1, <1>4, <2>1, <2>2
  <2> QED BY <1>5, <2>2, <2>3
<1>8. \A i, j \in 1..Len(q) : q[i] = q[j] => i = j
  <2> SUFFICES ASSUME NEW i \in 1..n, NEW j \in 1..n, q[i] = q[j] PROVE i = j
    BY <1>2
  <2>1. (i = 1 \/ i \in 2..n) /\ (j = 1 \/ j \in 2..n)
    BY <1>2
  <2>2. CASE i \in 2..n /\ j \in 2..n
    <3>1. order[Back(i)] = order[Back(j)] /\ Back(i) \in 1..Len(order) /\ Back(j) \in 1..Len(order)
      BY <1>5, <2>2
    <3> HIDE DEF Back
    <3>2. Back(i) = Back(j)
      BY <1>4, <3>1
    <3> QED BY <1>6, <2>2, <3>2
  <2> QED BY <1>2, <1>7, <2>1, <2>2
<1>9. {q[i] : i \in 1..Len(q)} \subseteq DOMAIN items \cup {k}
  <2> SUFFICES ASSUME NEW j \in 1..n PROVE q[j] \in DOMAIN items \cup {k}
    BY <1>2
  <2>1. j = 1 \/ j \in 2..n
    BY <1>2
  <2>2. CASE j \in 2..n
    <3>1. q[j] = order[Back(j)] /\ Back(j) \in 1..Len(order)
      BY <1>5, <2>2
    <3> HIDE DEF Back
    <3> QED BY <1>4, <3>1
  <2> QED BY <1>2, <2>1, <2>2
<1>10. DOMAIN items \cup {k} \subseteq {q[i] : i \in 1..Len(q)}
  <2> SUFFICES ASSUME NEW x \in DOMAIN items, x # k PROVE \E i \in 1..n : q[i] = x
    BY <1>2
  <2>1. PICK i \in 1..Len(order) : order[i] = x
    BY <1>4
  <2>2. i # p \/ k \notin DOMAIN items
    BY <1>1, <2>1
  <2>3. CASE i < p
    <3>1. i + 1 \in 2..p /\ i + 1 \in 1..n /\ (i + 1) - 1 = i
      BY <1>2, <2>3
    <3> QED BY <1>2, <2>1, <3>1
  <2>4. CASE ~(i < p)
    <3>1. i \in (p + 1)..n /\ i \in 1..n
      BY <1>1, <1>2, <1>3, <2>2, <2>4
    <3> QED BY <1>2, <2>1, <3>1
  <2> QED BY <2>3, <2>4
<1> QED BY <1>8, <1>9, <1>10

(* A hit leaves the list and the map in step. *)
LEMMA HitKeepsList ==
  ASSUME ListIsMap(order, items), NEW k \in DOMAIN items
  PROVE  ListIsMap(ToFront(k), items)
<1> DEFINE q == ToFront(k)
<1>1. k \in Keys
  BY ElementOfSeq DEF ListIsMap
<1>2. q \in Seq(Keys) /\ Len(q) = Len(order)
  BY <1>1, FrontFacts
<1>3. /\ \A i, j \in 1..Len(q) : q[i] = q[j] => i = j
      /\ {q[i] : i \in 1..Len(q)} = DOMAIN items \cup {k}
  BY <1>1, FrontKeys
<1>4. DOMAIN items \cup {k} = DOMAIN items
  OBVIOUS
<1> HIDE DEF q
<1>5. ListIsMap(q, items)
  BY <1>2, <1>3, <1>4 DEF ListIsMap
<1> QED BY <1>5 DEF q

(* A store puts its entry in, takes out no more than what no longer fits, and *)
(* leaves every other entry as it is.                                         *)
LEMMA StoreFacts ==
  ASSUME ListIsMap(order, items), NEW k \in Keys, NEW v \in Versions,
         Store(k, v)
  PROVE  /\ ListIsMap(order', items')
         /\ k \in DOMAIN items' /\ items'[k] = [rows |-> v, fresh |-> TRUE]
         /\ \A x \in DOMAIN items' : x # k => x \in DOMAIN items /\ items'[x] = items[x]
<1> DEFINE q == ToFront(k)
           m == IF Len(q) > MaxEntries THEN MaxEntries ELSE Len(q)
<1>1. /\ q \in Seq(Keys) /\ Len(q) \in Nat /\ 1 <= Len(q) /\ q[1] = k
  BY FrontFacts
<1>2. /\ \A i, j \in 1..Len(q) : q[i] = q[j] => i = j
      /\ {q[i] : i \in 1..Len(q)} = DOMAIN items \cup {k}
  BY FrontKeys
<1>3. order' = SubSeq(q, 1, m)
  BY DEF Store, Evicted
<1>4. items' = [x \in {order'[i] : i \in 1..Len(order')} |->
                  IF x = k THEN [rows |-> v, fresh |-> TRUE] ELSE items[x]]
  BY DEF Store
<1> HIDE DEF q
<1>5. m \in Nat /\ 1 <= m /\ m <= Len(q) /\ m <= MaxEntries
  BY <1>1, CacheAssumption
<1> HIDE DEF m
<1>6. /\ order' \in Seq(Keys) /\ Len(order') = m
      /\ \A i \in 1..m : order'[i] = q[i] /\ i \in 1..Len(q)
  <2>1. 1 \in 1..(Len(q) + 1) /\ m \in 1 - 1..Len(q)
    BY <1>1, <1>5
  <2>2. SubSeq(q, 1, m) \in Seq(Keys) /\ Len(SubSeq(q, 1, m)) = m /\ \A i \in 1..m : SubSeq(q, 1, m)[i] = q[i]
    BY <1>1, <1>5, SubSeqProperties
  <2> QED BY <1>1, <1>3, <1>5, <2>2
<1>7. k \in DOMAIN items'
  BY <1>1, <1>4, <1>5, <1>6
<1>8. \A x \in DOMAIN items' : x # k => x \in DOMAIN items
  <2> SUFFICES ASSUME NEW x \in DOMAIN items', x # k PROVE x \in DOMAIN items
    OBVIOUS
  <2>1. PICK i \in 1..m : order'[i] = x
    BY <1>4, <1>6
  <2>2. x \in {q[j] : j \in 1..Len(q)}
    BY <1>6, <2>1
  <2> QED BY <1>2, <2>2
<1>9. \A x \in DOMAIN items' : x # k => items'[x] = items[x]
  BY <1>4
<1>10. items'[k] = [rows |-> v, fresh |-> TRUE]
  BY <1>4, <1>7
<1>11. ListIsMap(order', items')
  <2>1. \A i, j \in 1..Len(order') : order'[i] = order'[j] => i = j
    BY <1>2, <1>6
  <2>2. DOMAIN items' = {order'[i] : i \in 1..Len(order')}
    BY <1>4
  <2>3. \A x \in DOMAIN items' : items'[x] \in [rows : Versions, fresh : BOOLEAN]
    <3> TAKE x \in DOMAIN items'
    <3>1. CASE x = k
      <4>1. [rows |-> v, fresh |-> TRUE] \in [rows : Versions, fresh : BOOLEAN]
        OBVIOUS
      <4> QED BY <1>10, <3>1, <4>1
    <3>2. CASE x # k
      BY <1>8, <1>9, <3>2 DEF ListIsMap
    <3> QED BY <3>1, <3>2
  <2> QED BY <1>5, <1>6, <2>1, <2>2, <2>3 DEF ListIsMap
<1> QED BY <1>7, <1>8, <1>9, <1>10, <1>11

(* What a request holds at each of its stages. *)
LEMMA CallerFacts ==
  ASSUME NEW x \in CallerStates
  PROVE  /\ x.stage \in {"idle", "lookup", "missed", "waiting", "woken"}
         /\ x.stage = "idle" => x = Idle
         /\ x.stage # "idle" => x.key \in Keys /\ x.floor \in Versions
         /\ x.stage = "waiting" => x.call \in 1..MaxRequests
         /\ x.stage = "woken" => x.result \in Results
BY DEF CallerStates, Idle

(* What a query holds at each of its stages. *)
LEMMA CallFacts ==
  ASSUME NEW x \in CallStates
  PROVE  /\ x.stage \in {"querying", "answered", "finished"} /\ x.key \in Keys
         /\ x.stage # "querying" => x.result \in Results
BY DEF CallStates

(* The states a request takes. *)
LEMMA CallerMakes ==
  ASSUME NEW k \in Keys, NEW f \in Versions
  PROVE  /\ Idle \in CallerStates
         /\ \A s \in {"lookup", "missed"} : [stage |-> s, key |-> k, floor |-> f] \in CallerStates
         /\ \A c \in 1..MaxRequests : [stage |-> "waiting", key |-> k, floor |-> f, call |-> c] \in CallerStates
         /\ \A x \in Results : [stage |-> "woken", key |-> k, floor |-> f, result |-> x] \in CallerStates
BY DEF CallerStates

(* The two results. *)
LEMMA ResultFacts ==
  /\ \A v \in Versions : Rows(v) \in Results /\ Rows(v).rows = v /\ Rows(v).err = "nil"
  /\ \A e \in {"failed", "refused"} : Error(e) \in Results
  /\ \A e : Error(e).err = e
  /\ \A x \in Results : x.rows \in Versions
<1>1. 0 \in Versions
  BY CacheAssumption DEF Versions
<1>2. \A v \in Versions : [rows |-> v, err |-> "nil"] \in Results
  BY DEF Results
<1>3. \A e \in {"failed", "refused"} : [rows |-> 0, err |-> e] \in Results
  BY <1>1 DEF Results
<1>4. \A x \in Results : x.rows \in Versions
  BY DEF Results
<1> QED BY <1>2, <1>3, <1>4 DEF Rows, Error

(* A request that returns is idle again; what it was told is known for its    *)
(* key from now on, and nothing else changes.                                 *)
LEMMA ToldFacts ==
  ASSUME CacheTypes, NEW r \in Callers, caller[r].stage # "idle", NEW what, Told(r, what),
         what.err = "nil" => what.rows \in Versions
  PROVE  /\ caller' = [caller EXCEPT ![r] = Idle]
         /\ caller' \in [Callers -> CallerStates] /\ newest' \in [Keys -> Versions]
         /\ \A k \in Keys : /\ newest[k] <= newest'[k]
                            /\ \/ newest'[k] = newest[k]
                               \/ k = caller[r].key /\ what.err = "nil" /\ newest'[k] = what.rows
<1> DEFINE k0 == caller[r].key
<1>1. caller[r] \in CallerStates /\ newest \in [Keys -> Versions] /\ caller \in [Callers -> CallerStates]
  BY DEF CacheTypes
<1>2. k0 \in Keys
  BY <1>1, CallerFacts
<1>3. caller' = [caller EXCEPT ![r] = Idle]
  BY DEF Told
<1>4. Idle \in CallerStates
  BY DEF CallerStates
<1>5. caller' \in [Callers -> CallerStates]
  BY <1>1, <1>3, <1>4
<1>6. newest' = IF what.err = "nil" /\ what.rows > newest[k0] THEN [newest EXCEPT ![k0] = what.rows] ELSE newest
  BY DEF Told
<1> HIDE DEF k0
<1>7. \A k \in Keys : newest[k] \in Versions
  BY <1>1
<1>8. \A x, y \in Versions : x <= x /\ (x > y => y <= x)
  BY DEF Versions
<1>9. CASE what.err = "nil" /\ what.rows > newest[k0]
  <2>1. newest' = [newest EXCEPT ![k0] = what.rows] /\ what.rows \in Versions
    BY <1>6, <1>9
  <2>2. newest' \in [Keys -> Versions] /\ newest'[k0] = what.rows
        /\ \A k \in Keys : k # k0 => newest'[k] = newest[k]
    BY <1>1, <1>2, <2>1
  <2> QED BY <1>2, <1>3, <1>5, <1>7, <1>8, <1>9, <2>1, <2>2 DEF k0
<1>10. CASE ~(what.err = "nil" /\ what.rows > newest[k0])
  <2>1. newest' = newest
    BY <1>6, <1>10
  <2> QED BY <1>1, <1>3, <1>5, <1>7, <1>8, <2>1
<1> QED BY <1>9, <1>10

-----------------------------------------------------------------------------
(* The flight table and the numbers.                                          *)

(* Who runs is decided by the queries alone. *)
LEMMA FlightKept ==
  ASSUME FlightTable, UNCHANGED <<calls, inflight>>
  PROVE  FlightTable'
BY DEF FlightTable, Running

(* There is a finite number of queries. *)
LEMMA CallsAreFinite ==
  ASSUME CacheTypes
  PROVE  /\ IsFiniteSet(DOMAIN calls)
         /\ IsFiniteSet(1..MaxRequests) /\ Cardinality(1..MaxRequests) = MaxRequests
<1>1. MaxRequests \in Nat /\ MaxRequests \in Int /\ 1 \in Int
  BY CacheAssumption
<1>2. /\ IsFiniteSet(1..MaxRequests)
      /\ Cardinality(1..MaxRequests) = IF 1 > MaxRequests THEN 0 ELSE MaxRequests - 1 + 1
  BY <1>1, FS_Interval
<1>3. Cardinality(1..MaxRequests) = MaxRequests
  BY <1>1, <1>2
<1>4. DOMAIN calls \subseteq 1..MaxRequests
  BY DEF CacheTypes
<1> QED BY <1>2, <1>3, <1>4, FS_Subset

(* A number is left for a request that may start a query. *)
LEMMA NumberIsLeft ==
  ASSUME CacheTypes, NumbersLast, NEW r \in Asking
  PROVE  NewCall \in 1..MaxRequests /\ NewCall \notin DOMAIN calls
<1>1. IsFiniteSet(DOMAIN calls) /\ IsFiniteSet(1..MaxRequests) /\ Cardinality(1..MaxRequests) = MaxRequests
  BY CallsAreFinite
<1>2. Cardinality(DOMAIN calls) \in Nat /\ Cardinality(Asking) \in Nat
  BY <1>1, FS_CardinalityType DEF NumbersLast
<1>3. Cardinality(Asking) # 0
  BY FS_EmptySet DEF NumbersLast
<1>4. requests \in Nat /\ requests <= MaxRequests /\ MaxRequests \in Nat
  BY CacheAssumption DEF CacheTypes
<1>5. Cardinality(DOMAIN calls) < MaxRequests
  BY <1>2, <1>3, <1>4 DEF NumbersLast
<1>6. DOMAIN calls # 1..MaxRequests
  BY <1>1, <1>2, <1>4, <1>5
<1>7. \E c \in 1..MaxRequests : c \notin DOMAIN calls
  BY <1>6 DEF CacheTypes
<1> QED BY <1>7 DEF NewCall

(* Numbers last while requests only return and queries only end. *)
LEMMA NumbersKept ==
  ASSUME NumbersLast, CacheTypes, CacheTypes',
         DOMAIN calls' \subseteq DOMAIN calls, Asking' \subseteq Asking, requests' = requests
  PROVE  NumbersLast'
<1>1. IsFiniteSet(DOMAIN calls) /\ IsFiniteSet(Asking)
  BY CallsAreFinite DEF NumbersLast
<1>2. /\ IsFiniteSet(Asking') /\ Cardinality(Asking') <= Cardinality(Asking)
      /\ Cardinality(DOMAIN calls') <= Cardinality(DOMAIN calls) /\ IsFiniteSet(DOMAIN calls')
  BY <1>1, FS_Subset
<1>3. /\ Cardinality(Asking') \in Nat /\ Cardinality(Asking) \in Nat
      /\ Cardinality(DOMAIN calls') \in Nat /\ Cardinality(DOMAIN calls) \in Nat
      /\ requests \in Nat
  BY <1>1, <1>2, FS_CardinalityType DEF CacheTypes
<1>4. Cardinality(DOMAIN calls) + Cardinality(Asking) <= requests
  BY DEF NumbersLast
<1>5. Cardinality(DOMAIN calls') + Cardinality(Asking') <= requests'
  BY <1>2, <1>3, <1>4
<1> QED BY <1>2, <1>5 DEF NumbersLast

(* A request that begins is counted.                                          *)
LEMMA BeginNumbers ==
  ASSUME NumbersLast, CacheTypes, NEW r \in Callers, NEW k \in Keys, Begin(r, k)
  PROVE  NumbersLast'
<1>1. Asking' = Asking \cup {r} /\ r \notin Asking
  <2>1. caller[r].stage = "idle"
    BY DEF Begin, Idle
  <2>2. \A x \in Callers : caller'[x] =
         IF x = r THEN [stage |-> "lookup", key |-> k, floor |-> newest[k]] ELSE caller[x]
    BY DEF Begin, CacheTypes
  <2> QED BY <2>1, <2>2 DEF Asking
<1>2. IsFiniteSet(Asking') /\ Cardinality(Asking') = Cardinality(Asking) + 1
  BY <1>1, FS_AddElement DEF NumbersLast
<1>3. IsFiniteSet(DOMAIN calls)
  BY CallsAreFinite
<1>4. Cardinality(Asking) \in Nat /\ Cardinality(DOMAIN calls) \in Nat /\ requests \in Nat
  BY <1>3, FS_CardinalityType DEF CacheTypes, NumbersLast
<1>5. requests' = requests + 1 /\ DOMAIN calls' = DOMAIN calls
  BY DEF Begin
<1>6. Cardinality(DOMAIN calls') + Cardinality(Asking') <= requests'
  BY <1>2, <1>4, <1>5 DEF NumbersLast
<1> QED BY <1>2, <1>6 DEF NumbersLast

(* What Lead does: a new query n of the request's key k, in the flight table. *)
Leads(r, n, k) ==
  /\ n \in 1..MaxRequests /\ n \notin DOMAIN calls /\ k = caller[r].key
  /\ k \in Keys /\ k \notin DOMAIN inflight /\ Cardinality(DOMAIN inflight) < MaxLeaders
  /\ DOMAIN calls' = DOMAIN calls \cup {n} /\ calls'[n] \in CallStates
  /\ calls'[n].key = k /\ calls'[n].stage = "querying"
  /\ \A c \in DOMAIN calls : calls'[c] = calls[c]
  /\ DOMAIN inflight' = DOMAIN inflight \cup {k} /\ inflight'[k] = n
  /\ \A x \in DOMAIN inflight : inflight'[x] = inflight[x]
  /\ caller' = [caller EXCEPT ![r] =
                      [stage |-> "waiting", key |-> k, floor |-> caller[r].floor, call |-> n]]
  /\ UNCHANGED <<data, items, order, requests, newest>>

(* It is what the action does, as long as numbers last. *)
LEMMA LeadFacts ==
  ASSUME CacheTypes, NumbersLast, NEW r \in Callers, Lead(r)
  PROVE  \E n, k : Leads(r, n, k)
<1>0. PICK n, k : n = NewCall /\ k = caller[r].key
  OBVIOUS
<1>1. caller[r].stage = "missed" /\ caller[r] \in CallerStates
  BY DEF Lead, CacheTypes
<1>2. k \in Keys
  BY <1>0, <1>1, CallerFacts
<1>3. r \in Asking
  BY <1>1 DEF Asking
<1>4. n \in 1..MaxRequests /\ n \notin DOMAIN calls
  BY <1>0, <1>3, NumberIsLeft
<1>5. k \notin DOMAIN inflight /\ Cardinality(DOMAIN inflight) < MaxLeaders
  <2>1. k \notin DOMAIN inflight /\ Cardinality(DOMAIN inflight) < MaxLeaders
    BY <1>0 DEF Lead
  <2> QED BY <2>1
<1>6. calls' = [y \in DOMAIN calls \cup {n} |-> IF y = n THEN [key |-> k, stage |-> "querying"] ELSE calls[y]]
  BY <1>0 DEF Lead, Started, With
<1>7. inflight' = [y \in DOMAIN inflight \cup {k} |-> IF y = k THEN n ELSE inflight[y]]
  BY <1>0 DEF Lead, Started, With
<1>8. caller' = [caller EXCEPT ![r] =
                      [stage |-> "waiting", key |-> k, floor |-> caller[r].floor, call |-> n]]
  BY <1>0 DEF Lead, Started, Waiting, CacheTypes
<1>9. UNCHANGED <<data, items, order, requests, newest>>
  BY DEF Lead, cache
<1>10. /\ DOMAIN calls' = DOMAIN calls \cup {n}
       /\ calls'[n] = [key |-> k, stage |-> "querying"]
       /\ \A c \in DOMAIN calls : calls'[c] = calls[c]
  BY <1>4, <1>6
<1>11. [key |-> k, stage |-> "querying"] \in CallStates
  BY <1>2 DEF CallStates
<1>12. calls'[n] \in CallStates /\ calls'[n].key = k /\ calls'[n].stage = "querying"
  BY <1>10, <1>11
<1>13. /\ DOMAIN inflight' = DOMAIN inflight \cup {k} /\ inflight'[k] = n
       /\ \A x \in DOMAIN inflight : inflight'[x] = inflight[x]
  BY <1>5, <1>7
<1>14. Leads(r, n, k)
  BY <1>0, <1>2, <1>4, <1>5, <1>8, <1>9, <1>10, <1>12, <1>13 DEF Leads
<1> QED BY <1>14

(* It takes the last free number for the request itself. *)
LEMMA LeadNumbers ==
  ASSUME CacheTypes, NumbersLast, NEW r \in Callers, Lead(r)
  PROVE  NumbersLast'
<1>1. PICK n, k : Leads(r, n, k)
  BY LeadFacts
<1>2. /\ n \notin DOMAIN calls /\ DOMAIN calls' = DOMAIN calls \cup {n}
      /\ caller' = [caller EXCEPT ![r] =
                      [stage |-> "waiting", key |-> k, floor |-> caller[r].floor, call |-> n]]
      /\ requests' = requests
  BY <1>1 DEF Leads
<1>3. Asking' = Asking \ {r} /\ r \in Asking
  <2>1. caller[r].stage = "missed"
    BY DEF Lead
  <2>2. \A x \in Callers : caller'[x] =
         IF x = r THEN [stage |-> "waiting", key |-> k, floor |-> caller[r].floor, call |-> n] ELSE caller[x]
    BY <1>2 DEF CacheTypes
  <2> QED BY <2>1, <2>2 DEF Asking
<1>4. IsFiniteSet(DOMAIN calls)
  BY CallsAreFinite
<1>5. IsFiniteSet(Asking') /\ Cardinality(Asking') = Cardinality(Asking) - 1
  BY <1>3, FS_RemoveElement DEF NumbersLast
<1>6. Cardinality(DOMAIN calls') = Cardinality(DOMAIN calls) + 1
  BY <1>2, <1>4, FS_AddElement
<1>7. Cardinality(Asking) \in Nat /\ Cardinality(DOMAIN calls) \in Nat /\ requests \in Nat
  BY <1>4, FS_CardinalityType DEF CacheTypes, NumbersLast
<1>8. Cardinality(DOMAIN calls') + Cardinality(Asking') <= requests'
  BY <1>2, <1>5, <1>6, <1>7 DEF NumbersLast
<1> QED BY <1>5, <1>8 DEF NumbersLast

(* And the table stays one entry per key and query. *)
LEMMA LeadFlight ==
  ASSUME CacheTypes, NumbersLast, FlightTable, NEW r \in Callers, Lead(r)
  PROVE  FlightTable'
<1>1. PICK n, k : Leads(r, n, k)
  BY LeadFacts
<1>2. /\ n \notin DOMAIN calls /\ DOMAIN calls' = DOMAIN calls \cup {n}
      /\ k \in Keys /\ k \notin DOMAIN inflight /\ Cardinality(DOMAIN inflight) < MaxLeaders
      /\ calls'[n].key = k /\ calls'[n].stage = "querying"
      /\ \A c \in DOMAIN calls : calls'[c] = calls[c]
      /\ DOMAIN inflight' = DOMAIN inflight \cup {k} /\ inflight'[k] = n
      /\ \A x \in DOMAIN inflight : inflight'[x] = inflight[x]
  BY <1>1 DEF Leads
<1>3. /\ IsFiniteSet(DOMAIN inflight') /\ Cardinality(DOMAIN inflight') = Cardinality(DOMAIN inflight) + 1
  BY <1>2, FS_AddElement DEF FlightTable
<1>4. Cardinality(DOMAIN inflight) \in Nat /\ MaxLeaders \in Nat
  BY FS_CardinalityType, CacheAssumption DEF FlightTable
<1>5. Cardinality(DOMAIN inflight') <= MaxLeaders
  BY <1>2, <1>3, <1>4
<1>6. Running' = Running \cup {n} /\ n \notin Running
  BY <1>2 DEF Running
<1>7. \A x \in DOMAIN inflight' : inflight'[x] \in Running' /\ calls'[inflight'[x]].key = x
  <2> TAKE x \in DOMAIN inflight'
  <2>1. CASE x = k
    BY <1>2, <1>6, <2>1
  <2>2. CASE x # k
    <3>1. /\ x \in DOMAIN inflight /\ inflight'[x] = inflight[x]
          /\ inflight[x] \in Running /\ calls[inflight[x]].key = x
      BY <1>2, <2>2 DEF FlightTable
    <3>2. inflight[x] \in DOMAIN calls
      BY <3>1 DEF Running
    <3> QED BY <1>2, <1>6, <3>1, <3>2
  <2> QED BY <2>1, <2>2
<1>8. \A c \in Running' : calls'[c].key \in DOMAIN inflight' /\ inflight'[calls'[c].key] = c
  <2> TAKE c \in Running'
  <2>1. CASE c = n
    BY <1>2, <2>1
  <2>2. CASE c # n
    <3>1. c \in Running /\ c \in DOMAIN calls
      BY <1>6, <2>2 DEF Running
    <3> QED BY <1>2, <3>1 DEF FlightTable
  <2> QED BY <2>1, <2>2
<1>9. DOMAIN inflight' \subseteq Keys
  BY <1>2 DEF FlightTable
<1> QED BY <1>3, <1>5, <1>7, <1>8, <1>9 DEF FlightTable

(* A step that leaves the table, and who runs for which key, keeps it.        *)
LEMMA FlightUnmoved ==
  ASSUME FlightTable, inflight' = inflight, Running' = Running,
         \A c \in Running : calls'[c].key = calls[c].key
  PROVE  FlightTable'
<1>1. \A k \in DOMAIN inflight : inflight[k] \in Running' /\ calls'[inflight[k]].key = k
  BY DEF FlightTable
<1>2. \A c \in Running' : calls'[c].key \in DOMAIN inflight /\ inflight[calls'[c].key] = c
  BY DEF FlightTable
<1> QED BY <1>1, <1>2 DEF FlightTable

(* What an answered query leaves behind: a result x for its key k, that is    *)
(* its own or, for one that failed, the one that is cached.                   *)
Finishes(c, k, x) ==
  /\ c \in DOMAIN calls /\ calls[c].stage = "answered" /\ k = calls[c].key /\ k \in Keys
  /\ x \in Results
  /\ \/ x = calls[c].result
     \/ calls[c].result.err # "nil" /\ k \in DOMAIN items /\ x = Rows(items[k].rows)
  /\ DOMAIN calls' = DOMAIN calls
  /\ calls'[c].key = k /\ calls'[c].stage = "finished" /\ calls'[c].result = x /\ calls'[c] \in CallStates
  /\ \A d \in DOMAIN calls : d # c => calls'[d] = calls[d]
  /\ DOMAIN inflight' = DOMAIN inflight \ {k}
  /\ \A y \in DOMAIN inflight' : inflight'[y] = inflight[y]
  /\ IF calls[c].result.err = "nil" THEN Store(k, calls[c].result.rows)
     ELSE UNCHANGED <<items, order>>
  /\ UNCHANGED <<data, requests, caller, newest>>

(* It is what the action does. *)
LEMMA FinishFacts ==
  ASSUME CacheTypes, ListIsMap(order, items), NEW c \in DOMAIN calls, Finish(c)
  PROVE  \E k, x : Finishes(c, k, x)
<1>0. PICK k, res, x : /\ k = calls[c].key /\ res = calls[c].result
                       /\ x = IF StandsIn(k, res) THEN Rows(items[k].rows) ELSE res
  OBVIOUS
<1>1. calls[c] \in CallStates /\ calls[c].stage = "answered"
  BY DEF CacheTypes, Finish
<1>2. k \in Keys /\ res \in Results
  BY <1>0, <1>1, CallFacts
<1>3. StandsIn(k, res) => res.err # "nil" /\ k \in DOMAIN items
  BY DEF StandsIn
<1>4. \A y \in DOMAIN items : items[y].rows \in Versions
  BY DEF ListIsMap
<1>5. x \in Results /\ (x = res \/ (res.err # "nil" /\ k \in DOMAIN items /\ x = Rows(items[k].rows)))
  <2>1. CASE StandsIn(k, res)
    BY <1>0, <1>3, <1>4, <2>1, ResultFacts
  <2>2. CASE ~StandsIn(k, res)
    BY <1>0, <1>2, <2>2
  <2> QED BY <2>1, <2>2
<1>6. calls' = [calls EXCEPT ![c] = [key |-> k, stage |-> "finished", result |-> x]]
  BY <1>0 DEF Finish, Stage
<1>7. [key |-> k, stage |-> "finished", result |-> x] \in CallStates
  BY <1>2, <1>5 DEF CallStates
<1>8. /\ DOMAIN calls' = DOMAIN calls
      /\ calls'[c].key = k /\ calls'[c].stage = "finished" /\ calls'[c].result = x /\ calls'[c] \in CallStates
      /\ \A d \in DOMAIN calls : d # c => calls'[d] = calls[d]
  BY <1>6, <1>7
<1>9. inflight' = [y \in DOMAIN inflight \ {k} |-> inflight[y]]
  BY <1>0 DEF Finish, Without
<1>10. IF res.err = "nil" THEN Store(k, res.rows) ELSE UNCHANGED <<items, order>>
  BY <1>0 DEF Finish, cache
<1>11. UNCHANGED <<data, requests, caller, newest>>
  BY DEF Finish
<1>12. Finishes(c, k, x)
  <2>1. DOMAIN inflight' = DOMAIN inflight \ {k} /\ \A y \in DOMAIN inflight' : inflight'[y] = inflight[y]
    BY <1>9
  <2> QED BY <1>0, <1>1, <1>2, <1>5, <1>8, <1>10, <1>11, <2>1 DEF Finishes
<1> QED BY <1>12

(* The slot of a query goes with it. *)
LEMMA FinishFlight ==
  ASSUME FlightTable, NEW c, NEW k, NEW x, Finishes(c, k, x)
  PROVE  FlightTable'
<1>1. c \in Running /\ inflight[k] = c /\ k \in DOMAIN inflight
  BY DEF Finishes, FlightTable, Running
<1>2. Running' = Running \ {c}
  BY DEF Finishes, Running
<1>3. DOMAIN inflight' = DOMAIN inflight \ {k} /\ \A y \in DOMAIN inflight' : inflight'[y] = inflight[y]
  BY DEF Finishes
<1>4. /\ IsFiniteSet(DOMAIN inflight') /\ Cardinality(DOMAIN inflight') <= MaxLeaders
      /\ DOMAIN inflight' \subseteq Keys
  <2>1. IsFiniteSet(DOMAIN inflight') /\ Cardinality(DOMAIN inflight') <= Cardinality(DOMAIN inflight)
    BY <1>3, FS_Subset DEF FlightTable
  <2>2. Cardinality(DOMAIN inflight') \in Nat /\ Cardinality(DOMAIN inflight) \in Nat /\ MaxLeaders \in Nat
    BY <2>1, FS_CardinalityType, CacheAssumption DEF FlightTable
  <2>3. Cardinality(DOMAIN inflight) <= MaxLeaders
    BY DEF FlightTable
  <2>4. Cardinality(DOMAIN inflight') <= MaxLeaders
    BY <2>1, <2>2, <2>3
  <2> QED BY <1>3, <2>1, <2>4 DEF FlightTable
<1>5. \A y \in DOMAIN inflight' : inflight'[y] \in Running' /\ calls'[inflight'[y]].key = y
  <2> TAKE y \in DOMAIN inflight'
  <2>1. y # k /\ y \in DOMAIN inflight /\ inflight'[y] = inflight[y]
    BY <1>3
  <2>2. inflight[y] \in Running /\ calls[inflight[y]].key = y /\ inflight[y] \in DOMAIN calls
    BY <2>1 DEF FlightTable, Running
  <2>3. inflight[y] # c
    BY <2>1, <2>2 DEF Finishes
  <2> QED BY <1>2, <2>1, <2>2, <2>3 DEF Finishes
<1>6. \A d \in Running' : calls'[d].key \in DOMAIN inflight' /\ inflight'[calls'[d].key] = d
  <2> TAKE d \in Running'
  <2>1. d \in Running /\ d # c /\ d \in DOMAIN calls
    BY <1>2 DEF Running
  <2>2. calls'[d] = calls[d]
    BY <2>1 DEF Finishes
  <2>3. calls[d].key \in DOMAIN inflight /\ inflight[calls[d].key] = d
    BY <2>1 DEF FlightTable
  <2>4. calls[d].key # k
    BY <1>1, <2>1, <2>3
  <2> QED BY <1>3, <2>2, <2>3, <2>4
<1> QED BY <1>4, <1>5, <1>6 DEF FlightTable

-----------------------------------------------------------------------------
(* What is known.                                                             *)

(* A version that requests may be told of a key. *)
Passed(k, v) == v \in Known(k) \/ (k \in DOMAIN items /\ v = items[k].rows)

(* What was told, what a finished query holds and what a woken request holds  *)
(* is known.                                                                  *)
LEMMA KnownFacts ==
  ASSUME CacheTypes
  PROVE  /\ \A k \in Keys : newest[k] \in Known(k)
         /\ \A c \in DOMAIN calls : Done(c) => calls[c].result.rows \in Known(calls[c].key)
         /\ \A r \in Callers : Hears(r) => caller[r].result.rows \in Known(caller[r].key)
BY DEF Known

(* Everything known is a version. *)
LEMMA KnownAreVersions ==
  ASSUME CacheTypes, NEW k \in Keys
  PROVE  Known(k) \subseteq Versions
<1>1. newest[k] \in Versions
  BY DEF CacheTypes
<1>2. \A c \in DOMAIN calls : Done(c) => calls[c].result.rows \in Versions
  <2> SUFFICES ASSUME NEW c \in DOMAIN calls, Done(c) PROVE calls[c].result.rows \in Versions
    OBVIOUS
  <2>1. calls[c] \in CallStates /\ calls[c].stage # "querying"
    BY DEF CacheTypes, Done
  <2>2. calls[c].result \in Results
    BY <2>1, CallFacts
  <2> QED BY <2>2 DEF Results
<1>3. \A r \in Callers : Hears(r) => caller[r].result.rows \in Versions
  <2> SUFFICES ASSUME NEW r \in Callers, Hears(r) PROVE caller[r].result.rows \in Versions
    OBVIOUS
  <2>1. caller[r] \in CallerStates /\ caller[r].stage = "woken"
    BY DEF CacheTypes, Hears
  <2>2. caller[r].result \in Results
    BY <2>1, CallerFacts
  <2> QED BY <2>2 DEF Results
<1> QED BY <1>1, <1>2, <1>3 DEF Known

(* A step that tells only what was known or is cached, and brings no answer   *)
(* of the database, leaves everything as old as it was.                       *)
LEMMA AgesKept ==
  ASSUME CacheTypes, CacheTypes', ListIsMap(order, items), NothingIsNewer, CacheIsOlder,
         DOMAIN items' = DOMAIN items, \A k \in DOMAIN items : items'[k].rows = items[k].rows,
         data <= data',
         \A c \in DOMAIN calls' : Fresh(c)' => c \in DOMAIN calls /\ calls'[c] = calls[c],
         \A k \in Keys : Passed(k, newest'[k]),
         \A c \in DOMAIN calls' : Done(c)' => Passed(calls'[c].key, calls'[c].result.rows),
         \A r \in Callers : Hears(r)' => Passed(caller'[r].key, caller'[r].result.rows)
  PROVE  NothingIsNewer' /\ CacheIsOlder'
<1>1. data \in Int /\ data' \in Int /\ \A v \in Versions : v \in Int
  BY CacheAssumption DEF CacheTypes, Versions
<1>2. \A k \in DOMAIN items : k \in Keys /\ items[k].rows \in Versions
  BY ElementOfSeq DEF ListIsMap
<1>3. \A k \in Keys : \A v \in Known(k)' : Passed(k, v)
  BY DEF Known
<1>4. \A c \in DOMAIN calls : Fresh(c) => calls[c].result.rows \in Versions
  <2> SUFFICES ASSUME NEW c \in DOMAIN calls, Fresh(c) PROVE calls[c].result.rows \in Versions
    OBVIOUS
  <2>1. calls[c] \in CallStates /\ calls[c].stage # "querying"
    BY DEF CacheTypes, Fresh
  <2>2. calls[c].result \in Results
    BY <2>1, CallFacts
  <2> QED BY <2>2 DEF Results
<1>5. \A c \in DOMAIN calls' : Fresh(c)' => c \in DOMAIN calls /\ Fresh(c) /\ calls'[c] = calls[c]
  BY DEF Fresh
<1>6. \A k \in Keys : \A v : Passed(k, v) =>
        /\ v \in Versions /\ v <= data
        /\ k \in DOMAIN items => v <= items[k].rows
        /\ \A c \in DOMAIN calls : calls[c].key = k /\ Fresh(c) => v <= calls[c].result.rows
  <2> SUFFICES ASSUME NEW k \in Keys, NEW v, Passed(k, v)
               PROVE  /\ v \in Versions /\ v <= data
                      /\ k \in DOMAIN items => v <= items[k].rows
                      /\ \A c \in DOMAIN calls : calls[c].key = k /\ Fresh(c) => v <= calls[c].result.rows
    BY Zenon
  <2>1. CASE v \in Known(k)
    BY <2>1, KnownAreVersions, Zenon DEF NothingIsNewer
  <2>2. CASE k \in DOMAIN items /\ v = items[k].rows
    <3>1. v \in Versions /\ v <= data /\ v <= items[k].rows
      BY <1>1, <1>2, <2>2 DEF CacheIsOlder
    <3>2. \A c \in DOMAIN calls : calls[c].key = k /\ Fresh(c) => v <= calls[c].result.rows
      BY <2>2 DEF CacheIsOlder
    <3> QED BY <3>1, <3>2
  <2> QED BY <2>1, <2>2 DEF Passed
<1>7. NothingIsNewer'
  <2> SUFFICES ASSUME NEW k \in Keys, NEW v \in Known(k)'
               PROVE  /\ v <= data'
                      /\ k \in DOMAIN items' => v <= items'[k].rows
                      /\ \A c \in DOMAIN calls' : calls'[c].key = k /\ Fresh(c)' => v <= calls'[c].result.rows
    BY DEF NothingIsNewer
  <2>1. /\ v \in Versions /\ v <= data
        /\ k \in DOMAIN items => v <= items[k].rows
        /\ \A c \in DOMAIN calls : calls[c].key = k /\ Fresh(c) => v <= calls[c].result.rows
    BY <1>3, <1>6, Zenon
  <2>2. v <= data'
    BY <1>1, <2>1
  <2>3. \A c \in DOMAIN calls' : calls'[c].key = k /\ Fresh(c)' => v <= calls'[c].result.rows
    BY <1>5, <2>1
  <2> QED BY <2>1, <2>2, <2>3
<1>8. CacheIsOlder'
  <2>1. \A k \in DOMAIN items' : items'[k].rows <= data'
    BY <1>1, <1>2 DEF CacheIsOlder
  <2> SUFFICES ASSUME NEW c \in DOMAIN calls', Fresh(c)'
               PROVE  /\ calls'[c].result.rows <= data'
                      /\ calls'[c].key \in DOMAIN items' => items'[calls'[c].key].rows <= calls'[c].result.rows
    BY <2>1 DEF CacheIsOlder
  <2>2. c \in DOMAIN calls /\ Fresh(c) /\ calls'[c] = calls[c]
    BY <1>5
  <2>3. calls[c].result.rows <= data /\ calls[c].result.rows \in Versions
    BY <1>4, <2>2 DEF CacheIsOlder
  <2>4. calls[c].result.rows <= data'
    BY <1>1, <2>3
  <2>5. calls[c].key \in DOMAIN items => items[calls[c].key].rows <= calls[c].result.rows
    BY <2>2 DEF CacheIsOlder
  <2> QED BY <2>2, <2>4, <2>5
<1> QED BY <1>7, <1>8

(* A request that a step leaves alone keeps its floor. *)
LEMMA FloorStays ==
  ASSUME CacheTypes, CacheTypes', NEW r \in Callers,
         FloorHolds(r), caller'[r] = caller[r],
         \A k \in Keys : newest[k] <= newest'[k],
         Waits(r) => calls'[caller[r].call] = calls[caller[r].call]
  PROVE  FloorHolds(r)'
<1>1. caller[r].stage # "idle" => caller[r].key \in Keys /\ caller[r].floor \in Versions
  BY CallerFacts DEF CacheTypes
<1>2. \A v \in Versions : v \in Int
  BY CacheAssumption DEF Versions
<1>3. caller'[r].stage # "idle" => caller'[r].floor <= newest'[caller'[r].key]
  <2> SUFFICES ASSUME caller[r].stage # "idle" PROVE caller[r].floor <= newest'[caller[r].key]
    OBVIOUS
  <2> DEFINE k == caller[r].key
  <2>1. k \in Keys /\ caller[r].floor \in Int /\ newest[k] \in Int /\ newest'[k] \in Int
    BY <1>1, <1>2 DEF CacheTypes
  <2>2. caller[r].floor <= newest[k] /\ newest[k] <= newest'[k]
    BY <2>1 DEF FloorHolds
  <2> HIDE DEF k
  <2>3. caller[r].floor <= newest'[k]
    BY <2>1, <2>2
  <2> QED BY <2>3 DEF k
<1>4. Waits(r)' /\ Done(caller[r].call)' => caller'[r].floor <= calls'[caller'[r].call].result.rows
  BY DEF FloorHolds, Waits, Done
<1>5. Hears(r)' => caller'[r].floor <= caller'[r].result.rows
  BY DEF FloorHolds, Hears
<1> QED BY <1>3, <1>4, <1>5 DEF FloorHolds

(* A request that waits stays with its query while that one runs or waits to  *)
(* be closed.                                                                 *)
LEMMA WaiterStays ==
  ASSUME WaitersFollow, NEW r \in Callers, caller'[r] = caller[r],
         DOMAIN calls \subseteq DOMAIN calls', \A c \in DOMAIN calls : calls'[c].key = calls[c].key
  PROVE  Waits(r)' => caller'[r].call \in DOMAIN calls' /\ calls'[caller'[r].call].key = caller'[r].key
BY DEF WaitersFollow, Waits

(* The request r returns with what it is told. *)
Ends(r, what) ==
  /\ caller[r].stage # "idle"
  /\ Told(r, what)
  /\ what.err = "nil" => Passed(caller[r].key, what.rows)
  /\ ListIsMap(order', items)
  /\ UNCHANGED <<data, items, inflight, calls, requests>>

(* A hit tells the cached rows. *)
LEMMA HitEnds ==
  ASSUME CacheIInv, NEW r \in Callers, caller[r].stage # "idle", NEW k, k = caller[r].key,
         Hit(k), Told(r, Rows(items[k].rows)), order' = ToFront(k),
         UNCHANGED <<data, items, inflight, calls, requests>>
  PROVE  \E what : Ends(r, what)
<1>1. k \in DOMAIN items
  BY DEF Hit
<1>2. ListIsMap(order', items)
  BY <1>1, HitKeepsList DEF CacheIInv
<1>3. Passed(k, Rows(items[k].rows).rows)
  BY <1>1 DEF Passed, Rows
<1>4. Ends(r, Rows(items[k].rows))
  BY <1>2, <1>3 DEF Ends
<1> QED BY <1>4

(* The steps in which a request returns. *)
LEMMA EndSteps ==
  ASSUME CacheIInv, NEW r \in Callers,
         \/ Lookup(r) /\ Hit(caller[r].key)
         \/ Rehit(r) \/ Overloaded(r) \/ Return(r) \/ Cancelled(r)
  PROVE  \E what : Ends(r, what)
<1>1. ListIsMap(order, items) /\ CacheTypes
  BY DEF CacheIInv
<1>2. CASE Lookup(r) /\ Hit(caller[r].key)
  <2>1. PICK k : k = caller[r].key
    OBVIOUS
  <2>2. /\ caller[r].stage # "idle" /\ Hit(k)
        /\ Told(r, Rows(items[k].rows)) /\ order' = ToFront(k)
        /\ UNCHANGED <<data, items, inflight, calls, requests>>
    BY <1>2, <2>1 DEF Lookup
  <2> QED BY <2>1, <2>2, HitEnds
<1>3. CASE Rehit(r)
  <2>1. PICK k : k = caller[r].key
    OBVIOUS
  <2>2. /\ caller[r].stage # "idle" /\ Hit(k)
        /\ Told(r, Rows(items[k].rows)) /\ order' = ToFront(k)
        /\ UNCHANGED <<data, items, inflight, calls, requests>>
    BY <1>3, <2>1 DEF Rehit
  <2> QED BY <2>1, <2>2, HitEnds
<1>4. CASE Overloaded(r)
  <2>1. caller[r].stage # "idle" /\ Told(r, Error("overloaded"))
        /\ UNCHANGED <<data, order, items, inflight, calls, requests>>
    BY <1>4 DEF Overloaded, cache
  <2>2. Error("overloaded").err # "nil"
    BY DEF Error
  <2>3. Ends(r, Error("overloaded"))
    BY <1>1, <2>1, <2>2 DEF Ends
  <2> QED BY <2>3
<1>5. CASE Cancelled(r)
  <2>1. caller[r].stage # "idle" /\ Told(r, Error("cancelled"))
        /\ UNCHANGED <<data, order, items, inflight, calls, requests>>
    BY <1>5 DEF Cancelled, cache
  <2>2. Error("cancelled").err # "nil"
    BY DEF Error
  <2>3. Ends(r, Error("cancelled"))
    BY <1>1, <2>1, <2>2 DEF Ends
  <2> QED BY <2>3
<1>6. CASE Return(r)
  <2>1. caller[r].stage = "woken" /\ Told(r, caller[r].result)
        /\ UNCHANGED <<data, order, items, inflight, calls, requests>>
    BY <1>6 DEF Return, cache
  <2>2. caller[r].result.err = "nil" => Passed(caller[r].key, caller[r].result.rows)
    BY <1>1, <2>1, KnownFacts DEF Passed, Hears
  <2>3. Ends(r, caller[r].result)
    BY <1>1, <2>1, <2>2 DEF Ends
  <2> QED BY <2>3
<1> QED BY <1>2, <1>3, <1>4, <1>5, <1>6

(* Whatever may be told is a version. *)
LEMMA PassedAreVersions ==
  ASSUME CacheTypes, ListIsMap(order, items), NEW k \in Keys, NEW v, Passed(k, v)
  PROVE  v \in Versions
<1>1. k \in DOMAIN items => items[k].rows \in Versions
  BY DEF ListIsMap
<1> QED BY <1>1, KnownAreVersions DEF Passed

(* They keep the invariant: what was told was known already or is cached.     *)
LEMMA EndKeeps ==
  ASSUME CacheIInv, NEW r \in Callers, NEW what, Ends(r, what)
  PROVE  CacheIInv'
<1>1. CacheTypes /\ ListIsMap(order, items) /\ FlightTable /\ NumbersLast /\ WaitersFollow
      /\ NothingIsNewer /\ CacheIsOlder /\ FloorsHold
  BY DEF CacheIInv
<1>2. /\ caller[r].stage # "idle" /\ Told(r, what) /\ ListIsMap(order', items)
      /\ data' = data /\ items' = items /\ inflight' = inflight /\ calls' = calls /\ requests' = requests
      /\ what.err = "nil" => Passed(caller[r].key, what.rows)
  BY DEF Ends
<1>3. caller[r].key \in Keys
  BY <1>1, <1>2, CallerFacts DEF CacheTypes
<1>4. what.err = "nil" => what.rows \in Versions
  BY <1>1, <1>2, <1>3, PassedAreVersions
<1>5. /\ caller' = [caller EXCEPT ![r] = Idle]
      /\ caller' \in [Callers -> CallerStates] /\ newest' \in [Keys -> Versions]
      /\ \A k \in Keys : /\ newest[k] <= newest'[k]
                         /\ \/ newest'[k] = newest[k]
                            \/ k = caller[r].key /\ what.err = "nil" /\ newest'[k] = what.rows
  BY <1>1, <1>2, <1>4, ToldFacts
<1>6. CacheTypes'
  BY <1>1, <1>2, <1>5 DEF CacheTypes
<1>7. \A x \in Callers : caller'[x] = IF x = r THEN Idle ELSE caller[x]
  BY <1>1, <1>5 DEF CacheTypes
<1>8. Idle.stage = "idle"
  BY DEF Idle
<1>9. ListIsMap(order, items)'
  BY <1>2 DEF ListIsMap
<1>10. FlightTable'
  BY <1>1, <1>2, FlightKept
<1>11. NumbersLast'
  <2>1. Asking' \subseteq Asking
    BY <1>7, <1>8 DEF Asking
  <2> QED BY <1>1, <1>2, <1>6, <2>1, NumbersKept
<1>12. WaitersFollow'
  BY <1>1, <1>2, <1>7, <1>8 DEF WaitersFollow, Waits
<1>13. NothingIsNewer' /\ CacheIsOlder'
  <2>1. \A k \in Keys : Passed(k, newest'[k])
    BY <1>1, <1>2, <1>5, KnownFacts DEF Passed
  <2>2. \A c \in DOMAIN calls' : Done(c)' => Passed(calls'[c].key, calls'[c].result.rows)
    BY <1>1, <1>2, KnownFacts DEF Passed, Done
  <2>3. \A x \in Callers : Hears(x)' => Passed(caller'[x].key, caller'[x].result.rows)
    BY <1>1, <1>7, <1>8, KnownFacts DEF Passed, Hears
  <2>4. data <= data'
    BY <1>1, <1>2, CacheAssumption DEF CacheTypes, Versions
  <2>5. \A c \in DOMAIN calls' : Fresh(c)' => c \in DOMAIN calls /\ calls'[c] = calls[c]
    BY <1>2
  <2>6. DOMAIN items' = DOMAIN items /\ \A k \in DOMAIN items : items'[k].rows = items[k].rows
    BY <1>2
  <2> QED BY <1>1, <1>6, <2>1, <2>2, <2>3, <2>4, <2>5, <2>6, AgesKept
<1>14. FloorsHold'
  <2> SUFFICES ASSUME NEW x \in Callers PROVE FloorHolds(x)'
    BY DEF FloorsHold
  <2>1. CASE x = r
    BY <1>7, <1>8, <2>1 DEF FloorHolds, Waits, Hears
  <2>2. CASE x # r
    <3>1. FloorHolds(x) /\ caller'[x] = caller[x] /\ calls'[caller[x].call] = calls[caller[x].call]
      BY <1>1, <1>2, <1>7, <2>2 DEF FloorsHold
    <3> QED BY <1>1, <1>5, <1>6, <3>1, FloorStays
  <2> QED BY <2>1, <2>2
<1> QED BY <1>6, <1>9, <1>10, <1>11, <1>12, <1>13, <1>14 DEF CacheIInv

(* The conjuncts of the invariant that a step must keep when it leaves the    *)
(* flight table, the numbers and the requests alone.                          *)
LEMMA DataKeeps ==
  ASSUME CacheIInv, CacheTypes', ListIsMap(order, items)',
         UNCHANGED <<inflight, calls, requests, caller, newest>>,
         DOMAIN items' = DOMAIN items, \A k \in DOMAIN items : items'[k].rows = items[k].rows,
         data <= data'
  PROVE  CacheIInv'
<1>1. CacheTypes /\ ListIsMap(order, items) /\ FlightTable /\ NumbersLast /\ WaitersFollow
      /\ NothingIsNewer /\ CacheIsOlder /\ FloorsHold
  BY DEF CacheIInv
<1>2. FlightTable'
  BY <1>1, FlightKept
<1>3. NumbersLast' /\ WaitersFollow'
  BY <1>1 DEF NumbersLast, Asking, WaitersFollow, Waits
<1>4. FloorsHold'
  BY <1>1 DEF FloorsHold, FloorHolds, Waits, Done, Hears
<1>5. NothingIsNewer' /\ CacheIsOlder'
  <2>1. \A k \in Keys : Passed(k, newest'[k])
    BY <1>1, KnownFacts DEF Passed
  <2>2. \A c \in DOMAIN calls' : Done(c)' => Passed(calls'[c].key, calls'[c].result.rows)
    BY <1>1, KnownFacts DEF Passed, Done
  <2>3. \A x \in Callers : Hears(x)' => Passed(caller'[x].key, caller'[x].result.rows)
    BY <1>1, KnownFacts DEF Passed, Hears
  <2>4. \A c \in DOMAIN calls' : Fresh(c)' => c \in DOMAIN calls /\ calls'[c] = calls[c]
    OBVIOUS
  <2> QED BY <1>1, <2>1, <2>2, <2>3, <2>4, AgesKept
<1> QED BY <1>1, <1>2, <1>3, <1>4, <1>5 DEF CacheIInv

(* The data changes; an entry expires. *)
LEMMA WriteExpireKeep ==
  ASSUME CacheIInv, Write \/ \E k \in Keys : Expire(k)
  PROVE  CacheIInv'
<1>1. CacheTypes /\ ListIsMap(order, items)
  BY DEF CacheIInv
<1>2. data \in Int /\ data <= data
  BY <1>1, CacheAssumption DEF CacheTypes, Versions
<1>3. CASE Write
  <2>1. /\ data < MaxVersion /\ data' = data + 1
        /\ UNCHANGED <<items, order, inflight, calls, requests, caller, newest>>
    BY <1>3 DEF Write, cache
  <2>2. data' \in Versions /\ data <= data'
    BY <1>1, <2>1, CacheAssumption DEF CacheTypes, Versions
  <2>3. CacheTypes'
    BY <1>1, <2>1, <2>2 DEF CacheTypes
  <2>4. ListIsMap(order, items)'
    BY <1>1, <2>1 DEF ListIsMap
  <2> QED BY <2>1, <2>2, <2>3, <2>4, DataKeeps
<1>4. ASSUME NEW k \in Keys, Expire(k) PROVE CacheIInv'
  <2>1. /\ k \in DOMAIN items /\ items' = [items EXCEPT ![k].fresh = FALSE]
        /\ UNCHANGED <<data, order, inflight, calls, requests, caller, newest>>
    BY <1>4 DEF Expire
  <2>2. \A x \in DOMAIN items : items[x] \in [rows : Versions, fresh : BOOLEAN]
    BY <1>1 DEF ListIsMap
  <2>3. /\ DOMAIN items' = DOMAIN items
        /\ \A x \in DOMAIN items :
             items'[x].rows = items[x].rows /\ items'[x] \in [rows : Versions, fresh : BOOLEAN]
    <3>1. DOMAIN items' = DOMAIN items /\ items'[k] = [items[k] EXCEPT !.fresh = FALSE]
          /\ \A x \in DOMAIN items : x # k => items'[x] = items[x]
      BY <2>1
    <3>2. items[k] \in [rows : Versions, fresh : BOOLEAN]
      BY <2>1, <2>2
    <3>3. [items[k] EXCEPT !.fresh = FALSE].rows = items[k].rows
          /\ [items[k] EXCEPT !.fresh = FALSE] \in [rows : Versions, fresh : BOOLEAN]
      BY <3>2
    <3> QED BY <2>2, <3>1, <3>3
  <2>4. CacheTypes'
    BY <1>1, <2>1 DEF CacheTypes
  <2>5. ListIsMap(order, items)'
    BY <1>1, <2>1, <2>3 DEF ListIsMap
  <2> QED BY <1>2, <2>1, <2>3, <2>4, <2>5, DataKeeps
<1> QED BY <1>3, <1>4

(* A request moves on to s without being told anything.                       *)
Moves(r, s) ==
  /\ s \in CallerStates /\ s.stage \in {"lookup", "missed", "waiting"}
  /\ caller' = [caller EXCEPT ![r] = s]
  /\ s.floor <= newest[s.key]
  /\ UNCHANGED <<data, items, order, newest>>

(* What is known stays as old as it was. *)
LEMMA MovesKeepAges ==
  ASSUME CacheIInv, CacheTypes', NEW r \in Callers, NEW s, Moves(r, s),
         DOMAIN calls \subseteq DOMAIN calls', \A c \in DOMAIN calls : calls'[c] = calls[c],
         \A c \in DOMAIN calls' : c \notin DOMAIN calls => calls'[c].stage = "querying"
  PROVE  NothingIsNewer' /\ CacheIsOlder'
<1>1. CacheTypes /\ ListIsMap(order, items) /\ NothingIsNewer /\ CacheIsOlder
  BY DEF CacheIInv
<1>2. /\ data' = data /\ items' = items /\ newest' = newest /\ s.stage # "woken"
      /\ \A x \in Callers : caller'[x] = IF x = r THEN s ELSE caller[x]
  BY <1>1 DEF Moves, CacheTypes
<1>3. \A k \in Keys : Passed(k, newest'[k])
  BY <1>1, <1>2, KnownFacts DEF Passed
<1>4. \A c \in DOMAIN calls' : Done(c)' => Passed(calls'[c].key, calls'[c].result.rows)
  <2> SUFFICES ASSUME NEW c \in DOMAIN calls', Done(c)' PROVE Passed(calls'[c].key, calls'[c].result.rows)
    OBVIOUS
  <2>1. c \in DOMAIN calls
    BY DEF Done
  <2>2. calls'[c] = calls[c] /\ Done(c)
    BY <2>1 DEF Done
  <2> QED BY <1>1, <2>1, <2>2, KnownFacts DEF Passed
<1>5. \A x \in Callers : Hears(x)' => Passed(caller'[x].key, caller'[x].result.rows)
  <2> SUFFICES ASSUME NEW x \in Callers, Hears(x)' PROVE Passed(caller'[x].key, caller'[x].result.rows)
    OBVIOUS
  <2>1. caller'[x] = caller[x] /\ Hears(x)
    BY <1>2 DEF Hears
  <2> QED BY <1>1, <2>1, KnownFacts DEF Passed
<1>6. data <= data'
  BY <1>1, <1>2, CacheAssumption DEF CacheTypes, Versions
<1>7. \A c \in DOMAIN calls' : Fresh(c)' => c \in DOMAIN calls /\ calls'[c] = calls[c]
  BY DEF Fresh
<1>8. DOMAIN items' = DOMAIN items /\ \A k \in DOMAIN items : items'[k].rows = items[k].rows
  BY <1>2
<1> QED BY <1>1, <1>3, <1>4, <1>5, <1>6, <1>7, <1>8, AgesKept

(* And so does the floor of every request. *)
LEMMA MovesKeepFloors ==
  ASSUME CacheIInv, CacheTypes', NEW r \in Callers, NEW s, Moves(r, s),
         \A c \in DOMAIN calls : calls'[c] = calls[c],
         s.stage = "waiting" => calls'[s.call].stage # "finished"
  PROVE  FloorsHold'
<1>1. CacheTypes /\ WaitersFollow /\ FloorsHold
  BY DEF CacheIInv
<1>2. /\ newest' = newest /\ s \in CallerStates /\ s.stage # "woken" /\ s.floor <= newest[s.key]
      /\ \A x \in Callers : caller'[x] = IF x = r THEN s ELSE caller[x]
  BY <1>1 DEF Moves, CacheTypes
<1>3. \A k \in Keys : newest[k] <= newest'[k]
  BY <1>1, <1>2, CacheAssumption DEF CacheTypes, Versions
<1> SUFFICES ASSUME NEW x \in Callers PROVE FloorHolds(x)'
  BY DEF FloorsHold
<1>4. CASE x = r
  BY <1>2, <1>4 DEF FloorHolds, Waits, Hears, Done
<1>5. CASE x # r
  <2>1. FloorHolds(x) /\ caller'[x] = caller[x]
    BY <1>1, <1>2, <1>5 DEF FloorsHold
  <2>2. Waits(x) => calls'[caller[x].call] = calls[caller[x].call]
    BY <1>1 DEF WaitersFollow
  <2> QED BY <1>1, <1>3, <2>1, <2>2, FloorStays
<1> QED BY <1>4, <1>5

(* A request begins. *)
LEMMA BeginKeeps ==
  ASSUME CacheIInv, NEW r \in Callers, NEW k \in Keys, Begin(r, k)
  PROVE  CacheIInv'
<1>1. CacheTypes /\ ListIsMap(order, items) /\ FlightTable /\ NumbersLast /\ WaitersFollow
  BY DEF CacheIInv
<1>2. PICK s : s = [stage |-> "lookup", key |-> k, floor |-> newest[k]]
  OBVIOUS
<1>3. /\ caller' = [caller EXCEPT ![r] = s] /\ requests < MaxRequests /\ requests' = requests + 1
      /\ UNCHANGED <<data, items, order, inflight, calls, newest>>
  BY <1>2 DEF Begin, cache
<1>4. newest[k] \in Versions
  BY <1>1 DEF CacheTypes
<1>5. s \in CallerStates /\ s.stage = "lookup" /\ s.floor = newest[k] /\ s.key = k
  BY <1>2, <1>4, CallerMakes
<1>6. Moves(r, s)
  <2>1. newest[k] <= newest[k]
    BY <1>4, CacheAssumption DEF Versions
  <2> QED BY <1>3, <1>5, <2>1 DEF Moves
<1>7. CacheTypes'
  <2>1. requests' \in 0..MaxRequests
    BY <1>1, <1>3, CacheAssumption DEF CacheTypes
  <2>2. caller' \in [Callers -> CallerStates]
    BY <1>1, <1>3, <1>5 DEF CacheTypes
  <2> QED BY <1>1, <1>3, <2>1, <2>2 DEF CacheTypes
<1>8. FlightTable' /\ NumbersLast'
  BY <1>1, <1>3, FlightKept, BeginNumbers
<1>9. ListIsMap(order, items)'
  BY <1>1, <1>3 DEF ListIsMap
<1>10. WaitersFollow'
  <2>1. \A x \in Callers : caller'[x] = IF x = r THEN s ELSE caller[x]
    BY <1>1, <1>3 DEF CacheTypes
  <2> QED BY <1>1, <1>3, <1>5, <2>1 DEF WaitersFollow, Waits
<1>11. NothingIsNewer' /\ CacheIsOlder'
  BY <1>3, <1>6, <1>7, MovesKeepAges
<1>12. FloorsHold'
  <2>1. s.stage # "waiting"
    BY <1>5
  <2> QED BY <1>3, <1>6, <1>7, <2>1, MovesKeepFloors
<1> QED BY <1>7, <1>8, <1>9, <1>10, <1>11, <1>12 DEF CacheIInv

(* What the stage of a request says about its place in the table of numbers.  *)
LEMMA StateFacts ==
  ASSUME CacheIInv, NEW r \in Callers, caller[r].stage # "idle"
  PROVE  /\ caller[r] \in CallerStates /\ caller[r].key \in Keys /\ caller[r].floor \in Versions
         /\ caller[r].floor <= newest[caller[r].key]
<1>1. caller[r] \in CallerStates /\ FloorHolds(r)
  BY DEF CacheIInv, CacheTypes, FloorsHold
<1> QED BY <1>1, CallerFacts DEF FloorHolds

(* A request misses the first time. *)
LEMMA MissKeeps ==
  ASSUME CacheIInv, NEW r \in Callers, Lookup(r), ~Hit(caller[r].key)
  PROVE  CacheIInv'
<1>1. CacheTypes /\ ListIsMap(order, items) /\ FlightTable /\ NumbersLast /\ WaitersFollow
  BY DEF CacheIInv
<1>2. /\ caller[r].stage = "lookup" /\ caller' = [caller EXCEPT ![r].stage = "missed"]
      /\ UNCHANGED <<data, items, order, inflight, calls, requests, newest>>
  BY DEF Lookup
<1>3. /\ caller[r].key \in Keys /\ caller[r].floor \in Versions
      /\ caller[r].floor <= newest[caller[r].key]
      /\ caller[r] \in CallerStates
  BY <1>2, StateFacts
<1>4. PICK s : s = [stage |-> "missed", key |-> caller[r].key, floor |-> caller[r].floor]
  OBVIOUS
<1>5. /\ s \in CallerStates /\ s.stage = "missed" /\ s.key = caller[r].key /\ s.floor = caller[r].floor
  BY <1>3, <1>4, CallerMakes
<1>6. caller' = [caller EXCEPT ![r] = s]
  <2>1. caller[r] \in [stage : {"lookup", "missed"}, key : Keys, floor : Versions]
    BY <1>2, <1>3 DEF CallerStates, Idle
  <2>2. [caller[r] EXCEPT !.stage = "missed"] = s
    BY <1>4, <2>1
  <2> QED BY <1>1, <1>2, <2>2 DEF CacheTypes
<1>7. Moves(r, s)
  BY <1>2, <1>3, <1>5, <1>6 DEF Moves
<1>8. \A x \in Callers : caller'[x] = IF x = r THEN s ELSE caller[x]
  BY <1>1, <1>6 DEF CacheTypes
<1>9. CacheTypes'
  <2>1. caller' \in [Callers -> CallerStates]
    BY <1>1, <1>5, <1>6 DEF CacheTypes
  <2> QED BY <1>1, <1>2, <2>1 DEF CacheTypes
<1>10. FlightTable' /\ ListIsMap(order, items)'
  BY <1>1, <1>2, FlightKept DEF ListIsMap
<1>11. NumbersLast'
  <2>1. Asking' \subseteq Asking
    BY <1>2, <1>8 DEF Asking
  <2>2. DOMAIN calls' \subseteq DOMAIN calls /\ requests' = requests
    BY <1>2
  <2> QED BY <1>1, <1>9, <2>1, <2>2, NumbersKept
<1>12. WaitersFollow'
  BY <1>1, <1>2, <1>5, <1>8 DEF WaitersFollow, Waits
<1>13. NothingIsNewer' /\ CacheIsOlder'
  BY <1>2, <1>7, <1>9, MovesKeepAges
<1>14. FloorsHold'
  <2>1. s.stage # "waiting"
    BY <1>5
  <2> QED BY <1>2, <1>7, <1>9, <2>1, MovesKeepFloors
<1> QED BY <1>9, <1>10, <1>11, <1>12, <1>13, <1>14 DEF CacheIInv

(* A request follows the query n that runs for its key k, old or new.         *)
Follows(r, n, k) ==
  /\ caller[r].stage = "missed" /\ k = caller[r].key
  /\ n \in DOMAIN calls' /\ calls'[n].key = k /\ calls'[n].stage # "finished" /\ n \in 1..MaxRequests
  /\ DOMAIN calls \subseteq DOMAIN calls' /\ DOMAIN calls' \subseteq DOMAIN calls \cup {n}
  /\ n \notin DOMAIN calls => calls'[n].stage = "querying"
  /\ calls'[n] \in CallStates
  /\ \A c \in DOMAIN calls : calls'[c] = calls[c]
  /\ caller' = [caller EXCEPT ![r] =
                      [stage |-> "waiting", key |-> k, floor |-> caller[r].floor, call |-> n]]
  /\ UNCHANGED <<data, items, order, requests, newest>>

(* It keeps everything but the flight table and the numbers.                  *)
LEMMA FollowKeeps ==
  ASSUME CacheIInv, NEW r \in Callers, NEW n, NEW k, Follows(r, n, k)
  PROVE  /\ CacheTypes' /\ ListIsMap(order, items)' /\ WaitersFollow'
         /\ NothingIsNewer' /\ CacheIsOlder' /\ FloorsHold' /\ Asking' \subseteq Asking
<1>1. CacheTypes /\ ListIsMap(order, items) /\ WaitersFollow
  BY DEF CacheIInv
<1>2. /\ caller[r].stage = "missed" /\ k = caller[r].key
      /\ n \in DOMAIN calls' /\ calls'[n].key = k /\ calls'[n].stage # "finished" /\ n \in 1..MaxRequests
      /\ DOMAIN calls \subseteq DOMAIN calls' /\ DOMAIN calls' \subseteq DOMAIN calls \cup {n}
      /\ n \notin DOMAIN calls => calls'[n].stage = "querying"
      /\ calls'[n] \in CallStates
      /\ \A c \in DOMAIN calls : calls'[c] = calls[c]
      /\ UNCHANGED <<data, items, order, requests, newest>>
  BY DEF Follows
<1>3. /\ k \in Keys /\ caller[r].floor \in Versions /\ caller[r].floor <= newest[k]
  BY <1>2, StateFacts
<1>4. PICK s : s = [stage |-> "waiting", key |-> k, floor |-> caller[r].floor, call |-> n]
  OBVIOUS
<1>5. /\ s \in CallerStates /\ s.stage = "waiting" /\ s.key = k /\ s.floor = caller[r].floor /\ s.call = n
  BY <1>2, <1>3, <1>4, CallerMakes
<1>6. caller' = [caller EXCEPT ![r] = s]
  BY <1>4 DEF Follows
<1>7. Moves(r, s)
  BY <1>2, <1>3, <1>5, <1>6 DEF Moves
<1>8. \A x \in Callers : caller'[x] = IF x = r THEN s ELSE caller[x]
  BY <1>1, <1>6 DEF CacheTypes
<1>9. CacheTypes'
  <2>1. caller' \in [Callers -> CallerStates]
    BY <1>1, <1>5, <1>6 DEF CacheTypes
  <2>2. DOMAIN calls' \subseteq 1..MaxRequests /\ \A c \in DOMAIN calls' : calls'[c] \in CallStates
    BY <1>1, <1>2 DEF CacheTypes
  <2> QED BY <1>1, <1>2, <2>1, <2>2 DEF CacheTypes
<1>10. ListIsMap(order, items)'
  BY <1>1, <1>2 DEF ListIsMap
<1>11. WaitersFollow'
  <2> SUFFICES ASSUME NEW x \in Callers, Waits(x)'
               PROVE  caller'[x].call \in DOMAIN calls' /\ calls'[caller'[x].call].key = caller'[x].key
    BY DEF WaitersFollow
  <2>1. CASE x = r
    BY <1>2, <1>5, <1>8, <2>1
  <2>2. CASE x # r
    BY <1>1, <1>2, <1>8, <2>2 DEF WaitersFollow, Waits
  <2> QED BY <2>1, <2>2
<1>12. NothingIsNewer' /\ CacheIsOlder'
  <2>1. \A c \in DOMAIN calls' : c \notin DOMAIN calls => calls'[c].stage = "querying"
    BY <1>2
  <2> QED BY <1>2, <1>7, <1>9, <2>1, MovesKeepAges
<1>13. FloorsHold'
  BY <1>2, <1>5, <1>7, <1>9, MovesKeepFloors
<1>14. Asking' \subseteq Asking
  BY <1>5, <1>8 DEF Asking
<1> QED BY <1>9, <1>10, <1>11, <1>12, <1>13, <1>14

(* A request joins the query that runs for its key. *)
LEMMA JoinKeeps ==
  ASSUME CacheIInv, NEW r \in Callers, Join(r)
  PROVE  CacheIInv'
<1>1. CacheTypes /\ FlightTable /\ NumbersLast
  BY DEF CacheIInv
<1>2. PICK k, n : k = caller[r].key /\ n = inflight[k]
  OBVIOUS
<1>3. /\ caller[r].stage = "missed" /\ k \in DOMAIN inflight
      /\ UNCHANGED <<data, items, order, inflight, calls, requests, newest>>
  BY <1>2 DEF Join, cache
<1>4. caller' = [caller EXCEPT ![r] =
                      [stage |-> "waiting", key |-> k, floor |-> caller[r].floor, call |-> n]]
  BY <1>1, <1>2 DEF Join, Waiting, CacheTypes
<1>5. n \in DOMAIN calls /\ calls[n].key = k /\ calls[n].stage # "finished"
  BY <1>1, <1>2, <1>3 DEF FlightTable, Running
<1>6. Follows(r, n, k)
  BY <1>1, <1>2, <1>3, <1>4, <1>5 DEF Follows, CacheTypes
<1>7. /\ CacheTypes' /\ ListIsMap(order, items)' /\ WaitersFollow'
      /\ NothingIsNewer' /\ CacheIsOlder' /\ FloorsHold' /\ Asking' \subseteq Asking
  BY <1>6, FollowKeeps
<1>8. FlightTable'
  BY <1>1, <1>3, FlightKept
<1>9. NumbersLast'
  <2>1. DOMAIN calls' \subseteq DOMAIN calls /\ requests' = requests
    BY <1>3
  <2> QED BY <1>1, <1>7, <2>1, NumbersKept
<1> QED BY <1>7, <1>8, <1>9 DEF CacheIInv

(* Or starts one. *)
LEMMA LeadKeeps ==
  ASSUME CacheIInv, NEW r \in Callers, Lead(r)
  PROVE  CacheIInv'
<1>1. CacheTypes /\ FlightTable /\ NumbersLast
  BY DEF CacheIInv
<1>2. PICK n, k : Leads(r, n, k)
  BY <1>1, LeadFacts
<1>3. caller[r].stage = "missed"
  BY DEF Lead
<1>4. Follows(r, n, k)
  BY <1>2, <1>3 DEF Follows, Leads
<1>5. /\ CacheTypes' /\ ListIsMap(order, items)' /\ WaitersFollow'
      /\ NothingIsNewer' /\ CacheIsOlder' /\ FloorsHold'
  BY <1>4, FollowKeeps
<1>6. FlightTable' /\ NumbersLast'
  BY <1>1, LeadFlight, LeadNumbers
<1> QED BY <1>5, <1>6 DEF CacheIInv

(* A query ends: it read the database as it is, failed or was refused.        *)
LEMMA QueryKeeps ==
  ASSUME CacheIInv, NEW c \in DOMAIN calls, Query(c)
  PROVE  CacheIInv'
<1>1. CacheTypes /\ ListIsMap(order, items) /\ FlightTable /\ NumbersLast /\ WaitersFollow
      /\ NothingIsNewer /\ CacheIsOlder /\ FloorsHold
  BY DEF CacheIInv
<1>2. PICK outcome \in {Rows(data), Error("failed"), Error("refused")} :
        calls' = [calls EXCEPT ![c] = [key |-> @.key, stage |-> "answered", result |-> outcome]]
  BY DEF Query
<1>3. calls[c].stage = "querying" /\ UNCHANGED <<data, items, order, inflight, requests, caller, newest>>
  BY DEF Query, cache
<1>4. PICK k : k = calls[c].key
  OBVIOUS
<1>5. k \in Keys
  BY <1>1, <1>4, CallFacts DEF CacheTypes
<1>6. data \in Versions /\ data \in Int
  BY <1>1, CacheAssumption DEF CacheTypes, Versions
<1>7. outcome \in Results /\ (outcome.err = "nil" => outcome.rows = data)
  BY <1>6, ResultFacts
<1>8. /\ DOMAIN calls' = DOMAIN calls
      /\ calls'[c] = [key |-> k, stage |-> "answered", result |-> outcome]
      /\ \A d \in DOMAIN calls : d # c => calls'[d] = calls[d]
  BY <1>2, <1>4
<1>9. /\ calls'[c].key = k /\ calls'[c].stage = "answered" /\ calls'[c].result = outcome
      /\ calls'[c] \in CallStates
  <2>1. [key |-> k, stage |-> "answered", result |-> outcome] \in CallStates
    BY <1>5, <1>7 DEF CallStates
  <2> QED BY <1>8, <2>1
<1>10. CacheTypes'
  <2>1. \A d \in DOMAIN calls' : calls'[d] \in CallStates
    BY <1>1, <1>8, <1>9 DEF CacheTypes
  <2> QED BY <1>1, <1>3, <1>8, <2>1 DEF CacheTypes
<1>11. ListIsMap(order, items)'
  BY <1>1, <1>3 DEF ListIsMap
<1>12. FlightTable'
  <2>1. Running' = Running
    BY <1>3, <1>8, <1>9 DEF Running
  <2>2. \A d \in Running : calls'[d].key = calls[d].key
    BY <1>4, <1>8, <1>9 DEF Running
  <2> QED BY <1>1, <1>3, <2>1, <2>2, FlightUnmoved
<1>13. NumbersLast'
  <2>1. Asking' = Asking /\ DOMAIN calls' = DOMAIN calls /\ requests' = requests
    BY <1>3, <1>8 DEF Asking
  <2> QED BY <1>1, <2>1 DEF NumbersLast
<1>14. \A d \in DOMAIN calls : calls'[d].key = calls[d].key
  BY <1>4, <1>8, <1>9
<1>15. WaitersFollow'
  BY <1>1, <1>3, <1>8, <1>14 DEF WaitersFollow, Waits
<1>16. \A d \in DOMAIN calls : Done(d)' => d # c /\ Done(d) /\ calls'[d] = calls[d]
  BY <1>8, <1>9 DEF Done
<1>17. FloorsHold'
  <2> SUFFICES ASSUME NEW x \in Callers PROVE FloorHolds(x)'
    BY DEF FloorsHold
  <2>1. FloorHolds(x) /\ caller'[x] = caller[x] /\ newest' = newest
    BY <1>1, <1>3 DEF FloorsHold
  <2>2. Waits(x) => caller[x].call \in DOMAIN calls
    BY <1>1 DEF WaitersFollow
  <2>3. Waits(x)' /\ Done(caller[x].call)' => caller'[x].floor <= calls'[caller'[x].call].result.rows
    <3>1. Waits(x)' /\ Done(caller[x].call)' =>
            Waits(x) /\ calls'[caller[x].call].stage = "finished" /\ calls'[caller[x].call].result.err = "nil"
      BY <2>1 DEF Waits, Done
    <3>2. Waits(x)' /\ Done(caller[x].call)' =>
            caller[x].call # c /\ calls'[caller[x].call] = calls[caller[x].call]
      BY <1>8, <1>9, <2>2, <3>1
    <3> QED BY <2>1, <3>1, <3>2 DEF FloorHolds, Done
  <2> QED BY <2>1, <2>3 DEF FloorHolds, Hears
<1>18. \A y \in Keys : \A v \in Known(y)' : v \in Known(y)
  BY <1>3, <1>8, <1>16 DEF Known, Hears
<1>19. \A d \in DOMAIN calls : Fresh(d)' /\ d # c => Fresh(d) /\ calls'[d] = calls[d]
  BY <1>8 DEF Fresh
<1>20. Fresh(c)' => calls'[c].result.rows = data
  BY <1>7, <1>9 DEF Fresh
<1>21. NothingIsNewer'
  <2> SUFFICES ASSUME NEW y \in Keys, NEW v \in Known(y)'
               PROVE  /\ v <= data'
                      /\ y \in DOMAIN items' => v <= items'[y].rows
                      /\ \A d \in DOMAIN calls' : calls'[d].key = y /\ Fresh(d)' => v <= calls'[d].result.rows
    BY DEF NothingIsNewer
  <2>1. /\ v <= data
        /\ y \in DOMAIN items => v <= items[y].rows
        /\ \A d \in DOMAIN calls : calls[d].key = y /\ Fresh(d) => v <= calls[d].result.rows
    BY <1>1, <1>18 DEF NothingIsNewer
  <2>2. \A d \in DOMAIN calls' : calls'[d].key = y /\ Fresh(d)' => v <= calls'[d].result.rows
    <3> TAKE d \in DOMAIN calls'
    <3>1. CASE d = c
      BY <1>20, <2>1, <3>1
    <3>2. CASE d # c
      BY <1>8, <1>19, <2>1, <3>2
    <3> QED BY <3>1, <3>2
  <2> QED BY <1>3, <2>1, <2>2
<1>22. CacheIsOlder'
  <2>1. \A y \in DOMAIN items' : items'[y].rows <= data'
    BY <1>1, <1>3 DEF CacheIsOlder
  <2> SUFFICES ASSUME NEW d \in DOMAIN calls', Fresh(d)'
               PROVE  /\ calls'[d].result.rows <= data'
                      /\ calls'[d].key \in DOMAIN items' => items'[calls'[d].key].rows <= calls'[d].result.rows
    BY <2>1 DEF CacheIsOlder
  <2>2. CASE d = c
    <3>1. data <= data
      BY <1>6
    <3> QED BY <1>3, <1>9, <1>20, <2>1, <2>2, <3>1
  <2>3. CASE d # c
    BY <1>1, <1>3, <1>8, <1>19, <2>3 DEF CacheIsOlder
  <2> QED BY <2>2, <2>3
<1> QED BY <1>10, <1>11, <1>12, <1>13, <1>15, <1>17, <1>21, <1>22 DEF CacheIInv

(* What a finished query leaves is at least as new as everything known.       *)
LEMMA FinishIsNewest ==
  ASSUME CacheIInv, NEW c, NEW k, NEW x, Finishes(c, k, x), x.err = "nil"
  PROVE  /\ x.rows \in Versions
         /\ \A v \in Known(k) : v <= x.rows
         /\ calls[c].result.err # "nil" => k \in DOMAIN items /\ x.rows = items[k].rows
         /\ calls[c].result.err = "nil" => x = calls[c].result /\ Fresh(c)
<1>1. c \in DOMAIN calls /\ k = calls[c].key /\ k \in Keys /\ calls[c].stage = "answered" /\ x \in Results
      /\ \/ x = calls[c].result
         \/ calls[c].result.err # "nil" /\ k \in DOMAIN items /\ x = Rows(items[k].rows)
  BY DEF Finishes
<1>2. NothingIsNewer
  BY DEF CacheIInv
<1>3. x.rows \in Versions
  BY <1>1 DEF Results
<1>4. CASE calls[c].result.err = "nil"
  <2>1. x = calls[c].result /\ Fresh(c)
    BY <1>1, <1>4 DEF Fresh
  <2> QED BY <1>1, <1>2, <1>3, <1>4, <2>1 DEF NothingIsNewer
<1>5. CASE calls[c].result.err # "nil"
  <2>1. k \in DOMAIN items /\ x.rows = items[k].rows
    BY <1>1, <1>5 DEF Rows
  <2> QED BY <1>1, <1>2, <1>3, <1>5, <2>1 DEF NothingIsNewer
<1> QED BY <1>4, <1>5

(* A query that failed brings nothing but what was cached. *)
LEMMA FailedKeepsAges ==
  ASSUME CacheIInv, CacheTypes', NEW c, NEW k, NEW x, Finishes(c, k, x),
         calls[c].result.err # "nil"
  PROVE  NothingIsNewer' /\ CacheIsOlder'
<1>1. CacheTypes /\ ListIsMap(order, items) /\ NothingIsNewer /\ CacheIsOlder
  BY DEF CacheIInv
<1>2. /\ c \in DOMAIN calls /\ DOMAIN calls' = DOMAIN calls
      /\ calls'[c].key = k /\ calls'[c].stage = "finished" /\ calls'[c].result = x
      /\ \A d \in DOMAIN calls : d # c => calls'[d] = calls[d]
      /\ UNCHANGED <<data, items, caller, newest>>
  BY DEF Finishes
<1>3. \A y \in Keys : Passed(y, newest'[y])
  BY <1>1, <1>2, KnownFacts DEF Passed
<1>4. \A d \in DOMAIN calls' : Done(d)' => Passed(calls'[d].key, calls'[d].result.rows)
  <2> SUFFICES ASSUME NEW d \in DOMAIN calls', Done(d)' PROVE Passed(calls'[d].key, calls'[d].result.rows)
    OBVIOUS
  <2>1. CASE d = c
    <3>1. x.err = "nil"
      BY <1>2, <2>1 DEF Done
    <3>2. k \in DOMAIN items /\ x.rows = items[k].rows
      BY <3>1, FinishIsNewest
    <3> QED BY <1>2, <2>1, <3>2 DEF Passed
  <2>2. CASE d # c
    <3>1. d \in DOMAIN calls /\ calls'[d] = calls[d] /\ Done(d)
      BY <1>2, <2>2 DEF Done
    <3> QED BY <1>1, <3>1, KnownFacts DEF Passed
  <2> QED BY <2>1, <2>2
<1>5. \A y \in Callers : Hears(y)' => Passed(caller'[y].key, caller'[y].result.rows)
  BY <1>1, <1>2, KnownFacts DEF Passed, Hears
<1>6. data <= data'
  BY <1>1, <1>2, CacheAssumption DEF CacheTypes, Versions
<1>7. \A d \in DOMAIN calls' : Fresh(d)' => d \in DOMAIN calls /\ calls'[d] = calls[d]
  BY <1>2 DEF Fresh
<1>8. DOMAIN items' = DOMAIN items /\ \A y \in DOMAIN items : items'[y].rows = items[y].rows
  BY <1>2
<1> QED BY <1>1, <1>3, <1>4, <1>5, <1>6, <1>7, <1>8, AgesKept

(* A query that read rows stores them: no other query of its key runs that    *)
(* could have read before it and store after it.                              *)
LEMMA StoredKeepsAges ==
  ASSUME CacheIInv, NEW c, NEW k, NEW x, Finishes(c, k, x),
         calls[c].result.err = "nil"
  PROVE  NothingIsNewer' /\ CacheIsOlder'
<1>1. CacheTypes /\ ListIsMap(order, items) /\ FlightTable /\ NothingIsNewer /\ CacheIsOlder
  BY DEF CacheIInv
<1>2. /\ c \in DOMAIN calls /\ k = calls[c].key /\ k \in Keys /\ calls[c].stage = "answered"
      /\ DOMAIN calls' = DOMAIN calls
      /\ calls'[c].key = k /\ calls'[c].stage = "finished" /\ calls'[c].result = x
      /\ \A d \in DOMAIN calls : d # c => calls'[d] = calls[d]
      /\ data' = data /\ caller' = caller /\ newest' = newest
  BY DEF Finishes
<1>3. x = calls[c].result /\ x.err = "nil" /\ Fresh(c)
  BY <1>2 DEF Finishes, Fresh
<1>4. x.rows \in Versions /\ (\A v \in Known(k) : v <= x.rows) /\ x.rows <= data
  BY <1>1, <1>2, <1>3, FinishIsNewest DEF CacheIsOlder
<1>5. Store(k, x.rows)
  BY <1>3 DEF Finishes
<1>6. /\ k \in DOMAIN items' /\ items'[k].rows = x.rows
      /\ \A y \in DOMAIN items' : y # k => y \in DOMAIN items /\ items'[y] = items[y]
  <2>1. /\ k \in DOMAIN items' /\ items'[k] = [rows |-> x.rows, fresh |-> TRUE]
        /\ \A y \in DOMAIN items' : y # k => y \in DOMAIN items /\ items'[y] = items[y]
    BY <1>1, <1>2, <1>4, <1>5, StoreFacts
  <2> QED BY <2>1
<1>7. x.rows <= x.rows
  BY <1>4, CacheAssumption DEF Versions
<1>8. \A y \in Keys : \A v \in Known(y)' : v \in Known(y) \/ (y = k /\ v = x.rows)
  <2> SUFFICES ASSUME NEW y \in Keys, NEW v \in Known(y)' PROVE v \in Known(y) \/ (y = k /\ v = x.rows)
    OBVIOUS
  <2>1. \/ v = newest'[y]
        \/ \E d \in DOMAIN calls' : calls'[d].key = y /\ Done(d)' /\ v = calls'[d].result.rows
        \/ \E r \in Callers : Hears(r)' /\ caller'[r].key = y /\ v = caller'[r].result.rows
    BY DEF Known
  <2>2. CASE v = newest'[y]
    BY <1>2, <2>2 DEF Known
  <2>3. CASE \E r \in Callers : Hears(r)' /\ caller'[r].key = y /\ v = caller'[r].result.rows
    BY <1>2, <2>3 DEF Known, Hears
  <2>4. ASSUME NEW d \in DOMAIN calls', calls'[d].key = y, Done(d)', v = calls'[d].result.rows
        PROVE  v \in Known(y) \/ (y = k /\ v = x.rows)
    <3>1. CASE d = c
      BY <1>2, <2>4, <3>1
    <3>2. CASE d # c
      <4>1. d \in DOMAIN calls /\ calls'[d] = calls[d] /\ Done(d)
        BY <1>2, <2>4, <3>2 DEF Done
      <4> QED BY <2>4, <4>1 DEF Known
    <3> QED BY <3>1, <3>2
  <2> QED BY <2>1, <2>2, <2>3, <2>4
<1>9. \A d \in DOMAIN calls' : Fresh(d)' =>
        d \in DOMAIN calls /\ calls'[d] = calls[d] /\ Fresh(d) /\ calls[d].key # k
  <2> SUFFICES ASSUME NEW d \in DOMAIN calls', Fresh(d)'
               PROVE  d \in DOMAIN calls /\ calls'[d] = calls[d] /\ Fresh(d) /\ calls[d].key # k
    OBVIOUS
  <2>1. d # c
    BY <1>2 DEF Fresh
  <2>2. d \in DOMAIN calls /\ calls'[d] = calls[d] /\ Fresh(d)
    BY <1>2, <2>1 DEF Fresh
  <2>3. d \in Running /\ c \in Running
    BY <1>2, <2>2 DEF Running, Fresh
  <2>4. calls[d].key # k
    BY <1>1, <1>2, <2>1, <2>3 DEF FlightTable
  <2> QED BY <2>2, <2>4
<1>10. NothingIsNewer'
  <2> SUFFICES ASSUME NEW y \in Keys, NEW v \in Known(y)'
               PROVE  /\ v <= data'
                      /\ y \in DOMAIN items' => v <= items'[y].rows
                      /\ \A d \in DOMAIN calls' : calls'[d].key = y /\ Fresh(d)' => v <= calls'[d].result.rows
    BY DEF NothingIsNewer
  <2>1. CASE y = k
    <3>1. v \in Known(k) \/ v = x.rows
      BY <1>8, <2>1
    <3>2. v <= x.rows /\ v <= data
      BY <1>1, <1>2, <1>4, <1>7, <3>1 DEF NothingIsNewer
    <3>3. \A d \in DOMAIN calls' : ~(calls'[d].key = k /\ Fresh(d)')
      BY <1>9
    <3> QED BY <1>2, <1>6, <2>1, <3>2, <3>3
  <2>2. CASE y # k
    <3>1. v \in Known(y)
      BY <1>8, <2>2
    <3>2. /\ v <= data
          /\ y \in DOMAIN items => v <= items[y].rows
          /\ \A d \in DOMAIN calls : calls[d].key = y /\ Fresh(d) => v <= calls[d].result.rows
      BY <1>1, <3>1 DEF NothingIsNewer
    <3>3. y \in DOMAIN items' => v <= items'[y].rows
      BY <1>6, <2>2, <3>2
    <3>4. \A d \in DOMAIN calls' : calls'[d].key = y /\ Fresh(d)' => v <= calls'[d].result.rows
      BY <1>9, <3>2
    <3> QED BY <1>2, <3>2, <3>3, <3>4
  <2> QED BY <2>1, <2>2
<1>11. CacheIsOlder'
  <2>1. \A y \in DOMAIN items' : items'[y].rows <= data'
    BY <1>1, <1>2, <1>4, <1>6 DEF CacheIsOlder
  <2>2. \A d \in DOMAIN calls' : Fresh(d)' =>
          /\ calls'[d].result.rows <= data'
          /\ calls'[d].key \in DOMAIN items' => items'[calls'[d].key].rows <= calls'[d].result.rows
    BY <1>1, <1>2, <1>6, <1>9 DEF CacheIsOlder
  <2> QED BY <2>1, <2>2 DEF CacheIsOlder
<1> QED BY <1>10, <1>11

(* A leader finishes. *)
LEMMA FinishKeeps ==
  ASSUME CacheIInv, NEW c \in DOMAIN calls, Finish(c)
  PROVE  CacheIInv'
<1>1. CacheTypes /\ ListIsMap(order, items) /\ FlightTable /\ NumbersLast /\ WaitersFollow /\ FloorsHold
  BY DEF CacheIInv
<1>2. PICK k, x : Finishes(c, k, x)
  BY <1>1, FinishFacts
<1>3. /\ k = calls[c].key /\ k \in Keys /\ calls[c].stage = "answered"
      /\ DOMAIN calls' = DOMAIN calls
      /\ calls'[c].key = k /\ calls'[c].stage = "finished" /\ calls'[c].result = x /\ calls'[c] \in CallStates
      /\ \A d \in DOMAIN calls : d # c => calls'[d] = calls[d]
      /\ UNCHANGED <<data, requests, caller, newest>>
  BY <1>2 DEF Finishes
<1>4. CacheTypes'
  <2>1. \A d \in DOMAIN calls' : calls'[d] \in CallStates
    BY <1>1, <1>3 DEF CacheTypes
  <2> QED BY <1>1, <1>3, <2>1 DEF CacheTypes
<1>5. ListIsMap(order, items)'
  <2>1. CASE calls[c].result.err = "nil"
    <3>1. calls[c].result.rows \in Versions
      <4>1. x = calls[c].result /\ x \in Results
        BY <1>2, <2>1 DEF Finishes
      <4> QED BY <4>1 DEF Results
    <3>2. Store(k, calls[c].result.rows)
      BY <1>2, <2>1 DEF Finishes
    <3>3. ListIsMap(order', items')
      BY <1>1, <1>3, <3>1, <3>2, StoreFacts
    <3> QED BY <3>3 DEF ListIsMap
  <2>2. CASE calls[c].result.err # "nil"
    <3>1. items' = items /\ order' = order
      BY <1>2, <2>2 DEF Finishes
    <3> QED BY <1>1, <3>1 DEF ListIsMap
  <2> QED BY <2>1, <2>2
<1>6. FlightTable'
  BY <1>1, <1>2, FinishFlight
<1>7. NumbersLast'
  <2>1. Asking' = Asking
    BY <1>3 DEF Asking
  <2> QED BY <1>1, <1>3, <2>1 DEF NumbersLast
<1>8. WaitersFollow'
  <2>1. \A d \in DOMAIN calls : calls'[d].key = calls[d].key
    BY <1>3
  <2> QED BY <1>1, <1>3, <2>1 DEF WaitersFollow, Waits
<1>9. NothingIsNewer' /\ CacheIsOlder'
  BY <1>2, <1>4, FailedKeepsAges, StoredKeepsAges
<1>10. FloorsHold'
  <2> SUFFICES ASSUME NEW y \in Callers PROVE FloorHolds(y)'
    BY DEF FloorsHold
  <2>1. FloorHolds(y) /\ caller'[y] = caller[y] /\ newest' = newest
    BY <1>1, <1>3 DEF FloorsHold
  <2>2. CASE Waits(y) /\ caller[y].call = c
    <3>1. caller[y].key = k /\ caller[y].stage # "idle" /\ ~Hears(y)
      BY <1>1, <1>3, <2>2 DEF WaitersFollow, Waits, Hears
    <3>2. /\ caller[y].floor \in Versions /\ caller[y].floor <= newest[k]
      BY <3>1, StateFacts
    <3>3. newest[k] \in Known(k) /\ newest[k] \in Versions
      BY <1>1, <1>3, KnownFacts DEF CacheTypes
    <3>4. x.err = "nil" => x.rows \in Versions /\ newest[k] <= x.rows
      BY <1>2, <3>3, FinishIsNewest
    <3>5. \A u, v, w \in Versions : u <= v /\ v <= w => u <= w
      BY CacheAssumption DEF Versions
    <3>6. x.err = "nil" => caller[y].floor <= x.rows
      BY <3>2, <3>3, <3>4, <3>5
    <3> QED BY <1>3, <2>1, <2>2, <3>1, <3>6 DEF FloorHolds, Waits, Hears, Done
  <2>3. CASE ~(Waits(y) /\ caller[y].call = c)
    <3>1. Waits(y) => calls'[caller[y].call] = calls[caller[y].call]
      BY <1>1, <1>3, <2>3 DEF WaitersFollow
    <3>2. \A z \in Keys : newest[z] <= newest'[z]
      BY <1>1, <1>3, CacheAssumption DEF CacheTypes, Versions
    <3> QED BY <1>1, <1>4, <2>1, <3>1, <3>2, FloorStays
  <2> QED BY <2>2, <2>3
<1> QED BY <1>4, <1>5, <1>6, <1>7, <1>8, <1>9, <1>10 DEF CacheIInv

(* And wakes who waits for it. *)
LEMMA CloseKeeps ==
  ASSUME CacheIInv, NEW c \in DOMAIN calls, CloseDone(c)
  PROVE  CacheIInv'
<1>1. CacheTypes /\ ListIsMap(order, items) /\ FlightTable /\ NumbersLast /\ WaitersFollow
      /\ NothingIsNewer /\ CacheIsOlder /\ FloorsHold
  BY DEF CacheIInv
<1>2. /\ calls[c].stage = "finished" /\ caller' = Woken(c) /\ calls' = Without(calls, c)
      /\ UNCHANGED <<data, items, order, inflight, requests, newest>>
  BY DEF CloseDone, cache
<1>3. DOMAIN calls' = DOMAIN calls \ {c} /\ \A d \in DOMAIN calls' : calls'[d] = calls[d]
  BY <1>2 DEF Without
<1>4. PICK x : x = calls[c].result
  OBVIOUS
<1>5. x \in Results
  BY <1>1, <1>2, <1>4, CallFacts DEF CacheTypes
<1> DEFINE Answered(r) == Waits(r) /\ caller[r].call = c
<1>6. \A r \in Callers : ~Answered(r) => caller'[r] = caller[r]
  BY <1>2 DEF Woken, Waits
<1>7. \A r \in Callers : Answered(r) =>
        caller'[r] = [stage |-> "woken", key |-> caller[r].key, floor |-> caller[r].floor, result |-> x]
  BY <1>2, <1>4 DEF Woken, Waits
<1>8. \A r \in Callers : Answered(r) =>
        /\ caller'[r] \in CallerStates /\ caller'[r].stage = "woken" /\ caller'[r].result = x
        /\ caller'[r].key = calls[c].key /\ caller'[r].floor = caller[r].floor
  <2> SUFFICES ASSUME NEW r \in Callers, Answered(r)
               PROVE  /\ caller'[r] \in CallerStates /\ caller'[r].stage = "woken" /\ caller'[r].result = x
                      /\ caller'[r].key = calls[c].key /\ caller'[r].floor = caller[r].floor
    BY Zenon
  <2>1. caller[r].key = calls[c].key
    BY <1>1 DEF WaitersFollow
  <2>2. caller[r].key \in Keys /\ caller[r].floor \in Versions
    BY StateFacts DEF Waits
  <2>3. [stage |-> "woken", key |-> caller[r].key, floor |-> caller[r].floor, result |-> x] \in CallerStates
    BY <1>5, <2>2, CallerMakes
  <2> QED BY <1>7, <2>1, <2>3
<1> HIDE DEF Answered
<1>9. CacheTypes'
  <2>1. caller' \in [Callers -> CallerStates]
    <3>1. DOMAIN caller' = Callers /\ caller' = [r \in Callers |-> caller'[r]]
      BY <1>2 DEF Woken
    <3>2. \A r \in Callers : caller'[r] \in CallerStates
      BY <1>1, <1>6, <1>8 DEF CacheTypes
    <3> QED BY <3>1, <3>2
  <2>2. DOMAIN calls' \subseteq 1..MaxRequests /\ \A d \in DOMAIN calls' : calls'[d] \in CallStates
    BY <1>1, <1>3 DEF CacheTypes
  <2> QED BY <1>1, <1>2, <2>1, <2>2 DEF CacheTypes
<1>10. ListIsMap(order, items)'
  BY <1>1, <1>2 DEF ListIsMap
<1>11. FlightTable'
  <2>1. Running' = Running
    BY <1>2, <1>3 DEF Running
  <2>2. \A d \in Running : calls'[d].key = calls[d].key
    BY <1>2, <1>3 DEF Running
  <2> QED BY <1>1, <1>2, <2>1, <2>2, FlightUnmoved
<1>12. NumbersLast'
  <2>1. Asking' \subseteq Asking
    BY <1>6, <1>8 DEF Asking
  <2> QED BY <1>1, <1>2, <1>3, <1>9, <2>1, NumbersKept
<1>13. \A r \in Callers : Waits(r)' => Waits(r) /\ caller'[r] = caller[r] /\ caller[r].call # c
  BY <1>6, <1>8 DEF Waits, Answered
<1>14. WaitersFollow'
  BY <1>1, <1>3, <1>13 DEF WaitersFollow
<1>15. NothingIsNewer' /\ CacheIsOlder'
  <2>1. \A y \in Keys : Passed(y, newest'[y])
    BY <1>1, <1>2, KnownFacts DEF Passed
  <2>2. \A d \in DOMAIN calls' : Done(d)' => Passed(calls'[d].key, calls'[d].result.rows)
    <3> SUFFICES ASSUME NEW d \in DOMAIN calls', Done(d)' PROVE Passed(calls'[d].key, calls'[d].result.rows)
      OBVIOUS
    <3>1. d \in DOMAIN calls /\ calls'[d] = calls[d] /\ Done(d)
      BY <1>3 DEF Done
    <3> QED BY <1>1, <3>1, KnownFacts DEF Passed
  <2>3. \A r \in Callers : Hears(r)' => Passed(caller'[r].key, caller'[r].result.rows)
    <3> SUFFICES ASSUME NEW r \in Callers, Hears(r)' PROVE Passed(caller'[r].key, caller'[r].result.rows)
      OBVIOUS
    <3>1. CASE Answered(r)
      <4>1. Done(c)
        BY <1>2, <1>4, <1>8, <3>1 DEF Done, Hears
      <4> QED BY <1>1, <1>4, <1>8, <3>1, <4>1, KnownFacts DEF Passed
    <3>2. CASE ~Answered(r)
      <4>1. caller'[r] = caller[r] /\ Hears(r)
        BY <1>6, <3>2 DEF Hears
      <4> QED BY <1>1, <4>1, KnownFacts DEF Passed
    <3> QED BY <3>1, <3>2
  <2>4. data <= data'
    BY <1>1, <1>2, CacheAssumption DEF CacheTypes, Versions
  <2>5. \A d \in DOMAIN calls' : Fresh(d)' => d \in DOMAIN calls /\ calls'[d] = calls[d]
    BY <1>3
  <2>6. DOMAIN items' = DOMAIN items /\ \A y \in DOMAIN items : items'[y].rows = items[y].rows
    BY <1>2
  <2> QED BY <1>1, <1>9, <2>1, <2>2, <2>3, <2>4, <2>5, <2>6, AgesKept
<1>16. FloorsHold'
  <2> SUFFICES ASSUME NEW r \in Callers PROVE FloorHolds(r)'
    BY DEF FloorsHold
  <2>1. FloorHolds(r)
    BY <1>1 DEF FloorsHold
  <2>2. CASE Answered(r)
    <3>1. caller[r].stage # "idle" /\ caller[r].key = calls[c].key
      BY <1>1, <2>2 DEF Answered, Waits, WaitersFollow
    <3>2. caller'[r].floor <= newest'[caller'[r].key]
      BY <1>2, <1>8, <2>2, <3>1, StateFacts
    <3>3. x.err = "nil" => caller[r].floor <= x.rows
      BY <1>2, <1>4, <2>1, <2>2 DEF Answered, FloorHolds, Done
    <3> QED BY <1>8, <2>2, <3>2, <3>3 DEF FloorHolds, Waits, Hears
  <2>3. CASE ~Answered(r)
    <3>1. caller'[r] = caller[r]
      BY <1>6, <2>3
    <3>2. Waits(r) => calls'[caller[r].call] = calls[caller[r].call]
      BY <1>1, <1>3, <2>3 DEF WaitersFollow, Answered
    <3>3. \A z \in Keys : newest[z] <= newest'[z]
      BY <1>1, <1>2, CacheAssumption DEF CacheTypes, Versions
    <3> QED BY <1>1, <1>9, <2>1, <3>1, <3>2, <3>3, FloorStays
  <2> QED BY <2>2, <2>3
<1> QED BY <1>9, <1>10, <1>11, <1>12, <1>14, <1>15, <1>16 DEF CacheIInv

-----------------------------------------------------------------------------
(* Nothing is cached, nobody asks. *)
LEMMA InitCache ==
  ASSUME CacheInit
  PROVE  CacheIInv
<1>1. /\ data = 0 /\ items = <<>> /\ order = <<>> /\ inflight = <<>> /\ calls = <<>> /\ requests = 0
      /\ caller = [r \in Callers |-> Idle] /\ newest = [k \in Keys |-> 0]
  BY DEF CacheInit
<1>2. 0 \in Versions /\ 0 \in 0..MaxRequests /\ 0 <= MaxLeaders /\ 0 <= MaxEntries /\ 0 <= 0
  BY CacheAssumption DEF Versions
<1>3. DOMAIN items = {} /\ DOMAIN inflight = {} /\ DOMAIN calls = {} /\ Len(order) = 0 /\ order \in Seq(Keys)
  BY <1>1
<1>4. \A r \in Callers : caller[r] = Idle /\ caller[r].stage = "idle"
  BY <1>1 DEF Idle
<1>5. IsFiniteSet({}) /\ Cardinality({}) = 0
  BY FS_EmptySet
<1>6. CacheTypes
  <2>1. Idle \in CallerStates
    BY DEF CallerStates
  <2>2. caller \in [Callers -> CallerStates] /\ newest \in [Keys -> Versions]
    BY <1>1, <1>2, <2>1
  <2> QED BY <1>1, <1>2, <1>3, <2>2 DEF CacheTypes
<1>7. ListIsMap(order, items)
  <2>1. 1..Len(order) = {}
    BY <1>3
  <2> QED BY <1>2, <1>3, <2>1 DEF ListIsMap
<1>8. FlightTable
  BY <1>2, <1>3, <1>5 DEF FlightTable, Running
<1>9. NumbersLast
  <2>1. Asking = {}
    BY <1>4 DEF Asking
  <2> QED BY <1>1, <1>2, <1>3, <1>5, <2>1 DEF NumbersLast
<1>10. WaitersFollow /\ FloorsHold
  BY <1>4 DEF WaitersFollow, Waits, FloorsHold, FloorHolds, Hears
<1>11. NothingIsNewer /\ CacheIsOlder
  <2>1. \A k \in Keys : Known(k) = {0}
    BY <1>1, <1>3, <1>4 DEF Known, Hears
  <2> QED BY <1>1, <1>2, <1>3, <2>1 DEF NothingIsNewer, CacheIsOlder
<1> QED BY <1>6, <1>7, <1>8, <1>9, <1>10, <1>11 DEF CacheIInv

(* Every step keeps the invariant. *)
LEMMA NextCache ==
  ASSUME CacheIInv, [CacheNext]_cacheVars
  PROVE  CacheIInv'
<1>1. CASE Write \/ \E k \in Keys : Expire(k)
  BY <1>1, WriteExpireKeep
<1>2. ASSUME NEW r \in Callers, NEW k \in Keys, Begin(r, k) PROVE CacheIInv'
  BY <1>2, BeginKeeps
<1>3. ASSUME NEW r \in Callers, Fetch(r) \/ Cancelled(r) PROVE CacheIInv'
  <2>1. CASE Lookup(r) /\ ~Hit(caller[r].key)
    BY <2>1, MissKeeps
  <2>2. CASE Join(r)
    BY <2>2, JoinKeeps
  <2>3. CASE Lead(r)
    BY <2>3, LeadKeeps
  <2>4. CASE \/ Lookup(r) /\ Hit(caller[r].key)
             \/ Rehit(r) \/ Overloaded(r) \/ Return(r) \/ Cancelled(r)
    <3>1. PICK what : Ends(r, what)
      BY <2>4, EndSteps
    <3> QED BY <3>1, EndKeeps
  <2> QED BY <1>3, <2>1, <2>2, <2>3, <2>4, Zenon DEF Fetch
<1>4. ASSUME NEW c \in DOMAIN calls, Leader(c) PROVE CacheIInv'
  BY <1>4, QueryKeeps, FinishKeeps, CloseKeeps DEF Leader
<1>5. CASE UNCHANGED cacheVars
  <2>1. UNCHANGED <<data, items, order, inflight, calls, requests, caller, newest>>
    BY <1>5 DEF cacheVars, cache
  <2>2. CacheTypes' /\ ListIsMap(order, items)'
    BY <2>1 DEF CacheIInv, CacheTypes, ListIsMap
  <2>3. data <= data'
    BY <2>1, CacheAssumption DEF CacheIInv, CacheTypes, Versions
  <2>4. DOMAIN items' = DOMAIN items /\ \A k \in DOMAIN items : items'[k].rows = items[k].rows
    BY <2>1
  <2> QED BY <2>1, <2>2, <2>3, <2>4, DataKeeps
<1> QED BY <1>1, <1>2, <1>3, <1>4, <1>5 DEF CacheNext

(* The list of the LRU counts the keys of its map. *)
LEMMA ListCounts ==
  ASSUME NEW o, NEW f, ListIsMap(o, f)
  PROVE  Len(o) = Cardinality(DOMAIN f)
<1>1. /\ o \in Seq(Keys) /\ Len(o) \in Nat /\ DOMAIN o = 1..Len(o)
      /\ \A i, j \in 1..Len(o) : o[i] = o[j] => i = j
      /\ DOMAIN f = {o[i] : i \in 1..Len(o)}
  BY DEF ListIsMap
<1> DEFINE S == 1..Len(o)
           T == DOMAIN f
           g == [i \in S |-> o[i]]
<1>2. g \in Bijection(S, T)
  <2>1. g \in [S -> T]
    BY <1>1
  <2>2. \A i, j \in S : g[i] = g[j] => i = j
    BY <1>1
  <2>3. \A t \in T : \E i \in S : g[i] = t
    BY <1>1
  <2> QED BY <2>1, <2>2, <2>3 DEF Bijection, Injection, Surjection, IsInjective
<1>3. IsFiniteSet(S) /\ Cardinality(S) = Len(o)
  <2>1. /\ IsFiniteSet(1..Len(o))
        /\ Cardinality(1..Len(o)) = IF 1 > Len(o) THEN 0 ELSE Len(o) - 1 + 1
    BY <1>1, FS_Interval
  <2> QED BY <1>1, <2>1
<1> HIDE DEF S, T, g
<1>4. Cardinality(S) = Cardinality(T)
  BY <1>2, <1>3, FS_Bijection, Zenon DEF ExistsBijection
<1> QED BY <1>3, <1>4 DEF T

(* The flight table is the queries that run, and the map and the list of the  *)
(* cache are one, in every state with the invariant.                          *)
LEMMA CacheInvIsSound ==
  ASSUME CacheIInv
  PROVE  CacheInv
<1>1. CacheTypes /\ ListIsMap(order, items) /\ FlightTable
  BY DEF CacheIInv
<1>2. CacheTypeOK
  <2>1. \A r \in Callers : caller[r].stage \in {"idle", "lookup", "missed", "waiting", "woken"}
    BY <1>1, CallerFacts DEF CacheTypes
  <2>2. \A c \in DOMAIN calls : calls[c].stage \in {"querying", "answered", "finished"}
    BY <1>1, CallFacts DEF CacheTypes
  <2>3. DOMAIN inflight \subseteq Keys /\ \A k \in DOMAIN inflight : inflight[k] \in DOMAIN calls
    BY <1>1 DEF FlightTable, Running
  <2>4. /\ order \in Seq(Keys) /\ Len(order) = Cardinality(DOMAIN items)
        /\ {order[i] : i \in 1..Len(order)} = DOMAIN items /\ Len(order) <= MaxEntries
        /\ \A k \in DOMAIN items : items[k] \in [rows : Versions, fresh : BOOLEAN]
    BY <1>1, ListCounts DEF ListIsMap
  <2>5. data \in Versions /\ requests \in 0..MaxRequests /\ newest \in [Keys -> Versions]
    BY <1>1 DEF CacheTypes
  <2> QED BY <2>1, <2>2, <2>3, <2>4, <2>5 DEF CacheTypeOK
<1>3. SlotsAreLeaders
  <2> DEFINE S == DOMAIN inflight
             T == Running
             g == [k \in S |-> inflight[k]]
  <2>1. \A k \in S : inflight[k] \in T /\ calls[inflight[k]].key = k
    BY <1>1 DEF FlightTable
  <2>2. \A c \in T : calls[c].key \in S /\ inflight[calls[c].key] = c
    BY <1>1 DEF FlightTable
  <2>3. IsFiniteSet(S) /\ Cardinality(S) <= MaxLeaders
    BY <1>1 DEF FlightTable
  <2>4. T = {inflight[k] : k \in S}
    BY <2>1, <2>2
  <2>5. g \in Bijection(S, T)
    <3> HIDE DEF T
    <3>1. g \in [S -> T]
      BY <2>1
    <3>2. \A i, j \in S : g[i] = g[j] => i = j
      BY <2>1
    <3>3. \A t \in T : \E i \in S : g[i] = t
      BY <2>2
    <3> QED BY <3>1, <3>2, <3>3 DEF Bijection, Injection, Surjection, IsInjective
  <2>6. Cardinality(T) <= MaxLeaders
    <3> HIDE DEF S, T, g
    <3>1. Cardinality(S) = Cardinality(T)
      BY <2>3, <2>5, FS_Bijection, Zenon DEF ExistsBijection
    <3> QED BY <2>3, <3>1
  <2> QED BY <2>1, <2>4, <2>6 DEF SlotsAreLeaders
<1> QED BY <1>2, <1>3 DEF CacheInv

(* And nobody is about to be told anything older than what was told before    *)
(* it began.                                                                  *)
LEMMA CacheInvLooksForward ==
  ASSUME CacheIInv
  PROVE  NeverBackInTime
<1>1. CacheTypes /\ ListIsMap(order, items) /\ NothingIsNewer /\ FloorsHold
  BY DEF CacheIInv
<1> SUFFICES ASSUME NEW r \in Callers, NEW version \in AboutToBeTold(r)
             PROVE  version >= caller[r].floor
  BY DEF NeverBackInTime
<1>2. \A u, v, w \in Versions : (u <= v /\ v <= w => w >= u) /\ (u <= v => v >= u)
  BY CacheAssumption DEF Versions
<1>3. CASE caller[r].stage \in {"lookup", "missed"} /\ Hit(caller[r].key)
  <2>1. PICK k : k = caller[r].key
    OBVIOUS
  <2>2. /\ k \in Keys /\ caller[r].floor \in Versions /\ caller[r].floor <= newest[k]
    BY <1>3, <2>1, StateFacts
  <2>3. version = items[k].rows /\ k \in DOMAIN items
    BY <1>3, <2>1 DEF AboutToBeTold, Hit
  <2>4. items[k].rows \in Versions /\ newest[k] \in Versions
    BY <1>1, <2>2, <2>3 DEF ListIsMap, CacheTypes
  <2>5. newest[k] <= items[k].rows
    BY <1>1, <2>2, <2>3, KnownFacts DEF NothingIsNewer
  <2> QED BY <1>2, <2>2, <2>3, <2>4, <2>5
<1>4. CASE caller[r].stage = "woken" /\ caller[r].result.err = "nil"
  <2>1. version = caller[r].result.rows
    BY <1>4 DEF AboutToBeTold
  <2>2. caller[r].floor <= caller[r].result.rows
    BY <1>1, <1>4 DEF FloorsHold, FloorHolds, Hears
  <2>3. caller[r].floor \in Versions /\ caller[r].result.rows \in Versions
    BY <1>1, <1>4, CallerFacts, StateFacts DEF CacheTypes, Results
  <2> QED BY <1>2, <2>1, <2>2, <2>3
<1>5. \/ caller[r].stage \in {"lookup", "missed"} /\ Hit(caller[r].key)
      \/ caller[r].stage = "woken" /\ caller[r].result.err = "nil"
  BY DEF AboutToBeTold
<1> QED BY <1>3, <1>4, <1>5

(* Single flight and the LRU hold whatever queries fail, expire or are        *)
(* cancelled: the flight table is the queries that run, one per key and no    *)
(* more than the ceiling, and list and map hold the same keys (fetchCycles,   *)
(* runCyclesLeader, storeLocked).                                             *)
THEOREM CacheIsSound == CacheSpec => []CacheInv
<1>1. CacheInit => CacheIInv
  BY InitCache
<1>2. CacheIInv /\ [CacheNext]_cacheVars => CacheIInv'
  BY NextCache
<1>3. CacheIInv => CacheInv
  BY CacheInvIsSound
<1> QED BY <1>1, <1>2, <1>3, PTL DEF CacheSpec

(* What a request is told is at least as new as anything a request was told   *)
(* for its key before it began, for any number of keys, requests, entries and *)
(* leaders (runCyclesLeader, lookup).                                         *)
THEOREM NobodyGoesBack == CacheSpec => []NeverBackInTime
<1>1. CacheInit => CacheIInv
  BY InitCache
<1>2. CacheIInv /\ [CacheNext]_cacheVars => CacheIInv'
  BY NextCache
<1>3. CacheIInv => NeverBackInTime
  BY CacheInvLooksForward
<1> QED BY <1>1, <1>2, <1>3, PTL DEF CacheSpec
=============================================================================
