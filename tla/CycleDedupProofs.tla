-------------------------- MODULE CycleDedupProofs --------------------------
(* Proofs about CycleDedup, for any sources, identities, window and ceiling.  *)
(* First one window: what an insertion or a release does to it and to its     *)
(* reading in the order of insertion.  Then the table of windows.             *)
EXTENDS CycleDedup, NumberLemmas, FiniteSetTheorems, SequenceTheorems

(* The position the slot of a remembered identity was filled at.              *)
AtItsSlot(w, id) ==
  /\ w.seen[id] \in (w.inserted - Len(w.ring)) .. (w.inserted - 1)
  /\ w.ring[(w.seen[id] % Window) + 1] = id

(* A window between operations: full, or filled from the front. *)
Sound(w) ==
  /\ IsWindow(w)
  /\ Len(w.ring) <= Window /\ Len(w.ring) <= w.inserted
  /\ Len(w.ring) = Window \/ w.inserted = Len(w.ring)
  /\ \A id \in DOMAIN w.seen : AtItsSlot(w, id)

(* A window's fields and what they hold. *)
LEMMA WindowFields ==
  ASSUME NEW w, IsWindow(w)
  PROVE  /\ w = [seen |-> w.seen, ring |-> w.ring, inserted |-> w.inserted, used |-> w.used]
         /\ DOMAIN w.seen \subseteq Ids /\ w.seen \in [DOMAIN w.seen -> Nat]
         /\ w.ring \in Seq(Ids) /\ w.inserted \in Nat /\ w.used \in Nat
         /\ Len(w.ring) \in Nat
<1>1. PICK S \in SUBSET Ids :
        w \in [seen : [S -> Nat], ring : Seq(Ids), inserted : Nat, used : Nat]
  BY DEF IsWindow
<1>2. DOMAIN w.seen = S BY <1>1
<1> QED BY <1>1, <1>2

(* Four such fields make a window. *)
LEMMA WindowIntro ==
  ASSUME NEW S \in SUBSET Ids, NEW seen \in [S -> Nat], NEW ring \in Seq(Ids),
         NEW inserted \in Nat, NEW used \in Nat
  PROVE  IsWindow([seen |-> seen, ring |-> ring, inserted |-> inserted, used |-> used])
BY DEF IsWindow

(* The empty window is sound and reads as nothing. *)
LEMMA EmptyWindowFacts ==
  ASSUME NEW at \in Nat
  PROVE  Sound(EmptyWindow(at)) /\ InOrder(EmptyWindow(at)) = <<>>
<1> DEFINE w == EmptyWindow(at)
<1>1. /\ w.seen = <<>> /\ w.ring = <<>> /\ w.inserted = 0 /\ w.used = at
      /\ Len(w.ring) = 0 /\ DOMAIN w.seen = {}
  BY DEF EmptyWindow
<1>2. IsWindow(w)
  <2>1. <<>> \in [{} -> Nat] OBVIOUS
  <2>2. <<>> \in Seq(Ids) OBVIOUS
  <2> QED BY <2>1, <2>2, WindowIntro DEF EmptyWindow
<1>3. Sound(w) BY <1>1, <1>2, DedupAssumption DEF Sound
<1>4. InOrder(w) = <<>> BY <1>1 DEF InOrder
<1> QED BY <1>3, <1>4

(* The time of use plays no part. *)
LEMMA UsedFacts ==
  ASSUME NEW w, Sound(w), NEW now \in Nat
  PROVE  LET u == [w EXCEPT !.used = now]
         IN  /\ Sound(u) /\ InOrder(u) = InOrder(w)
             /\ \A id : Remembers(u, id) <=> Remembers(w, id)
<1> DEFINE u == [w EXCEPT !.used = now]
<1>1. IsWindow(w) BY DEF Sound
<1>2. u.seen = w.seen /\ u.ring = w.ring /\ u.inserted = w.inserted /\ u.used = now
  BY <1>1, WindowFields
<1>3. u = [seen |-> w.seen, ring |-> w.ring, inserted |-> w.inserted, used |-> now]
  BY <1>1, WindowFields
<1>4. IsWindow(u)
  <2>1. /\ DOMAIN w.seen \in SUBSET Ids /\ w.seen \in [DOMAIN w.seen -> Nat]
        /\ w.ring \in Seq(Ids) /\ w.inserted \in Nat
    BY <1>1, WindowFields
  <2>2. IsWindow([seen |-> w.seen, ring |-> w.ring, inserted |-> w.inserted, used |-> now])
    BY <2>1, WindowIntro
  <2> QED BY Zenon, <1>3, <2>2
<1> HIDE DEF u
<1>5. Sound(u) BY <1>2, <1>4 DEF Sound, AtItsSlot
<1>6. InOrder(u) = InOrder(w) BY <1>2 DEF InOrder
<1>7. \A id : Remembers(u, id) <=> Remembers(w, id) BY <1>2 DEF Remembers
<1> QED BY <1>5, <1>6, <1>7 DEF u

(* The slot that held position p. *)
SlotAt(p) == (p % Window) + 1

(* The slots of a sound window's positions: in range, and its own slot each.  *)
LEMMA SlotFacts ==
  ASSUME NEW w, Sound(w),
         NEW p \in (w.inserted - Len(w.ring)) .. (w.inserted - 1)
  PROVE  /\ p \in Nat /\ SlotAt(p) \in 1..Len(w.ring)
         /\ Len(w.ring) < Window => SlotAt(p) = p + 1
<1>1. w.inserted \in Nat /\ Len(w.ring) \in Nat /\ Window \in Nat \ {0}
  BY WindowFields, DedupAssumption DEF Sound
<1>2. Len(w.ring) = Window \/ w.inserted = Len(w.ring) BY DEF Sound
<1>3. Len(w.ring) <= Window BY DEF Sound
<1>4. p \in Int BY <1>1
<1>5. p % Window \in 0..(Window - 1) BY <1>1, <1>4, ModRange
<1>6. CASE w.inserted = Len(w.ring)
  <2>1. p \in 0..(Window - 1) /\ p < Len(w.ring) BY <1>1, <1>3, <1>6
  <2>2. p % Window = p BY <1>1, <2>1, ModSmall
  <2> QED BY <1>1, <2>1, <2>2 DEF SlotAt
<1>7. CASE Len(w.ring) = Window
  BY <1>1, <1>3, <1>4, <1>5, <1>7 DEF SlotAt, Sound
<1> QED BY <1>2, <1>6, <1>7

(* Two of its positions share no slot. *)
LEMMA SlotsApart ==
  ASSUME NEW w, Sound(w),
         NEW p \in (w.inserted - Len(w.ring)) .. w.inserted,
         NEW q \in (w.inserted - Len(w.ring)) .. w.inserted,
         SlotAt(p) = SlotAt(q), p < q
  PROVE  Len(w.ring) = Window /\ p = w.inserted - Window /\ q = w.inserted
<1>1. w.inserted \in Nat /\ Len(w.ring) \in Nat /\ Window \in Nat \ {0}
  BY WindowFields, DedupAssumption DEF Sound
<1>2. Len(w.ring) <= Window BY DEF Sound
<1>3. p \in Int /\ q \in Int BY <1>1
<1>4. p % Window = q % Window
  <2>1. p % Window \in Int /\ q % Window \in Int BY <1>1, <1>3, ModRange
  <2> QED BY <2>1 DEF SlotAt
<1>5. p + Window <= q BY <1>1, <1>3, <1>4, ModApart
<1> QED BY <1>1, <1>2, <1>3, <1>5

(* Releasing an identity keeps a window sound and takes the life of its       *)
(* entries.                                                                   *)
LEMMA ForgottenFacts ==
  ASSUME NEW w, Sound(w), NEW id
  PROVE  /\ Sound(Forgotten(w, id))
         /\ InOrder(Forgotten(w, id)) = Promise!Released(InOrder(w), id)
<1> DEFINE u == Forgotten(w, id)
           kept == Without(w.seen, id)
<1>1. IsWindow(w) BY DEF Sound
<1>2. u = [seen |-> kept, ring |-> w.ring, inserted |-> w.inserted, used |-> w.used]
  BY <1>1, WindowFields DEF Forgotten
<1>3. DOMAIN kept = DOMAIN w.seen \ {id} /\ \A y \in DOMAIN kept : kept[y] = w.seen[y]
  BY DEF Without
<1>4. kept \in [DOMAIN w.seen \ {id} -> Nat] BY <1>1, WindowFields DEF Without
<1> HIDE DEF kept
<1>5. u.seen = kept /\ u.ring = w.ring /\ u.inserted = w.inserted BY <1>2
<1>6. IsWindow(u)
  <2>1. /\ DOMAIN w.seen \ {id} \in SUBSET Ids
        /\ w.ring \in Seq(Ids) /\ w.inserted \in Nat /\ w.used \in Nat
    BY <1>1, WindowFields
  <2> QED BY <1>2, <1>4, <2>1, WindowIntro
<1> HIDE DEF u
<1>7. Sound(u) BY <1>3, <1>5, <1>6 DEF Sound, AtItsSlot
<1>8. InOrder(u) = [i \in 1..Len(InOrder(w)) |->
                  [id |-> InOrder(w)[i].id,
                   live |-> InOrder(w)[i].live /\ InOrder(w)[i].id # id]]
  <2> DEFINE n == Len(w.ring)
             pos(i) == w.inserted - n + i - 1
             held(i) == w.ring[SlotAt(pos(i))]
             before(i) == held(i) \in DOMAIN w.seen /\ w.seen[held(i)] = pos(i)
             after(i) == held(i) \in DOMAIN kept /\ kept[held(i)] = pos(i)
  <2>1. InOrder(w) = [i \in 1..n |-> [id |-> held(i), live |-> before(i)]]
    BY DEF InOrder, SlotAt
  <2>2. InOrder(u) = [i \in 1..n |-> [id |-> held(i), live |-> after(i)]]
    BY <1>5 DEF InOrder, SlotAt
  <2>3. Len(InOrder(w)) = n
    <3>1. n \in Nat BY <1>1, WindowFields
    <3> QED BY <2>1, <3>1
  <2>4. \A i \in 1..n : after(i) = (before(i) /\ held(i) # id) BY <1>3
  <2> HIDE DEF n, held, before, after, pos
  <2>5. \A i \in 1..n :
          [id |-> InOrder(w)[i].id, live |-> InOrder(w)[i].live /\ InOrder(w)[i].id # id]
            = [id |-> held(i), live |-> after(i)]
    <3> SUFFICES ASSUME NEW i \in 1..n
                 PROVE  [id |-> InOrder(w)[i].id,
                         live |-> InOrder(w)[i].live /\ InOrder(w)[i].id # id]
                          = [id |-> held(i), live |-> after(i)]
      OBVIOUS
    <3>1. InOrder(w)[i] = [id |-> held(i), live |-> before(i)] BY <2>1
    <3>2. InOrder(w)[i].live = before(i) /\ InOrder(w)[i].id = held(i) BY <3>1
    <3>3. (InOrder(w)[i].live /\ InOrder(w)[i].id # id) = after(i) BY Zenon, <3>2, <2>4
    <3> QED BY Zenon, <3>2, <3>3
  <2> QED BY <2>2, <2>3, <2>5
<1>9. InOrder(u) = Promise!Released(InOrder(w), id) BY <1>8 DEF Promise!Released
<1> QED BY <1>7, <1>9 DEF u

(* What inserting an identity does to the ring: the new position holds it,    *)
(* and every position still inside the window holds what it held.             *)
LEMMA InsertedRing ==
  ASSUME NEW w, Sound(w), NEW id \in Ids
  PROVE  LET u == Inserted(w, id)
             n == Len(w.ring)
         IN  /\ u.ring \in Seq(Ids)
             /\ Len(u.ring) = IF n = Window THEN n ELSE n + 1
             /\ u.ring[SlotAt(w.inserted)] = id
             /\ \A p \in (w.inserted - n) .. (w.inserted - 1) :
                  p # w.inserted - Window => u.ring[SlotAt(p)] = w.ring[SlotAt(p)]
<1> DEFINE ring == Inserted(w, id).ring
           n == Len(w.ring)
<1>1. /\ w.ring \in Seq(Ids) /\ w.inserted \in Nat /\ n \in Nat /\ Window \in Nat \ {0}
      /\ n <= Window /\ n <= w.inserted
  BY WindowFields, DedupAssumption DEF Sound
<1>2. ring = IF n = Window THEN [w.ring EXCEPT ![Slot(w)] = id] ELSE Append(w.ring, id)
  BY WindowFields DEF Inserted, Sound
<1>3. Slot(w) = SlotAt(w.inserted) BY DEF Slot, SlotAt
<1>4. CASE n = Window
  <2>1. SlotAt(w.inserted) \in 1..n
    <3>1. w.inserted \in Int BY <1>1
    <3>2. w.inserted % Window \in 0..(Window - 1) BY <1>1, <3>1, ModRange
    <3> QED BY <1>1, <1>4, <3>2 DEF SlotAt
  <2>2. ring = [w.ring EXCEPT ![SlotAt(w.inserted)] = id] BY <1>2, <1>3, <1>4
  <2>3. ring \in Seq(Ids) /\ Len(ring) = n /\ ring[SlotAt(w.inserted)] = id
    BY <1>1, <2>1, <2>2
  <2>4. ASSUME NEW p \in (w.inserted - n) .. (w.inserted - 1), p # w.inserted - Window
        PROVE  ring[SlotAt(p)] = w.ring[SlotAt(p)]
    <3>1. SlotAt(p) \in 1..n BY SlotFacts
    <3>2. p \in (w.inserted - n) .. w.inserted /\ p < w.inserted BY <1>1
    <3>3. w.inserted \in (w.inserted - n) .. w.inserted BY <1>1
    <3>4. SlotAt(p) # SlotAt(w.inserted) BY <2>4, <3>2, <3>3, SlotsApart
    <3> QED BY <1>1, <2>2, <3>1, <3>4
  <2> QED BY <1>4, <2>3, <2>4
<1>5. CASE n # Window
  <2>1. w.inserted = n /\ n \in 0..(Window - 1) BY <1>1, <1>5 DEF Sound
  <2>2. SlotAt(w.inserted) = n + 1 BY <1>1, <2>1, ModSmall DEF SlotAt
  <2>3. ring = Append(w.ring, id) BY <1>2, <1>5
  <2>4. ring \in Seq(Ids) /\ Len(ring) = n + 1 /\ ring[n + 1] = id BY <1>1, <2>3
  <2>5. ASSUME NEW p \in (w.inserted - n) .. (w.inserted - 1)
        PROVE  ring[SlotAt(p)] = w.ring[SlotAt(p)]
    <3>1. SlotAt(p) \in 1..n BY SlotFacts
    <3> QED BY <1>1, <2>3, <3>1
  <2> QED BY <1>5, <2>2, <2>4, <2>5
<1> QED BY <1>4, <1>5

(* What it does to the map: the new identity is remembered at the new         *)
(* position, and exactly the one remembered at the position that leaves the   *)
(* window is forgotten.                                                       *)
LEMMA InsertedSeen ==
  ASSUME NEW w, Sound(w), NEW id \in Ids, ~Remembers(w, id)
  PROVE  LET u == Inserted(w, id)
         IN  /\ DOMAIN u.seen \subseteq Ids /\ u.seen \in [DOMAIN u.seen -> Nat]
             /\ id \in DOMAIN u.seen /\ u.seen[id] = w.inserted
             /\ \A y : y # id =>
                  /\ y \in DOMAIN u.seen <=>
                       /\ y \in DOMAIN w.seen
                       /\ ~(Len(w.ring) = Window /\ w.seen[y] = w.inserted - Window)
                  /\ y \in DOMAIN u.seen => u.seen[y] = w.seen[y]
<1> DEFINE e == w.ring[Slot(w)]
           full == Len(w.ring) = Window
           kept == IF full /\ StillOwned(w, e) THEN Without(w.seen, e) ELSE w.seen
           seen == Inserted(w, id).seen
<1>1. /\ w.inserted \in Nat /\ Window \in Nat \ {0}
      /\ DOMAIN w.seen \subseteq Ids /\ w.seen \in [DOMAIN w.seen -> Nat]
  BY WindowFields, DedupAssumption DEF Sound
<1>2. seen = With(kept, id, w.inserted) BY WindowFields DEF Inserted, Sound
<1>3. \A y \in DOMAIN w.seen : full /\ w.seen[y] = w.inserted - Window => y = e
  <2> SUFFICES ASSUME NEW y \in DOMAIN w.seen, full, w.seen[y] = w.inserted - Window
               PROVE  y = e
    OBVIOUS
  <2>1. w.ring[(w.seen[y] % Window) + 1] = y BY DEF Sound, AtItsSlot
  <2>2. (w.inserted - Window) % Window = w.inserted % Window
    <3>1. w.inserted \in Int BY <1>1
    <3> QED BY <1>1, <3>1, ModShift
  <2> QED BY <2>1, <2>2 DEF Slot
<1>4. \A y : y \in DOMAIN kept <=>
               y \in DOMAIN w.seen /\ ~(full /\ w.seen[y] = w.inserted - Window)
  BY <1>3 DEF Without, StillOwned
<1>5. \A y \in DOMAIN kept : kept[y] = w.seen[y] BY DEF Without
<1> HIDE DEF e, full, kept, seen
<1>6. DOMAIN seen = DOMAIN kept \cup {id} BY <1>2 DEF With
<1>7. \A y \in DOMAIN seen : seen[y] = IF y = id THEN w.inserted ELSE kept[y]
  BY <1>2, <1>6 DEF With
<1>8. seen = [y \in DOMAIN seen |-> seen[y]] BY <1>2, <1>6 DEF With
<1>9. seen \in [DOMAIN seen -> Nat]
  <2>1. \A y \in DOMAIN seen : seen[y] \in Nat BY <1>1, <1>4, <1>5, <1>6, <1>7
  <2> QED BY <1>8, <2>1
<1>10. DOMAIN seen \subseteq Ids BY <1>1, <1>4, <1>6
<1>11. \A y : y # id =>
         /\ y \in DOMAIN seen <=> y \in DOMAIN w.seen /\ ~(full /\ w.seen[y] = w.inserted - Window)
         /\ y \in DOMAIN seen => seen[y] = w.seen[y]
  BY <1>4, <1>5, <1>6, <1>7
<1> QED BY <1>6, <1>7, <1>9, <1>10, <1>11 DEF seen, full

(* Inserting keeps a window sound ... *)
LEMMA InsertedSound ==
  ASSUME NEW w, Sound(w), NEW id \in Ids, ~Remembers(w, id)
  PROVE  Sound(Inserted(w, id))
<1> DEFINE u == Inserted(w, id)
           n == Len(w.ring)
           m == Len(u.ring)
<1>1. /\ w.inserted \in Nat /\ n \in Nat /\ w.used \in Nat /\ Window \in Nat \ {0}
      /\ n <= Window /\ n <= w.inserted /\ (n = Window \/ w.inserted = n)
  BY WindowFields, DedupAssumption DEF Sound
<1>2. u = [seen |-> u.seen, ring |-> u.ring, inserted |-> w.inserted + 1, used |-> w.used]
  <2>1. PICK ring, seen : u = [w EXCEPT !.ring = ring, !.seen = seen, !.inserted = @ + 1]
    BY DEF Inserted
  <2> HIDE DEF u
  <2>2. w = [seen |-> w.seen, ring |-> w.ring, inserted |-> w.inserted, used |-> w.used]
    BY WindowFields DEF Sound
  <2>3. u = [seen |-> seen, ring |-> ring, inserted |-> w.inserted + 1, used |-> w.used]
    BY <2>1, <2>2
  <2> QED BY <2>3
<1>3. /\ u.ring \in Seq(Ids) /\ m = IF n = Window THEN n ELSE n + 1
      /\ u.ring[SlotAt(w.inserted)] = id
      /\ \A p \in (w.inserted - n) .. (w.inserted - 1) :
           p # w.inserted - Window => u.ring[SlotAt(p)] = w.ring[SlotAt(p)]
  BY InsertedRing
<1>4. /\ DOMAIN u.seen \subseteq Ids /\ u.seen \in [DOMAIN u.seen -> Nat]
      /\ id \in DOMAIN u.seen /\ u.seen[id] = w.inserted
      /\ \A y : y # id =>
           /\ y \in DOMAIN u.seen <=>
                y \in DOMAIN w.seen /\ ~(n = Window /\ w.seen[y] = w.inserted - Window)
           /\ y \in DOMAIN u.seen => u.seen[y] = w.seen[y]
  BY InsertedSeen
<1> HIDE DEF u, n, m
<1>5. u.inserted = w.inserted + 1 BY <1>2
<1>6. IsWindow(u)
  <2>1. IsWindow([seen |-> u.seen, ring |-> u.ring, inserted |-> w.inserted + 1, used |-> w.used])
    <3>1. w.inserted + 1 \in Nat /\ DOMAIN u.seen \in SUBSET Ids BY <1>1, <1>4
    <3> QED BY <1>1, <1>3, <1>4, <3>1, WindowIntro
  <2> QED BY Zenon, <1>2, <2>1
<1>7. m <= Window /\ m <= u.inserted /\ (m = Window \/ u.inserted = m)
  BY <1>1, <1>3, <1>5
<1>8. ASSUME NEW y \in DOMAIN u.seen PROVE AtItsSlot(u, y)
  <2>1. CASE y = id
    <3>1. u.seen[y] \in (u.inserted - m) .. (u.inserted - 1)
      BY <1>1, <1>3, <1>4, <1>5, <2>1
    <3> QED BY <1>3, <1>4, <2>1, <3>1 DEF AtItsSlot, SlotAt, m
  <2>2. CASE y # id
    <3>1. /\ y \in DOMAIN w.seen /\ u.seen[y] = w.seen[y]
          /\ ~(n = Window /\ w.seen[y] = w.inserted - Window)
      BY <1>4, <2>2
    <3>2. w.seen[y] \in (w.inserted - n) .. (w.inserted - 1) /\ w.ring[SlotAt(w.seen[y])] = y
      BY <3>1 DEF Sound, AtItsSlot, SlotAt, n
    <3>3. w.seen[y] # w.inserted - Window BY <1>1, <3>1, <3>2
    <3>4. u.ring[SlotAt(u.seen[y])] = y BY <1>3, <3>1, <3>2, <3>3
    <3>5. u.seen[y] \in (u.inserted - m) .. (u.inserted - 1)
      <4> DEFINE at == w.seen[y]
      <4>1. at \in (w.inserted - n) .. (w.inserted - 1) /\ at # w.inserted - Window
        BY <3>2, <3>3
      <4> HIDE DEF at
      <4>2. at \in (w.inserted + 1 - m) .. w.inserted BY <1>1, <1>3, <4>1
      <4>3. u.inserted - m = w.inserted + 1 - m /\ u.inserted - 1 = w.inserted
        BY <1>1, <1>3, <1>5
      <4> QED BY <3>1, <4>2, <4>3 DEF at
    <3> QED BY <3>4, <3>5 DEF AtItsSlot, SlotAt, m
  <2> QED BY <2>1, <2>2
<1>9. Sound(u) BY <1>6, <1>7, <1>8 DEF Sound, m
<1> QED BY <1>9 DEF u

(* ... and appends the identity to the window's reading, the oldest entry     *)
(* leaving a full one.                                                        *)
LEMMA InsertedInOrder ==
  ASSUME NEW w, Sound(w), NEW id \in Ids, ~Remembers(w, id)
  PROVE  InOrder(Inserted(w, id)) =
           Append(IF Len(InOrder(w)) < Window THEN InOrder(w) ELSE Tail(InOrder(w)),
                  [id |-> id, live |-> TRUE])
<1> DEFINE u == Inserted(w, id)
           n == Len(w.ring)
           m == Len(u.ring)
           held(p) == w.ring[SlotAt(p)]
           live(p) == held(p) \in DOMAIN w.seen /\ w.seen[held(p)] = p
           heldThen(p) == u.ring[SlotAt(p)]
           liveThen(p) == heldThen(p) \in DOMAIN u.seen /\ u.seen[heldThen(p)] = p
           rest == IF Len(InOrder(w)) < Window THEN InOrder(w) ELSE Tail(InOrder(w))
<1>1. /\ w.inserted \in Nat /\ n \in Nat /\ Window \in Nat \ {0}
      /\ n <= Window /\ n <= w.inserted /\ (n = Window \/ w.inserted = n)
  BY WindowFields, DedupAssumption DEF Sound
<1>2. /\ m = IF n = Window THEN n ELSE n + 1
      /\ heldThen(w.inserted) = id
      /\ \A p \in (w.inserted - n) .. (w.inserted - 1) :
           p # w.inserted - Window => heldThen(p) = held(p)
  BY InsertedRing
<1>3. /\ id \in DOMAIN u.seen /\ u.seen[id] = w.inserted
      /\ \A y : y # id =>
           /\ y \in DOMAIN u.seen <=>
                y \in DOMAIN w.seen /\ ~(n = Window /\ w.seen[y] = w.inserted - Window)
           /\ y \in DOMAIN u.seen => u.seen[y] = w.seen[y]
  BY InsertedSeen
<1>4. u.inserted = w.inserted + 1 BY WindowFields DEF Inserted, Sound
<1>5. InOrder(w) = [i \in 1..n |->
        [id |-> held(w.inserted - n + i - 1), live |-> live(w.inserted - n + i - 1)]]
  BY DEF InOrder, SlotAt
<1>6. InOrder(u) = [i \in 1..m |->
        [id |-> heldThen(u.inserted - m + i - 1), live |-> liveThen(u.inserted - m + i - 1)]]
  BY DEF InOrder, SlotAt
<1>7. id \notin DOMAIN w.seen BY DEF Remembers
<1> HIDE DEF u, n, m, held, heldThen
<1>8. \A p \in (w.inserted - n) .. (w.inserted - 1) :
        p # w.inserted - Window => (liveThen(p) = live(p))
  BY <1>1, <1>2, <1>3, <1>7
<1>9. liveThen(w.inserted) = TRUE BY <1>2, <1>3
<1> HIDE DEF live, liveThen
<1>10. \A i \in 1..m : u.inserted - m + i - 1 = w.inserted - m + i
  BY <1>1, <1>2, <1>4
<1>11. InOrder(w) \in Seq([id : {held(p) : p \in Int}, live : {live(p) : p \in Int}]) /\ Len(InOrder(w)) = n
  BY <1>1, <1>5
<1>12. /\ Len(rest) = m - 1 /\ m \in Nat \ {0}
       /\ \A i \in 1..(m - 1) :
            rest[i] = [id |-> held(w.inserted - m + i), live |-> live(w.inserted - m + i)]
  <2>1. CASE n < Window
    <3>1. rest = InOrder(w) /\ m = n + 1 BY <1>1, <1>2, <1>11, <2>1
    <3>2. \A i \in 1..n : w.inserted - n + i - 1 = w.inserted - m + i BY <1>1, <3>1
    <3> QED BY <1>1, <1>5, <1>11, <3>1, <3>2
  <2>2. CASE n = Window
    <3>1. rest = Tail(InOrder(w)) /\ m = n BY <1>1, <1>2, <1>11, <2>2
    <3>2. Len(rest) = n - 1 /\ \A i \in 1..(n - 1) : rest[i] = InOrder(w)[i + 1]
      BY <1>1, <1>11, <2>2, <3>1
    <3>3. \A i \in 1..(n - 1) : i + 1 \in 1..n /\ w.inserted - n + (i + 1) - 1 = w.inserted - m + i
      BY <1>1, <3>1
    <3> QED BY <1>1, <1>5, <2>2, <3>1, <3>2, <3>3
  <2> QED BY <1>1, <2>1, <2>2
<1> DEFINE Base == [id : {held(p) : p \in Int}, live : {live(p) : p \in Int}]
           entry == [id |-> id, live |-> TRUE]
           appended == Append(rest, entry)
<1>13. rest \in Seq(Base)
  BY <1>1, <1>11
<1> HIDE DEF rest, Base, entry
<1> DEFINE Entries == Base \cup {entry}
<1>14. rest \in Seq(Entries) /\ entry \in Entries
  <2>1. rest \in [1..Len(rest) -> Entries] /\ Len(rest) \in Nat BY <1>13
  <2> QED BY <2>1
<1> HIDE DEF Entries
<1>15. /\ appended = [i \in 1..m |-> appended[i]]
       /\ appended[m] = entry
       /\ \A i \in 1..(m - 1) : appended[i] = rest[i]
  <2>1. appended \in Seq(Entries) /\ Len(appended) = m BY <1>12, <1>14
  <2>2. \A i \in 1..m : appended[i] = IF i = m THEN entry ELSE rest[i] BY <1>12, <1>14
  <2> HIDE DEF appended
  <2>3. appended = [i \in 1..m |-> appended[i]] BY <2>1
  <2> QED BY <1>12, <2>2, <2>3
<1>16. \A i \in 1..m : InOrder(u)[i] =
         [id |-> heldThen(w.inserted - m + i), live |-> liveThen(w.inserted - m + i)]
  BY <1>6, <1>10
<1>17. InOrder(u) = [i \in 1..m |-> InOrder(u)[i]] BY <1>6
<1> HIDE DEF appended
<1>18. \A i \in 1..m : InOrder(u)[i] = appended[i]
  <2> SUFFICES ASSUME NEW i \in 1..m PROVE InOrder(u)[i] = appended[i]
    OBVIOUS
  <2>1. CASE i = m
    <3>1. w.inserted - m + i = w.inserted BY <1>1, <1>12, <2>1
    <3>2. InOrder(u)[i] = [id |-> heldThen(w.inserted), live |-> liveThen(w.inserted)]
      BY <1>16, <3>1
    <3> QED BY <1>2, <1>9, <1>15, <2>1, <3>2 DEF entry
  <2>2. CASE i # m
    <3> DEFINE p == w.inserted - m + i
    <3>1. i \in 1..(m - 1) BY <1>12, <2>2
    <3>2. p \in (w.inserted - n) .. (w.inserted - 1) /\ p # w.inserted - Window
      BY <1>1, <1>2, <3>1
    <3>3. heldThen(p) = held(p) /\ liveThen(p) = live(p) BY <1>2, <1>8, <3>2
    <3>4. appended[i] = [id |-> held(p), live |-> live(p)] BY <1>12, <1>15, <3>1
    <3> QED BY <1>16, <3>3, <3>4
  <2> QED BY <2>1, <2>2
<1>19. InOrder(u) = appended BY <1>15, <1>17, <1>18
<1> QED BY <1>19 DEF u, appended, rest, entry

(* Whoever is alive in the reading is remembered. *)
LEMMA LiveIsRemembered ==
  ASSUME NEW w, NEW i \in 1..Len(InOrder(w)), Len(w.ring) \in Nat, InOrder(w)[i].live
  PROVE  Remembers(w, InOrder(w)[i].id)
<1> DEFINE n == Len(w.ring)
           pos == w.inserted - n + i - 1
           held == w.ring[(pos % Window) + 1]
           alive == held \in DOMAIN w.seen /\ w.seen[held] = pos
           at(j) == w.inserted - n + j - 1
           of(j) == w.ring[(at(j) % Window) + 1]
           entry(j) == [id |-> of(j), live |-> of(j) \in DOMAIN w.seen /\ w.seen[of(j)] = at(j)]
<1>1. i \in 1..n
  <2>1. InOrder(w) = [j \in 1..n |-> entry(j)]
    BY DEF InOrder
  <2> HIDE DEF entry, n
  <2>2. Len(InOrder(w)) = n
    BY <2>1 DEF n
  <2> QED BY <2>2
<1>2. InOrder(w)[i] = [id |-> held, live |-> alive] BY <1>1 DEF InOrder
<1> HIDE DEF alive
<1>3. InOrder(w)[i].id = held /\ InOrder(w)[i].live = alive BY <1>2
<1>4. alive BY Zenon, <1>3
<1>5. held \in DOMAIN w.seen BY <1>4 DEF alive
<1> QED BY <1>3, <1>5 DEF Remembers

-----------------------------------------------------------------------------
(* The table of windows.  Every window is sound; windows and names stay below *)
(* the ceiling; while evictLRU walks, the caller waits for a window of its    *)
(* own, and if the registry has not moved, the victim so far is dead whenever *)
(* any window looked at is; forgetSource holds no window that is in use.      *)
WindowsSound == \A s \in DOMAIN bySource : Sound(bySource[s])

Counted ==
  /\ IsFiniteSet(DOMAIN bySource) /\ Cardinality(DOMAIN bySource) <= MaxSources
  /\ IsFiniteSet(registered) /\ Cardinality(registered) <= MaxSources

WalkSound ==
  /\ mutex # "evict" => left = {} /\ victim = NoSource
  /\ mutex = "evict" =>
       /\ caller \in Requests /\ request[caller].stage = "evict"
       /\ request[caller].source \notin DOMAIN bySource
       /\ Cardinality(DOMAIN bySource) = MaxSources
       /\ victim = NoSource => left = DOMAIN bySource

WalkFair ==
  mutex = "evict" /\ ~disturbed =>
    /\ victim # NoSource => (victimDead <=> victim \notin registered)
    /\ \A s \in DOMAIN bySource \ left : s \notin registered => victimDead

ForgetSound == mutex = "forget" => forgetting \in Sources /\ forgetting \notin fresh \cap registered

IInv == TypeOK /\ WindowsSound /\ Counted /\ WalkSound /\ WalkFair /\ ForgetSound

RequestTypes ==
  {Idle} \cup [stage : {"touch", "batch"}, source : Sources]
    \cup [stage : {"evict"}, source : Sources, id : Ids]
    \cup [stage : {"deliver"}, source : Sources, id : Ids, at : Nat]

(* What a handler holds at each stage. *)
LEMMA RequestFacts ==
  ASSUME TypeOK, NEW r \in Requests
  PROVE  /\ request[r] \in RequestTypes
         /\ request[r].stage \in {"touch", "batch", "evict", "deliver"} => request[r].source \in Sources
         /\ request[r].stage \in {"evict", "deliver"} => request[r].id \in Ids
         /\ request[r].stage = "touch" =>
              [request[r] EXCEPT !.stage = "batch"] \in [stage : {"touch", "batch"}, source : Sources]
<1>1. request[r] \in RequestTypes BY DEF TypeOK, RequestTypes
<1>2. CASE request[r] = Idle BY <1>1, <1>2 DEF Idle
<1>3. CASE request[r] \in [stage : {"touch", "batch"}, source : Sources] BY <1>1, <1>3
<1>4. CASE request[r] \in [stage : {"evict"}, source : Sources, id : Ids] BY <1>1, <1>4
<1>5. CASE request[r] \in [stage : {"deliver"}, source : Sources, id : Ids, at : Nat]
  BY <1>1, <1>5
<1> QED BY <1>1, <1>2, <1>3, <1>4, <1>5 DEF RequestTypes

(* One handler moves on: the others and the type stay. *)
LEMMA RequestUpdate ==
  ASSUME TypeOK, NEW r \in Requests, NEW now \in RequestTypes,
         request' = [request EXCEPT ![r] = now]
  PROVE  /\ request' \in [Requests -> RequestTypes] /\ request'[r] = now
         /\ \A q \in Requests : q # r => request'[q] = request[q]
BY DEF TypeOK, RequestTypes

(* A reading with one more identity at its young end. *)
Grown(reading, id) ==
  Append(IF Len(reading) < Window THEN reading ELSE Tail(reading), [id |-> id, live |-> TRUE])

(* What an admission may do to a reading: nothing, or the identity joins it,  *)
(* which was not remembered.                                                  *)
Reads(w, id, after) ==
  after = InOrder(w) \/ (~Remembers(w, id) /\ after = Grown(InOrder(w), id))

(* An admission into window w of a table: the source's window is w as it was  *)
(* and the handler goes on with its batch, or w with the identity inserted    *)
(* and the handler delivers.                                                  *)
LEMMA AdmitIntoFacts ==
  ASSUME TypeOK, NEW r \in Requests, request[r].source \in Sources, NEW windows,
         DOMAIN windows \subseteq Sources, \A s \in DOMAIN windows : Sound(windows[s]),
         NEW w, Sound(w), NEW id \in Ids, NEW now \in Nat, AdmitInto(r, windows, w, id, now)
  PROVE  LET s == request[r].source
         IN  /\ DOMAIN bySource' = DOMAIN windows \cup {s}
             /\ \A t \in DOMAIN windows : t # s => bySource'[t] = windows[t]
             /\ \A t \in DOMAIN bySource' : Sound(bySource'[t])
             /\ request' \in [Requests -> RequestTypes]
             /\ \A q \in Requests : q # r => request'[q] = request[q]
             /\ fresh' \subseteq fresh \cup {s}
             /\ Reads(w, id, InOrder(bySource'[s]))
<1> DEFINE s == request[r].source
           used == [w EXCEPT !.used = now]
<1>1. Sound(used) /\ InOrder(used) = InOrder(w) /\ (Remembers(used, id) <=> Remembers(w, id))
  BY UsedFacts
<1> HIDE DEF used
<1>2. CASE Remembers(w, id)
  <2>1. /\ bySource' = With(windows, s, used)
        /\ request' = [request EXCEPT ![r] = [stage |-> "batch", source |-> s]]
        /\ fresh' = fresh
    BY <1>2 DEF AdmitInto, used
  <2>2. [stage |-> "batch", source |-> s] \in RequestTypes BY DEF RequestTypes
  <2>3. /\ request' \in [Requests -> RequestTypes]
        /\ \A q \in Requests : q # r => request'[q] = request[q]
    BY <2>1, <2>2, RequestUpdate
  <2>4. /\ DOMAIN bySource' = DOMAIN windows \cup {s} /\ bySource'[s] = used
        /\ \A t \in DOMAIN windows : t # s => bySource'[t] = windows[t]
    <3> HIDE DEF s
    <3> QED BY <2>1 DEF With
  <2>5. Reads(w, id, InOrder(bySource'[s])) BY <1>1, <2>4 DEF Reads
  <2> QED BY <1>1, <2>1, <2>3, <2>4, <2>5
<1>3. CASE ~Remembers(w, id)
  <2> DEFINE new == Inserted(used, id)
  <2>1. /\ bySource' = With(windows, s, new)
        /\ request' = [request EXCEPT ![r] =
             [stage |-> "deliver", source |-> s, id |-> id, at |-> w.inserted]]
        /\ fresh' \subseteq fresh \cup {s}
    BY <1>3 DEF AdmitInto, used
  <2>2. [stage |-> "deliver", source |-> s, id |-> id, at |-> w.inserted] \in RequestTypes
    <3>1. w.inserted \in Nat BY WindowFields DEF Sound
    <3> QED BY <3>1 DEF RequestTypes
  <2>3. /\ request' \in [Requests -> RequestTypes]
        /\ \A q \in Requests : q # r => request'[q] = request[q]
    BY <2>1, <2>2, RequestUpdate
  <2>4. Sound(new) BY <1>1, <1>3, InsertedSound
  <2>5. InOrder(new) = Grown(InOrder(w), id) BY <1>1, <1>3, InsertedInOrder DEF Grown
  <2> HIDE DEF new
  <2>6. /\ DOMAIN bySource' = DOMAIN windows \cup {s} /\ bySource'[s] = new
        /\ \A t \in DOMAIN windows : t # s => bySource'[t] = windows[t]
    <3> HIDE DEF s
    <3> QED BY <2>1 DEF With
  <2>7. Reads(w, id, InOrder(bySource'[s])) BY <1>3, <2>5, <2>6 DEF Reads
  <2> QED BY <2>1, <2>3, <2>4, <2>6, <2>7
<1> QED BY <1>2, <1>3

-----------------------------------------------------------------------------
(* The initial state. *)
LEMMA InitIInv == Init => IInv
<1> SUFFICES ASSUME Init PROVE IInv OBVIOUS
<1>1. /\ DOMAIN bySource = {} /\ registered = {} /\ mutex = "free" /\ left = {}
      /\ victim = NoSource
  BY DEF Init
<1>2. TypeOK
  <2>1. request \in [Requests -> RequestTypes] BY DEF Init, RequestTypes
  <2>2. clock \in Nat BY DEF Init
  <2> QED BY <1>1, <2>1, <2>2 DEF Init, TypeOK, RequestTypes
<1>3. Counted
  <2>1. IsFiniteSet({}) /\ Cardinality({}) = 0 BY FS_EmptySet
  <2>2. 0 <= MaxSources BY DedupAssumption
  <2> QED BY <1>1, <2>1, <2>2 DEF Counted
<1> QED BY <1>1, <1>2, <1>3 DEF IInv, WindowsSound, WalkSound, WalkFair, ForgetSound

(* A handler moves on and nothing else changes. *)
LEMMA RequestMoves ==
  ASSUME IInv, UNCHANGED <<dedup, mutex, walk, forgetting, registry, fresh>>,
         NEW r \in Requests, NEW now \in RequestTypes, request[r].stage # "evict",
         request' = [request EXCEPT ![r] = now]
  PROVE  IInv'
<1>1. /\ request' \in [Requests -> RequestTypes]
      /\ \A q \in Requests : q # r => request'[q] = request[q]
  BY RequestUpdate DEF IInv
<1>2. TypeOK' BY <1>1 DEF IInv, TypeOK, RequestTypes, dedup, walk, registry
<1>3. WalkSound'
  <2>1. mutex = "evict" => caller \in Requests /\ caller # r BY DEF IInv, WalkSound
  <2>2. mutex = "evict" => request'[caller] = request[caller] BY <1>1, <2>1
  <2> QED BY <2>2 DEF IInv, WalkSound, dedup, walk
<1>4. (WindowsSound /\ Counted /\ WalkFair /\ ForgetSound)'
  BY DEF IInv, WindowsSound, Counted, WalkFair, ForgetSound, dedup, walk, registry
<1> QED BY <1>2, <1>3, <1>4 DEF IInv

(* A name is entered: the registry stays below its ceiling, and the walk      *)
(* learns of the change.                                                      *)
LEMMA EnteredFacts ==
  ASSUME IInv, NEW s \in Sources, Entered(s)
  PROVE  /\ registered' \subseteq Sources /\ fresh' \subseteq Sources
         /\ disturbed' \in BOOLEAN
         /\ IsFiniteSet(registered') /\ Cardinality(registered') <= MaxSources
         /\ mutex = "evict" /\ ~disturbed' => ~disturbed /\ registered' = registered
         /\ fresh' \cap registered' \subseteq fresh \cap registered
<1>1. /\ registered \subseteq Sources /\ fresh \subseteq Sources /\ disturbed \in BOOLEAN
      /\ IsFiniteSet(registered) /\ Cardinality(registered) <= MaxSources
  BY DEF IInv, TypeOK, Counted
<1>2. registered' = registered \/ (registered' = registered \cup {s} /\ Cardinality(registered) < MaxSources)
  BY DEF Entered
<1>3. IsFiniteSet(registered') /\ Cardinality(registered') <= MaxSources
  <2>1. Cardinality(registered) \in Nat /\ MaxSources \in Nat
    BY <1>1, FS_CardinalityType, DedupAssumption
  <2>2. CASE s \notin registered /\ registered' = registered \cup {s}
                /\ Cardinality(registered) < MaxSources
    <3>1. IsFiniteSet(registered') /\ Cardinality(registered') = Cardinality(registered) + 1
      BY <1>1, <2>2, FS_AddElement
    <3> QED BY <2>1, <2>2, <3>1
  <2>3. CASE registered' = registered BY <1>1, <2>3
  <2>4. s \in registered => registered \cup {s} = registered OBVIOUS
  <2> QED BY <1>2, <2>2, <2>3, <2>4
<1>4. fresh' = (IF s \in registered THEN fresh ELSE fresh \ {s}) BY DEF Entered
<1>5. disturbed' = (disturbed \/ (mutex = "evict" /\ registered' # registered)) BY DEF Entered
<1>6. fresh' \cap registered' \subseteq fresh \cap registered BY <1>2, <1>4
<1> QED BY <1>1, <1>2, <1>3, <1>4, <1>5, <1>6

(* A name is entered while nothing but handlers moves. *)
LEMMA EnteredIInv ==
  ASSUME IInv, NEW s \in Sources, Entered(s),
         UNCHANGED <<dedup, mutex, caller, left, victim, victimDead, forgetting, swept>>,
         request' \in [Requests -> RequestTypes],
         \A q \in Requests : request[q].stage = "evict" => request'[q] = request[q]
  PROVE  IInv'
<1>1. /\ registered' \subseteq Sources /\ fresh' \subseteq Sources
      /\ disturbed' \in BOOLEAN
      /\ IsFiniteSet(registered') /\ Cardinality(registered') <= MaxSources
      /\ mutex = "evict" /\ ~disturbed' => ~disturbed /\ registered' = registered
      /\ fresh' \cap registered' \subseteq fresh \cap registered
  BY EnteredFacts
<1>2. TypeOK' BY <1>1 DEF IInv, TypeOK, RequestTypes, dedup
<1>3. WindowsSound' BY DEF IInv, WindowsSound, dedup
<1>4. Counted' BY <1>1 DEF IInv, Counted, dedup
<1>5. WalkSound'
  <2>1. mutex = "evict" => caller \in Requests /\ request'[caller] = request[caller]
    BY DEF IInv, WalkSound
  <2> QED BY <2>1 DEF IInv, WalkSound, dedup
<1>6. WalkFair' BY <1>1 DEF IInv, WalkFair, dedup
<1>7. ForgetSound' BY <1>1 DEF IInv, ForgetSound
<1> QED BY <1>2, <1>3, <1>4, <1>5, <1>6, <1>7 DEF IInv

(* Registrations, sweeps and the handlers' own steps. *)
LEMMA RegisterIInv == ASSUME IInv, NEW s \in Sources, Register(s) PROVE IInv'
<1>1. /\ Entered(s) /\ request' = request
      /\ UNCHANGED <<dedup, mutex, caller, left, victim, victimDead, forgetting, swept>>
  BY DEF Register
<1>2. request' \in [Requests -> RequestTypes] BY <1>1 DEF IInv, TypeOK, RequestTypes
<1> QED BY <1>1, <1>2, EnteredIInv

(* A handler that touches its source enters its name again if it was swept.   *)
LEMMA TouchSourceIInv == ASSUME IInv, NEW r \in Requests, TouchSource(r) PROVE IInv'
<1>1. /\ request[r].stage = "touch" /\ Entered(request[r].source)
      /\ request' = [request EXCEPT ![r].stage = "batch"]
      /\ UNCHANGED <<dedup, mutex, caller, left, victim, victimDead, forgetting, swept>>
  BY DEF TouchSource
<1> DEFINE now == [request[r] EXCEPT !.stage = "batch"]
<1>2. request[r].source \in Sources /\ now \in RequestTypes
  BY <1>1, RequestFacts DEF IInv, RequestTypes
<1>3. request' = [request EXCEPT ![r] = now] BY <1>1
<1> HIDE DEF now
<1>4. /\ request' \in [Requests -> RequestTypes]
      /\ \A q \in Requests : q # r => request'[q] = request[q]
  BY <1>2, <1>3, RequestUpdate DEF IInv
<1>5. \A q \in Requests : request[q].stage = "evict" => request'[q] = request[q]
  BY <1>1, <1>4
<1> QED BY <1>1, <1>2, <1>4, <1>5, EnteredIInv

(* A sweep only takes names away and tells the walk. *)
LEMMA SweepIInv == ASSUME IInv, Sweep PROVE IInv'
<1>1. /\ registered' \subseteq registered /\ swept' \subseteq registered
      /\ disturbed' = (mutex = "evict")
      /\ UNCHANGED <<dedup, mutex, caller, left, victim, victimDead, forgetting, request, fresh>>
  BY DEF Sweep
<1>2. TypeOK' BY <1>1 DEF IInv, TypeOK, dedup
<1>3. Counted'
  <2>1. /\ IsFiniteSet(registered) /\ Cardinality(registered) <= MaxSources
        /\ MaxSources \in Nat
    BY DedupAssumption DEF IInv, Counted
  <2>2. /\ IsFiniteSet(registered') /\ Cardinality(registered') <= Cardinality(registered)
        /\ Cardinality(registered') \in Nat /\ Cardinality(registered) \in Nat
    BY <1>1, <2>1, FS_Subset, FS_CardinalityType
  <2>3. Cardinality(registered') <= MaxSources BY <2>1, <2>2
  <2> QED BY <1>1, <2>2, <2>3 DEF IInv, Counted, dedup
<1>4. (WindowsSound /\ WalkSound)' BY <1>1 DEF IInv, WindowsSound, WalkSound, dedup
<1>5. WalkFair' BY <1>1 DEF WalkFair
<1>6. ForgetSound' BY <1>1 DEF IInv, ForgetSound
<1> QED BY <1>2, <1>3, <1>4, <1>5, <1>6 DEF IInv

(* forgetSource commits only to a source the registry does not hold ... *)
LEMMA ForgetSourceIInv == ASSUME IInv, ForgetSource PROVE IInv'
<1>1. PICK s \in swept :
        /\ mutex = "free" /\ swept' = swept \ {s}
        /\ IF s \in registered THEN UNCHANGED <<mutex, forgetting>>
           ELSE mutex' = "forget" /\ forgetting' = s
        /\ UNCHANGED <<dedup, walk, registered, request, fresh>>
  BY DEF ForgetSource
<1>2. s \in Sources BY DEF IInv, TypeOK
<1>3. TypeOK' BY <1>1, <1>2 DEF IInv, TypeOK, dedup, walk
<1>4. (WindowsSound /\ Counted /\ WalkSound /\ WalkFair)'
  BY <1>1 DEF IInv, WindowsSound, Counted, WalkSound, WalkFair, dedup, walk
<1>5. ForgetSound' BY <1>1, <1>2 DEF IInv, ForgetSound
<1> QED BY <1>3, <1>4, <1>5 DEF IInv

(* ... and drops its window. *)
LEMMA ForgetSourceDeleteIInv == ASSUME IInv, ForgetSourceDelete PROVE IInv'
<1>1. /\ mutex = "forget" /\ mutex' = "free" /\ forgetting' = NoSource
      /\ UNCHANGED <<clock, walk, registry, request, fresh>>
      /\ DOMAIN bySource' = DOMAIN bySource \ {forgetting}
      /\ \A s \in DOMAIN bySource' : bySource'[s] = bySource[s]
  BY DEF ForgetSourceDelete, Without
<1>2. left = {} /\ victim = NoSource BY <1>1 DEF IInv, WalkSound
<1>3. WindowsSound' BY <1>1 DEF IInv, WindowsSound
<1>4. TypeOK'
  <2>1. \A s \in DOMAIN bySource' : IsWindow(bySource'[s]) BY <1>3 DEF WindowsSound, Sound
  <2> QED BY <1>1, <1>2, <2>1 DEF IInv, TypeOK, walk, registry
<1>5. Counted'
  <2>1. /\ IsFiniteSet(DOMAIN bySource) /\ Cardinality(DOMAIN bySource) <= MaxSources
        /\ MaxSources \in Nat
    BY DedupAssumption DEF IInv, Counted
  <2>2. DOMAIN bySource' \subseteq DOMAIN bySource BY <1>1
  <2>3. /\ IsFiniteSet(DOMAIN bySource')
        /\ Cardinality(DOMAIN bySource') <= Cardinality(DOMAIN bySource)
        /\ Cardinality(DOMAIN bySource') \in Nat /\ Cardinality(DOMAIN bySource) \in Nat
    BY <2>1, <2>2, FS_Subset, FS_CardinalityType
  <2>4. Cardinality(DOMAIN bySource') <= MaxSources BY <2>1, <2>3
  <2> QED BY <1>1, <2>3, <2>4 DEF IInv, Counted, registry
<1>6. (WalkSound /\ WalkFair /\ ForgetSound)'
  BY <1>1, <1>2 DEF WalkSound, WalkFair, ForgetSound, walk
<1> QED BY <1>3, <1>4, <1>5, <1>6 DEF IInv

(* The window an admission finds is sound, or new and empty. *)
LEMMA WindowOfSound == ASSUME IInv, NEW s PROVE Sound(WindowOf(s))
BY EmptyWindowFacts DEF IInv, WindowsSound, WindowOf

(* What an admission leaves of the invariant, whatever table it starts from.  *)
LEMMA AdmitIntoIInv ==
  ASSUME IInv, NEW r \in Requests, NEW id \in Ids, NEW now \in Nat,
         NEW windows, NEW w, Sound(w), request[r].source \in Sources,
         DOMAIN windows \subseteq DOMAIN bySource,
         \A s \in DOMAIN windows : windows[s] = bySource[s],
         AdmitInto(r, windows, w, id, now),
         Cardinality(DOMAIN windows \cup {request[r].source}) <= MaxSources,
         mutex' = "free", left' = {}, victim' = NoSource, caller' \in Requests \cup {NoSource},
         victimDead' \in BOOLEAN, disturbed' \in BOOLEAN, clock' \in Nat,
         UNCHANGED <<forgetting, registry>>
  PROVE  IInv'
<1> DEFINE s == request[r].source
<1>1. \A t \in DOMAIN windows : Sound(windows[t]) BY DEF IInv, WindowsSound
<1>2. DOMAIN windows \subseteq Sources /\ s \in Sources BY DEF IInv, TypeOK
<1>3. /\ DOMAIN bySource' = DOMAIN windows \cup {s}
      /\ \A t \in DOMAIN bySource' : Sound(bySource'[t])
      /\ request' \in [Requests -> RequestTypes]
      /\ fresh' \subseteq fresh \cup {s}
  BY <1>1, <1>2, AdmitIntoFacts DEF IInv
<1> HIDE DEF s
<1>4. TypeOK'
  <2>1. \A t \in DOMAIN bySource' : IsWindow(bySource'[t]) BY <1>3 DEF Sound
  <2> QED BY <1>2, <1>3, <2>1 DEF IInv, TypeOK, RequestTypes, registry
<1>5. WindowsSound' BY <1>3 DEF WindowsSound
<1>6. Counted'
  <2>1. IsFiniteSet(DOMAIN windows) BY FS_Subset DEF IInv, Counted
  <2>2. IsFiniteSet(DOMAIN windows \cup {s}) BY <2>1, FS_AddElement
  <2>3. Cardinality(DOMAIN windows \cup {s}) <= MaxSources BY DEF s
  <2> QED BY <1>3, <2>2, <2>3 DEF IInv, Counted, registry
<1>7. (WalkSound /\ WalkFair /\ ForgetSound)' BY DEF WalkSound, WalkFair, ForgetSound
<1> QED BY <1>4, <1>5, <1>6, <1>7 DEF IInv

(* An admission that finds room. *)
LEMMA AdmitIInv == ASSUME IInv, NEW r \in Requests, NEW id \in Ids, Admit(r, id) PROVE IInv'
<1> DEFINE s == request[r].source
<1>1. /\ mutex = "free" /\ mutex' = "free" /\ request[r].stage = "batch" /\ HasRoom(s)
      /\ clock' = clock + 1 /\ AdmitInto(r, bySource, WindowOf(s), id, clock + 1)
      /\ UNCHANGED <<walk, forgetting, registry>>
  BY DEF Admit
<1>2. clock + 1 \in Nat /\ s \in Sources
  <2>1. s \in Sources BY <1>1, RequestFacts DEF IInv
  <2>2. clock + 1 \in Nat BY DEF IInv, TypeOK
  <2> QED BY <2>1, <2>2
<1>3. Sound(WindowOf(s)) BY WindowOfSound
<1>4. Cardinality(DOMAIN bySource \cup {s}) <= MaxSources
  <2> HIDE DEF s
  <2>1. /\ IsFiniteSet(DOMAIN bySource) /\ Cardinality(DOMAIN bySource) <= MaxSources
        /\ Cardinality(DOMAIN bySource) \in Nat /\ MaxSources \in Nat
    BY FS_CardinalityType, DedupAssumption DEF IInv, Counted
  <2>2. CASE s \in DOMAIN bySource
    <3>1. DOMAIN bySource \cup {s} = DOMAIN bySource BY <2>2
    <3> QED BY <2>1, <3>1
  <2>3. CASE s \notin DOMAIN bySource
    <3>1. Cardinality(DOMAIN bySource \cup {s}) = Cardinality(DOMAIN bySource) + 1
      BY <2>1, <2>3, FS_AddElement
    <3>2. Cardinality(DOMAIN bySource) < MaxSources BY <1>1, <2>3 DEF HasRoom
    <3> QED BY <2>1, <3>1, <3>2
  <2> QED BY <2>2, <2>3
<1>5. /\ left' = {} /\ victim' = NoSource /\ caller' \in Requests \cup {NoSource}
      /\ victimDead' \in BOOLEAN /\ disturbed' \in BOOLEAN /\ clock' \in Nat
  BY <1>1, <1>2 DEF IInv, TypeOK, WalkSound, walk
<1> QED BY <1>1, <1>2, <1>3, <1>4, <1>5, AdmitIntoIInv

(* The walk begins with every window ahead of it. *)
LEMMA EvictBeginIInv ==
  ASSUME IInv, NEW r \in Requests, NEW id \in Ids, EvictBegin(r, id) PROVE IInv'
<1> DEFINE s == request[r].source
           now == [stage |-> "evict", source |-> s, id |-> id]
<1>1. /\ mutex = "free" /\ mutex' = "evict" /\ request[r].stage = "batch" /\ ~HasRoom(s)
      /\ clock' = clock + 1
      /\ caller' = r /\ left' = DOMAIN bySource /\ victim' = NoSource /\ victimDead' = FALSE
      /\ request' = [request EXCEPT ![r] = now]
      /\ UNCHANGED <<bySource, disturbed, forgetting, registry, fresh>>
  BY DEF EvictBegin
<1>2. s \in Sources /\ clock' \in Nat
  <2>1. s \in Sources BY <1>1, RequestFacts DEF IInv
  <2>2. clock' \in Nat BY <1>1 DEF IInv, TypeOK
  <2> QED BY <2>1, <2>2
<1>3. now \in RequestTypes BY <1>2 DEF RequestTypes
<1>4. now.stage = "evict" /\ now.source = s OBVIOUS
<1> HIDE DEF now, s
<1>5. request' \in [Requests -> RequestTypes] /\ request'[r] = now
  BY <1>1, <1>3, RequestUpdate DEF IInv
<1>6. TypeOK' BY <1>1, <1>2, <1>5 DEF IInv, TypeOK, RequestTypes, registry
<1>7. WalkSound'
  <2>1. s \notin DOMAIN bySource /\ ~(Cardinality(DOMAIN bySource) < MaxSources)
    BY <1>1 DEF HasRoom
  <2>2. /\ Cardinality(DOMAIN bySource) <= MaxSources /\ MaxSources \in Nat
        /\ Cardinality(DOMAIN bySource) \in Nat
    BY FS_CardinalityType, DedupAssumption DEF IInv, Counted
  <2>3. Cardinality(DOMAIN bySource) = MaxSources BY <2>1, <2>2
  <2> QED BY <1>1, <1>4, <1>5, <2>1, <2>3 DEF WalkSound
<1>8. (WindowsSound /\ Counted /\ WalkFair /\ ForgetSound)'
  BY <1>1 DEF IInv, WindowsSound, Counted, WalkFair, ForgetSound, registry
<1> QED BY <1>6, <1>7, <1>8 DEF IInv

(* One window more: a dead one is preferred to a live one, so the victim is   *)
(* dead as soon as any window looked at is.                                   *)
LEMMA EvictLookIInv == ASSUME IInv, EvictLook PROVE IInv'
<1>1. PICK s \in left :
        /\ mutex = "evict" /\ left' = left \ {s}
        /\ IF victim = NoSource \/ Preferred(s, s \notin registered)
           THEN victim' = s /\ victimDead' = (s \notin registered)
           ELSE UNCHANGED <<victim, victimDead>>
        /\ UNCHANGED <<dedup, mutex, caller, disturbed, forgetting, registry, request, fresh>>
  BY DEF EvictLook
<1>2. s \in DOMAIN bySource /\ s \in Sources BY DEF IInv, TypeOK
<1>3. s # NoSource BY <1>2, DedupAssumption
<1>4. TypeOK'
  <2>1. left' \subseteq DOMAIN bySource /\ victim' \in DOMAIN bySource \cup {NoSource}
        /\ victimDead' \in BOOLEAN
    BY <1>1, <1>2 DEF IInv, TypeOK
  <2> QED BY <1>1, <2>1 DEF IInv, TypeOK, dedup, registry
<1>5. WalkSound' BY <1>1, <1>3 DEF IInv, WalkSound, dedup
<1>6. WalkFair'
  <2> SUFFICES ASSUME ~disturbed
               PROVE  /\ victim' # NoSource => (victimDead' <=> victim' \notin registered)
                      /\ \A t \in DOMAIN bySource \ left' : t \notin registered => victimDead'
    BY <1>1 DEF WalkFair, dedup, registry
  <2>1. /\ victim # NoSource => (victimDead <=> victim \notin registered)
        /\ \A t \in DOMAIN bySource \ left : t \notin registered => victimDead
        /\ victim = NoSource => left = DOMAIN bySource
    BY <1>1 DEF IInv, WalkFair, WalkSound
  <2>2. CASE victim = NoSource \/ Preferred(s, s \notin registered)
    <3>1. victim' = s /\ victimDead' = (s \notin registered) BY <1>1, <2>2
    <3>2. ASSUME NEW t \in DOMAIN bySource \ left, t \notin registered PROVE victimDead'
      BY <2>1, <2>2, <3>1, <3>2 DEF Preferred
    <3> QED BY <1>1, <3>1, <3>2
  <2>3. CASE ~(victim = NoSource \/ Preferred(s, s \notin registered))
    <3>1. victim' = victim /\ victimDead' = victimDead BY <1>1, <2>3
    <3>2. s \notin registered => victimDead BY <2>3 DEF Preferred
    <3> QED BY <1>1, <2>1, <3>1, <3>2
  <2> QED BY <2>2, <2>3
<1>7. (WindowsSound /\ Counted /\ ForgetSound)'
  BY <1>1 DEF IInv, WindowsSound, Counted, ForgetSound, dedup, registry
<1> QED BY <1>4, <1>5, <1>6, <1>7 DEF IInv

(* The end of a walk: there is a victim, and a window for the caller. *)
LEMMA EvictDoneFacts ==
  ASSUME IInv, EvictDone
  PROVE  LET s == request[caller].source
             windows == Without(bySource, victim)
         IN  /\ mutex = "evict" /\ caller \in Requests /\ s \in Sources /\ request[caller].id \in Ids
             /\ s \notin DOMAIN bySource /\ victim \in DOMAIN bySource
             /\ DOMAIN windows = DOMAIN bySource \ {victim}
             /\ \A t \in DOMAIN windows : windows[t] = bySource[t]
             /\ AdmitInto(caller, windows, EmptyWindow(0), request[caller].id, clock)
             /\ Cardinality(DOMAIN windows \cup {s}) <= MaxSources
<1> DEFINE s == request[caller].source
           windows == Without(bySource, victim)
<1>1. /\ mutex = "evict" /\ left = {}
      /\ AdmitInto(caller, windows, EmptyWindow(0), request[caller].id, clock)
  BY DEF EvictDone
<1>2. /\ caller \in Requests /\ request[caller].stage = "evict" /\ s \notin DOMAIN bySource
      /\ Cardinality(DOMAIN bySource) = MaxSources
      /\ victim = NoSource => left = DOMAIN bySource
  BY <1>1 DEF IInv, WalkSound
<1>3. s \in Sources /\ request[caller].id \in Ids BY <1>2, RequestFacts DEF IInv
<1>4. victim \in DOMAIN bySource
  <2>1. DOMAIN bySource # {} BY <1>2, FS_EmptySet, DedupAssumption
  <2> QED BY <1>1, <1>2, <2>1 DEF IInv, TypeOK
<1>5. DOMAIN windows = DOMAIN bySource \ {victim} /\ \A t \in DOMAIN windows : windows[t] = bySource[t]
  BY DEF Without
<1> HIDE DEF s, windows
<1>6. Cardinality(DOMAIN windows \cup {s}) <= MaxSources
  <2>1. IsFiniteSet(DOMAIN bySource) BY DEF IInv, Counted
  <2>2. /\ IsFiniteSet(DOMAIN windows)
        /\ Cardinality(DOMAIN windows) = Cardinality(DOMAIN bySource) - 1
    BY <1>4, <1>5, <2>1, FS_RemoveElement
  <2>3. s \notin DOMAIN windows BY <1>2, <1>5
  <2>4. Cardinality(DOMAIN windows \cup {s}) = Cardinality(DOMAIN windows) + 1
    BY <2>2, <2>3, FS_AddElement
  <2> QED BY <1>2, <2>2, <2>4, DedupAssumption
<1> QED BY <1>1, <1>2, <1>3, <1>4, <1>5, <1>6 DEF s, windows

(* The victim's window goes and the caller's begins. *)
LEMMA EvictDoneIInv == ASSUME IInv, EvictDone PROVE IInv'
<1> DEFINE s == request[caller].source
           windows == Without(bySource, victim)
<1>1. /\ mutex = "evict" /\ caller \in Requests /\ s \in Sources /\ request[caller].id \in Ids
      /\ DOMAIN windows \subseteq DOMAIN bySource
      /\ \A t \in DOMAIN windows : windows[t] = bySource[t]
      /\ AdmitInto(caller, windows, EmptyWindow(0), request[caller].id, clock)
      /\ Cardinality(DOMAIN windows \cup {s}) <= MaxSources
  BY EvictDoneFacts
<1>2. Sound(EmptyWindow(0)) BY EmptyWindowFacts
<1>3. /\ mutex' = "free" /\ left' = {} /\ victim' = NoSource /\ caller' = NoSource
      /\ victimDead' = FALSE /\ disturbed' = FALSE
      /\ UNCHANGED <<clock, forgetting, registry>>
  BY DEF EvictDone
<1>4. clock \in Nat BY DEF IInv, TypeOK
<1> QED BY <1>1, <1>2, <1>3, <1>4, AdmitIntoIInv

(* A delivery given up releases one identity of one window. *)
LEMMA DeliveryPanicsFacts ==
  ASSUME IInv, NEW r \in Requests, DeliveryPanics(r)
  PROVE  LET s == request[r].source
             id == request[r].id
         IN  /\ mutex = "free" /\ request[r].stage = "deliver" /\ s \in Sources /\ id \in Ids
             /\ DOMAIN bySource' = DOMAIN bySource
             /\ \A t \in DOMAIN bySource : t # s => bySource'[t] = bySource[t]
             /\ s \in DOMAIN bySource => bySource'[s] = Forgotten(bySource[s], id)
<1> DEFINE s == request[r].source
           id == request[r].id
<1>1. /\ mutex = "free" /\ request[r].stage = "deliver"
      /\ bySource' = IF s \in DOMAIN bySource
                     THEN [bySource EXCEPT ![s] = Forgotten(@, id)] ELSE bySource
  BY DEF DeliveryPanics
<1>2. s \in Sources /\ id \in Ids BY <1>1, RequestFacts DEF IInv
<1> HIDE DEF s, id
<1>3. /\ DOMAIN bySource' = DOMAIN bySource
      /\ \A t \in DOMAIN bySource : t # s => bySource'[t] = bySource[t]
      /\ s \in DOMAIN bySource => bySource'[s] = Forgotten(bySource[s], id)
  BY <1>1
<1> QED BY <1>1, <1>2, <1>3 DEF s, id

(* It leaves every window sound. *)
LEMMA DeliveryPanicsIInv == ASSUME IInv, NEW r \in Requests, DeliveryPanics(r) PROVE IInv'
<1> DEFINE s == request[r].source
           id == request[r].id
<1>1. /\ mutex = "free" /\ request[r].stage = "deliver"
      /\ DOMAIN bySource' = DOMAIN bySource
      /\ \A t \in DOMAIN bySource : t # s => bySource'[t] = bySource[t]
      /\ s \in DOMAIN bySource => bySource'[s] = Forgotten(bySource[s], id)
  BY DeliveryPanicsFacts
<1>2. /\ request' = [request EXCEPT ![r] = Idle]
      /\ UNCHANGED <<clock, mutex, walk, forgetting, registry, fresh>>
  BY DEF DeliveryPanics
<1>3. request' \in [Requests -> RequestTypes]
  BY <1>2, RequestUpdate DEF IInv, RequestTypes
<1> HIDE DEF s, id
<1>4. WindowsSound'
  <2> SUFFICES ASSUME NEW t \in DOMAIN bySource PROVE Sound(bySource'[t])
    BY <1>1 DEF WindowsSound
  <2>1. Sound(bySource[t]) BY DEF IInv, WindowsSound
  <2>2. Sound(Forgotten(bySource[t], id)) BY <2>1, ForgottenFacts
  <2> QED BY <1>1, <2>1, <2>2
<1>5. TypeOK'
  <2>1. \A t \in DOMAIN bySource' : IsWindow(bySource'[t]) BY <1>4 DEF WindowsSound, Sound
  <2> QED BY <1>1, <1>2, <1>3, <2>1 DEF IInv, TypeOK, RequestTypes, walk, registry
<1>6. (Counted /\ WalkSound /\ WalkFair /\ ForgetSound)'
  BY <1>1, <1>2 DEF IInv, Counted, WalkSound, WalkFair, ForgetSound, walk, registry
<1> QED BY <1>4, <1>5, <1>6 DEF IInv

(* The steps of a handler that only move it on. *)
LEMMA HandlerIInv ==
  ASSUME IInv, NEW r \in Requests, Begin(r) \/ Delivered(r) \/ End(r)
  PROVE  IInv'
<1>1. CASE Begin(r)
  <2>1. PICK s \in registered :
          request' = [request EXCEPT ![r] = [stage |-> "touch", source |-> s]]
    BY <1>1 DEF Begin
  <2>2. [stage |-> "touch", source |-> s] \in RequestTypes
    BY DEF RequestTypes, IInv, TypeOK
  <2>3. /\ request[r].stage # "evict"
        /\ UNCHANGED <<dedup, mutex, walk, forgetting, registry, fresh>>
    BY <1>1 DEF Begin, Idle
  <2> QED BY <2>1, <2>2, <2>3, RequestMoves
<1>2. CASE Delivered(r)
  <2>1. /\ request[r].stage = "deliver"
        /\ request' = [request EXCEPT ![r] = [stage |-> "batch", source |-> request[r].source]]
        /\ UNCHANGED <<dedup, mutex, walk, forgetting, registry, fresh>>
    BY <1>2 DEF Delivered
  <2>2. request[r].source \in Sources BY <2>1, RequestFacts DEF IInv
  <2>3. [stage |-> "batch", source |-> request[r].source] \in RequestTypes
    BY <2>2 DEF RequestTypes
  <2> QED BY <2>1, <2>3, RequestMoves
<1>3. CASE End(r)
  <2>1. /\ request[r].stage = "batch" /\ request' = [request EXCEPT ![r] = Idle]
        /\ UNCHANGED <<dedup, mutex, walk, forgetting, registry, fresh>>
    BY <1>3 DEF End
  <2>2. Idle \in RequestTypes BY DEF RequestTypes
  <2> QED BY <2>1, <2>2, RequestMoves
<1> QED BY <1>1, <1>2, <1>3

(* Every step keeps the invariant. *)
LEMMA NextIInv == IInv /\ [Next]_vars => IInv'
<1> SUFFICES ASSUME IInv, [Next]_vars PROVE IInv' OBVIOUS
<1>1. ASSUME NEW s \in Sources, Register(s) PROVE IInv' BY <1>1, RegisterIInv
<1>2. CASE Sweep BY <1>2, SweepIInv
<1>3. CASE ForgetSource BY <1>3, ForgetSourceIInv
<1>4. CASE ForgetSourceDelete BY <1>4, ForgetSourceDeleteIInv
<1>5. CASE EvictLook BY <1>5, EvictLookIInv
<1>6. CASE EvictDone BY <1>6, EvictDoneIInv
<1>7. ASSUME NEW r \in Requests, Begin(r) \/ Delivered(r) \/ End(r) PROVE IInv'
  BY <1>7, HandlerIInv
<1>8. ASSUME NEW r \in Requests, TouchSource(r) PROVE IInv' BY <1>8, TouchSourceIInv
<1>9. ASSUME NEW r \in Requests, DeliveryPanics(r) PROVE IInv' BY <1>9, DeliveryPanicsIInv
<1>10. ASSUME NEW r \in Requests, NEW id \in Ids, Admit(r, id) PROVE IInv' BY <1>10, AdmitIInv
<1>11. ASSUME NEW r \in Requests, NEW id \in Ids, EvictBegin(r, id) PROVE IInv'
  BY <1>11, EvictBeginIInv
<1>12. CASE UNCHANGED vars
  BY <1>12 DEF vars, dedup, walk, registry, IInv, TypeOK, WindowsSound, Counted, WalkSound,
               WalkFair, ForgetSound
<1> QED BY <1>1, <1>2, <1>3, <1>4, <1>5, <1>6, <1>7, <1>8, <1>9, <1>10, <1>11, <1>12 DEF Next

(* The invariant holds in every reachable state. *)
THEOREM InductiveInvariant == Spec => []IInv
<1> QED BY InitIInv, NextIInv, PTL DEF Spec

(* The redelivery guard's variables keep their types. *)
THEOREM DedupTypes == Spec => []TypeOK
<1>1. IInv => TypeOK BY DEF IInv
<1> QED BY <1>1, InductiveInvariant, PTL

(* The map of every window points at the ring, for any window length. *)
THEOREM SeenStaysInRing == Spec => []SeenIsInRing
<1>1. IInv => SeenIsInRing BY DEF IInv, WindowsSound, Sound, AtItsSlot, SeenIsInRing
<1> QED BY <1>1, InductiveInvariant, PTL

(* There are never more windows than the ceiling. *)
THEOREM WindowsStayBounded == Spec => []WindowsBounded
<1>1. IInv => WindowsBounded BY DEF IInv, Counted, WindowsBounded
<1> QED BY <1>1, InductiveInvariant, PTL

(* The table keeps its shape: types, the map and the ring, and the ceiling.   *)
THEOREM TableIsSound == Spec => []Inv
<1> QED BY DedupTypes, SeenStaysInRing, WindowsStayBounded, PTL DEF Inv

-----------------------------------------------------------------------------
(* What takes a window out of the table: the end of a walk takes the victim's *)
(* and forgetSource the one it committed to.                                  *)
LEMMA WindowGoes ==
  ASSUME IInv, [Next]_vars, NEW s \in DOMAIN bySource, s \notin DOMAIN bySource'
  PROVE  \/ EvictDone /\ mutex = "evict" /\ s = victim
         \/ ForgetSourceDelete /\ mutex = "forget" /\ s = forgetting
<1>1. ASSUME NEW r \in Requests, NEW id \in Ids, Admit(r, id) PROVE FALSE
  <2> DEFINE a == request[r].source
  <2>1. /\ request[r].stage = "batch"
        /\ AdmitInto(r, bySource, WindowOf(a), id, clock + 1)
    BY <1>1 DEF Admit
  <2>2. a \in Sources BY <2>1, RequestFacts DEF IInv
  <2>3. DOMAIN bySource \subseteq Sources /\ clock + 1 \in Nat BY DEF IInv, TypeOK
  <2>4. \A t \in DOMAIN bySource : Sound(bySource[t]) BY DEF IInv, WindowsSound
  <2>5. DOMAIN bySource' = DOMAIN bySource \cup {a}
    BY <2>1, <2>2, <2>3, <2>4, WindowOfSound, AdmitIntoFacts DEF IInv
  <2> QED BY <2>5
<1>2. CASE EvictDone
  <2> DEFINE a == request[caller].source
             windows == Without(bySource, victim)
  <2>1. /\ mutex = "evict" /\ caller \in Requests /\ a \in Sources /\ request[caller].id \in Ids
        /\ DOMAIN windows = DOMAIN bySource \ {victim}
        /\ \A t \in DOMAIN windows : windows[t] = bySource[t]
        /\ AdmitInto(caller, windows, EmptyWindow(0), request[caller].id, clock)
    BY <1>2, EvictDoneFacts
  <2>2. DOMAIN windows \subseteq Sources /\ clock \in Nat BY <2>1 DEF IInv, TypeOK
  <2>3. \A t \in DOMAIN windows : Sound(windows[t]) BY <2>1 DEF IInv, WindowsSound
  <2>4. Sound(EmptyWindow(0)) BY EmptyWindowFacts
  <2>5. DOMAIN bySource' = DOMAIN windows \cup {a}
    BY <2>1, <2>2, <2>3, <2>4, AdmitIntoFacts DEF IInv
  <2> QED BY <1>2, <2>1, <2>5
<1>3. CASE ForgetSourceDelete
  <2>1. DOMAIN bySource' = DOMAIN bySource \ {forgetting} /\ mutex = "forget"
    BY <1>3 DEF ForgetSourceDelete, Without
  <2> QED BY <1>3, <2>1
<1>4. ASSUME NEW r \in Requests, DeliveryPanics(r) PROVE FALSE
  BY <1>4, DeliveryPanicsFacts
<1>5. bySource' = bySource => FALSE OBVIOUS
<1>6. ASSUME NEW r \in Requests, NEW id \in Ids, EvictBegin(r, id) PROVE FALSE
  BY <1>5, <1>6 DEF EvictBegin
<1>7. ASSUME NEW r \in Requests,
             Begin(r) \/ TouchSource(r) \/ Delivered(r) \/ End(r)
      PROVE  FALSE
  BY <1>5, <1>7 DEF Begin, TouchSource, Delivered, End, dedup
<1>8. ASSUME NEW t \in Sources, Register(t) PROVE FALSE BY <1>5, <1>8 DEF Register, dedup
<1>9. CASE Sweep BY <1>5, <1>9 DEF Sweep, dedup
<1>10. CASE ForgetSource BY <1>5, <1>10 DEF ForgetSource, dedup
<1>11. CASE EvictLook BY <1>5, <1>11 DEF EvictLook, dedup
<1>12. CASE UNCHANGED vars BY <1>5, <1>12 DEF vars, dedup
<1> QED BY <1>1, <1>2, <1>3, <1>4, <1>6, <1>7, <1>8, <1>9, <1>10, <1>11, <1>12 DEF Next

(* forgetSource never drops a window that ingested a cycle of the source's    *)
(* current registration.                                                      *)
THEOREM ReregisteredIsKept == Spec => KeepsReregistered
<1>1. ASSUME IInv, [Next]_vars, NEW s \in DOMAIN bySource,
             s \notin DOMAIN bySource', mutex = "forget"
      PROVE  s \notin fresh \cap registered
  <2>1. s = forgetting BY <1>1, WindowGoes
  <2> QED BY <1>1, <2>1 DEF IInv, ForgetSound
<1>2. IInv /\ [Next]_vars =>
        [\A s \in DOMAIN bySource :
           s \notin DOMAIN bySource' /\ mutex = "forget" => s \notin fresh \cap registered]_vars
  BY <1>1
<1> QED BY <1>2, InductiveInvariant, PTL DEF Spec, KeepsReregistered

(* A full table and a registered caller without a window: some window belongs *)
(* to nobody, since the registry holds no more names than there are windows.  *)
LEMMA SomeWindowIsDead ==
  ASSUME IInv, mutex = "evict", request[caller].source \in registered
  PROVE  \E t \in DOMAIN bySource : t \notin registered
<1> DEFINE a == request[caller].source
<1>1. SUFFICES ASSUME DOMAIN bySource \subseteq registered PROVE FALSE OBVIOUS
<1>2. /\ a \notin DOMAIN bySource /\ Cardinality(DOMAIN bySource) = MaxSources
      /\ IsFiniteSet(DOMAIN bySource) /\ IsFiniteSet(registered)
      /\ Cardinality(registered) <= MaxSources
  BY DEF IInv, WalkSound, Counted
<1> HIDE DEF a
<1>3. Cardinality(DOMAIN bySource \cup {a}) = MaxSources + 1 BY <1>2, FS_AddElement
<1>4. DOMAIN bySource \cup {a} \subseteq registered BY <1>1 DEF a
<1>5. Cardinality(DOMAIN bySource \cup {a}) <= Cardinality(registered)
      /\ Cardinality(registered) \in Nat
  BY <1>2, <1>4, FS_Subset, FS_CardinalityType
<1> QED BY <1>2, <1>3, <1>5, DedupAssumption

(* A registered source in need of a window never costs another registered     *)
(* source its own while the registry stands still.                            *)
THEOREM RegisteredIsSpared == Spec => SparesRegistered
<1>1. ASSUME IInv, [Next]_vars, NEW s \in DOMAIN bySource, s \notin DOMAIN bySource',
             mutex = "evict", ~disturbed, request[caller].source \in registered
      PROVE  s \notin registered
  <2>1. EvictDone /\ s = victim BY <1>1, WindowGoes
  <2>2. left = {} /\ victim \in DOMAIN bySource BY <1>1, <2>1, EvictDoneFacts DEF EvictDone
  <2>3. victim # NoSource BY <1>1, <2>2, DedupAssumption DEF IInv, TypeOK
  <2>4. PICK t \in DOMAIN bySource : t \notin registered BY <1>1, SomeWindowIsDead
  <2>5. victimDead /\ (victimDead <=> victim \notin registered)
    BY <1>1, <2>2, <2>3, <2>4 DEF IInv, WalkFair
  <2> QED BY <2>1, <2>5
<1>2. IInv /\ [Next]_vars =>
        [\A s \in DOMAIN bySource :
           s \notin DOMAIN bySource' /\ mutex = "evict" /\ ~disturbed
             /\ request[caller].source \in registered
           => s \notin registered]_vars
  BY <1>1
<1> QED BY <1>2, InductiveInvariant, PTL DEF Spec, SparesRegistered

(* A registered source keeps its window against both ways of losing one:      *)
(* eviction and forgetSource (dedup.go lines 137 to 175).                     *)
THEOREM RegisteredKeepTheirs == Spec => RegisteredKeepWindows
BY RegisteredIsSpared, ReregisteredIsKept DEF RegisteredKeepWindows

-----------------------------------------------------------------------------
(* The windows, read in the order of insertion, are the promised ones.        *)

(* The reading of a source with a window, and of one without. *)
LEMMA ReadingFacts ==
  ASSUME NEW s \in Sources
  PROVE  /\ Reading[s] = IF s \in DOMAIN bySource THEN InOrder(bySource[s]) ELSE <<>>
         /\ Reading[s] = InOrder(WindowOf(s))
         /\ Reading'[s] = IF s \in DOMAIN bySource' THEN InOrder(bySource'[s]) ELSE <<>>
<1>1. InOrder(EmptyWindow(0)) = <<>> BY EmptyWindowFacts
<1>2. (InOrder(EmptyWindow(0)))' = <<>> BY <1>1 DEF InOrder, EmptyWindow
<1>3. Reading[s] = Recent(s) /\ Reading'[s] = Recent(s)' BY DEF Reading
<1>4. Recent(s) = IF s \in DOMAIN bySource THEN InOrder(bySource[s]) ELSE <<>>
  BY <1>1 DEF Recent, WindowOf
<1>5. Recent(s)' = IF s \in DOMAIN bySource' THEN InOrder(bySource'[s]) ELSE <<>>
  BY <1>2 DEF Recent, WindowOf, InOrder
<1> QED BY <1>3, <1>4, <1>5 DEF Recent

(* A table that stays reads the same. *)
LEMMA SameReading ==
  ASSUME bySource' = bySource
  PROVE  Reading' = Reading
BY DEF Reading, Recent, WindowOf, InOrder

(* An admission that finds room ingests what is not remembered, or nothing.   *)
LEMMA AdmitRefines ==
  ASSUME IInv, NEW r \in Requests, NEW id \in Ids, Admit(r, id)
  PROVE  Reading' = Reading \/ Promise!Ingest(request[r].source, id)
<1> DEFINE s == request[r].source
           w == WindowOf(s)
<1>1. request[r].stage = "batch" /\ AdmitInto(r, bySource, w, id, clock + 1) BY DEF Admit
<1>2. s \in Sources /\ clock + 1 \in Nat /\ DOMAIN bySource \subseteq Sources
  <2>1. s \in Sources BY <1>1, RequestFacts DEF IInv
  <2>2. clock + 1 \in Nat /\ DOMAIN bySource \subseteq Sources BY DEF IInv, TypeOK
  <2> QED BY <2>1, <2>2
<1>3. Sound(w) /\ \A t \in DOMAIN bySource : Sound(bySource[t])
  <2>1. Sound(w) BY WindowOfSound
  <2> QED BY <2>1 DEF IInv, WindowsSound
<1>4. /\ DOMAIN bySource' = DOMAIN bySource \cup {s}
      /\ \A t \in DOMAIN bySource : t # s => bySource'[t] = bySource[t]
      /\ Reads(w, id, InOrder(bySource'[s]))
  BY <1>1, <1>2, <1>3, AdmitIntoFacts DEF IInv
<1>5. Len(w.ring) \in Nat BY <1>3, WindowFields DEF Sound
<1> HIDE DEF s
<1>6. Reading[s] = InOrder(w) BY <1>2, ReadingFacts
<1> HIDE DEF w
<1>7. Reading'[s] = InOrder(bySource'[s]) BY <1>2, <1>4, ReadingFacts
<1>8. \A t \in Sources : t # s => Reading'[t] = Reading[t] BY <1>4, ReadingFacts
<1>9. DOMAIN Reading = Sources /\ DOMAIN Reading' = Sources BY DEF Reading
<1>10. Reading = [t \in Sources |-> Reading[t]] /\ Reading' = [t \in Sources |-> Reading'[t]]
  BY DEF Reading
<1>11. CASE InOrder(bySource'[s]) = InOrder(w)
  <2>1. \A t \in Sources : Reading'[t] = Reading[t] BY <1>6, <1>7, <1>8, <1>11
  <2> QED BY <1>10, <2>1
<1>12. CASE ~Remembers(w, id) /\ InOrder(bySource'[s]) = Grown(InOrder(w), id)
  <2>1. id \notin Promise!Remembered(s)
    <3>1. ASSUME NEW i \in 1..Len(Reading[s]), Reading[s][i].live PROVE Reading[s][i].id # id
      <4>1. i \in 1..Len(InOrder(w)) /\ InOrder(w)[i].live BY <1>6, <3>1
      <4>2. Remembers(w, InOrder(w)[i].id) BY <1>5, <4>1, LiveIsRemembered
      <4> QED BY <1>6, <1>12, <4>2
    <3> QED BY <3>1 DEF Promise!Remembered
  <2>2. Reading' = [Reading EXCEPT ![s] =
          Append(IF Len(@) < Window THEN @ ELSE Tail(@), [id |-> id, live |-> TRUE])]
    <3>1. Reading'[s] = Grown(Reading[s], id) BY <1>6, <1>7, <1>12
    <3>2. Reading' = [Reading EXCEPT ![s] = Grown(@, id)] BY <1>2, <1>8, <1>9, <1>10, <3>1
    <3> QED BY <3>2 DEF Grown
  <2> QED BY <2>1, <2>2 DEF Promise!Ingest, s
<1> QED BY <1>4, <1>11, <1>12 DEF Reads

(* The end of a walk drops the victim and starts the caller's window. *)
LEMMA EvictDoneRefines ==
  ASSUME IInv, EvictDone
  PROVE  Promise!Next
<1> DEFINE s == request[caller].source
           id == request[caller].id
           windows == Without(bySource, victim)
           w == EmptyWindow(0)
<1>1. /\ caller \in Requests /\ s \in Sources /\ id \in Ids
      /\ s \notin DOMAIN bySource /\ victim \in DOMAIN bySource
      /\ DOMAIN windows = DOMAIN bySource \ {victim}
      /\ \A t \in DOMAIN windows : windows[t] = bySource[t]
      /\ AdmitInto(caller, windows, w, id, clock)
  BY EvictDoneFacts
<1>2. /\ DOMAIN windows \subseteq Sources /\ clock \in Nat /\ victim \in Sources
      /\ \A t \in DOMAIN windows : Sound(windows[t])
  BY <1>1 DEF IInv, TypeOK, WindowsSound
<1>3. Sound(w) /\ InOrder(w) = <<>> BY EmptyWindowFacts
<1>4. /\ DOMAIN bySource' = DOMAIN windows \cup {s}
      /\ \A t \in DOMAIN windows : t # s => bySource'[t] = windows[t]
      /\ Reads(w, id, InOrder(bySource'[s]))
  BY <1>1, <1>2, <1>3, AdmitIntoFacts DEF IInv
<1> HIDE DEF s, id, windows, w
<1>5. Reading[s] = <<>> /\ Reading'[s] = InOrder(bySource'[s])
  BY <1>1, <1>4, ReadingFacts
<1>6. s # victim /\ Reading'[victim] = <<>> BY <1>1, <1>2, <1>4, ReadingFacts
<1>7. \A t \in Sources : t # s /\ t # victim => Reading'[t] = Reading[t]
  BY <1>1, <1>4, ReadingFacts
<1>8. /\ DOMAIN Reading = Sources /\ DOMAIN Reading' = Sources
      /\ Reading = [t \in Sources |-> Reading[t]] /\ Reading' = [t \in Sources |-> Reading'[t]]
  BY DEF Reading
<1>9. CASE InOrder(bySource'[s]) = InOrder(w)
  <2>1. Reading' = [Reading EXCEPT ![victim] = <<>>]
    BY <1>2, <1>3, <1>5, <1>6, <1>7, <1>8, <1>9
  <2> QED BY <1>2, <2>1 DEF Promise!Next, Promise!Drop
<1>10. CASE InOrder(bySource'[s]) = Grown(InOrder(w), id)
  <2> DEFINE entry == [id |-> id, live |-> TRUE]
  <2>1. Len(InOrder(w)) < Window BY <1>3, DedupAssumption
  <2>2. Reading'[s] = <<entry>> BY <1>3, <1>5, <1>10, <2>1 DEF Grown
  <2> HIDE DEF entry
  <2>3. Reading' = [Reading EXCEPT ![victim] = <<>>, ![s] = <<entry>>]
    BY <1>1, <1>2, <1>6, <1>7, <1>8, <2>2
  <2>4. Promise!DropAndIngest(victim, s, id) BY <2>3 DEF Promise!DropAndIngest, entry
  <2> QED BY <1>1, <1>2, <1>6, <2>4 DEF Promise!Next
<1> QED BY <1>4, <1>9, <1>10 DEF Reads

(* forgetSource drops one window. *)
LEMMA ForgetSourceDeleteRefines ==
  ASSUME IInv, ForgetSourceDelete
  PROVE  Promise!Next
<1>1. /\ DOMAIN bySource' = DOMAIN bySource \ {forgetting}
      /\ \A t \in DOMAIN bySource' : bySource'[t] = bySource[t]
  BY DEF ForgetSourceDelete, Without
<1>2. forgetting \in Sources BY DEF ForgetSourceDelete, IInv, ForgetSound
<1>3. Reading'[forgetting] = <<>> BY <1>1, <1>2, ReadingFacts
<1>4. \A t \in Sources : t # forgetting => Reading'[t] = Reading[t] BY <1>1, ReadingFacts
<1>5. /\ DOMAIN Reading = Sources
      /\ Reading = [t \in Sources |-> Reading[t]] /\ Reading' = [t \in Sources |-> Reading'[t]]
  BY DEF Reading
<1>6. Reading' = [Reading EXCEPT ![forgetting] = <<>>] BY <1>2, <1>3, <1>4, <1>5
<1> QED BY <1>2, <1>6 DEF Promise!Next, Promise!Drop

(* A delivery given up takes the life of the identity's entries. *)
LEMMA DeliveryPanicsRefines ==
  ASSUME IInv, NEW r \in Requests, DeliveryPanics(r)
  PROVE  Reading' = Reading \/ Promise!Forget(request[r].source, request[r].id)
<1> DEFINE s == request[r].source
           id == request[r].id
<1>1. /\ s \in Sources /\ DOMAIN bySource' = DOMAIN bySource
      /\ \A t \in DOMAIN bySource : t # s => bySource'[t] = bySource[t]
      /\ s \in DOMAIN bySource => bySource'[s] = Forgotten(bySource[s], id)
  BY DeliveryPanicsFacts
<1> HIDE DEF s, id
<1>2. \A t \in Sources : t # s => Reading'[t] = Reading[t] BY <1>1, ReadingFacts
<1>3. /\ DOMAIN Reading = Sources
      /\ Reading = [t \in Sources |-> Reading[t]] /\ Reading' = [t \in Sources |-> Reading'[t]]
  BY DEF Reading
<1>4. CASE s \notin DOMAIN bySource
  <2>1. Reading'[s] = Reading[s] BY <1>1, <1>4, ReadingFacts
  <2>2. \A t \in Sources : Reading'[t] = Reading[t] BY <1>2, <2>1
  <2> QED BY <1>3, <2>2
<1>5. CASE s \in DOMAIN bySource
  <2>1. Reading[s] = InOrder(bySource[s]) /\ Reading'[s] = InOrder(bySource'[s])
    BY <1>1, <1>5, ReadingFacts
  <2>2. Sound(bySource[s]) BY <1>5 DEF IInv, WindowsSound
  <2>3. InOrder(bySource'[s]) = Promise!Released(InOrder(bySource[s]), id)
    BY <1>1, <1>5, <2>2, ForgottenFacts
  <2>4. Reading'[s] = Promise!Released(Reading[s], id) BY <2>1, <2>3
  <2>5. Reading' = [Reading EXCEPT ![s] = Promise!Released(@, id)] BY <1>1, <1>2, <1>3, <2>4
  <2>6. Promise!Forget(s, id) BY <2>5 DEF Promise!Forget
  <2> QED BY <2>6 DEF s, id
<1> QED BY <1>4, <1>5

(* Every step maps to a step of the promise or to none. *)
LEMMA NextRefines ==
  ASSUME IInv, [Next]_vars
  PROVE  [Promise!Next]_Reading
<1>1. ASSUME NEW r \in Requests, NEW id \in Ids, Admit(r, id) PROVE [Promise!Next]_Reading
  <2>1. request[r].stage = "batch" BY <1>1 DEF Admit
  <2>2. request[r].source \in Sources BY <2>1, RequestFacts DEF IInv
  <2> QED BY <1>1, <2>2, AdmitRefines DEF Promise!Next
<1>2. CASE EvictDone BY <1>2, EvictDoneRefines
<1>3. CASE ForgetSourceDelete BY <1>3, ForgetSourceDeleteRefines
<1>4. ASSUME NEW r \in Requests, DeliveryPanics(r) PROVE [Promise!Next]_Reading
  <2>1. request[r].source \in Sources /\ request[r].id \in Ids
    BY <1>4, DeliveryPanicsFacts
  <2> QED BY <1>4, <2>1, DeliveryPanicsRefines DEF Promise!Next
<1>5. ASSUME NEW r \in Requests, NEW id \in Ids, EvictBegin(r, id) PROVE [Promise!Next]_Reading
  BY <1>5, SameReading DEF EvictBegin
<1>6. ASSUME NEW r \in Requests,
             Begin(r) \/ TouchSource(r) \/ Delivered(r) \/ End(r)
      PROVE  [Promise!Next]_Reading
  BY <1>6, SameReading DEF Begin, TouchSource, Delivered, End, dedup
<1>7. ASSUME NEW t \in Sources, Register(t) PROVE [Promise!Next]_Reading
  BY <1>7, SameReading DEF Register, dedup
<1>8. CASE Sweep BY <1>8, SameReading DEF Sweep, dedup
<1>9. CASE ForgetSource BY <1>9, SameReading DEF ForgetSource, dedup
<1>10. CASE EvictLook BY <1>10, SameReading DEF EvictLook, dedup
<1>11. CASE UNCHANGED vars BY <1>11, SameReading DEF vars, dedup
<1> QED BY <1>1, <1>2, <1>3, <1>4, <1>5, <1>6, <1>7, <1>8, <1>9, <1>10, <1>11 DEF Next

(* The windows implement the promise, for any number of sources, identities,  *)
(* windows and requests: an identity inside a source's last Window insertions *)
(* is never ingested twice unless its delivery was given up.                  *)
THEOREM WindowsKeepThePromise == Spec => ImplementsRecentWindow
<1>1. Init => Promise!Init
  <2> SUFFICES ASSUME Init PROVE Promise!Init OBVIOUS
  <2>1. DOMAIN bySource = {} BY DEF Init
  <2>2. \A s \in Sources : Reading[s] = <<>> BY <2>1, ReadingFacts
  <2>3. Reading = [s \in Sources |-> Reading[s]] BY DEF Reading
  <2> QED BY <2>2, <2>3 DEF Promise!Init
<1>2. IInv /\ [Next]_vars => [Promise!Next]_Reading BY NextRefines
<1> QED BY <1>1, <1>2, InductiveInvariant, PTL DEF Spec, ImplementsRecentWindow, Promise!Spec
=============================================================================
