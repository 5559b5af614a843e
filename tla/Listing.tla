------------------------------ MODULE Listing -------------------------------
(* A sequence filtered and a sequence sorted, as operators that a proof can   *)
(* expand: the provers know nothing of SelectSeq and SortSeq.                 *)
EXTENDS Integers, Sequences, FiniteSets

(* The elements at some places of a sequence, one after the other as Before   *)
(* orders the places.                                                         *)
Listed(seq, places, Before) ==
  [k \in 1..Cardinality(places) |->
     seq[CHOOSE i \in places : Cardinality({j \in places : <<j, i>> \in Before}) = k - 1]]

(* In order; those that are equal in it stay as they were. *)
Ordered(seq, places, Less(_, _)) ==
  Listed(seq, places,
         {p \in places \X places :
            \/ Less(seq[p[1]], seq[p[2]])
            \/ p[1] < p[2] /\ ~Less(seq[p[2]], seq[p[1]])})

(* As they were. *)
Picked(seq, places) == Listed(seq, places, {p \in places \X places : p[1] < p[2]})
Chosen(seq, Test(_)) == Picked(seq, {i \in DOMAIN seq : Test(seq[i])})
=============================================================================
