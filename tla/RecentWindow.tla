---------------------------- MODULE RecentWindow ----------------------------
(* What the master's dedup window promises each slave, without positions or   *)
(* maps: recent[s] is the last Window identities ingested from s, oldest      *)
(* first, each remembered until it falls out or its delivery is given up.  A  *)
(* remembered identity is never ingested again.                               *)
EXTENDS Naturals, Sequences

CONSTANTS
  Sources,  \* slave names
  Ids,      \* measurement identities: target and timestamp
  Window    \* identities a source's window holds

VARIABLE recent  \* [Sources -> sequences of entries]

Entry == [id : Ids, live : BOOLEAN]

Remembered(s) == {recent[s][i].id : i \in {j \in 1..Len(recent[s]) : recent[s][j].live}}

Init == recent = [s \in Sources |-> <<>>]

(* The identity is new, or forgotten: it enters the window at its young end. *)
Ingest(s, id) ==
  /\ id \notin Remembered(s)
  /\ recent' = [recent EXCEPT ![s] =
       Append(IF Len(@) < Window THEN @ ELSE Tail(@), [id |-> id, live |-> TRUE])]

(* A delivery that never completed releases its identity. *)
Released(entries, id) ==
  [i \in 1..Len(entries) |->
    [id |-> entries[i].id, live |-> entries[i].live /\ entries[i].id # id]]

Forget(s, id) == recent' = [recent EXCEPT ![s] = Released(@, id)]

(* The source left the registry, or its window was spent on another source. *)
Drop(s) == recent' = [recent EXCEPT ![s] = <<>>]

(* One admission drops a victim's window and starts the newcomer's. *)
DropAndIngest(victim, s, id) ==
  recent' = [recent EXCEPT ![victim] = <<>>, ![s] = <<[id |-> id, live |-> TRUE]>>]

Next ==
  \E s \in Sources :
    \/ Drop(s)
    \/ \E id \in Ids :
         \/ Ingest(s, id)
         \/ Forget(s, id)
         \/ \E victim \in Sources \ {s} : DropAndIngest(victim, s, id)

Spec == Init /\ [][Next]_recent
=============================================================================
