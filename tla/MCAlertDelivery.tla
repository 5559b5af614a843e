-------------------------- MODULE MCAlertDelivery --------------------------
(* AlertDelivery for TLC: an alert that keeps a state for each of two         *)
(* sources, and one that has a quorum, in the same shard.                     *)
EXTENDS AlertDelivery

CONSTANTS perSource, quorum, a, b, all

MCStates == {<<perSource, a>>, <<perSource, b>>, <<quorum, all>>}
=============================================================================
