---------------------------- MODULE MCClusterMesh ----------------------------
(* A cluster of three slave names and addresses whose config moves one name   *)
(* between the two lists of a target: slave and alert names share their       *)
(* character set, so n1 is both.  Of the files, some are refused.  A tick is  *)
(* MinPingBudget.                                                             *)
EXTENDS ClusterMesh

CONSTANTS n1, n2

Target(name, assigned, attached) ==
  [name |-> name, host |-> "h", probe |-> "p", slaves |-> assigned, alerts |-> attached]

Probe(type) == [type |-> type, no_trace |-> FALSE, insecure |-> FALSE]
Shape(interval, pings, type) == [interval |-> interval, pings |-> pings, probes |-> [p \in {"p"} |-> Probe(type)]]
Alert == [parses |-> TRUE, sustained |-> 1, actions |-> {"log"}]

Config(hops, healthAlerts, groups) ==
  [source |-> "master", token |-> TRUE, hops |-> hops, alerts |-> healthAlerts,
   shape |-> Shape(9, 2, "tcp"), groups |-> groups,
   defined |-> [a \in {n1, n2} |-> Alert], actions |-> {"log"}]

OneGroup(targets) == <<[group |-> "g", targets |-> targets]>>

Plain == Config(TRUE, <<>>, OneGroup(<<Target("t", <<>>, <<>>)>>))

Accepted ==
  {Plain,
   Config(TRUE, <<>>, OneGroup(<<Target("t", <<n1>>, <<>>)>>)),
   Config(TRUE, <<>>, OneGroup(<<Target("t", <<>>, <<n1>>)>>)),
   Config(FALSE, <<>>, OneGroup(<<Target("t", <<>>, <<n1>>)>>)),
   Config(TRUE, <<n1>>, <<[group |-> "g", targets |-> <<Target("t", <<n1, n2>>, <<>>), Target("u", <<>>, <<n2>>)>>],
                          [group |-> "f", targets |-> <<Target("t", <<n2>>, <<n1>>)>>]>>)}

(* At 5 ticks two pings 4 apart leave none for an echo; mtr echoes less than  *)
(* it is asked for.  Nothing checks a type.                                   *)
Edges ==
  {[Plain EXCEPT !.shape = s] :
     s \in {Shape(5, 2, "tcp"), Shape(6, 2, "icmp"), Shape(9, 3, "mtr"), Shape(9, 3, "typo"), Shape(9, 2, "typo")}}
    \cup {[Plain EXCEPT !.token = FALSE, !.shape = s] : s \in {Shape(9, 3, "mtr"), Shape(5, 2, "mtr")}}

Refused ==
  {[Plain EXCEPT !.groups = OneGroup(<<Target("t", <<>>, <<>>), Target("t", <<n1>>, <<>>)>>)],
   [Plain EXCEPT !.groups = <<[group |-> HealthGroup, targets |-> <<Target(n1, <<>>, <<>>)>>]>>],
   [Plain EXCEPT !.groups = OneGroup(<<[Target("t", <<>>, <<>>) EXCEPT !.probe = HealthProbe]>>)],
   [Plain EXCEPT !.groups = OneGroup(<<Target("long", <<>>, <<>>)>>)],
   [Plain EXCEPT !.groups = OneGroup(<<Target("t", <<>>, <<"x">>)>>)],
   [Plain EXCEPT !.alerts = <<"x">>],
   [Plain EXCEPT !.shape.probes = HealthProbe :> Probe("tcp") @@ @,
                 !.groups = OneGroup(<<[Target("t", <<>>, <<>>) EXCEPT !.probe = HealthProbe]>>)]}

MCFiles == Accepted \cup Edges \cup Refused
=============================================================================
