------------------------ MODULE MCSchedulerLifecycle ------------------------
(* SchedulerLifecycle for TLC: one slave, which claims an address or none.    *)
(* Unpinned it is a peer at the address it claims; the pin names another one, *)
(* under which its claim makes no peer, as if it claimed nothing.             *)
EXTENDS SchedulerLifecycle, TLC

CONSTANTS s1, s2, a1, a2, unpinned, pinned, alone, peered

Config(shape, alerts, pins) == [shape |-> shape, alerts |-> alerts, pins |-> pins]

MCStarts == {Config(s1, a1, unpinned)}

MCConfigs ==
  MCStarts \cup {Config(s1, a2, unpinned), Config(s1, a2, pinned), Config(s2, a1, unpinned)}

MCClaims ==
  {(unpinned :> alone) @@ (pinned :> alone), (unpinned :> peered) @@ (pinned :> alone)}
=============================================================================
