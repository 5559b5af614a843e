----------------------------- MODULE ConfigGate -----------------------------
(* Which configs a store takes: Validate (internal/config/config.go) and the  *)
(* validator the alert evaluator adds (ValidateConditions).  A config is a    *)
(* record                                                                     *)
(*   source, token    the cluster block: its label, and whether it is armed   *)
(*   hops, alerts     health_hops and health_alerts                           *)
(*   shape            [interval, pings, probes], probes a function to         *)
(*                    [type, no_trace, insecure]                              *)
(*   groups           of [group, targets], a target being                     *)
(*                    [name, host, probe, slaves, alerts]                     *)
(*   defined, actions alert -> [parses, sustained, actions]; names of actions *)
(* Storage, formats and families are left out.                                *)
EXTENDS Schedule, Sequences, SequencesExt

CONSTANTS
  HealthGroup,   \* config.ReservedGroup
  HealthProbe,   \* config.ReservedProbe
  LongLabels     \* names longer than MaxLabelLen

ProbeTypes == {"icmp", "tcp", "http", "dns", "mtr"}

TypesIn(probes) == {probes[p].type : p \in DOMAIN probes}

(* The master adds the mesh's icmp probe when it builds, so its schedule must *)
(* fit that one too.                                                          *)
Scheduled(c) == TypesIn(c.shape.probes) \cup (IF c.token THEN {"icmp"} ELSE {})

KnobsAreRead(probes) ==
  \A p \in DOMAIN probes :
    /\ probes[p].no_trace => probes[p].type = "icmp"
    /\ probes[p].insecure => probes[p].type = "http"

Label(name) == name # "" /\ name \notin LongLabels

(* Where a config's targets stand. *)
RefsIn(groups) == UNION {{i} \X DOMAIN groups[i].targets : i \in DOMAIN groups}
IDAt(groups, ref) == <<groups[ref[1]].group, groups[ref[1]].targets[ref[2]].name>>
NoDuplicate(groups) ==
  \A r, s \in RefsIn(groups) : IDAt(groups, r) = IDAt(groups, s) => r = s

ValidTarget(c, t) ==
  /\ Label(t.name) /\ Label(t.probe)
  /\ t.probe \in DOMAIN c.shape.probes
  /\ t.host # ""
  /\ ToSet(t.alerts) \subseteq DOMAIN c.defined

ValidAlert(c, a) == a.parses /\ a.sustained > 0 /\ a.actions \subseteq c.actions

(* The type of a probe is Build's to refuse.  The pins are the registry's     *)
(* pin table, whose addresses ParsedSlaveAddrs keeps distinct.                *)
Validate(c) ==
  /\ ValidSchedule(c.shape.interval, c.shape.pings, Scheduled(c))
  /\ HealthProbe \notin DOMAIN c.shape.probes
  /\ KnobsAreRead(c.shape.probes)
  /\ \A i \in DOMAIN c.groups :
       /\ Label(c.groups[i].group) /\ c.groups[i].group # HealthGroup
       /\ \A j \in DOMAIN c.groups[i].targets : ValidTarget(c, c.groups[i].targets[j])
  /\ NoDuplicate(c.groups)
  /\ \A name \in DOMAIN c.defined : ValidAlert(c, c.defined[name])
  /\ c.source \notin LongLabels
  /\ ToSet(c.alerts) \subseteq DOMAIN c.defined

(* probe.Build, of the probes of a node's view. *)
Built(interval, pings, probes) ==
  /\ ValidSchedule(interval, pings, TypesIn(probes))
  /\ TypesIn(probes) \subseteq ProbeTypes
=============================================================================
