----------------------------- MODULE ClusterMesh -----------------------------
(* Who probes what in a cluster: from the stored config and the registry's    *)
(* peers (SlaveRegistry) the master derives its own targets, each slave's     *)
(* config, the targets it accepts cycles for and the list its API shows       *)
(* (internal/cluster/master/config.go and inbound.go, internal/slavehealth,   *)
(* internal/cluster/slave/configshim.go, internal/api/api.go), and            *)
(* fingerprints that decide whether a scheduler is rebuilt                    *)
(* (internal/scheduler/fingerprint.go, slavehealth.go).  All of these are     *)
(* functions of a config c and a peering p, so the steps are the registry's   *)
(* and the reloads.                                                           *)
EXTENDS SlaveRegistry, ConfigGate, Listing

CONSTANT Files   \* what the config file may hold, but for the pins (see ConfigGate)

(* ValidSlaveName and the master's own label keep slaves and master apart,    *)
(* and a slave's name is a label; so are the reserved ones.                   *)
ASSUME MeshAssumption ==
  /\ \A c \in Files : c.source \notin Names
  /\ "" \notin Names
  /\ (Names \cup {HealthGroup, HealthProbe}) \cap LongLabels = {}

(* What a file is read into (ConfigGate). *)
IsList(s) == s \in Seq(ToSet(s))
IsTarget(t) ==
  /\ t = [name |-> t.name, host |-> t.host, probe |-> t.probe, slaves |-> t.slaves, alerts |-> t.alerts]
  /\ IsList(t.slaves) /\ IsList(t.alerts)
IsGroup(g) ==
  /\ g = [group |-> g.group, targets |-> g.targets]
  /\ IsList(g.targets) /\ \A j \in DOMAIN g.targets : IsTarget(g.targets[j])
IsGroups(groups) == IsList(groups) /\ \A i \in DOMAIN groups : IsGroup(groups[i])

ASSUME FilesAssumption == \A c \in Files : IsGroups(c.groups) /\ IsList(c.alerts)

VARIABLE config   \* the Store's current config

meshVars == <<vars, config>>

(* What NewSet takes from the registry: the peers and their addresses. *)
Peering == [n \in Peers |-> slaves[n]]

(* The configs Load and the validators let through. *)
Configs == {c \in Files : Validate(c)}

-----------------------------------------------------------------------------
(* The groups with the targets at some places, without those that keep none.  *)
Kept(groups, refs) ==
  LET narrowed == [i \in DOMAIN groups |->
        [group |-> groups[i].group,
         targets |-> Picked(groups[i].targets, {j \in DOMAIN groups[i].targets : <<i, j>> \in refs})]]
  IN  Picked(narrowed, {i \in DOMAIN groups : narrowed[i].targets # <<>>})

(* The groups that keep some target, each target rendered by As. *)
Rendered(groups, As(_)) ==
  [i \in DOMAIN groups |->
     [group |-> groups[i].group,
      targets |-> [j \in DOMAIN groups[i].targets |-> As(groups[i].targets[j])]]]
Filtered(groups, Keep(_), As(_)) ==
  Kept(Rendered(groups, As), {r \in RefsIn(groups) : Keep(groups[r[1]].targets[r[2]])})

AsIs(t) == t

(* Set.Probe: the health group without one peer; no group when it is empty. *)
HealthTarget(c, p, n) ==
  [name |-> n, host |-> p[n], probe |-> HealthProbe, slaves |-> <<>>, alerts |-> c.alerts]
HealthTargets(c, p, exclude) ==
  LET peers == SetToSeq(DOMAIN p \ {exclude})
  IN  IF peers = <<>> THEN <<>>
      ELSE <<[group |-> HealthGroup, targets |-> [i \in DOMAIN peers |-> HealthTarget(c, p, peers[i])]]>>

(* ProbeDef: the synthesized probe is an icmp probe, with or without a walk.  *)
ProbeDef(c, health) == IF health = <<>> THEN <<>> ELSE <<IF c.hops THEN "trace" ELSE "no_trace">>

(* The probe map of a node's view. *)
ProbesOf(view) ==
  IF view.health = <<>> THEN view.shape.probes
  ELSE [p \in DOMAIN view.shape.probes \cup {HealthProbe} |->
          IF p = HealthProbe
          THEN [type |-> "icmp", no_trace |-> view.health # <<"trace">>, insecure |-> FALSE]
          ELSE view.shape.probes[p]]

-----------------------------------------------------------------------------
(* What a scheduler is built from, at the master ... *)
LocalTargets(c, p) ==
  LET health == HealthTargets(c, p, "")
  IN  [source |-> c.source, shape |-> c.shape, health |-> ProbeDef(c, health),
       groups |-> Filtered(c.groups, LAMBDA t : t.slaves = <<>>, AsIs) \o health]

(* ... and at a slave: what the master ships, less the slave's own entry of   *)
(* the health group.                                                          *)
TargetVisibleToSlave(t, n) == t.slaves = <<>> \/ n \in ToSet(t.slaves)
SanitizeTarget(t) == [t EXCEPT !.slaves = <<>>, !.alerts = <<>>]

BuildClusterConfig(c, p, n) ==
  LET health == HealthTargets(c, p, n)
  IN  [shape |-> c.shape, health |-> ProbeDef(c, health),
       groups |-> Filtered(c.groups, LAMBDA t : TargetVisibleToSlave(t, n), SanitizeTarget)
                    \o Filtered(health, LAMBDA t : TRUE, SanitizeTarget)]

DropSelfFromHealthGroup(groups, n) ==
  Kept(groups, {r \in RefsIn(groups) : IDAt(groups, r) # <<HealthGroup, n>>})

BuildShim(c, p, n) ==
  LET resp == BuildClusterConfig(c, p, n)
  IN  [source |-> n, shape |-> resp.shape, health |-> resp.health,
       groups |-> DropSelfFromHealthGroup(resp.groups, n)]

-----------------------------------------------------------------------------
(* Fingerprint: fields and separators one after the other.  EscapeSeparators  *)
(* keeps the two apart, so a field is a symbol of its own.                    *)
Field(s) == <<<<"field", s>>>>
Mark(level) == <<<<"mark", level>>>>
FieldsOf(seq) == FlattenSeq([i \in DOMAIN seq |-> Field(seq[i])])

(* The two lists are delimited.  (A definition named X_Y is X with the        *)
(* mistake Y; no behaviour uses it.)                                          *)
TargetFields_Undelimited(t) ==
  Field(t.name) \o Field(t.probe) \o Field(t.host) \o FieldsOf(t.slaves)
    \o FieldsOf(t.alerts) \o Mark("entry")
TargetFields(t) ==
  Field(t.name) \o Field(t.probe) \o Field(t.host) \o FieldsOf(t.slaves)
    \o Mark("list") \o FieldsOf(t.alerts) \o Mark("entry")

GroupFields(g) ==
  Field(g.group) \o FlattenSeq([i \in DOMAIN g.targets |-> TargetFields(g.targets[i])])
    \o Mark("block")

Fingerprint(view) ==
  Field(view.shape) \o Mark("block") \o Field(view.source) \o Mark("block")
    \o FieldsOf(view.health) \o Mark("block")
    \o FlattenSeq([i \in DOMAIN view.groups |-> GroupFields(view.groups[i])])

(* Set.Fingerprint: membership and alert names. *)
HealthFingerprint(c, p) ==
  LET peers == SetToSeq(DOMAIN p)
  IN  FlattenSeq([i \in DOMAIN peers |-> Field(peers[i]) \o Field(p[peers[i]]) \o Mark("entry")])
        \o Mark("block") \o FlattenSeq([i \in DOMAIN c.alerts |-> Field(c.alerts[i]) \o Mark("entry")])

(* LifecycleOptions.fingerprint: the master's is taken of the stored config,  *)
(* where the health group and its probe are not.                              *)
Stored(c) == [source |-> c.source, shape |-> c.shape, health |-> <<>>, groups |-> c.groups]
MasterFingerprint(c, p) ==
  Fingerprint(Stored(c)) \o Mark("block") \o HealthFingerprint(c, p)

-----------------------------------------------------------------------------
(* The API's list. *)
AllTargets(groups) ==
  UNION {{[group |-> groups[i].group, target |-> groups[i].targets[j]] :
            j \in DOMAIN groups[i].targets} : i \in DOMAIN groups}

Public ==
  {[group |-> HealthGroup, target |-> [HealthTarget(config, Peering, n) EXCEPT !.host = NoAddr]] : n \in Peers}

ListTargets == AllTargets(config.groups) \cup Public

Registered == DOMAIN slaves

EffectiveSources(t) ==
  IF t.slaves = <<>> THEN {config.source} \cup Registered ELSE Registered \cap ToSet(t.slaves)

HealthSources(n) == {config.source} \cup (Registered \ {n})

SourcesFor(ref) ==
  IF ref.group = HealthGroup THEN HealthSources(ref.target.name)
  ELSE EffectiveSources(ref.target)

(* ingestBatch: the targets a slave's cycle is looked up in. *)
IngestTargets_Stored == AllTargets(config.groups)
IngestTargets == AllTargets(config.groups) \cup AllTargets(HealthTargets(config, Peering, ""))

-----------------------------------------------------------------------------
(* The cluster's endpoints and its mesh exist if the config had a token at    *)
(* boot, whatever later ones have.                                            *)
MeshInit == Init /\ config \in {c \in Configs : c.token}

(* BearerAuth admits nobody while the config has no token; the sweep runs on. *)
RegistryStep ==
  /\ \/ config.token /\ \E n \in Names, claim \in Claims : Touch(n, claim)
     \/ \E S \in SUBSET Names : Sweep(S)
  /\ UNCHANGED config

(* Store.Reload publishes another config, pins and all; one that does not     *)
(* load leaves the last good one.                                             *)
Reload ==
  /\ EditPins
  /\ config' \in Configs

MeshNext == RegistryStep \/ Reload
MeshSpec == MeshInit /\ [][MeshNext]_meshVars

-----------------------------------------------------------------------------
ID(ref) == <<ref.group, ref.target.name>>
IDs(refs) == {ID(r) : r \in refs}

Nodes == {config.source} \cup Registered

(* What a node that has caught up is built from, and probes. *)
ViewOf(node) ==
  IF node = config.source THEN LocalTargets(config, Peering)
  ELSE BuildShim(config, Peering, node)

Runs(node) == AllTargets(ViewOf(node).groups)

(* A view builds, with the probe each of its targets was given, no two of one *)
(* identity, alerts that are defined, and names that ingest takes back.       *)
Runnable(view) ==
  /\ Built(view.shape.interval, view.shape.pings, ProbesOf(view))
  /\ NoDuplicate(view.groups)
  /\ \A ref \in AllTargets(view.groups) :
       /\ ref.target.probe \in DOMAIN ProbesOf(view)
       /\ ref.group = HealthGroup
            \/ ProbesOf(view)[ref.target.probe] = config.shape.probes[ref.target.probe]
       /\ ToSet(ref.target.alerts) \subseteq DOMAIN config.defined
       /\ {ref.group, ref.target.name, ref.target.probe} \cap LongLabels = {}

(* One view of the cluster: every target is probed by exactly the nodes the   *)
(* API names for it, so no node probes itself or is waited for in vain; every *)
(* cycle a node may send finds its target at ingest; and a target carries the *)
(* same alerts whether the master probed it, a slave did or the API lists it  *)
(* (config.go lines 28 to 84 and 118 to 148, inbound.go lines 40 to 64,       *)
(* api.go lines 294 to 402).  And whatever was accepted while the cluster is  *)
(* armed can be run by every node, whoever joins the mesh, but for the types  *)
(* of the probes, which only Build looks at (internal/config/config.go lines  *)
(* 835 to 1015, probe.go lines 98 to 138).                                    *)
OneView ==
  /\ \A ref \in ListTargets :
       {n \in Nodes : ID(ref) \in IDs(Runs(n))} = SourcesFor(ref)
  /\ \A n \in Nodes : IDs(Runs(n)) \subseteq IDs(ListTargets) \cap IDs(IngestTargets)
  /\ \A ref \in ListTargets, other \in IngestTargets \cup Runs(config.source) :
       ID(ref) = ID(other) => ref.target.alerts = other.target.alerts
  /\ config.token /\ TypesIn(config.shape.probes) \subseteq ProbeTypes =>
       \A n \in Nodes : Runnable(ViewOf(n))

(* Every config and peering there may be at another moment. *)
Moments == Configs \X {p \in UNION {[S -> Addrs] : S \in SUBSET Names} :
                         \A m, n \in DOMAIN p : p[m] = p[n] => m = n}
MasterKeys == {<<m[1].hops, LocalTargets(m[1], m[2]), MasterFingerprint(m[1], m[2])>> : m \in Moments}
SlaveKeys(n) == {<<BuildShim(m[1], m[2], n), Fingerprint(BuildShim(m[1], m[2], n))>> : m \in Moments}
AllSlaveKeys == [n \in Names |-> SlaveKeys(n)]

(* Whatever the cluster may change to, a change of what a node's scheduler is *)
(* to run changes its fingerprint, so the next wakeup rebuilds it             *)
(* (fingerprint.go lines 10 to 36, slavehealth.go lines 163 to 181).          *)
(* cluster.health_hops alone is another matter: see HealthHopsRebuild.        *)
RebuildSeesChange ==
  /\ LET local == LocalTargets(config, Peering)
         fp == MasterFingerprint(config, Peering)
     IN  \A k \in MasterKeys : k[1] = config.hops /\ k[3] = fp => k[2] = local
  /\ \A n \in Registered :
       LET shim == BuildShim(config, Peering, n)
           fp == Fingerprint(shim)
       IN  \A k \in AllSlaveKeys[n] : k[2] = fp => k[1] = shim

(* fingerprint.go lines 68 to 71 say that hashing NoTrace makes an edit of    *)
(* cluster.health_hops take effect at the reload instead of at the next       *)
(* restart; the master's own fingerprint is taken of the stored config, where *)
(* the health probe is not.                                                   *)
HealthHopsRebuild ==
  [][LocalTargets(config', Peering').health # LocalTargets(config, Peering).health /\ Peering' = Peering
       => MasterFingerprint(config', Peering') # MasterFingerprint(config, Peering)]_meshVars
=============================================================================
