SPECIFICATION MeshSpec
CONSTANTS
  n1 = n1
  n2 = n2
  Names = {n1, n2, n3}
  Addrs = {a1, a2, a3}
  NoAddr = none
  MaxSlaves = 2
  HealthGroup = "_cluster"
  HealthProbe = "_slave_health"
  Files <- MCFiles
  LongLabels = {"long"}
  MaxProbeInterval = 20
  MaxPingsPerCycle = 4
  MaxTraceRounds = 2
  ICMPPingSpacing = 4
  MinPingBudget = 1
INVARIANTS Inv OneView RebuildSeesChange
PROPERTIES ClaimsSettled ChangeAnnounced
