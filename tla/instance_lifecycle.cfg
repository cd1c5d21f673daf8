SPECIFICATION FairSpec
CONSTANTS
  Environments = {{"delete", "replace"}, {"crash", "replace"}, {"crash", "delete", "loseCluster"},
                  {"delete", "rebuild"}, {"delete", "reroute", "withdraw"}, {"delete", "foreign"},
                  {"delete", "jobFails", "apiFails", "platformFails"}, {"reroute", "loseCluster"}}
  Topologies = {"crc", "hypershift"}
  MaxCrashes = 1
  MaxUID = 2
  MaxGen = 2
  MaxHC = 2
INVARIANTS TypeOK ReadyServesItsVMI AgentHasItsKeys DiskNotPulled NothingLeftCRC  EndpointFirst ReadyServesItsCluster NothingLeftHCP
PROPERTIES EndpointStable ImplementsLifecycle Recovers ReadyWithdrawn  DeletionEnds
CHECK_DEADLOCK FALSE
