\* u1's email is contained in u2's; u1 leaves, u2 stays.  Offboarding
\* u1 must not touch u2's accounts or cache entry.
CONSTANTS
  g1 = g1  g2 = g2  u1 = u1  u2 = u2  b1 = b1  b2 = b2
  NoGroup = NoGroup  NoUser = NoUser
  Groups = {g1, g2}
  Users = {u1, u2}
  Backends = {b1, b2}
  BackendType <- MCBackendType
  SubGroups <- MCSubGroups
  GroupBackends <- MCGroupBackends
  Configurable = {g1, g2}
  InitMembers <- MCInitMembers
  InitAccounts <- MCInitAccounts
  InitTeams <- MCInitTeams
  EmailContains <- MCEmailContains
  PreloadFailed <- MCNoPreloadFailure
  DependsOn <- MCNoDependsOn
  CacheFaults = {}
  GroupsKeysScanned = TRUE
  PollFails = FALSE
  MaxFailures = 0
  MaxEdits = 0
  Leavers = {u1}
  Deletable = {}
SPECIFICATION Spec
PROPERTY OffboardingSparesActiveUsers
