\* A client deletes g2, which g1 lists in members.groups; the garbage
\* collector must not delete g1 in consequence.
CONSTANTS
  g1 = g1  g2 = g2  u1 = u1  u2 = u2  b1 = b1  b2 = b2
  NoGroup = NoGroup  NoUser = NoUser
  Groups = {g1, g2}
  Users = {u1, u2}
  Backends = {b1, b2}
  BackendType <- MCBackendType
  SubGroups <- MCSubGroups
  GroupBackends <- MCGroupBackends
  Configurable = {g1, g2}
  InitMembers <- MCInitMembers
  InitAccounts <- MCInitAccounts
  InitTeams <- MCInitTeams
  EmailContains = {}
  PreloadFailed <- MCNoPreloadFailure
  DependsOn <- MCNoDependsOn
  CacheFaults = {}
  GroupsKeysScanned = FALSE
  PollFails = FALSE
  MaxFailures = 0
  MaxEdits = 0
  Leavers = {}
  Deletable = {g2}
SPECIFICATION Spec
INVARIANT CascadeOnlyToSubgroups
