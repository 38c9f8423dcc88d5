\* GitLab in LDAP-sync mode behind a Rover backend it depends on, listed
\* before Rover in g1's spec; g2 may be deleted; nobody leaves the
\* directory (see MCNoResync.cfg) and no transient failures.
CONSTANTS
  g1 = g1  g2 = g2  u1 = u1  u2 = u2  b1 = b1  b2 = b2
  NoGroup = NoGroup  NoUser = NoUser
  Groups = {g1, g2}
  Users = {u1, u2}
  Backends = {b1, b2}
  BackendType <- MCBackendTypeLdap
  SubGroups <- MCSubGroups
  GroupBackends <- MCGroupBackendsLdap
  Configurable = {g1, g2}
  InitMembers <- MCInitMembers
  InitAccounts <- MCInitAccounts
  InitTeams <- MCInitTeams
  EmailContains = {}
  PreloadFailed <- MCNoPreloadFailure
  DependsOn <- MCDependsOnRover
  CacheFaults = {}
  GroupsKeysScanned = FALSE
  PollFails = FALSE
  MaxFailures = 0
  MaxEdits = 0
  Leavers = {}
  Deletable = {g2}
SPECIFICATION Spec
PROPERTY Convergence
