\* Safety of the main configuration: nesting, promotion from the preload,
\* transient failures, one client write (a spec edit or the force-reconcile
\* label), one user leaving the directory and one staying, both groups
\* deletable, with a Snowflake and a GitLab backend; the whole system is
\* also checked against the abstract group-index specification.
CONSTANTS
  g1 = g1  g2 = g2  u1 = u1  u2 = u2  b1 = b1  b2 = b2
  NoGroup = NoGroup  NoUser = NoUser
  Groups = {g1, g2}
  Users = {u1, u2}
  Backends = {b1, b2}
  BackendType <- MCBackendType
  SubGroups <- MCSubGroups
  GroupBackends <- MCGroupBackends
  Configurable = {g1, g2}
  InitMembers <- MCInitMembers
  InitAccounts <- MCInitAccounts
  InitTeams <- MCInitTeams
  EmailContains = {}
  PreloadFailed <- MCNoPreloadFailure
  DependsOn <- MCNoDependsOn
  CacheFaults = {}
  GroupsKeysScanned = FALSE
  PollFails = FALSE
  MaxFailures = 1
  MaxEdits = 1
  Leavers = {u1}
  Deletable = {g1, g2}
SPECIFICATION Spec
INVARIANT TypeOK
INVARIANT ReverseIndexConsistent
INVARIANT AccountsRecorded
PROPERTY IndexSpec
