\* Two backends the job deletes from (Snowflake and Fivetran) and one
\* transient failure: a departed user's cache entry must still go.
CONSTANTS
  g1 = g1  g2 = g2  u1 = u1  u2 = u2  b1 = b1  b2 = b2
  NoGroup = NoGroup  NoUser = NoUser
  Groups = {g1, g2}
  Users = {u1, u2}
  Backends = {b1, b2}
  BackendType <- MCBackendTypeDeletable
  SubGroups <- MCSubGroups
  GroupBackends <- MCGroupBackends
  Configurable = {g1, g2}
  InitMembers <- MCInitMembers
  InitAccounts <- MCInitAccounts
  InitTeams <- MCInitTeams
  EmailContains = {}
  PreloadFailed <- MCNoPreloadFailure
  DependsOn <- MCNoDependsOn
  CacheFaults = {}
  GroupsKeysScanned = FALSE
  PollFails = FALSE
  MaxFailures = 1
  MaxEdits = 0
  Leavers = {u1}
  Deletable = {}
SPECIFICATION Spec
PROPERTY OffboardingCompletes
