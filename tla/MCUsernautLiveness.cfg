\* Liveness: u1 may leave, a client may delete g2 (g1 lists it, so g1 is
\* collected with it), one transient failure, which may be a GitLab
\* GetGroup error that panics in the finalizer of g1; every reconcile,
\* deletion and offboarding must still complete.
CONSTANTS
  g1 = g1  g2 = g2  u1 = u1  u2 = u2  b1 = b1  b2 = b2
  NoGroup = NoGroup  NoUser = NoUser
  Groups = {g1, g2}
  Users = {u1, u2}
  Backends = {b1, b2}
  BackendType <- MCBackendType
  SubGroups <- MCSubGroups
  GroupBackends <- MCGroupBackends
  Configurable = {g1, g2}
  InitMembers <- MCInitMembers
  InitAccounts <- MCInitAccounts
  InitTeams <- MCInitTeams
  EmailContains = {}
  PreloadFailed <- MCNoPreloadFailure
  DependsOn <- MCNoDependsOn
  CacheFaults = {}
  GroupsKeysScanned = TRUE
  PollFails = TRUE
  MaxFailures = 1
  MaxEdits = 0
  Leavers = {u1}
  Deletable = {g2}
SPECIFICATION Spec
PROPERTY EventuallyReady
PROPERTY DeletionCompletes
PROPERTY OffboardingCompletes
