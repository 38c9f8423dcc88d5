\* The GitLab preload failed while u1 and g1's team already exist there:
\* the reconciler must still converge.
CONSTANTS
  g1 = g1  g2 = g2  u1 = u1  u2 = u2  b1 = b1  b2 = b2
  NoGroup = NoGroup  NoUser = NoUser
  Groups = {g1, g2}
  Users = {u1, u2}
  Backends = {b1, b2}
  BackendType <- MCBackendType
  SubGroups <- MCSubGroups
  GroupBackends <- MCGroupBackends
  Configurable = {g1, g2}
  InitMembers <- MCInitMembers
  InitAccounts <- MCInitAccountsGitlab
  InitTeams <- MCInitTeamsGitlab
  EmailContains = {}
  PreloadFailed <- MCGitlabPreloadFailure
  DependsOn <- MCNoDependsOn
  CacheFaults = {}
  GroupsKeysScanned = FALSE
  PollFails = FALSE
  MaxFailures = 0
  MaxEdits = 0
  Leavers = {}
  Deletable = {}
SPECIFICATION Spec
PROPERTY Convergence
