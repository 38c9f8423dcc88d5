------------------------------- MODULE Usernaut -------------------------------
(***************************************************************************)
(* The operator as a whole: the Group reconciler and the offboarding job  *)
(* sharing the cache, its mutex and the backends, with the environment:   *)
(* clients editing and deleting Group CRs, the Kubernetes garbage         *)
(* collector following owner references, and users leaving LDAP.         *)
(***************************************************************************)
EXTENDS GroupReconciler, UserOffboarding

\* cmd startup: preloadCache fills the user and team views from every
\* backend whose FetchAllUsers/FetchAllTeams succeeded; the informer's
\* initial list delivers a create event, hence a request, for every Group.
Init ==
  /\ exists = Groups /\ deleting = {} /\ finalized = {}
  /\ ownerRefs = [g \in Groups |-> {}]
  /\ members = InitMembers
  /\ ready = [g \in Groups |-> "Unknown"]
  /\ deletedByUser = {} /\ forceLabel = {}
  /\ active = Users
  /\ userStore = [u \in Users |-> {b \in Backends : u \in PreloadedAccounts(b)}]
  /\ teamStore = [b \in Backends |-> FetchAllTeams(b)]
  /\ groupStore = [g \in Groups |-> EmptyGroupData]
  /\ userGroups = [u \in Users |-> {}]
  /\ accounts = InitAccounts
  /\ teams = InitTeams
  /\ teamMembers = [b \in Backends |-> [g \in Groups |-> {}]]
  /\ ldapLinked = [b \in Backends |-> {}]
  /\ queue = Groups
  /\ rec = IdleRec
  /\ off = IdleOff
  /\ failures = 0 /\ edits = 0

(***************************************************************************)
(* Environment.                                                            *)
(***************************************************************************)
\* A client changes spec.members.users (a generation change enqueues it).
EditMembers(g, us) ==
  /\ g \in exists \ deleting /\ edits < MaxEdits /\ us # members[g]
  /\ members' = [members EXCEPT ![g] = us]
  /\ edits' = edits + 1
  /\ Enqueue(g)
  /\ UNCHANGED <<exists, deleting, finalized, ownerRefs, ready, deletedByUser,
                 forceLabel, active, storeVars, backendVars, rec, off, failures>>

\* Deletion by the API server: a CR with a finalizer gets a deletion
\* timestamp, which also bumps its generation; one without is removed at
\* once, a delete event.  Either passes the event filter.
RemoveCR(g) ==
  /\ IF g \in finalized
       THEN deleting' = deleting \cup {g} /\ UNCHANGED <<exists, finalized>>
       ELSE exists' = exists \ {g} /\ UNCHANGED <<deleting, finalized>>
  /\ Enqueue(g)

\* A client deletes a Group CR.
DeleteGroup(g) ==
  /\ g \in Deletable /\ g \in exists \ deleting
  /\ RemoveCR(g)
  /\ deletedByUser' = deletedByUser \cup {g}
  /\ UNCHANGED <<ownerRefs, members, ready, forceLabel, active, storeVars, backendVars,
                 rec, off, failures, edits>>

\* The garbage collector deletes a dependent all of whose owners are gone.
GarbageCollect(g) ==
  /\ g \in exists \ deleting
  /\ ownerRefs[g] # {} /\ ownerRefs[g] \cap exists = {}
  /\ RemoveCR(g)
  /\ UNCHANGED <<ownerRefs, members, ready, deletedByUser, forceLabel, active, storeVars,
                 backendVars, rec, off, failures, edits>>

\* A client adds the force-reconcile label; CustomLabelKeyChangedPredicate
\* passes an update only when the label was absent before.
AddForceReconcileLabel(g) ==
  /\ g \in exists /\ g \notin forceLabel /\ edits < MaxEdits
  /\ forceLabel' = forceLabel \cup {g}
  /\ edits' = edits + 1
  /\ Enqueue(g)
  /\ UNCHANGED <<exists, deleting, finalized, ownerRefs, members, ready, deletedByUser,
                 active, storeVars, backendVars, rec, off, failures>>

\* A user leaves the directory.
Depart(u) ==
  /\ u \in Leavers /\ u \in active
  /\ active' = active \ {u}
  /\ UNCHANGED <<crVars, storeVars, backendVars, queue, rec, off, failures, edits>>

\* GitLab's LDAP group sync of a group linked to a CN (started by
\* CreateTeam, then periodic): the group gets the members of the directory
\* group, which the depends_on (Rover) backend maintains, and each of them
\* is provisioned in GitLab.
GitLabLdapSync(b, g) ==
  /\ g \in ldapLinked[b] /\ g \in teams[b]
  /\ LET synced == UNION {teamMembers[d][g] : d \in DependsOn[b]} \cap active
     IN  /\ teamMembers' = [teamMembers EXCEPT ![b][g] = synced]
         /\ accounts' = [accounts EXCEPT ![b] = @ \cup synced]
  /\ UNCHANGED <<crVars, active, storeVars, teams, ldapLinked, queue, rec, off,
                 failures, edits>>

EnvironmentNext ==
  \/ \E g \in Groups : \/ \E us \in SUBSET Users : EditMembers(g, us)
                       \/ DeleteGroup(g) \/ GarbageCollect(g)
                       \/ AddForceReconcileLabel(g)
  \/ \E u \in Users : Depart(u)
  \/ \E b \in Backends, g \in Groups : GitLabLdapSync(b, g)

Next == ReconcilerNext \/ OffboardingNext \/ EnvironmentNext

(***************************************************************************)
(* Fairness.  The single worker serves every queued request: a request   *)
(* that stays queued is eventually reconciled (strong fairness, since     *)
(* the worker may be busy with other groups whenever it looks).  The      *)
(* event filter (GenerationChangedPredicate or the label added) drops the *)
(* informer's periodic resync updates, so nothing else re-runs a group;   *)
(* a returned error keeps its request queued.  A started reconcile runs  *)
(* to its end.  The job runs on a timer; its lock-taking steps need the   *)
(* reconciler to be idle, which Go's RWMutex grants to waiting readers    *)
(* before the next writer (strong fairness).  GitLab repeats its LDAP     *)
(* group sync periodically (weak fairness); the rest of the environment   *)
(* is not required to act.                                                 *)
(***************************************************************************)
Fairness ==
  /\ \A g \in Groups : /\ SF_vars(StartReconcile(g)) /\ SF_vars(HandleDeletion(g))
                       /\ SF_vars(DropRequest(g))
  /\ WF_vars(ProcessTeam) /\ WF_vars(ProcessUsers)
  /\ WF_vars(ProcessMembers) /\ WF_vars(FinishReconcile)
  /\ SF_vars(OffStartRun) /\ SF_vars(OffReadUserData) /\ SF_vars(OffboardUser)
  /\ WF_vars(OffFinishRun)
  /\ \A u \in Users : WF_vars(OffCheckUser(u))
  /\ \A b \in Backends : WF_vars(OffDeleteUser(b))
  /\ \A b \in Backends, g \in Groups : WF_vars(GitLabLdapSync(b, g))

Spec == Init /\ [][Next]_vars /\ Fairness

(***************************************************************************)
(* Properties.                                                             *)
(***************************************************************************)
TypeOK ==
  /\ exists \subseteq Groups /\ deleting \subseteq exists
  /\ finalized \subseteq Groups /\ deletedByUser \subseteq Groups
  /\ forceLabel \subseteq Groups
  /\ ownerRefs \in [Groups -> SUBSET Groups]
  /\ members \in [Groups -> SUBSET Users]
  /\ ready \in [Groups -> ReadyValues]
  /\ active \subseteq Users
  /\ userStore \in [Users -> SUBSET Backends]
  /\ teamStore \in [Backends -> SUBSET Groups]
  /\ groupStore \in [Groups -> [members : SUBSET Users, backends : SUBSET Backends]]
  /\ userGroups \in [Users -> SUBSET Groups]
  /\ accounts \in [Backends -> SUBSET Users]
  /\ teams \in [Backends -> SUBSET Groups]
  /\ teamMembers \in [Backends -> [Groups -> SUBSET Users]]
  /\ ldapLinked \in [Backends -> SUBSET Groups]
  /\ queue \subseteq Groups
  /\ rec \in RecType /\ off \in OffType
  /\ failures \in 0..MaxFailures /\ edits \in 0..MaxEdits

\* The user:groups reverse index written by updateCacheIndexes and
\* cleanupUserGroupsIndex agrees with the members of every group entry,
\* across reconciles that fail, edits that shrink a group, and deletions.
ReverseIndexConsistent ==
  \A u \in Users, g \in Groups : u \in groupStore[g].members <=> g \in userGroups[u]

\* Every account the operator may later have to offboard (a backend the
\* job does not skip) is recorded in the user's cache entry: the reconciler
\* records each user it creates, and the job drops an entry only after all
\* its backend deletions succeeded.
AccountsRecorded ==
  \A b \in Backends : BackendType[b] \notin SkippedTypes =>
    \A u \in accounts[b] : b \in userStore[u]

\* Every team a backend has is known to the cache (by id in the group entry
\* or by name in the team view), so a reconcile or a deletion can find it.
TeamsRecorded ==
  \A b \in Backends : \A g \in teams[b] :
    b \in groupStore[g].backends \/ g \in teamStore[b]

\* The garbage collector only deletes a group that a deleted group listed
\* in members.groups (the parent owns its subgroups).
GroupsCollected == (Groups \ exists) \cup deleting
CascadeOnlyToSubgroups ==
  \A g \in GroupsCollected \ deletedByUser :
    \E p \in GroupsCollected : g \in SubGroups[p]

\* The job removes an account, a cache entry or a user:groups index entry
\* only of a user who has left the directory (the *email* pattern of
\* getUserDataFromCache may match other users' user: and user:groups: keys).
OffboardingSparesActiveUsers ==
  [][\A u \in Users :
       /\ (\E b \in Backends : u \in accounts[b] /\ u \notin accounts'[b]) => u \notin active
       /\ (userStore[u] # {} /\ userStore'[u] = {}) => u \notin active
       /\ (off' # off /\ userGroups'[u] # userGroups[u]) => u \notin active]_vars

\* A group is healthy when it is live, configurable and all groups it
\* includes exist; its desired members are the expanded users still in LDAP.
Healthy(g) ==
  /\ g \in exists \ deleting /\ g \in Configurable
  /\ ExpandMembers(g, VisibleCRs).ok
DesiredMembers(g) == ExpandMembers(g, VisibleCRs).users \cap active

\* Once the environment stops changing, every healthy group's team in every
\* backend of its spec exists with exactly the desired members, and the
\* group entry of the cache records them, despite transient failures and
\* users leaving the directory (spec section 6: the next reconcile trigger,
\* the periodic resync included, retries).
Convergence ==
  <>[](\A g \in Groups : Healthy(g) =>
         /\ \A b \in DeclaredBackends(g) :
              g \in teams[b] /\ teamMembers[b][g] = DesiredMembers(g)
         /\ groupStore[g].members = DesiredMembers(g))

\* A reconcile that failed is retried until it succeeds: once the
\* environment stops changing, every healthy group is Ready for good.
\* Only the error that updateStatusAndHandleErrors returns for a failed
\* backend brings the retry, since the event filter drops resyncs.
EventuallyReady == <>[](\A g \in Groups : Healthy(g) => ready[g] = "True")

\* A group being deleted is eventually gone (finalizer removed).
DeletionCompletes == \A g \in Groups : g \in deleting ~> g \notin exists

\* A user who left the directory eventually has no cache entry, so every
\* account of theirs the job handles has been deleted.
OffboardingCompletes == \A u \in Users : u \notin active ~> userStore[u] = {}

\* Refinement: the cache's group entries and user:groups index, as the
\* reconciler, handleDeletion and the offboarding job change them, behave
\* as GroupIndex.  updateCacheIndexes runs only after every backend of the
\* spec succeeded while the lock was held, so each team then holds exactly
\* the committed members (a GitLab team in LDAP-sync mode excepted: the
\* directory, not the reconciler, sets its members).  The job's DeleteUser calls run unlocked and may
\* fall in between, but only for a user LDAP reported gone before the
\* reconcile's own lookup, who is then not committed (exact email match).
\* handleDeletion clears the entry and the index.
Index == INSTANCE GroupIndex
           WITH Declared <- [g \in Groups |->
                               {b \in DeclaredBackends(g) : ~LdapSyncApplies(b)}],
                groupMembers <- [g \in Groups |-> groupStore[g].members],
                memberOf <- userGroups
IndexSpec == Index!Spec

\* A reconcile removes a user from a group's team only when that user is
\* no longer a desired member: not in the expanded spec, or gone from
\* LDAP (fetchLDAPData), or the group is being deleted.
TeamRemovalsOnlyOfUndesired ==
  [][\A b \in Backends, g \in Groups, u \in Users :
       u \in teamMembers[b][g] /\ u \notin teamMembers'[b][g] =>
         g \notin exists \ deleting \/ u \notin DesiredMembers(g)]_vars

\* After a failed store call of the index update or of handleDeletion's
\* cleanup, the user:groups index agrees for good with the entry of every
\* healthy group, and names no group that is gone: updateCacheIndexes adds
\* the group for every current member on the next successful reconcile,
\* if anything triggers one, and removes it for every member the
\* group entry lists but the reconcile does not; cleanupUserGroupsIndex
\* removes a deleted group for every member its entry lists.  (A group
\* whose subgroup is gone is not reconciled past setOwnerReference and
\* keeps what it had.)
GroupIndexed(g) == \A u \in Users : u \in groupStore[g].members <=> g \in userGroups[u]
IndexEventuallyConsistent ==
  <>[](\A g \in Groups : Healthy(g) \/ g \notin exists => GroupIndexed(g))
=============================================================================
