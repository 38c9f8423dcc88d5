---------------------------- MODULE UsernautState ----------------------------
(***************************************************************************)
(* State shared by the Group reconciler and the user offboarding job:     *)
(* the Group CRs in the API server, the LDAP directory, the four store    *)
(* views over the Redis cache (pkg/store) and the remote backends.        *)
(* A user is identified by one model value that stands for both the LDAP  *)
(* uid and the email the store is keyed by; a backend user id or team id  *)
(* is abstracted to the user or group it belongs to, since every backend  *)
(* holds at most one account per user and one team per transformed name. *)
(***************************************************************************)
EXTENDS Naturals, Sequences, FiniteSets, MemberExpansion

CONSTANTS
  Groups,          \* Group CR names = logical group names (one namespace)
  Users,           \* LDAP users (uid and email)
  Backends,        \* backend keys name_type of the enabled backends
  BackendType,     \* [Backends -> backend type]
  SubGroups,       \* [Groups -> SUBSET Groups]: spec.members.groups
  GroupBackends,   \* [Groups -> Seq(Backends)]: spec.backends, in order
  Configurable,    \* groups for which some backend's name pattern matches
  InitMembers,     \* [Groups -> SUBSET Users]: initial spec.members.users
  InitAccounts,    \* [Backends -> SUBSET Users]: accounts before startup
  InitTeams,       \* [Backends -> SUBSET Groups]: teams before startup
  EmailContains,   \* pairs <<a, b>>: email a occurs inside email b, a # b
  MaxFailures,     \* bound on transient remote failures in a behaviour
  MaxEdits,        \* bound on client updates: member edits, labels added
  Leavers,         \* users who may leave the directory
  Deletable,       \* groups a client may delete
  PreloadFailed,   \* backends whose startup preload of users/teams failed
  DependsOn,       \* [Backends -> SUBSET Backends]: depends_on (at most one)
  CacheFaults,     \* store calls of the index update that may fail
  GroupsKeysScanned, \* User.GetByPattern also returns user:groups: keys
  PollFails,       \* GitLab GetGroup in pollForPendingDeletion may fail
  NoGroup, NoUser  \* model values for "none"

ASSUME /\ \A g \in Groups : GroupBackends[g] \in Seq(Backends)
       /\ EmailContains \subseteq Users \X Users
       /\ MaxFailures \in Nat /\ MaxEdits \in Nat
       /\ PreloadFailed \subseteq Backends
       /\ Leavers \subseteq Users /\ Deletable \subseteq Groups
       /\ \A g \in Configurable : Len(GroupBackends[g]) > 0
       /\ \A b \in Backends : Cardinality(DependsOn[b]) <= 1
       /\ CacheFaults \subseteq {"GetMembers", "AddGroup", "RemoveGroup", "SetMembers"}
       /\ GroupsKeysScanned \in BOOLEAN /\ PollFails \in BOOLEAN

VARIABLES
  \* --- Group CRs (API server) ---
  exists,        \* CRs present
  deleting,      \* CRs with a deletion timestamp
  finalized,     \* CRs carrying groupFinalizer
  ownerRefs,     \* [Groups -> SUBSET Groups]: Group-kind owner references
  members,       \* [Groups -> SUBSET Users]: spec.members.users
  ready,         \* [Groups -> status of the Ready condition]
  deletedByUser, \* CRs deleted by a client (not by garbage collection)
  forceLabel,    \* CRs carrying the force-reconcile label
  \* --- LDAP ---
  active,        \* users the directory returns
  \* --- cache (pkg/store) ---
  userStore,     \* user:<email>   [Users -> SUBSET Backends]
  teamStore,     \* team:<name>    [Backends -> SUBSET Groups] (preload)
  groupStore,    \* group:<name>   [Groups -> [members, backends]]
  userGroups,    \* user:groups:<email> [Users -> SUBSET Groups]
  \* --- remote backends ---
  accounts,      \* [Backends -> SUBSET Users]
  teams,         \* [Backends -> SUBSET Groups]
  teamMembers,   \* [Backends -> [Groups -> SUBSET Users]]
  ldapLinked,    \* [Backends -> SUBSET Groups]: GitLab groups bound to an LDAP CN
  \* --- processes ---
  queue,         \* the controller's workqueue: groups with a pending request
  rec,           \* the reconcile worker
  off,           \* the offboarding job
  failures,      \* transient failures so far
  edits          \* client updates so far

crVars      == <<exists, deleting, finalized, ownerRefs, members, ready, deletedByUser,
                forceLabel>>
storeVars   == <<userStore, teamStore, groupStore, userGroups>>
backendVars == <<accounts, teams, teamMembers, ldapLinked>>
vars == <<crVars, active, storeVars, backendVars, queue, rec, off, failures, edits>>

ReadyValues == {"Unknown", "Waiting", "True", "False", "NonConfigurable"}

\* Backend types the offboarding job leaves alone (skippedBackendTypes).
\* Startup preload, FetchAllUsers of a backend: every page is listed and
\* every account returned, or any failed page returns an error and nothing.
FetchAllUsers(b) == IF b \in PreloadFailed THEN {} ELSE InitAccounts[b]

\* The GitLab FetchAllUsers of a backend with an LDAP dependant (users come
\* from the directory through Rover) lists no users at all.
PreloadedAccounts(b) ==
  IF BackendType[b] = "gitlab" /\ DependsOn[b] # {} THEN {} ELSE FetchAllUsers(b)

\* FetchAllTeams: every subgroup of the parent group, or an error and
\* nothing when a page fails.
FetchAllTeams(b) == IF b \in PreloadFailed THEN {} ELSE InitTeams[b]

SkippedTypes == {"gitlab", "rover"}

DeclaredBackends(g) == {GroupBackends[g][i] : i \in 1..Len(GroupBackends[g])}

EmptyGroupData == [members |-> {}, backends |-> {}]

\* The Group CRs as the reconciler's client.Get sees them.
VisibleCRs == [h \in exists |-> [users |-> members[h], groups |-> SubGroups[h]]]

\* A transient remote failure (HTTP error, timeout, open circuit) may occur
\* while the bound has not been reached; it is counted when it does.
CanFail == failures < MaxFailures
Fail == failures' = failures + 1

\* LDAPConn.executeSearch behind GetUserLDAPData (by uid) and
\* GetUserLDAPDataByEmail: the entry of a user the directory has; no entry
\* or "No Such Object" is ErrNoUserFound; a nil connection, a failed bind
\* or a failed search is an error (a transient failure).
LdapResults(u) ==
  (IF u \in active THEN {"found"} ELSE {"notFound"})
    \cup (IF CanFail THEN {"error"} ELSE {})

\* Users whose email pattern *e* the user store matches for email e.
PatternMatches(e) == {e} \cup {x \in Users : <<e, x>> \in EmailContains}

\* setupLdapSync: only a GitLab backend with a depends_on entry is put in
\* LDAP-sync mode; its team's members then follow the directory group.
LdapSyncApplies(b) == BackendType[b] = "gitlab" /\ DependsOn[b] # {}
=============================================================================
