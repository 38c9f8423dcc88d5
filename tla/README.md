# TLA+ models of usernaut

This directory holds TLA+ models of the usernaut operator, the TLC
configurations that check them, and `PROJECT.json`. `PROJECT.json` lists:
- the components;
- the runs and their mutants;
- the source lines each definition models;
- the findings;
- the hazards.

Every definition is translated from the Go source under `src/`. A comment names
the function each definition comes from, and `PROJECT.json` gives the lines.

## 1. The system

usernaut is a Kubernetes operator. A `Group` custom resource declares:
- users;
- nested groups (`spec.members.groups`);
- an ordered list of backends (GitLab, Snowflake, Fivetran, Rover, ...).

The operator makes each backend hold a team with exactly the group's members.

| Part (spec §2) | Source | State it keeps | Operations that change state |
|---|---|---|---|
| C1 Cache | `pkg/cache/redis/cache.go` | Redis key → string | Set, Delete, GetByPattern (SCAN + MGET) |
| C2 Store layer | `pkg/store/interfaces.go`, `store.go` (implementations not in `src/`) | views `user:` email → {backend → id}; `team:` name → {backend → id}; `group:` name → {members, backends}; `user:groups:` email → groups | SetBackend, Delete, SetMembers, AddGroup, RemoveGroup |
| C3 LDAP resolver | `pkg/clients/snowflake/users.go` 279-383 (LDAP client merged into that file), `unnamed/part_003` | none (connection) | none. Lookups by uid and by email; no entry and NoSuchObject both become `ErrNoUserFound` |
| C4 Backend adapters | `pkg/clients/gitlab/*.go`, `pkg/clients/snowflake/users.go` | remote accounts, teams, memberships | CreateUser, DeleteUser, CreateTeam, DeleteTeamByID, Add/RemoveUserFromTeam |
| C5 Name transformer | not in `src/` | none | pure |
| C6 Preloader | not in `src/` | fills `user:` and `team:` at startup | FetchAllUsers/Teams → Set |
| C7 Group reconciler | `internal/controller/group_controller.go` | CR finalizer, owner refs, status | Reconcile, handleDeletion |
| C8 Offboarding job | `internal/controller/periodicjobs/job_usernaut_offboarding.go` | none of its own | Run: scan, LDAP check, DeleteUser, User.Delete |
| C9 Cache mutex | `CacheMutex` (`sync.RWMutex`) shared by C7 and C8 | lock state | Lock/RLock |

How the parts interact:
- **Reconciler and offboarding job.** They share the cache, the backends and
  one `RWMutex`:
  - the reconciler holds it exclusively from its LDAP fetch to the end of the
    index update, and again for the whole of a deletion;
  - the job takes it shared to list keys and to read one user's entry, and
    exclusively to delete that entry;
  - the job's LDAP queries and backend `DeleteUser` calls run without the lock,
    between the reconciler's steps.
- **Single reconcile worker.** `SetupWithManager` (871-919) does not set
  `MaxConcurrentReconciles`, so one worker reconciles at a time.
- **Reconcile triggers.** `SetupWithManager` filters events with
  `predicate.Or(GenerationChangedPredicate, ForceReconcilePredicate)`. A
  request for a group is queued by:
  - the informer's initial list (startup);
  - a generation change: a spec edit, or the deletion timestamp;
  - a delete event;
  - the force-reconcile label being added;
  - through `mapFunc`, the same events on a group it lists in
    `members.groups`;
  - an error returned by `Reconcile` (requeue with backoff).

  The informer's periodic resync delivers updates with an unchanged
  generation, and the filter drops them. A successful `Reconcile` asks for no
  requeue. Nothing re-runs a group after a directory departure (finding
  no_resync).
- **Owner references and garbage collection.** `setOwnerReference` makes every
  group listed in `members.groups` an owner of the listing group. The
  Kubernetes garbage collector deletes a group whose owners are all gone.

### What is hard

- **Offboarding between reconciler steps.** The job runs unlocked between the
  reconciler's backend steps. It deletes the account of whichever cache entry
  first matches `*email*`.
- **Partial failure inside a reconcile.** A reconcile can fail at any backend,
  at any of three calls: team, users or members. The failure leaves accounts
  created and memberships half-applied. The index update is then skipped.
- **Deletion.** It is best effort across backends. The group entry that holds
  the team ids is deleted even when a team deletion failed.
- **Preload.** It may fail per backend. Backends differ in whether CreateUser,
  CreateTeam and DeleteUser are idempotent.
- **Liveness.** A group is reconciled again only when a request is queued,
  and the job runs on every period. Retries, deletion and offboarding are
  therefore liveness properties under fairness of the queue and the timer.

### What makes each part correct

- **Reconciler:**
  - the reverse index agrees with group members;
  - every account in an offboardable backend is recorded in the cache;
  - every backend team is known to the cache;
  - teams converge to the expanded members that are active in LDAP;
  - deletion completes;
  - the cascade follows the spec's ownership.
- **Member expansion:** equals the union of users over the groups reachable
  through `members.groups`, or an error when one of them is missing.
- **Offboarding job:**
  - only departed users lose accounts or cache entries;
  - a departed user's entry is eventually removed.

## 2. Modules

In build order:

| Module | Models | Composes |
|---|---|---|
| `MemberExpansion` | `fetchUniqueGroupMembers` and `deduplicateMembers` as a RECURSIVE operator, plus a reference definition by graph reachability (`Graphs!Descendants`) | — |
| `MCMemberExpansion` | checks the expansion against the reference for every configuration of 3 CRs | MemberExpansion |
| `UsernautState` | constants, the variables of all parts, shared helpers | MemberExpansion |
| `GroupReconciler` | C7 with C9 for the reconciler side | UsernautState |
| `UserOffboarding` | C8 with C9 for the job side | UsernautState |
| `GroupIndex` | the abstract promise of the group entries and the `user:groups:` index: they change only together, to a membership all of the group's (non-LDAP-synced) backend teams have at that moment, or are cleared | — |
| `Usernaut` | Init (startup preload, C6), the environment, Next, fairness, properties, and the refinement mapping to `GroupIndex` | GroupReconciler, UserOffboarding, GroupIndex |
| `MCUsernaut` | constants for TLC | Usernaut |

### State

| Variable | Code |
|---|---|
| `exists`, `deleting`, `finalized`, `ownerRefs`, `members`, `ready` | the Group CRs in the API server |
| `active` | the users LDAP returns |
| `userStore` | `user:<email>`, as the set of backends with an id |
| `teamStore` | `team:<name>`, the preload |
| `groupStore` | `group:<name>` |
| `userGroups` | `user:groups:<email>` |
| `accounts`, `teams`, `teamMembers` | the remote backends |
| `ldapLinked` | the GitLab groups with an LDAP group link (`AddGroupLDAPLink`) |
| `forceLabel` | the CRs carrying the force-reconcile label |
| `queue` | the controller's workqueue: the groups with a pending request |
| `rec` | the reconcile worker; `phase = "backends"` means it holds the mutex exclusively |
| `off` | the job's position in `Run` |

A user is one model value standing for both uid and email. An id is abstracted
to the user or group it belongs to.

### Actions

Reconciler (each action serves a request for a group in `queue`):
- `DropRequest(g)`: the Get finds no CR; `IgnoreNotFound` returns nil.
- `StartReconcile(g)` covers everything from the start of `Reconcile` to the
  LDAP fetch. An error return (a missing owner group, a failed expansion)
  leaves the request queued; the NonConfigurable return and entering the
  locked region take it off:
  - the finalizer;
  - `setOwnerReference` (a missing group returns);
  - `Waiting`;
  - `isGroupConfigurable`;
  - the expansion (a Get error returns);
  - the lock;
  - `fetchLDAPData`: each lookup is found, not found or an error
    (`LdapResults`, from `executeSearch`), and both of the last two drop the
    user.

  Everything before the lock touches only the CR, so merging it into one step
  loses no interleaving with the job.
- `ProcessTeam`, `ProcessUsers` and `ProcessMembers` are the three stages of
  `processSingleBackend` for the current backend:
  - `fetchOrCreateTeam`;
  - `createUsersInBackendAndCache`;
  - fetching members, `processUsers`, then `AddUserToTeam` and
    `RemoveUserFromTeam`.

  A failure records the backend in `rec.errors` and moves on to the next
  backend. The exception is GitLab `CreateTeam` for a group that already
  exists but is not recorded (`CreateTeamConflictPanics`): it logs the name
  of the nil group the failed call returned and panics. The panic ends the
  whole reconcile, so no later backend, index update, label or status runs;
  the recovered panic is an error and requeues the group.

  For a GitLab backend with a `depends_on` (`LdapSyncApplies`), `ProcessTeam`
  first runs `setupLdapSync`. The dependant must be recorded in `group:` or
  `team:` and declared in the same spec (`LdapDependantPresent`), or the
  backend fails. In this mode:
  - `CreateTeam` creates the group and then links it to LDAP and requests a
    sync (`AddToLdapGroup`). If that fails, the group exists but no id is
    returned;
  - `CreateUser` only fetches an existing account and, for a user without
    one, returns a placeholder id with no error; the user is recorded all
    the same;
  - `ProcessMembers` skips `AddUserToTeam` and `RemoveUserFromTeam`.
- `FinishReconcile` runs `updateCacheIndexes` only when no backend failed,
  then steps 4 and 5 on the `groupCR` fetched when the reconcile started:
  `RemoveForceReconcileLabel` updates it only if that object had the label
  (`rec.forced`), and `UpdateStatusAndHandleErrors` sets `Ready`. A client
  write to the Group since the start (a spec edit, the label, the deletion
  timestamp) makes that object stale (`StaleGroupCR`). The label `Update` or
  the `Status().Update` then fails and its error is returned, so the label
  stays and `Ready` is not written. A failed backend also makes
  `updateStatusAndHandleErrors` return an error. Either error requeues the
  request (`ReturnError`). `UpdateCacheIndexes` takes at most one
  failing store call from `IndexFaults`:
  - `GetMembers`, whose error is taken as no previous members;
  - `AddGroup` or `RemoveGroup` for one user, whose error is only collected;
  - `SetMembers`, whose error returns.

  The caller only logs these errors, so the reconcile still succeeds and is
  not repeated.
- `HandleDeletion(g)` runs, under the lock:
  - `handleDeletion`;
  - `cleanupUserGroupsIndex`;
  - `deleteBackendsTeam`, which walks `spec.backends` in order: each recorded
    team is deleted (`DeleteTeamByID`), then the `team:` entry, and after
    the loop the group entry (`Group.Delete`).

  `DeleteOutcomes` lists the outcomes of a deletion. Any backend may delete
  or fail. GitLab's soft delete, poll and hard delete add "gone": the poll
  is answered 404, so the group is gone but the hard delete of the empty
  path fails. With `PollFails`, another `GetGroup` error makes
  `pollForPendingDeletion` dereference a nil response or group
  (`teams.go` 212-219). The panic ends the walk at that backend, whose
  group stays marked for deletion. The deferred `Unlock` runs, and the
  panic is returned as an error, so neither `Team.Delete` of the later
  backends nor `Group.Delete` runs.

  The finalizer stays when a team deletion failed or the walk panicked; the
  returned error keeps the request queued. Once the finalizer is removed the CR is deleted,
  and its delete event queues the groups that list it (`Enqueue`). A failed
  `GetMembers` in `cleanupUserGroupsIndex` leaves the index as it was.

Offboarding job:
- `OffStartRun`: `getUserListFromCache` under RLock.
- `OffCheckUser(u)`: `processUser` and `isUserActiveInLDAP`. A transient LDAP
  error skips the user.
- `OffReadUserData`: `getUserDataFromCache` under RLock. It may return any
  entry matching `*email*`, because Go map order decides which is "first".
  `User.GetByPattern` prefixes the pattern with `user:`, so the match can be
  a `user:groups:<email>` key. When `GroupsKeysScanned` is TRUE the model
  allows that: the entry has no backends to delete from, and `User.Delete`
  then removes that `user:groups:` entry.
- `OffDeleteUser(b)`: one `DeleteUser` of `offboardUserFromAllBackends`.
  GitLab and Rover are skipped. For an account that is already gone,
  Snowflake returns an error (404 is not 200/204); the other backends are
  modelled from spec §4.4 as idempotent.
- `OffboardUser`: any collected error returns. Otherwise `User.Delete` runs
  under Lock, on a `user:` or a `user:groups:` key.
- `OffFinishRun`: the end of the run.

Environment (not code of this repository). Each CR event passes the event
filter and queues the group and the groups listing it (`Enqueue`, from
`SetupWithManager` and `mapFunc`):
- `EditMembers`: a client edits `spec.members.users` (a generation change);
- `AddForceReconcileLabel`: a client adds the label; the predicate passes only
  an addition, so a CR that still has it is not requeued;
- `DeleteGroup`: a client deletes a group (the deletion timestamp bumps the
  generation; a CR without finalizer is deleted at once);
- `GarbageCollect`: the Kubernetes garbage collector;
- `Depart`: a user leaves LDAP;
- `GitLabLdapSync(b, g)`: GitLab's own LDAP sync of a linked group. It sets
  the team to the active members of the dependant's team and creates their
  accounts.

### Abstractions

- **Transient failures.** Timeouts, 5xx responses, an open circuit breaker and
  LDAP errors are a nondeterministic failure, bounded by `MaxFailures`.
- **Backend names.** All backends share one name pattern, so the transformed
  team name is the group name.
- **Client updates.** Member edits and label additions share the bound
  `MaxEdits`.
- **Store key layout.** `GroupsKeysScanned` says whether the user view's scan
  also returns `user:groups:` keys. The store implementation is not in `src/`,
  but `store/interfaces.go` 28-32 builds the pattern as `user:` + pattern, and
  `getUserListFromCache` filters out a `groups:` prefix (354-358), which shows
  that the keys do match. The constant is TRUE in the substring_offboard and
  liveness runs. It is FALSE in the safety run: deleting a departed user's
  index entry while group entries still list them breaks
  `ReverseIndexConsistent` and `IndexSpec` on the way.
- **Cache writes.** The `SetBackend` writes never fail. The four store calls
  of the index update (`CacheFaults`) may fail, one per update, within
  `MaxFailures`.
- **LDAP sync.** The LDAP CN is the group itself, and the dependant (Rover)
  team is the membership GitLab copies.
- **API-server writes.** The last two writes of a reconcile fail exactly
  when the `groupCR` is stale (a conflict or NotFound); other API errors of
  those writes are not modelled.
- **GitLab deletion.** A group marked for deletion stays in `teams` until
  the retry deletes it again; GitLab's own purge of such groups is not
  modelled. `PollFails` is TRUE only in the liveness run. With it in the
  safety run, TLC finds `ReverseIndexConsistent` violated: after the panic,
  the group entry of the group being deleted still lists members whose
  `user:groups:` entries no longer name it, until the retry deletes the
  entry.
- **Preload.** `FetchAllUsers` and `FetchAllTeams` return everything or, if
  any page fails, nothing (`PreloadFailed`). GitLab's `FetchAllUsers` lists
  no users for a backend with an LDAP dependant (`PreloadedAccounts`).
- **Not modelled here:** `group_params` validation, including
  `project_access_paths`.

## 3. Runs

| Run | cfg | Expect | Checks |
|---|---|---|---|
| expansion | `MCMemberExpansion.cfg` | pass | `ExpansionMatchesReachability` for all 4913 configurations of 3 CRs (missing CRs, cycles, diamonds included) |
| safety | `MCUsernautSafety.cfg` | pass | `TypeOK`, `ReverseIndexConsistent`, `AccountsRecorded` and `IndexSpec`: the whole system implements `GroupIndex` (1.6M states, under a minute) |
| liveness | `MCUsernautLiveness.cfg` | pass | `EventuallyReady`, `DeletionCompletes`, `OffboardingCompletes` under the fairness below, with `user:groups:` keys scanned |
| orphan_team | `MCOrphanTeam.cfg` | violation | `TeamsRecorded` |
| owner_cascade | `MCOwnerCascade.cfg` | violation | `CascadeOnlyToSubgroups` |
| substring_offboard | `MCSubstringOffboard.cfg` | violation | `OffboardingSparesActiveUsers` |
| offboard_stuck | `MCOffboardStuck.cfg` | violation | `OffboardingCompletes` |
| preload_gap | `MCPreloadGap.cfg` | violation | `Convergence` |
| ldap_blip | `MCLdapBlip.cfg` | violation | `TeamRemovalsOnlyOfUndesired` |
| ldap_sync | `MCLdapSync.cfg` | pass | `Convergence` with GitLab in LDAP-sync mode listed before its Rover dependant |
| stale_index | `MCStaleIndex.cfg` | violation | `IndexEventuallyConsistent` with failing `GetMembers`, `AddGroup`, `RemoveGroup` and `SetMembers` calls |
| no_resync | `MCNoResync.cfg` | violation | `Convergence` when a user leaves after a successful reconcile |

The refinement mapping sends `groupMembers` to the members of `groupStore` and
`memberOf` to `userGroups`, and gives each group the backends of its spec that
are not LDAP-synced. It holds only with exact email matching, no `user:groups:`
key matches and no cache faults. The other cases are the substring_offboard and
stale_index findings.

`Convergence` is the spec's promise (§6: the next trigger, the periodic resync
included, retries). It holds in ldap_sync, where nobody leaves the directory;
no_resync shows that a departure breaks it. `EventuallyReady` is what the code
does guarantee: a failed reconcile is retried through its returned error until
it succeeds.

With the liveness constants, `MaxFailures = 0` and `Deletable = {}`, TLC also
finds `IndexEventuallyConsistent` violated with no failure at all: the job
matches a departed user's `user:groups:` key and deletes it while g1's entry
still lists them, and no reconcile follows (hazard at
`job_usernaut_offboarding.go` 385).

### Bounds and why they are enough

- **Groups.** Two groups, where g1 lists g2. This gives nesting, owner
  references, the `mapFunc` fan-out and a cascade.
- **Backends.** g1 has two backends (Snowflake `b1` and GitLab `b2`), so a
  failure in one and success in the other both occur. g2 has one.
- **Starting state.** u2 already has a Snowflake account and g2 a Snowflake
  team, so the preload-promotion path runs.
- **Safety run:**
  - one transient failure;
  - one client update (a member edit or a force-reconcile label);
  - u1 may leave the directory and u2 stays, so the job meets both a
    departed and an active user;
  - both groups may be deleted.

  Unbounded label additions grow it to 28M states (16 minutes), hence the
  shared bound. Letting both users leave as well gives 9.2M states in 4.5
  minutes, once the stale-`groupCR` outcomes are modelled.
- **Liveness run.** This is the largest environment TLC finishes under 5
  minutes: u1 may leave, g2 may be deleted (and g1 garbage-collected), one
  failure, no client update (32k states).
- **LDAP sync run.** b2 is GitLab depending on Rover b1, and g1 lists b2
  before b1. The first reconcile therefore fails at b2, which is the ordering
  case of spec §7 scenario 6. Its error requeues g1. There are no failures, no
  edits and no departures (a departure is no_resync).
- **Cache faults.** stale_index uses the liveness constants with one failure
  that may hit any of the four store calls.
- **Deletion.** Every action fires in the safety run. In particular, a
  deletion runs while teams have been created.

### Fairness

- **Reconciler.**
  - `StartReconcile(g)`, `HandleDeletion(g)` and `DropRequest(g)` are strongly
    fair, and enabled only while `g` is in `queue`: the worker serves every
    queued request. The single worker may be busy when a group's turn comes,
    so weak fairness would not be enough. Nothing requeues a group that is not
    queued: the event filter drops resyncs.
  - The stages of a started reconcile are weakly fair: the worker runs the
    reconcile to its end.
- **Offboarding job.**
  - Its lock-taking steps are strongly fair. Go's `RWMutex` lets waiting
    readers in before the next writer.
  - Its other steps are weakly fair. The job runs on a timer, forever.
- **Environment.** No fairness: clients, the garbage collector and users need
  not act. The one exception is `GitLabLdapSync`, which is weakly fair: GitLab
  runs its LDAP sync on a schedule, and also on the sync request
  `CreateTeam` sends.

### Mutants

Each property of a passing run is broken by a mutant of the code it is about:

| Property | Mutant |
|---|---|
| `TypeOK` | the status is written as the condition's reason |
| `ReverseIndexConsistent` | the index update no longer removes previous members |
| `AccountsRecorded` | the job uncaches a user even when a backend delete failed |
| `EventuallyReady` | backend errors are reported in the status but not returned |
| `DeletionCompletes` | the finalizer is never removed and nil is returned |
| `OffboardingCompletes` | "no such user" is handled as an error |
| `ExpansionMatchesReachability` | a missing subgroup is skipped |
| `IndexSpec` | the index is updated even when a backend failed |
| `Convergence` (ldap_sync) | the LDAP link is never created |

## 4. Findings

1. **orphan_team** (`group_controller.go` 612-614, 633, 543-545). When
   `DeleteTeamByID` fails:
   - `deleteBackendsTeam` still deletes the group entry holding the team id,
     and returns an error so that the deletion is retried;
   - the retry finds no id, removes the finalizer and leaves the team in the
     backend for good.

   The error return therefore retries nothing.
2. **owner_cascade** (`setOwnerReference` 967-1029). The spec says a subgroup
   gets its parent as owner. The code makes each subgroup an owner of the
   parent. Deleting a subgroup makes the garbage collector delete every group
   that includes it.
3. **substring_offboard** (`getUserDataFromCache` 385-396). The pattern
   `*email*` and the first map entry together mean that offboarding `al@x` can
   delete the accounts and cache entry of the active user `cal@x`. Because the
   pattern is prefixed with `user:`, it can also pick `user:groups:cal@x` and
   delete the active user's reverse-index entry.
4. **offboard_stuck** (`snowflake/users.go` 253). Snowflake `DeleteUser`
   treats 404 as an error, while spec §4.4 says an already-deleted user is
   success. Suppose a second deletable backend fails once after Snowflake
   succeeded. Every later run then fails on Snowflake, and the user's cache
   entry is never removed.
5. **preload_gap** (`gitlab/users.go` 164-173; `gitlab/teams.go` 99-101).
   - GitLab `CreateUser` returns the conflict error. The spec's adapters absorb
     409.
   - GitLab `CreateTeam` dereferences a nil group on a conflict; the panic
     aborts the whole reconcile.

   If the GitLab preload failed while the user and team exist, the group can
   never reconcile, even though the spec says the reconciler recovers from
   preload errors. In LDAP-sync mode a failed LDAP link or sync request after
   `CreateTeam` created the group (`teams.go` 107-120) leaves the same
   unrecorded group; `ProcessTeam` models it.
6. **ldap_blip** (`fetchLDAPData` 227-231). Any lookup error drops the
   user, exactly as "not found" does. A transient LDAP error therefore removes
   an active member from every team of the group, and the group still reports
   `Ready=True`, so nothing retries. Spec §6 says transient errors are retried.
7. **stale_index** (`updateCacheIndexes` 279-319, `handleDeletion` 561-565).
   The members to remove from the index are computed from the group entry, not
   from the index. A failed `GetMembers`, `AddGroup`, `RemoveGroup` or
   `SetMembers` call is only logged by the caller (183-186), so the reconcile
   succeeds and is not repeated. A failed `GetMembers` in deletion skips the
   cleanup while the group entry is deleted. A `user:groups:` entry then
   disagrees with the group entries for good.
8. **no_resync** (`SetupWithManager` 913). The event filter passes only
   generation changes and label additions, so resync updates never reach
   `Reconcile`, and a successful reconcile is not requeued. Spec §6 counts
   on the periodic resync. A user who leaves the directory after the group's
   last successful reconcile stays in its GitLab team (the job skips GitLab
   and Rover) and in its group entry until a client edits the spec or adds
   the label.

## 5. Not modelled

- **Not in `src/`:**
  - the name transformer (C5);
  - the store implementations;
  - the HTTP API;
  - configuration loading;
  - the Fivetran and Rover clients;
  - the manager setup (`main.go`), whose resync period is irrelevant because
    the filter drops resyncs.

  Their behaviour, where needed, is taken from the spec.
- **`group_params` validation and `project_access_paths`.** A failure after
  the group was created leaves the same unrecorded GitLab group as preload_gap.
- **`SetBackend` write failures and the Redis SCAN pattern semantics.** The
  store code is not in `src/`; the `user:groups:` match is the constant
  `GroupsKeysScanned`.
- **Status `backends_status`, and API errors of the status and label
  updates other than the stale-object conflict.** They carry no state the
  properties depend on; such a failure returns an error and requeues, as the
  conflict does.
- **Process crash and restart.** Redis keeps the cache across restarts.
  Startup re-runs the preload, which only adds entries, and the initial list
  queues every group, so a crash between two steps behaves like a failure at
  that step followed by a new reconcile. The poll's nil-dereference panic
  is modelled as a recovered panic, which is what such a crash amounts to.

## 6. Plan for later sittings

- `SetBackend` write failures and their effect on `AccountsRecorded`.
- An abstract specification of a group's teams, in which each backend's
  members converge to the desired set as of the group's last request.
- GitLab's purge of groups marked for deletion, and re-creation of a
  deleted Group while its GitLab group is still pending deletion.
