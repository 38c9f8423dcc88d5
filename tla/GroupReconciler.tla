--------------------------- MODULE GroupReconciler ---------------------------
(***************************************************************************)
(* The Group reconciler (internal/controller/group_controller.go).  The   *)
(* controller is set up without MaxConcurrentReconciles, so one worker    *)
(* runs Reconcile at a time.  A reconcile does its API-server work, then  *)
(* takes CacheMutex exclusively and keeps it through LDAP, every backend  *)
(* and the index update; rec.phase = "backends" is that locked region,    *)
(* and each backend call sequence of processSingleBackend is split in     *)
(* three steps (team, users, members) so the offboarding job's unlocked   *)
(* backend calls can interleave with them.                                *)
(***************************************************************************)
EXTENDS UsernautState

IdleRec == [phase |-> "idle", group |-> NoGroup, resolved |-> {},
            next |-> 0, stage |-> "team", errors |-> {}, ldapSync |-> FALSE,
            forced |-> FALSE, spec |-> {}]

RecType == [phase : {"idle", "backends"}, group : Groups \cup {NoGroup},
            resolved : SUBSET Users, next : Nat,
            stage : {"team", "users", "members"}, errors : SUBSET Backends,
            ldapSync : BOOLEAN, forced : BOOLEAN, spec : SUBSET Users]

\* The reconciler holds CacheMutex exclusively.
RecHoldsLock == rec.phase = "backends"

CurGroup == rec.group
CurBackend == GroupBackends[rec.group][rec.next]

\* Next stage of processSingleBackend for the current backend.
AdvanceStage(st) == rec' = [rec EXCEPT !.stage = st]
\* processSingleBackend returned nil: go on with the next backend.
BackendSucceeded == rec' = [rec EXCEPT !.next = @ + 1, !.stage = "team"]
\* processSingleBackend returned an error: record it in backendErrors.
BackendFailed(b) ==
  rec' = [rec EXCEPT !.next = @ + 1, !.stage = "team", !.errors = @ \cup {b}]

\* The result of Reconcile: an error puts the request back on the queue.
ReturnError(g, err) == queue' = IF err THEN queue \cup {g} ELSE queue

(***************************************************************************)
(* fetchLDAPData: each unique member is looked up by uid; a user the      *)
(* directory does not return, or a lookup that fails, is dropped from     *)
(* this reconcile.  The lock is taken just before.                        *)
(***************************************************************************)
FetchLDAPData(g, uniqueMembers) ==
  \E result \in [uniqueMembers -> {"found", "notFound", "error"}] :
    /\ \A u \in uniqueMembers : result[u] \in LdapResults(u)
    /\ failures' = failures + Cardinality({u \in uniqueMembers : result[u] = "error"})
    /\ failures' <= MaxFailures
    /\ rec' = [phase |-> "backends", group |-> g,
               resolved |-> {u \in uniqueMembers : result[u] = "found"},
               next |-> 1, stage |-> "team", errors |-> {}, ldapSync |-> FALSE,
               forced |-> g \in forceLabel, spec |-> members[g]]

\* setOwnerReference: every group listed in members.groups is fetched (a
\* failed Get returns the error) and becomes a Group owner of g; owner
\* references to groups no longer listed are dropped.
OwnerGroupsExist(g) == SubGroups[g] \subseteq exists
SetOwnerReference(g) ==
  ownerRefs' = [ownerRefs EXCEPT ![g] = SubGroups[g]]

\* isGroupConfigurable: some backend of the spec has a matching name pattern.
IsGroupConfigurable(g) == g \in Configurable

(***************************************************************************)
(* Reconcile of a queued request up to the locked region: add the         *)
(* finalizer, set the Group owner references from members.groups (a Get  *)
(* of each; one that fails returns the error), set Waiting, stop as       *)
(* NonConfigurable when no backend pattern matches, expand the members    *)
(* (an error returns), then lock and fetch LDAP data.  A returned error   *)
(* puts the request back with backoff (the request stays queued); a nil   *)
(* return, or entering the locked region, takes it off the queue.         *)
(***************************************************************************)
StartReconcile(g) ==
  /\ rec.phase = "idle" /\ g \in queue
  /\ g \in exists \ deleting
  /\ finalized' = finalized \cup {g}
  /\ IF ~OwnerGroupsExist(g)
       THEN UNCHANGED <<ownerRefs, ready, rec, failures, queue>>
       ELSE LET expansion == ExpandMembers(g, VisibleCRs)
            IN  /\ SetOwnerReference(g)
                /\ CASE ~IsGroupConfigurable(g) ->
                          /\ ready' = [ready EXCEPT ![g] = "NonConfigurable"]
                          /\ queue' = queue \ {g}
                          /\ UNCHANGED <<rec, failures>>
                     [] ~expansion.ok ->
                          /\ ready' = [ready EXCEPT ![g] = "Waiting"]
                          /\ UNCHANGED <<rec, failures, queue>>
                     [] OTHER ->
                          /\ ready' = [ready EXCEPT ![g] = "Waiting"]
                          /\ queue' = queue \ {g}
                          /\ FetchLDAPData(g, expansion.users)
  /\ UNCHANGED <<exists, deleting, members, deletedByUser, forceLabel, active,
                 storeVars, backendVars, off, edits>>

\* Reconcile of a request whose Group is gone: the Get's NotFound is
\* ignored and the request is done.
DropRequest(g) ==
  /\ rec.phase = "idle" /\ g \in queue /\ g \notin exists
  /\ queue' = queue \ {g}
  /\ UNCHANGED <<crVars, active, storeVars, backendVars, rec, off, failures, edits>>

\* CreateTeam when the backend already has a team of that name: the GitLab
\* client logs the name of the nil group of the failed call and panics;
\* other backends return the existing team (create is idempotent on
\* conflict).
CreateTeamConflictPanics(b) == BackendType[b] = "gitlab"

\* ldapDependantChecks and isGroupCRHasDependants: the depends_on backend
\* must already be in the group's GroupStore entry or in the preloaded
\* TeamStore, and must be a backend of the same spec.
LdapDependantPresent(g, b) ==
  \A d \in DependsOn[b] :
    /\ d \in groupStore[g].backends \/ g \in teamStore[d]
    /\ d \in DeclaredBackends(g)

\* Mutant: CreateTeam in LDAP-sync mode does not link the group to the CN.
AddToLdapGroupSkipped(b, g) == UNCHANGED ldapLinked

\* CreateTeam in LDAP-sync mode: addToLdapGroup binds the new GitLab group
\* to the LDAP CN of the group.
AddToLdapGroup(b, g) == ldapLinked' = [ldapLinked EXCEPT ![b] = @ \cup {g}]

(***************************************************************************)
(* processSingleBackend up to its team: setupLdapSync (a failed check     *)
(* returns the error), then fetchOrCreateTeam: the id in the GroupStore,  *)
(* else the preloaded id in the TeamStore copied into the GroupStore,    *)
(* else CreateTeam and record the new id in the GroupStore.  In LDAP-sync *)
(* mode the GitLab CreateTeam then links the group to the LDAP CN and     *)
(* starts a sync; either call failing returns an error after the group   *)
(* was created.  The GitLab conflict panic ends Reconcile at once: the    *)
(* deferred Unlock runs and the panic is returned as an error, so no      *)
(* later backend, index update, label removal or status update happens.  *)
(***************************************************************************)
ProcessTeam ==
  /\ RecHoldsLock /\ rec.next <= Len(GroupBackends[CurGroup])
  /\ rec.stage = "team"
  /\ LET g == CurGroup
         b == CurBackend
         sync == LdapSyncApplies(b)
         unrecorded == b \notin groupStore[g].backends /\ g \notin teamStore[b]
         conflict == g \in teams[b] /\ CreateTeamConflictPanics(b)
         RecordTeam == groupStore' = [groupStore EXCEPT ![g].backends = @ \cup {b}]
         CreateGroup == teams' = [teams EXCEPT ![b] = @ \cup {g}]
         Proceed == rec' = [rec EXCEPT !.stage = "users", !.ldapSync = sync]
     IN  \/ /\ sync /\ ~LdapDependantPresent(g, b)
            /\ BackendFailed(b)
            /\ UNCHANGED <<groupStore, teams, ldapLinked, failures, queue>>
         \/ /\ sync => LdapDependantPresent(g, b)
            /\ \/ /\ b \in groupStore[g].backends
                  /\ Proceed
                  /\ UNCHANGED <<groupStore, teams, ldapLinked, failures, queue>>
               \/ /\ b \notin groupStore[g].backends /\ g \in teamStore[b]
                  /\ RecordTeam /\ Proceed
                  /\ UNCHANGED <<teams, ldapLinked, failures, queue>>
               \/ /\ unrecorded /\ ~conflict
                  /\ CreateGroup /\ RecordTeam /\ Proceed
                  /\ IF sync THEN AddToLdapGroup(b, g) ELSE UNCHANGED ldapLinked
                  /\ UNCHANGED <<failures, queue>>
               \/ /\ unrecorded /\ CanFail /\ Fail
                  /\ BackendFailed(b)
                  /\ UNCHANGED <<groupStore, teams, ldapLinked, queue>>
               \/ /\ unrecorded /\ conflict
                  /\ rec' = IdleRec
                  /\ ReturnError(g, TRUE)
                  /\ UNCHANGED <<groupStore, teams, ldapLinked, failures>>
               \/ /\ unrecorded /\ sync /\ ~conflict /\ CanFail
                  /\ Fail /\ CreateGroup /\ BackendFailed(b)
                  /\ \E linked \in BOOLEAN :
                       IF linked THEN AddToLdapGroup(b, g) ELSE UNCHANGED ldapLinked
                  /\ UNCHANGED <<groupStore, queue>>
  /\ UNCHANGED <<crVars, active, userStore, teamStore, userGroups,
                 accounts, teamMembers, off, edits>>

\* CreateUser for a user the backend already has: the GitLab client
\* returns the API error, Snowflake fetches and returns the existing user.
CreateUserConflictFails(b) == BackendType[b] = "gitlab"

(***************************************************************************)
(* createUsersInBackendAndCache: every resolved member without an id for  *)
(* this backend in the UserStore is created and its id recorded; the      *)
(* first failure returns, keeping the users created before it.  In        *)
(* LDAP-sync mode the GitLab CreateUser only fetches the account the      *)
(* directory sync provisioned; for a user not provisioned yet it returns  *)
(* a placeholder whose id is the user name, which is recorded all the     *)
(* same.  No account is created in that mode.                             *)
(***************************************************************************)
ProcessUsers ==
  /\ RecHoldsLock /\ rec.next <= Len(GroupBackends[CurGroup])
  /\ rec.stage = "users"
  /\ LET b == CurBackend
         missing == {u \in rec.resolved : b \notin userStore[u]}
         unavailable ==
           IF rec.ldapSync THEN {}
           ELSE {u \in missing : u \in accounts[b] /\ CreateUserConflictFails(b)}
     IN  \E created \in SUBSET (missing \ unavailable) :
           /\ accounts' = IF rec.ldapSync THEN accounts
                          ELSE [accounts EXCEPT ![b] = @ \cup created]
           /\ userStore' = [u \in Users |->
                              IF u \in created THEN userStore[u] \cup {b}
                                               ELSE userStore[u]]
           /\ \/ /\ created = missing
                 /\ AdvanceStage("members")
                 /\ UNCHANGED failures
              \/ /\ created # missing
                 /\ \/ unavailable # {} /\ UNCHANGED failures
                    \/ CanFail /\ Fail
                 /\ BackendFailed(b)
  /\ UNCHANGED <<crVars, active, teamStore, groupStore, userGroups,
                 teams, teamMembers, ldapLinked, queue, off, edits>>

\* Mutant: members no longer wanted are never removed from the team.
ProcessMembersAddOnly ==
  /\ RecHoldsLock /\ rec.next <= Len(GroupBackends[CurGroup])
  /\ rec.stage = "members"
  /\ LET g == CurGroup
         b == CurBackend
         usersToAdd == rec.resolved \ teamMembers[b][g]
     IN  /\ g \in teams[b] /\ usersToAdd \subseteq accounts[b]
         /\ teamMembers' = [teamMembers EXCEPT ![b][g] = @ \cup usersToAdd]
         /\ BackendSucceeded
  /\ UNCHANGED <<crVars, active, storeVars, accounts, teams, ldapLinked, queue,
                 off, failures, edits>>

(***************************************************************************)
(* FetchTeamMembersByTeamID, processUsers and the membership calls: the   *)
(* members to keep are the backend ids of the resolved users; existing    *)
(* members not kept are removed (unresolved users included), kept users  *)
(* not yet members are added.  AddUserToTeam runs before                 *)
(* RemoveUserFromTeam and an error of either returns.  In LDAP-sync mode  *)
(* both calls are skipped: the directory sync drives membership.          *)
(***************************************************************************)
ProcessMembers ==
  /\ RecHoldsLock /\ rec.next <= Len(GroupBackends[CurGroup])
  /\ rec.stage = "members"
  /\ LET g == CurGroup
         b == CurBackend
         existing == teamMembers[b][g]
         usersToAdd == rec.resolved \ existing
         usersToRemove == existing \ rec.resolved
         skip == rec.ldapSync
         addFails == ~skip /\ usersToAdd # {} /\ ~(usersToAdd \subseteq accounts[b])
     IN  \/ /\ g \notin teams[b] \/ addFails \/ CanFail
            /\ IF g \notin teams[b] \/ addFails THEN UNCHANGED failures ELSE Fail
            /\ BackendFailed(b)
            /\ UNCHANGED teamMembers
         \/ /\ g \in teams[b] /\ ~addFails /\ ~skip /\ usersToRemove # {} /\ CanFail
            /\ Fail
            /\ teamMembers' = [teamMembers EXCEPT ![b][g] = existing \cup usersToAdd]
            /\ BackendFailed(b)
         \/ /\ g \in teams[b] /\ ~addFails
            /\ teamMembers' = IF skip THEN teamMembers
                              ELSE [teamMembers EXCEPT ![b][g] = rec.resolved]
            /\ BackendSucceeded
            /\ UNCHANGED failures
  /\ UNCHANGED <<crVars, active, storeVars, accounts, teams, ldapLinked, queue,
                 off, edits>>

\* Mutant: previous members are not removed from the reverse index.
UpdateCacheIndexesNoRemoval(g, currentMembers) ==
  /\ userGroups' = [u \in Users |->
                      IF u \in currentMembers THEN userGroups[u] \cup {g} ELSE userGroups[u]]
  /\ groupStore' = [groupStore EXCEPT ![g].members = currentMembers]
  /\ UNCHANGED failures

\* The store calls of updateCacheIndexes that fail in one update (at most
\* one): Group.GetMembers, UserGroups.AddGroup or RemoveGroup for one user,
\* or Group.SetMembers.
IndexFaults(g, currentMembers) ==
  {[call |-> "none", user |-> NoUser]} \cup
  IF ~CanFail THEN {}
  ELSE {[call |-> c, user |-> NoUser] : c \in CacheFaults \cap {"GetMembers", "SetMembers"}}
       \cup {[call |-> "AddGroup", user |-> u] :
               u \in IF "AddGroup" \in CacheFaults THEN currentMembers ELSE {}}
       \cup {[call |-> "RemoveGroup", user |-> u] :
               u \in IF "RemoveGroup" \in CacheFaults
                      THEN groupStore[g].members \ currentMembers ELSE {}}

\* Mutant: only members new to the group are added to the reverse index.
UpdateCacheIndexesAddOnlyNew(g, currentMembers) ==
  \E f \in IndexFaults(g, currentMembers) :
    LET previousMembers == IF f.call = "GetMembers" THEN {} ELSE groupStore[g].members
    IN  /\ userGroups' =
             [u \in Users |->
                CASE f = [call |-> "AddGroup", user |-> u] -> userGroups[u]
                  [] u \in currentMembers \ previousMembers -> userGroups[u] \cup {g}
                  [] u \in previousMembers \ currentMembers
                       /\ f # [call |-> "RemoveGroup", user |-> u] -> userGroups[u] \ {g}
                  [] OTHER -> userGroups[u]]
        /\ groupStore' = IF f.call = "SetMembers" THEN groupStore
                         ELSE [groupStore EXCEPT ![g].members = currentMembers]
        /\ failures' = IF f.call = "none" THEN failures ELSE failures + 1

(***************************************************************************)
(* After the last backend: only when no backend failed, updateCacheIndexes *)
(* adds the group to every current member's user:groups entry, removes it *)
(* from every previous member no longer current, and sets the members;   *)
(* then the Ready condition is set from backendErrors and the lock is    *)
(* released.  A failed GetMembers is taken as no previous members, a      *)
(* failed AddGroup or RemoveGroup is only collected, and a failed          *)
(* SetMembers returns; the caller only logs the error.                     *)
(***************************************************************************)
UpdateCacheIndexes(g, currentMembers) ==
  \E f \in IndexFaults(g, currentMembers) :
    LET previousMembers == IF f.call = "GetMembers" THEN {} ELSE groupStore[g].members
    IN  /\ userGroups' =
             [u \in Users |->
                CASE f = [call |-> "AddGroup", user |-> u] -> userGroups[u]
                  [] u \in currentMembers -> userGroups[u] \cup {g}
                  [] u \in previousMembers /\ f # [call |-> "RemoveGroup", user |-> u] ->
                       userGroups[u] \ {g}
                  [] OTHER -> userGroups[u]]
        /\ groupStore' = IF f.call = "SetMembers" THEN groupStore
                         ELSE [groupStore EXCEPT ![g].members = currentMembers]
        /\ failures' = IF f.call = "none" THEN failures ELSE failures + 1

\* The groupCR fetched at Reconcile start is stale when a client wrote the
\* Group since (a spec edit, a label, the deletion timestamp) or it is
\* gone: an Update or a Status().Update with it fails (a conflict, or
\* NotFound).
StaleGroupCR(g) ==
  \/ g \notin exists \/ g \in deleting
  \/ members[g] # rec.spec \/ (g \in forceLabel) # rec.forced

\* Step 4 of Reconcile: RemoveForceReconcileLabel updates the groupCR only
\* if that object has the label (an update the event filter ignores).  On
\* a stale object the Update fails and Reconcile returns its error, before
\* the status update.
RemoveForceReconcileLabel(g) ==
  forceLabel' = IF rec.forced /\ ~StaleGroupCR(g) THEN forceLabel \ {g} ELSE forceLabel

\* Step 5, updateStatusAndHandleErrors: a Status().Update of the stale
\* object fails and its error is returned; otherwise the condition is set
\* and an error is returned when a backend failed.  Either error requeues.
UpdateStatusAndHandleErrors(g, status, err) ==
  IF StaleGroupCR(g)
    THEN UNCHANGED ready /\ ReturnError(g, TRUE)
    ELSE ready' = [ready EXCEPT ![g] = status] /\ ReturnError(g, err)

\* Mutant: the condition's reason "Ready" is written as its status.
FinishReconcileReasonAsStatus ==
  /\ RecHoldsLock /\ rec.next > Len(GroupBackends[CurGroup])
  /\ IF rec.errors = {} THEN UpdateCacheIndexes(CurGroup, rec.resolved)
                        ELSE UNCHANGED <<userGroups, groupStore, failures>>
  /\ RemoveForceReconcileLabel(CurGroup)
  /\ UpdateStatusAndHandleErrors(CurGroup, IF rec.errors = {} THEN "Ready" ELSE "False",
                                 rec.errors # {})
  /\ rec' = IdleRec
  /\ UNCHANGED <<exists, deleting, finalized, ownerRefs, members, deletedByUser,
                 active, userStore, teamStore, backendVars, off, edits>>

\* Mutant: the indexes are updated even when a backend failed.
FinishReconcileIgnoringErrors ==
  /\ RecHoldsLock /\ rec.next > Len(GroupBackends[CurGroup])
  /\ UpdateCacheIndexes(CurGroup, rec.resolved)
  /\ RemoveForceReconcileLabel(CurGroup)
  /\ UpdateStatusAndHandleErrors(CurGroup, IF rec.errors = {} THEN "True" ELSE "False",
                                 rec.errors # {})
  /\ rec' = IdleRec
  /\ UNCHANGED <<exists, deleting, finalized, ownerRefs, members, deletedByUser,
                 active, userStore, teamStore, backendVars, off, edits>>

\* Mutant: the backend errors are reported in the status but not returned.
FinishReconcileSwallowingErrors ==
  /\ RecHoldsLock /\ rec.next > Len(GroupBackends[CurGroup])
  /\ IF rec.errors = {} THEN UpdateCacheIndexes(CurGroup, rec.resolved)
                        ELSE UNCHANGED <<userGroups, groupStore, failures>>
  /\ RemoveForceReconcileLabel(CurGroup)
  /\ UpdateStatusAndHandleErrors(CurGroup, IF rec.errors = {} THEN "True" ELSE "False",
                                 FALSE)
  /\ rec' = IdleRec
  /\ UNCHANGED <<exists, deleting, finalized, ownerRefs, members, deletedByUser,
                 active, userStore, teamStore, backendVars, off, edits>>

(***************************************************************************)
(* Reconcile after the last backend (steps 3 to 5): only when no backend  *)
(* failed, updateCacheIndexes (its errors are only logged); the           *)
(* force-reconcile label is removed from the groupCR fetched at the start *)
(* if it had one; then updateStatusAndHandleErrors sets Ready from        *)
(* backendErrors and returns an error when a backend failed.  Either     *)
(* write fails on a stale groupCR.  An error requeues the request.  The   *)
(* lock is released.                                                       *)
(***************************************************************************)
FinishReconcile ==
  /\ RecHoldsLock /\ rec.next > Len(GroupBackends[CurGroup])
  /\ LET g == CurGroup
     IN  /\ IF rec.errors = {} THEN UpdateCacheIndexes(g, rec.resolved)
                               ELSE UNCHANGED <<userGroups, groupStore, failures>>
         /\ RemoveForceReconcileLabel(g)
         /\ UpdateStatusAndHandleErrors(g, IF rec.errors = {} THEN "True" ELSE "False",
                                        rec.errors # {})
  /\ rec' = IdleRec
  /\ UNCHANGED <<exists, deleting, finalized, ownerRefs, members, deletedByUser,
                 active, userStore, teamStore, backendVars, off, edits>>

\* An event on Group g that passes the filter of SetupWithManager (a
\* generation change, the force-reconcile label added, a create or a
\* delete) queues a request for g and, through mapFunc, one for every
\* Group that lists g in members.groups.
Enqueue(g) == queue' = queue \cup {g} \cup {p \in exists : g \in SubGroups[p]}

\* Mutant: the backends are cleaned up but the finalizer is never removed
\* and nil is returned.
HandleDeletionKeepFinalizer(g) ==
  /\ rec.phase = "idle" /\ g \in queue
  /\ g \in deleting /\ g \in finalized
  /\ LET recorded == groupStore[g].backends \cap DeclaredBackends(g)
     IN  /\ userGroups' = [u \in Users |->
                              IF u \in groupStore[g].members
                                THEN userGroups[u] \ {g} ELSE userGroups[u]]
         /\ teams' = [b \in Backends |-> IF b \in recorded THEN teams[b] \ {g} ELSE teams[b]]
         /\ teamMembers' = [b \in Backends |->
                              IF b \in recorded THEN [teamMembers[b] EXCEPT ![g] = {}]
                                               ELSE teamMembers[b]]
         /\ ldapLinked' = [b \in Backends |->
                             IF b \in recorded THEN ldapLinked[b] \ {g} ELSE ldapLinked[b]]
         /\ teamStore' = [b \in Backends |-> teamStore[b] \ {g}]
         /\ groupStore' = [groupStore EXCEPT ![g] = EmptyGroupData]
  /\ queue' = queue \ {g}
  /\ UNCHANGED <<crVars, active, userStore, accounts, rec, off, failures, edits>>

(***************************************************************************)
(* GitLab DeleteTeamByID: a soft delete, then pollForPendingDeletion, then *)
(* a hard delete with the polled full path.  A failed soft delete, a poll  *)
(* that times out or a failed hard delete return an error ("failed"); a   *)
(* poll answered 404 returns an empty path, so the group is gone but the  *)
(* hard delete of that path fails ("gone"); any other GetGroup error      *)
(* dereferences a nil response or group and panics ("panic"), the group   *)
(* left marked for deletion.  Other backends delete or fail.              *)
(***************************************************************************)
DeleteOutcomes(b) ==
  IF BackendType[b] = "gitlab" THEN {"deleted", "failed", "gone"} ELSE {"deleted", "failed"}
PollPanics(b) == PollFails /\ BackendType[b] = "gitlab"

(***************************************************************************)
(* handleDeletion under the lock: remove the group from its members'      *)
(* user:groups entries (skipped when reading the members fails), then     *)
(* deleteBackendsTeam walks spec.backends in order: delete the team whose *)
(* id the GroupStore holds (a failure is only noted) and the TeamStore    *)
(* entry of the transformed name; after the loop, delete the whole group  *)
(* entry.  The finalizer is removed only when nothing failed; otherwise   *)
(* the error keeps the request queued.  A panic in the GitLab poll at the *)
(* backend at position stop ends the walk there (the deferred Unlock runs *)
(* and the panic is an error).  All backends share one name pattern, so   *)
(* the TeamStore key is the same for each.  Removing the finalizer lets   *)
(* the API server delete the CR, and its delete event queues the Groups   *)
(* that list it.                                                            *)
(***************************************************************************)
HandleDeletion(g) ==
  /\ rec.phase = "idle" /\ g \in queue
  /\ g \in deleting /\ g \in finalized
  /\ LET bs == GroupBackends[g]
         recorded == groupStore[g].backends \cap DeclaredBackends(g)
     IN  \E stop \in {0} \cup {i \in 1..Len(bs) : bs[i] \in recorded /\ g \in teams[bs[i]]
                                                 /\ PollPanics(bs[i])},
           membersUnread \in IF "GetMembers" \in CacheFaults THEN BOOLEAN ELSE {FALSE} :
         LET walked == IF stop = 0 THEN DeclaredBackends(g) ELSE {bs[i] : i \in 1..stop - 1}
         IN  \E out \in [recorded \cap walked -> {"deleted", "failed", "gone"}] :
             LET failed == {b \in DOMAIN out : out[b] # "deleted"}
                 removed == {b \in DOMAIN out : out[b] # "failed"}
             IN  /\ \A b \in DOMAIN out : out[b] \in DeleteOutcomes(b)
                 /\ \A b \in DOMAIN out : g \notin teams[b] => out[b] = "failed"
                 /\ failures' = failures + Cardinality({b \in failed : g \in teams[b]})
                                         + (IF stop = 0 THEN 0 ELSE 1)
                                         + (IF membersUnread THEN 1 ELSE 0)
                 /\ failures' <= MaxFailures
                 /\ userGroups' = IF membersUnread THEN userGroups
                                  ELSE [u \in Users |->
                                          IF u \in groupStore[g].members
                                            THEN userGroups[u] \ {g} ELSE userGroups[u]]
                 /\ teams' = [b \in Backends |->
                                IF b \in removed THEN teams[b] \ {g} ELSE teams[b]]
                 /\ teamMembers' = [b \in Backends |->
                                      IF b \in removed THEN [teamMembers[b] EXCEPT ![g] = {}]
                                                       ELSE teamMembers[b]]
                 /\ ldapLinked' = [b \in Backends |->
                                     IF b \in removed THEN ldapLinked[b] \ {g}
                                                      ELSE ldapLinked[b]]
                 /\ teamStore' = IF walked = {} THEN teamStore
                                 ELSE [b \in Backends |-> teamStore[b] \ {g}]
                 /\ groupStore' = IF stop = 0 THEN [groupStore EXCEPT ![g] = EmptyGroupData]
                                  ELSE groupStore
                 /\ IF stop = 0 /\ failed = {}
                      THEN /\ finalized' = finalized \ {g}
                           /\ exists' = exists \ {g}
                           /\ deleting' = deleting \ {g}
                           /\ Enqueue(g)
                      ELSE UNCHANGED <<finalized, exists, deleting, queue>>
  /\ UNCHANGED <<ownerRefs, members, ready, deletedByUser, forceLabel, active, userStore,
                 accounts, rec, off, edits>>

ReconcilerNext ==
  \/ \E g \in Groups : StartReconcile(g) \/ HandleDeletion(g) \/ DropRequest(g)
  \/ ProcessTeam \/ ProcessUsers \/ ProcessMembers \/ FinishReconcile
=============================================================================
