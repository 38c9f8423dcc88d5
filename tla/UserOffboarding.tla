--------------------------- MODULE UserOffboarding ---------------------------
(***************************************************************************)
(* The periodic user offboarding job (internal/controller/periodicjobs/   *)
(* job_usernaut_offboarding.go).  A run lists the user keys under a read  *)
(* lock, then for each user: asks LDAP (unlocked), reads the backend ids  *)
(* of the first cache entry matching *email* (read lock), deletes the     *)
(* user from every backend that is not GitLab or Rover (unlocked, one     *)
(* DeleteUser per backend), and only when all of them succeeded deletes   *)
(* the cache entry (write lock).  The job runs again on every period.     *)
(***************************************************************************)
EXTENDS UsernautState

IdleOff == [phase |-> "idle", keys |-> {}, cur |-> NoUser, email |-> NoUser,
            groupsKey |-> FALSE, pending |-> {}, failed |-> FALSE]

OffType == [phase : {"idle", "scan", "read", "delete"}, keys : SUBSET Users,
            cur : Users \cup {NoUser}, email : Users \cup {NoUser},
            groupsKey : BOOLEAN,
            pending : SUBSET Backends, failed : BOOLEAN]

\* A read or write lock of CacheMutex can be taken only while the
\* reconciler does not hold it exclusively.
CacheLockFree == rec.phase = "idle"

offUnchanged == <<crVars, active, storeVars, backendVars, queue, rec, edits>>

(***************************************************************************)
(* Run and getUserListFromCache: under the read lock, every key of the    *)
(* user view except the user:groups: index keys.                           *)
(***************************************************************************)
OffStartRun ==
  /\ off.phase = "idle" /\ CacheLockFree
  /\ off' = [IdleOff EXCEPT !.phase = "scan",
                            !.keys = {u \in Users : userStore[u] # {}}]
  /\ UNCHANGED <<offUnchanged, failures>>

\* Mutant: "no such user" from LDAP is reported as an error, not as inactive.
OffCheckUserNotFoundIsError(u) ==
  /\ off.phase = "scan" /\ u \in off.keys
  /\ off' = [off EXCEPT !.keys = @ \ {u}]
  /\ UNCHANGED <<offUnchanged, failures>>

(***************************************************************************)
(* processUser and isUserActiveInLDAP for one listed key: an LDAP error   *)
(* other than "no such user" is only reported; an active user is left;   *)
(* an inactive one is offboarded.                                         *)
(***************************************************************************)
OffCheckUser(u) ==
  /\ off.phase = "scan" /\ u \in off.keys
  /\ \E result \in LdapResults(u) :
       /\ failures' = IF result = "error" THEN failures + 1 ELSE failures
       /\ off' = IF result = "notFound"
                  THEN [off EXCEPT !.keys = @ \ {u}, !.phase = "read", !.cur = u]
                  ELSE [off EXCEPT !.keys = @ \ {u}]
  /\ UNCHANGED offUnchanged

\* The run ends when every listed key has been processed.
OffFinishRun ==
  /\ off.phase = "scan" /\ off.keys = {}
  /\ off' = IdleOff
  /\ UNCHANGED <<offUnchanged, failures>>

(***************************************************************************)
(* getUserDataFromCache: under the read lock, the user view is scanned    *)
(* for *email* and the first entry of the resulting map is returned with  *)
(* its email; Go map order makes that any of the matches.  No match is an *)
(* error.  The backends to delete from are those of the entry that are   *)
(* not of a skipped type.  User.GetByPattern prefixes the pattern with    *)
(* "user:" (store/interfaces.go), so user:*email* also matches the index  *)
(* key user:groups:<x> of a matching x, returned as "groups:<x>";         *)
(* getUserListFromCache filters such keys out, this read does not.  The  *)
(* store implementation decides whether the index entry, a JSON list,    *)
(* comes back (GroupsKeysScanned); when it does it has no backend ids.   *)
(***************************************************************************)
OffReadUserData ==
  /\ off.phase = "read" /\ CacheLockFree
  /\ LET userKeys == {x \in PatternMatches(off.cur) : userStore[x] # {}}
         groupsKeys == {x \in PatternMatches(off.cur) :
                          GroupsKeysScanned /\ userGroups[x] # {}}
         Chosen(x, isGroups) ==
           [off EXCEPT !.phase = "delete", !.email = x, !.groupsKey = isGroups,
                       !.failed = FALSE,
                       !.pending = IF isGroups THEN {}
                                   ELSE {b \in userStore[x] : BackendType[b] \notin SkippedTypes}]
     IN  \/ /\ userKeys = {} /\ groupsKeys = {}
            /\ off' = [off EXCEPT !.phase = "scan", !.cur = NoUser]
         \/ \E x \in userKeys : off' = Chosen(x, FALSE)
         \/ \E x \in groupsKeys : off' = Chosen(x, TRUE)
  /\ UNCHANGED <<offUnchanged, failures>>

\* DeleteUser for an account the backend no longer has: Snowflake answers
\* 404, which the client returns as an error; the other clients the job
\* calls treat an already-deleted user as deleted.
DeleteUserMissingFails(b) == BackendType[b] = "snowflake"

(***************************************************************************)
(* offboardUserFromAllBackends, one DeleteUser: a deleted account leaves  *)
(* every team of that backend; an error is collected and the loop goes   *)
(* on with the other backends.                                            *)
(***************************************************************************)
OffDeleteUser(b) ==
  /\ off.phase = "delete" /\ b \in off.pending
  /\ LET x == off.email
     IN  \/ /\ x \in accounts[b]
            /\ accounts' = [accounts EXCEPT ![b] = @ \ {x}]
            /\ teamMembers' = [teamMembers EXCEPT ![b] = [h \in Groups |-> @[h] \ {x}]]
            /\ off' = [off EXCEPT !.pending = @ \ {b}]
            /\ UNCHANGED failures
         \/ /\ x \in accounts[b] /\ CanFail /\ Fail
            /\ off' = [off EXCEPT !.pending = @ \ {b}, !.failed = TRUE]
            /\ UNCHANGED <<accounts, teamMembers>>
         \/ /\ x \notin accounts[b]
            /\ off' = [off EXCEPT !.pending = @ \ {b},
                                  !.failed = @ \/ DeleteUserMissingFails(b)]
            /\ UNCHANGED <<accounts, teamMembers, failures>>
  /\ UNCHANGED <<crVars, active, storeVars, teams, ldapLinked, queue, rec, edits>>

\* Mutant: the cache entry is deleted even when a backend deletion failed.
OffboardUserIgnoringErrors ==
  /\ off.phase = "delete" /\ off.pending = {} /\ CacheLockFree
  /\ userStore' = [userStore EXCEPT ![off.email] = {}]
  /\ off' = [off EXCEPT !.phase = "scan", !.cur = NoUser, !.email = NoUser,
                        !.groupsKey = FALSE, !.failed = FALSE]
  /\ UNCHANGED <<crVars, active, teamStore, groupStore, userGroups,
                 backendVars, queue, rec, failures, edits>>

(***************************************************************************)
(* offboardUser after the backend loop: any collected error returns before *)
(* the cache is touched; otherwise User.Delete of the matched email runs  *)
(* under the write lock, which for a "groups:<x>" match deletes the key   *)
(* user:groups:<x>.                                                        *)
(***************************************************************************)
OffboardUser ==
  /\ off.phase = "delete" /\ off.pending = {}
  /\ \/ /\ off.failed
        /\ UNCHANGED <<userStore, userGroups>>
     \/ /\ ~off.failed /\ CacheLockFree /\ off.groupsKey
        /\ userGroups' = [userGroups EXCEPT ![off.email] = {}]
        /\ UNCHANGED userStore
     \/ /\ ~off.failed /\ CacheLockFree /\ ~off.groupsKey
        /\ userStore' = [userStore EXCEPT ![off.email] = {}]
        /\ UNCHANGED userGroups
  /\ off' = [off EXCEPT !.phase = "scan", !.cur = NoUser, !.email = NoUser,
                        !.groupsKey = FALSE, !.failed = FALSE]
  /\ UNCHANGED <<crVars, active, teamStore, groupStore, backendVars, queue, rec,
                 failures, edits>>

OffboardingNext ==
  \/ OffStartRun \/ OffReadUserData \/ OffboardUser \/ OffFinishRun
  \/ \E u \in Users : OffCheckUser(u)
  \/ \E b \in Backends : OffDeleteUser(b)
=============================================================================
