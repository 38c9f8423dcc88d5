--------------------------- MODULE MemberExpansion ---------------------------
(***************************************************************************)
(* Recursive expansion of a Group's members (GroupReconciler.              *)
(* fetchUniqueGroupMembers and deduplicateMembers, internal/controller/    *)
(* group_controller.go).  The Group CRs visible to the reconciler are      *)
(* given as a function crs from the names of existing CRs to their        *)
(* [users, groups] spec; a name outside DOMAIN crs is a CR the API server  *)
(* does not return.                                                        *)
(***************************************************************************)
EXTENDS FiniteSets, Graphs

\* Result of the expansion: the deduplicated users, or the error of a Get.
Ok(us) == [ok |-> TRUE, users |-> us]
Err == [ok |-> FALSE, users |-> {}]

(***************************************************************************)
(* fetchUniqueGroupMembers: a group already on the current recursion path *)
(* is a cycle and contributes nothing; otherwise the CR is fetched (an     *)
(* error aborts the whole expansion), its users are taken, and every       *)
(* subgroup is expanded with the group added to the path (and removed     *)
(* again on return, so a diamond is expanded twice).  The result as a set *)
(* is what deduplicateMembers makes of the list.                           *)
(***************************************************************************)
RECURSIVE FetchUniqueGroupMembers(_, _, _)

\* Mutant: a subgroup whose CR cannot be fetched is skipped, not an error.
FetchUniqueGroupMembersSkipMissing(g, visitedOnPath, crs) ==
  IF g \in visitedOnPath \/ g \notin DOMAIN crs THEN Ok({})
  ELSE LET subs == { FetchUniqueGroupMembers(s, visitedOnPath \cup {g}, crs) :
                       s \in crs[g].groups }
       IN  Ok(crs[g].users \cup UNION { r.users : r \in subs })

FetchUniqueGroupMembers(g, visitedOnPath, crs) ==
  IF g \in visitedOnPath THEN Ok({})
  ELSE IF g \notin DOMAIN crs THEN Err
  ELSE LET subs == { FetchUniqueGroupMembers(s, visitedOnPath \cup {g}, crs) :
                       s \in crs[g].groups }
       IN  IF \E r \in subs : ~r.ok THEN Err
           ELSE Ok(crs[g].users \cup UNION { r.users : r \in subs })

\* Expansion of group g from an empty path, as Reconcile calls it.
ExpandMembers(g, crs) == FetchUniqueGroupMembers(g, {}, crs)

(***************************************************************************)
(* Reference definition: the groups reachable from g through             *)
(* members.groups (g included); the expansion fails iff one of them is    *)
(* missing, and otherwise is the union of their users.                    *)
(***************************************************************************)
MembershipGraph(names, crs) ==
  [node |-> names,
   edge |-> { <<a, b>> \in names \X names :
                a \in DOMAIN crs /\ b \in crs[a].groups }]

ReachableGroups(g, names, crs) ==
  {g} \cup Descendants(MembershipGraph(names, crs), g)

ReferenceExpansion(g, names, crs) ==
  LET R == ReachableGroups(g, names, crs)
  IN  IF R \subseteq DOMAIN crs
        THEN Ok(UNION { crs[h].users : h \in R })
        ELSE Err
=============================================================================
