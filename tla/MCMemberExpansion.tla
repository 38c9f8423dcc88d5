-------------------------- MODULE MCMemberExpansion --------------------------
(***************************************************************************)
(* Checks the recursive member expansion against the reachability         *)
(* reference over every Group CR configuration on three group names and   *)
(* one user: every subset of names exists, each with any users and any    *)
(* members.groups (self-loops, cycles, diamonds and dangling references   *)
(* included).                                                              *)
(***************************************************************************)
EXTENDS MemberExpansion

CONSTANTS Names, UserNames

VARIABLE crs

CRSpec == [users : SUBSET UserNames, groups : SUBSET Names]

AllConfigurations == UNION { [D -> CRSpec] : D \in SUBSET Names }

Init == crs \in AllConfigurations

Next == UNCHANGED crs

Spec == Init /\ [][Next]_crs

TypeOK == crs \in AllConfigurations

\* The path-scoped cycle check of fetchUniqueGroupMembers terminates and
\* yields exactly the users of the groups reachable through members.groups,
\* and fails exactly when one of those groups has no CR.
ExpansionMatchesReachability ==
  \A g \in Names : ExpandMembers(g, crs) = ReferenceExpansion(g, Names, crs)
=============================================================================
