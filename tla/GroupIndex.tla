------------------------------ MODULE GroupIndex ------------------------------
(***************************************************************************)
(* What the group entries and the user:groups reverse index of the cache  *)
(* promise, stated without the reconciler's steps.  The members of a      *)
(* group entry and the index change together, in one step, in two ways:  *)
(*   Commit(g, S): the entry of g becomes S, at a moment when every team  *)
(*     of g in a backend of its spec has exactly the members S (the       *)
(*     all-or-nothing rule: nothing is recorded while a backend is out of *)
(*     step);                                                              *)
(*   Clear(g): the group is forgotten (its deletion).                     *)
(* Backends change team memberships in any other step, never together    *)
(* with the index.                                                         *)
(***************************************************************************)
CONSTANTS Groups, Users, Backends,
          Declared    \* [Groups -> SUBSET Backends]: the backends of a spec

VARIABLES groupMembers,   \* [Groups -> SUBSET Users]: group:<g> members
          memberOf,       \* [Users -> SUBSET Groups]: user:groups:<e>
          teamMembers     \* [Backends -> [Groups -> SUBSET Users]]

absVars == <<groupMembers, memberOf, teamMembers>>

Memberships == [Backends -> [Groups -> SUBSET Users]]

Init ==
  /\ groupMembers = [g \in Groups |-> {}]
  /\ memberOf = [u \in Users |-> {}]
  /\ teamMembers \in Memberships

Commit(g, S) ==
  /\ \A b \in Declared[g] : teamMembers[b][g] = S
  /\ groupMembers' = [groupMembers EXCEPT ![g] = S]
  /\ memberOf' = [u \in Users |->
                    IF u \in S THEN memberOf[u] \cup {g} ELSE memberOf[u] \ {g}]
  /\ UNCHANGED teamMembers

Clear(g) ==
  /\ groupMembers' = [groupMembers EXCEPT ![g] = {}]
  /\ memberOf' = [u \in Users |-> memberOf[u] \ {g}]
  /\ teamMembers' \in Memberships

BackendStep ==
  /\ UNCHANGED <<groupMembers, memberOf>>
  /\ teamMembers' \in Memberships

Next ==
  \/ \E g \in Groups : Clear(g) \/ \E S \in SUBSET Users : Commit(g, S)
  \/ BackendStep

Spec == Init /\ [][Next]_absVars
=============================================================================
