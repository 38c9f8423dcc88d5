------------------------------ MODULE MCUsernaut ------------------------------
(***************************************************************************)
(* Instances of Usernaut for TLC.  Two groups where g1 lists g2 in        *)
(* members.groups; two users; backends named after their type.  Each cfg *)
(* picks one of the configurations below with "<-".                      *)
(***************************************************************************)
EXTENDS Usernaut

CONSTANTS g1, g2, u1, u2, b1, b2

\* b1 is a Snowflake backend, b2 a GitLab backend.
MCBackendType == [b \in {b1, b2} |-> IF b = b1 THEN "snowflake" ELSE "gitlab"]
\* Two backends the job offboards from: Snowflake and Fivetran.
MCBackendTypeDeletable == [b \in {b1, b2} |-> IF b = b1 THEN "snowflake" ELSE "fivetran"]

MCSubGroups == [g \in {g1, g2} |-> IF g = g1 THEN {g2} ELSE {}]
MCGroupBackends == [g \in {g1, g2} |-> IF g = g1 THEN <<b1, b2>> ELSE <<b1>>]
MCInitMembers == [g \in {g1, g2} |-> IF g = g1 THEN {u1} ELSE {u2}]

\* u2 already has a Snowflake account and g2 a Snowflake team (preloaded).
MCInitAccounts == [b \in {b1, b2} |-> IF b = b1 THEN {u2} ELSE {}]
MCInitTeams == [b \in {b1, b2} |-> IF b = b1 THEN {g2} ELSE {}]
\* GitLab also has u1 and g1's team already.
MCInitAccountsGitlab == [b \in {b1, b2} |-> IF b = b1 THEN {u2} ELSE {u1}]
MCInitTeamsGitlab == [b \in {b1, b2} |-> IF b = b1 THEN {g2} ELSE {g1}]

\* u1's email is contained in u2's (al@x and cal@x).
MCEmailContains == {<<u1, u2>>}

\* No backend declares depends_on.
MCNoDependsOn == [b \in {b1, b2} |-> {}]
\* LDAP-sync: b1 is a Rover backend and b2 a GitLab backend depending on
\* it; g1 lists GitLab before Rover, so its first GitLab step finds no
\* Rover team in the cache.
MCBackendTypeLdap == [b \in {b1, b2} |-> IF b = b1 THEN "rover" ELSE "gitlab"]
MCDependsOnRover == [b \in {b1, b2} |-> IF b = b2 THEN {b1} ELSE {}]
MCGroupBackendsLdap == [g \in {g1, g2} |-> IF g = g1 THEN <<b2, b1>> ELSE <<b1>>]

MCNoPreloadFailure == {}
MCGitlabPreloadFailure == {b2}
=============================================================================
