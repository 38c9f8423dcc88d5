CONSTANTS
  Names = {n1, n2, n3}
  UserNames = {u1}
SPECIFICATION Spec
INVARIANT ExpansionMatchesReachability
