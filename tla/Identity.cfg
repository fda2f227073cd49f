CONSTANTS
  a1 = a1  a2 = a2  a3 = a3  r1 = r1  r2 = r2  p1 = p1  p2 = p2
  Accounts <- ThreeAccounts
  Requests <- TwoRequests
  Replicas <- TwoReplicas
  Scopes <- NoScopes
  MaxUsers = 2
  MaxTokens = 2
SPECIFICATION Spec
SYMMETRY Alike
INVARIANTS SuperuserSurvives EveryUserReachable OneTokenPerLogin OneSigningKey
PROPERTY PeopleKept
