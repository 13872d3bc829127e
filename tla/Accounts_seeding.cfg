SPECIFICATION Spec
CONSTANTS
  AccountIds = {a1, a2}
  Emails = {e1, e2}
  Usernames <- UsernamesSent
  EmailLike = {e1, e2}
  Trimmed <- TrimSpace
  LoginRefuses = {e2}
  OperatorRoles = {"admin"}
  Requests = {r1, r2}
  Permissions <- OneOfEach
  Rank <- RankOfEach
  Granted <- SeedGranted
  None = None
  e1 = e1
  n1 = n1
  spaced = spaced
SYMMETRY Symmetry
INVARIANTS TypeOK SeedConverges RegisteredAsCustomers SuccessMeansCustomer RolesAsDeclared
PROPERTY LookupStable
