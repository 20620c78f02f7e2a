SPECIFICATION Spec
CONSTANTS
  p = p
  Server = p
  MaxItems = 7
  MaxId = 4
  s1 = s1
  s2 = s2
  s3 = s3
  s4 = s4
  n1 = n1
  n2 = n2
  v1 = v1
  v2 = v2
  Ids = {s1, s2, s3, s4}
  Names = {n1, n2}
  Versions = {v1, v2}
  NoSchema = NoSchema
  NoId = NoId
  MaxSchemas = 3
  f1 = f1
  f2 = f2
  FieldNames = {f1, f2}
  Fields <- MCFields
  Values <- MCValues
  StrictMode = TRUE
  None = None
  Absent = Absent
  NaN = NaN
  Malformed = Malformed
  admin = admin
  user = user
  read = read
  doc = doc
  env = env
  prod = prod
  Roles = {admin, user}
  Actions = {read}
  Resources = {doc}
  Star = Star
  Keys = {env}
  ContextValues = {prod}
  NoValue = NoValue
  Askings <- MCAskings
  MaxPolicies = 2
  dark = dark
  ann = ann
  bob = bob
  Flags = {dark}
  Users = {ann, bob}
  NoUser = NoUser
  NoRole = NoRole
  FlagRoles = {admin}
  Rollouts <- MCRollouts
  Bucket <- MCBucket
  NoFlag = NoFlag
  Unset = Unset
SYMMETRY RegistriesSymmetry
INVARIANTS
  SharedIdsPaidFor
  IndexIsLive
  IndexIsNewest
  VerdictIsReference
  RelaxedAccepts
  DecisionIsReference
PROPERTIES
  RolloutOnlyGrows
  RefusalTurnsSwitchAtMost
