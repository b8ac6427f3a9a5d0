SPECIFICATION Spec
CONSTANTS
  None = None
  Never = Never
  Login = {l1, l2}
  MaxTries = 2
  MaxCodes = 2
  Request = {r1, r2}
  RequestLimit = 1
  PruneLimit = 1
  LastDate = 1
  MaxTokens = 2
  Key = {profiles, control}
  SeedKey = profiles
  Switch = control
  Stored = {profiles}
  MaxEdits = 2
  Admin = {admin}
  MaxEvents = 2
SYMMETRY Alike
INVARIANTS
  GuessesLimited
  OneCredential
  LogoutEndsGrants
  SavesAreWhole
CHECK_DEADLOCK FALSE
