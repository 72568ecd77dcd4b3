SPECIFICATION Spec
CONSTANTS
  Users = {a1, a2}
  InitialAdmins = {a1, a2}
  Roles = {"admin", "student"}
  Targets = {a1, a2}
  Requests = {r1, r2}
  Profiles = {p1}
  None = None
  MaxTokens = 0
  MaxPasswords = 0
  MaxResets = 0
INVARIANTS AdminRemains
