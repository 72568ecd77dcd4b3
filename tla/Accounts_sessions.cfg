SPECIFICATION Spec
CONSTANTS
  Users = {admin, student1, student2}
  InitialAdmins = {admin}
  Roles = {"admin", "student"}
  Targets = {student1, student2}
  Requests = {r1, r2}
  Profiles = {p1, p2}
  None = None
  MaxTokens = 3
  MaxPasswords = 1
  MaxResets = 1
INVARIANTS TypeOK CredentialsCurrent OneTokenPerSession ActiveProfileSelected
SYMMETRY Alike
CONSTRAINT Facets
