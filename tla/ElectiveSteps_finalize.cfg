SPECIFICATION FinalizeSpec
CONSTANTS
  g = g
  r1 = r1
  r2 = r2
  r3 = r3
  Students = {s1, s2}
  Groups = {g}
  Disciplines = {d1, d2}
  Periods = {p1}
  SelectionIds = {i1, i2}
  Requests = {r1, r2, r3}
  GroupOf <- OneGroup
  MaxCapacity = 2
  MaxChoices = 2
  StatusChoices = {"draft"}
  TermChoices = {}
  Archivable = {d1}
  NoRequest = NoRequest
  NoPeriod = NoPeriod
  Job <- FinalizeJobs
SYMMETRY FinalizeSymmetry
INVARIANTS TypeOK EnrolledAreOnRoll FinalizedPeriodSettled
CHECK_DEADLOCK FALSE
PROPERTY EnrolmentIsFinal
