SPECIFICATION Spec
CONSTANTS
  s1 = s1
  s2 = s2
  g = g
  Students = {s1, s2}
  Groups = {g}
  Disciplines = {d1}
  Periods = {p1}
  SelectionIds = {i1, i2}
  Requests = {r1, r2}
  GroupOf <- OneGroup
  MaxCapacity = 2
  MaxChoices = 1
  StatusChoices = {"active"}
  TermChoices = {TRUE}
  NoRequest = NoRequest
  NoPeriod = NoPeriod
SYMMETRY Symmetry
INVARIANT FinalizedPeriodSettled
CHECK_DEADLOCK FALSE
