SPECIFICATION Spec
CONSTANTS
  s1 = s1
  s2 = s2
  g = g
  Students = {s1, s2}
  Groups = {g}
  Disciplines = {d1, d2}
  Periods = {p1}
  SelectionIds = {i1, i2, i3}
  Requests = {r1, r2}
  GroupOf <- OneGroup
  MaxCapacity = 2
  MaxChoices = 2
  StatusChoices = {"active"}
  TermChoices = {TRUE}
  NoRequest = NoRequest
  NoPeriod = NoPeriod
SYMMETRY Symmetry
INVARIANTS TypeOK NeverOverbooked QuotaRespected EnrolledSetsComplete
PROPERTY SeatBookSpec
CHECK_DEADLOCK FALSE
