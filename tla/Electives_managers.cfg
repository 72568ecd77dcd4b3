SPECIFICATION Spec
CONSTANTS
  s1 = s1
  s2 = s2
  g = g
  Students = {s1, s2}
  Groups = {g}
  Disciplines = {d1}
  Periods = {p1, p2}
  SelectionIds = {i1, i2}
  Requests = {r1, r2}
  GroupOf <- OneGroup
  MaxCapacity = 2
  MaxChoices = 1
  StatusChoices = {"draft", "active", "archived"}
  TermChoices = {TRUE, FALSE}
  NoRequest = NoRequest
  NoPeriod = NoPeriod
SYMMETRY Symmetry
INVARIANTS SeatsExact WritesSound RollMatchesEnrolment
PROPERTY SettledSelectionsStay
CHECK_DEADLOCK FALSE
