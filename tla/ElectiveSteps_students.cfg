SPECIFICATION StudentSpec
CONSTANTS
  g = g
  r1 = r1
  r2 = r2
  r3 = r3
  Students = {s1, s2}
  Groups = {g}
  Disciplines = {d1, d2}
  Periods = {p1}
  SelectionIds = {i1, i2, i3}
  Requests = {r1, r2, r3}
  GroupOf <- OneGroup
  MaxCapacity = 2
  MaxChoices = 2
  StatusChoices = {"draft", "active"}
  TermChoices = {FALSE}
  Archivable = {}
  NoRequest = NoRequest
  NoPeriod = NoPeriod
  Job <- StudentJobs
SYMMETRY StudentSymmetry
INVARIANTS SeatsCoverSelections CounterSettles
CHECK_DEADLOCK FALSE
