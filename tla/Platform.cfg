SPECIFICATION Spec
CONSTANTS
  Files = {f1, f2}
  Calls = {c1, c2, c3}
  NoFile = NoFile
  Instances = {i1, i2, i3}
  Registered = 2
  Nobody = Nobody
  Departed = Departed
  Terms = {t1, t2, t3}
  Managers = {m1, m2, m3}
  NoWrite = NoWrite
  r1 = r1
  r2 = r2
  r3 = r3
  web1 = web1
  web2 = web2
  Readers = {r1, r2, r3}
  Forced = {r2}
  Servers = {web1, web2}
  ServerOf <- Serving
  Timetables = {x, y}
  MaxAnswers = 4
  NoSnapshot = NoSnapshot
  NoReader = NoReader
  Students = {s1, s2}
  Requests = {q1, q2}
  Passes = {g1, g2}
  EndOfTime = 2
  ReminderLead = 1
  MaxEdits = 2
  None = None
  Askers = {k1, k2}
  Threshold = 2
  ResetAfter = 1
  Ttl = 1
  StaleFor = 1
  Retries = 1
  Never = Never
INVARIANTS
  PlatformTypeOK FilesKept DatabaseReady ChangesToldOnce
  ResponsesWhole AnnouncedOnce AnswersHonest ProbeAwaited
PROPERTIES CurrentTermKept PublicationFrozen
CHECK_DEADLOCK FALSE
