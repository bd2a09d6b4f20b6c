SPECIFICATION Spec
CONSTANTS
  e1 = e1
  i1 = i1
  k1 = k1
  s1 = s1
  s2 = s2
  s3 = s3
  x1 = x1
  x2 = x2
  c1 = c1
  c2 = c2
  c3 = c3
  a1 = a1
  a2 = a2
  r1 = r1
  t1 = t1
  t2 = t2
  Nobody = Nobody
  Expenses = {e1}
  Incomes = {i1}
  Checks = {k1}
  Students = {s1, s2, s3}
  Sessions = {x1, x2}
  Clients = {c1, c2, c3}
  Appointments = {a1, a2}
  Receipts = {r1}
  Known = {i1, s1, s2, x1, c1, c2, a1}
  Tabs = {t1, t2}
  Statuses = {"scheduled", "completed"}
  Lived = {}
  Slots = {1, 2}
  SessionForms <- MCSessionForms
  AppointmentForms <- MCAppointmentForms
  Desks <- MCDesks
  MaxCommands = 3
  MaxForeign = 1
  MaxRetries = 1
  RetryKinds = {"student", "session", "appointment", "receipt"}
SYMMETRY TabSymmetry
INVARIANTS
  NothingRefused
  ServerAgrees
  CollectionKeepsItsClient
  UndoneMeansCompensated
CHECK_DEADLOCK FALSE
