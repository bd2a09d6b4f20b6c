CONSTANTS
  a = a
  b = b
  t1 = t1
  t2 = t2
  Students = {a, b}
  Family = family
  Nobody = nobody
  Tabs = {t1, t2}
  Lessons = {1, 2}
  Setups <- MCSetups
  Amounts = {1, 4}
  Openings = {0, 2}
  MaxReceipts = 2
SPECIFICATION Spec
INVARIANTS MoneyFits Settled ShownIsOwed
CHECK_DEADLOCK FALSE
SYMMETRY Symmetric
