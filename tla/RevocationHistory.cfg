SPECIFICATION Spec
CONSTANTS
  g1 = g1
  g2 = g2
  g3 = g3
  g4 = g4
  t1 = t1
  Owner = owner
  Admin = admin
  Lost = x
  Guardian = {g1, g2}
  Tenant = {t1}
  Splits <- OneSet
  Device = {y}
  Joined = {t1}
  Changes = {t1}
  Together = {}
  MaxSeq = 9
  MaxOf <- HistoryOf
  Recorded = {"invited", "joined", "removed"}
  MaxRestart = 0
SYMMETRY Swapped
INVARIANT DevicesCountAsServer
PROPERTY TallyOnlyEarlier
