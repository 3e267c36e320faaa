SPECIFICATION Spec
CONSTANTS
  g1 = g1
  g2 = g2
  g3 = g3
  g4 = g4
  t1 = t1
  Owner = owner
  Admin = admin
  Lost = x
  Guardian = {g1, g2, g3, g4}
  Tenant = {t1}
  Splits <- ResplitWider
  Device = {y}
  Joined = {t1}
  Changes = {}
  Together = {g1, g2}
  MaxSeq = 5
  MaxOf <- RacesOf
  Recorded = {}
  MaxRestart = 1
SYMMETRY Swapped
INVARIANTS TypeOK StatusFollowsCount DevicesCountAsServer QuarantineIsTheCut
PROPERTY TallyOnlyEarlier
