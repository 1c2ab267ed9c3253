SPECIFICATION Spec
CONSTANTS
  None = None
  teacher = teacher
  student = student
  admin = admin
  filter = filter
  glue = glue
  Calls = {c1, c2}
  Users = {teacher, admin}
  RoleOf <- MCRoleOf
  BatchIds = {b1}
  BookingIds = {q1}
  ResIds = {r1}
  BlockIds = {k1}
  IncidentIds = {i1}
  Counts = {0, 1}
  Equipment = {mill}
  Capacity <- MCCapacity
  EquipmentStates = {"ready", "offline"}
  Windows <- MCTwoWindows
  Readings <- MCReadings
  Consumables = {filter, glue}
  Quota <- MCQuota
  Quantities = {0, 2}
  Faults = TRUE
SYMMETRY Symmetry
INVARIANTS
  StockConserved
  LedgerFollowsStatus
  SingleIssue
  AuditTruthful
PROPERTIES
  StatusFollowsCanMove
  ImplementsBook
