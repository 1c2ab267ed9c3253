SPECIFICATION WebSpec
CONSTANTS
  None = None
  teacher = teacher
  student = student
  admin = admin
  Calls = {c1, c2}
  Users = {teacher, student, admin}
  Enabled = {teacher, admin}
  Tokens = {t1, t2}
  TTL = 1
  Day = 2
  LastTime = 2
  RoleOf <- MCRoleOf
  BatchIds = {b1}
  BookingIds = {q1}
  ResIds = {}
  BlockIds = {k1}
  IncidentIds = {}
  Counts = {1}
  Equipment = {mill}
  Capacity <- MCCapacity
  EquipmentStates = {"ready"}
  Windows <- MCWindows
  Readings <- MCReadings
  Consumables = {}
  Quota <- MCQuota
  Quantities = {}
  Faults = TRUE
INVARIANTS
  WebTypeOK
  NoDeadSession
  RowsAuthorised
  DoneIsDone
PROPERTIES
  RecoverySpares
SYMMETRY Symmetry
