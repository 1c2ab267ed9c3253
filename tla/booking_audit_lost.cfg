SPECIFICATION Spec
CONSTANTS
  None = None
  teacher = teacher
  student = student
  admin = admin
  filter = filter
  glue = glue
  Calls = {c1, c2}
  Users = {student, admin}
  RoleOf <- MCRoleOf
  BatchIds = {b1}
  BookingIds = {q1, q2}
  ResIds = {r1, r2}
  BlockIds = {k1}
  IncidentIds = {}
  Counts = {1}
  Equipment = {mill}
  Capacity <- MCCapacity
  EquipmentStates = {"ready"}
  Windows <- MCWindows
  Readings <- MCReadings
  Consumables = {filter}
  Quota <- MCQuota
  Quantities = {2}
  Faults = TRUE
INVARIANT ApprovalLogged
