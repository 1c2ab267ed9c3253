SPECIFICATION FairSpec
CONSTANTS
  None = None
  teacher = teacher
  student = student
  admin = admin
  filter = filter
  glue = glue
  Calls = {c1, c2}
  Users = {admin, student}
  RoleOf <- MCRoleOf
  BatchIds = {b1}
  BookingIds = {q1}
  ResIds = {r1}
  BlockIds = {k1}
  IncidentIds = {}
  Counts = {1}
  Equipment = {mill}
  Capacity <- MCCapacity
  EquipmentStates = {"ready"}
  Windows <- MCTwoWindows
  Readings <- MCReadings
  Consumables = {filter}
  Quota <- MCQuota
  Quantities = {2}
  Faults = FALSE
PROPERTIES
  BlockClears
