SPECIFICATION Spec
CONSTANTS
  key = key
  c1 = c1
  c2 = c2
  h1 = h1
  h2 = h2
  h3 = h3
  Keys = {key}
  Connections = {c1, c2}
  Commands = {h1, h2, h3}
  KeyOf <- MCKeyOf
  FirstAccounts <- MCFirstAccounts
SYMMETRY MCSymmetry
INVARIANTS
  TypeOK
  BansHold
  RolesAgree
  MaintenanceAdmitsStaffOnly
CHECK_DEADLOCK FALSE
