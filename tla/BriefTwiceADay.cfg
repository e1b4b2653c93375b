SPECIFICATION Spec
CONSTANTS
  u1 = u1
  u2 = u2
  Users = {u1}
  N = 2
  Owner <- OwnerOne
  Direct = {}
  MaxItems = 1
  Pool = 4
  Edits = {}
  MaxCrashes = 0
INVARIANTS OneBriefPerDay
