SPECIFICATION Spec
CONSTANTS
  u1 = u1
  u2 = u2
  Users = {u1}
  N = 3
  Owner <- OwnerOne
  Direct = {"discord"}
  MaxItems = 1
  Pool = 4
  Edits = {}
  MaxCrashes = 1
INVARIANTS PostedOnce OneBriefUnlessRaced
