SPECIFICATION FairSpec
CONSTANTS
  u1 = u1
  u2 = u2
  Users = {u1, u2}
  N = 3
  Owner <- OwnerAlternate
  Direct = {}
  MaxItems = 1
  Pool = 4
  Edits = {u2}
  MaxCrashes = 1
INVARIANTS TypeOK MailedOnce QuietFirstDay
PROPERTIES NobodyHeldBack EveryMatchLeaves
