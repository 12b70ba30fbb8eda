SPECIFICATION Spec
CONSTANTS
  Users = {u1, u2, u3}
  Bootstrap = {u1}
  Requests = {r1, r2}
  Workers = {w1}
  None = None
  MaxChanges = 3
INVARIANTS TypeOK
PROPERTIES LastAdminStays ErasedWereDue
CHECK_DEADLOCK FALSE
