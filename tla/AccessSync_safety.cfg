SPECIFICATION Spec
CONSTANTS
  admin = admin
  ann = ann
  bob = bob
  corp = corp
  Emails = {admin, ann, bob}
  Domains = {corp}
  DomainOf <- MCDomainOf
  Pinned = {admin}
  Admins = {admin, ann}
  MaxDisables = 1
  MaxAttempts = 2
  MaxChanges = 2
  MaxEdits = 1
  MaxCrashes = 1
INVARIANTS TypeOK ChangeGetsARun
PROPERTIES OnlyWithdrawnAreDisabled
CHECK_DEADLOCK FALSE
