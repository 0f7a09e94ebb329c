SPECIFICATION Spec
CONSTANTS
  Users = {u1}
  Tasks = {t1, t2}
  Kinds = {"use", "code", "logout"}
  Faults = {"worker", "chromium", "open", "timeout", "api"}
  MaxFaults = 1
  NoUser = NoUser
  Opener = Opener
  Nobody = Nobody
INVARIANTS
  TypeOK
  OneOpening
  ActiveImpliesStored
PROPERTIES
  CallsSettle
