SPECIFICATION Spec
CONSTANTS
  Users = {u1, u2}
  Tasks = {t1}
  Kinds = {"use", "phone", "code", "logout"}
  Faults = {"worker", "chromium", "open"}
  MaxFaults = 2
  NoUser = NoUser
  Opener = Opener
  Nobody = Nobody
INVARIANTS
  StoredImpliesActive
  LogoutFinal
PROPERTIES
  SessionReturns
