SPECIFICATION Spec
CONSTANTS
  Users = {u1}
  Tasks = {t1}
  Kinds = {"use", "logout"}
  Faults = {"worker", "chromium", "timeout"}
  MaxFaults = 1
  NoUser = NoUser
  Opener = Opener
  Nobody = Nobody
PROPERTIES
  RestoredFromStorage
