SPECIFICATION Spec
CONSTANTS
  Users = {u1}
  Tasks = {t1}
  Kinds = {"use", "phone", "status"}
  Faults = {}
  MaxFaults = 0
  NoUser = NoUser
  Opener = Opener
  Nobody = Nobody
PROPERTIES
  LoginStored
