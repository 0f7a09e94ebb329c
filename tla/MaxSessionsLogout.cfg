SPECIFICATION Spec
CONSTANTS
  Users = {u1}
  Tasks = {t1, t2}
  Kinds = {"use", "logout"}
  Faults = {"api"}
  MaxFaults = 1
  NoUser = NoUser
  Opener = Opener
  Nobody = Nobody
INVARIANTS
  LogoutFinal
