CONSTANTS
  Users = {u1}
  NoOne = NoOne
  Slots = {s1, s2}
  MaxRequests = 3
  People = {ana}
  Tokens = {t1, t2, t3, t4}
  NewUser = NewUser
  NoToken = NoToken
SPECIFICATION Spec
SYMMETRY Symmetry
CHECK_DEADLOCK FALSE
INVARIANTS LogoutEndsSessions
