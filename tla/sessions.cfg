CONSTANTS
  Users = {u1, u2}
  NoOne = NoOne
  Slots = {s1, s2}
  MaxRequests = 4
  People = {ana, bia}
  Tokens = {t1, t2, t3, t4}
  NewUser = NewUser
  NoToken = NoToken
SPECIFICATION Spec
SYMMETRY Symmetry
CHECK_DEADLOCK FALSE
INVARIANTS TypeOK ExchangesAreBounded
PROPERTIES AccountsAreKept
