CONSTANTS
  Users = {org, ana, bia}
  Organizer = org
  NoOne = NoOne
  Slots = {s1, s2}
  MaxRequests = 5
  Links = {l1, l2, l3}
  Items = {i1}
  NoItem = NoItem
  Names = {cake}
  MaxPlaylists = 1
  MaxAlbumLinks = 1
  Gifts = {g1}
  NewGift = NewGift
  Removed = Removed
  MaxQuantity = 2
  Contributions = {c1}
  Valor <- SomeValor
  NewContribution = NewContribution
  Gone = Gone
SPECIFICATION Spec
SYMMETRY Symmetry
CHECK_DEADLOCK FALSE
INVARIANTS TypeOK SocialLimitsHold CountIsHonest
PROPERTIES ClaimsEndOnRequest SaldoFallsOnlyToALateRemoval
