CONSTANTS
  Users = {ana, bia}
  NoOne = NoOne
  Slots = {s1, s2}
  MaxRequests = 4
  Payments = {p1}
  NewPayment = NewPayment
  Erased = Erased
  Configs = {1, 2}
  NewConfig = NewConfig
  Accounts = {a1, a2, a3}
  Cards = {v1}
  NewMethod = NewMethod
  MaxPosts = 2
  Dominios = {1, 2}
  Chaves = {k1}
  Copies = {1, 2, 3}
  NoDocument = NoDocument
  Notices = {1, 2}
  Templates = {t1}
  Absent = Absent
  Dropped = Dropped
  NoticePage = 1
  Uploads = {f1}
  NoUpload = NoUpload
SPECIFICATION Spec
SYMMETRY Symmetry
CHECK_DEADLOCK FALSE
INVARIANTS TypeOK VersionNamesItsFees DefaultsOverlapIsBounded DuplicatesAreBounded BadgeAgreesWithPages BrokenIsInterrupted
PROPERTIES FoundConfigIsLostOnlyByJavaKey OnlyStaleCopiesUndo
