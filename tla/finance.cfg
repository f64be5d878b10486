CONSTANTS
  Users = {ana, bia}
  NoOne = NoOne
  Slots = {s1, s2}
  MaxRequests = 2
  Splits = {r1}
  NewSplit = NewSplit
  NoSplit = NoSplit
  Parcelas = {"first", "second", "text"}
  TextIds = {"text"}
  Participants = {ana, "record"}
  Records = {"record"}
  ParcelaOf <- OneEach
  ParticipationsOf <- OneRecord
  EventOwner = ana
  PaidByCard = {"first"}
  Summaries = {1, 2}
SPECIFICATION Spec
SYMMETRY Symmetry
CHECK_DEADLOCK FALSE
INVARIANTS TypeOK ScreensAgree SecondSummaryOnlyInARace ClosedHasSnapshot
PROPERTIES CollectedFallsOnlyInARace ClosedIsWrittenOnlyFromAStaleCopy
