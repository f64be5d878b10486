CONSTANTS
  Users = {u1, u2}
  NoOne = NoOne
  Slots = {s1, s2}
  MaxRequests = 4
  Drafts = {d1, d2}
  Events = {1, 2}
  NewDraft = NewDraft
  NewEvent = NewEvent
  Removed = Removed
  NoDraft = NoDraft
  PageLimit = 1
SPECIFICATION Spec
SYMMETRY Symmetry
CHECK_DEADLOCK FALSE
INVARIANTS TypeOK CursorMeetsEveryEvent
PROPERTIES AutosaveDiscardsOnlyWhatWasRead CancelledIsEditedOnlyByAStaleCopy
