CONSTANTS
  Requests = {r1}
  Batch = {}
  Keys = {k1}
  NoKey = NoKey
  KeyOf <- NoKeys
  MethodOf <- AllPix
  Installments = {i1}
  ItemsOf <- SameItems
  MaxAttempts = 1
  Outcomes = {"RECEIVED", "OVERDUE"}
  TemporalEnabled = TRUE
  MaxFaults = 2
  ActivityAttempts = 3
  Workers = {w1}
  Reconcilers = {p1}
  NoTx = NoTx
  NoCharge = NoCharge
  NoItem = NoItem
  NoEvent = NoEvent
SPECIFICATION FairSpec
CHECK_DEADLOCK FALSE
PROPERTIES WaitingIsSettled StartedRunSettles
