CONSTANTS
  Requests = {r1}
  Batch = {r1}
  Keys = {k1}
  NoKey = NoKey
  KeyOf <- NoKeys
  MethodOf <- AllCard
  Installments = {i1}
  ItemsOf <- SameItems
  MaxAttempts = 1
  Outcomes = {"CONFIRMED", "RECEIVED"}
  TemporalEnabled = FALSE
  MaxFaults = 0
  ActivityAttempts = 3
  Workers = {w1, w2}
  Reconcilers = {}
  NoTx = NoTx
  NoCharge = NoCharge
  NoItem = NoItem
  NoEvent = NoEvent
SPECIFICATION Spec
CHECK_DEADLOCK FALSE
INVARIANTS AllocatedOnce
