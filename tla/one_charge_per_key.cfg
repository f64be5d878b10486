CONSTANTS
  Requests = {r1, r2}
  Batch = {}
  Keys = {k1}
  NoKey = NoKey
  KeyOf <- SameKey
  MethodOf <- AllPix
  Installments = {i1}
  ItemsOf <- SameItems
  MaxAttempts = 1
  Outcomes = {"RECEIVED", "OVERDUE"}
  TemporalEnabled = FALSE
  MaxFaults = 0
  ActivityAttempts = 3
  Workers = {w1}
  Reconcilers = {}
  NoTx = NoTx
  NoCharge = NoCharge
  NoItem = NoItem
  NoEvent = NoEvent
SPECIFICATION Spec
CHECK_DEADLOCK FALSE
INVARIANTS OneChargePerKey
