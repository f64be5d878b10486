CONSTANTS
  Requests = {r1}
  Batch = {}
  Keys = {k1}
  NoKey = NoKey
  KeyOf <- NoKeys
  MethodOf <- AllPix
  Installments = {i1}
  ItemsOf <- SameItems
  MaxAttempts = 1
  Outcomes = {"CONFIRMED", "RECEIVED", "OVERDUE"}
  TemporalEnabled = TRUE
  MaxFaults = 1
  ActivityAttempts = 3
  Workers = {w1, w2}
  Reconcilers = {p1}
  NoTx = NoTx
  NoCharge = NoCharge
  NoItem = NoItem
  NoEvent = NoEvent
SPECIFICATION Spec
CHECK_DEADLOCK FALSE
INVARIANTS TypeOK CompletedIsFunded EffectsAreFunded ChargesAreRecorded EventHasOneHandler PaidWorkflowIsSettled
PROPERTIES ImplementsSettlement
