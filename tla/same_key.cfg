CONSTANTS
  Requests = {r1, r2}
  Batch = {r2}
  Keys = {k1}
  NoKey = NoKey
  KeyOf <- SameKey
  MethodOf <- AllCard
  Installments = {i1}
  ItemsOf <- SameItems
  MaxAttempts = 2
  Outcomes = {"CONFIRMED", "CANCELED"}
  TemporalEnabled = FALSE
  MaxFaults = 1
  ActivityAttempts = 3
  Workers = {w1}
  Reconcilers = {p1}
  NoTx = NoTx
  NoCharge = NoCharge
  NoItem = NoItem
  NoEvent = NoEvent
SPECIFICATION Spec
CHECK_DEADLOCK FALSE
INVARIANTS FundingHolds KeyNamesOneTransaction
