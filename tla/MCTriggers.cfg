SPECIFICATION FairSpec
CONSTANTS
  o1 = o1
  o2 = o2
  o3 = o3
  o4 = o4
  o5 = o5
  OrderId <- FiveIds
  Requests <- TriggerMenu
  QuantityModulus = 16
  NoOrder = NoOrder
ACTION_CONSTRAINT IdsInOrder
INVARIANTS NotCrossed NoOverfill StopsSwept StopsDormant
PROPERTIES CallReturns
