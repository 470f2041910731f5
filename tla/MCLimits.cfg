SPECIFICATION Spec
CONSTANTS
  o1 = o1
  o2 = o2
  o3 = o3
  o4 = o4
  o5 = o5
  OrderId <- FiveIds
  Requests <- LimitMenu
  QuantityModulus = 4
  NoOrder = NoOrder
SYMMETRY SymmetricIds
INVARIANTS TypeOK BookIndexed LevelTotals NotCrossed Conserved FillOrKill CancelIsFinal
PROPERTIES TimePriority ImplementsLedger
