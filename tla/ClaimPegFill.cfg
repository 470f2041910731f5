SPECIFICATION Spec
CONSTANTS
  o1 = o1
  o2 = o2
  o3 = o3
  o4 = o4
  o5 = o5
  OrderId <- FiveIds
  Requests <- ClaimMenu
  QuantityModulus = 16
  NoOrder = NoOrder
SYMMETRY SymmetricIds
INVARIANT PegsNoOverfill
