SPECIFICATION AuctionSpec
CONSTANTS
  o1 = o1
  o2 = o2
  o3 = o3
  o4 = o4
  o5 = o5
  OrderId <- FourIds
  Requests <- AuctionMenu
  QuantityModulus = 16
  NoOrder = NoOrder
PROPERTY IcebergSurvives
