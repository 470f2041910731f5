CONSTANTS
  batch = batch
  single1 = single1
  single2 = single2
  client = client
  Calls <- MCCalls
  Orders <- MCOrders
  Capacity = 2
  Sockets <- MCSockets
  MaxConnects = 2
SPECIFICATION Spec
CHECK_DEADLOCK FALSE
INVARIANTS
  TypeOK
  FirstInFirstOut
  AnswersMatch
PROPERTIES
  NeverBackwards
  Answered
  Fresh
