SPECIFICATION Broker
CONSTANTS
  m1 = m1
  m2 = m2
  o1 = o1
  Messages <- TwoMessages
  Outsiders <- OneOutsider
  Prefetch = 2
  Workers = 2
  MaxLosses = 2
INVARIANT HandlersBounded
INVARIANT ReturnsWhenIdle
PROPERTY ConsumptionResumes
PROPERTY RequestsEnd
