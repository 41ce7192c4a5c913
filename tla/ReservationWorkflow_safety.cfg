SPECIFICATION Spec
CONSTANTS
  q1 = q1
  q2 = q2
  o1 = o1
  o2 = o2
  Queries = {q1, q2}
  Offers = {o1, o2}
  OfferQuery <- MCOfferQuery
  Terms = {a, b}
  MaxTime = 5
  MaxVersion = 3
INVARIANTS
  StateConsistent
  CommandAuthorized
  OrderAnswersRequest
PROPERTIES
  CommittedIsFinal
