\* Two callers while two worlds replace each other.
SPECIFICATION AccessSpec
CONSTANTS
  Callers = {c1, c2}
  Namespaces = {old, new}
  None = None
  TTL = 2
  Limit = 1
  MaxChanges = 2
  MaxFaults = 1
INVARIANTS
  TransactionsStayInTheirWorld
PROPERTIES
  AnswersAreFresh
  Recovers
