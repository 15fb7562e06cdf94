SPECIFICATION LiveSpec
CONSTANTS
  e1 = e1
  e2 = e2
  i1 = i1
  s1 = s1
  Events = {e1, e2}
  Issues = {i1}
  IssueOf <- OneIssue
  Manual = {e2}
  Slots = {s1}
  MaxRetries = 1
  None = None
INVARIANTS
  TypeOK
  RunningHasOwner
  CancelIsSpent
  SlotIsOwn
PROPERTIES
  CancelLands
  ServiceSpec
  EventsSettle
