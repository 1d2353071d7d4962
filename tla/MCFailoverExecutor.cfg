CONSTANTS
  s1 = s1
  s2 = s2
  s3 = s3
  o1 = o1
  o2 = o2
  none = none
  Server <- MCServer
  None = none
  Op <- MCOp
  MaxEvents = 2
SPECIFICATION Spec
INVARIANTS
  TypeOK
  RecordedOnce
  CurrentIsRunning
  PendingIsOldPrimary
  OutcomeIsTrue
PROPERTIES
  RequestsFinish
CHECK_DEADLOCK FALSE
