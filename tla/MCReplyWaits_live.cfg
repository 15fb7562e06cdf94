SPECIFICATION FairSpec
CONSTANTS
  main = main
  left = left
  right = right
  None = None
  Agents <- Team
  Parent <- Up
  MaxSend = 2
  MaxStart = 1
INVARIANT
  TypeOK
  WaitIsLive

  
  
CHECK_DEADLOCK FALSE
