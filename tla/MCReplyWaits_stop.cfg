SPECIFICATION Spec
CONSTANTS
  main = main
  left = left
  right = right
  None = None
  Agents <- Team
  Parent <- Up
  MaxSend = 2
  MaxStart = 0
PROPERTY NoFalseStop
SYMMETRY Subagents
CHECK_DEADLOCK FALSE
