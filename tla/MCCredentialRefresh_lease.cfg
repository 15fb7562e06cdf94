SPECIFICATION FairSpec
CONSTANTS
  a = a
  b = b
  c = c
  p = p
  q = q
  None = None
  Procs = {p, q}
  Calls = {a, b, c}
  ProcOf <- Two
  Forced = {c}
  Probes = {b}
  Hasty = {a}
  Mortal = {q}
  MaxStall = 1
  MaxLogin = 1
INVARIANTS
  TypeOK
  RejectionIsProof
  OneAtATime
PROPERTIES
  
  LoginComesToRest
CHECK_DEADLOCK FALSE
