CONSTANTS
  d1 = d1
  d2 = d2
  b1 = b1
  b2 = b2
  parent = parent
  p1 = p1
  q1 = q1
  q2 = q2
  blank = blank
  s1 = s1
  s2 = s2
  n1 = n1
  n2 = n2
  Devices = {d1}
  Batches = {b1, b2}
  Parent = parent
  Rows = {p1, q1, q2}
  RoundOf <- MainRoundOf
  SecOf <- LaterSecOf
  IdOf <- NoIds
  NameOf <- LaterNameOf
  Blank = blank
  RoundCommands = {}
  MaxFailures = 0
  Nowhere = Nowhere
SPECIFICATION Spec
INVARIANTS
  OncePerAccount
CHECK_DEADLOCK FALSE
