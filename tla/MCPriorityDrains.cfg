CONSTANTS
  d1 = d1
  d2 = d2
  b1 = b1
  b2 = b2
  parent = parent
  p1 = p1
  q1 = q1
  q2 = q2
  blank = blank
  s1 = s1
  s2 = s2
  n1 = n1
  n2 = n2
  Devices = {d1, d2}
  Batches = {b1, b2}
  Parent = parent
  Rows = {p1, q1, q2}
  RoundOf <- MainRoundOf
  SecOf <- NamesakeSecOf
  IdOf <- NoIds
  NameOf <- MainNameOf
  Blank = blank
  RoundCommands = {}
  MaxFailures = 1
  Nowhere = Nowhere
SPECIFICATION FairSpec
INVARIANTS
  CoverageTraced
PROPERTIES
  Drains
CHECK_DEADLOCK FALSE
