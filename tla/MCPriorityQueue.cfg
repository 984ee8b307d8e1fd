CONSTANTS
  d1 = d1
  d2 = d2
  b1 = b1
  b2 = b2
  parent = parent
  p1 = p1
  q1 = q1
  q2 = q2
  blank = blank
  s1 = s1
  s2 = s2
  n1 = n1
  n2 = n2
  Devices = {d1, d2}
  Batches = {b1, b2}
  Parent = parent
  Rows = {p1, q1, q2}
  RoundOf <- MainRoundOf
  SecOf <- MainSecOf
  IdOf <- NoIds
  NameOf <- MainNameOf
  Blank = blank
  RoundCommands = {"running","paused","stopped"}
  MaxFailures = 1
  Nowhere = Nowhere
SYMMETRY Phones
SPECIFICATION Spec
INVARIANTS
  TypeOK
  RoundsClosedInTime
PROPERTIES
  ImplementsBarrier
CHECK_DEADLOCK FALSE
