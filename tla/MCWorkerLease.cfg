CONSTANTS
  d1 = d1
  d2 = d2
  a1 = a1
  o1 = o1
  o2 = o2
  l1 = l1
  l2 = l2
  l3 = l3
  Devices = {d1, d2}
  Accounts = {a1}
  Owners = {o1, o2}
  Launches = {l1, l2, l3}
  DeviceOf <- MCDeviceOf
  AccountOf <- MCAccountOf
  OwnerOf <- MCOwnerOf
  LeaseTTL = 2
  MaxTime = 4
  NoRow = NoRow
SPECIFICATION Spec
INVARIANTS
  TypeOK
  AccountExclusive
PROPERTIES
  AcceptedOpExclusive
  ImplementsTenancy
CHECK_DEADLOCK FALSE
