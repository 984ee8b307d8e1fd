CONSTANTS
  d1 = d1
  d2 = d2
  u1 = u1
  u2 = u2
  r1 = r1
  r2 = r2
  r3 = r3
  x1 = x1
  x2 = x2
  x3 = x3
  x4 = x4
  w1 = w1
  w2 = w2
  w3 = w3
  w4 = w4
  Devices = {d1, d2}
  Targets = {u1, u2}
  Rounds = {r1, r2, r3}
  Assignments = {x1, x2, x3, x4}
  RoundOf <- MCRoundOf
  TargetOf <- MCTargetOf
  DeviceOf <- MCDeviceOf
  OrderOf <- MCOrderOf
  Workers = {w1, w2, w3, w4}
  HostOf <- MCHostOf
  Operable = {d1, d2, x4}
  RoundCommands = {"running", "paused", "stopped"}
  Journey = {"identity_confirmed", "waiting_snapshot", "video_opening", "video_confirmed", "quota_reserved", "action_executing", "action_reconciling"}
  ClaimTTL = 1
  RunTTL = 2
  Gap = 2
  RetryDelay = 1
  MaxTime = 4
  MaxAttempts = 2
  Nobody = Nobody
SPECIFICATION MCSpec
INVARIANTS
  TypeOK
  TargetExclusive
  VisitsApart
  RoundCompletedIffDone
PROPERTIES
  OnlyFencedWrites
CHECK_DEADLOCK FALSE
