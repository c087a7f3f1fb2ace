CONSTANTS
  a1 = a1 k1 = k1 plain = plain padded = padded
  Agents = {a1, a2}
  Regs = {r1, r2}
  Names = {plain, padded}
  Keys = {k1, k2}
  Null = Null
  Stripped <- StripNames
  RegistrationTTL = 1
  PendingTTL = 1
  MaxPending = 2
  MaxHired = 1
  MaxCalls = 2
  Args = {x}
  Supplied = {mine}
  KeyTTL = 1
  IdemTTL = 1
  Timeout = 1
  BusyTimeout = 1
  Capacity = 6
  Cost = 3
  NoBucket = NoBucket
  Milli = 2
  MaxTime = 12
  MaxCharges = 6
  Logins = {l1, l2}
  Hosts = {h}
  NoOne = NoOne
  Delays <- TwoSteps
  MaxFailures = 3
  Lifetime = 2
  ShotTTL = 1
  MaxEpoch = 1
SPECIFICATION Spec
INVARIANTS TypeOK ClaimFollowsDecision NamesDistinct StaleKeyWindow RetrySafe EnvelopeTruth BucketBound WritesByAdmin
PROPERTIES ImplementsEnrolment PollingEnds RevocationTakesHold AttemptsSpaced
CHECK_DEADLOCK FALSE
