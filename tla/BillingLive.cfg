CONSTANTS
  c1 = c1
  c2 = c2
  c3 = c3
  a1 = a1
  a2 = a2
  a3 = a3
  k1 = k1
  k2 = k2
  basic = basic
  pro = pro
  enterprise = enterprise
  None = None
  Calls = {c1, c2}
  Rotators = {r1}
  Asks = {}
  Plans = {basic}
  PlanOps <- OnePlan
  PlanCredits <- OneCredit
  OverrideOps = 2
  OverrideCredits = 2
  MaxMonth = 1
  MaxCatchup = 1
  KeyOf <- MCKeyOf
  UnitsOf <- MCUnitsOf
  OverageOn = TRUE
  AskKeyOf <- MCAskKeyOf
  ReserveOf <- MCReserveOf
  RequestCap = None
  Unlimited = {}
  Metered = {basic}
  MaxCrashes = 1
  MaxEdits = 0
SPECIFICATION FairSpec
PROPERTIES
  ImplementsMeter
  RotationCatchesUp
  CallsFinish
CHECK_DEADLOCK FALSE
