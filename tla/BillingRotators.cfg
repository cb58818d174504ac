CONSTANTS
  c1 = c1
  c2 = c2
  c3 = c3
  a1 = a1
  a2 = a2
  a3 = a3
  k1 = k1
  k2 = k2
  basic = basic
  pro = pro
  enterprise = enterprise
  None = None
  Calls = {c1, c3}
  Rotators = {r1, r2}
  Asks = {}
  Plans = {basic, enterprise}
  PlanOps <- OnePlan
  PlanCredits <- OneCredit
  OverrideOps = None
  OverrideCredits = None
  MaxMonth = 2
  MaxCatchup = 1
  KeyOf <- MCKeyOf
  UnitsOf <- MCUnitsOf
  OverageOn = TRUE
  AskKeyOf <- MCAskKeyOf
  ReserveOf <- MCReserveOf
  RequestCap = None
  Unlimited = {}
  Metered = {basic, enterprise}
  MaxCrashes = 1
  MaxEdits = 1
SPECIFICATION Spec
INVARIANTS
  NoGap
  BillAddsUp
  CapturedOnce
PROPERTIES
  NoFreeOps
CHECK_DEADLOCK FALSE
