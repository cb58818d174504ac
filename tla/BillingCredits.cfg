CONSTANTS
  c1 = c1
  c2 = c2
  c3 = c3
  a1 = a1
  a2 = a2
  a3 = a3
  k1 = k1
  k2 = k2
  basic = basic
  pro = pro
  enterprise = enterprise
  None = None
  Calls = {}
  Rotators = {r1}
  Asks = {a1, a2, a3}
  Plans = {basic}
  PlanOps <- OnePlan
  PlanCredits <- OneCredit
  OverrideOps = None
  OverrideCredits = None
  MaxMonth = 2
  MaxCatchup = 2
  KeyOf <- MCKeyOf
  UnitsOf <- MCUnitsOf
  OverageOn = FALSE
  AskKeyOf <- MCAskKeyOf
  ReserveOf <- MCReserveOf
  RequestCap = None
  Unlimited = {}
  Metered = {basic}
  MaxCrashes = 0
  MaxEdits = 0
SPECIFICATION Spec
INVARIANTS
  WithinGrant
  CreditsAccounted
CHECK_DEADLOCK FALSE
