SPECIFICATION Spec
CONSTANTS
  Slots = {s1, s2}
  t1 = t1
  t2 = t2
  k1 = k1
  Tenants = {t1, t2}
  Admin = Admin
  Anonymous = Anonymous
  Forged = Forged
  App = App
  Keys = {k1}
  NoKey = NoKey
  BadKey = BadKey
  Inputs <- MCInputs
  Policies <- MCPolicies
  FailOpen = FALSE
  FailClosed = TRUE
  MaxSends = 3
  MaxFaults = 1
  MaxChanges = 1
CHECK_DEADLOCK FALSE
INVARIANT TypeOK
INVARIANT SuccessMeansApplied
INVARIANT AppliedOnce
INVARIANT RetryLearnsOutcome
INVARIANT OnlyAdmitted
INVARIANT TenantConfined
PROPERTY KeySettled
