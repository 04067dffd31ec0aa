SPECIFICATION FairSpec
CONSTANTS
  root = root
  child = child
  page = page
  twin = twin
  dir = dir
  button = button
  broken = broken
  overview = overview
  Codes = {root, child}
  Parent <- ChildOfRoot
  NoCode = NoCode
  Contents = {page, twin, dir, button, broken}
  Pages = {page, twin}
  Actions = {button}
  Malformed = {broken}
  Routes = {root, child, overview}
  Path <- PathOf
  Reserved = {overview}
  Overview = overview
  NoRoute = NoRoute
  CodeAccepted = TRUE
  Manifests <- AllManifests
  Absent = Absent
  Tenants = {t1}
  BackoffLimit = 3
  Operators = {"menu", "delete", "application", "publish", "revoke"}
  MaxCrashes = 2
  MaxEdits = 1
  MaxManifests = 2
  MaxReruns = 1
INVARIANT TypeOK
INVARIANT SuccessDeclares
INVARIANT UninterruptedPublishes
PROPERTY JobSucceeds
CHECK_DEADLOCK FALSE
