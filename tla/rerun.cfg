SPECIFICATION Spec
CONSTANTS
  root = root
  child = child
  page = page
  twin = twin
  dir = dir
  button = button
  broken = broken
  overview = overview
  Codes = {root, child}
  Parent <- ChildOfRoot
  NoCode = NoCode
  Contents = {page, twin, dir, button, broken}
  Pages = {page, twin}
  Actions = {button}
  Malformed = {broken}
  Routes = {root, child, overview}
  Path <- PathOf
  Reserved = {overview}
  Overview = overview
  NoRoute = NoRoute
  CodeAccepted = TRUE
  Manifests <- Acceptable
  Absent = Absent
  Tenants = {t1}
  BackoffLimit = 3
  Operators = {}
  MaxCrashes = 0
  MaxEdits = 0
  MaxManifests = 2
  MaxReruns = 1
INVARIANT RerunReportsNothing
CHECK_DEADLOCK FALSE
