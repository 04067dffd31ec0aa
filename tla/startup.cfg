SPECIFICATION FairSpec
CONSTANTS
  r1 = r1
  r2 = r2
  rpc1 = rpc1
  rpc2 = rpc2
  path1 = path1
  NoRoute = NoRoute
  Followed = r1
  Replicas = {r1, r2}
  Settings <- SettingsLookedAt
  Rpcs = {rpc1, rpc2}
  Paths = {path1}
  Declared <- OldAndNew
  MaxFailures = 1
  MaxStops = 1
INVARIANT TypeOK
INVARIANT WorkHasItsParts
INVARIANT ServesPrepared
INVARIANT ActiveRoutesAreServed
PROPERTY AllServe
CHECK_DEADLOCK FALSE
