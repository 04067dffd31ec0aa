SPECIFICATION FairSpec
CONSTANTS
  r1 = r1
  r2 = r2
  u1 = u1
  u2 = u2
  Replicas = {r1, r2}
  Home <- OneServes
  Writers = {w1, w2}
  Routes = {u1, u2}
  Statuses <- OneDisabled
  Seeded = {u1}
  MaxClock = 3
  MaxFailures = 1
INVARIANT TypeOK
INVARIANT WriterEnforces
PROPERTY PoliciesMoveForward
PROPERTY PollCatchesUp
