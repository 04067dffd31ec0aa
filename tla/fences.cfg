SPECIFICATION Spec
CONSTANTS
  Apps = {a1}
  Menus = {m1}
  Workers = {w1, w2}
  Types = {"page"}
  Paths = {p1}
  NoMenu = NoMenu
  NoRoute = NoRoute
  NoWorker = NoWorker
  Reserved = {Overview}
  Overview = Overview
  MaxAppVersion = 4
  MaxMenuVersion = 2
  Requests = {"update", "upsert", "delete", "publish", "navigate"}
  DefaultRoutes = {p1, NoRoute}
  Lookahead = 1
SYMMETRY Symmetry
INVARIANT TypeOK
INVARIANT ReleaseNumbering
INVARIANT NavigationFindsRelease
INVARIANT EveryVersionHasItsEvent
PROPERTY ReleasesImmutable
PROPERTY ImplementsReleaseLog
