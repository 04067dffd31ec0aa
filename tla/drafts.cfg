SPECIFICATION Spec
CONSTANTS
  Apps = {a1}
  Menus = {m1, m2}
  Workers = {w1, w2}
  Types = {"page", "action"}
  Paths = {p1}
  NoMenu = NoMenu
  NoRoute = NoRoute
  NoWorker = NoWorker
  Reserved = {Overview}
  Overview = Overview
  MaxAppVersion = 2
  MaxMenuVersion = 2
  Requests = {"upsert", "delete", "publish", "update"}
  DefaultRoutes = {p1, NoRoute}
  Lookahead = 0
SYMMETRY Symmetry
INVARIANT ReleaseWellFormed
INVARIANT UpdatedEventIsCurrent
PROPERTY DefaultRouteReleased
