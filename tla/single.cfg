SPECIFICATION Spec
CONSTANTS
  Apps = {a1}
  Menus = {m1, m2, m3}
  Workers = {w1}
  Types = {"page", "action"}
  Paths = {p1}
  NoMenu = NoMenu
  NoRoute = NoRoute
  NoWorker = NoWorker
  Reserved = {Overview}
  Overview = Overview
  MaxAppVersion = 2
  MaxMenuVersion = 2
  Requests = {"upsert", "delete", "publish"}
  DefaultRoutes = {NoRoute}
  Lookahead = 0
SYMMETRY Symmetry
INVARIANT DraftIsTree
