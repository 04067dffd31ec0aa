SPECIFICATION Spec
CONSTANTS
  Apps = {a1, a2}
  Menus = {m1, m2}
  Workers = {w1}
  Types = {"page"}
  Paths = {p1}
  NoMenu = NoMenu
  NoRoute = NoRoute
  NoWorker = NoWorker
  Reserved = {Overview}
  Overview = Overview
  MaxAppVersion = 2
  MaxMenuVersion = 3
  Requests = {"upsert", "delete", "publish"}
  DefaultRoutes = {NoRoute}
  Lookahead = 0
INVARIANT ParentInApplication
