----------------------------- MODULE MenuRules -----------------------------
(***************************************************************************)
(* The rules of internal/application/service.go on a set of menus: the     *)
(* tree, the routes, the default route, and the check of one upsert        *)
(* against the draft of its application.                                   *)
(*                                                                         *)
(* A menu is a record [id, parent, type, path, active].  NoMenu is the     *)
(* empty id: the parent of a root, and the id of a create request that     *)
(* names none.  "path" is the menu's normal form under the application's   *)
(* scope (normalizedMenuRoute), so two menus that are routed alike have    *)
(* equal paths; "active" is Status in {"", "active"}.                      *)
(***************************************************************************)
EXTENDS Naturals, FiniteSets

CONSTANTS
  Menus,          \* ids of menu rows
  NoMenu,         \* the empty id
  Types,          \* menu types in use
  Paths,          \* normalised routes
  Reserved,       \* paths of the application itself: <scope>, <scope>/overview
  Overview,       \* <scope>/overview, the workspace's path
  NoRoute         \* the empty default route

ASSUME MenusAssumption ==
  /\ NoMenu \notin Menus
  /\ Types \subseteq {"directory", "page", "action", "external"}
  /\ Types \ {"action"} # {}
  /\ Overview \in Reserved
  /\ NoRoute \notin Paths \cup Reserved

AllPaths == Paths \cup Reserved

(* The part of a menu a client writes.  An action has no route             *)
(* (validateMenu refuses one).                                             *)
Draft ==
  [parent : Menus \cup {NoMenu}, type : Types \ {"action"},
   path : AllPaths, active : BOOLEAN]
    \cup [parent : Menus, type : Types \cap {"action"},
          path : {NoRoute}, active : BOOLEAN]

Item(id, d) == [id |-> id, parent |-> d.parent, type |-> d.type,
                path |-> d.path, active |-> d.active]

MenuItem == {Item(id, d) : id \in Menus, d \in Draft}

(* Ids are primary keys, so an id names at most one item of a draft.       *)
ItemOf(items, id) == CHOOSE m \in items : m.id = id
Has(items, id)    == \E m \in items : m.id = id

isActiveRouteMenu(m) == m.active /\ m.type # "action"

(* The parent links above item m: Chain(items, m)[k] is where k steps up   *)
(* lead; a chain stops at the root (NoMenu) or at an id that has no item.  *)
Chain(items, m) ==
  LET up[k \in 0 .. Cardinality(items)] ==
        IF k = 0 THEN m.parent
        ELSE IF up[k - 1] # NoMenu /\ Has(items, up[k - 1])
             THEN ItemOf(items, up[k - 1]).parent
             ELSE up[k - 1]
  IN up

(* Every item is below the root: a chain that meets an id twice never      *)
(* ends, and one that meets a missing id stops there.                      *)
validateMenuTree(items) ==
  \A m \in items : Chain(items, m)[Cardinality(items)] = NoMenu

(* No two routed menus share a path, and none takes a reserved one.        *)
validateMenuRoutes(items) ==
  LET routed == {m \in items : isActiveRouteMenu(m)}
  IN  /\ \A m \in routed : m.path \notin Reserved
      /\ \A m, n \in routed : m.path = n.path => m.id = n.id

(* The default route is empty, the overview, or the path of a routed menu  *)
(* without routed children.                                                *)
validateDefaultRoute(route, items) ==
  \/ route \in {NoRoute, Overview}
  \/ \E m \in items :
       /\ isActiveRouteMenu(m)
       /\ m.path = route
       /\ ~ \E c \in items : isActiveRouteMenu(c) /\ c.parent = m.id

(* The check of an upsert of v against "items", the draft of the           *)
(* application the request names.  The item the request's id names, if     *)
(* any, is replaced by v.  Only an action needs a parent, but any parent   *)
(* has to be a page: finding one overwrites validActionParent.             *)
validateMenu(items, v) ==
  LET next == {m \in items : m.id # v.id} \cup {v}
  IN  /\ v.type = "action" => v.parent # NoMenu
      /\ v.parent # NoMenu =>
           Has(items, v.parent) /\ ItemOf(items, v.parent).type = "page"
      /\ validateMenuTree(next)
      /\ validateMenuRoutes(next)

(* What a release must be: every parent is released too, no cycle, no two  *)
(* menus on one route.                                                     *)
WellFormed(items) == validateMenuTree(items) /\ validateMenuRoutes(items)
=============================================================================
