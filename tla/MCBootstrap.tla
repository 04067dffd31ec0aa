---------------------------- MODULE MCBootstrap ----------------------------
(* Bootstrap on a root menu and a child of it.                             *)
EXTENDS Bootstrap, TLC

CONSTANTS
  root, child, overview,
  page,       \* a page with a route of its own
  twin,       \* a page whose route is that of the page root
  dir,        \* a directory; as the child it names the workspace's route
  button,     \* an action
  broken      \* an external menu whose URL is malformed

ChildOfRoot == root :> NoCode @@ child :> root

PathOf ==
  [c \in {root, child} |->
     [x \in {page, twin, dir, button, broken} |->
        IF x = twin THEN root ELSE IF x = dir /\ c = child THEN overview ELSE c]]

Manifested(menus, route) == [menus |-> menus, route |-> route]

(* Manifests the service accepts ...                                       *)
TwoPages   == Manifested(root :> page @@ child :> page, child)
OnePage    == Manifested(root :> page, root)
WithAction == Manifested(root :> twin @@ child :> button, root)
(* ... and one for each way it can refuse one for good: a page under a     *)
(* directory, two menus with one route, a default route that is no leaf, a *)
(* malformed menu.                                                         *)
UnderDir  == Manifested(root :> dir @@ child :> page, NoRoute)
SameRoute == Manifested(root :> page @@ child :> twin, NoRoute)
NoLeaf    == Manifested(root :> page @@ child :> page, root)
Misfit    == Manifested(root :> broken, NoRoute)

Acceptable   == {TwoPages, OnePage, WithAction}
AllManifests == Acceptable \cup {UnderDir, SameRoute, NoLeaf, Misfit}
=============================================================================
