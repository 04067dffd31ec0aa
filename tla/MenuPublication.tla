-------------------------- MODULE MenuPublication --------------------------
(***************************************************************************)
(* The application catalog, the mutable menu drafts and the immutable menu *)
(* releases of internal/application: requests served by concurrent workers *)
(* that read rows, validate what they read, and write in a transaction     *)
(* whose only guards are the version in the WHERE clause and the UNIQUE    *)
(* constraints.  Publication also takes a Redis lease that can expire      *)
(* while its holder is still at work.                                      *)
(*                                                                         *)
(* A database transaction is one step: it runs all of its statements or,   *)
(* on a stale version or a violated constraint, none.                      *)
(***************************************************************************)
EXTENDS MenuRules

CONSTANTS
  Apps,            \* application ids
  Workers,         \* goroutines serving requests
  NoWorker,        \* the publish lock is free
  MaxAppVersion,   \* bound on the version of an application
  MaxMenuVersion,  \* bound on the version of a menu
  Requests,        \* the kinds of request clients send
  DefaultRoutes,   \* default routes clients configure
  Lookahead        \* how far beyond the current version a client may guess

ASSUME PublicationAssumption ==
  /\ NoWorker \notin Workers
  /\ Apps # {}
  /\ DefaultRoutes # {} /\ DefaultRoutes \subseteq Paths \cup {Overview, NoRoute}
  /\ MaxAppVersion \in Nat /\ MaxMenuVersion \in Nat /\ Lookahead \in Nat

VARIABLES
  app,        \* applications: version 0 means the row does not exist
  menu,       \* application_menu_drafts, soft-deleted rows included
  releases,   \* application_menu_releases with their items
  outbox,     \* application_outbox_events of the catalog
  lock,       \* holder of "application:menu-publish:<app>"
  session     \* what each worker's current request has read so far

vars == <<app, menu, releases, outbox, lock, session>>

AppRow  == [version : Nat, published : Nat, route : DefaultRoutes]
MenuRow == [app : Apps, item : Draft, version : Nat, deleted : BOOLEAN]
Release == [app : Apps, number : Nat, items : SUBSET MenuItem]
Event   == [kind : {"created", "updated", "published"}, app : Apps,
            version : Nat, release : Nat]

Idle    == [pc |-> "idle"]
Session ==
  {Idle}
    \cup [pc : {"update"}, app : Apps, expected : Nat, route : DefaultRoutes,
          published : Nat]
    \cup [pc : {"insert"}, app : Apps, item : Draft]
    \cup [pc : {"rewrite"}, id : Menus, expected : Nat, item : Draft]
    \cup [pc : {"delete"}, id : Menus, expected : Nat]
    \cup [pc : {"locked"}, app : Apps, expected : Nat]
    \cup [pc : {"publish"}, app : Apps, expected : Nat, number : Nat,
          route : DefaultRoutes]
    \cup [pc : {"commit"}, app : Apps, expected : Nat, number : Nat,
          items : SUBSET MenuItem]
    \cup [pc : {"unlock"}, app : Apps]
    \cup [pc : {"navigate"}, app : Apps, number : Nat]

-----------------------------------------------------------------------------
Exists(a) == app[a].version > 0
Live(id)  == menu[id].version > 0 /\ ~ menu[id].deleted

ListDraftMenus(a) ==
  {Item(id, menu[id].item) : id \in {i \in Menus : Live(i) /\ menu[i].app = a}}

(* A client's expected version: one it has read, or, with Lookahead, one   *)
(* it guesses.  The upper bound only keeps the instances finite.           *)
Expected(current, max) == {e \in 1 .. (current + Lookahead) : e < max}

Becomes(w, s) == session' = [session EXCEPT ![w] = s]

(* What the WHERE clauses and the UNIQUE constraints let through.          *)
AnyAppVersion(a, e) == Exists(a)
AtVersion(a, e) == Exists(a) /\ app[a].version = e

MenuAtVersion(id, e) == Live(id) /\ menu[id].version = e

HasEnabledChildren(id) ==
  \E m \in ListDraftMenus(menu[id].app) : m.parent = id /\ m.active
HasChildren(id) == \E m \in ListDraftMenus(menu[id].app) : m.parent = id

EventForgotten(kind, a, version, release) == UNCHANGED outbox
AddEvent(kind, a, version, release) ==
  outbox' = outbox \cup
    {[kind |-> kind, app |-> a, version |-> version, release |-> release]}

InsertDuplicate(a, n, items) ==
  releases' = releases \cup {[app |-> a, number |-> n, items |-> items]}
ReplaceRelease(a, n, items) ==
  releases' = {r \in releases : r.app # a \/ r.number # n}
                \cup {[app |-> a, number |-> n, items |-> items]}
ReuseEqualRelease(a, n, items) ==
  releases' = IF \E r \in releases : r.app = a /\ r.items = items THEN releases
              ELSE releases \cup {[app |-> a, number |-> n, items |-> items]}
CreateRelease(a, n, items) ==
  /\ ~ \E r \in releases : r.app = a /\ r.number = n
  /\ releases' = releases \cup {[app |-> a, number |-> n, items |-> items]}

NumberOfCurrent(a) == app[a].published - 1
NextNumber(a) == app[a].published + 1

TrustDraft(route, items) == items # {} /\ validateDefaultRoute(route, items)
Publishable(route, items) ==
  /\ items # {}
  /\ validateMenuTree(items)
  /\ validateMenuRoutes(items)
  /\ validateDefaultRoute(route, items)

NoRow == [app |-> CHOOSE a \in Apps : TRUE,
          item |-> [parent |-> NoMenu, type |-> CHOOSE t \in Types \ {"action"} : TRUE,
                    path |-> Overview, active |-> FALSE],
          version |-> 0, deleted |-> FALSE]

Init ==
  /\ app = [a \in Apps |-> [version |-> 0, published |-> 0, route |-> CHOOSE r \in DefaultRoutes : TRUE]]
  /\ menu = [id \in Menus |-> NoRow]
  /\ releases = {}
  /\ outbox = {}
  /\ lock = [a \in Apps |-> NoWorker]
  /\ session = [w \in Workers |-> Idle]

-----------------------------------------------------------------------------
(* CreateApplication: the row and its event in one transaction.            *)
CreateApplication(a, route) ==
  /\ ~ Exists(a)
  /\ app' = [app EXCEPT ![a] =
               [version |-> 1, published |-> 0, route |-> route]]
  /\ AddEvent("created", a, 1, 0)
  /\ UNCHANGED <<menu, releases, lock, session>>

(* UpdateApplication reads the row first; the event it will write embeds   *)
(* the published release of that read.                                     *)
ReadForUpdate(w, a, route) ==
  /\ session[w].pc = "idle" /\ Exists(a)
  /\ \E e \in Expected(app[a].version, MaxAppVersion) :
       Becomes(w, [pc |-> "update", app |-> a, expected |-> e,
                   route |-> route, published |-> app[a].published])
  /\ UNCHANGED <<app, menu, releases, outbox, lock>>

UpdateApplication(w) ==
  LET s == session[w] IN
  /\ s.pc = "update"
  /\ AtVersion(s.app, s.expected)
  /\ app' = [app EXCEPT ![s.app].version = @ + 1, ![s.app].route = s.route]
  /\ AddEvent("updated", s.app, s.expected + 1, s.published)
  /\ Becomes(w, Idle)
  /\ UNCHANGED <<menu, releases, lock>>

-----------------------------------------------------------------------------
(* UpsertMenu validates against the draft of the application the request   *)
(* names.  A create may carry any id and any status: the row inserted gets *)
(* a fresh id and is active.                                               *)
ValidateInsert(w, a, d, named) ==
  /\ session[w].pc = "idle" /\ Exists(a)
  /\ validateMenu(ListDraftMenus(a), Item(named, d))
  /\ Becomes(w, [pc |-> "insert", app |-> a,
                 item |-> [d EXCEPT !.active = TRUE]])
  /\ UNCHANGED <<app, menu, releases, outbox, lock>>

InsertMenu(w) ==
  LET s == session[w] IN
  /\ s.pc = "insert"
  /\ \E id \in Menus :
       /\ menu[id].version = 0
       /\ menu' = [menu EXCEPT ![id] = [app |-> s.app, item |-> s.item,
                                        version |-> 1, deleted |-> FALSE]]
  /\ Becomes(w, Idle)
  /\ UNCHANGED <<app, releases, outbox, lock>>

(* An update is validated against application a, whatever application the  *)
(* row belongs to: the row keeps its own.                                  *)
ValidateRewrite(w, a, id, d) ==
  /\ session[w].pc = "idle" /\ Exists(a) /\ Live(id)
  /\ validateMenu(ListDraftMenus(a), Item(id, d))
  /\ \E e \in Expected(menu[id].version, MaxMenuVersion) :
       Becomes(w, [pc |-> "rewrite", id |-> id, expected |-> e, item |-> d])
  /\ UNCHANGED <<app, menu, releases, outbox, lock>>

RewriteMenu(w) ==
  LET s == session[w] IN
  /\ s.pc = "rewrite"
  /\ MenuAtVersion(s.id, s.expected)
  /\ menu' = [menu EXCEPT ![s.id].item = s.item, ![s.id].version = @ + 1]
  /\ Becomes(w, Idle)
  /\ UNCHANGED <<app, releases, outbox, lock>>

(* DeleteMenu refuses a menu that has children when it looks.              *)
CheckDelete(w, id) ==
  /\ session[w].pc = "idle" /\ Live(id)
  /\ ~ HasChildren(id)
  /\ \E e \in Expected(menu[id].version, MaxMenuVersion) :
       Becomes(w, [pc |-> "delete", id |-> id, expected |-> e])
  /\ UNCHANGED <<app, menu, releases, outbox, lock>>

DeleteMenu(w) ==
  LET s == session[w] IN
  /\ s.pc = "delete"
  /\ MenuAtVersion(s.id, s.expected)
  /\ menu' = [menu EXCEPT ![s.id].deleted = TRUE, ![s.id].version = @ + 1]
  /\ Becomes(w, Idle)
  /\ UNCHANGED <<app, releases, outbox, lock>>

-----------------------------------------------------------------------------
(* PublishMenus: the lease, then publishMenusWithLease.                    *)
TryPublishLock(w, a) ==
  /\ session[w].pc = "idle"
  /\ lock[a] = NoWorker
  /\ lock' = [lock EXCEPT ![a] = w]
  /\ \E e \in Expected(app[a].version, MaxAppVersion) :
       Becomes(w, [pc |-> "locked", app |-> a, expected |-> e])
  /\ UNCHANGED <<app, menu, releases, outbox>>

ReadForPublish(w) ==
  LET s == session[w] IN
  /\ s.pc = "locked" /\ Exists(s.app)
  /\ Becomes(w, [pc |-> "publish", app |-> s.app, expected |-> s.expected,
                 number |-> NextNumber(s.app), route |-> app[s.app].route])
  /\ UNCHANGED <<app, menu, releases, outbox, lock>>

ValidateDraft(w) ==
  LET s == session[w]
      items == ListDraftMenus(s.app)
  IN
  /\ s.pc = "publish"
  /\ Publishable(s.route, items)
  /\ Becomes(w, [pc |-> "commit", app |-> s.app, expected |-> s.expected,
                 number |-> s.number, items |-> items])
  /\ UNCHANGED <<app, menu, releases, outbox, lock>>

(* The transaction: the release and its items (UNIQUE on application and   *)
(* number), the application's published_release (version in the WHERE      *)
(* clause), and the event.                                                 *)
CommitRelease(w) ==
  LET s == session[w] IN
  /\ s.pc = "commit"
  /\ CreateRelease(s.app, s.number, s.items)
  /\ AtVersion(s.app, s.expected)
  /\ app' = [app EXCEPT ![s.app].version = @ + 1, ![s.app].published = s.number]
  /\ AddEvent("published", s.app, 1, s.number)
  /\ Becomes(w, [pc |-> "unlock", app |-> s.app])
  /\ UNCHANGED <<menu, lock>>

(* TryWithLock releases the lock only if it still owns it.                 *)
Unlock(w) ==
  LET s == session[w] IN
  /\ s.pc = "unlock"
  /\ lock' = [lock EXCEPT ![s.app] = IF @ = w THEN NoWorker ELSE @]
  /\ Becomes(w, Idle)
  /\ UNCHANGED <<app, menu, releases, outbox>>

-----------------------------------------------------------------------------
(* A request stops early on a refused validation, a stale version, a       *)
(* violated constraint, a database error or its timeout; nothing of its    *)
(* transaction remains.  A publication still releases its lock.            *)
Abort(w) ==
  LET s == session[w] IN
  /\ s.pc \notin {"idle", "unlock"}
  /\ Becomes(w, IF s.pc \in {"locked", "publish", "commit"}
                THEN [pc |-> "unlock", app |-> s.app] ELSE Idle)
  /\ UNCHANGED <<app, menu, releases, outbox, lock>>

(* The process dies: its lock stays until the lease runs out.              *)
Crash(w) ==
  /\ session[w].pc # "idle"
  /\ Becomes(w, Idle)
  /\ UNCHANGED <<app, menu, releases, outbox, lock>>

(* The lease is 30 seconds and nobody extends it.                          *)
LeaseExpires(a) ==
  /\ lock[a] # NoWorker
  /\ lock' = [lock EXCEPT ![a] = NoWorker]
  /\ UNCHANGED <<app, menu, releases, outbox, session>>

(* GetPublishedNavigation reads the application, then the release it names.*)
ReadForNavigation(w, a) ==
  /\ session[w].pc = "idle"
  /\ app[a].published # 0
  /\ Becomes(w, [pc |-> "navigate", app |-> a, number |-> app[a].published])
  /\ UNCHANGED <<app, menu, releases, outbox, lock>>

ServeNavigation(w) ==
  LET s == session[w] IN
  /\ s.pc = "navigate"
  /\ \E r \in releases : r.app = s.app /\ r.number = s.number
  /\ Becomes(w, Idle)
  /\ UNCHANGED <<app, menu, releases, outbox, lock>>

-----------------------------------------------------------------------------
Step(w) ==
  \/ UpdateApplication(w) \/ InsertMenu(w) \/ RewriteMenu(w) \/ DeleteMenu(w)
  \/ ReadForPublish(w) \/ ValidateDraft(w) \/ CommitRelease(w) \/ Unlock(w)
  \/ ServeNavigation(w) \/ Abort(w)

Request(w) ==
  \/ /\ "update" \in Requests
     /\ \E a \in Apps, route \in DefaultRoutes : ReadForUpdate(w, a, route)
  \/ /\ "upsert" \in Requests
     /\ \E a \in Apps, d \in Draft :
          \/ \E named \in Menus \cup {NoMenu} : ValidateInsert(w, a, d, named)
          \/ \E id \in Menus : ValidateRewrite(w, a, id, d)
  \/ /\ "delete" \in Requests
     /\ \E id \in Menus : CheckDelete(w, id)
  \/ /\ "publish" \in Requests
     /\ \E a \in Apps : TryPublishLock(w, a)
  \/ /\ "navigate" \in Requests
     /\ \E a \in Apps : ReadForNavigation(w, a)

Next ==
  \/ \E a \in Apps, route \in DefaultRoutes : CreateApplication(a, route)
  \/ \E a \in Apps : LeaseExpires(a)
  \/ \E w \in Workers : Request(w) \/ Step(w) \/ Crash(w)

Spec == Init /\ [][Next]_vars

-----------------------------------------------------------------------------
(* Every variable has its type: rows are complete, and a worker's session  *)
(* holds exactly what its handler has read at that point.                  *)
TypeOK ==
  /\ app \in [Apps -> AppRow]
  /\ menu \in [Menus -> MenuRow]
  /\ releases \subseteq Release
  /\ outbox \subseteq Event
  /\ lock \in [Apps -> Workers \cup {NoWorker}]
  /\ session \in [Workers -> Session]

(* The releases of an application are numbered 1 .. published_release,     *)
(* without a gap and one release per number, although publishers may       *)
(* overlap once a lease has expired and clients may send versions they     *)
(* never read (publishMenusWithLease computes the number from an old read).*)
ReleaseNumbering ==
  /\ \A a \in Apps :
       {r.number : r \in {q \in releases : q.app = a}} = 1 .. app[a].published
  /\ \A r, q \in releases : r.app = q.app /\ r.number = q.number => r = q

(* Whatever concurrent upserts and deletes make of a draft, a release is a *)
(* forest of menus whose parents it contains, with one menu per route: the *)
(* rows validated are the rows inserted.                                   *)
ReleaseWellFormed ==
  \A r \in releases : r.items # {} /\ WellFormed(r.items)

(* A reader that has seen published_release = n finds release n, however   *)
(* many publications commit between its two reads.                         *)
NavigationFindsRelease ==
  \A w \in Workers : session[w].pc = "navigate" =>
    \E r \in releases : r.app = session[w].app /\ r.number = session[w].number

(* "Publish an immutable menu release": no step changes or drops a release.*)
ReleasesImmutable == [][releases \subseteq releases']_vars

(* When clients send only versions they have read, the default route of    *)
(* the application row is a leaf of the release at the moment it becomes   *)
(* the published one, although validateDefaultRoute looked at an earlier   *)
(* read of that row.                                                       *)
DefaultRouteReleased ==
  [][\A a \in Apps : app'[a].published # app[a].published =>
       \E r \in releases' :
         /\ r.app = a /\ r.number = app'[a].published
         /\ validateDefaultRoute(app'[a].route, r.items)]_vars

EventsOf(a, k) == {e \in outbox : e.app = a /\ e.kind = k}

(* Consumers can account for every version of an application: one created  *)
(* event, one per update, one per publication, none for a write that lost. *)
EveryVersionHasItsEvent ==
  \A a \in Apps :
    /\ app[a].version = Cardinality({e \in outbox : e.app = a})
    /\ app[a].published = Cardinality(EventsOf(a, "published"))

(* When clients send only versions they have read, the published_release   *)
(* embedded in an "updated" event is the one of the version it announces,  *)
(* though it was read before the transaction: version v is the creation,   *)
(* the updates up to v and that many publications.                         *)
UpdatedEventIsCurrent ==
  \A a \in Apps : \A e \in EventsOf(a, "updated") :
    e.version = 1 + e.release
      + Cardinality({f \in EventsOf(a, "updated") : f.version <= e.version})

(* With one client at a time every draft stays a forest: validateMenu and  *)
(* the child check of DeleteMenu together keep it one.                     *)
DraftIsTree == \A a \in Apps : validateMenuTree(ListDraftMenus(a))

(* "parent menu does not exist in application": the parent of a live menu  *)
(* is a menu of the same application.                                      *)
ParentInApplication ==
  \A id \in Menus : Live(id) /\ menu[id].item.parent # NoMenu =>
    menu[menu[id].item.parent].app = menu[id].app

(* The published releases, seen as the log of ReleaseLog.                  *)
Released(a, n) == CHOOSE r \in releases : r.app = a /\ r.number = n

Log == INSTANCE ReleaseLog WITH
  log <- [a \in Apps |-> [n \in 1 .. app[a].published |-> Released(a, n).items]]

(* Drafts, versions, leases and crashes implement an append-only log of    *)
(* well-formed releases per application.                                   *)
ImplementsReleaseLog == Log!Spec
=============================================================================
