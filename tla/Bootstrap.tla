----------------------------- MODULE Bootstrap -----------------------------
(***************************************************************************)
(* platform-bootstrap (internal/bootstrap): a reconciler that brings one   *)
(* application of a manifest about through the HTTP API, call by call.  An *)
(* attempt ends at the first call that fails; the Kubernetes Job starts    *)
(* the next one from nothing.  Other clients use the same API meanwhile.   *)
(*                                                                         *)
(* Applications of a manifest are reconciled one after the other and share *)
(* nothing; the module follows one.                                        *)
(***************************************************************************)
EXTENDS Naturals, FiniteSets

CONSTANTS
  Codes,          \* menu codes
  Parent,         \* parent code of each, or NoCode
  NoCode,
  Contents,       \* what a menu can be declared as
  Pages, Actions, \* the contents whose type is page, and action
  Malformed,      \* the contents whose own fields the service refuses
  Routes,         \* normalized routes
  Path,           \* the route of each menu, as each content
  Reserved,       \* the routes of the application itself ...
  Overview,       \* ... of which a default route may name this one
  NoRoute,        \* an empty default route
  CodeAccepted,   \* the service accepts the code of the application
  Manifests,      \* the manifests that are rolled out
  Tenants,        \* tenants the Job grants the application to
  Absent,         \* the content of a menu that does not exist
  BackoffLimit,   \* retries of the Job
  Operators,      \* the calls other clients make
  MaxCrashes,     \* attempts that die of something else than a refusal
  MaxEdits,       \* calls of other clients
  MaxManifests,   \* manifests rolled out
  MaxReruns       \* times a Job that has succeeded is run again

ASSUME BootstrapAssumption ==
  /\ NoCode \notin Codes /\ Absent \notin Contents /\ Contents # {}
  /\ Pages \subseteq Contents /\ Actions \subseteq Contents \ Pages
  /\ Malformed \subseteq Contents /\ Path \in [Codes -> [Contents -> Routes]]
  /\ Overview \in Reserved /\ Reserved \subseteq Routes /\ NoRoute \notin Routes
  /\ CodeAccepted \in BOOLEAN
  /\ Parent \in [Codes -> Codes \cup {NoCode}]
  /\ \A S \in (SUBSET Codes) \ {{}} : \E c \in S : Parent[c] \notin S
  /\ BackoffLimit \in Nat /\ MaxCrashes \in Nat /\ MaxEdits \in Nat
  /\ MaxManifests \in Nat /\ MaxReruns \in Nat

VARIABLES
  manifest,   \* what is declared of the application
  app,        \* the row of the application
  draft,      \* the rows of its menus
  release,    \* the menus of the published release
  grant,      \* the grants of the application
  run,        \* the attempt of the reconciler
  retries,    \* attempts of the current Job that failed
  crashes, edits, rollouts, reruns,   \* counters of the bounds
  settled,    \* the last attempt succeeded and nobody has written since
  disturbed   \* since the last publication, an attempt has stopped between
              \* its upserts and its publication, or another client has
              \* written a menu

server == <<app, draft, release, grant>>
bounds == <<crashes, edits, rollouts, reruns>>
flags  == <<settled, disturbed>>
vars   == <<manifest, server, run, retries, bounds, flags>>

(* What Validate accepts: parents are declared too, and those of actions   *)
(* are pages.                                                              *)
Manifest ==
  {m \in [menus : UNION {[S -> Contents] : S \in (SUBSET Codes) \ {{}}},
          route : Routes \cup {NoRoute}] :
     \A c \in DOMAIN m.menus :
       /\ Parent[c] \in DOMAIN m.menus \cup {NoCode}
       /\ m.menus[c] \in Actions =>
            Parent[c] # NoCode /\ m.menus[Parent[c]] \in Pages}

ASSUME ManifestsAssumption == Manifests # {} /\ Manifests \subseteq Manifest

(* "declared": the row is active and has the declared name, icon and so on.*)
(* Version 0: no row.                                                      *)
AppRow   == [version : Nat, route : Routes \cup {NoRoute}, declared : BOOLEAN,
             published : Nat]
MenuRow  == [version : Nat, content : Contents \cup {Absent},
             status : {"active", "", "disabled", "deleted"}]
GrantRow == [version : Nat, active : BOOLEAN]

Run == [pc : {"idle", "grants", "application", "menus", "upsert", "grant",
              "done"},
        app : AppRow, grants : [Tenants -> GrantRow], menus : [Codes -> MenuRow],
        todo : SUBSET Codes, tenants : SUBSET Tenants,
        changed : BOOLEAN,    \* a menu was upserted
        reports : BOOLEAN,    \* the result counts a change
        settled : BOOLEAN,    \* the state had converged when it started
        alone : BOOLEAN]      \* no other client wrote since it started

NoApp  == [version |-> 0, route |-> NoRoute, declared |-> FALSE, published |-> 0]
NoMenu == [version |-> 0, content |-> Absent, status |-> "active"]
NoGrant == [version |-> 0, active |-> FALSE]

IdleRun == [pc |-> "idle", app |-> NoApp, grants |-> [t \in Tenants |-> NoGrant],
            menus |-> [c \in Codes |-> NoMenu], todo |-> {}, tenants |-> {},
            changed |-> FALSE, reports |-> FALSE, settled |-> FALSE, alone |-> TRUE]

Init ==
  /\ manifest \in Manifests
  /\ app = NoApp
  /\ draft = [c \in Codes |-> NoMenu]
  /\ release = [c \in Codes |-> Absent]
  /\ grant = [t \in Tenants |-> NoGrant]
  /\ run = IdleRun
  /\ retries = 0 /\ crashes = 0 /\ edits = 0 /\ rollouts = 1 /\ reruns = 0
  /\ settled = FALSE /\ disturbed = FALSE

-----------------------------------------------------------------------------
(* The service's side of the calls.                                        *)
SameVersion(v) == v
NextVersion(v) == v + 1

Live(c) == draft[c].version > 0 /\ draft[c].status # "deleted"

(* An insert gives the menu status active; an update stores the status of  *)
(* the request, and the body of an HTTP request has none.  A code is       *)
(* UNIQUE among deleted rows too.                                          *)
InsertMenu(c, content) ==
  draft' = [draft EXCEPT ![c] = [version |-> 1, content |-> content, status |-> "active"]]
UpdateMenu(c, content, status) ==
  draft' = [draft EXCEPT ![c] = [version |-> NextVersion(@.version),
                                 content |-> content, status |-> status]]

(* The contents of a draft that take a route: of its menus with the status *)
(* active or none that are no actions.                                     *)
Routed(status, content) == status \in {"active", ""} /\ content \notin Actions
RoutedDraft ==
  [c \in Codes |-> IF Live(c) /\ Routed(draft[c].status, draft[c].content)
                   THEN draft[c].content ELSE Absent]

DraftIsTree ==
  \A c \in Codes : Live(c) => Parent[c] \in {NoCode} \cup {d \in Codes : Live(d)}

RoutesFree(view) ==
  \A c \in Codes : view[c] # Absent =>
    /\ Path[c][view[c]] \notin Reserved
    /\ \A d \in Codes \ {c} : view[d] # Absent => Path[d][view[d]] # Path[c][view[c]]

IsLeaf(view, c) == view[c] # Absent /\ \A d \in Codes : Parent[d] = c => view[d] = Absent
NamesLeaf(route, view) ==
  \/ route \in {NoRoute, Overview}
  \/ \E c \in Codes : IsLeaf(view, c) /\ Path[c][view[c]] = route

(* The parent is a live page, whatever the type of the menu itself.        *)
ParentAccepted(c) ==
  Parent[c] \in {NoCode} \cup {d \in Codes : Live(d) /\ draft[d].content \in Pages}

validateMenu(c, content, status) ==
  /\ content \notin Malformed /\ (content \in Actions => Parent[c] # NoCode)
  /\ ParentAccepted(c)
  /\ DraftIsTree
  /\ RoutesFree([RoutedDraft EXCEPT ![c] = IF Routed(status, content) THEN content ELSE Absent])

(* What a publication finds in the draft.                                  *)
Publishable ==
  /\ \E c \in Codes : Live(c)
  /\ DraftIsTree /\ RoutesFree(RoutedDraft) /\ NamesLeaf(app.route, RoutedDraft)

Publish ==
  /\ release' = [c \in Codes |-> IF Live(c) THEN draft[c].content ELSE Absent]
  /\ app' = [app EXCEPT !.version = NextVersion(@), !.published = @ + 1]
  /\ disturbed' = FALSE

-----------------------------------------------------------------------------
(* The reconciler's side.                                                  *)
applicationEqual(row) == row.declared /\ row.route = manifest.route

menuExists(row, content) == row.version > 0
menuEqual(row, content) ==
  row.version > 0 /\ row.content = content /\ row.status = "active"

OnlyFirstRelease(s) == s.app.published = 0
NeedsPublish(s) == s.changed \/ s.app.published = 0

NextInOrder(s) == {c \in s.todo : Parent[c] \notin s.todo}

(* Whether the service accepts the call the attempt makes next.            *)
AcceptsApplication(s) == app.version = s.app.version
AcceptsCreate(s) == CodeAccepted /\ AcceptsApplication(s)
AcceptsPublish(s) == AcceptsApplication(s) /\ Publishable

AlwaysInsert(s, c) == 0
ExpectedVersion(s, c) == s.menus[c].version

AcceptsMenu(s, c) ==
  /\ validateMenu(c, manifest.menus[c], "")
  /\ IF ExpectedVersion(s, c) = 0 THEN draft[c].version = 0
     ELSE Live(c) /\ draft[c].version = ExpectedVersion(s, c)

AcceptsGrant(s, t) == grant[t].version = s.grants[t].version

(* An attempt starts with ListApplications.                                *)
Start ==
  /\ run.pc = "idle" /\ retries <= BackoffLimit
  /\ run' = [IdleRun EXCEPT !.pc = IF Tenants = {} THEN "application" ELSE "grants",
                            !.app = app, !.tenants = Tenants, !.settled = settled]
  /\ UNCHANGED <<manifest, server, retries, bounds, flags>>

ListGrants(t) ==
  /\ run.pc = "grants" /\ t \in run.tenants
  /\ run' = [run EXCEPT !.grants[t] = grant[t], !.tenants = @ \ {t},
                        !.pc = IF run.tenants = {t} THEN "application" ELSE "grants"]
  /\ UNCHANGED <<manifest, server, retries, bounds, flags>>

(* A created application is a draft: it differs from the manifest.         *)
CreateApplication ==
  /\ run.pc = "application" /\ run.app.version = 0
  /\ AcceptsCreate(run)
  /\ app' = [NoApp EXCEPT !.version = 1, !.route = manifest.route]
  /\ run' = [run EXCEPT !.app = app', !.reports = TRUE]
  /\ UNCHANGED <<manifest, draft, release, grant, retries, bounds, flags>>

UpdateApplication ==
  /\ run.pc = "application" /\ run.app.version > 0 /\ ~ applicationEqual(run.app)
  /\ AcceptsApplication(run)
  /\ app' = [app EXCEPT !.version = NextVersion(@), !.route = manifest.route,
                        !.declared = TRUE]
  /\ run' = [run EXCEPT !.app = app', !.pc = "menus", !.reports = TRUE]
  /\ UNCHANGED <<manifest, draft, release, grant, retries, bounds, flags>>

KeepApplication ==
  /\ run.pc = "application" /\ run.app.version > 0 /\ applicationEqual(run.app)
  /\ run' = [run EXCEPT !.pc = "menus"]
  /\ UNCHANGED <<manifest, server, retries, bounds, flags>>

(* Menus the list shows as declared need no call.                          *)
ListMenus ==
  /\ run.pc = "menus"
  /\ LET listed == [c \in Codes |-> IF Live(c) THEN draft[c] ELSE NoMenu] IN
     run' = [run EXCEPT !.menus = listed, !.pc = "upsert",
               !.todo = {c \in DOMAIN manifest.menus : ~ menuEqual(listed[c], manifest.menus[c])}]
  /\ UNCHANGED <<manifest, server, retries, bounds, flags>>

(* Parents first, with the version the list showed; 0 inserts.             *)
UpsertMenu(c) ==
  /\ run.pc = "upsert" /\ c \in NextInOrder(run)
  /\ AcceptsMenu(run, c)
  /\ IF ExpectedVersion(run, c) = 0 THEN InsertMenu(c, manifest.menus[c])
     ELSE UpdateMenu(c, manifest.menus[c], "")
  /\ run' = [run EXCEPT !.todo = @ \ {c}, !.changed = TRUE, !.reports = TRUE]
  /\ UNCHANGED <<manifest, app, release, grant, retries, bounds, flags>>

PublishMenus ==
  /\ run.pc = "upsert" /\ run.todo = {} /\ NeedsPublish(run)
  /\ AcceptsPublish(run)
  /\ Publish
  /\ run' = [run EXCEPT !.pc = "grant", !.tenants = Tenants, !.reports = TRUE]
  /\ UNCHANGED <<manifest, draft, grant, retries, bounds, settled>>

KeepRelease ==
  /\ run.pc = "upsert" /\ run.todo = {} /\ ~ NeedsPublish(run)
  /\ run' = [run EXCEPT !.pc = "grant", !.tenants = Tenants]
  /\ UNCHANGED <<manifest, server, retries, bounds, flags>>

Grant(t) ==
  /\ run.pc = "grant" /\ t \in run.tenants /\ ~ run.grants[t].active
  /\ AcceptsGrant(run, t)
  /\ grant' = [grant EXCEPT ![t] = [version |-> @.version + 1, active |-> TRUE]]
  /\ run' = [run EXCEPT !.tenants = @ \ {t}, !.reports = TRUE]
  /\ UNCHANGED <<manifest, app, draft, release, retries, bounds, flags>>

KeepGrant(t) ==
  /\ run.pc = "grant" /\ t \in run.tenants /\ run.grants[t].active
  /\ run' = [run EXCEPT !.tenants = @ \ {t}]
  /\ UNCHANGED <<manifest, server, retries, bounds, flags>>

Succeed ==
  /\ run.pc = "grant" /\ run.tenants = {}
  /\ run' = [run EXCEPT !.pc = "done"]
  /\ settled' = run.alone
  /\ retries' = 0
  /\ UNCHANGED <<manifest, server, bounds, disturbed>>

(* A refused call ends the attempt, and the Job counts it.                 *)
Refused ==
  \/ run.pc = "application" /\ run.app.version = 0 /\ ~ AcceptsCreate(run)
  \/ /\ run.pc = "application" /\ run.app.version > 0
     /\ ~ applicationEqual(run.app) /\ ~ AcceptsApplication(run)
  \/ \E c \in NextInOrder(run) : run.pc = "upsert" /\ ~ AcceptsMenu(run, c)
  \/ /\ run.pc = "upsert" /\ run.todo = {} /\ NeedsPublish(run)
     /\ ~ AcceptsPublish(run)
  \/ \E t \in run.tenants :
       run.pc = "grant" /\ ~ run.grants[t].active /\ ~ AcceptsGrant(run, t)

Stop ==
  /\ run' = IdleRun /\ retries' = retries + 1
  /\ disturbed' = (disturbed \/ (run.pc = "upsert" /\ run.changed))

Fail ==
  /\ Refused
  /\ Stop
  /\ UNCHANGED <<manifest, server, bounds, settled>>

(* The pod dies, a call fails for a reason of the moment (a database that  *)
(* is down, a lock that is held), or a response is lost after the service  *)
(* did its part.                                                           *)
Crash ==
  /\ run.pc \notin {"idle", "done"} /\ crashes < MaxCrashes
  /\ crashes' = crashes + 1
  /\ Stop
  /\ settled' = FALSE
  /\ UNCHANGED <<manifest, server, edits, rollouts, reruns>>

(* Re-running the Job after it has succeeded.                              *)
Rerun ==
  /\ run.pc = "done" /\ reruns < MaxReruns
  /\ reruns' = reruns + 1
  /\ run' = IdleRun
  /\ UNCHANGED <<manifest, server, retries, crashes, edits, rollouts, flags>>

(* A new image brings another manifest, between attempts.                  *)
RollOut ==
  /\ run.pc \in {"idle", "done"} /\ rollouts < MaxManifests
  /\ rollouts' = rollouts + 1
  /\ manifest' \in Manifests
  /\ \/ UNCHANGED app
     \/ app' = [app EXCEPT !.declared = FALSE]
  /\ run' = IdleRun /\ retries' = 0
  /\ settled' = FALSE
  /\ UNCHANGED <<draft, release, grant, crashes, edits, reruns, disturbed>>

-----------------------------------------------------------------------------
(* The other clients.                                                      *)
Edited(kind) ==
  /\ kind \in Operators /\ edits < MaxEdits
  /\ edits' = edits + 1
  /\ run' = [run EXCEPT !.alone = FALSE]
  /\ settled' = FALSE
  /\ UNCHANGED <<manifest, retries, crashes, rollouts, reruns>>

(* Over gRPC a request may carry any status.                               *)
EditMenu(c, content, status) ==
  /\ Edited("menu")
  /\ app.version > 0 /\ validateMenu(c, content, status)
  /\ \/ draft[c].version = 0 /\ InsertMenu(c, content)
     \/ Live(c) /\ UpdateMenu(c, content, status)
  /\ disturbed' = TRUE
  /\ UNCHANGED <<app, release, grant>>

DeleteMenu(c) ==
  /\ Edited("delete")
  /\ Live(c) /\ ~ \E d \in Codes : Parent[d] = c /\ Live(d)
  /\ draft' = [draft EXCEPT ![c].status = "deleted", ![c].version = NextVersion(@)]
  /\ UNCHANGED <<app, release, grant, disturbed>>

EditApplication(route) ==
  /\ Edited("application")
  /\ app.version > 0
  /\ app' = [app EXCEPT !.version = NextVersion(@), !.route = route, !.declared = FALSE]
  /\ UNCHANGED <<draft, release, grant, disturbed>>

PublishByOperator ==
  /\ Edited("publish")
  /\ app.version > 0 /\ Publishable
  /\ Publish
  /\ UNCHANGED <<draft, grant>>

RevokeGrant(t) ==
  /\ Edited("revoke")
  /\ grant[t].version > 0
  /\ grant' = [grant EXCEPT ![t] = [version |-> @.version + 1, active |-> FALSE]]
  /\ UNCHANGED <<app, draft, release, disturbed>>

-----------------------------------------------------------------------------
Step ==
  \/ Start \/ CreateApplication \/ UpdateApplication \/ KeepApplication
  \/ ListMenus \/ PublishMenus \/ KeepRelease \/ Succeed \/ Fail
  \/ \E t \in Tenants : ListGrants(t) \/ Grant(t) \/ KeepGrant(t)
  \/ \E c \in Codes : UpsertMenu(c)

Others ==
  \/ \E c \in Codes, content \in Contents, status \in {"active", "", "disabled"} :
       EditMenu(c, content, status)
  \/ \E c \in Codes : DeleteMenu(c)
  \/ \E t \in Tenants : RevokeGrant(t)
  \/ \E route \in Routes \cup {NoRoute} : EditApplication(route)
  \/ PublishByOperator

Next == Step \/ Crash \/ Rerun \/ RollOut \/ Others

Spec == Init /\ [][Next]_vars

(* Kubernetes runs the Job's pods and the service answers; nobody else     *)
(* has to act.                                                             *)
FairSpec == Spec /\ WF_vars(Step)

-----------------------------------------------------------------------------
(* Every variable has its type, and each publication has moved the version *)
(* of the application.                                                     *)
TypeOK ==
  /\ manifest \in Manifests
  /\ app \in AppRow /\ draft \in [Codes -> MenuRow]
  /\ release \in [Codes -> Contents \cup {Absent}]
  /\ grant \in [Tenants -> GrantRow]
  /\ run \in Run
  /\ {retries, crashes, edits, rollouts, reruns} \subseteq Nat
  /\ settled \in BOOLEAN /\ disturbed \in BOOLEAN
  /\ app.version > 0 => app.published < app.version

(* An attempt that succeeds while nobody else writes leaves the            *)
(* application as declared, its declared menus live with the declared      *)
(* content, a release published and every tenant granted, wherever         *)
(* earlier attempts stopped.                                               *)
SuccessDeclares ==
  run.pc = "done" /\ run.alone =>
    /\ applicationEqual(app) /\ app.published > 0
    /\ \A c \in DOMAIN manifest.menus : Live(c) /\ draft[c].content = manifest.menus[c]
    /\ \A t \in Tenants : grant[t].active

(* What a successful attempt leaves published is what is declared          *)
(* ("publishes only changed menu drafts"), over any number of manifests,   *)
(* reruns and refusals, unless, since the last publication, an attempt     *)
(* that had upserted stopped before it published, be it because it died or *)
(* because the publication was refused, or another client wrote a menu.    *)
(* Then the code does not keep the promise: the next attempt sees nothing  *)
(* to change and succeeds without publishing.                              *)
UninterruptedPublishes ==
  run.pc = "done" /\ run.alone /\ ~ disturbed =>
    \A c \in DOMAIN manifest.menus : release[c] = manifest.menus[c]

-----------------------------------------------------------------------------
(* What no repetition of the Job gets past: the service refuses the        *)
(* manifest itself, or together with what is in the draft.                 *)

(* The code, or a declared menu for its own fields or for the type of its  *)
(* parent: validateMenu asks of every menu that its parent is a page, and  *)
(* Validate of actions only.                                               *)
ManifestRefused ==
  \/ ~ CodeAccepted
  \/ \E c \in DOMAIN manifest.menus :
       \/ manifest.menus[c] \in Malformed
       \/ Parent[c] # NoCode /\ manifest.menus[Parent[c]] \notin Pages

(* The code of a menu that somebody has deleted stays taken.               *)
CodeTaken == \E c \in DOMAIN manifest.menus : draft[c].status = "deleted"

(* The routes a menu has or is to have.                                    *)
Declared(c) == c \in DOMAIN manifest.menus /\ manifest.menus[c] \notin Actions
Claims(c) ==
  {Path[c][content] : content \in
     (IF Declared(c) THEN {manifest.menus[c]} ELSE {}) \cup ({RoutedDraft[c]} \ {Absent})}
RoutesClash ==
  \E c \in Codes :
    \/ Claims(c) \cap Reserved # {}
    \/ \E d \in Codes \ {c} : Claims(c) \cap Claims(d) # {}

(* The declared default route is no leaf of the draft that the attempt     *)
(* will leave: undeclared menus stay.                                      *)
Intended ==
  [c \in Codes |-> IF Declared(c) THEN manifest.menus[c]
                   ELSE IF c \in DOMAIN manifest.menus THEN Absent ELSE RoutedDraft[c]]

Blocked == ManifestRefused \/ CodeTaken \/ RoutesClash \/ ~ NamesLeaf(manifest.route, Intended)

(* When crashes and interfering calls are at most BackoffLimit, every Job  *)
(* succeeds that nothing of the above blocks: each failed attempt is the   *)
(* fault of a crash or of a call of somebody else, and an attempt can      *)
(* start from wherever an earlier one has stopped.                         *)
JobSucceeds == run.pc = "idle" /\ retries = 0 ~> run.pc = "done" \/ Blocked

(* "Re-running the Job is safe and reports zero changes once state         *)
(* converges".                                                             *)
RerunReportsNothing ==
  run.pc = "done" /\ run.alone /\ run.settled => ~ run.reports
=============================================================================
