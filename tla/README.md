# Application service: TLA+ specifications and proofs

The application service keeps the platform's catalog of applications: their
menus, edited as drafts and published as immutable releases, the grants that
give tenants access to them, and the route policies of its own API. This
directory holds TLA+ modules of the parts whose correctness depends on the order
in which concurrent requests, crashes and retries happen, the TLC configurations
that check them on small instances, and TLAPS proofs about all of them: every
safety invariant a passing run checks is proved for every value of the constants,
under the hypotheses section 4 names.

    tlc -workers 2 -config fences.cfg MCMenuPublication     # one run
    tlapm MenuPublication_proofs.tla                        # the proofs of a module

`PROJECT.json` lists the components, the runs, the source lines each definition
stands for, the hazards, and for each property a mutation of a modelled
operation that breaks it. The mutated forms (`NumberOfCurrent`,
`InsertDuplicate`, ...) stand in the modules next to what they mutate; nothing
else refers to them.

## 1. The system

| Component | Source | State it keeps | Operations | Talks to |
|---|---|---|---|---|
| Catalog, menu drafts, releases | `internal/application/service.go`, `repository.go` | rows of `applications`, `application_menu_drafts`, `application_menu_releases` and their items | Create, Update, UpsertMenu, DeleteMenu, PublishMenus, GetPublishedNavigation | PostgreSQL, Redis lock, outbox, operation log |
| Menu rules | the same, `validateMenu`, `validateMenuTree`, `validateMenuRoutes`, `validateDefaultRoute` | none | pure checks of a draft | called by UpsertMenu and PublishMenus |
| Tenant grants and search projection | the same, Grant, Revoke, `searchProjectionVersion` | rows of `tenant_application_grants`; search documents in the outbox | Grant, Revoke, UpdateApplication | outbox, the search service |
| Bootstrap reconciler | `internal/bootstrap`, `cmd/platform-bootstrap` | none; it reads the service's | an attempt of a Kubernetes Job: applications, menus, publication, grants | the HTTP API |
| Route policies | `internal/routepolicy` | tables of routes and policies; an in-memory snapshot per replica | SyncRoutes, Set, Load, Notify, Run | PostgreSQL, a Redis channel, the middleware that evaluates the snapshot |
| Request path and idempotency | `internal/transport`, `internal/idempotency`, `internal/ratelimit` | Redis records by Idempotency-Key | the chain of middlewares or interceptors around a handler; begin, complete, fail | Redis, the policies, every handler |
| Outbox dispatch, event bus | `internal/app/eventbus.go` | published mark of the outbox rows | dispatch, clean | the platform's outbox and bus libraries |
| Outbound clients | `internal/grpcclient`, `internal/outbound` | the state of a circuit breaker per upstream | a call with retries | IAM, tenant service |
| Starting and stopping | `internal/app`, `internal/config`, `internal/migration`, `internal/database`, `internal/scheduler`, `cmd/api` | the configuration; what a process has open | load, validate, migrate, construct, start, stop | everything above |
| Health, metrics, tracing, logs, generated API documentation | the rest of `internal/` | none | | |

### How they interact

A handler runs in a goroutine of one of several replicas. It reads rows outside
any transaction, validates what it has read, and then runs one short transaction
that writes the row (its expected version in the `WHERE` clause), and inserts
the outbox event and, for a publication, the release (a `UNIQUE` constraint on
application and number). PublishMenus does so under a Redis lock with a lease of
30 seconds that nobody extends. An outbox dispatcher publishes the events
at least once; the search service keeps, for a document, the highest source
version it has seen. The bootstrap Job drives the same API as any other client.

Before a handler runs, its request has passed the key's format, rate limits,
authentication, the policy of its route and, for a command over either
transport, the idempotency record; authorization and the security log are calls to other
services through the outbound clients. All of these are there because a process
has opened them in order, registered its routes and loaded its policies before
it listened.

### What is hard about it

* Everything between a handler's reads and its transaction is open to the other
  replicas: the release number, the draft, the default route, the embedded
  release of an "updated" event, the application version of a search document,
  the children of a deleted menu.
* The lock's lease may end while its holder still works, so the lock may not be
  what makes publication correct.
* A reconciler attempt may die between any two calls, and the next one knows
  nothing but what the lists show.
* Source versions of search documents are put together from two versions that
  are read at different moments.
* A command may have been made and its client not know it: a lost answer, a
  failing operation log, a panic, a disconnect. The client retries, while the
  record of its key may still be in processing, may have run out, or may belong to
  somebody else's request.
* A retry in an outbound client repeats what may have taken effect, and several
  callers share one breaker while they fail, give up and time out.
* Replicas of two versions start, fail and stop at once and register their routes
  in one table, row by row.
* A replica loads its route policies by two queries and remembers how new they
  are by a third, while writers of any replica commit; the messages that would
  tell it may be lost, and the timestamp it polls is that of a statement, not of
  a commit.

The full list, with lines, is `hazards` in `PROJECT.json`.

### What makes each component correct

* Catalog and releases: numbers without gap or duplicate; a release never
  changes; the reader finds what the row names; every version of an application
  has one event.
* Menu rules: what passes is a forest with one menu per route, and the default
  route is one of its leaves.
* Grants: one history per tenant, no two documents with one source version, and
  the newest document agrees with the grant.
* Bootstrap: a successful attempt leaves the catalog as declared and, unless an
  earlier one stopped before its publication, published; interference and crashes
  within the Job's retries do not make it fail, nor anything but a manifest the
  service refuses for good; and a repeated Job changes nothing.
* Route policies: a snapshot never returns to an older policy, the replica that
  served a Set enforces it, and after changes stop polling brings every replica
  to the last state, unless the change is one that polling cannot see.
* Request path: an answer of success means the change was made, a command changes
  its row at most once however often it is sent, a retry under a live key learns
  the outcome and not that its own change made its version stale, nobody is served
  whom the policy did not admit, tenants see their own data only, and a request over
  HTTP settles the record of its key although its client has gone.
* Outbound: a retry never repeats an effect, only failed calls trip the breaker,
  and every call returns.
* Starting and stopping: what runs has the connections it uses, the policy poller
  apart, nothing is served
  before its policies are loaded, the routes registered as active are those of the
  version that runs, and replicas that hinder each other come to serve all the
  same.

## 2. The modules

| Module | Models | Used by |
|---|---|---|
| `MenuRules` | the pure rules on a set of menu items | `MenuPublication`, `ReleaseLog` |
| `MenuRules_proofs` | theorems about them | `MenuPublication_proofs` |
| `ReleaseLog` | what publication promises: per application an append-only log of well-formed releases | `MenuPublication` (`INSTANCE`, refinement) |
| `MenuPublication` | catalog, drafts, publication, lock, readers | |
| `MenuPublication_proofs` | theorems about it | |
| `GrantProjection` | Grant, Revoke, UpdateApplication and the search events | |
| `GrantProjection_proofs` | theorems about it | |
| `Bootstrap` | the reconciler against the API, other clients, crashes, reruns, new manifests | |
| `Bootstrap_proofs` | theorems about it | |
| `RoutePolicy` | Set, the refresh of every replica's snapshot, messages, the poll, failures and restarts | |
| `RoutePolicy_proofs` | theorems about it | |
| `Requests` | a request's way through both servers, the idempotency record, handler, logs and answer | |
| `Requests_proofs` | theorems about it | |
| `Outbound` | calls through the HTTP and the gRPC client, retries and breaker | |
| `Outbound_proofs` | theorems about it | |
| `Startup` | configuration, start and stop of the replicas, SyncRoutes | |
| `Startup_proofs` | theorems about it | |
| `MC*` | symmetry sets and model constants for TLC | the `.cfg` files |

The modules are not instantiated in one another, apart from `ReleaseLog`: each
keeps of its neighbours the one thing it depends on. `Requests` takes from the
catalog the version fence of a row, from the policies who is admitted, and from
an outbound call that it may fail; `Bootstrap` takes from the catalog the answers
of its API; `RoutePolicy` takes from the start that no handler runs before a
refresh, which is what `Startup` shows; `GrantProjection` takes from publication
that it moves the application's version.

### MenuPublication

| TLA+ | Code |
|---|---|
| `app[a]` | row of `applications`: `version`, `published_release`, default route; version 0 is no row |
| `menu[id]` | row of `application_menu_drafts`; deleted rows stay |
| `releases` | `application_menu_releases` with `application_menu_release_items` |
| `outbox` | rows of the outbox for created, updated and menu.published |
| `lock[a]` | owner of `application:menu-publish:<id>` |
| `session[w]` | the local variables of worker w's request: exactly what it has read |

A request is a chain of actions, one per read that another request may
invalidate and one for its transaction:
`ReadForUpdate`, `UpdateApplication`; `ValidateInsert`, `InsertMenu`;
`ValidateRewrite`, `RewriteMenu`; `CheckDelete`, `DeleteMenu`;
`TryPublishLock`, `ReadForPublish`, `ValidateDraft`, `CommitRelease`, `Unlock`;
`ReadForNavigation`, `ServeNavigation`. `Abort` ends one at any point (refused
validation, stale version, violated constraint, database error, timeout) and a
publication still releases its lock; `Crash` is the death of the process, which
leaves the lock to its lease (`LeaseExpires`, which may also strike a live
holder).

A transaction is one step because nothing in it reads a row that another
transaction may change in between: it inserts, and updates by version. The
triggers of migration 000005 increment `version` as well; they compute the same
value as the statement does. Menu rows have no version of the application in
their `WHERE` clause, and changing one does not move the application's version:
that is why the draft may change under a publisher.

Two details of UpsertMenu look odd and are the code's. A create is validated
with the id and the status the request carries (the gRPC request has both) but
inserted with a fresh id and status active. An update is validated against the
draft of the application the request names, and written to a row that keeps its
own application (finding `cross_app`). And `validateMenu` demands a page as
parent of every menu, not only of actions, since `validActionParent` is
overwritten for each (section 6).

Data that no property distinguishes (names, icons, sort order, permissions,
locales) is left out; a menu is its parent, type, path and whether it is active.

### GrantProjection

One application; `app` is its version, `grant[t]` the row of tenant t, `search`
and `changed` the two kinds of outbox events. `searchProjectionVersion` puts the
application's version above `GrantSpan` (2^32 in the code) values of the grant's,
with the truncation of the Go conversion. Clients send versions they have read.
UpdateApplication is the one transaction with a step in the middle: its UPDATE
takes the row lock and then it lists the grants in effect, so grants may change
before it commits. PublishMenus appears only as what moves the application's
version. Time is one step per grant (`ClockMoves`) that opens or closes its
window.

### Bootstrap

One application of the manifest, since applications share nothing. `manifest`
is what is declared; `app`, `draft`, `release`, `grant` are what the service
stores; `run` is an attempt with everything its lists returned. `Start` to
`Succeed` are the calls in the order of `Reconciler.Apply`; `Fail` is a refusal,
`Crash` anything else that ends an attempt, the loss of a response included
(the call's effect is already there). The service's side is the code's: an
insert gets status active, an update stores the status of the request, which the
HTTP body does not carry and a gRPC request may choose; a code stays taken when
its menu is deleted.

The service refuses what its code refuses. `validateMenu` looks at the fields of a
menu (`Malformed` contents stand for whatever it dislikes about them), its parent,
which must be a page, the tree and the routes; `Publishable` at the draft as a
whole: that there is one, its tree, its routes, and that the default route is the
route of a leaf. Both are written for a forest given once (`Parent`), because a menu
of the manifest keeps its parent: so there is no cycle, and a broken tree is a live
menu under one that is not. A manifest is its menus with their contents and the
default route; `Path` is the route of a menu as each content. `ManifestsAssumption`
admits every manifest `Validate` accepts (`Manifest`), the ones the service will
refuse included.

`disturbed` is no state of the code: it remembers that an attempt has stopped
between an upsert and the publication, or that another client has written a menu,
and nothing was published since.

### RoutePolicy

| TLA+ | Code |
|---|---|
| `policy[u]` | row of `route_policy_definitions` for route u; the version names the expression and the permissions Set wrote with it |
| `updatedAt[u]`, `clock` | the latest `updated_at` of the policy and its permissions; `statement_timestamp()`, which the trigger writes there |
| `session[w]` | a handler of `Service.Set`: in its transaction, refreshing, notifying |
| `loop[r]` | `Manager.Run` of replica r: before the server listens, waiting in `select`, reloading |
| `refresh[x]` | a thread inside `RefreshSource`, between which two queries |
| `snapshot[r]`, `revision[r]` | the compiled policies; `Manager.revision` |
| `hidden[r]` | no state of the code: the snapshot lacks a change that a poll will not find |

The transaction of Set is two steps, because it is stamped (`BeginSet`) before
it becomes visible (`CommitSet`): two transactions may commit in the other order
than they were stamped. The row lock spans both. A refresh is three steps under
the mutex: `LoadPolicies`, `LoadReferences`, `ReadRevision`. The second query
sees later rows than the first, so it may pair an expression with other
permissions (`Torn`). The library's compiler may accept such a pair, or refuse
it (`RefuseTorn`) and with it the whole load, which leaves the old snapshot;
`FailRefresh` is a failing query at any point. Either way `revision` stays as it
was. `Notify` reaches any set of the replicas that listen. `Poll` reads and
compares in one step. A start refreshes once for HTTP and once for gRPC; that is
one refresh here, and no handler runs before it has succeeded.

A Set that is refused changes nothing and is no step. Where there is no row yet
to lock, the unique index on the route serializes two inserts.

### Requests

| TLA+ | Code |
|---|---|
| `serving[s]` | a goroutine: which middleware, interceptor or step of a handler it has reached, and what it knows |
| `HttpChain`, `GrpcChain` | the order in which `NewServer` of each transport puts them |
| `record[k]` | the Redis record of a key: absent, processing (its owner and fingerprint), or the kept outcome |
| `version`, `granted` | the rows a command is fenced by, and what its effect on a grant is |
| `policy` | the snapshot of `RoutePolicy`, as the callers each route admits |
| `applied`, `answers`, `lapsed`, `seen` | no state of the code: what was committed, answered, has run out, and held while a request was served |

Each middleware is a step, since a policy, a record or a grant may change between
any two; so are a handler's reads, its transaction and its two logs. `Fails`
is a call whose context is done (`Cancel`: the client left or the deadline
passed) or that a fault strikes. On both transports the record is
begun behind authorization and before the handler: over HTTP by
`IdempotencyExecution` of this repository, over gRPC by the platform library's
interceptor (`server.go:54`) with the same manager. The library is external; it is
taken to do for an RPC what `IdempotencyExecution` does for a request, but for one
thing the repository does not tell: whether it keeps the outcome of a call whose
context is done (`MayGiveUp`). Three details carry the properties. `Begin` may
have taken the key though its answer was lost, so nobody releases it. A panic
passes through `IdempotencyExecution`, which defers nothing, and leaves the
record to its time to live. The outcome is kept under a context of its own, so a
client that disconnects still finds it when it retries. A failure of a log turns
a success into an error after the commit: the client is told an error for a
change that was made, which is why the properties say what success means and
what a retry learns, and not that errors change nothing.

### Outbound

`call[c]` is a caller inside `Do` or an RPC, `breaker` the state gobreaker keeps
for the upstream, `kind` which client it is. Both clients are one module because
they are one algorithm, and their differences are its interesting part: what is
tried again (`TriesAgain`), what the breaker counts (`Counts`, `Excluded`),
whether the key travels with the request (`CarriesKey`), and whether a deadline
bounds the call or each attempt. The retries run inside the breaker's Execute, so
a call counts once. The upstream is external: an attempt without answer may have
taken effect, and a key it has seen makes it replay.

### Startup

`process[r]` is how far replica r is in `app.New`, in the hooks fx starts in the
order of the modules, or in stopping them backwards; `open[r]` what it has open;
`tx[r]` its transaction of SyncRoutes, which locks rows one by one as the UPDATE
reaches them and then looks up and writes one route after another, the RPCs in the
order of a map. `routes` is the table the replicas share. `config` is one of the
configurations, of which only the conditions between settings are kept (`Validate`).
`work` is one task in progress (a dispatcher run, a job, an RPC, a request, a turn
of the policy poller) of one replica, `Followed`: tasks only matter to the process
they run in, and the replicas are alike. `Rollback` is fx's: a failing hook is not
stopped, those before it are. Each hook waits for its tasks when it stops, with one
exception in the code: the HTTP server starts `policies.Run` before it listens, and
its OnStop only cancels it (`stopPolicies`). `polling` says that the loop goes on; a
turn of it that has begun may outlive the HTTP server, Redis and the database, and a
failing `Listen` rolls back without cancelling it at all.

## 3. The runs

| Run | Instance | Question |
|---|---|---|
| `fences` | 1 application, 1 menu, 2 workers, versions up to 4, clients may send a version one beyond the current | Do numbering, immutability, navigation, event accounting and the refinement of `ReleaseLog` hold whatever leases and clients do? |
| `drafts` | 2 menus (page, action), 2 workers, versions up to 2, clients send versions they have read | Is every release a forest with distinct routes, the default route in the release that becomes current, and the "updated" event true of its version, whatever concurrent writers do? |
| `single` | 3 menus (page, action), 1 worker | Without concurrency the draft itself stays a forest. |
| `grants` | 1 tenant, 2 workers, versions up to 3 | History and order of grants and search documents. |
| `bootstrap` | 2 menus, one under the other, 1 tenant, 2 of 7 manifests in turn, 4 of which the service refuses, 2 crashes, 1 call of another client, 1 rerun, fairness | Attempts that succeed leave what is declared, and published; the Job succeeds unless it is blocked. |
| `policies` | 2 replicas, 2 handlers in one of them, 2 routes of which one may be disabled and one has no policy yet, 2 calls of Set, 1 failure, fairness | Do snapshots only move forward, does a successful Set hold where it was made, and does polling catch up? |
| `requests` | 2 goroutines, 2 tenants and a service, 1 key, 3 requests of 9 kinds over both transports, 1 fault, 1 change of a policy, fairness | What may a client conclude from an answer, and what does a retry do? |
| `outbound` | 2 callers, each client, 2 attempts, breaker threshold 2, 4 calls, fairness | Is an effect ever repeated, what trips the breaker, does every call return? |
| `startup` | 2 replicas, 2 RPCs of which the new version drops one, 1 path, 1 failure, 1 stop, fairness; 12 configurations, 9 of which are valid | Is anything used closed or served unprepared, which routes are active after an upgrade, do all replicas come to serve? |
| `cross_app`, `revoked`, `rerun` | the smallest that show it | the findings of section 6 |

### Bounds, and why they are enough

* Two workers: each hazard is one request overtaken by another. The third actor of a
  publication, the lease, is an action of its own.
* `MaxAppVersion` and `MaxMenuVersion` restrict the versions clients send, so rows
  stop there. Four versions give two publications and an update, or two updates
  around a publication. In `drafts` two versions, one change or publication of each
  menu and the application, are what two overlapping requests can do.
* `Lookahead` lets a client send a version not yet reached, the one way in which a
  stale read can meet a matching version. 1 is one overtaken commit; 0 is the client
  that sends what it has read, which two properties need (`drafts`).
* Three menus in `single` allow a chain and a cycle of length two beside a
  bystander; concurrency is not needed there, and `drafts` has it with two.
* One tenant in `grants`: documents and grants are per tenant, and tenants share
  only the row of the application, which updates and publications already move.
  `GrantSpan = 4` holds every grant version of the instance, as 2^32 does those of
  the system.
* `bootstrap`: parent and child are what ordering is about. The contents are two
  pages that differ by their routes, a directory, an action and a malformed menu, so
  each refusal has its manifest: a page under a directory, two menus with one route,
  a default route that is no leaf (refused at the publication only, after the
  upserts), a menu refused for its fields; an invalid code of the application is
  left to the proofs. A second manifest after a first shows what a draft keeps;
  crashes and edits together stay within `BackoffLimit = 3`, the Job's.
* `policies`: two calls of Set suffice for every hazard of the load (one before it,
  one between two of its steps) and for a commit in the other order than the stamps.
  Both handlers are of one replica, so that they and its `Run` compete for the
  mutex; the other replica learns of changes by messages and polls only. One failure
  is a query, a handler or a process.

* `requests`: a request, its retry, and one of another caller under the same key
  on the same row. The kinds include refused credentials and keys, both reads
  of a tenant's user and both transports, with a gRPC command under the key of the
  HTTP ones. One fault is a lost answer, a failing
  log, a panic or a disconnect; two faults are the first call of a client and its
  retry failing alike, and add nothing the record distinguishes.
* `outbound`: two attempts make a retry, threshold 2 distinguishes one call that
  fails twice from two that fail; four calls close, open, probe and close again,
  or probe and fail, with the second caller in any generation in between.
* `startup`: two replicas that both drop a route and both insert the others show
  every wait, deadlock and duplicate key of SyncRoutes; a third would only wait
  longer. The configurations are everything on, the same without database,
  everything but authorization and the migration at start, the same with each
  other setting off in turn, and everything off.

`CHECK_DEADLOCK FALSE` stands in the Bootstrap runs, since a Job that has used
its retries, or succeeded and is not run again, stops; and in `requests`,
`outbound` and `startup`, where clients have sent what they may and replicas that
are up may stay up.

### Fairness

`Bootstrap`: weak fairness of the reconciler's
`Step`, because Kubernetes starts the pods of the Job until `backoffLimit` and
the service answers. `JobSucceeds` asks nothing of other clients. `RoutePolicy`:
weak fairness of the steps of handlers and refreshes, of receiving what has
arrived, and of the ticker. No message has to arrive and no client has to send
anything. `Requests`: weak fairness of serving, per goroutine, because a handler that
has started runs to its end. Nothing is asked of Redis: `KeySettled` is about what
the middleware does itself, and holds though no record ever runs out.
`Outbound`: weak fairness of what a call does by itself, the timers included, and
of its limit: `timeoutInterceptor` gives every RPC a deadline, `http.Client` every
attempt a timeout. The upstream need not answer, and callers need not give up.
`Startup`: weak fairness of each replica's start and stop, since the orchestrator
runs again what has exited, and strong fairness of getting the row of an RPC: a
row lock that becomes free goes to a transaction that waits for it, not to a
process that has to be started again first. Only RPCs need it, because only they
come in a different order in each process; nobody has to stop or finish a task.

`PollCatchesUp` holds only with its exception, `hidden`. A change that commits
after a load and before the same refresh reads the revision is recorded as seen;
one that commits after another with a later stamp does not move
`max(updated_at)`. A replica that misses the message of such a change keeps its
old policy until the next change, message or restart.

## 4. The proofs

### MenuPublication_proofs

It proves, for any applications, menus, workers, bounds and, where nothing else
is said, any `Lookahead`:

| Theorem | Property | Argument |
|---|---|---|
| `TypeCorrect` | `TypeOK` | inductive as it stands |
| `NumberingCorrect` | `ReleaseNumbering` | needs `NumberingInv` |
| `NavigationCorrect` | `NavigationFindsRelease` | from the same |
| `WellFormedCorrect` | `ReleaseWellFormed` | needs `WellFormedInv` |
| `Immutable` | `ReleasesImmutable` | each step, no invariant |
| `ReleaseLogImplemented` | `ImplementsReleaseLog` | from the first two invariants |
| `EventsCorrect` | `EveryVersionHasItsEvent` | needs `EventInv` |
| `DefaultRouteCorrect` | `DefaultRouteReleased`, for `Lookahead = 0` | needs `SoundReads` |
| `UpdatedEventCorrect` | `UpdatedEventIsCurrent`, for `Lookahead = 0` | needs `UpdateInv` |
| `DraftTreeCorrect` | `DraftIsTree`, for one application and while `OneEditor` | needs `DraftInv` and `MenuRules_proofs` |

`ReleaseNumbering` alone is not inductive: the step that could break it is
`CommitRelease`, which writes a number computed two reads earlier.
`NumberingInv` adds `NumbersRead` (a number a session holds is at most one above
the published one, since the published one only grows) and
`UnbornUnpublished` (an application without a row has none). The `UNIQUE`
constraint then leaves only `published + 1`. Neither the lock nor the version
appears in the argument: publication would number correctly without either.

`WellFormedInv` adds `ValidatedCommits`: the items a session in "commit" holds
have passed `Publishable`. The draft does not occur in it.

For the refinement, the log of an application is its releases in the order of
their numbers (the mapping of `MenuPublication`). `CommitTakesNextNumber` says
that a commit adds the release numbered one above the last, so the log becomes
the old one with a well-formed release appended; every other step, a crash or a
lapsed lease included, leaves all logs alone.

`EventInv` says, beside the accounting itself, that every event announces a
version or a release the row has reached (`AnnouncedBefore`): what a transaction
inserts is therefore new, and the count of events grows with the version.

`DefaultRouteCorrect` and `UpdatedEventCorrect` are about a read that precedes the
transaction whose `WHERE` clause guards it. `RowsMoveOn` says a row that changes
gets a higher version, so in `SoundReads` a session whose expected version is still
the row's has read what the row still says; this is false of a client that guesses
versions, hence `Lookahead = 0`. `UpdateInv` adds `VersionsAccounted`: the version
of an application is one, plus its publications, plus its updates, which ties the
`published_release` embedded in an event to the version it announces.

A draft has no such guard: the write of a menu looks at the version of its own row,
the check before it has looked at the others. `OneEditor` says that no two
requests are between check and write at once; everything else may overlap with an
edit. `ChecksStand`, the rest of `DraftInv`, says that what a pending edit has
found is still so: the parent of an insert is there, the draft with the rewritten
menu is a tree, the menu to be deleted has no children. The hypotheses are needed:
with two editors two moves close a cycle, and with two applications a menu is
checked against the draft of the wrong one (run `cross_app`).

### MenuRules_proofs

| Theorem | What it says |
|---|---|
| `TreeMeansHanging` | for every finite set of menus: `validateMenuTree` accepts it exactly when every menu reaches the root along its parents |

The code follows the parents until it meets an id twice; the model follows as many
parents as there are menus, which says the same only if no path to the root needs
more. The shortest path of a menu to the root meets no menu twice, so by the
pigeonhole principle it has no more steps than there are menus (`HangsByChain`).
`LeafAdded` and `LeafRemoved` are then about paths only: a new menu below one that
hangs from the root hangs there too and is on nobody's path, and a menu that is
nobody's parent is on no path. Induction along a path is `Induction`, over a set of
naturals in place of a predicate, from the well-foundedness of `<`.

### GrantProjection_proofs

For any tenants, workers and bounds, and any span above the grant versions:

| Theorem | Property |
|---|---|
| `GrantTypeCorrect` | `TypeOK` |
| `HistoryCorrect` | `GrantHistory` |
| `DistinctVersions` | `SearchVersionsDistinct` |
| `ChangesOrdered` | `GrantChangesOrdered` |
| `GrantedShown` | `GrantedIsSearchable` |

All follow from `GrantInv`. Its parts are: a session has read no version that the
rows have not reached, and, while the grant it expects is still the row's, no
older application than any grant change written so far (`Readings`,
`SoundReading`); the source version of every document is put together from two
versions that exist, without loss (`Sources`), and the two tell the documents of
a tenant apart (`Distinguished`); a later grant change shows no older application
(`Ordered`); only revocations delete, and an active grant has the document of its
own version, later than every deletion (`Shown`). That pairs become numbers in
the same order is a lemma about `searchProjectionVersion` alone, and it is where
the span matters: grant versions below it never reach the application's part.

### RoutePolicy_proofs

For any replicas, handlers (any number in each replica), routes and bounds:

| Theorem | Property | Argument |
|---|---|---|
| `PolicyTypeCorrect` | `TypeOK` | needs `Stamps` and `RowsNewer` |
| `WriterEnforced` | `WriterEnforces` | needs `CommitFollowed`, and that no snapshot goes back |
| `SnapshotsMoveForward` | `PoliciesMoveForward` | needs `RowsNewer` |

`RefreshInv` follows a policy on its way from the table into the snapshot.
`OneRefresh`: a process refreshes in one thread at a time, which is what the
mutex is for. `RowsNewer`: the rows a refresh has read lie between the snapshot
they will replace and the table. It would fail without `OneRefresh`, since
another thread could swap in later rows in between. `CommitFollowed`: the version
a handler has committed is in the table, then in its rows, then in its snapshot,
so that it is there when the handler goes on to notify. `Stamps` is independent
of these: it says that the maximum the revision query asks for exists, and that a
transaction's stamp is later than that of the row it has locked.

### Outbound_proofs

For any callers, both clients, up to five attempts (what `validateClientPolicy`
accepts) and any threshold:

| Theorem | Property | Argument |
|---|---|---|
| `OutboundTypeCorrect` | `TypeOK` | needs that a backoff is followed by an attempt that is allowed |
| `AppliedOnceCorrect` | `AppliedOnceUpstream` | needs `SoundCall` |
| `TripsCorrect` | `TripsOnFailedCalls` | needs `SoundBreaker` |

`SoundCall` says that a request the upstream could not recognise has had no effect
while an attempt is still to come or in flight, and is never in a backoff.
`SoundBreaker` says that a breaker that is not closed, half open included, was
opened by as many failed calls as the threshold.

### Requests_proofs

For any goroutines, tenants, keys, requests and policies, and whatever Redis does
on a fault:

| Theorem | Property | Argument |
|---|---|---|
| `RequestsTypeCorrect` | `TypeOK` | needs `Requesting` |
| `SuccessMeansAppliedAlways` | `SuccessMeansApplied` | needs `SuccessMade` |
| `AppliedOnceAlways` | `AppliedOnce` | from `FencedWrites` |
| `RetryLearnsOutcomeAlways` | `RetryLearnsOutcome` | needs `KeyHeld` and `FirstTry` |
| `OnlyAdmittedAlways` | `OnlyAdmitted` | needs `Requesting` |
| `TenantConfinedAlways` | `TenantConfined` | needs `Requesting` |

None of the properties is inductive: an answer says nothing of how the request
came to it. `Requesting` says of a request at each place of its chain what it has
passed: from the idempotency record on it was admitted, it owns a record exactly
where its key counts, a read is of its own tenant. It is proved from the order of
`HttpChain` and `GrpcChain`, which is what makes it true (`ChainSteps`).
`FencedWrites` is the version fence alone: a write made the version after the one
it expected and rows never go back, so two writes of one command would have made
one version. Keys, records and their time to live do not occur in it: the fence is
what makes commands safe, and the record is what makes their answers true. For
that, `SuccessMade` follows a success from the commit through the log, the record
and its replays: what is kept under a key is of the request whose fingerprint is
kept with it. `KeyHeld` says that the record of a key that has not run out is the
one its holder made, and `FirstTry` that whoever committed, or was told "stale",
under such a key was the only one to get as far: a later request of that key finds
the record and not the row.

### Startup_proofs

For any replicas, routes, declarations of the two versions and set of
configurations:

| Theorem | Property | Argument |
|---|---|---|
| `StartupTypeCorrect` | `TypeOK` | needs `Placed` |
| `WorkHasItsPartsAlways` | `WorkHasItsParts` | needs `PartsOpen` |
| `ServesPreparedAlways` | `ServesPrepared` | needs `Prepared` |
| `ActiveRoutesAreServedAlways` | `ActiveRoutesAreServed` | needs `Syncing` and `RoutesInv` |

`PartsOpen` is that the open parts of a process are those of the hooks up to its
place, upwards and downwards, whatever the configuration has left out. With the
invariant that the owner of the task in progress is open, and the order of `Hooks`,
what the task uses is open too. A turn of the policy poller has no
owner: `TaskInv` only says that it runs no earlier than the HTTP server is about to
listen, when everything below is open. `Prepared` adds what precedes the listening of a
transport: the schema, the routes it has registered and the policies it has loaded,
none of which another replica takes away. `Syncing` is about an open transaction:
it deactivates before it looks up, and what it declares is still to do, being
written or active in it. `RoutesInv` is the reason why the routes come out right:
as long as a route is not as the new version declares it, some replica has yet to
register the new version's routes, or is about to deactivate that one. A replica of
the old version may undo what a new one has done, but it is then itself the replica
that is left; when none is left, nothing is wrong.

### Bootstrap_proofs

For any forest of menus, contents, tenants, manifests and bounds:

| Theorem | Property | Argument |
|---|---|---|
| `BootstrapTypeCorrect` | `TypeOK` | needs `RowFirst` |
| `SuccessDeclaresAlways` | `SuccessDeclares` | needs `Alone` |
| `NotRefusedAlways` | `NotRefused` of this module | from `Alone` |
| `UninterruptedPublishesAlways` | `UninterruptedPublishes` | needs `Uninterrupted` |

`RowFirst`: no menu and no attempt is ahead of the application's row, so a
publication always has one whose version it moves. `Alone` relates what an attempt
remembers to the rows, as long as nobody else writes: the listed application is the
row (`ApplicationKnown`), grants and menus still to be handled are as listed, and
those handled are granted and as declared (`GrantsKnown`, `MenusKnown`). Its end is
`SuccessDeclares`. `DraftIsTree`, which the service checks at every write, is an
invariant of its own here, because a menu never changes its parent.

`NotRefused` is the safety half of `JobSucceeds`: an attempt with which nobody
interferes is refused nothing unless the manifest is `Blocked`. The work is in the
routes: what `RoutesFree` asks of the draft after each upsert follows from the
claims of all menus, those of the draft and those declared, not meeting
(`RoutesClash`); and the draft the attempt publishes is the one `Intended` foresees,
so the default route is a leaf of it.

`Uninterrupted` says that, unless `disturbed`, the draft is published, or nothing
ever was, or the attempt in progress has changed a menu and is still to publish. It
needs no hypothesis about refusals or deaths: an attempt that stops with its
publication still to come sets `disturbed`, however it stops. The exception is
needed, since the code does not see on the next attempt what is unpublished
(section 6).

### What they rest on

The assumptions are those of the modules, `MenusAssumption`,
`PublicationAssumption`, `GrantAssumption`, `RoutePolicyAssumption`,
`OutboundAssumption`, `RequestsAssumption` and `StartupAssumption`: the
distinguished values are distinct, there is an application, a default route, a
replica and a seeded policy, every handler has its replica, the span exceeds the
grant versions, retry and breaker settings are those `Validate` accepts, RPCs and
paths are different routes, each version declares some of them, bounds are
naturals. The proofs of `Bootstrap` use `ManifestsAssumption` (the manifests are
those `Validate` accepts) and none of `BootstrapAssumption`. TLC evaluates the
assumptions in every run.

`DraftTreeCorrect` and `TreeMeansHanging` assume in addition that there are
finitely many menus.

Only model-checked is liveness (`JobSucceeds`, `PollCatchesUp`, `KeySettled`,
`CallsReturn`, `AllServe`): the prover has no rule for ENABLED.

## 5. Not modelled

* Of the catalog: the reads that change nothing (pages, lists, published
  navigations), and names, icons, sort order and text, those of a search document
  included. A Grant of a tenant that is not granted yet, and that has read the
  application before an update, indexes its old title, and nothing follows;
  order, not text, is what the properties compare.
* Of the route policies: paging and reading them; the evaluation of an
  expression, which is the platform library's.
* Outbox dispatch: claiming, leasing and marking a row is the platform library's,
  and the code in this repository only starts and stops it (`Startup`). An event
  may be delivered twice and late; what protects consumers, the source version of
  a document and the version in an event, is in `GrantProjection` and
  `MenuPublication`.
* The translation of requests and responses, apart from what a body carries of a
  menu's status; the verification of tokens, of which `Requests` takes the
  verdict; CORS, headers and access log, which are filters without state.
* The scheduler's one job, which logs under a lock and changes nothing.
* Health, metrics, tracing, generated API documentation: no state a property
  speaks of.
* `Startup` follows one task at a time of one replica, and keeps of the
  configuration the conditions between settings.
* PostgreSQL, Redis, fx, gobreaker and the search index are external: constraints,
  row locks, expiry, the order of hooks, generations of a breaker and "highest
  version wins" are modelled from how the code relies on them.

## 6. Where code and documents disagree

| Run | What it shows |
|---|---|
| `cross_app` | An update that names another application passes validation there and leaves a menu whose parent belongs to another application (`service.go:188`, `:687`; the message of `:704` says it cannot). |
| `revoked` | An update of the application that lists a grant before its revocation commits outranks the deletion: the revoked tenant keeps a searchable document (`service.go:541`, comment at `:571`). |
| `rerun` | An update over HTTP stores an empty status, so each later run of the Job updates and publishes again (`application_body.go:126`; the repository's README:24 says zero changes). |

Further observations made while modelling, which no run is spent on:

* An attempt of the reconciler that stops between its first menu and the
  publication leaves its menus unpublished by the retry: that finds nothing changed
  and a release present, and succeeds (`reconciler.go:66`). It may stop because it
  dies, or because the publication is refused after the upserts were accepted
  (`service.go:266-274`): a manifest that adds a menu together with a default route
  that is no leaf fails once and then succeeds without publishing, unless it is the
  first release, when it fails for ever. `UninterruptedPublishes` therefore speaks
  of successes since whose last publication nothing of the kind has happened
  (`disturbed`).
* A page under a directory, which the manifest's validation and the reconciler's
  own test accept, is refused by the service on every attempt (`service.go:697`).
  So are two menus with one route, a menu whose fields the service dislikes and an
  invalid code (`:713`, `:669`, `:684`, `:859`), none of which `Validate` looks at;
  `JobSucceeds` names them (`Blocked`).
* `Validate` accepts authorization, or an event bus, without a database; such a
  configuration never starts (`Startable` in `AllServe`).
* An interrupted backoff of the gRPC client returns the context's bare error, whose
  code is UNKNOWN, so the breaker does not count it (`Interrupted`). The
  breaker's `IsExcluded` is true of the nil error too, so whether successes count
  depends on the order in which the library asks (`Record` allows both).
* The HTTP client retries a POST whose context carries an idempotency key, but
  sends the key only if the caller has put it into the headers
  (`AppliedOnceUpstream` leaves that case out, by name).
* The goroutine that polls route policies is not awaited when the server stops; it
  is cancelled first, and a query in flight then fails on a closed database. When
  `net.Listen` fails, after the loop was started (`http/server.go:107-113`), it is
  not even cancelled. `WorkHasItsParts` excepts it by name (`Unawaited`).
* PublishMenus answers Unavailable where Redis is disabled, although `Validate`
  accepts that.
* During an upgrade, SyncRoutes of the new version does not see a route that the
  old version has inserted in a transaction still open; it stays active until the
  next start of a replica. `ActiveRoutesAreServed` asks only once every replica
  runs the new version: the last one to change has then registered.

## 7. Plan

Done: the modules of section 2, their runs, and the proofs of section 4.

Next, in this order:

1. The outbox composed with an index: at-least-once delivery in any order, and
   convergence to the document of the highest version.
2. Lists read page by page while rows are inserted, as the reconciler's client
   does when there are more than 100.
