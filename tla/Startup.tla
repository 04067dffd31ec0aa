------------------------------- MODULE Startup -------------------------------
(***************************************************************************)
(* The life of the replicas: the configuration they accept, the order in   *)
(* which app.New makes the parts of a process, in which they are started   *)
(* and, backwards, stopped, and the registration of the routes in the      *)
(* database that two starting replicas share.                              *)
(*                                                                         *)
(* Go's fx is external: it constructs the parts and starts the hooks in    *)
(* the order of the modules, stops those it has started in the opposite    *)
(* order when a start fails or the process is told to stop, and exits when *)
(* its timeout passes.  The database runs READ COMMITTED.                  *)
(***************************************************************************)
EXTENDS Naturals, Sequences

CONSTANTS
  Replicas,
  Settings,     \* configurations looked at
  Rpcs, Paths,  \* routes of the gRPC and of the HTTP server
  Declared,     \* routes of the old and of the new version
  NoRoute,
  Followed,     \* the replica whose tasks are followed; they are all alike
  MaxFailures,  \* bound on failing steps and exits
  MaxStops      \* bound on the stops asked for

Routes == Rpcs \cup Paths

Configuration ==
  [{"wellFormed", "database", "redis", "events", "logs", "limits", "authorization",
    "upstream", "grpc", "autoUp"} -> BOOLEAN]

ASSUME StartupAssumption ==
  /\ Settings \subseteq Configuration
  /\ Rpcs \cap Paths = {} /\ NoRoute \notin Routes /\ Followed \in Replicas
  /\ Declared \in [{"old", "new"} -> SUBSET Routes]
  /\ MaxFailures \in Nat /\ MaxStops \in Nat

VARIABLES
  config,    \* of the deployment
  schema,    \* the migrations have run
  routes,    \* route_definitions: the status of each row
  tx,        \* the SyncRoutes transaction of each replica
  version,   \* the version each replica runs
  process,   \* where each replica's process is, and at which hook
  open,      \* parts of it that are open
  loaded,    \* its policy snapshot has been loaded
  work,      \* one task of the followed process, of those it may have
  polling,   \* its Manager.Run goes on
  failures,
  stops

database == <<schema, routes, tx>>
tasks    == <<work, polling>>
vars == <<config, database, version, process, open, loaded, tasks, failures, stops>>

(* The modules of app.New that keep something open.                        *)
BusLast == <<"database", "redis", "outbound", "scheduler", "grpc", "http", "bus">>
Hooks   == <<"database", "redis", "bus", "outbound", "scheduler", "grpc", "http">>

Parts == {"database", "redis", "bus", "outbound", "scheduler", "grpc", "http"}
\* outbox: a run of the dispatcher or of the cleaner
\* poll: a turn of the loop that looks for new policies
Tasks == {"outbox", "job", "rpc", "request", "poll"}

(* What starts each task and waits for it when it is stopped.  Nobody      *)
(* waits for a poll: the HTTP server starts the loop and cancels it.       *)
Owner(t) == CASE t = "outbox"  -> "bus"
              [] t = "job"     -> "scheduler"
              [] t = "rpc"     -> "grpc"
              [] t = "request" -> "http"
              [] t \in {"poll", "none"} -> "none"

Down    == [pc |-> "down", at |-> 0]
Process == [pc : {"down", "migrate", "construct", "start", "sync", "refresh", "listen",
                  "up", "stop"}, at : 0 .. Len(Hooks)]

NoTx == [pc |-> "none"]
Transaction ==
  {NoTx} \cup [pc : {"open"}, want : SUBSET Routes, todo : SUBSET Routes,
               rows : [Routes -> {"none", "inactive", "active"}],
               at : Routes \cup {NoRoute}, found : BOOLEAN]

-----------------------------------------------------------------------------
(* Config.Validate, wellFormed for the conditions on single values.        *)
Validate(c) ==
  /\ c.wellFormed
  /\ c.autoUp => c.database
  /\ c.limits => c.redis
  /\ c.authorization => c.upstream
  /\ c.logs => c.events

Accepted == {c \in Settings : Validate(c)}

(* What a task uses of the process, as it is configured.                   *)
Calls == {"rpc", "request"}

Uses(t, part) ==
  \/ part = "database" /\ config.database /\ t \in Tasks \ {"job"}
  \/ part = "redis" /\ config.redis /\ t \in {"job", "poll"}
  \/ part = "redis" /\ config.limits /\ t \in Calls
  \/ part = "bus" /\ t = "outbox"
  \/ part = "bus" /\ config.logs /\ t \in Calls
  \/ part = "outbound" /\ config.authorization /\ t \in Calls

Goes(r, pc, at) == process' = [process EXCEPT ![r] = [pc |-> pc, at |-> at]]

Opens(r, parts) == open' = [open EXCEPT ![r] = @ \cup parts]

Starting(r, part) == process[r].pc = "start" /\ Hooks[process[r].at] = part

(* The next hook with something to start.  The OnStart of a transport      *)
(* first registers its routes and loads the policies.                      *)
Starts(i) ==
  \/ Hooks[i] \in {"scheduler", "http"}
  \/ Hooks[i] = "bus" /\ config.events
  \/ Hooks[i] = "grpc" /\ config.grpc

ListensAtOnce(part) == IF part \in {"grpc", "http"} THEN "listen" ELSE "start"
FirstStep(part) ==
  IF part \notin {"grpc", "http"} THEN "start"
  ELSE IF config.authorization THEN "sync" ELSE "listen"

StartNext(r) ==
  LET later == {i \in process[r].at + 1 .. Len(Hooks) : Starts(i)} IN
  IF later = {} THEN Goes(r, "up", Len(Hooks))
  ELSE LET next == CHOOSE i \in later : \A j \in later : i <= j
       IN Goes(r, FirstStep(Hooks[next]), next)

(* The hook that fails is not stopped, those before it are.                *)
LeaveOpen(r) ==
  /\ Goes(r, "stop", process[r].at - 1)
  /\ UNCHANGED tx
Rollback(r) ==
  /\ Goes(r, "stop", process[r].at - 1)
  /\ tx' = [tx EXCEPT ![r] = NoTx]

Init ==
  /\ config \in Accepted
  /\ schema = ~ config.autoUp
  /\ routes \in [Routes -> {"absent", "active"}]
  /\ \A u \in Routes : routes[u] = "active" => u \in Declared["old"]
  /\ ~ schema => \A u \in Routes : routes[u] = "absent"
  /\ tx = [r \in Replicas |-> NoTx]
  /\ version = [r \in Replicas |-> "old"]
  /\ process = [r \in Replicas |-> Down]
  /\ open = [r \in Replicas |-> {}]
  /\ loaded = [r \in Replicas |-> FALSE]
  /\ work = "none"
  /\ polling = FALSE
  /\ failures = 0
  /\ stops = 0

-----------------------------------------------------------------------------
(* The process is run, maybe in another version.                           *)
Run(r, v) ==
  /\ process[r] = Down
  /\ version[r] = "new" => v = "new"
  /\ version' = [version EXCEPT ![r] = v]
  /\ Goes(r, IF config.autoUp THEN "migrate" ELSE "construct", 0)
  /\ UNCHANGED <<config, database, open, loaded, tasks, failures, stops>>

(* runStartupMigration; the advisory locks of createSchema and of the      *)
(* migrator make it one step.                                              *)
runStartupMigration(r) ==
  /\ process[r].pc = "migrate"
  /\ schema' = TRUE
  /\ Goes(r, "construct", 0)
  /\ UNCHANGED <<config, routes, tx, version, open, loaded, tasks, failures, stops>>

(* newDatabase and newRedis open and ping what is enabled; NewRegistry     *)
(* dials the upstreams.                                                    *)
Connections == {"outbound"} \cup {p \in {"database", "redis"} : config[p]}

Construct(r) ==
  /\ process[r].pc = "construct"
  /\ Opens(r, Connections)
  /\ StartNext(r)
  /\ UNCHANGED <<config, database, version, loaded, tasks, failures, stops>>

(* applicationEventRuntime.start                                           *)
StartBus(r) ==
  /\ Starting(r, "bus")
  /\ IF config.database THEN StartNext(r) /\ Opens(r, {"bus"}) /\ UNCHANGED tx
                        ELSE Rollback(r) /\ UNCHANGED open
  /\ UNCHANGED <<config, schema, routes, version, loaded, tasks, failures, stops>>

StartScheduler(r) ==
  /\ Starting(r, "scheduler")
  /\ Opens(r, {"scheduler"})
  /\ StartNext(r)
  /\ UNCHANGED <<config, database, version, loaded, tasks, failures, stops>>

(* Once the HTTP server has loaded the policies, and before it listens, it *)
(* starts the loop that polls for others.                                  *)
RefreshSource(r) ==
  /\ process[r].pc = "refresh"
  /\ loaded' = [loaded EXCEPT ![r] = TRUE]
  /\ polling' = (polling \/ (r = Followed /\ Hooks[process[r].at] = "http"))
  /\ Goes(r, "listen", process[r].at)
  /\ UNCHANGED <<config, database, version, open, work, failures, stops>>

Listen(r) ==
  /\ process[r].pc = "listen"
  /\ Opens(r, {Hooks[process[r].at]})
  /\ StartNext(r)
  /\ UNCHANGED <<config, database, version, loaded, tasks, failures, stops>>

-----------------------------------------------------------------------------
(* SyncRoutes: one statement sets every active row of the service and the  *)
(* protocol to inactive, taking row locks one by one; then each declared   *)
(* route is looked up and inserted or updated, in any order, since those   *)
(* of a gRPC server come from a map.                                       *)
discoveredGRPCRoutes(r)     == Declared[version[r]] \cap Rpcs
discoveredBusinessRoutes(r) == Declared[version[r]] \cap Paths

SyncsRpcs(r)  == Hooks[process[r].at] = "grpc"
Served(r)     == IF SyncsRpcs(r) THEN Rpcs ELSE Paths
Discovered(r) == IF SyncsRpcs(r) THEN discoveredGRPCRoutes(r) ELSE discoveredBusinessRoutes(r)

LockedByOther(r, u) == \E s \in Replicas \ {r} : tx[s] # NoTx /\ tx[s].rows[u] # "none"

InTx(r) == tx[r] # NoTx
Writes(r, t) == tx' = [tx EXCEPT ![r] = t]

NothingActive(r) == {}
ActiveRows(r)    == {u \in Served(r) : routes[u] = "active"}

BeginSync(r) ==
  /\ process[r].pc = "sync" /\ ~ InTx(r)
  /\ IF config.database
     THEN /\ Writes(r, [pc |-> "open", want |-> ActiveRows(r),
                        todo |-> Discovered(r),
                        rows |-> [u \in Routes |-> "none"], at |-> NoRoute, found |-> FALSE])
          /\ UNCHANGED process
     ELSE Rollback(r)
  /\ UNCHANGED <<config, schema, routes, version, open, loaded, tasks, failures, stops>>

(* A row that another transaction has held is read again.                  *)
Deactivate(r, u) ==
  /\ InTx(r) /\ u \in tx[r].want /\ ~ LockedByOther(r, u)
  /\ Writes(r, [tx[r] EXCEPT !.want = @ \ {u},
                             !.rows[u] = IF routes[u] = "active" THEN "inactive" ELSE @])
  /\ UNCHANGED <<config, schema, routes, version, process, open, loaded, tasks, failures, stops>>

NeverFound(u) == FALSE
Registered(u) == routes[u] # "absent"

LookUp(r, u) ==
  /\ InTx(r) /\ tx[r].want = {} /\ tx[r].at = NoRoute /\ u \in tx[r].todo
  /\ Writes(r, [tx[r] EXCEPT !.at = u, !.todo = @ \ {u},
                             !.found = Registered(u)])
  /\ UNCHANGED <<config, schema, routes, version, process, open, loaded, tasks, failures, stops>>

(* The INSERT waits for another one of the same route and fails when that  *)
(* has been committed.                                                     *)
Store(r) ==
  /\ InTx(r) /\ tx[r].at # NoRoute /\ ~ LockedByOther(r, tx[r].at)
  /\ IF ~ tx[r].found /\ routes[tx[r].at] # "absent"
     THEN Rollback(r)
     ELSE /\ Writes(r, [tx[r] EXCEPT !.at = NoRoute, !.rows[tx[r].at] = "active"])
          /\ UNCHANGED process
  /\ UNCHANGED <<config, schema, routes, version, open, loaded, tasks, failures, stops>>

CommitSync(r) ==
  /\ InTx(r) /\ tx[r].want = {} /\ tx[r].todo = {} /\ tx[r].at = NoRoute
  /\ routes' = [u \in Routes |-> IF tx[r].rows[u] = "none" THEN routes[u] ELSE tx[r].rows[u]]
  /\ Writes(r, NoTx)
  /\ Goes(r, "refresh", process[r].at)
  /\ UNCHANGED <<config, schema, version, open, loaded, tasks, failures, stops>>

(* The database breaks a cycle of waiting transactions.                    *)
Awaits(r, s) ==
  /\ InTx(r) /\ InTx(s)
  /\ \E u \in tx[r].want \cup {tx[r].at} : u # NoRoute /\ tx[s].rows[u] # "none"

Deadlock(r) ==
  /\ \E s \in Replicas \ {r} : Awaits(r, s) /\ Awaits(s, r)
  /\ Rollback(r)
  /\ UNCHANGED <<config, schema, routes, version, open, loaded, tasks, failures, stops>>

-----------------------------------------------------------------------------
(* A task of an open part, until that part is being stopped.               *)
Begin(t) ==
  /\ work = "none" /\ Owner(t) \in open[Followed]
  /\ ~ (process[Followed].pc = "stop" /\ Hooks[process[Followed].at] = Owner(t))
  /\ work' = t
  /\ UNCHANGED <<config, database, version, process, open, loaded, polling, failures, stops>>

(* A turn of Manager.Run, by its ticker or by a message.                   *)
Poll ==
  /\ work = "none" /\ polling
  /\ work' = "poll"
  /\ UNCHANGED <<config, database, version, process, open, loaded, polling, failures, stops>>

End ==
  /\ work # "none"
  /\ work' = "none"
  /\ UNCHANGED <<config, database, version, process, open, loaded, polling, failures, stops>>

Stop(r) ==
  /\ process[r].pc = "up" /\ stops < MaxStops
  /\ stops' = stops + 1
  /\ Goes(r, "stop", Len(Hooks))
  /\ UNCHANGED <<config, database, version, open, loaded, tasks, failures>>

(* OnStop of the HTTP server first cancels the loop that polls: no turn    *)
(* begins any more, but one in progress goes on until it notices.          *)
stopPolicies(r) ==
  /\ process[r].pc = "stop" /\ process[r].at > 0 /\ Hooks[process[r].at] = "http"
  /\ r = Followed /\ polling
  /\ polling' = FALSE
  /\ UNCHANGED <<config, database, version, process, open, loaded, work, failures, stops>>

(* Shutdown, GracefulStop, Stop of the cron and the event runtime wait for *)
(* what they have started, and Shutdown comes after the cancel.            *)
Finished(r) ==
  r = Followed => /\ Owner(work) # Hooks[process[r].at]
                  /\ ~ (polling /\ Hooks[process[r].at] = "http")

StopHook(r) ==
  /\ process[r].pc = "stop" /\ process[r].at > 0
  /\ Finished(r)
  /\ open' = [open EXCEPT ![r] = @ \ {Hooks[process[r].at]}]
  /\ Goes(r, "stop", process[r].at - 1)
  /\ UNCHANGED <<config, database, version, loaded, tasks, failures, stops>>

(* Run returns, or the timeout of Stop or Start has passed.                *)
Leaves(r) ==
  /\ process' = [process EXCEPT ![r] = Down]
  /\ tx' = [tx EXCEPT ![r] = NoTx]
  /\ open' = [open EXCEPT ![r] = {}]
  /\ loaded' = [loaded EXCEPT ![r] = FALSE]
  /\ work' = IF r = Followed THEN "none" ELSE work
  /\ polling' = (polling /\ r # Followed)
  /\ UNCHANGED <<config, schema, routes, version, stops>>

Exit(r) ==
  /\ process[r].pc = "stop"
  /\ Leaves(r)
  /\ UNCHANGED failures

(* A step of the start fails: a query, a connection, a listener.  In New   *)
(* it ends the process.                                                    *)
Fail(r) ==
  /\ failures < MaxFailures
  /\ failures' = failures + 1
  /\ \/ process[r].pc \in {"migrate", "construct"} /\ Leaves(r)
     \/ /\ process[r].pc \in {"sync", "refresh", "listen"} \/ Starting(r, "bus")
        /\ Rollback(r)
        /\ UNCHANGED <<config, schema, routes, version, open, loaded, tasks, stops>>

Crash(r) ==
  /\ failures < MaxFailures /\ process[r] # Down
  /\ failures' = failures + 1
  /\ Leaves(r)

Advance(r) ==
  \/ runStartupMigration(r) \/ Construct(r) \/ StartBus(r) \/ StartScheduler(r)
  \/ RefreshSource(r) \/ Listen(r)
  \/ BeginSync(r) \/ Store(r) \/ CommitSync(r) \/ Deadlock(r)
  \/ \E u \in Routes : Deactivate(r, u) \/ LookUp(r, u)

Next ==
  \/ \E t \in Tasks \ {"poll"} : Begin(t)
  \/ Poll
  \/ End
  \/ \E r \in Replicas :
    \/ \E v \in {"old", "new"} : Run(r, v)
    \/ Advance(r)
    \/ Stop(r) \/ stopPolicies(r) \/ StopHook(r) \/ Exit(r) \/ Fail(r) \/ Crash(r)

Spec == Init /\ [][Next]_vars

(* The orchestrator runs what has exited, starts go on and stops end.  The *)
(* database grants a row that becomes free to who waits for it, not to a   *)
(* process that has to start again first.  Only the RPCs come in different *)
(* orders in different processes.                                          *)
GetsRow(r, u) == Deactivate(r, u) \/ (tx[r] # NoTx /\ tx[r].at = u /\ Store(r))

Moves(r) == Advance(r) \/ Exit(r) \/ \E v \in {"old", "new"} : Run(r, v)

FairSpec ==
  /\ Spec
  /\ \A r \in Replicas : WF_vars(Moves(r)) /\ \A u \in Rpcs : SF_vars(GetsRow(r, u))

-----------------------------------------------------------------------------
TypeOK ==
  /\ config \in Settings /\ schema \in BOOLEAN
  /\ routes \in [Routes -> {"absent", "inactive", "active"}]
  /\ tx \in [Replicas -> Transaction]
  /\ \A r \in Replicas : tx[r] # NoTx => process[r].pc = "sync"
  /\ version \in [Replicas -> {"old", "new"}]
  /\ process \in [Replicas -> Process]
  /\ open \in [Replicas -> SUBSET Parts]
  /\ loaded \in [Replicas -> BOOLEAN]
  /\ work \in Tasks \cup {"none"} /\ polling \in BOOLEAN
  /\ failures \in 0 .. MaxFailures /\ stops \in 0 .. MaxStops

(* Whatever configuration Validate has accepted, and wherever a start has  *)
(* failed or a stop has got to, a task in progress has the connections it  *)
(* uses: hooks start after, and stop before, what they use, and wait for   *)
(* what they have started.  The one exception is the loop that polls       *)
(* policies: nobody waits for it, so a turn may find the database closed   *)
(* once the HTTP server has stopped, or has failed to listen.              *)
Unawaited ==
  work = "poll" /\ process[Followed].pc = "stop" /\ process[Followed].at < Len(Hooks)

WorkHasItsParts ==
  \A part \in Parts : Uses(work, part) => part \in open[Followed] \/ Unawaited

(* "uncovered routes fail closed": no transport accepts calls before the   *)
(* process has loaded the policies and registered its own routes, which    *)
(* policies are attached to.                                               *)
ServesPrepared ==
  config.authorization =>
    \A r \in Replicas :
      /\ {"grpc", "http"} \cap open[r] # {} => schema /\ loaded[r]
      /\ "grpc" \in open[r] => \A u \in discoveredGRPCRoutes(r) : routes[u] # "absent"
      /\ "http" \in open[r] => \A u \in discoveredBusinessRoutes(r) : routes[u] # "absent"

(* SyncRoutes of one version, from however many replicas: when all run the *)
(* new version and none is registering, its routes and no others are       *)
(* active.                                                                 *)
Upgraded(r) == version[r] = "new" /\ process[r].pc = "up"

ActiveRoutesAreServed ==
  config.authorization /\ config.grpc /\ (\A r \in Replicas : Upgraded(r)) =>
    {u \in Routes : routes[u] = "active"} = Declared["new"]

(* Replicas that start together hinder each other, by the primary key and  *)
(* by deadlocks, but not for ever: once failures and stops are over, all   *)
(* of them serve.  Validate accepts two settings that never start:         *)
(* authorization or events without a database.                             *)
Startable == (config.authorization \/ config.events) => config.database

AllServe == Startable => <>[](\A r \in Replicas : process[r].pc = "up")
=============================================================================
