---------------------------- MODULE RoutePolicy ----------------------------
(***************************************************************************)
(* The route policies of internal/routepolicy: rows in the database, and   *)
(* in each replica a compiled snapshot of them that the middleware         *)
(* evaluates.  A replica loads its snapshot by two queries and then        *)
(* records the tables' latest updated_at; it loads again after a Set of    *)
(* its own, on a message of another replica, which may be lost, and when   *)
(* a poll finds another updated_at than the recorded one.                  *)
(*                                                                         *)
(* The expression and the permissions of a policy are named by the version *)
(* of the row that Set wrote them with: Set always writes both.            *)
(***************************************************************************)
EXTENDS Naturals, FiniteSets

CONSTANTS
  Replicas,       \* processes; also the thread of each that runs Run
  Writers,        \* handlers that serve Set
  Home,           \* the process of each handler
  Routes,
  Seeded,         \* routes the migration gives a policy
  Statuses,       \* statuses clients give the policy of each, TRUE is active
  MaxClock,       \* bound on the timestamps taken, so on the calls of Set
  MaxFailures     \* bound on failing queries, handlers and processes

ASSUME RoutePolicyAssumption ==
  /\ Replicas \cap Writers = {} /\ Replicas # {}
  /\ Home \in [Writers -> Replicas]
  /\ Seeded # {} /\ Seeded \subseteq Routes
  /\ Statuses \in [Routes -> SUBSET BOOLEAN]
  /\ MaxClock \in Nat /\ MaxFailures \in Nat

Threads == Replicas \cup Writers

VARIABLES
  policy,     \* route_policy_definitions, by route; version 0: no row
  updatedAt,  \* the latest updated_at of a route's policy and permissions
  clock,      \* statement_timestamp of the database
  session,    \* the Set each writer is serving
  loop,       \* where Run is in each replica; "start" before it listens
  refresh,    \* the refresh a thread is in the middle of
  snapshot,   \* the compiled policies of each replica
  revision,   \* Manager.revision of each replica
  inbox,      \* messages delivered to each replica's subscription
  hidden,     \* the snapshot misses a change that a poll will not see
  failures

tables == <<policy, updatedAt, clock>>
memory == <<snapshot, revision>>
vars   == <<tables, session, loop, refresh, memory, inbox, hidden, failures>>

Row        == [version : Nat, active : BOOLEAN]
Definition == [version : Nat, active : BOOLEAN, refs : Nat]

Idle    == [pc |-> "idle"]
Session ==
  {Idle}
    \cup [pc : {"writing"}, route : Routes, active : BOOLEAN, stamp : Nat]
    \cup [pc : {"refresh", "notify"}, route : Routes, version : Nat]

Free    == [pc |-> "free"]
Refresh ==
  {Free} \cup [pc : {"references"}, rows : [Routes -> Row], overtaken : BOOLEAN]
         \cup [pc : {"revision"}]

NoRow        == [version |-> 0, active |-> FALSE]
NoDefinition == [version |-> 0, active |-> FALSE, refs |-> 0]

Init ==
  /\ policy = [u \in Routes |-> IF u \in Seeded THEN [version |-> 1, active |-> TRUE] ELSE NoRow]
  /\ updatedAt = [u \in Routes |-> IF u \in Seeded THEN 1 ELSE 0]
  /\ clock = 1
  /\ session = [w \in Writers |-> Idle]
  /\ loop = [r \in Replicas |-> "start"]
  /\ refresh = [x \in Threads |-> Free]
  /\ snapshot = [r \in Replicas |-> [u \in Routes |-> NoDefinition]]
  /\ revision = [r \in Replicas |-> 0]
  /\ inbox = [r \in Replicas |-> 0]
  /\ hidden = [r \in Replicas |-> FALSE]
  /\ failures = 0

-----------------------------------------------------------------------------
(* The latest updated_at of the tables.                                    *)
Revision == CHOOSE n \in {updatedAt[u] : u \in Routes} :
              \A u \in Routes : updatedAt[u] <= n

RowLocked(u) == \E w \in Writers : session[w].pc = "writing" /\ session[w].route = u

(* The process a thread belongs to.                                        *)
RunsIn(x, r) == x = r \/ (x \in Writers /\ Home[x] = r)

(* What a query sees.                                                      *)
Uncommitted ==
  [u \in Routes |-> IF RowLocked(u) THEN [policy[u] EXCEPT !.version = @ + 1] ELSE policy[u]]
Committed == policy

(* Manager.refresh is a mutex.                                             *)
Unguarded(r) == TRUE
RefreshFree(r) == \A x \in Threads : RunsIn(x, r) => refresh[x] = Free

(* The second query joins the policies as they are by then: a disabled one *)
(* has no permissions.                                                     *)
References(u) == IF Committed[u].active THEN Committed[u].version ELSE 0

Loaded(rows) ==
  [u \in Routes |-> [version |-> rows[u].version, active |-> rows[u].active,
                     refs |-> IF rows[u].active THEN References(u) ELSE 0]]

(* Expression and permissions of different versions.                       *)
Torn(definition) == definition.active /\ definition.refs # definition.version

-----------------------------------------------------------------------------
(* Set: the transaction locks the row, compares its version with the       *)
(* client's, which is refused unless it is the current one, and stamps     *)
(* what it writes.  The change appears with the commit.                    *)
BeginSet(w, u, active) ==
  /\ session[w].pc = "idle" /\ loop[Home[w]] # "start"
  /\ ~ RowLocked(u) /\ clock < MaxClock
  /\ clock' = clock + 1
  /\ session' = [session EXCEPT ![w] =
       [pc |-> "writing", route |-> u, active |-> active, stamp |-> clock']]
  /\ UNCHANGED <<policy, updatedAt, loop, refresh, memory, inbox, hidden, failures>>

(* A poll of r will not see this commit: r has loaded already but has yet  *)
(* to read the revision, or it has recorded a later updated_at.            *)
Escapes(w, r) ==
  \/ \E x \in Threads : RunsIn(x, r) /\ refresh[x].pc = "revision"
  \/ session[w].stamp < revision[r]

CommitSet(w) ==
  LET s == session[w] IN
  /\ s.pc = "writing"
  /\ policy' = [policy EXCEPT ![s.route] = [version |-> @.version + 1, active |-> s.active]]
  /\ updatedAt' = [updatedAt EXCEPT ![s.route] = s.stamp]
  /\ session' = [session EXCEPT ![w] = [pc |-> "refresh", route |-> s.route,
                                        version |-> policy[s.route].version + 1]]
  /\ hidden' = [r \in Replicas |-> hidden[r] \/ Escapes(w, r)]
  /\ refresh' = [x \in Threads |-> IF refresh[x].pc = "references"
                                   THEN [refresh[x] EXCEPT !.overtaken = TRUE]
                                   ELSE refresh[x]]
  /\ UNCHANGED <<clock, loop, memory, inbox, failures>>

(* Redis delivers a message to the subscribers it reaches.                 *)
Notify(w) ==
  /\ session[w].pc = "notify"
  /\ \E reached \in SUBSET {r \in Replicas : loop[r] # "start"} :
       inbox' = [r \in Replicas |-> IF r \in reached THEN inbox[r] + 1 ELSE inbox[r]]
  /\ session' = [session EXCEPT ![w] = Idle]
  /\ UNCHANGED <<tables, loop, refresh, memory, hidden, failures>>

-----------------------------------------------------------------------------
(* RefreshSource, in the thread x of process r: lock, load, swap the       *)
(* snapshot, read the revision, unlock.                                    *)
Wants(x, r) ==
  \/ x = r /\ loop[r] \in {"start", "reload"}
  \/ x \in Writers /\ Home[x] = r /\ session[x].pc = "refresh"

LoadPolicies(x, r) ==
  /\ Wants(x, r) /\ refresh[x] = Free /\ RefreshFree(r)
  /\ refresh' = [refresh EXCEPT ![x] = 
       [pc |-> "references", rows |-> Committed, overtaken |-> FALSE]]
  /\ UNCHANGED <<tables, session, loop, memory, inbox, hidden, failures>>

LoadReferences(x, r) ==
  /\ Wants(x, r) /\ refresh[x].pc = "references"
  /\ snapshot' = [snapshot EXCEPT ![r] = Loaded(refresh[x].rows)]
  /\ hidden' = [hidden EXCEPT ![r] = refresh[x].overtaken]
  /\ refresh' = [refresh EXCEPT ![x] = [pc |-> "revision"]]
  /\ UNCHANGED <<tables, session, loop, revision, inbox, failures>>

(* What follows a refresh: Run listens, unless the startup failed; a       *)
(* handler notifies the others, or answers with an error.                  *)
AfterSet(w, ok) == [session[w] EXCEPT !.pc = "notify"]
AfterRefresh(w, ok) == IF ok THEN [session[w] EXCEPT !.pc = "notify"] ELSE Idle

Continue(x, ok) ==
  /\ refresh' = [refresh EXCEPT ![x] = Free]
  /\ loop' = [r \in Replicas |->
       IF r = x /\ (ok \/ loop[r] # "start") THEN "select" ELSE loop[r]]
  /\ session' = [w \in Writers |-> IF w = x THEN AfterRefresh(w, ok) ELSE session[w]]

ReadRevision(x, r) ==
  /\ Wants(x, r) /\ refresh[x].pc = "revision"
  /\ revision' = [revision EXCEPT ![r] = Revision]
  /\ Continue(x, TRUE)
  /\ UNCHANGED <<tables, snapshot, inbox, hidden, failures>>

(* A failed refresh leaves the recorded revision as it was.                *)
RevisionRecorded(r) == revision' = [revision EXCEPT ![r] = Revision]
RevisionKept(r) == UNCHANGED revision

(* The compiler may refuse a policy whose expression and permissions do    *)
(* not fit together.                                                       *)
RefuseTorn(x, r) ==
  /\ Wants(x, r) /\ refresh[x].pc = "references"
  /\ \E u \in Routes : Torn(Loaded(refresh[x].rows)[u])
  /\ RevisionKept(r)
  /\ Continue(x, FALSE)
  /\ UNCHANGED <<tables, snapshot, inbox, hidden, failures>>

FailRefresh(x, r) ==
  /\ Wants(x, r) /\ refresh[x] # Free /\ failures < MaxFailures
  /\ failures' = failures + 1
  /\ RevisionKept(r)
  /\ Continue(x, FALSE)
  /\ UNCHANGED <<tables, snapshot, inbox, hidden>>

-----------------------------------------------------------------------------
(* Run: a message, or a tick of the ticker that finds another revision     *)
(* than the recorded one, starts a refresh.                                *)
Receive(r) ==
  /\ loop[r] = "select" /\ inbox[r] > 0
  /\ inbox' = [inbox EXCEPT ![r] = @ - 1]
  /\ loop' = [loop EXCEPT ![r] = "reload"]
  /\ UNCHANGED <<tables, session, refresh, memory, hidden, failures>>

Poll(r) ==
  /\ loop[r] = "select"
  /\ loop' = [loop EXCEPT ![r] = IF Revision # revision[r] THEN "reload" ELSE "select"]
  /\ UNCHANGED <<tables, session, refresh, memory, inbox, hidden, failures>>

(* A handler is cancelled or fails: before the commit nothing remains of   *)
(* its transaction, after it nobody is notified.                           *)
Abort(w) ==
  /\ session[w].pc \in {"writing", "notify"} /\ failures < MaxFailures
  /\ failures' = failures + 1
  /\ session' = [session EXCEPT ![w] = Idle]
  /\ UNCHANGED <<tables, loop, refresh, memory, inbox, hidden>>

(* A process dies with its memory, its requests and its subscription, and  *)
(* another takes its place.                                                *)
Crash(r) ==
  /\ failures < MaxFailures
  /\ failures' = failures + 1
  /\ loop' = [loop EXCEPT ![r] = "start"]
  /\ snapshot' = [snapshot EXCEPT ![r] = [u \in Routes |-> NoDefinition]]
  /\ revision' = [revision EXCEPT ![r] = 0]
  /\ inbox' = [inbox EXCEPT ![r] = 0]
  /\ refresh' = [x \in Threads |-> IF RunsIn(x, r) THEN Free ELSE refresh[x]]
  /\ session' = [w \in Writers |-> IF RunsIn(w, r) THEN Idle ELSE session[w]]
  /\ UNCHANGED <<tables, hidden>>

-----------------------------------------------------------------------------
RefreshStep(x, r) ==
  LoadPolicies(x, r) \/ LoadReferences(x, r) \/ ReadRevision(x, r) \/ RefuseTorn(x, r)

Next ==
  \/ \E w \in Writers, u \in Routes : \E active \in Statuses[u] : BeginSet(w, u, active)
  \/ \E w \in Writers : CommitSet(w) \/ Notify(w) \/ Abort(w)
  \/ \E x \in Threads, r \in Replicas : RefreshStep(x, r) \/ FailRefresh(x, r)
  \/ \E r \in Replicas : Receive(r) \/ Poll(r) \/ Crash(r)

Spec == Init /\ [][Next]_vars

(* Handlers and Run keep running and the ticker ticks; no client has to    *)
(* send anything and no message has to arrive.                             *)
Fairness ==
  /\ \A w \in Writers : WF_vars(CommitSet(w)) /\ WF_vars(Notify(w))
  /\ \A x \in Threads, r \in Replicas : WF_vars(RefreshStep(x, r))
  /\ \A r \in Replicas : WF_vars(Receive(r)) /\ WF_vars(Poll(r))

FairSpec == Spec /\ Fairness

-----------------------------------------------------------------------------
(* Every variable has its type, and no replica evaluates a version of a    *)
(* policy that has not been committed.                                     *)
TypeOK ==
  /\ policy \in [Routes -> Row] /\ updatedAt \in [Routes -> Nat] /\ clock \in Nat
  /\ session \in [Writers -> Session]
  /\ loop \in [Replicas -> {"start", "select", "reload"}]
  /\ refresh \in [Threads -> Refresh]
  /\ snapshot \in [Replicas -> [Routes -> Definition]]
  /\ revision \in [Replicas -> Nat] /\ inbox \in [Replicas -> Nat]
  /\ hidden \in [Replicas -> BOOLEAN] /\ failures \in Nat
  /\ \A r \in Replicas, u \in Routes : snapshot[r][u].version <= policy[u].version

(* A replica never returns to an older version of a policy while it runs,  *)
(* although Run and several handlers refresh it at once: a load that is    *)
(* overtaken by another cannot replace what that one loaded.               *)
PoliciesMoveForward ==
  [][\A r \in Replicas : loop'[r] # "start" =>
       \A u \in Routes : snapshot'[r][u].version >= snapshot[r][u].version]_vars

(* When Set is about to answer with success, the replica that served it    *)
(* evaluates the policy it wrote, or a later one.                          *)
WriterEnforces ==
  \A w \in Writers : session[w].pc = "notify" =>
    snapshot[Home[w]][session[w].route].version >= session[w].version

Current(r) ==
  \A u \in Routes :
    /\ snapshot[r][u].version = policy[u].version
    /\ snapshot[r][u].active = policy[u].active
    /\ ~ Torn(snapshot[r][u])

(* Polling alone brings every replica up to date, however many messages    *)
(* are lost and refreshes fail, except for a change that committed between *)
(* the replica's load and its reading of the revision, or that was stamped *)
(* before one already committed.                                           *)
PollCatchesUp == \A r \in Replicas : []<>(Current(r) \/ hidden[r])
=============================================================================
