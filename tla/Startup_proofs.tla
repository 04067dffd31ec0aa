--------------------------- MODULE Startup_proofs ---------------------------
(***************************************************************************)
(* What holds of the processes of any number of replicas, under every      *)
(* configuration that Validate accepts and whatever routes they declare.   *)
(***************************************************************************)
EXTENDS Startup, TLAPS

-----------------------------------------------------------------------------
(* The place of a process among the hooks: 1 to 3 are the database, Redis  *)
(* and the bus, 4 to 7 the outbound connections, the scheduler and the two *)
(* servers.                                                                *)
StartPcs == {"start", "sync", "refresh", "listen"}

Placed(r) ==
  LET p == process[r] IN
  /\ p.pc \in {"down", "migrate", "construct"} => p.at = 0
  /\ p.pc = "start" => p.at \in {3, 5} /\ Starts(p.at)
  /\ p.pc \in {"sync", "refresh", "listen"} => p.at \in {6, 7} /\ Starts(p.at)
  /\ p.pc \in {"sync", "refresh"} => config.authorization
  /\ p.pc = "up" => p.at = 7

(* The hooks with something to keep open, and those that a process at p    *)
(* has started and not yet stopped.                                        *)
Present(i) ==
  i = 4 \/ (i = 1 /\ config.database) \/ (i = 2 /\ config.redis) \/ Starts(i)

Reached(p, i) ==
  \/ p.pc \in StartPcs /\ (i < p.at \/ i \in {1, 2, 4})
  \/ p.pc = "up"
  \/ p.pc = "stop" /\ i <= p.at

PartsOpen(r) ==
  /\ \A i \in 1 .. 7 : Present(i) /\ Reached(process[r], i) => Hooks[i] \in open[r]
  /\ \A i \in {3, 5, 6, 7} : Hooks[i] \in open[r] => Reached(process[r], i)

(* What precedes the listening of a transport.                             *)
Index(u) == IF u \in Rpcs THEN 6 ELSE 7

Prepared(r) ==
  /\ process[r].pc \notin {"down", "migrate"} => schema
  /\ config.authorization =>
       /\ process[r].pc = "listen" \/ {"grpc", "http"} \cap open[r] # {} => loaded[r]
       /\ \A u \in Declared[version[r]] :
            \/ process[r].pc \in {"refresh", "listen"} /\ process[r].at = Index(u)
            \/ Hooks[Index(u)] \in open[r]
            => routes[u] # "absent"

(* A transaction of SyncRoutes: deactivation comes first, and what is      *)
(* declared is to be looked up, is being stored or is active in it.        *)
Syncing(r) ==
  InTx(r) =>
    /\ tx[r].want # {} => tx[r].todo = Discovered(r) /\ tx[r].at = NoRoute
    /\ tx[r].want \cup tx[r].todo \subseteq Served(r)
    /\ tx[r].todo \subseteq Discovered(r)
    /\ tx[r].at \in Discovered(r) \cup {NoRoute}
    /\ \A u \in Discovered(r) :
         u \in tx[r].todo \/ u = tx[r].at \/ tx[r].rows[u] = "active"
    /\ \A u \in Routes :
         /\ tx[r].rows[u] # "none" => u \in Served(r)
         /\ tx[r].rows[u] = "active" => u \in Discovered(r)

ReplicaInv(r) == Placed(r) /\ PartsOpen(r) /\ Prepared(r) /\ Syncing(r)

(* A route that is not as the new version declares it is left to a replica *)
(* that has yet to register the routes of the new version.                 *)
HasSynced(r, u) ==
  /\ version[r] = "new"
  /\ process[r].pc \in StartPcs \cup {"up"}
  /\ \/ process[r].at > Index(u)
     \/ process[r].at = Index(u) /\ process[r].pc \in {"refresh", "listen", "up"}

WillDeactivate(r, u) ==
  /\ ~ HasSynced(r, u)
  /\ version[r] = "new" /\ InTx(r) /\ process[r].at = Index(u) =>
       u \in tx[r].want \/ tx[r].rows[u] = "inactive"

RoutesInv ==
  config.authorization /\ config.grpc =>
    \A u \in Routes :
      /\ u \in Declared["new"] /\ routes[u] # "active" =>
           \E r \in Replicas : ~ HasSynced(r, u)
      /\ u \notin Declared["new"] /\ routes[u] = "active" =>
           \E r \in Replicas : WillDeactivate(r, u)

(* A task that is waited for belongs to an open part; the loop that polls  *)
(* was started by an HTTP server about to listen.                          *)
Polls(p) == p.pc \in {"up", "stop"} \/ (p.pc = "listen" /\ p.at = 7)

TaskInv ==
  /\ work \notin {"none", "poll"} => Owner(work) \in open[Followed]
  /\ polling \/ work = "poll" => Polls(process[Followed])

StartupInv ==
  /\ TypeOK /\ Validate(config) /\ (~ config.autoUp => schema)
  /\ \A r \in Replicas : ReplicaInv(r)
  /\ TaskInv /\ RoutesInv

-----------------------------------------------------------------------------
LEMMA HookAt ==
  /\ Len(Hooks) = 7
  /\ Hooks[1] = "database" /\ Hooks[2] = "redis" /\ Hooks[3] = "bus" /\ Hooks[4] = "outbound"
  /\ Hooks[5] = "scheduler" /\ Hooks[6] = "grpc" /\ Hooks[7] = "http"
  BY DEF Hooks

LEMMA HooksDiffer ==
  /\ \A i \in 1 .. 7 : Hooks[i] \in Parts
  /\ \A i, j \in 1 .. 7 : Hooks[i] = Hooks[j] => i = j
  BY DEF Hooks, Parts

LEMMA StartsAt ==
  \A i \in 1 .. 7 : Starts(i) <=> i \in {5, 7} \/ (i = 3 /\ config.events) \/ (i = 6 /\ config.grpc)
  BY HookAt DEF Starts

LEMMA FirstSteps ==
  ASSUME NEW i \in {3, 5, 6, 7}
  PROVE  /\ i \in {3, 5} => FirstStep(Hooks[i]) = "start"
         /\ i \in {6, 7} => FirstStep(Hooks[i]) = IF config.authorization THEN "sync" ELSE "listen"
  BY HookAt DEF FirstStep

(* The next hook is the first of those that start something.               *)
LEMMA NextHook ==
  ASSUME NEW r \in Replicas, process[r].at \in 0 .. 7, StartNext(r)
  PROVE  \/ /\ process' = [process EXCEPT ![r] = [pc |-> "up", at |-> 7]]
            /\ \A i \in process[r].at + 1 .. 7 : ~ Starts(i)
         \/ \E n \in process[r].at + 1 .. 7 :
              /\ process' = [process EXCEPT ![r] = [pc |-> FirstStep(Hooks[n]), at |-> n]]
              /\ n \in {3, 5, 6, 7} /\ Starts(n)
              /\ \A i \in process[r].at + 1 .. 7 : Starts(i) => n <= i
  <1> DEFINE later == {i \in process[r].at + 1 .. Len(Hooks) : Starts(i)}
             next == CHOOSE i \in later : \A j \in later : i <= j
  <1>1. CASE later = {}
    BY <1>1, HookAt DEF StartNext, Goes
  <1>2. CASE later # {}
    <2>1. later \subseteq {3, 5, 6, 7}
      BY StartsAt, HookAt
    <2>2. \E i \in later : \A j \in later : i <= j
      <3> HIDE DEF later
      <3>1. CASE 3 \in later
        BY <2>1, <3>1
      <3>2. CASE 3 \notin later /\ 5 \in later
        BY <2>1, <3>2
      <3>3. CASE 3 \notin later /\ 5 \notin later /\ 6 \in later
        BY <2>1, <3>3
      <3>4. CASE 3 \notin later /\ 5 \notin later /\ 6 \notin later
        <4>1. later = {7}
          BY <1>2, <2>1, <3>4
        <4>2. QED BY <4>1
      <3>5. QED BY <3>1, <3>2, <3>3, <3>4
    <2>3. next \in later /\ \A j \in later : next <= j
      <3> HIDE DEF later
      <3>1. QED BY <2>2
    <2>4. process' = [process EXCEPT ![r] = [pc |-> FirstStep(Hooks[next]), at |-> next]]
      BY <1>2 DEF StartNext, Goes
    <2> HIDE DEF next
    <2>5. QED BY <2>1, <2>3, <2>4, HookAt
  <1>3. QED BY <1>1, <1>2

(* A task has the connections it uses as long as the part it belongs to is *)
(* open.                                                                   *)
LEMMA OwnersUse ==
  ASSUME StartupInv, NEW r \in Replicas, NEW t \in Tasks \ {"poll"}, Owner(t) \in open[r],
         NEW part \in Parts, Uses(t, part)
  PROVE  part \in open[r]
  <1> DEFINE p == process[r]
  <1>1. PartsOpen(r) /\ Placed(r) /\ Validate(config) /\ p \in Process
    BY DEF StartupInv, ReplicaInv, TypeOK
  <1>2. p.at \in 0 .. 7
    BY <1>1, HookAt DEF Process
  <1>3. \E i \in {3, 5, 6, 7} : Hooks[i] = Owner(t) /\ Reached(p, i)
    BY <1>1, HookAt DEF Tasks, Owner, PartsOpen
  <1>4. Owner(t) = part \/ \E i \in 1 .. 4 : Hooks[i] = part /\ Present(i)
    BY <1>1, HookAt, StartsAt DEF Uses, Tasks, Calls, Owner, Validate, Present
  <1>5. \A i \in 1 .. 4 : \A j \in {5, 6, 7} : Reached(p, j) => Reached(p, i)
    BY <1>1, <1>2 DEF Reached
  <1>6. t = "outbox" => part \in {"database", "bus"} /\ Owner(t) = "bus"
    BY DEF Uses, Calls, Owner
  <1>7. t # "outbox" => Owner(t) # "bus"
    BY DEF Tasks, Owner
  <1>8. Reached(p, 3) => Reached(p, 1)
    BY <1>1, <1>2 DEF Reached
  <1>9. QED BY <1>1, <1>3, <1>4, <1>5, <1>6, <1>7, <1>8, HookAt DEF PartsOpen

-----------------------------------------------------------------------------
(* A step of one replica.                                                  *)
LEMMA StepOf ==
  ASSUME StartupInv, NEW r \in Replicas, config' = config, TypeOK', schema => schema',
         \A u \in Routes : routes[u] # "absent" => routes'[u] # "absent",
         \A s \in Replicas \ {r} :
           /\ tx'[s] = tx[s] /\ version'[s] = version[s] /\ process'[s] = process[s]
           /\ open'[s] = open[s] /\ loaded'[s] = loaded[s],
         ReplicaInv(r)', RoutesInv', TaskInv'
  PROVE  StartupInv'
  <1>1. ASSUME NEW s \in Replicas \ {r}
        PROVE  ReplicaInv(s)'
    <2>1. ReplicaInv(s) /\ version[s] \in {"old", "new"}
      BY DEF StartupInv, TypeOK
    <2>2. \A i : (Starts(i)' <=> Starts(i)) /\ (Present(i)' <=> Present(i))
      BY DEF Starts, Present
    <2>3. Placed(s)'
      BY <2>1, <2>2 DEF ReplicaInv, Placed
    <2>4. PartsOpen(s)'
      BY <2>1, <2>2 DEF ReplicaInv, PartsOpen
    <2>5. Prepared(s)'
      BY <2>1, StartupAssumption DEF ReplicaInv, Prepared
    <2>6. Syncing(s)'
      <3>1. /\ (InTx(s)' <=> InTx(s)) /\ Served(s)' = Served(s)
            /\ Discovered(s)' = Discovered(s)
        BY DEF InTx, Discovered, Served, SyncsRpcs, discoveredGRPCRoutes,
               discoveredBusinessRoutes
      <3>2. tx'[s] = tx[s]
        OBVIOUS
      <3>3. QED BY <2>1, <3>1, <3>2 DEF ReplicaInv, Syncing
    <2>7. QED BY <2>3, <2>4, <2>5, <2>6 DEF ReplicaInv
  <1>2. QED BY <1>1 DEF StartupInv, Validate

LEMMA RoutesStay ==
  ASSUME StartupInv, NEW r \in Replicas, UNCHANGED <<config, routes>>,
         \A s \in Replicas \ {r} :
           tx'[s] = tx[s] /\ version'[s] = version[s] /\ process'[s] = process[s],
         config.authorization /\ config.grpc =>
           \A u \in Routes :
             /\ HasSynced(r, u)' => HasSynced(r, u)
             /\ u \notin Declared["new"] /\ routes[u] = "active" /\ WillDeactivate(r, u) =>
                  WillDeactivate(r, u)'
  PROVE  RoutesInv'
  <1>1. ASSUME NEW s \in Replicas \ {r}, NEW u \in Routes
        PROVE  /\ HasSynced(s, u)' <=> HasSynced(s, u)
               /\ WillDeactivate(s, u)' <=> WillDeactivate(s, u)
    BY DEF HasSynced, WillDeactivate, InTx
  <1>2. QED BY <1>1 DEF StartupInv, RoutesInv

(* A hook has started its part, and the next one follows.                  *)
LEMMA Advanced ==
  ASSUME StartupInv, NEW r \in Replicas, StartNext(r),
         process[r].pc \in {"construct", "start", "listen"},
         NEW parts \in SUBSET Parts, Opens(r, parts),
         process[r].pc = "construct" => parts = Connections,
         process[r].pc # "construct" => parts = {Hooks[process[r].at]},
         UNCHANGED <<config, database, version, loaded, tasks, failures, stops>>
  PROVE  StartupInv'
  <1> DEFINE p == process[r]
             q == process'[r]
  <1>1. /\ TypeOK /\ p \in Process /\ p.at \in 0 .. 7
        /\ Placed(r) /\ PartsOpen(r) /\ Prepared(r)
    BY HookAt DEF StartupInv, ReplicaInv, TypeOK, Process
  <1>2. /\ p.pc = "construct" => p.at = 0
        /\ p.pc = "start" => p.at \in {3, 5} /\ Starts(p.at)
        /\ p.pc = "listen" => p.at \in {6, 7} /\ Starts(p.at)
    BY <1>1 DEF Placed
  <1>3. /\ UNCHANGED <<schema, routes, tx>> /\ ~ InTx(r)
        /\ \A s \in Replicas \ {r} : open'[s] = open[s] /\ process'[s] = process[s]
        /\ open' \in [Replicas -> SUBSET Parts] /\ open'[r] = open[r] \cup parts
    <2>1. UNCHANGED <<schema, routes, tx>> /\ ~ InTx(r)
      BY <1>1 DEF database, InTx, TypeOK
    <2>2. \A s \in Replicas \ {r} : process'[s] = process[s]
      BY <1>1, NextHook DEF TypeOK
    <2>3. QED BY <1>1, <2>1, <2>2 DEF Opens, TypeOK
  <1>4. /\ process' \in [Replicas -> Process]
        /\ \/ q.pc = "up" /\ q.at = 7 /\ p.at = 7
           \/ /\ q.at \in {3, 5, 6, 7} /\ p.at < q.at /\ Starts(q.at)
              /\ \A i \in p.at + 1 .. 7 : Starts(i) => q.at <= i
              /\ q.at \in {3, 5} => q.pc = "start"
              /\ q.at \in {6, 7} => q.pc \in {"sync", "listen"}
                                   /\ (q.pc = "sync" <=> config.authorization)
    <2>1. CASE /\ process' = [process EXCEPT ![r] = [pc |-> "up", at |-> 7]]
               /\ \A i \in p.at + 1 .. 7 : ~ Starts(i)
      <3>1. p.at = 7
        BY <1>1, <2>1, StartsAt
      <3>2. [pc |-> "up", at |-> 7] \in Process
        BY HookAt DEF Process
      <3>3. QED BY <1>1, <2>1, <3>1, <3>2 DEF TypeOK
    <2>2. ASSUME NEW n \in p.at + 1 .. 7,
                 process' = [process EXCEPT ![r] = [pc |-> FirstStep(Hooks[n]), at |-> n]],
                 n \in {3, 5, 6, 7}, Starts(n),
                 \A i \in p.at + 1 .. 7 : Starts(i) => n <= i
          PROVE  <1>4!:
      <3> DEFINE step == FirstStep(Hooks[n])
      <3>1. /\ n \in {3, 5} => step = "start"
            /\ n \in {6, 7} => step \in {"sync", "listen"} /\ (step = "sync" <=> config.authorization)
        BY <2>2, FirstSteps
      <3> HIDE DEF step
      <3>2. [pc |-> step, at |-> n] \in Process
        BY <2>2, <3>1, HookAt DEF Process
      <3>3. process' = [process EXCEPT ![r] = [pc |-> step, at |-> n]]
        BY <2>2 DEF step
      <3>4. process' \in [Replicas -> Process] /\ q = [pc |-> step, at |-> n]
        BY <1>1, <3>2, <3>3 DEF TypeOK
      <3>5. q.pc = step /\ q.at = n
        BY <3>4
      <3> HIDE DEF q
      <3>6. QED BY <1>1, <2>2, <3>1, <3>4, <3>5
    <2>3. QED BY <1>1, <2>1, <2>2, NextHook
  <1>5. TypeOK'
    BY <1>1, <1>3, <1>4 DEF TypeOK, InTx, tasks
  <1>6. /\ \A i : (Starts(i)' <=> Starts(i)) /\ (Present(i)' <=> Present(i))
        /\ Starts(7) /\ (config.grpc => Starts(6))
    BY StartsAt DEF Starts, Present
  <1>7. Placed(r)'
    BY <1>2, <1>4, <1>6 DEF Placed
  <1>8. \A i \in {3, 5, 6, 7} : p.pc = "construct" => Hooks[i] \notin parts
    BY HookAt DEF Connections
  <1>9. PartsOpen(r)'
    <2>1. ASSUME NEW i \in 1 .. 7, Present(i), Reached(q, i)
          PROVE  Hooks[i] \in open'[r]
      <3>1. i \notin {1, 2, 4} => Starts(i)
        BY <2>1 DEF Present
      <3>2. i \in {1, 2, 4} \/ i <= p.at
        BY <1>1, <1>4, <2>1, <3>1 DEF Reached, StartPcs
      <3>3. CASE p.pc = "construct"
        BY <1>2, <1>3, <2>1, <3>2, <3>3, HookAt, StartsAt DEF Present, Connections
      <3>4. CASE p.pc # "construct" /\ i = p.at
        BY <1>3, <3>4
      <3>5. CASE p.pc # "construct" /\ i # p.at
        <4>1. Reached(p, i)
          BY <1>1, <3>2, <3>5 DEF Reached, StartPcs
        <4>2. QED BY <1>1, <1>3, <2>1, <4>1 DEF PartsOpen
      <3>6. QED BY <3>3, <3>4, <3>5
    <2>2. ASSUME NEW i \in {3, 5, 6, 7}, Hooks[i] \in open'[r]
          PROVE  Reached(q, i)
      <3>1. CASE Hooks[i] \in open[r]
        <4>1. Reached(p, i)
          BY <1>1, <3>1 DEF PartsOpen
        <4>2. i < p.at
          BY <4>1 DEF Reached, StartPcs
        <4>3. QED BY <1>1, <1>4, <4>2 DEF Reached, StartPcs
      <3>2. CASE Hooks[i] \in parts
        <4>1. i = p.at
          BY <1>1, <1>2, <1>8, <3>2, HooksDiffer
        <4>2. QED BY <1>1, <1>4, <4>1 DEF Reached, StartPcs
      <3>3. QED BY <1>3, <2>2, <3>1, <3>2
    <2>3. QED BY <1>6, <2>1, <2>2 DEF PartsOpen
  <1>10. Prepared(r)'
    <2>1. schema
      BY <1>1 DEF Prepared
    <2>2. ASSUME config.authorization, {"grpc", "http"} \cap open'[r] # {}
          PROVE  loaded[r]
      <3>1. {"grpc", "http"} \cap open[r] # {} \/ {"grpc", "http"} \cap parts # {}
        BY <1>3, <2>2
      <3>2. {"grpc", "http"} \cap parts # {} => p.pc = "listen"
        BY <1>2, <1>8, HookAt
      <3>3. QED BY <1>1, <2>2, <3>1, <3>2 DEF Prepared
    <2>3. ASSUME config.authorization, NEW u \in Declared[version[r]],
                 Hooks[Index(u)] \in open'[r]
          PROVE  routes[u] # "absent"
      <3>1. Index(u) \in {6, 7}
        BY DEF Index
      <3>2. CASE Hooks[Index(u)] \in open[r]
        BY <1>1, <2>3, <3>2 DEF Prepared
      <3>3. CASE Hooks[Index(u)] \in parts
        <4>1. p.pc = "listen" /\ p.at = Index(u)
          BY <1>1, <1>2, <1>8, <3>1, <3>3, HooksDiffer
        <4>2. QED BY <1>1, <2>3, <4>1 DEF Prepared
      <3>4. QED BY <1>3, <2>3, <3>2, <3>3
    <2>4. config.authorization => q.pc \notin {"refresh", "listen"}
      BY <1>4
    <2>5. QED BY <1>3, <2>1, <2>2, <2>3, <2>4 DEF Prepared
  <1>11. Syncing(r)'
    BY <1>3 DEF Syncing, InTx
  <1>12. RoutesInv'
    <2>1. ASSUME config.authorization, config.grpc, NEW u \in Routes, HasSynced(r, u)'
          PROVE  HasSynced(r, u)
      <3>1. version[r] = "new" /\ Index(u) \in {6, 7}
        BY <2>1 DEF HasSynced, Index
      <3>2. p.at \in {6, 7} /\ Index(u) <= p.at
        BY <1>1, <1>2, <1>4, <1>6, <2>1, <3>1 DEF HasSynced
      <3>3. p.pc = "listen"
        BY <1>2, <3>2
      <3>4. QED BY <3>1, <3>2, <3>3 DEF HasSynced, StartPcs
    <2>2. ASSUME config.authorization, config.grpc, NEW u \in Routes, WillDeactivate(r, u)
          PROVE  WillDeactivate(r, u)'
      BY <1>3, <2>1, <2>2 DEF WillDeactivate, InTx
    <2>3. QED BY <1>3, <2>1, <2>2, RoutesStay
  <1>13. TaskInv'
    <2>1. r = Followed /\ Polls(p) => q.pc = "up"
      BY <1>2, <1>4 DEF Polls
    <2>2. QED BY <1>3, <2>1, StartupAssumption DEF StartupInv, TaskInv, Polls, tasks
  <1>14. ReplicaInv(r)'
    BY <1>7, <1>9, <1>10, <1>11 DEF ReplicaInv
  <1>15. QED BY <1>3, <1>5, <1>12, <1>13, <1>14, StepOf

LEMMA ConstructStep ==
  ASSUME StartupInv, NEW r \in Replicas, Construct(r)
  PROVE  StartupInv'
  <1>1. Connections \subseteq Parts
    BY DEF Connections, Parts
  <1>2. QED BY <1>1, Advanced DEF Construct

(* The start of a hook has failed: those before it are to be stopped.      *)
LEMMA RolledBack ==
  ASSUME StartupInv, NEW r \in Replicas, Rollback(r),
         process[r].pc \in {"start", "sync", "refresh", "listen"},
         UNCHANGED <<config, schema, routes, version, open, loaded, tasks, stops>>,
         failures' \in 0 .. MaxFailures
  PROVE  StartupInv'
  <1> DEFINE p == process[r]
             q == process'[r]
  <1>1. /\ TypeOK /\ p \in Process /\ p.at \in {3, 5, 6, 7}
        /\ Placed(r) /\ PartsOpen(r) /\ Prepared(r)
    BY DEF StartupInv, ReplicaInv, TypeOK, Placed
  <1>2. [pc |-> "stop", at |-> p.at - 1] \in Process
    BY <1>1, HookAt DEF Process
  <1>3. /\ process' \in [Replicas -> Process] /\ q.pc = "stop" /\ q.at = p.at - 1
        /\ \A s \in Replicas \ {r} : process'[s] = process[s] /\ tx'[s] = tx[s]
        /\ tx' \in [Replicas -> Transaction] /\ tx'[r] = NoTx
    BY <1>1, <1>2 DEF Rollback, Goes, TypeOK, Transaction
  <1>4. TypeOK'
    BY <1>1, <1>3 DEF TypeOK, tasks
  <1>5. Placed(r)' /\ Syncing(r)'
    BY <1>3 DEF Placed, Syncing, InTx
  <1>6. PartsOpen(r)'
    <2>1. \A i \in 1 .. 7 : Reached(q, i) => Reached(p, i)
      BY <1>1, <1>3 DEF Reached, StartPcs
    <2>2. \A i \in {3, 5, 6, 7} : Reached(p, i) => Reached(q, i)
      BY <1>1, <1>3 DEF Reached, StartPcs
    <2>3. \A i : Present(i)' <=> Present(i)
      BY DEF Present, Starts
    <2>4. QED BY <1>1, <2>1, <2>2, <2>3 DEF PartsOpen
  <1>7. Prepared(r)'
    BY <1>1, <1>3 DEF Prepared
  <1>8. RoutesInv'
    <2>1. \A u \in Routes : ~ HasSynced(r, u)' /\ WillDeactivate(r, u)'
      BY <1>3 DEF HasSynced, StartPcs, WillDeactivate, InTx
    <2>2. QED BY <1>3, <2>1, RoutesStay
  <1>9. TaskInv'
    BY <1>3, StartupAssumption DEF StartupInv, TaskInv, Polls, tasks
  <1>10. QED BY <1>3, <1>4, <1>5, <1>6, <1>7, <1>8, <1>9, StepOf DEF ReplicaInv

LEMMA StartBusStep ==
  ASSUME StartupInv, NEW r \in Replicas, StartBus(r)
  PROVE  StartupInv'
  <1>1. process[r].pc = "start" /\ Hooks[process[r].at] = "bus"
    BY DEF StartBus, Starting
  <1>2. CASE config.database
    <2>1. {"bus"} \subseteq Parts /\ StartNext(r) /\ Opens(r, {"bus"})
          /\ UNCHANGED <<config, database, version, loaded, tasks, failures, stops>>
      BY <1>2 DEF Parts, StartBus, database
    <2>2. QED BY <1>1, <2>1, Advanced
  <1>3. CASE ~ config.database
    <2>1. /\ Rollback(r)
          /\ UNCHANGED <<config, schema, routes, version, open, loaded, tasks, stops>>
          /\ failures' \in 0 .. MaxFailures
      BY <1>3 DEF StartBus, StartupInv, TypeOK
    <2>2. QED BY <1>1, <2>1, RolledBack
  <1>4. QED BY <1>2, <1>3

LEMMA StartSchedulerStep ==
  ASSUME StartupInv, NEW r \in Replicas, StartScheduler(r)
  PROVE  StartupInv'
  <1>1. /\ process[r].pc = "start" /\ Hooks[process[r].at] = "scheduler"
        /\ {"scheduler"} \subseteq Parts
    BY DEF StartScheduler, Starting, Parts
  <1>2. QED BY <1>1, Advanced DEF StartScheduler

LEMMA ListenStep ==
  ASSUME StartupInv, NEW r \in Replicas, Listen(r)
  PROVE  StartupInv'
  <1>1. process[r].pc = "listen" /\ process[r].at \in {6, 7}
    BY DEF Listen, StartupInv, ReplicaInv, Placed
  <1>2. {Hooks[process[r].at]} \subseteq Parts
    BY <1>1, HooksDiffer
  <1>3. QED BY <1>1, <1>2, Advanced DEF Listen

(* The process ends, and what was open in it goes with it.                 *)
LEMMA Left ==
  ASSUME StartupInv, NEW r \in Replicas, Leaves(r), failures' \in 0 .. MaxFailures
  PROVE  StartupInv'
  <1>1. /\ TypeOK /\ UNCHANGED <<config, schema, routes, version, stops>>
        /\ Down \in Process /\ NoTx \in Transaction
    BY HookAt DEF StartupInv, Leaves, Down, Process, Transaction
  <1>2. /\ process' \in [Replicas -> Process] /\ tx' \in [Replicas -> Transaction]
        /\ open' \in [Replicas -> SUBSET Parts] /\ loaded' \in [Replicas -> BOOLEAN]
        /\ process'[r] = Down /\ tx'[r] = NoTx /\ open'[r] = {}
        /\ \A s \in Replicas \ {r} :
             /\ tx'[s] = tx[s] /\ process'[s] = process[s]
             /\ open'[s] = open[s] /\ loaded'[s] = loaded[s]
    BY <1>1 DEF Leaves, TypeOK
  <1>3. process'[r].pc = "down" /\ process'[r].at = 0
    BY <1>2 DEF Down
  <1>4. TypeOK'
    BY <1>1, <1>2 DEF TypeOK, Leaves
  <1>5. Placed(r)' /\ Syncing(r)' /\ Prepared(r)'
    BY <1>2, <1>3 DEF Placed, Syncing, InTx, Prepared
  <1>6. PartsOpen(r)'
    BY <1>2, <1>3 DEF PartsOpen, Reached, StartPcs
  <1>7. RoutesInv'
    <2>1. \A u \in Routes : ~ HasSynced(r, u)' /\ WillDeactivate(r, u)'
      BY <1>2, <1>3 DEF HasSynced, StartPcs, WillDeactivate, InTx
    <2>2. QED BY <1>1, <1>2, <2>1, RoutesStay
  <1>8. TaskInv'
    <2>1. CASE r = Followed
      BY <2>1 DEF Leaves, TaskInv
    <2>2. CASE r # Followed
      BY <1>2, <2>2, StartupAssumption DEF StartupInv, TypeOK, Leaves, TaskInv
    <2>3. QED BY <2>1, <2>2
  <1>9. QED BY <1>1, <1>2, <1>4, <1>5, <1>6, <1>7, <1>8, StepOf DEF ReplicaInv

LEMMA ExitStep ==
  ASSUME StartupInv, NEW r \in Replicas, Exit(r)
  PROVE  StartupInv'
  BY Left DEF Exit, StartupInv, TypeOK

LEMMA CrashStep ==
  ASSUME StartupInv, NEW r \in Replicas, Crash(r)
  PROVE  StartupInv'
  <1>1. failures' \in 0 .. MaxFailures
    BY StartupAssumption DEF Crash, StartupInv, TypeOK
  <1>2. QED BY <1>1, Left DEF Crash

LEMMA FailStep ==
  ASSUME StartupInv, NEW r \in Replicas, Fail(r)
  PROVE  StartupInv'
  <1>1. failures' \in 0 .. MaxFailures
    BY StartupAssumption DEF Fail, StartupInv, TypeOK
  <1>2. CASE Leaves(r)
    BY <1>1, <1>2, Left
  <1>3. CASE ~ Leaves(r)
    BY <1>1, <1>3, RolledBack DEF Fail, Starting
  <1>4. QED BY <1>2, <1>3

LEMMA RunStep ==
  ASSUME StartupInv, NEW r \in Replicas, NEW v \in {"old", "new"}, Run(r, v)
  PROVE  StartupInv'
  <1> DEFINE first == IF config.autoUp THEN "migrate" ELSE "construct"
             q == process'[r]
  <1>1. /\ TypeOK /\ process[r].pc = "down" /\ process[r].at = 0
        /\ PartsOpen(r) /\ Prepared(r) /\ ~ InTx(r)
        /\ UNCHANGED <<config, schema, routes, tx, open, loaded, tasks, failures, stops>>
    BY DEF StartupInv, ReplicaInv, Run, Down, TypeOK, database, InTx
  <1>2. [pc |-> first, at |-> 0] \in Process
    BY HookAt DEF Process
  <1>3. /\ process' \in [Replicas -> Process] /\ q.pc = first /\ q.at = 0
        /\ version' \in [Replicas -> {"old", "new"}]
        /\ \A s \in Replicas \ {r} : process'[s] = process[s] /\ version'[s] = version[s]
    BY <1>1, <1>2 DEF Run, Goes, TypeOK
  <1>4. q.pc \in {"migrate", "construct"} /\ (q.pc = "construct" => schema)
    BY <1>3 DEF StartupInv
  <1>5. TypeOK'
    BY <1>1, <1>3 DEF TypeOK, InTx, tasks
  <1>6. Placed(r)' /\ Syncing(r)'
    BY <1>1, <1>3, <1>4 DEF Placed, Syncing, InTx
  <1>7. \A i \in {3, 5, 6, 7} : Hooks[i] \notin open[r]
    BY <1>1 DEF PartsOpen, Reached, StartPcs
  <1>8. PartsOpen(r)'
    BY <1>1, <1>4, <1>7 DEF PartsOpen, Reached, StartPcs
  <1>9. Prepared(r)'
    <2>1. {"grpc", "http"} \cap open[r] = {}
      BY <1>7, HookAt
    <2>2. \A u : Hooks[Index(u)] \notin open[r]
      BY <1>7 DEF Index
    <2>3. QED BY <1>1, <1>4, <2>1, <2>2 DEF Prepared
  <1>10. RoutesInv'
    <2>1. \A u \in Routes : ~ HasSynced(r, u)' /\ WillDeactivate(r, u)'
      BY <1>1, <1>4 DEF HasSynced, StartPcs, WillDeactivate, InTx
    <2>2. \E s \in Replicas : \A u \in Routes : ~ HasSynced(s, u)' /\ WillDeactivate(s, u)'
      BY <2>1
    <2>3. QED BY <2>2 DEF RoutesInv
  <1>11. TaskInv'
    BY <1>1, <1>3, StartupAssumption DEF StartupInv, TaskInv, Polls, tasks
  <1>12. QED BY <1>1, <1>3, <1>5, <1>6, <1>8, <1>9, <1>10, <1>11, StepOf DEF ReplicaInv

LEMMA runStartupMigrationStep ==
  ASSUME StartupInv, NEW r \in Replicas, runStartupMigration(r)
  PROVE  StartupInv'
  <1> DEFINE q == process'[r]
  <1>1. /\ TypeOK /\ process[r].pc = "migrate" /\ schema'
        /\ PartsOpen(r) /\ Prepared(r) /\ ~ InTx(r)
        /\ UNCHANGED <<config, routes, tx, version, open, loaded, tasks, failures, stops>>
    BY DEF StartupInv, ReplicaInv, runStartupMigration, TypeOK, InTx
  <1>2. [pc |-> "construct", at |-> 0] \in Process
    BY HookAt DEF Process
  <1>3. /\ process' \in [Replicas -> Process] /\ q.pc = "construct" /\ q.at = 0
        /\ \A s \in Replicas \ {r} : process'[s] = process[s]
    BY <1>1, <1>2 DEF runStartupMigration, Goes, TypeOK
  <1>4. TypeOK'
    BY <1>1, <1>3 DEF TypeOK, InTx, runStartupMigration, tasks
  <1>5. Placed(r)' /\ Syncing(r)'
    BY <1>1, <1>3 DEF Placed, Syncing, InTx
  <1>6. PartsOpen(r)'
    BY <1>1, <1>3 DEF PartsOpen, Reached, StartPcs
  <1>7. Prepared(r)'
    BY <1>1, <1>3 DEF Prepared
  <1>8. RoutesInv'
    <2>1. \A u \in Routes : ~ HasSynced(r, u)' /\ WillDeactivate(r, u)'
      BY <1>1, <1>3 DEF HasSynced, StartPcs, WillDeactivate, InTx
    <2>2. QED BY <1>1, <1>3, <2>1, RoutesStay
  <1>9. TaskInv'
    BY <1>1, <1>3, StartupAssumption DEF StartupInv, TaskInv, Polls, tasks
  <1>10. QED BY <1>1, <1>3, <1>4, <1>5, <1>6, <1>7, <1>8, <1>9, StepOf DEF ReplicaInv

LEMMA RefreshSourceStep ==
  ASSUME StartupInv, NEW r \in Replicas, RefreshSource(r)
  PROVE  StartupInv'
  <1> DEFINE p == process[r]
             q == process'[r]
  <1>1. /\ TypeOK /\ p.pc = "refresh" /\ p.at \in {6, 7} /\ Starts(p.at)
        /\ PartsOpen(r) /\ Prepared(r) /\ ~ InTx(r)
        /\ UNCHANGED <<config, schema, routes, tx, version, open, work, failures, stops>>
    BY DEF StartupInv, ReplicaInv, Placed, RefreshSource, TypeOK, database, InTx
  <1>2. [pc |-> "listen", at |-> p.at] \in Process
    BY <1>1, HookAt DEF Process
  <1>3. /\ process' \in [Replicas -> Process] /\ q.pc = "listen" /\ q.at = p.at
        /\ loaded' \in [Replicas -> BOOLEAN] /\ loaded'[r]
        /\ \A s \in Replicas \ {r} : process'[s] = process[s] /\ loaded'[s] = loaded[s]
    BY <1>1, <1>2 DEF RefreshSource, Goes, TypeOK
  <1>4. TypeOK'
    BY <1>1, <1>3 DEF TypeOK, InTx, RefreshSource
  <1>5. \A i : (Starts(i)' <=> Starts(i)) /\ (Present(i)' <=> Present(i))
    BY <1>1 DEF Starts, Present
  <1>6. Placed(r)' /\ Syncing(r)'
    BY <1>1, <1>3, <1>5 DEF Placed, Syncing, InTx
  <1>7. PartsOpen(r)'
    BY <1>1, <1>3, <1>5 DEF PartsOpen, Reached, StartPcs
  <1>8. Prepared(r)'
    BY <1>1, <1>3 DEF Prepared
  <1>9. RoutesInv'
    <2>1. \A u \in Routes : /\ HasSynced(r, u)' <=> HasSynced(r, u)
                            /\ WillDeactivate(r, u) => WillDeactivate(r, u)'
      BY <1>1, <1>3 DEF HasSynced, StartPcs, WillDeactivate, InTx
    <2>2. QED BY <1>1, <1>3, <2>1, RoutesStay
  <1>10. TaskInv'
    <2>1. polling' => polling \/ (r = Followed /\ p.at = 7)
      BY <1>1, HookAt DEF RefreshSource
    <2>2. ~ Polls(p)
      BY <1>1 DEF Polls
    <2>3. QED BY <1>1, <1>3, <2>1, <2>2, StartupAssumption DEF StartupInv, TaskInv, Polls
  <1>11. QED BY <1>1, <1>3, <1>4, <1>6, <1>7, <1>8, <1>9, <1>10, StepOf DEF ReplicaInv

-----------------------------------------------------------------------------
(* A step inside a transaction of SyncRoutes.                              *)
LEMMA InTransaction ==
  ASSUME StartupInv, NEW r \in Replicas, process[r].pc = "sync",
         NEW t \in Transaction, Writes(r, t),
         UNCHANGED <<config, schema, routes, version, process, open, loaded, tasks,
                     failures, stops>>,
         Syncing(r)',
         \A u \in Routes : u \notin Declared["new"] /\ routes[u] = "active"
           /\ WillDeactivate(r, u) => WillDeactivate(r, u)'
  PROVE  StartupInv'
  <1>1. TypeOK /\ Placed(r) /\ PartsOpen(r) /\ Prepared(r)
    BY DEF StartupInv, ReplicaInv
  <1>2. /\ tx' \in [Replicas -> Transaction] /\ tx'[r] = t
        /\ \A s \in Replicas \ {r} : tx'[s] = tx[s]
    BY <1>1 DEF Writes, TypeOK
  <1>3. TypeOK'
    BY <1>1, <1>2 DEF TypeOK, tasks
  <1>4. Placed(r)' /\ PartsOpen(r)' /\ Prepared(r)'
    BY <1>1 DEF Placed, PartsOpen, Prepared, Present, Starts
  <1>5. \A u \in Routes : HasSynced(r, u)' => HasSynced(r, u)
    BY DEF HasSynced
  <1>6. RoutesInv'
    BY <1>2, <1>5, RoutesStay
  <1>7. TaskInv'
    BY DEF StartupInv, TaskInv, tasks
  <1>8. QED BY <1>2, <1>3, <1>4, <1>6, <1>7, StepOf DEF ReplicaInv

(* What a transaction that is open is about.                               *)
LEMMA TheRoutes ==
  ASSUME StartupInv, NEW r \in Replicas, process[r].pc = "sync"
  PROVE  /\ process[r].at \in {6, 7} /\ config.authorization /\ version[r] \in {"old", "new"}
         /\ Discovered(r) = Declared[version[r]] \cap Served(r)
         /\ Served(r) = {u \in Routes : Index(u) = process[r].at}
         /\ NoRoute \notin Served(r) /\ Served(r) \subseteq Routes
         /\ Declared[version[r]] \subseteq Routes
  <1>1. /\ process[r].at \in {6, 7} /\ config.authorization /\ version[r] \in {"old", "new"}
    BY DEF StartupInv, ReplicaInv, Placed, TypeOK
  <1>2. /\ SyncsRpcs(r) <=> process[r].at = 6
    BY <1>1, HookAt DEF SyncsRpcs
  <1>3. Served(r) = {u \in Routes : Index(u) = process[r].at}
    BY <1>1, <1>2, StartupAssumption DEF Served, Index, Routes
  <1>4. Discovered(r) = Declared[version[r]] \cap Served(r)
    BY <1>2 DEF Discovered, Served, discoveredGRPCRoutes, discoveredBusinessRoutes
  <1>5. Declared[version[r]] \subseteq Routes
    BY <1>1, StartupAssumption
  <1>6. QED BY <1>1, <1>3, <1>4, <1>5, StartupAssumption

LEMMA InTxSyncs ==
  ASSUME StartupInv, NEW r \in Replicas, InTx(r)
  PROVE  /\ process[r].pc = "sync" /\ Syncing(r)
         /\ tx[r] \in [pc : {"open"}, want : SUBSET Routes, todo : SUBSET Routes,
                       rows : [Routes -> {"none", "inactive", "active"}],
                       at : Routes \cup {NoRoute}, found : BOOLEAN]
  BY DEF StartupInv, ReplicaInv, TypeOK, InTx, Transaction

LEMMA BeginSyncStep ==
  ASSUME StartupInv, NEW r \in Replicas, BeginSync(r)
  PROVE  StartupInv'
  <1> DEFINE t == [pc |-> "open", want |-> ActiveRows(r), todo |-> Discovered(r),
                   rows |-> [u \in Routes |-> "none"], at |-> NoRoute, found |-> FALSE]
  <1>1. /\ process[r].pc = "sync" /\ ~ InTx(r) /\ TypeOK
        /\ UNCHANGED <<config, schema, routes, version, open, loaded, tasks, failures, stops>>
    BY DEF BeginSync, StartupInv
  <1>2. CASE config.database
    <2>1. Writes(r, t) /\ UNCHANGED process
      BY <1>2 DEF BeginSync
    <2>2. /\ ActiveRows(r) = {u \in Served(r) : routes[u] = "active"}
          /\ ActiveRows(r) \subseteq Routes /\ Discovered(r) \subseteq Routes
      BY <1>1, TheRoutes DEF ActiveRows
    <2>3. /\ t \in Transaction /\ t # NoTx /\ t.want = ActiveRows(r) /\ t.todo = Discovered(r)
          /\ t.at = NoRoute /\ \A u \in Routes : t.rows[u] = "none"
      BY <2>2 DEF Transaction, NoTx
    <2> HIDE DEF t
    <2>4. tx'[r] = t /\ InTx(r)'
      BY <1>1, <2>1, <2>3 DEF Writes, TypeOK, InTx
    <2>5. Discovered(r)' = Discovered(r) /\ Served(r)' = Served(r)
      BY <1>1, <2>1 DEF Discovered, Served, SyncsRpcs, discoveredGRPCRoutes,
                        discoveredBusinessRoutes
    <2>6. Syncing(r)'
      BY <1>1, <2>2, <2>3, <2>4, <2>5, TheRoutes DEF Syncing
    <2>7. \A u \in Routes : WillDeactivate(r, u) /\ routes[u] = "active" => WillDeactivate(r, u)'
      BY <1>1, <2>1, <2>2, <2>3, <2>4, TheRoutes DEF WillDeactivate, HasSynced
    <2>8. QED BY <1>1, <2>1, <2>3, <2>6, <2>7, InTransaction
  <1>3. CASE ~ config.database
    BY <1>1, <1>3, RolledBack DEF BeginSync, StartupInv, TypeOK
  <1>4. QED BY <1>2, <1>3

(* A row that was active is inactive once its lock was got.                *)
LEMMA DeactivateStep ==
  ASSUME StartupInv, NEW r \in Replicas, NEW u \in Routes, Deactivate(r, u)
  PROVE  StartupInv'
  <1> DEFINE x == tx[r]
             row == IF routes[u] = "active" THEN "inactive" ELSE x.rows[u]
             rows == [x.rows EXCEPT ![u] = row]
             want == x.want \ {u}
             t == [x EXCEPT !.want = want, !.rows = rows]
  <1>1. /\ InTx(r) /\ u \in x.want /\ TypeOK
        /\ UNCHANGED <<config, schema, routes, version, process, open, loaded, tasks, failures,
                       stops>>
    BY DEF Deactivate, StartupInv
  <1>2. /\ process[r].pc = "sync" /\ Syncing(r) /\ x \in Transaction
        /\ x \in [pc : {"open"}, want : SUBSET Routes, todo : SUBSET Routes,
                  rows : [Routes -> {"none", "inactive", "active"}],
                  at : Routes \cup {NoRoute}, found : BOOLEAN]
    BY <1>1, InTxSyncs DEF TypeOK
  <1>3. Writes(r, t)
    BY <1>2 DEF Deactivate
  <1>4. /\ want \subseteq Routes /\ row \in {"none", "inactive", "active"}
        /\ rows \in [Routes -> {"none", "inactive", "active"}] /\ rows[u] = row
        /\ \A v \in Routes \ {u} : rows[v] = x.rows[v]
    BY <1>2
  <1> HIDE DEF rows, want
  <1>5. /\ t \in Transaction /\ t # NoTx /\ t.want = want /\ t.todo = x.todo
        /\ t.at = x.at /\ t.rows = rows
    <2> HIDE DEF x
    <2>1. QED BY <1>2, <1>4 DEF Transaction, NoTx
  <1> HIDE DEF t
  <1>6. tx'[r] = t /\ InTx(r)'
    BY <1>1, <1>3, <1>5 DEF Writes, TypeOK, InTx
  <1>7. Discovered(r)' = Discovered(r) /\ Served(r)' = Served(r)
    BY <1>1 DEF Discovered, Served, SyncsRpcs, discoveredGRPCRoutes, discoveredBusinessRoutes
  <1>8. /\ x.want # {} /\ u \in Served(r) /\ want \subseteq x.want
        /\ x.todo = Discovered(r) /\ x.at = NoRoute
    BY <1>1, <1>2 DEF Syncing, want
  <1>9. Syncing(r)'
    BY <1>1, <1>2, <1>4, <1>5, <1>6, <1>7, <1>8 DEF Syncing
  <1>10. \A v \in Routes : WillDeactivate(r, v) /\ routes[v] = "active" => WillDeactivate(r, v)'
    BY <1>1, <1>4, <1>5, <1>6 DEF WillDeactivate, HasSynced, want
  <1>11. QED BY <1>1, <1>2, <1>3, <1>5, <1>9, <1>10, InTransaction

LEMMA LookUpStep ==
  ASSUME StartupInv, NEW r \in Replicas, NEW u \in Routes, LookUp(r, u)
  PROVE  StartupInv'
  <1> DEFINE x == tx[r]
             todo == x.todo \ {u}
             found == Registered(u)
             t == [x EXCEPT !.at = u, !.todo = todo, !.found = found]
  <1>1. /\ InTx(r) /\ x.want = {} /\ x.at = NoRoute /\ u \in x.todo /\ TypeOK
        /\ UNCHANGED <<config, schema, routes, version, process, open, loaded, tasks, failures,
                       stops>>
    BY DEF LookUp, StartupInv
  <1>2. /\ process[r].pc = "sync" /\ Syncing(r)
        /\ x \in [pc : {"open"}, want : SUBSET Routes, todo : SUBSET Routes,
                  rows : [Routes -> {"none", "inactive", "active"}],
                  at : Routes \cup {NoRoute}, found : BOOLEAN]
    BY <1>1, InTxSyncs
  <1>3. Writes(r, t)
    BY <1>2 DEF LookUp
  <1>4. found \in BOOLEAN /\ todo \subseteq Routes
    BY <1>2 DEF Registered
  <1> HIDE DEF found, todo
  <1>5. /\ t \in Transaction /\ t # NoTx /\ t.want = x.want /\ t.todo = todo
        /\ t.at = u /\ t.rows = x.rows
    <2> HIDE DEF x
    <2>1. QED BY <1>2, <1>4 DEF Transaction, NoTx
  <1> HIDE DEF t
  <1>6. tx'[r] = t /\ InTx(r)'
    BY <1>1, <1>3, <1>5 DEF Writes, TypeOK, InTx
  <1>7. Discovered(r)' = Discovered(r) /\ Served(r)' = Served(r)
    BY <1>1 DEF Discovered, Served, SyncsRpcs, discoveredGRPCRoutes, discoveredBusinessRoutes
  <1>8. Syncing(r)'
    BY <1>1, <1>2, <1>5, <1>6, <1>7, TheRoutes DEF Syncing, todo
  <1>9. \A v \in Routes : WillDeactivate(r, v) /\ routes[v] = "active" => WillDeactivate(r, v)'
    BY <1>1, <1>5, <1>6 DEF WillDeactivate, HasSynced
  <1>10. QED BY <1>1, <1>2, <1>3, <1>5, <1>8, <1>9, InTransaction

LEMMA StoreStep ==
  ASSUME StartupInv, NEW r \in Replicas, Store(r)
  PROVE  StartupInv'
  <1> DEFINE x == tx[r]
             u == x.at
             rows == [x.rows EXCEPT ![u] = "active"]
             t == [x EXCEPT !.at = NoRoute, !.rows = rows]
  <1>1. /\ InTx(r) /\ u # NoRoute /\ TypeOK
        /\ UNCHANGED <<config, schema, routes, version, open, loaded, tasks, failures, stops>>
    BY DEF Store, StartupInv
  <1>2. /\ process[r].pc = "sync" /\ Syncing(r)
        /\ x \in [pc : {"open"}, want : SUBSET Routes, todo : SUBSET Routes,
                  rows : [Routes -> {"none", "inactive", "active"}],
                  at : Routes \cup {NoRoute}, found : BOOLEAN]
    BY <1>1, InTxSyncs
  <1>3. CASE Rollback(r)
    BY <1>1, <1>2, <1>3, RolledBack DEF StartupInv, TypeOK
  <1>4. CASE ~ Rollback(r)
    <2>1. Writes(r, t) /\ UNCHANGED process
      BY <1>2, <1>4 DEF Store
    <2>2. u \in Routes /\ u \in Discovered(r)
      BY <1>1, <1>2 DEF Syncing
    <2>3. /\ rows \in [Routes -> {"none", "inactive", "active"}] /\ rows[u] = "active"
          /\ \A v \in Routes \ {u} : rows[v] = x.rows[v]
      BY <1>2, <2>2
    <2> HIDE DEF rows
    <2>4. /\ t \in Transaction /\ t # NoTx /\ t.want = x.want /\ t.todo = x.todo
          /\ t.at = NoRoute /\ t.rows = rows
      <3> HIDE DEF x
      <3>1. QED BY <1>2, <2>3 DEF Transaction, NoTx
    <2> HIDE DEF t
    <2>5. tx'[r] = t /\ InTx(r)'
      BY <1>1, <2>1, <2>4 DEF Writes, TypeOK, InTx
    <2>6. Discovered(r)' = Discovered(r) /\ Served(r)' = Served(r)
      BY <1>1, <2>1 DEF Discovered, Served, SyncsRpcs, discoveredGRPCRoutes,
                        discoveredBusinessRoutes
    <2>7. u \in Declared[version[r]] /\ u \in Served(r) /\ x.want = {}
      BY <1>1, <1>2, <2>2, TheRoutes DEF Syncing
    <2>8. Syncing(r)'
      <3>1. Discovered(r) \subseteq Routes
        BY <1>2, TheRoutes
      <3>2. QED BY <1>1, <1>2, <2>2, <2>3, <2>4, <2>5, <2>6, <2>7, <3>1 DEF Syncing
    <2>9. ASSUME NEW v \in Routes, v \notin Declared["new"], WillDeactivate(r, v)
          PROVE  WillDeactivate(r, v)'
      BY <1>1, <2>1, <2>3, <2>4, <2>5, <2>7, <2>9 DEF WillDeactivate, HasSynced
    <2>10. QED BY <1>1, <1>2, <2>1, <2>4, <2>8, <2>9, InTransaction
  <1>5. QED BY <1>3, <1>4

LEMMA DeadlockStep ==
  ASSUME StartupInv, NEW r \in Replicas, Deadlock(r)
  PROVE  StartupInv'
  <1>1. InTx(r) /\ Rollback(r)
        /\ UNCHANGED <<config, schema, routes, version, open, loaded, tasks, failures, stops>>
    BY DEF Deadlock, Awaits
  <1>2. process[r].pc = "sync"
    BY <1>1, InTxSyncs
  <1>3. QED BY <1>1, <1>2, RolledBack DEF StartupInv, TypeOK

(* What this version declares is active after the commit, and of the rest  *)
(* what a new version had found active is not.                             *)
LEMMA CommitSyncStep ==
  ASSUME StartupInv, NEW r \in Replicas, CommitSync(r)
  PROVE  StartupInv'
  <1> DEFINE x == tx[r]
             p == process[r]
             q == process'[r]
  <1>1. /\ InTx(r) /\ x.want = {} /\ x.todo = {} /\ x.at = NoRoute /\ TypeOK
        /\ UNCHANGED <<config, schema, version, open, loaded, tasks, failures, stops>>
    BY DEF CommitSync, StartupInv
  <1>2. /\ p.pc = "sync" /\ Syncing(r)
        /\ x \in [pc : {"open"}, want : SUBSET Routes, todo : SUBSET Routes,
                  rows : [Routes -> {"none", "inactive", "active"}],
                  at : Routes \cup {NoRoute}, found : BOOLEAN]
    BY <1>1, InTxSyncs
  <1>3. /\ p.at \in {6, 7} /\ Starts(p.at) /\ config.authorization
        /\ Placed(r) /\ PartsOpen(r) /\ Prepared(r)
    BY <1>2 DEF StartupInv, ReplicaInv, Placed
  <1>4. [pc |-> "refresh", at |-> p.at] \in Process /\ NoTx \in Transaction
    BY <1>3, HookAt DEF Process, Transaction
  <1>5. /\ process' \in [Replicas -> Process] /\ q.pc = "refresh" /\ q.at = p.at
        /\ tx' \in [Replicas -> Transaction] /\ tx'[r] = NoTx
        /\ \A s \in Replicas \ {r} : process'[s] = process[s] /\ tx'[s] = tx[s]
    BY <1>1, <1>4 DEF CommitSync, Goes, Writes, TypeOK
  <1>6. \A u \in Routes : /\ x.rows[u] = "none" => routes'[u] = routes[u]
                          /\ x.rows[u] # "none" => routes'[u] = x.rows[u]
    BY DEF CommitSync
  <1>7. /\ routes' \in [Routes -> {"absent", "inactive", "active"}]
        /\ \A u \in Routes : routes[u] # "absent" => routes'[u] # "absent"
    <2>1. \A u \in Routes : routes'[u] \in {"absent", "inactive", "active"}
      BY <1>1, <1>2, <1>6 DEF TypeOK
    <2>2. routes' = [u \in Routes |-> routes'[u]]
      BY DEF CommitSync
    <2>3. \A u \in Routes : x.rows[u] \in {"none", "inactive", "active"}
      BY <1>2
    <2>4. QED BY <1>6, <2>1, <2>2, <2>3
  <1>8. /\ version[r] \in {"old", "new"} /\ Declared[version[r]] \subseteq Routes
        /\ Discovered(r) = Declared[version[r]] \cap Served(r)
        /\ Served(r) = {u \in Routes : Index(u) = p.at} /\ NoRoute \notin Served(r)
    BY <1>2, TheRoutes
  <1>9. \A u \in Declared[version[r]] : Index(u) = p.at => routes'[u] = "active"
    <2>1. \A u \in Discovered(r) : x.rows[u] = "active"
      BY <1>1, <1>2, <1>8 DEF Syncing
    <2>2. QED BY <1>6, <1>8, <2>1
  <1>10. \A u \in Routes : Index(u) # p.at => routes'[u] = routes[u]
    BY <1>1, <1>2, <1>6, <1>8 DEF Syncing
  <1>11. TypeOK'
    BY <1>1, <1>5, <1>7 DEF TypeOK, tasks
  <1>12. \A i : (Starts(i)' <=> Starts(i)) /\ (Present(i)' <=> Present(i))
    BY <1>1 DEF Starts, Present
  <1>13. Placed(r)' /\ Syncing(r)'
    BY <1>1, <1>3, <1>5, <1>12 DEF Placed, Syncing, InTx
  <1>14. PartsOpen(r)'
    <2>1. \A i : Reached(q, i) <=> Reached(p, i)
      BY <1>2, <1>5 DEF Reached, StartPcs
    <2>2. QED BY <1>1, <1>3, <1>12, <2>1 DEF PartsOpen
  <1>15. Prepared(r)'
    BY <1>1, <1>2, <1>3, <1>5, <1>7, <1>8, <1>9 DEF Prepared
  <1>16. RoutesInv'
    <2> SUFFICES ASSUME config.grpc, NEW u \in Routes
                 PROVE  /\ u \in Declared["new"] /\ routes'[u] # "active" =>
                             \E s \in Replicas : ~ HasSynced(s, u)'
                        /\ u \notin Declared["new"] /\ routes'[u] = "active" =>
                             \E s \in Replicas : WillDeactivate(s, u)'
      BY <1>1, <1>3 DEF RoutesInv
    <2>1. \A s \in Replicas \ {r} : /\ HasSynced(s, u)' <=> HasSynced(s, u)
                                   /\ WillDeactivate(s, u)' <=> WillDeactivate(s, u)
      BY <1>1, <1>5 DEF HasSynced, WillDeactivate, InTx
    <2>2. ~ HasSynced(r, u)' => WillDeactivate(r, u)'
      BY <1>5 DEF WillDeactivate, InTx
    <2>3. version[r] = "old" => ~ HasSynced(r, u)'
      BY <1>1 DEF HasSynced
    <2>4. Index(u) # p.at /\ HasSynced(r, u)' => HasSynced(r, u)
      BY <1>1, <1>2, <1>5 DEF HasSynced, StartPcs
    <2>5. CASE Index(u) = p.at /\ version[r] = "new"
      <3>1. u \in Declared["new"] => routes'[u] = "active"
        BY <1>9, <2>5
      <3>2. ASSUME u \notin Declared["new"], routes'[u] = "active"
            PROVE  \E s \in Replicas : WillDeactivate(s, u)'
        <4>1. x.rows[u] # "active"
          BY <1>1, <1>2, <1>8, <2>5, <3>2 DEF Syncing
        <4>2. x.rows[u] = "none" /\ routes[u] = "active"
          BY <1>6, <3>2, <4>1
        <4>3. ~ WillDeactivate(r, u)
          BY <1>1, <2>5, <4>2 DEF WillDeactivate
        <4>4. PICK s \in Replicas : WillDeactivate(s, u)
          BY <1>1, <1>3, <3>2, <4>2 DEF StartupInv, RoutesInv
        <4>5. QED BY <2>1, <4>3, <4>4
      <3>3. QED BY <3>1, <3>2
    <2>6. CASE Index(u) # p.at /\ version[r] = "new"
      <3>1. routes'[u] = routes[u] /\ (WillDeactivate(r, u) => WillDeactivate(r, u)')
        BY <1>10, <2>2, <2>4, <2>6 DEF WillDeactivate
      <3>2. ASSUME u \in Declared["new"], routes'[u] # "active"
            PROVE  \E s \in Replicas : ~ HasSynced(s, u)'
        <4>1. PICK s \in Replicas : ~ HasSynced(s, u)
          BY <1>1, <1>3, <3>1, <3>2 DEF StartupInv, RoutesInv
        <4>2. CASE s = r
          BY <2>4, <2>6, <4>1, <4>2
        <4>3. CASE s # r
          <5>1. ~ HasSynced(s, u)'
            BY <1>1, <1>5, <4>1, <4>3 DEF HasSynced
          <5>2. QED BY <5>1
        <4>4. QED BY <4>2, <4>3
      <3>3. ASSUME u \notin Declared["new"], routes'[u] = "active"
            PROVE  \E s \in Replicas : WillDeactivate(s, u)'
        <4>1. PICK s \in Replicas : WillDeactivate(s, u)
          BY <1>1, <1>3, <3>1, <3>3 DEF StartupInv, RoutesInv
        <4>2. QED BY <2>1, <3>1, <4>1
      <3>4. QED BY <3>2, <3>3
    <2>7. CASE version[r] = "old"
      BY <2>2, <2>3, <2>7
    <2>8. QED BY <1>8, <2>5, <2>6, <2>7
  <1>17. TaskInv'
    BY <1>1, <1>2, <1>5, StartupAssumption DEF StartupInv, TaskInv, Polls, tasks
  <1>18. QED BY <1>1, <1>5, <1>7, <1>11, <1>13, <1>14, <1>15, <1>16, <1>17, StepOf DEF ReplicaInv

-----------------------------------------------------------------------------
(* Tasks begin and end without the replicas' doing.                        *)
LEMMA OnlyWorkChanges ==
  ASSUME StartupInv,
         UNCHANGED <<config, schema, routes, tx, version, process, open, loaded, failures, stops>>,
         work' \in Tasks \cup {"none"}, polling' \in BOOLEAN, TaskInv'
  PROVE  StartupInv'
  <1>1. /\ UNCHANGED <<config, schema, routes, tx, version, process, open, loaded, failures,
                       stops>>
        /\ work' \in Tasks \cup {"none"} /\ polling' \in BOOLEAN
        /\ TaskInv'
    OBVIOUS
  <1>2. TypeOK'
    BY <1>1 DEF StartupInv, TypeOK
  <1>3. ASSUME NEW r \in Replicas
        PROVE  ReplicaInv(r)'
    <2>1. /\ (InTx(r)' <=> InTx(r)) /\ Served(r)' = Served(r)
          /\ Discovered(r)' = Discovered(r)
      BY <1>1 DEF InTx, Discovered, Served, SyncsRpcs, discoveredGRPCRoutes,
                  discoveredBusinessRoutes
    <2>2. \A i : (Starts(i)' <=> Starts(i)) /\ (Present(i)' <=> Present(i))
      BY <1>1 DEF Starts, Present
    <2>3. ReplicaInv(r)
      BY DEF StartupInv
    <2>4. Placed(r)' /\ PartsOpen(r)' /\ Prepared(r)'
      BY <1>1, <2>2, <2>3 DEF ReplicaInv, Placed, PartsOpen, Prepared
    <2>5. Syncing(r)'
      BY <1>1, <2>1, <2>3 DEF ReplicaInv, Syncing
    <2>6. QED BY <2>4, <2>5 DEF ReplicaInv
  <1>4. RoutesInv'
    <2>1. \A r \in Replicas, u \in Routes :
            /\ HasSynced(r, u)' <=> HasSynced(r, u)
            /\ WillDeactivate(r, u)' <=> WillDeactivate(r, u)
      BY <1>1 DEF HasSynced, WillDeactivate, InTx
    <2>2. PICK r \in Replicas : r = Followed
      BY StartupAssumption
    <2>3. QED BY <1>1, <2>1, <2>2, RoutesStay
  <1>5. QED BY <1>1, <1>2, <1>3, <1>4 DEF StartupInv, Validate

LEMMA StopStep ==
  ASSUME StartupInv, NEW r \in Replicas, Stop(r)
  PROVE  StartupInv'
  <1> DEFINE p == process[r]
             q == process'[r]
  <1>1. /\ TypeOK /\ p.pc = "up" /\ p.at = 7 /\ PartsOpen(r) /\ Prepared(r) /\ ~ InTx(r)
        /\ UNCHANGED <<config, schema, routes, tx, version, open, loaded, tasks, failures>>
    BY DEF StartupInv, ReplicaInv, Placed, Stop, TypeOK, database, InTx
  <1>2. [pc |-> "stop", at |-> 7] \in Process
    BY HookAt DEF Process
  <1>3. /\ process' \in [Replicas -> Process] /\ q.pc = "stop" /\ q.at = 7
        /\ \A s \in Replicas \ {r} : process'[s] = process[s]
    BY <1>1, <1>2, HookAt DEF Stop, Goes, TypeOK
  <1>4. stops' \in 0 .. MaxStops
    BY StartupAssumption DEF Stop, StartupInv, TypeOK
  <1>5. TypeOK'
    BY <1>1, <1>3, <1>4 DEF TypeOK, InTx, tasks
  <1>6. Placed(r)' /\ Syncing(r)'
    BY <1>1, <1>3 DEF Placed, Syncing, InTx
  <1>7. PartsOpen(r)'
    <2>1. \A i \in 1 .. 7 : Reached(q, i) <=> Reached(p, i)
      BY <1>1, <1>3 DEF Reached, StartPcs
    <2>2. \A i : Present(i)' <=> Present(i)
      BY <1>1 DEF Present, Starts
    <2>3. QED BY <1>1, <2>1, <2>2 DEF PartsOpen
  <1>8. Prepared(r)'
    BY <1>1, <1>3 DEF Prepared
  <1>9. RoutesInv'
    <2>1. \A u \in Routes : ~ HasSynced(r, u)' /\ WillDeactivate(r, u)'
      BY <1>1, <1>3 DEF HasSynced, StartPcs, WillDeactivate, InTx
    <2>2. QED BY <1>1, <1>3, <2>1, RoutesStay
  <1>10. TaskInv'
    BY <1>1, <1>3, StartupAssumption DEF StartupInv, TaskInv, Polls, tasks
  <1>11. QED BY <1>1, <1>3, <1>5, <1>6, <1>7, <1>8, <1>9, <1>10, StepOf DEF ReplicaInv

LEMMA stopPoliciesStep ==
  ASSUME StartupInv, NEW r \in Replicas, stopPolicies(r)
  PROVE  StartupInv'
  <1>1. /\ UNCHANGED <<config, schema, routes, tx, version, process, open, loaded, work,
                       failures, stops>>
        /\ polling' = FALSE /\ work \in Tasks \cup {"none"}
    BY DEF stopPolicies, database, StartupInv, TypeOK
  <1>2. TaskInv'
    BY <1>1 DEF StartupInv, TaskInv
  <1>3. QED BY <1>1, <1>2, OnlyWorkChanges

(* A hook is stopped when what it has started is over.                     *)
LEMMA StopHookStep ==
  ASSUME StartupInv, NEW r \in Replicas, StopHook(r)
  PROVE  StartupInv'
  <1> DEFINE p == process[r]
             q == process'[r]
  <1>1. /\ TypeOK /\ p.pc = "stop" /\ p.at \in 1 .. 7 /\ PartsOpen(r) /\ Prepared(r)
        /\ ~ InTx(r)
        /\ UNCHANGED <<config, schema, routes, tx, version, loaded, tasks, failures, stops>>
    BY HookAt DEF StartupInv, ReplicaInv, StopHook, TypeOK, Process, database, InTx
  <1>2. [pc |-> "stop", at |-> p.at - 1] \in Process
    BY <1>1, HookAt DEF Process
  <1>3. /\ process' \in [Replicas -> Process] /\ q.pc = "stop" /\ q.at = p.at - 1
        /\ open' \in [Replicas -> SUBSET Parts] /\ open'[r] = open[r] \ {Hooks[p.at]}
        /\ \A s \in Replicas \ {r} : process'[s] = process[s] /\ open'[s] = open[s]
    BY <1>1, <1>2 DEF StopHook, Goes, TypeOK
  <1>4. TypeOK'
    BY <1>1, <1>3 DEF TypeOK, InTx, tasks
  <1>5. Placed(r)' /\ Syncing(r)'
    BY <1>1, <1>3 DEF Placed, Syncing, InTx
  <1>6. PartsOpen(r)'
    <2>1. \A i \in 1 .. 7 : Reached(q, i) => Reached(p, i) /\ Hooks[i] # Hooks[p.at]
      BY <1>1, <1>3, HooksDiffer DEF Reached, StartPcs
    <2>2. \A i \in {3, 5, 6, 7} : Reached(p, i) /\ Hooks[i] # Hooks[p.at] => Reached(q, i)
      BY <1>1, <1>3 DEF Reached, StartPcs
    <2>3. \A i : Present(i)' <=> Present(i)
      BY <1>1 DEF Present, Starts
    <2>4. QED BY <1>1, <1>3, <2>1, <2>2, <2>3 DEF PartsOpen
  <1>7. Prepared(r)'
    BY <1>1, <1>3 DEF Prepared
  <1>8. RoutesInv'
    <2>1. \A u \in Routes : ~ HasSynced(r, u)' /\ WillDeactivate(r, u)'
      BY <1>1, <1>3 DEF HasSynced, StartPcs, WillDeactivate, InTx
    <2>2. QED BY <1>1, <1>3, <2>1, RoutesStay
  <1>9. TaskInv'
    BY <1>1, <1>3, StartupAssumption DEF StartupInv, StopHook, Finished, TaskInv, Polls, tasks
  <1>10. QED BY <1>1, <1>3, <1>4, <1>5, <1>6, <1>7, <1>8, <1>9, StepOf DEF ReplicaInv

-----------------------------------------------------------------------------
LEMMA StartupInvInit == Init => StartupInv
  <1> SUFFICES ASSUME Init PROVE StartupInv
    OBVIOUS
  <1>1. /\ Down \in Process /\ NoTx \in Transaction
        /\ Down.pc = "down" /\ Down.at = 0
    BY HookAt DEF Down, Process, Transaction
  <1>2. config \in Settings /\ Validate(config) /\ config.autoUp \in BOOLEAN
    BY StartupAssumption DEF Init, Accepted, Configuration
  <1>3. TypeOK
    <2>1. routes \in [Routes -> {"absent", "inactive", "active"}]
      BY DEF Init
    <2>2. 0 \in 0 .. MaxFailures /\ 0 \in 0 .. MaxStops
      BY StartupAssumption
    <2>3. schema \in BOOLEAN /\ (~ config.autoUp => schema)
      BY <1>2 DEF Init
    <2>4. QED BY <1>1, <1>2, <2>1, <2>2, <2>3 DEF Init, TypeOK
  <1>4. ~ config.autoUp => schema
    BY DEF Init
  <1>5. ASSUME NEW r \in Replicas
        PROVE  ReplicaInv(r)
    <2>1. process[r] = Down /\ tx[r] = NoTx /\ open[r] = {}
      BY DEF Init
    <2>2. Placed(r) /\ Prepared(r) /\ Syncing(r)
      BY <1>1, <2>1 DEF Placed, Prepared, Syncing, InTx
    <2>3. PartsOpen(r)
      BY <1>1, <2>1 DEF PartsOpen, Reached, StartPcs
    <2>4. QED BY <2>2, <2>3 DEF ReplicaInv
  <1>6. RoutesInv
    <2>1. \A u \in Routes : ~ HasSynced(Followed, u) /\ WillDeactivate(Followed, u)
      BY <1>1, StartupAssumption DEF Init, HasSynced, StartPcs, WillDeactivate, InTx
    <2>2. QED BY <2>1, StartupAssumption DEF RoutesInv
  <1>7. QED BY <1>2, <1>3, <1>4, <1>5, <1>6 DEF StartupInv, Init, TaskInv

LEMMA StartupInvStep == StartupInv /\ [Next]_vars => StartupInv'
  <1> SUFFICES ASSUME StartupInv, [Next]_vars PROVE StartupInv'
    OBVIOUS
  <1>1. CASE (\E t \in Tasks \ {"poll"} : Begin(t)) \/ Poll \/ End
    <2>1. /\ UNCHANGED <<config, schema, routes, tx, version, process, open, loaded, polling,
                         failures, stops>>
          /\ polling \in BOOLEAN /\ TaskInv
      BY <1>1 DEF Begin, Poll, End, database, StartupInv, TypeOK
    <2>2. /\ work' \in Tasks \cup {"none"}
          /\ work' \notin {"none", "poll"} => Owner(work') \in open[Followed]
          /\ work' = "poll" => polling
      BY <1>1 DEF Begin, Poll, End, Tasks
    <2>3. TaskInv'
      BY <2>1, <2>2 DEF TaskInv
    <2>4. QED BY <2>1, <2>2, <2>3, OnlyWorkChanges
  <1>2. ASSUME NEW r \in Replicas, NEW v \in {"old", "new"}, Run(r, v)
        PROVE  StartupInv'
    BY <1>2, RunStep
  <1>3. ASSUME NEW r \in Replicas, Advance(r)
        PROVE  StartupInv'
    BY <1>3, runStartupMigrationStep, ConstructStep, StartBusStep, StartSchedulerStep,
       RefreshSourceStep, ListenStep, BeginSyncStep, StoreStep, CommitSyncStep, DeadlockStep,
       DeactivateStep, LookUpStep DEF Advance
  <1>4. ASSUME NEW r \in Replicas,
               Stop(r) \/ stopPolicies(r) \/ StopHook(r) \/ Exit(r) \/ Fail(r) \/ Crash(r)
        PROVE  StartupInv'
    BY <1>4, StopStep, stopPoliciesStep, StopHookStep, ExitStep, FailStep, CrashStep
  <1>5. CASE UNCHANGED vars
    <2>1. TaskInv'
      BY <1>5 DEF StartupInv, TaskInv, vars, tasks
    <2>2. QED BY <1>5, <2>1, OnlyWorkChanges DEF vars, database, tasks, StartupInv, TypeOK
  <1>6. QED BY <1>1, <1>2, <1>3, <1>4, <1>5 DEF Next

LEMMA StartupInvAlways == Spec => []StartupInv
  <1>1. StartupInv /\ [Next]_vars => StartupInv'
    BY StartupInvStep
  <1>2. QED BY <1>1, StartupInvInit, PTL DEF Spec

-----------------------------------------------------------------------------
(* The variables have their types in every state of every deployment, and  *)
(* a transaction of SyncRoutes is open only in a process that registers.   *)
THEOREM StartupTypeCorrect == Spec => []TypeOK
  <1>1. StartupInv => TypeOK
    BY DEF StartupInv
  <1>2. QED BY <1>1, StartupInvAlways, PTL

(* A task in progress has the connections it uses, whatever configuration  *)
(* Validate has accepted and wherever a start failed or a stop has got to: *)
(* the hooks of app.New are in the order in which they use each other, and *)
(* OnStop waits for what OnStart has started.  Only a poll of the policies *)
(* is not waited for, and it may outlive its parts only in a process whose *)
(* HTTP server has stopped or has failed to listen.                        *)
THEOREM WorkHasItsPartsAlways == Spec => []WorkHasItsParts
  <1>1. StartupInv => WorkHasItsParts
    <2> SUFFICES ASSUME StartupInv, NEW part \in Parts, Uses(work, part), ~ Unawaited
                 PROVE  part \in open[Followed]
      BY DEF WorkHasItsParts
    <2>1. work \in Tasks
      BY DEF Uses, Tasks, Calls
    <2>2. CASE work # "poll"
      BY <2>1, <2>2, OwnersUse, StartupAssumption DEF StartupInv, TaskInv, Tasks
    <2>3. CASE work = "poll"
      <3> DEFINE p == process[Followed]
      <3>1. /\ Placed(Followed) /\ PartsOpen(Followed) /\ p.at \in 0 .. 7
            /\ Polls(p)
        BY <2>3, StartupAssumption, HookAt
           DEF StartupInv, ReplicaInv, TypeOK, Process, TaskInv
      <3>2. Reached(p, 1) /\ Reached(p, 2)
        BY <2>3, <3>1, HookAt DEF Polls, Placed, Unawaited, Reached, StartPcs
      <3>3. \/ part = Hooks[1] /\ Present(1)
            \/ part = Hooks[2] /\ Present(2)
        BY <2>3, HookAt DEF Uses, Calls, Present
      <3>4. QED BY <3>1, <3>2, <3>3 DEF PartsOpen
    <2>4. QED BY <2>2, <2>3
  <1>2. QED BY <1>1, StartupInvAlways, PTL

(* No transport accepts calls before the process has loaded the policies   *)
(* and registered its own routes: OnStart does both before it listens, and *)
(* no other replica removes a row.                                         *)
THEOREM ServesPreparedAlways == Spec => []ServesPrepared
  <1>1. StartupInv => ServesPrepared
    <2> SUFFICES ASSUME StartupInv, config.authorization, NEW r \in Replicas
                 PROVE  /\ {"grpc", "http"} \cap open[r] # {} => schema /\ loaded[r]
                        /\ "grpc" \in open[r] =>
                             \A u \in discoveredGRPCRoutes(r) : routes[u] # "absent"
                        /\ "http" \in open[r] =>
                             \A u \in discoveredBusinessRoutes(r) : routes[u] # "absent"
      BY DEF ServesPrepared
    <2>1. Prepared(r) /\ PartsOpen(r)
      BY DEF StartupInv, ReplicaInv
    <2>2. {"grpc", "http"} \cap open[r] # {} => process[r].pc \notin {"down", "migrate"}
      <3>1. "grpc" \in open[r] => Reached(process[r], 6)
        BY <2>1, HookAt DEF PartsOpen
      <3>2. "http" \in open[r] => Reached(process[r], 7)
        BY <2>1, HookAt DEF PartsOpen
      <3>3. QED BY <3>1, <3>2 DEF Reached, StartPcs
    <2>3. \A u \in Rpcs : Hooks[Index(u)] = "grpc"
      BY HookAt DEF Index
    <2>4. \A u \in Paths : Hooks[Index(u)] = "http"
      BY HookAt, StartupAssumption DEF Index
    <2>5. QED BY <2>1, <2>2, <2>3, <2>4
              DEF Prepared, discoveredGRPCRoutes, discoveredBusinessRoutes
  <1>2. QED BY <1>1, StartupInvAlways, PTL

(* When all replicas run the new version and none is registering, its      *)
(* routes and no others are active, however SyncRoutes of replicas of both *)
(* versions have overlapped, failed and been repeated.                     *)
THEOREM ActiveRoutesAreServedAlways == Spec => []ActiveRoutesAreServed
  <1>1. StartupInv => ActiveRoutesAreServed
    <2> SUFFICES ASSUME StartupInv, config.authorization, config.grpc,
                        \A r \in Replicas : Upgraded(r)
                 PROVE  {u \in Routes : routes[u] = "active"} = Declared["new"]
      BY DEF ActiveRoutesAreServed
    <2>1. ASSUME NEW r \in Replicas, NEW u \in Routes
          PROVE  HasSynced(r, u)
      <3>1. version[r] = "new" /\ process[r].pc = "up" /\ process[r].at = 7
        BY DEF Upgraded, StartupInv, ReplicaInv, Placed
      <3>2. QED BY <3>1 DEF HasSynced, Index
    <2>2. Declared["new"] \subseteq Routes
      BY StartupAssumption
    <2>3. QED BY <2>1, <2>2 DEF StartupInv, RoutesInv, WillDeactivate
  <1>2. QED BY <1>1, StartupInvAlways, PTL
=============================================================================
