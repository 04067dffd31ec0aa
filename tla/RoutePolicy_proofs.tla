-------------------------- MODULE RoutePolicy_proofs --------------------------
(***************************************************************************)
(* What holds of RoutePolicy for every set of replicas, handlers and       *)
(* routes, and every bound.                                                *)
(***************************************************************************)
EXTENDS RoutePolicy, TLAPS

-----------------------------------------------------------------------------
(* The inductive invariant.  First the timestamps: a transaction's is      *)
(* later than the one of the row it has locked, nothing is stamped with a  *)
(* time that has not come, and max(updated_at) exists.                     *)
Stamps ==
  /\ \A u \in Routes : updatedAt[u] <= clock
  /\ \A w \in Writers : session[w].pc = "writing" =>
       /\ updatedAt[session[w].route] < session[w].stamp
       /\ session[w].stamp <= clock
  /\ \A v, w \in Writers :
       session[v].pc = "writing" /\ session[w].pc = "writing"
         /\ session[v].route = session[w].route => v = w
  /\ \E u \in Routes : \A v \in Routes : updatedAt[v] <= updatedAt[u]

(* A process refreshes in one thread at a time.                            *)
OneRefresh ==
  \A r \in Replicas : \A x, y \in Threads :
    RunsIn(x, r) /\ RunsIn(y, r) /\ refresh[x] # Free /\ refresh[y] # Free => x = y

(* The rows of a load are no older than the snapshot they will replace.    *)
RowsNewer ==
  \A r \in Replicas, x \in Threads : RunsIn(x, r) /\ refresh[x].pc = "references" =>
    \A u \in Routes : /\ snapshot[r][u].version <= refresh[x].rows[u].version
                      /\ refresh[x].rows[u].version <= policy[u].version

(* What a handler has committed reaches its rows, then its snapshot.       *)
CommitFollowed ==
  \A w \in Writers :
    /\ refresh[w] # Free => session[w].pc = "refresh"
    /\ session[w].pc = "refresh" => session[w].version <= policy[session[w].route].version
    /\ refresh[w].pc = "references" =>
         session[w].version <= refresh[w].rows[session[w].route].version
    /\ refresh[w].pc = "revision" =>
         session[w].version <= snapshot[Home[w]][session[w].route].version

RefreshInv ==
  TypeOK /\ Stamps /\ OneRefresh /\ RowsNewer /\ CommitFollowed /\ WriterEnforces

-----------------------------------------------------------------------------
(* A program counter fixes the fields of a session and of a refresh.       *)
LEMMA SessionFields ==
  ASSUME NEW s \in Session
  PROVE  /\ s.pc \in {"idle", "writing", "refresh", "notify"}
         /\ s.pc = "writing" => s.route \in Routes /\ s.active \in BOOLEAN /\ s.stamp \in Nat
         /\ s.pc \in {"refresh", "notify"} => s.route \in Routes /\ s.version \in Nat
  BY DEF Session, Idle

LEMMA RefreshFields ==
  ASSUME NEW f \in Refresh
  PROVE  /\ f.pc \in {"free", "references", "revision"}
         /\ f.pc = "free" <=> f = Free
         /\ f.pc = "references" => f.rows \in [Routes -> Row] /\ f.overtaken \in BOOLEAN
  BY DEF Refresh, Free

LEMMA RevisionIsNat ==
  ASSUME TypeOK, Stamps
  PROVE  Revision \in Nat
  <1>1. PICK u \in Routes : \A v \in Routes : updatedAt[v] <= updatedAt[u]
    BY DEF Stamps
  <1>2. \E n \in {updatedAt[v] : v \in Routes} : \A v \in Routes : updatedAt[v] <= n
    BY <1>1
  <1>3. Revision \in {updatedAt[v] : v \in Routes}
    BY <1>2 DEF Revision
  <1>4. QED
    BY <1>3 DEF TypeOK

LEMMA LoadedTyped ==
  ASSUME TypeOK, NEW rows \in [Routes -> Row]
  PROVE  Loaded(rows) \in [Routes -> Definition]
  BY DEF TypeOK, Loaded, References, Committed, Definition, Row

LEMMA InitInv == Init => RefreshInv
  <1> SUFFICES ASSUME Init PROVE RefreshInv
    OBVIOUS
  <1>1. TypeOK
    BY DEF Init, TypeOK, Row, NoRow, Session, Idle, Refresh, Free, Definition, NoDefinition
  <1>2. Stamps
    <2>1. PICK u \in Seeded : TRUE
      BY RoutePolicyAssumption
    <2>2. \A v \in Routes : updatedAt[v] <= updatedAt[u]
      BY <2>1, RoutePolicyAssumption DEF Init
    <2>3. QED
      BY <2>1, <2>2, RoutePolicyAssumption DEF Init, Stamps, Idle
  <1>3. OneRefresh /\ RowsNewer /\ CommitFollowed /\ WriterEnforces
    BY DEF Init, OneRefresh, RowsNewer, CommitFollowed, WriterEnforces, Idle, Free,
           Threads
  <1>4. QED
    BY <1>1, <1>2, <1>3 DEF RefreshInv

-----------------------------------------------------------------------------
(* The timestamps: only BeginSet takes one and only CommitSet shows one.   *)
LEMMA NextStamps == TypeOK /\ Stamps /\ [Next]_vars => Stamps'
  <1> SUFFICES ASSUME TypeOK, Stamps, [Next]_vars PROVE Stamps'
    OBVIOUS
  <1>0. /\ updatedAt \in [Routes -> Nat] /\ clock \in Nat
        /\ session \in [Writers -> Session]
    BY DEF TypeOK
  <1> DEFINE Kept(v) == session'[v].pc = "writing" => session'[v] = session[v]
  (* A step that takes no lock keeps the locks that stay.                  *)
  <1>keep. ASSUME UNCHANGED <<updatedAt, clock>>, \A v \in Writers : Kept(v)
           PROVE  Stamps'
    <2>1. \A w \in Writers : session'[w].pc = "writing" =>
            /\ updatedAt'[session'[w].route] < session'[w].stamp
            /\ session'[w].stamp <= clock'
      BY <1>keep DEF Stamps
    <2>2. \A v, w \in Writers :
            session'[v].pc = "writing" /\ session'[w].pc = "writing"
              /\ session'[v].route = session'[w].route => v = w
      BY <1>keep DEF Stamps
    <2>3. QED
      BY <2>1, <2>2, <1>keep DEF Stamps
  <1>1. ASSUME NEW w \in Writers, NEW u \in Routes, NEW active \in Statuses[u],
               BeginSet(w, u, active)
        PROVE  Stamps'
    <2>1. /\ clock' = clock + 1 /\ updatedAt' = updatedAt
          /\ session' = [session EXCEPT ![w] =
               [pc |-> "writing", route |-> u, active |-> active, stamp |-> clock + 1]]
      BY <1>1 DEF BeginSet
    <2>2. \A v \in Writers : session[v].pc = "writing" => session[v].route # u
      BY <1>1 DEF BeginSet, RowLocked
    <2>3. \A v \in Routes : updatedAt[v] <= clock + 1 /\ updatedAt[v] < clock + 1
      BY <1>0 DEF Stamps
    <2>4. \A v \in Writers : session[v].pc = "writing" =>
            session[v].stamp \in Nat /\ session[v].stamp <= clock + 1
      BY <1>0, SessionFields DEF Stamps
    <2>5. \A v \in Writers : session'[v].pc = "writing" =>
            /\ updatedAt'[session'[v].route] < session'[v].stamp
            /\ session'[v].stamp <= clock'
      BY <1>0, <2>1, <2>3, <2>4 DEF Stamps
    <2>6. \A x, y \in Writers :
            session'[x].pc = "writing" /\ session'[y].pc = "writing"
              /\ session'[x].route = session'[y].route => x = y
      BY <1>0, <2>1, <2>2 DEF Stamps
    <2>7. QED
      BY <2>1, <2>3, <2>5, <2>6 DEF Stamps
  <1>2. ASSUME NEW w \in Writers, CommitSet(w)
        PROVE  Stamps'
    <2> DEFINE t == session[w].route
               n == session[w].stamp
    <2>1. /\ session[w].pc = "writing" /\ clock' = clock
          /\ updatedAt' = [updatedAt EXCEPT ![t] = n]
          /\ session' = [session EXCEPT ![w] = [pc |-> "refresh", route |-> t,
                                               version |-> policy[t].version + 1]]
      BY <1>2 DEF CommitSet
    <2>2. t \in Routes /\ n \in Nat /\ updatedAt[t] < n /\ n <= clock
      BY <2>1, <1>0, SessionFields DEF Stamps
    <2>3. \A v \in Routes : updatedAt'[v] <= clock'
      BY <2>1, <2>2, <1>0 DEF Stamps
    <2>4. \A v \in Writers \ {w} : session[v].pc = "writing" => session[v].route # t
      BY <2>1 DEF Stamps
    <2>5. \A v \in Writers : session'[v].pc = "writing" =>
            v # w /\ session'[v] = session[v]
      BY <2>1, <1>0
    <2>6. \A v \in Writers : session'[v].pc = "writing" =>
            /\ updatedAt'[session'[v].route] < session'[v].stamp
            /\ session'[v].stamp <= clock'
      BY <2>1, <2>4, <2>5, <1>0, SessionFields DEF Stamps
    <2>7. \A x, y \in Writers :
            session'[x].pc = "writing" /\ session'[y].pc = "writing"
              /\ session'[x].route = session'[y].route => x = y
      BY <2>5 DEF Stamps
    <2>8. \E u \in Routes : \A v \in Routes : updatedAt'[v] <= updatedAt'[u]
      <3>1. PICK u \in Routes : \A v \in Routes : updatedAt[v] <= updatedAt[u]
        BY DEF Stamps
      <3>2. CASE updatedAt[u] <= n
        <4>1. \A v \in Routes : updatedAt'[v] <= updatedAt'[t]
          BY <3>1, <3>2, <2>1, <2>2, <1>0
        <4>2. QED
          BY <4>1, <2>2
      <3>3. CASE n < updatedAt[u]
        <4>1. u # t
          BY <3>3, <2>2, <1>0
        <4>2. \A v \in Routes : updatedAt'[v] <= updatedAt'[u]
          BY <4>1, <3>1, <3>3, <2>1, <2>2, <1>0
        <4>3. QED
          BY <4>2
      <3>4. QED
        BY <3>2, <3>3, <2>2, <1>0
    <2>9. QED
      BY <2>3, <2>6, <2>7, <2>8 DEF Stamps
  <1>3. ASSUME NEW w \in Writers, Notify(w) \/ Abort(w)
        PROVE  Stamps'
    <2>1. UNCHANGED <<updatedAt, clock>> /\ \A v \in Writers : Kept(v)
      BY <1>3, <1>0 DEF Notify, Abort, Idle, tables
    <2>2. QED
      BY <2>1, <1>keep
  <1>4. ASSUME NEW x \in Threads, NEW r \in Replicas,
               RefreshStep(x, r) \/ FailRefresh(x, r)
        PROVE  Stamps'
    <2>1. UNCHANGED <<updatedAt, clock>> /\ \A v \in Writers : Kept(v)
      <3>1. CASE UNCHANGED session
        BY <3>1, <1>4 DEF RefreshStep, LoadPolicies, LoadReferences, ReadRevision,
                          RefuseTorn, FailRefresh, tables
      <3>2. CASE \E ok \in BOOLEAN : Continue(x, ok)
        BY <3>2, <1>4, <1>0 DEF RefreshStep, LoadPolicies, LoadReferences, ReadRevision,
             RefuseTorn, FailRefresh, tables, Continue, AfterRefresh, Idle
      <3>3. QED
        BY <3>1, <3>2, <1>4 DEF RefreshStep, LoadPolicies, LoadReferences, ReadRevision,
                                RefuseTorn, FailRefresh
    <2>2. QED
      BY <2>1, <1>keep
  <1>5. ASSUME NEW r \in Replicas, Receive(r) \/ Poll(r) \/ Crash(r)
        PROVE  Stamps'
    <2>1. UNCHANGED <<updatedAt, clock>> /\ \A v \in Writers : Kept(v)
      BY <1>5, <1>0 DEF Receive, Poll, Crash, Idle, tables
    <2>2. QED
      BY <2>1, <1>keep
  <1>6. CASE UNCHANGED vars
    BY <1>6, <1>keep DEF vars, tables
  <1>7. QED
    BY <1>1, <1>2, <1>3, <1>4, <1>5, <1>6 DEF Next

-----------------------------------------------------------------------------
(* A refresh that ends leaves every program counter typed.                 *)
LEMMA ContinueTyped ==
  ASSUME TypeOK, NEW x \in Threads, NEW r \in Replicas, Wants(x, r),
         NEW ok \in BOOLEAN, Continue(x, ok)
  PROVE  /\ refresh' \in [Threads -> Refresh]
         /\ loop' \in [Replicas -> {"start", "select", "reload"}]
         /\ session' \in [Writers -> Session]
  <1>0. /\ refresh \in [Threads -> Refresh] /\ session \in [Writers -> Session]
        /\ loop \in [Replicas -> {"start", "select", "reload"}]
    BY DEF TypeOK
  <1>1. refresh' \in [Threads -> Refresh]
    BY <1>0 DEF Continue, Refresh
  <1>2. loop' \in [Replicas -> {"start", "select", "reload"}]
    BY <1>0 DEF Continue
  <1>3. ASSUME NEW w \in Writers
        PROVE  (IF w = x THEN AfterRefresh(w, ok) ELSE session[w]) \in Session
    <2>1. CASE w = x
      <3>1. session[w].pc = "refresh"
        BY <2>1, RoutePolicyAssumption DEF Wants
      <3>2. session[w] \in [pc : {"refresh", "notify"}, route : Routes, version : Nat]
        BY <3>1, <1>0 DEF Session, Idle
      <3>3. [session[w] EXCEPT !.pc = "notify"] \in Session
        BY <3>2 DEF Session
      <3>4. QED
        BY <2>1, <3>3 DEF AfterRefresh, Session
    <2>2. QED
      BY <2>1, <1>0
  <1>4. session' \in [Writers -> Session]
    BY <1>3 DEF Continue
  <1>5. QED
    BY <1>1, <1>2, <1>4

LEMMA NextTypeOK == TypeOK /\ Stamps /\ RowsNewer /\ [Next]_vars => TypeOK'
  <1> SUFFICES ASSUME TypeOK, Stamps, RowsNewer, [Next]_vars PROVE TypeOK'
    OBVIOUS
  <1>0. /\ policy \in [Routes -> Row] /\ updatedAt \in [Routes -> Nat] /\ clock \in Nat
        /\ session \in [Writers -> Session]
        /\ loop \in [Replicas -> {"start", "select", "reload"}]
        /\ refresh \in [Threads -> Refresh]
        /\ snapshot \in [Replicas -> [Routes -> Definition]]
        /\ revision \in [Replicas -> Nat] /\ inbox \in [Replicas -> Nat]
        /\ hidden \in [Replicas -> BOOLEAN] /\ failures \in Nat
        /\ \A r \in Replicas, u \in Routes : snapshot[r][u].version <= policy[u].version
    BY DEF TypeOK
  <1>a. Idle \in Session /\ Free \in Refresh
    BY DEF Session, Refresh
  <1>1. ASSUME NEW w \in Writers, NEW u \in Routes, NEW active \in Statuses[u],
               BeginSet(w, u, active)
        PROVE  TypeOK'
    <2>1. active \in BOOLEAN
      BY RoutePolicyAssumption
    <2>2. [pc |-> "writing", route |-> u, active |-> active, stamp |-> clock + 1] \in Session
      BY <2>1, <1>0 DEF Session
    <2>3. session' \in [Writers -> Session] /\ clock' \in Nat
      BY <2>2, <1>0, <1>1 DEF BeginSet
    <2>4. QED
      BY <2>3, <1>0, <1>1 DEF BeginSet, TypeOK, memory
  <1>2. ASSUME NEW w \in Writers, CommitSet(w)
        PROVE  TypeOK'
    <2> DEFINE s == session[w]
    <2>1. s.route \in Routes /\ s.active \in BOOLEAN /\ s.stamp \in Nat
      BY <1>0, <1>2, SessionFields DEF CommitSet
    <2>2. policy' = [policy EXCEPT ![s.route] =
                       [version |-> policy[s.route].version + 1, active |-> s.active]]
      BY <1>0, <1>2, <2>1 DEF CommitSet
    <2>3. policy[s.route].version \in Nat
      BY <1>0, <2>1 DEF Row
    <2>4. /\ policy' \in [Routes -> Row]
          /\ \A u \in Routes : policy'[u].version \in Nat
                                /\ policy[u].version <= policy'[u].version
      BY <1>0, <2>1, <2>2, <2>3 DEF Row
    <2>5. updatedAt' \in [Routes -> Nat]
      BY <1>0, <1>2, <2>1 DEF CommitSet
    <2>6. [pc |-> "refresh", route |-> s.route, version |-> policy[s.route].version + 1]
            \in Session
      BY <2>1, <2>3 DEF Session
    <2>7. session' \in [Writers -> Session]
      BY <1>0, <1>2, <2>6 DEF CommitSet
    <2>8. hidden' \in [Replicas -> BOOLEAN]
      BY <1>0, <1>2 DEF CommitSet, Escapes
    <2>9. refresh' \in [Threads -> Refresh]
      <3>1. ASSUME NEW x \in Threads, refresh[x].pc = "references"
            PROVE  [refresh[x] EXCEPT !.overtaken = TRUE] \in Refresh
        BY <3>1, <1>0 DEF Refresh, Free
      <3>2. QED
        BY <3>1, <1>0, <1>2 DEF CommitSet
    <2>10. \A r \in Replicas, u \in Routes : snapshot'[r][u].version <= policy'[u].version
      <3>1. \A r \in Replicas, u \in Routes : snapshot[r][u].version \in Nat
        BY <1>0 DEF Definition
      <3>2. \A u \in Routes : policy[u].version \in Nat
        BY <1>0 DEF Row
      <3>3. QED
        BY <3>1, <3>2, <2>4, <1>0, <1>2 DEF CommitSet, memory
    <2>11. QED
      BY <2>4, <2>5, <2>7, <2>8, <2>9, <2>10, <1>0, <1>2 DEF CommitSet, TypeOK, memory
  <1>3. ASSUME NEW w \in Writers, Notify(w)
        PROVE  TypeOK'
    <2>1. session' \in [Writers -> Session]
      BY <1>0, <1>a, <1>3 DEF Notify
    <2>2. inbox' \in [Replicas -> Nat]
      BY <1>0, <1>3 DEF Notify
    <2>3. QED
      BY <2>1, <2>2, <1>0, <1>3 DEF Notify, TypeOK, tables, memory
  <1>4. ASSUME NEW w \in Writers, Abort(w)
        PROVE  TypeOK'
    BY <1>0, <1>a, <1>4 DEF Abort, TypeOK, tables, memory
  <1>5. ASSUME NEW x \in Threads, NEW r \in Replicas, LoadPolicies(x, r)
        PROVE  TypeOK'
    <2>1. [pc |-> "references", rows |-> policy, overtaken |-> FALSE] \in Refresh
      BY <1>0 DEF Refresh
    <2>2. refresh' \in [Threads -> Refresh]
      BY <2>1, <1>0, <1>5 DEF LoadPolicies, Committed
    <2>3. QED
      BY <2>2, <1>0, <1>5 DEF LoadPolicies, TypeOK, tables, memory
  <1>6. ASSUME NEW x \in Threads, NEW r \in Replicas, LoadReferences(x, r)
        PROVE  TypeOK'
    <2> DEFINE f == refresh[x]
    <2>1. f.rows \in [Routes -> Row] /\ f.overtaken \in BOOLEAN
      BY <1>0, <1>6, RefreshFields DEF LoadReferences
    <2>2. Loaded(f.rows) \in [Routes -> Definition]
      BY <2>1, LoadedTyped
    <2>3. RunsIn(x, r)
      BY <1>6 DEF LoadReferences, Wants, RunsIn
    <2>4. \A u \in Routes : Loaded(f.rows)[u].version <= policy[u].version
      BY <2>3, <1>6 DEF RowsNewer, LoadReferences, Loaded
    <2>5. /\ snapshot' = [snapshot EXCEPT ![r] = Loaded(f.rows)]
          /\ hidden' = [hidden EXCEPT ![r] = f.overtaken]
          /\ refresh' = [refresh EXCEPT ![x] = [pc |-> "revision"]]
      BY <1>6 DEF LoadReferences
    <2>6. /\ snapshot' \in [Replicas -> [Routes -> Definition]]
          /\ \A q \in Replicas, u \in Routes : snapshot'[q][u].version <= policy[u].version
      BY <2>2, <2>4, <2>5, <1>0
    <2>7. hidden' \in [Replicas -> BOOLEAN] /\ refresh' \in [Threads -> Refresh]
      BY <2>1, <2>5, <1>0 DEF Refresh
    <2>8. QED
      BY <2>6, <2>7, <1>0, <1>6 DEF LoadReferences, TypeOK, tables
  <1>7. ASSUME NEW x \in Threads, NEW r \in Replicas, ReadRevision(x, r)
        PROVE  TypeOK'
    BY <1>0, <1>7, RevisionIsNat, ContinueTyped DEF ReadRevision, TypeOK, tables
  <1>8. ASSUME NEW x \in Threads, NEW r \in Replicas, RefuseTorn(x, r) \/ FailRefresh(x, r)
        PROVE  TypeOK'
    <2>1. Wants(x, r) /\ Continue(x, FALSE)
      BY <1>8 DEF RefuseTorn, FailRefresh
    <2>2. failures' \in {failures, failures + 1}
      BY <1>8 DEF RefuseTorn, FailRefresh
    <2>3. UNCHANGED <<tables, snapshot, revision, inbox, hidden>>
      BY <1>8 DEF RefuseTorn, FailRefresh, RevisionKept
    <2>4. /\ refresh' \in [Threads -> Refresh] /\ session' \in [Writers -> Session]
          /\ loop' \in [Replicas -> {"start", "select", "reload"}]
      BY <2>1, ContinueTyped
    <2>5. failures' \in Nat
      BY <2>2, <1>0
    <2>6. QED
      BY <2>3, <2>4, <2>5, <1>0 DEF TypeOK, tables
  <1>9. ASSUME NEW r \in Replicas, Receive(r) \/ Poll(r)
        PROVE  TypeOK'
    <2>1. /\ loop' \in [Replicas -> {"start", "select", "reload"}]
          /\ inbox' \in [Replicas -> Nat]
      <3>1. CASE Receive(r)
        BY <3>1, <1>0 DEF Receive
      <3>2. CASE Poll(r)
        <4>1. PICK next \in {"reload", "select"} : loop' = [loop EXCEPT ![r] = next]
          BY <3>2 DEF Poll
        <4>2. inbox' = inbox
          BY <3>2 DEF Poll
        <4>3. QED
          BY <4>1, <4>2, <1>0
      <3>3. QED
        BY <3>1, <3>2, <1>9
    <2>2. QED
      BY <2>1, <1>0, <1>9 DEF Receive, Poll, TypeOK, tables, memory
  <1>10. ASSUME NEW r \in Replicas, Crash(r)
         PROVE  TypeOK'
    <2>1. [u \in Routes |-> NoDefinition] \in [Routes -> Definition]
      BY DEF NoDefinition, Definition
    <2>2. snapshot' \in [Replicas -> [Routes -> Definition]]
      BY <2>1, <1>0, <1>10 DEF Crash
    <2>3. \A q \in Replicas, u \in Routes : snapshot'[q][u].version <= policy'[u].version
      <3>1. \A u \in Routes : policy[u].version \in Nat
        BY <1>0 DEF Row
      <3>2. QED
        BY <3>1, <1>0, <1>10 DEF Crash, NoDefinition, tables
    <2>4. /\ session' \in [Writers -> Session] /\ refresh' \in [Threads -> Refresh]
          /\ loop' \in [Replicas -> {"start", "select", "reload"}]
          /\ revision' \in [Replicas -> Nat] /\ inbox' \in [Replicas -> Nat]
          /\ failures' \in Nat
      BY <1>0, <1>a, <1>10 DEF Crash
    <2>5. QED
      BY <2>2, <2>3, <2>4, <1>0, <1>10 DEF Crash, TypeOK, tables
  <1>11. CASE UNCHANGED vars
    BY <1>11, <1>0 DEF vars, tables, memory, TypeOK
  <1>12. QED
    BY <1>1, <1>2, <1>3, <1>4, <1>5, <1>6, <1>7, <1>8, <1>9, <1>10, <1>11
       DEF Next, RefreshStep

-----------------------------------------------------------------------------
(* What the refresh of one process means to another: nothing.              *)
LEMMA OneProcess ==
  ASSUME NEW x \in Threads, NEW r \in Replicas, NEW q \in Replicas,
         RunsIn(x, r), RunsIn(x, q)
  PROVE  r = q
  BY RoutePolicyAssumption DEF RunsIn

LEMMA Versions ==
  ASSUME TypeOK
  PROVE  /\ \A u \in Routes : policy[u].version \in Nat
         /\ \A r \in Replicas, u \in Routes : snapshot[r][u].version \in Nat
         /\ \A x \in Threads : refresh[x].pc = "references" =>
              \A u \in Routes : refresh[x].rows[u].version \in Nat
         /\ \A w \in Writers : session[w].pc \in {"refresh", "notify"} =>
              session[w].route \in Routes /\ session[w].version \in Nat
  <1>1. /\ \A u \in Routes : policy[u].version \in Nat
        /\ \A r \in Replicas, u \in Routes : snapshot[r][u].version \in Nat
    BY DEF TypeOK, Row, Definition
  <1>2. ASSUME NEW x \in Threads, refresh[x].pc = "references", NEW u \in Routes
        PROVE  refresh[x].rows[u].version \in Nat
    <2>1. refresh[x].rows \in [Routes -> Row]
      BY <1>2, RefreshFields DEF TypeOK
    <2>2. QED
      BY <2>1 DEF Row
  <1>3. \A w \in Writers : session[w].pc \in {"refresh", "notify"} =>
          session[w].route \in Routes /\ session[w].version \in Nat
    BY SessionFields DEF TypeOK
  <1>4. QED
    BY <1>1, <1>2, <1>3

(* The part of the invariant that a step of a refresh can disturb.         *)
Following == OneRefresh /\ RowsNewer /\ CommitFollowed /\ WriterEnforces

(* Steps that touch no snapshot and no refresh: a session changes only if  *)
(* it was not refreshing, and then it is idle or takes the lock.           *)
LEMMA KeepFollowing ==
  ASSUME Following, UNCHANGED <<policy, refresh, snapshot>>,
         \A w \in Writers : \/ session'[w] = session[w]
                            \/ /\ session[w].pc # "refresh"
                               /\ session'[w].pc \in {"idle", "writing"}
  PROVE  Following'
  <1>1. OneRefresh' /\ RowsNewer'
    BY DEF Following, OneRefresh, RowsNewer
  <1>2. CommitFollowed'
    <2> SUFFICES ASSUME NEW w \in Writers
                 PROVE  (/\ refresh[w] # Free => session[w].pc = "refresh"
                         /\ session[w].pc = "refresh" =>
                              session[w].version <= policy[session[w].route].version
                         /\ refresh[w].pc = "references" =>
                              session[w].version <= refresh[w].rows[session[w].route].version
                         /\ refresh[w].pc = "revision" =>
                              session[w].version
                                <= snapshot[Home[w]][session[w].route].version)'
      BY DEF CommitFollowed
    <2>1. CASE session'[w] = session[w]
      BY <2>1 DEF Following, CommitFollowed
    <2>2. CASE session[w].pc # "refresh" /\ session'[w].pc \in {"idle", "writing"}
      <3>1. refresh[w] = Free
        BY <2>2 DEF Following, CommitFollowed
      <3>2. QED
        BY <2>2, <3>1 DEF Free
    <2>3. QED
      BY <2>1, <2>2
  <1>3. WriterEnforces'
    BY DEF Following, WriterEnforces
  <1>4. QED
    BY <1>1, <1>2, <1>3 DEF Following

LEMMA CommitSetFollowing ==
  ASSUME TypeOK, Following, NEW w \in Writers, CommitSet(w)
  PROVE  Following'
  <1> DEFINE t == session[w].route
  <1>0. /\ policy \in [Routes -> Row] /\ session \in [Writers -> Session]
        /\ refresh \in [Threads -> Refresh]
    BY DEF TypeOK
  <1>1. /\ session[w].pc = "writing" /\ snapshot' = snapshot
        /\ policy' = [policy EXCEPT ![t] = [version |-> policy[t].version + 1,
                                            active |-> session[w].active]]
        /\ session' = [session EXCEPT ![w] = [pc |-> "refresh", route |-> t,
                                              version |-> policy[t].version + 1]]
    BY <1>0, SessionFields DEF CommitSet, memory
  <1>2. t \in Routes
    BY <1>0, <1>1, SessionFields
  <1>3. \A u \in Routes : policy'[u].version \in Nat
                           /\ policy[u].version <= policy'[u].version
    BY <1>0, <1>1, <1>2, Versions
  <1>4. \A x \in Threads : /\ refresh'[x] = Free <=> refresh[x] = Free
                           /\ refresh'[x].pc = refresh[x].pc
                           /\ refresh[x].pc = "references" =>
                                refresh'[x].rows = refresh[x].rows
    <2> SUFFICES ASSUME NEW x \in Threads
                 PROVE  /\ refresh'[x] = Free <=> refresh[x] = Free
                        /\ refresh'[x].pc = refresh[x].pc
                        /\ refresh[x].pc = "references" =>
                             refresh'[x].rows = refresh[x].rows
      OBVIOUS
    <2>1. CASE refresh[x].pc = "references"
      <3>1. refresh'[x] = [refresh[x] EXCEPT !.overtaken = TRUE]
        BY <2>1 DEF CommitSet
      <3>2. refresh[x] \in [pc : {"references"}, rows : [Routes -> Row], overtaken : BOOLEAN]
        BY <2>1, <1>0 DEF Refresh, Free
      <3>3. refresh'[x].pc = "references" /\ refresh'[x].rows = refresh[x].rows
        BY <3>1, <3>2
      <3>4. QED
        BY <2>1, <3>3 DEF Free
    <2>2. CASE refresh[x].pc # "references"
      BY <2>2 DEF CommitSet
    <2>3. QED
      BY <2>1, <2>2
  <1>5. OneRefresh'
    BY <1>4 DEF Following, OneRefresh, RunsIn
  <1>6. RowsNewer'
    <2> SUFFICES ASSUME NEW r \in Replicas, NEW x \in Threads, RunsIn(x, r),
                        refresh'[x].pc = "references", NEW u \in Routes
                 PROVE  /\ snapshot'[r][u].version <= refresh'[x].rows[u].version
                        /\ refresh'[x].rows[u].version <= policy'[u].version
      BY DEF RowsNewer, RunsIn
    <2>1. /\ snapshot[r][u].version <= refresh[x].rows[u].version
          /\ refresh[x].rows[u].version <= policy[u].version
          /\ refresh'[x].rows = refresh[x].rows
          /\ refresh[x].rows[u].version \in Nat
      BY <1>4, Versions DEF Following, RowsNewer
    <2>2. policy[u].version \in Nat
      BY Versions
    <2>3. QED
      BY <1>1, <1>3, <2>1, <2>2
  <1>7. refresh'[w] = Free
    BY <1>1, <1>4 DEF Following, CommitFollowed, Threads
  <1>8. CommitFollowed'
    <2> SUFFICES ASSUME NEW v \in Writers
                 PROVE  (/\ refresh[v] # Free => session[v].pc = "refresh"
                         /\ session[v].pc = "refresh" =>
                              session[v].version <= policy[session[v].route].version
                         /\ refresh[v].pc = "references" =>
                              session[v].version <= refresh[v].rows[session[v].route].version
                         /\ refresh[v].pc = "revision" =>
                              session[v].version
                                <= snapshot[Home[v]][session[v].route].version)'
      BY DEF CommitFollowed
    <2>1. CASE v = w
      <3>1. /\ session'[v].route = t /\ session'[v].version = policy[t].version + 1
            /\ policy'[t].version = policy[t].version + 1
        BY <2>1, <1>0, <1>1, <1>2
      <3>2. refresh'[v].pc = "free"
        BY <2>1, <1>7 DEF Free
      <3>3. QED
        BY <2>1, <3>1, <3>2, <1>2, <1>3, <1>7
    <2>2. CASE v # w
      <3>1. session'[v] = session[v] /\ v \in Threads
        BY <2>2, <1>1 DEF Threads
      <3>2. session[v].pc = "refresh" =>
              session'[v].version <= policy'[session'[v].route].version
        <4>1. ASSUME session[v].pc = "refresh"
              PROVE  /\ session[v].route \in Routes /\ session[v].version \in Nat
                     /\ session[v].version <= policy[session[v].route].version
                     /\ policy[session[v].route].version \in Nat
          BY <4>1, Versions DEF Following, CommitFollowed
        <4>2. QED
          BY <4>1, <3>1, <1>3
      <3>3. QED
        BY <3>1, <3>2, <1>1, <1>4 DEF Following, CommitFollowed
    <2>3. QED
      BY <2>1, <2>2
  <1>9. WriterEnforces'
    BY <1>0, <1>1 DEF Following, WriterEnforces
  <1>10. QED
    BY <1>5, <1>6, <1>8, <1>9 DEF Following

LEMMA LoadPoliciesFollowing ==
  ASSUME TypeOK, Following, NEW x \in Threads, NEW r \in Replicas, LoadPolicies(x, r)
  PROVE  Following'
  <1> DEFINE loading == [pc |-> "references", rows |-> policy, overtaken |-> FALSE]
  <1>0. refresh \in [Threads -> Refresh]
    BY DEF TypeOK
  <1>1. /\ Wants(x, r) /\ RefreshFree(r) /\ refresh' = [refresh EXCEPT ![x] = loading]
        /\ policy' = policy /\ snapshot' = snapshot /\ session' = session
    BY DEF LoadPolicies, Committed, tables, memory
  <1>2. RunsIn(x, r) /\ \A y \in Threads : RunsIn(y, r) => refresh[y] = Free
    BY <1>1 DEF Wants, RunsIn, RefreshFree
  <1>3. \A y \in Threads : y # x => refresh'[y] = refresh[y]
    BY <1>0, <1>1
  <1>4. OneRefresh'
    <2> SUFFICES ASSUME NEW q \in Replicas, NEW y \in Threads, NEW z \in Threads,
                        RunsIn(y, q), RunsIn(z, q), refresh'[y] # Free, refresh'[z] # Free
                 PROVE  y = z
      BY DEF OneRefresh, RunsIn
    <2>1. CASE y = x \/ z = x
      <3>1. q = r
        BY <2>1, <1>2, OneProcess
      <3>2. QED
        BY <2>1, <3>1, <1>2, <1>3
    <2>2. CASE y # x /\ z # x
      BY <2>2, <1>3 DEF Following, OneRefresh
    <2>3. QED
      BY <2>1, <2>2
  <1>5. RowsNewer'
    <2> SUFFICES ASSUME NEW q \in Replicas, NEW y \in Threads, RunsIn(y, q),
                        refresh'[y].pc = "references", NEW u \in Routes
                 PROVE  /\ snapshot'[q][u].version <= refresh'[y].rows[u].version
                        /\ refresh'[y].rows[u].version <= policy'[u].version
      BY DEF RowsNewer, RunsIn
    <2>1. CASE y = x
      <3>1. refresh'[y].rows = policy
        BY <2>1, <1>0, <1>1
      <3>2. snapshot[q][u].version <= policy[u].version /\ policy[u].version \in Nat
        BY Versions DEF TypeOK
      <3>3. QED
        BY <3>1, <3>2, <1>1
    <2>2. CASE y # x
      BY <2>2, <1>1, <1>3 DEF Following, RowsNewer
    <2>3. QED
      BY <2>1, <2>2
  <1>6. CommitFollowed'
    <2> SUFFICES ASSUME NEW v \in Writers
                 PROVE  (/\ refresh[v] # Free => session[v].pc = "refresh"
                         /\ session[v].pc = "refresh" =>
                              session[v].version <= policy[session[v].route].version
                         /\ refresh[v].pc = "references" =>
                              session[v].version <= refresh[v].rows[session[v].route].version
                         /\ refresh[v].pc = "revision" =>
                              session[v].version
                                <= snapshot[Home[v]][session[v].route].version)'
      BY DEF CommitFollowed
    <2>1. CASE v = x
      <3>1. session[v].pc = "refresh"
        BY <2>1, <1>1, RoutePolicyAssumption DEF Wants
      <3>2. refresh'[v] = loading
        BY <2>1, <1>0, <1>1
      <3>3. QED
        BY <3>1, <3>2, <1>1 DEF Following, CommitFollowed
    <2>2. CASE v # x
      BY <2>2, <1>1, <1>3 DEF Following, CommitFollowed, Threads
    <2>3. QED
      BY <2>1, <2>2
  <1>7. WriterEnforces'
    BY <1>1 DEF Following, WriterEnforces
  <1>8. QED
    BY <1>4, <1>5, <1>6, <1>7 DEF Following

(* The swap: no snapshot goes back, and a handler's holds what it wrote.   *)
LEMMA LoadReferencesFollowing ==
  ASSUME TypeOK, Following, NEW x \in Threads, NEW r \in Replicas, LoadReferences(x, r)
  PROVE  /\ Following'
         /\ \A q \in Replicas, u \in Routes : snapshot[q][u].version <= snapshot'[q][u].version
  <1> DEFINE rows == refresh[x].rows
  <1>0. /\ refresh \in [Threads -> Refresh] /\ session \in [Writers -> Session]
        /\ snapshot \in [Replicas -> [Routes -> Definition]]
    BY DEF TypeOK
  <1>1. /\ Wants(x, r) /\ refresh[x].pc = "references"
        /\ refresh' = [refresh EXCEPT ![x] = [pc |-> "revision"]]
        /\ snapshot' = [snapshot EXCEPT ![r] = Loaded(rows)]
        /\ policy' = policy /\ session' = session
    BY DEF LoadReferences, tables
  <1>2. RunsIn(x, r) /\ refresh[x] # Free
    BY <1>1 DEF Wants, RunsIn, Free
  <1>3. \A y \in Threads : y # x => refresh'[y] = refresh[y]
    BY <1>0, <1>1
  <1>4. \A u \in Routes : /\ snapshot'[r][u].version = rows[u].version
                          /\ snapshot[r][u].version <= rows[u].version
    BY <1>0, <1>1, <1>2 DEF Loaded, Following, RowsNewer
  <1>5. \A q \in Replicas : q # r => snapshot'[q] = snapshot[q]
    BY <1>0, <1>1
  <1>6. \A q \in Replicas, u \in Routes : /\ snapshot[q][u].version \in Nat
                                          /\ snapshot'[q][u].version \in Nat
                                          /\ snapshot[q][u].version <= snapshot'[q][u].version
    BY <1>1, <1>4, <1>5, Versions
  <1>7. OneRefresh'
    BY <1>2, <1>3 DEF Following, OneRefresh, RunsIn
  <1>8. RowsNewer'
    <2> SUFFICES ASSUME NEW q \in Replicas, NEW y \in Threads, RunsIn(y, q),
                        refresh'[y].pc = "references", NEW u \in Routes
                 PROVE  /\ snapshot'[q][u].version <= refresh'[y].rows[u].version
                        /\ refresh'[y].rows[u].version <= policy'[u].version
      BY DEF RowsNewer, RunsIn
    <2>1. y # x
      BY <1>0, <1>1
    <2>2. refresh'[y] = refresh[y] /\ refresh[y] # Free
      BY <2>1, <1>3 DEF Free
    <2>3. q # r
      BY <2>1, <2>2, <1>2 DEF Following, OneRefresh
    <2>4. QED
      BY <2>2, <2>3, <1>1, <1>5 DEF Following, RowsNewer
  <1>9. CommitFollowed'
    <2> SUFFICES ASSUME NEW v \in Writers
                 PROVE  (/\ refresh[v] # Free => session[v].pc = "refresh"
                         /\ session[v].pc = "refresh" =>
                              session[v].version <= policy[session[v].route].version
                         /\ refresh[v].pc = "references" =>
                              session[v].version <= refresh[v].rows[session[v].route].version
                         /\ refresh[v].pc = "revision" =>
                              session[v].version
                                <= snapshot[Home[v]][session[v].route].version)'
      BY DEF CommitFollowed
    <2>1. CASE v = x
      <3>1. Home[v] = r
        BY <2>1, <1>1, RoutePolicyAssumption DEF Wants
      <3>2. session[v].pc = "refresh" /\ session[v].version <= rows[session[v].route].version
        BY <2>1, <1>1, <1>2 DEF Following, CommitFollowed
      <3>3. session[v].route \in Routes
        BY <3>2, Versions
      <3>4. session[v].version <= snapshot'[Home[v]][session[v].route].version
        BY <3>1, <3>2, <3>3, <1>4
      <3>5. refresh'[v].pc = "revision"
        BY <2>1, <1>0, <1>1
      <3>6. QED
        BY <3>2, <3>4, <3>5, <1>1 DEF Following, CommitFollowed
    <2>2. CASE v # x
      <3>1. v \in Threads /\ refresh'[v] = refresh[v]
        BY <2>2, <1>3 DEF Threads
      <3>2. ASSUME refresh[v].pc = "revision"
            PROVE  snapshot'[Home[v]] = snapshot[Home[v]]
        <4>1. refresh[v] # Free /\ RunsIn(v, Home[v]) /\ Home[v] \in Replicas
          BY <3>2, RoutePolicyAssumption DEF Free, RunsIn
        <4>2. Home[v] # r
          BY <2>2, <3>1, <4>1, <1>2 DEF Following, OneRefresh
        <4>3. QED
          BY <4>1, <4>2, <1>5
      <3>3. QED
        BY <3>1, <3>2, <1>1 DEF Following, CommitFollowed
    <2>3. QED
      BY <2>1, <2>2
  <1>10. WriterEnforces'
    <2> SUFFICES ASSUME NEW v \in Writers, session[v].pc = "notify"
                 PROVE  session[v].version <= snapshot'[Home[v]][session[v].route].version
      BY <1>1, <1>6, Versions, RoutePolicyAssumption DEF WriterEnforces
    <2>1. /\ session[v].version <= snapshot[Home[v]][session[v].route].version
          /\ session[v].route \in Routes /\ session[v].version \in Nat
          /\ Home[v] \in Replicas
      BY Versions, RoutePolicyAssumption DEF Following, WriterEnforces
    <2>2. QED
      BY <2>1, <1>6
  <1>11. QED
    BY <1>6, <1>7, <1>8, <1>9, <1>10 DEF Following

(* The end of a refresh: a handler answers with success only if it was at  *)
(* the reading of the revision, its snapshot in place.                     *)
LEMMA ContinueFollowing ==
  ASSUME TypeOK, Following, NEW x \in Threads, NEW r \in Replicas, Wants(x, r),
         NEW ok \in BOOLEAN, ok => refresh[x].pc = "revision", Continue(x, ok),
         UNCHANGED <<policy, snapshot>>
  PROVE  Following'
  <1>0. refresh \in [Threads -> Refresh] /\ session \in [Writers -> Session]
    BY DEF TypeOK
  <1>1. /\ refresh' = [refresh EXCEPT ![x] = Free]
        /\ session' = [w \in Writers |-> IF w = x THEN AfterRefresh(w, ok) ELSE session[w]]
    BY DEF Continue
  <1>2. \A y \in Threads : refresh'[y] = Free \/ (y # x /\ refresh'[y] = refresh[y])
    BY <1>0, <1>1
  <1>3. OneRefresh'
    BY <1>2 DEF Following, OneRefresh, RunsIn
  <1>4. RowsNewer'
    BY <1>2 DEF Following, RowsNewer, RunsIn, Free
  <1>5. CommitFollowed'
    <2> SUFFICES ASSUME NEW v \in Writers
                 PROVE  (/\ refresh[v] # Free => session[v].pc = "refresh"
                         /\ session[v].pc = "refresh" =>
                              session[v].version <= policy[session[v].route].version
                         /\ refresh[v].pc = "references" =>
                              session[v].version <= refresh[v].rows[session[v].route].version
                         /\ refresh[v].pc = "revision" =>
                              session[v].version
                                <= snapshot[Home[v]][session[v].route].version)'
      BY DEF CommitFollowed
    <2>1. CASE v = x
      <3>1. refresh'[v] = Free
        BY <2>1, <1>0, <1>1
      <3>2. session[v].pc = "refresh"
        BY <2>1, RoutePolicyAssumption DEF Wants
      <3>3. session[v] \in [pc : {"refresh", "notify"}, route : Routes, version : Nat]
        BY <3>2, <1>0 DEF Session, Idle
      <3>4. session'[v].pc # "refresh"
        BY <2>1, <3>3, <1>1 DEF AfterRefresh, Idle
      <3>5. QED
        BY <3>1, <3>4 DEF Free
    <2>2. CASE v # x
      BY <2>2, <1>0, <1>1 DEF Following, CommitFollowed, Threads
    <2>3. QED
      BY <2>1, <2>2
  <1>6. WriterEnforces'
    <2> SUFFICES ASSUME NEW v \in Writers, session'[v].pc = "notify"
                 PROVE  session'[v].version <= snapshot[Home[v]][session'[v].route].version
      <3>1. WriterEnforces' <=>
              \A v \in Writers : session'[v].pc = "notify" =>
                snapshot[Home[v]][session'[v].route].version >= session'[v].version
        BY DEF WriterEnforces
      <3>2. QED
        BY <3>1
    <2>1. CASE v = x
      <3>1. session[v].pc = "refresh"
        BY <2>1, RoutePolicyAssumption DEF Wants
      <3>2. session[v] \in [pc : {"refresh", "notify"}, route : Routes, version : Nat]
        BY <3>1, <1>0 DEF Session, Idle
      <3>3. ok
        BY <2>1, <1>1 DEF AfterRefresh, Idle
      <3>4. session'[v].route = session[v].route /\ session'[v].version = session[v].version
        BY <2>1, <3>2, <3>3, <1>1 DEF AfterRefresh
      <3>5. refresh[v].pc = "revision"
        BY <2>1, <3>3
      <3>6. QED
        BY <3>4, <3>5 DEF Following, CommitFollowed
    <2>2. CASE v # x
      <3>1. session'[v] = session[v]
        BY <2>2, <1>1
      <3>2. /\ session[v].version <= snapshot[Home[v]][session[v].route].version
        BY <3>1 DEF Following, WriterEnforces
      <3>3. QED
        BY <3>1, <3>2
    <2>3. QED
      BY <2>1, <2>2
  <1>7. QED
    BY <1>3, <1>4, <1>5, <1>6 DEF Following

LEMMA CrashFollowing ==
  ASSUME TypeOK, Following, NEW r \in Replicas, Crash(r)
  PROVE  Following'
  <1>0. /\ refresh \in [Threads -> Refresh] /\ session \in [Writers -> Session]
        /\ snapshot \in [Replicas -> [Routes -> Definition]]
    BY DEF TypeOK
  <1>1. /\ \A x \in Threads : refresh'[x] = Free \/ (~ RunsIn(x, r) /\ refresh'[x] = refresh[x])
        /\ \A w \in Writers : \/ /\ session'[w] = Idle /\ refresh'[w] = Free
                              \/ /\ ~ RunsIn(w, r) /\ session'[w] = session[w]
                                 /\ refresh'[w] = refresh[w]
        /\ \A q \in Replicas : q # r => snapshot'[q] = snapshot[q]
        /\ policy' = policy
    BY <1>0 DEF Crash, Threads, tables
  <1>2. OneRefresh'
    BY <1>1 DEF Following, OneRefresh, RunsIn
  <1>3. RowsNewer'
    <2> SUFFICES ASSUME NEW q \in Replicas, NEW y \in Threads, RunsIn(y, q),
                        refresh'[y].pc = "references", NEW u \in Routes
                 PROVE  /\ snapshot'[q][u].version <= refresh'[y].rows[u].version
                        /\ refresh'[y].rows[u].version <= policy'[u].version
      BY DEF RowsNewer, RunsIn
    <2>1. ~ RunsIn(y, r) /\ refresh'[y] = refresh[y]
      BY <1>1 DEF Free
    <2>2. q # r
      BY <2>1
    <2>3. QED
      BY <2>1, <2>2, <1>1 DEF Following, RowsNewer
  <1>4. ASSUME NEW w \in Writers, ~ RunsIn(w, r)
        PROVE  snapshot'[Home[w]] = snapshot[Home[w]]
    BY <1>1, <1>4, RoutePolicyAssumption DEF RunsIn
  <1>5. CommitFollowed'
    BY <1>1, <1>4 DEF Following, CommitFollowed, Free, Idle
  <1>6. WriterEnforces'
    BY <1>1, <1>4 DEF Following, WriterEnforces, Idle
  <1>7. QED
    BY <1>2, <1>3, <1>5, <1>6 DEF Following

-----------------------------------------------------------------------------
LEMMA NextFollowing ==
  ASSUME TypeOK, Following, [Next]_vars
  PROVE  Following'
  <1>0. session \in [Writers -> Session]
    BY DEF TypeOK
  <1>1. ASSUME NEW w \in Writers, NEW u \in Routes, NEW active \in Statuses[u],
               BeginSet(w, u, active)
        PROVE  Following'
    <2>1. UNCHANGED <<policy, refresh, snapshot>> /\ session[w].pc = "idle"
      BY <1>1 DEF BeginSet, memory
    <2>2. \A v \in Writers : \/ session'[v] = session[v]
                             \/ session[v].pc # "refresh" /\ session'[v].pc = "writing"
      BY <1>0, <1>1 DEF BeginSet
    <2>3. QED
      BY <2>1, <2>2, KeepFollowing
  <1>2. ASSUME NEW w \in Writers, CommitSet(w)
        PROVE  Following'
    BY <1>2, CommitSetFollowing
  <1>3. ASSUME NEW w \in Writers, Notify(w) \/ Abort(w)
        PROVE  Following'
    <2>1. UNCHANGED <<policy, refresh, snapshot>>
      BY <1>3 DEF Notify, Abort, tables, memory
    <2>2. \A v \in Writers : \/ session'[v] = session[v]
                             \/ session[v].pc # "refresh" /\ session'[v].pc = "idle"
      BY <1>0, <1>3 DEF Notify, Abort, Idle
    <2>3. QED
      BY <2>1, <2>2, KeepFollowing
  <1>4. ASSUME NEW x \in Threads, NEW r \in Replicas, LoadPolicies(x, r)
        PROVE  Following'
    BY <1>4, LoadPoliciesFollowing
  <1>5. ASSUME NEW x \in Threads, NEW r \in Replicas, LoadReferences(x, r)
        PROVE  Following'
    BY <1>5, LoadReferencesFollowing
  <1>6. ASSUME NEW x \in Threads, NEW r \in Replicas, ReadRevision(x, r)
        PROVE  Following'
    <2>1. /\ Wants(x, r) /\ refresh[x].pc = "revision" /\ Continue(x, TRUE)
          /\ UNCHANGED <<policy, snapshot>>
      BY <1>6 DEF ReadRevision, tables
    <2>2. QED
      BY <2>1, ContinueFollowing
  <1>7. ASSUME NEW x \in Threads, NEW r \in Replicas, RefuseTorn(x, r) \/ FailRefresh(x, r)
        PROVE  Following'
    <2>1. Wants(x, r) /\ Continue(x, FALSE) /\ UNCHANGED <<policy, snapshot>>
      BY <1>7 DEF RefuseTorn, FailRefresh, tables
    <2>2. QED
      BY <2>1, ContinueFollowing
  <1>8. ASSUME NEW r \in Replicas, Receive(r) \/ Poll(r)
        PROVE  Following'
    BY <1>8, KeepFollowing DEF Receive, Poll, tables, memory
  <1>9. ASSUME NEW r \in Replicas, Crash(r)
        PROVE  Following'
    BY <1>9, CrashFollowing
  <1>10. CASE UNCHANGED vars
    BY <1>10, KeepFollowing DEF vars, tables, memory
  <1>11. QED
    BY <1>1, <1>2, <1>3, <1>4, <1>5, <1>6, <1>7, <1>8, <1>9, <1>10 DEF Next, RefreshStep

LEMMA NextInv == RefreshInv /\ [Next]_vars => RefreshInv'
  <1> SUFFICES ASSUME RefreshInv, [Next]_vars PROVE RefreshInv'
    OBVIOUS
  <1>1. TypeOK /\ Stamps /\ RowsNewer /\ Following
    BY DEF RefreshInv, Following
  <1>2. TypeOK' /\ Stamps'
    BY <1>1, NextTypeOK, NextStamps
  <1>3. Following'
    BY <1>1, NextFollowing
  <1>4. QED
    BY <1>2, <1>3 DEF RefreshInv, Following

(* Only the swap of LoadReferences and a new process change a snapshot.    *)
LEMMA NextForward ==
  ASSUME RefreshInv, [Next]_vars
  PROVE  \A r \in Replicas : loop'[r] # "start" =>
           \A u \in Routes : snapshot'[r][u].version >= snapshot[r][u].version
  <1>0. /\ TypeOK /\ Following /\ loop \in [Replicas -> {"start", "select", "reload"}]
        /\ snapshot \in [Replicas -> [Routes -> Definition]]
    BY DEF RefreshInv, Following, TypeOK
  <1>a. \A r \in Replicas, u \in Routes : snapshot[r][u].version \in Nat
    BY <1>0, Versions
  <1> SUFFICES ASSUME NEW r \in Replicas, loop'[r] # "start", NEW u \in Routes
               PROVE  snapshot'[r][u].version >= snapshot[r][u].version
    OBVIOUS
  <1>1. CASE UNCHANGED snapshot
    BY <1>1, <1>a
  <1>2. ASSUME NEW x \in Threads, NEW q \in Replicas, LoadReferences(x, q)
        PROVE  snapshot'[r][u].version >= snapshot[r][u].version
    <2>1. snapshot[r][u].version <= snapshot'[r][u].version
      BY <1>0, <1>2, LoadReferencesFollowing
    <2>2. QED
      BY <2>1
  <1>3. ASSUME NEW q \in Replicas, Crash(q)
        PROVE  snapshot'[r][u].version >= snapshot[r][u].version
    <2>1. r # q /\ snapshot'[r] = snapshot[r]
      BY <1>0, <1>3 DEF Crash
    <2>2. QED
      BY <2>1, <1>a
  <1>4. QED
    BY <1>1, <1>2, <1>3 DEF Next, RefreshStep, BeginSet, CommitSet, Notify, Abort, LoadPolicies,
       ReadRevision, RefuseTorn, FailRefresh, Receive, Poll, vars, tables, memory

LEMMA InvAlways == Spec => []RefreshInv
  BY InitInv, NextInv, PTL DEF Spec

-----------------------------------------------------------------------------
(* Every variable keeps its type, and no replica evaluates a version of a  *)
(* policy that Set has not committed.                                      *)
THEOREM PolicyTypeCorrect == Spec => []TypeOK
  <1>1. RefreshInv => TypeOK
    BY DEF RefreshInv
  <1>2. QED
    BY <1>1, InvAlways, PTL

(* When Set is about to answer with success, the replica that served it    *)
(* evaluates what it wrote or something later, however its refresh was     *)
(* interleaved with those of other handlers and of Run.                    *)
THEOREM WriterEnforced == Spec => []WriterEnforces
  <1>1. RefreshInv => WriterEnforces
    BY DEF RefreshInv
  <1>2. QED
    BY <1>1, InvAlways, PTL

(* While a process runs, its snapshot of a policy never goes back to an    *)
(* older version: the mutex of RefreshSource spans the load and the swap.  *)
THEOREM SnapshotsMoveForward == Spec => PoliciesMoveForward
  <1>1. RefreshInv /\ [Next]_vars =>
          [\A r \in Replicas : loop'[r] # "start" =>
             \A u \in Routes : snapshot'[r][u].version >= snapshot[r][u].version]_vars
    BY NextForward
  <1>2. QED
    BY <1>1, InvAlways, PTL DEF Spec, PoliciesMoveForward
=============================================================================
