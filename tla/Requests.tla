------------------------------ MODULE Requests ------------------------------
(***************************************************************************)
(* A request from its arrival to its answer (internal/transport): the HTTP *)
(* middlewares and the gRPC interceptors in their order, the idempotency   *)
(* record of its key, the handler and the result that is kept for retries. *)
(*                                                                         *)
(* Commands are abstracted to what retries tell apart: a write is fenced   *)
(* by the version of the row it changes (UpdateApplication, Grant and      *)
(* Revoke); reads are the two that tenant users make, the navigation and   *)
(* the batch check.  Each middleware is a step of its own, as is each      *)
(* access of a handler to the database.                                    *)
(***************************************************************************)
EXTENDS Integers, Sequences, FiniteSets

CONSTANTS
  Slots,       \* goroutines serving requests
  Tenants,     \* each with one user; a tenant stands for its user too
  Admin,       \* a service account
  Anonymous,   \* a caller without credential
  Forged,      \* a caller whose credential is refused
  App,         \* the application's row
  Keys,        \* well-formed idempotency keys
  NoKey,       \* a request without key
  BadKey,      \* a malformed key
  Inputs,      \* the requests clients send
  Policies,    \* what policies may become: pairs of a route and its callers
  FailOpen,    \* rate_limit.fail_open
  FailClosed,  \* whether the security log must be written
  MaxSends,    \* bound on the requests sent
  MaxFaults,   \* bound on failures, panics and disconnects
  MaxChanges   \* bound on the changes of policies

Callers == Tenants \cup {Admin, Anonymous, Forged}
Targets == Tenants \cup {App}    \* the row of a tenant is its grant
Routes  == {"write", "navigation", "check"}

(* The body of a write names a row, the version it expects and, for a      *)
(* grant, whether it is to be active.  A read's names a tenant.            *)
Request == [api : {"http", "grpc"}, caller : Callers, route : Routes,
            target : Targets, expected : Nat, active : BOOLEAN,
            key : Keys \cup {NoKey, BadKey}]

ASSUME RequestsAssumption ==
  /\ Inputs \subseteq Request
  /\ Policies \subseteq Routes \X SUBSET Callers
  /\ FailOpen \in BOOLEAN /\ FailClosed \in BOOLEAN
  /\ App \notin Tenants
  /\ {Admin, Anonymous, Forged} \cap Tenants = {}
  /\ Admin \notin {Anonymous, Forged} /\ Anonymous # Forged
  /\ NoKey \notin Keys /\ BadKey \notin Keys
  /\ MaxSends \in Nat /\ MaxFaults \in Nat /\ MaxChanges \in Nat

VARIABLES
  version,   \* the version of each row
  granted,   \* the tenants whose grant is active
  policy,    \* the snapshot of route policies: the callers each route admits
  record,    \* the idempotency record of each key
  serving,   \* what each goroutine is serving
  budget,    \* what is left of the bounds
  applied,   \* history: the writes that were committed
  answers,   \* history: the answers that tell of success or of a stale version
  lapsed,    \* history: the keys of which a record ran out
  seen       \* history: what held at some moment since a request arrived

vars == <<version, granted, policy, record, serving, budget, applied, answers,
          lapsed, seen>>
database == <<version, granted>>
history  == <<applied, lapsed>>

Refusals == {"invalid", "unauthorized", "forbidden", "limited", "unavailable",
             "progress", "foreign", "stale", "internal", "lost"}

(* An answer: its kind and, of a success, the version written or, of a     *)
(* read, the tenant whose data it carries.                                 *)
Outcome == [kind : {"ok"}, version : Nat, tenant : Targets] \cup [kind : Refusals]
Refused(kind) == [kind |-> kind]

(* apperror.HTTPStatus at 400 or above.                                    *)
IsError(outcome) == outcome.kind # "ok"

(* What tells one request from another under the same key.                 *)
BodyOnly(q)      == [q EXCEPT !.caller = Anonymous, !.key = NoKey]
Fingerprint(q)   == [q EXCEPT !.key = NoKey]

(* A record of the external store: absent, held by the request that is     *)
(* processed, or the outcome kept for retries.                             *)
Absent    == [state |-> "absent"]
Record    == {Absent}
               \cup [state : {"processing"}, owner : Slots, print : Request]
               \cup [state : {"kept"}, print : Request, outcome : Outcome]

(* Of a request: its caller was admitted and, of a navigation, the         *)
(* caller's tenant was granted the application.                            *)
Seen      == [admitted : BOOLEAN, active : BOOLEAN]
Unseen    == [admitted |-> FALSE, active |-> FALSE]

Idle      == [pc |-> "idle"]
Pcs       == {"key", "limit", "authenticate", "authorize", "limitUser", "idempotency",
              "handler", "commit", "log", "security", "read", "persist"}
Serving   == {Idle}
               \cup [pc : Pcs, req : Request, owner : BOOLEAN, platform : BOOLEAN,
                     cancelled : BOOLEAN, outcome : Outcome]

-----------------------------------------------------------------------------
(* The order in which the router and the gRPC server chain their steps.    *)
HttpChain ==
  <<"key", "limit", "authenticate", "authorize", "limitUser", "idempotency", "handler">>
IdempotencyFirst == <<"key", "authenticate", "idempotency", "authorize", "handler">>
GrpcChain == <<"key", "authenticate", "authorize", "idempotency", "handler">>

Chain == [http |-> HttpChain, grpc |-> GrpcChain]

After(api, step) ==
  LET steps == Chain[api] IN
  steps[1 + CHOOSE i \in 1 .. Len(steps) - 1 : steps[i] = step]

(* The routes reserved to the platform: all but those tenant users call.   *)
EveryRoute(route) == TRUE
platformAdministrationRoute(route) == route \notin {"navigation", "check"}
platformAdministrationMethod(route) == route \notin {"navigation", "check"}

MarksPlatform(q) ==
  IF q.api = "http" THEN platformAdministrationRoute(q.route)
  ELSE platformAdministrationMethod(q.route)

(* idempotency.Valid of the key, Verify of the credential: a caller        *)
(* without one passes, and its route's policy decides.                     *)
ValidKey(q) == q.key # BadKey
Verified(q) == q.caller # Forged

(* The commands are configured to be idempotent, on either transport.      *)
IdempotentPath(q) == q.route = "write"

Init ==
  /\ version = [t \in Targets |-> 1]
  /\ granted = Tenants
  /\ policy = [route \in Routes |-> Callers]
  /\ record = [k \in Keys |-> Absent]
  /\ serving = [s \in Slots |-> Idle]
  /\ budget = [sends |-> MaxSends, faults |-> MaxFaults, changes |-> MaxChanges]
  /\ applied = {}
  /\ answers = {}
  /\ lapsed = {}
  /\ seen = [s \in Slots |-> Unseen]

-----------------------------------------------------------------------------
At(s, pc) == serving[s].pc = pc
Goes(s, changes) == serving' = [serving EXCEPT ![s] = changes]
Pass(s) == Goes(s, [serving[s] EXCEPT !.pc = After(serving[s].req.api, serving[s].pc)])

Spend(bound) == budget[bound] > 0 /\ budget' = [budget EXCEPT ![bound] = @ - 1]

(* The goroutine writes the answer and is free again.                      *)
Reply(s, outcome, replayed) ==
  LET r == serving[s] IN
  /\ Goes(s, Idle)
  /\ answers' = IF outcome.kind \in {"ok", "stale"}
                THEN answers \cup {[req |-> r.req, outcome |-> outcome,
                                    replayed |-> replayed, seen |-> seen[s]]}
                ELSE answers

Returns(s, outcome) == Goes(s, [serving[s] EXCEPT !.pc = "persist", !.outcome = outcome])

(* A step aborts the chain: nothing after it runs.                         *)
Abort(s, kind) == Reply(s, Refused(kind), FALSE)

(* Whether the policy of its route admits the caller: the evaluation of    *)
(* the policy's expression by the library.                                 *)
Admits(routes, q) == q.caller \in routes[q.route]

(* A call to the database or to Redis fails: its context is done, or it is *)
(* out of reach.                                                           *)
Fails(s) == IF serving[s].cancelled THEN UNCHANGED budget ELSE Spend("faults")

(* A request is taken by a free goroutine; which one makes no difference.  *)
Send(s, q) ==
  /\ At(s, "idle") /\ s = CHOOSE free \in Slots : At(free, "idle")
  /\ Spend("sends")
  /\ Goes(s, [pc |-> Chain[q.api][1], req |-> q, owner |-> FALSE, platform |-> FALSE,
              cancelled |-> FALSE, outcome |-> Refused("lost")])
  /\ UNCHANGED <<database, policy, record, history, answers>>

IdempotencyKey(s) ==
  /\ At(s, "key")
  /\ \/ ~ ValidKey(serving[s].req) /\ Abort(s, "invalid")
     \/ ValidKey(serving[s].req) /\ Pass(s) /\ UNCHANGED answers
  /\ UNCHANGED <<database, policy, record, budget, history>>

(* The caller is within its limit or not, or the limiter cannot tell.  The *)
(* limit per user does not concern anonymous callers.                      *)
RateLimit(s) ==
  /\ At(s, "limit") \/ At(s, "limitUser")
  /\ \/ Pass(s) /\ UNCHANGED <<answers, budget>>
     \/ /\ ~ (At(s, "limitUser") /\ serving[s].req.caller = Anonymous)
        /\ \/ Abort(s, "limited") /\ Spend("faults")
           \/ ~ FailOpen /\ Abort(s, "unavailable") /\ Fails(s)
  /\ UNCHANGED <<database, policy, record, history>>

DatabaseAuthentication(s) ==
  /\ At(s, "authenticate")
  /\ \/ ~ Verified(serving[s].req) /\ Abort(s, "unauthorized")
     \/ Verified(serving[s].req) /\ Pass(s) /\ UNCHANGED answers
  /\ UNCHANGED <<database, policy, record, budget, history>>

(* A policy that is missing or cannot be decided refuses as well.  Passing *)
(* a route of the platform's marks the caller a platform administrator.    *)
DatabaseAuthorization(s) ==
  LET r == serving[s] IN
  /\ At(s, "authorize")
  /\ \/ ~ Admits(policy, r.req) /\ Abort(s, "forbidden") /\ UNCHANGED budget
     \/ Abort(s, "unavailable") /\ Fails(s)
     \/ /\ Admits(policy, r.req)
        /\ Goes(s, [r EXCEPT !.pc = After(r.req.api, "authorize"),
                             !.platform = MarksPlatform(r.req)])
        /\ UNCHANGED <<answers, budget>>
  /\ UNCHANGED <<database, policy, record, history>>

-----------------------------------------------------------------------------
(* Begin of the external store: one atomic step that takes a free key for  *)
(* this request or tells what the key's record holds.                      *)
FailedIsFree(k) ==
  record[k].state = "absent" \/ (record[k].state = "kept" /\ IsError(record[k].outcome))
Free(k) == record[k].state = "absent"

Acquires(s) ==
  LET q == serving[s].req IN
  record' = [record EXCEPT ![q.key] =
               [state |-> "processing", owner |-> s, print |-> Fingerprint(q)]]

(* IdempotencyExecution up to its c.Next: a key that is not free answers.  *)
(* A Begin that fails may have taken the key: nobody will release it.  The *)
(* library's interceptor does the same for gRPC with the same manager, and *)
(* is taken to tell callers, methods and requests apart as this one does.  *)
IdempotencyExecution(s) ==
  LET r == serving[s]
      k == r.req.key
  IN
  /\ At(s, "idempotency")
  /\ IF ~ IdempotentPath(r.req) \/ k = NoKey
     THEN Pass(s) /\ UNCHANGED <<record, answers, budget>>
     ELSE \/ /\ Abort(s, "unavailable")
             /\ Fails(s)
             /\ UNCHANGED record \/ (Free(k) /\ Acquires(s))
          \/ /\ Free(k) /\ ~ r.cancelled
             /\ Acquires(s)
             /\ Goes(s, [r EXCEPT !.pc = After(r.req.api, "idempotency"), !.owner = TRUE])
             /\ UNCHANGED <<answers, budget>>
          \/ /\ ~ Free(k) /\ ~ r.cancelled
             /\ UNCHANGED <<record, budget>>
             /\ LET kept == record[k] IN
                \/ kept.print # Fingerprint(r.req) /\ Abort(s, "foreign")
                \/ /\ kept.print = Fingerprint(r.req) /\ kept.state = "processing"
                   /\ Abort(s, "progress")
                \/ /\ kept.print = Fingerprint(r.req) /\ kept.state = "kept"
                   /\ Reply(s, kept.outcome, TRUE)
  /\ UNCHANGED <<database, policy, history>>

(* IdempotencyExecution after c.Next: the owner keeps the outcome under    *)
(* its own deadline, cancelled or not, and a failure to is only logged.    *)
(* The store ignores an owner that is no longer the record's.  Whether the *)
(* library's interceptor keeps an outcome that nobody waits for is open.   *)
StillOwner(s) ==
  LET k == serving[s].req.key IN
  record[k].state = "processing" /\ record[k].owner = s

KeepsCode(s) ==
  LET r == serving[s] IN
  record' = IF StillOwner(s)
            THEN [record EXCEPT ![r.req.key] =
                    [state |-> "kept", print |-> Fingerprint(r.req), outcome |-> [kind |-> r.outcome.kind]]]
            ELSE record

Keeps(s) ==
  LET r == serving[s] IN
  record' = IF StillOwner(s)
            THEN [record EXCEPT ![r.req.key] =
                    [state |-> "kept", print |-> Fingerprint(r.req), outcome |-> r.outcome]]
            ELSE record

WithRequest(r) == r.cancelled
MayGiveUp(r)   == r.cancelled /\ r.req.api = "grpc"

KeepAndAnswer(s) ==
  LET r == serving[s] IN
  /\ At(s, "persist")
  /\ Reply(s, r.outcome, FALSE)
  /\ \/ r.owner /\ Keeps(s) /\ UNCHANGED budget
     \/ r.owner /\ UNCHANGED record /\ Spend("faults")
     \/ r.owner /\ UNCHANGED <<record, budget>> /\ MayGiveUp(r)
     \/ ~ r.owner /\ UNCHANGED <<record, budget>>
  /\ UNCHANGED <<database, policy, history>>

(* The time to live of a record, whatever its state.                       *)
Lapse(k) ==
  /\ record[k].state # "absent"
  /\ record' = [record EXCEPT ![k] = Absent]
  /\ lapsed' = lapsed \cup {k}
  /\ UNCHANGED <<database, policy, serving, budget, applied, answers>>

-----------------------------------------------------------------------------
(* A command: the actor, its input and the row, read before the            *)
(* transaction.                                                            *)
Actor(q) == q.caller \in Tenants \cup {Admin}

(* authorizeTenant: a platform administrator may name any tenant, a        *)
(* service any, a user its own.                                            *)
AuthorizesTenant(r, tenant) ==
  r.platform \/ r.req.caller = Admin \/ r.req.caller = tenant

Rejection(r) ==
  LET q == r.req IN
  IF ~ Actor(q) THEN "unauthorized"
  ELSE IF q.target \in Tenants /\ ~ AuthorizesTenant(r, q.target) THEN "forbidden"
  ELSE IF q.expected < 1 THEN "invalid" ELSE "none"

StartCommand(s) ==
  LET r == serving[s] IN
  /\ At(s, "handler") /\ r.req.route = "write"
  /\ \/ /\ Rejection(r) # "none"
        /\ Returns(s, Refused(Rejection(r))) /\ UNCHANGED budget
     \/ Rejection(r) = "none" /\ Returns(s, Refused("internal")) /\ Fails(s)
     \/ /\ Rejection(r) = "none" /\ ~ r.cancelled
        /\ Goes(s, [r EXCEPT !.pc = "commit"]) /\ UNCHANGED budget
  /\ UNCHANGED <<database, policy, record, history, answers>>

(* The fence in the WHERE clause of the row's UPDATE.                      *)
Unfenced(q) == TRUE
Fenced(q) == version[q.target] = q.expected

Writes(s, q) ==
  /\ version' = [version EXCEPT ![q.target] = @ + 1]
  /\ granted' = IF q.target = App THEN granted
                ELSE IF q.active THEN granted \cup {q.target} ELSE granted \ {q.target}
  /\ applied' = applied \cup
       {[req |-> q, version |-> version[q.target] + 1, seen |-> seen[s]]}

(* The transaction.  When it fails, the commit may still have been made:   *)
(* the answer to it was lost.                                              *)
Commit(s) ==
  LET r == serving[s]
      q == r.req
  IN
  /\ At(s, "commit")
  /\ \/ /\ Fenced(q) /\ ~ r.cancelled
        /\ Writes(s, q)
        /\ Goes(s, [r EXCEPT !.pc = "log", !.outcome =
                      [kind |-> "ok", version |-> q.expected + 1, tenant |-> q.target]])
        /\ UNCHANGED budget
     \/ /\ ~ Fenced(q) /\ ~ r.cancelled
        /\ Goes(s, [r EXCEPT !.pc = "log", !.outcome = Refused("stale")])
        /\ UNCHANGED <<database, applied, budget>>
     \/ /\ Goes(s, [r EXCEPT !.pc = "log", !.outcome = Refused("internal")])
        /\ Fails(s)
        /\ \/ UNCHANGED <<database, applied>>
           \/ Fenced(q) /\ ~ r.cancelled /\ Writes(s, q)
  /\ UNCHANGED <<policy, record, answers, lapsed>>

(* The operation log: a change it cannot record is answered as an error    *)
(* though it was made, and an error stays what it is.                      *)
recordOperation(s) ==
  LET r == serving[s]
      next == IF r.req.target = App THEN "persist" ELSE "security"
  IN
  /\ At(s, "log")
  /\ \/ Goes(s, [r EXCEPT !.pc = next]) /\ UNCHANGED budget
     \/ /\ ~ IsError(r.outcome)
        /\ Goes(s, [r EXCEPT !.pc = next, !.outcome = Refused("unavailable")])
        /\ Fails(s)
  /\ UNCHANGED <<database, policy, record, history, answers>>

(* The security log of a grant, the same when it is to fail closed.        *)
recordSecurity(s) ==
  LET r == serving[s] IN
  /\ At(s, "security")
  /\ \/ Returns(s, r.outcome) /\ UNCHANGED budget
     \/ /\ ~ IsError(r.outcome) /\ FailClosed
        /\ Returns(s, Refused("unavailable")) /\ Fails(s)
  /\ UNCHANGED <<database, policy, record, history, answers>>

(* GetPublishedNavigation and BatchCheck up to the reading of the grants.  *)
(* A user's tenant is the one of its credential; a service has none.       *)
UserScoped(q) == q.caller \in Tenants

CheckTenant(s) ==
  LET r == serving[s]
      q == r.req
  IN
  /\ At(s, "handler") /\ q.route # "write"
  /\ \/ ~ Actor(q) /\ Returns(s, Refused("unauthorized")) /\ UNCHANGED budget
     \/ Actor(q) /\ Returns(s, Refused("internal")) /\ Fails(s)
     \/ /\ Actor(q) /\ q.route = "check" /\ ~ AuthorizesTenant(r, q.target)
        /\ Returns(s, Refused("forbidden")) /\ UNCHANGED budget
     \/ /\ Actor(q) /\ q.route = "navigation" /\ ~ r.cancelled
        /\ \/ /\ UserScoped(q) /\ q.caller \notin granted
              /\ Returns(s, Refused("forbidden"))
           \/ /\ UserScoped(q) => q.caller \in granted
              /\ Goes(s, [r EXCEPT !.pc = "read"])
        /\ UNCHANGED budget
     \/ /\ Actor(q) /\ q.route = "check" /\ AuthorizesTenant(r, q.target) /\ ~ r.cancelled
        /\ Goes(s, [r EXCEPT !.pc = "read"])
        /\ UNCHANGED budget
  /\ UNCHANGED <<database, policy, record, history, answers>>

(* The navigation reads the application and its release after the grant.   *)
(* Its version tells which state of the row the answer shows; that of a    *)
(* check is 1 when the tenant's grant is active, else 0.                   *)
Read(s) ==
  LET r == serving[s]
      q == r.req
  IN
  /\ At(s, "read")
  /\ \/ Returns(s, Refused("internal")) /\ Fails(s)
     \/ /\ ~ r.cancelled /\ q.route = "navigation"
        /\ Returns(s, [kind |-> "ok", version |-> version[App],
                       tenant |-> IF UserScoped(q) THEN q.caller ELSE App])
        /\ UNCHANGED budget
     \/ /\ ~ r.cancelled /\ q.route = "check"
        /\ Returns(s, [kind |-> "ok", version |-> IF q.target \in granted THEN 1 ELSE 0,
                       tenant |-> q.target])
        /\ UNCHANGED budget
  /\ UNCHANGED <<database, policy, record, history, answers>>

-----------------------------------------------------------------------------
(* The client goes away or the deadline passes: the request's context is   *)
(* done, and every call that takes it fails from here on.                  *)
Cancel(s) ==
  /\ ~ At(s, "idle") /\ ~ serving[s].cancelled
  /\ Spend("faults")
  /\ Goes(s, [serving[s] EXCEPT !.cancelled = TRUE])
  /\ UNCHANGED <<database, policy, record, history, answers>>

(* A panic passes through IdempotencyExecution, which defers nothing, to   *)
(* Recovery, which answers for it; a replica that stops answers nothing.   *)
Panic(s) ==
  /\ serving[s].pc \in {"handler", "commit", "log", "security", "read"}
  /\ Spend("faults")
  /\ \E kind \in {"internal", "lost"} : Reply(s, Refused(kind), FALSE)
  /\ UNCHANGED <<database, policy, record, history>>

(* An administrator changes a route's policy and the replica reloads it.   *)
ChangePolicy(route, audience) ==
  /\ policy[route] # audience
  /\ Spend("changes")
  /\ policy' = [policy EXCEPT ![route] = audience]
  /\ UNCHANGED <<database, record, serving, history, answers>>

Serve(s) ==
  \/ IdempotencyKey(s) \/ RateLimit(s) \/ DatabaseAuthentication(s)
  \/ DatabaseAuthorization(s) \/ IdempotencyExecution(s)
  \/ StartCommand(s) \/ Commit(s) \/ recordOperation(s) \/ recordSecurity(s)
  \/ CheckTenant(s) \/ Read(s) \/ KeepAndAnswer(s)

Step ==
  \/ \E s \in Slots :
       \/ \E q \in Inputs : Send(s, q)
       \/ Serve(s)
       \/ Cancel(s)
       \/ Panic(s)
  \/ \E k \in Keys : Lapse(k)
  \/ \E p \in Policies : ChangePolicy(p[1], p[2])

NavigatesGranted(q, tenants) == q.route = "navigation" /\ q.caller \in tenants

(* What holds in the new state is added to what a request has seen.        *)
Watch ==
  seen' = [s \in Slots |->
             IF serving'[s].pc = "idle" THEN Unseen
             ELSE LET q == serving'[s].req IN
                  [admitted |-> seen[s].admitted \/ Admits(policy', q),
                   active   |-> seen[s].active \/ NavigatesGranted(q, granted')]]

Next == Step /\ Watch

(* The server goes on with what it serves.  Nothing is asked of Redis: a   *)
(* record may never run out.                                               *)
Fairness == \A s \in Slots : WF_vars(Serve(s) /\ Watch)

Spec == Init /\ [][Next]_vars /\ Fairness
-----------------------------------------------------------------------------
(* The types of the variables.                                             *)
TypeOK ==
  /\ version \in [Targets -> Nat]
  /\ granted \subseteq Tenants
  /\ policy \in [Routes -> SUBSET Callers]
  /\ record \in [Keys -> Record]
  /\ serving \in [Slots -> Serving]
  /\ budget \in [{"sends", "faults", "changes"} -> Nat]
  /\ applied \subseteq [req : Request, version : Nat, seen : Seen]
  /\ answers \subseteq [req : Request, outcome : Outcome, replayed : BOOLEAN, seen : Seen]
  /\ lapsed \subseteq Keys
  /\ seen \in [Slots -> Seen]

SameCommand(q1, q2) == [q1 EXCEPT !.key = NoKey] = [q2 EXCEPT !.key = NoKey]

IsWrite(a) == a.outcome.kind = "ok" /\ a.req.route = "write"

(* A client that is answered success, by the handler or from the record of *)
(* its key, made the change: there is a commit of the same caller and the  *)
(* same body, and the answer names the version it made.                    *)
SuccessMeansApplied ==
  \A a \in answers : IsWrite(a) =>
    \E w \in applied : SameCommand(w.req, a.req) /\ w.version = a.outcome.version

(* However often a command is sent, with its key or without, and whatever  *)
(* runs out or fails in between, it changes its row at most once.          *)
AppliedOnce ==
  \A w1, w2 \in applied : SameCommand(w1.req, w2.req) => w1 = w2

(* A client that retries a command under its key is never told that its    *)
(* own change made the version stale, unless the key's record had run out. *)
RetryLearnsOutcome ==
  \A a \in answers :
    (/\ a.outcome = Refused("stale") /\ ~ a.replayed
     /\ IdempotentPath(a.req) /\ a.req.key \in Keys \ lapsed) =>
       ~ \E w \in applied : w.req = a.req

(* Nothing is changed, read or replayed for a caller whom the policy of    *)
(* the route did not admit at any moment since its request arrived.        *)
OnlyAdmitted ==
  /\ \A a \in answers : a.outcome.kind = "ok" => a.seen.admitted
  /\ \A w \in applied : w.seen.admitted

(* A tenant's user sees only its own tenant, and a navigation only of an   *)
(* application its tenant was granted at some moment of the request.       *)
TenantConfined ==
  \A a \in answers :
    (a.outcome.kind = "ok" /\ a.req.caller \in Tenants /\ a.req.route # "write") =>
      /\ a.outcome.tenant = a.req.caller
      /\ a.req.route = "navigation" => a.seen.active

(* A request over HTTP that has taken its key gives it up by its own steps *)
(* once nothing fails any more, be its client still there or not: no retry *)
(* is told "in progress" until the record runs out because the first       *)
(* client went away.                                                       *)
Held(k) ==
  \E s \in Slots :
    /\ serving[s].pc # "idle" /\ serving[s].owner
    /\ serving[s].req.api = "http" /\ serving[s].req.key = k
    /\ StillOwner(s)

KeySettled ==
  \A k \in Keys : (Held(k) /\ budget.faults = 0) ~> record[k].state # "processing"
=============================================================================
