--------------------------- MODULE Requests_proofs ---------------------------
(***************************************************************************)
(* What holds of requests for any number of goroutines, tenants, keys and  *)
(* requests, whatever the requests are and whatever policies become.       *)
(***************************************************************************)
EXTENDS Requests, TLAPS

-----------------------------------------------------------------------------
(* From c.Next on: the request's key, if it has one that counts, is its    *)
(* own.                                                                    *)
Done == {"log", "security", "persist"}
Past == {"handler", "commit", "read"} \cup Done

Keyed(q) == IdempotentPath(q) /\ q.key # NoKey
Holds(r) == r.pc \in Past /\ Keyed(r.req)

(* A request, and what held since it arrived.                              *)
SoundRequest(r, x) ==
  /\ r.pc \in {"limit", "limitUser"} => r.req.api = "http"
  /\ r.pc # "key" => r.req.key # BadKey
  /\ r.pc \in {"limitUser", "idempotency"} \cup Past => x.admitted
  /\ r.pc \in {"commit", "log", "security"} => r.req.route = "write"
  /\ r.owner <=> Holds(r)
  /\ r.platform => r.req.route = "write"
  /\ r.pc \notin Done => r.outcome = Refused("lost")
  /\ r.pc = "read" =>
       /\ r.req.route # "write"
       /\ r.req.route = "navigation" /\ r.req.caller \in Tenants => x.active
       /\ r.req.route = "check" /\ r.req.caller \in Tenants => r.req.target = r.req.caller
  /\ r.pc = "persist" /\ r.outcome.kind = "ok" /\ r.req.route # "write"
       /\ r.req.caller \in Tenants =>
       /\ r.outcome.tenant = r.req.caller
       /\ r.req.route = "navigation" => x.active

Requesting == \A s \in Slots : serving[s] # Idle => SoundRequest(serving[s], seen[s])

(* The fence: a row's version is above those it had, each write made the   *)
(* version after the one it expected, and no two made the same.            *)
FencedWrites ==
  /\ \A w \in applied :
       w.version = w.req.expected + 1 /\ w.version <= version[w.req.target]
  /\ \A w1, w2 \in applied :
       w1.req.target = w2.req.target /\ w1.version = w2.version => w1 = w2

(* A success on its way to the client, or kept for it, is of a change that *)
(* was made.                                                               *)
Made(writes, p, outcome) ==
  \E w \in writes : Fingerprint(w.req) = p /\ w.version = outcome.version

SuccessMade ==
  /\ \A s \in Slots : serving[s].pc \in Done =>
       (serving[s].outcome.kind = "ok" /\ serving[s].req.route = "write" =>
          Made(applied, Fingerprint(serving[s].req), serving[s].outcome))
  /\ \A k \in Keys : record[k].state = "kept" =>
       (record[k].outcome.kind = "ok" => Made(applied, record[k].print, record[k].outcome))

(* As long as no record of a key has run out, its record is that of the    *)
(* request that holds it.                                                  *)
Unlapsed(q) == IdempotentPath(q) /\ q.key \in Keys \ lapsed

KeyHeld ==
  \A s \in Slots : Holds(serving[s]) /\ Unlapsed(serving[s].req) =>
    record[serving[s].req.key].state = "processing"
      /\ record[serving[s].req.key].owner = s

(* Who has written under a key, or was told that its version is stale, was *)
(* the only one to try.                                                    *)
FirstTry ==
  /\ \A w \in applied : Unlapsed(w.req) =>
       /\ record[w.req.key].state # "absent"
       /\ \A s \in Slots : Holds(serving[s]) /\ serving[s].req.key = w.req.key =>
            serving[s].pc \in Done /\ serving[s].outcome # Refused("stale")
  /\ \A a \in answers : a.outcome = Refused("stale") /\ ~ a.replayed /\ Unlapsed(a.req) =>
       /\ record[a.req.key].state # "absent"
       /\ \A s \in Slots : Holds(serving[s]) => serving[s].req.key # a.req.key

RequestsInv ==
  /\ TypeOK
  /\ Requesting /\ FencedWrites /\ SuccessMade /\ KeyHeld /\ FirstTry
  /\ SuccessMeansApplied /\ RetryLearnsOutcome /\ OnlyAdmitted /\ TenantConfined

-----------------------------------------------------------------------------
(* What follows each step of the two chains.                               *)
LEMMA ChainStarts == \A api \in {"http", "grpc"} : Chain[api][1] = "key"
  BY DEF Chain, HttpChain, GrpcChain

LEMMA ChainSteps ==
  /\ After("http", "key") = "limit"
  /\ After("http", "limit") = "authenticate"
  /\ After("http", "authenticate") = "authorize"
  /\ After("http", "authorize") = "limitUser"
  /\ After("http", "limitUser") = "idempotency"
  /\ After("http", "idempotency") = "handler"
  /\ After("grpc", "key") = "authenticate"
  /\ After("grpc", "authenticate") = "authorize"
  /\ After("grpc", "authorize") = "idempotency"
  /\ After("grpc", "idempotency") = "handler"
  <1>1. /\ Chain["http"] = HttpChain /\ Len(HttpChain) - 1 = 6
        /\ Chain["grpc"] = GrpcChain /\ Len(GrpcChain) - 1 = 4
    BY DEF Chain, HttpChain, GrpcChain
  <1>2. \A n \in 1 .. 6 : (CHOOSE i \in 1 .. 6 : HttpChain[i] = HttpChain[n]) = n
    BY DEF HttpChain
  <1>3. \A n \in 1 .. 6 : After("http", HttpChain[n]) = HttpChain[1 + n]
    <2>1. \A step : After("http", step) =
                       HttpChain[1 + CHOOSE i \in 1 .. 6 : HttpChain[i] = step]
      BY <1>1, Zenon DEF After
    <2>2. QED BY <1>2, <2>1
  <1>4. \A n \in 1 .. 4 : (CHOOSE i \in 1 .. 4 : GrpcChain[i] = GrpcChain[n]) = n
    BY DEF GrpcChain
  <1>5. \A n \in 1 .. 4 : After("grpc", GrpcChain[n]) = GrpcChain[1 + n]
    <2>1. \A step : After("grpc", step) =
                       GrpcChain[1 + CHOOSE i \in 1 .. 4 : GrpcChain[i] = step]
      BY <1>1, Zenon DEF After
    <2>2. QED BY <1>4, <2>1
  <1>6. /\ HttpChain[1] = "key" /\ HttpChain[2] = "limit" /\ HttpChain[3] = "authenticate"
        /\ HttpChain[4] = "authorize" /\ HttpChain[5] = "limitUser"
        /\ HttpChain[6] = "idempotency" /\ HttpChain[7] = "handler"
        /\ GrpcChain[1] = "key" /\ GrpcChain[2] = "authenticate" /\ GrpcChain[3] = "authorize"
        /\ GrpcChain[4] = "idempotency" /\ GrpcChain[5] = "handler"
    BY DEF HttpChain, GrpcChain
  <1>7. QED BY <1>3, <1>5, <1>6

(* A request that is served has these fields.                              *)
Served == [pc : Pcs, req : Request, owner : BOOLEAN, platform : BOOLEAN,
           cancelled : BOOLEAN, outcome : Outcome]

LEMMA ServingShape ==
  ASSUME NEW r \in Serving
  PROVE  /\ r = Idle <=> r.pc = "idle"
         /\ r # Idle => r \in Served
  BY DEF Serving, Served, Idle, Pcs

LEMMA ServedServing == Served \subseteq Serving /\ Idle \in Serving
  BY DEF Served, Serving

LEMMA RefusalOutcomes ==
  \A kind \in Refusals : Refused(kind) \in Outcome /\ Refused(kind).kind = kind
  BY DEF Refused, Outcome

LEMMA SoundGrows ==
  ASSUME NEW r, NEW x, NEW y, SoundRequest(r, x),
         x.admitted => y.admitted, x.active => y.active
  PROVE  SoundRequest(r, y)
  BY DEF SoundRequest

(* What a request has seen only grows, and includes what holds now.        *)
LEMMA Watched ==
  ASSUME TypeOK, Watch, serving' \in [Slots -> Serving],
         policy' \in [Routes -> SUBSET Callers], granted' \subseteq Tenants
  PROVE  /\ seen' \in [Slots -> Seen]
         /\ \A s \in Slots : serving'[s] # Idle =>
              /\ seen[s].admitted \/ Admits(policy', serving'[s].req) => seen'[s].admitted
              /\ seen[s].active \/ NavigatesGranted(serving'[s].req, granted')
                   => seen'[s].active
  <1>1. \A s \in Slots : serving'[s] = Idle <=> serving'[s].pc = "idle"
    BY ServingShape
  <1>2. \A s \in Slots : seen[s].admitted \in BOOLEAN /\ seen[s].active \in BOOLEAN
    BY DEF TypeOK, Seen
  <1>3. \A q : Admits(policy', q) \in BOOLEAN /\ NavigatesGranted(q, granted') \in BOOLEAN
    BY DEF Admits, NavigatesGranted
  <1>4. \A s \in Slots : seen'[s] =
          IF serving'[s].pc = "idle" THEN Unseen
          ELSE [admitted |-> seen[s].admitted \/ Admits(policy', serving'[s].req),
                active   |-> seen[s].active \/ NavigatesGranted(serving'[s].req, granted')]
    BY DEF Watch
  <1>5. ASSUME NEW s \in Slots, serving'[s] # Idle
        PROVE  /\ seen'[s] \in Seen
               /\ seen[s].admitted \/ Admits(policy', serving'[s].req) => seen'[s].admitted
               /\ seen[s].active \/ NavigatesGranted(serving'[s].req, granted')
                    => seen'[s].active
    <2> DEFINE a == seen[s].admitted \/ Admits(policy', serving'[s].req)
               n == seen[s].active \/ NavigatesGranted(serving'[s].req, granted')
    <2>1. seen'[s] = [admitted |-> a, active |-> n]
      BY <1>1, <1>4, <1>5
    <2>2. a \in BOOLEAN /\ n \in BOOLEAN
      OBVIOUS
    <2> HIDE DEF a, n
    <2>3. seen'[s] \in Seen /\ (a => seen'[s].admitted) /\ (n => seen'[s].active)
      BY <2>1, <2>2 DEF Seen
    <2>4. QED BY <2>3 DEF a, n
  <1>6. ASSUME NEW s \in Slots, serving'[s] = Idle
        PROVE  seen'[s] \in Seen
    <2>1. seen'[s] = Unseen
      BY <1>1, <1>4, <1>6
    <2>2. Unseen \in Seen
      BY DEF Seen, Unseen
    <2>3. QED BY <2>1, <2>2
  <1>7. seen' \in [Slots -> Seen]
    <2>1. \A s \in Slots : seen'[s] \in Seen
      BY <1>5, <1>6
    <2>2. seen' = [s \in Slots |-> seen'[s]]
      BY DEF Watch
    <2>3. QED BY <2>1, <2>2
  <1>8. QED BY <1>5, <1>7

(* A goroutine goes on with its request, or leaves it, without a change of *)
(* what the database and the keys say.                                     *)
Carries(o, r) ==
  /\ r.pc \in Done /\ r.outcome.kind = "ok" /\ r.req.route = "write" =>
       o.pc \in Done /\ o.outcome = r.outcome /\ o.req = r.req
  /\ Holds(r) =>
       /\ Holds(o) /\ r.req = o.req
       /\ o.pc \in Done =>
            r.pc \in Done /\ (r.outcome = Refused("stale") => o.outcome = Refused("stale"))

LEMMA RequestingStep ==
  ASSUME RequestsInv, Watch, serving' \in [Slots -> Serving],
         policy' \in [Routes -> SUBSET Callers], granted' \subseteq Tenants,
         \A s \in Slots : \/ serving'[s] = serving[s]
                          \/ serving'[s] # Idle => SoundRequest(serving'[s], seen'[s])
  PROVE  Requesting' /\ seen' \in [Slots -> Seen]
  <1>1. TypeOK /\ Requesting
    BY DEF RequestsInv
  <1>2. ASSUME NEW s \in Slots, serving'[s] = serving[s], serving[s] # Idle
        PROVE  SoundRequest(serving'[s], seen'[s])
    BY <1>1, <1>2, Watched, SoundGrows DEF Requesting
  <1>3. QED BY <1>1, <1>2, Watched DEF Requesting

LEMMA InternalStep ==
  ASSUME RequestsInv, Watch, serving' \in [Slots -> Serving],
         policy' \in [Routes -> SUBSET Callers],
         budget' \in [{"sends", "faults", "changes"} -> Nat],
         UNCHANGED <<database, record, history, answers>>,
         \A s \in Slots :
           \/ serving'[s] = serving[s]
           \/ /\ serving'[s] # Idle => SoundRequest(serving'[s], seen'[s])
              /\ Carries(serving[s], serving'[s])
  PROVE  RequestsInv'
  <1> USE DEF RequestsInv
  <1>1. UNCHANGED <<version, granted, record, applied, lapsed, answers>>
    BY DEF database, history
  <1>2. granted' \subseteq Tenants
    BY <1>1 DEF TypeOK
  <1>3. Requesting' /\ seen' \in [Slots -> Seen]
    BY <1>2, RequestingStep
  <1>4. TypeOK'
    BY <1>1, <1>3 DEF TypeOK
  <1>5. \A s \in Slots : Carries(serving[s], serving'[s])
    BY DEF Carries
  <1>6. FencedWrites'
    BY <1>1 DEF FencedWrites
  <1>7. SuccessMade'
    <2>1. ASSUME NEW s \in Slots, serving'[s].pc \in Done,
                 serving'[s].outcome.kind = "ok", serving'[s].req.route = "write"
          PROVE  Made(applied, Fingerprint(serving'[s].req), serving'[s].outcome)
      BY <1>5, <2>1 DEF Carries, SuccessMade
    <2>2. QED BY <1>1, <2>1 DEF SuccessMade, Made
  <1>8. KeyHeld'
    BY <1>1, <1>5 DEF KeyHeld, Carries, Unlapsed
  <1>9. FirstTry'
    <2>1. ASSUME NEW w \in applied, Unlapsed(w.req), NEW s \in Slots,
                 Holds(serving'[s]), serving'[s].req.key = w.req.key
          PROVE  serving'[s].pc \in Done /\ serving'[s].outcome # Refused("stale")
      BY <1>5, <2>1 DEF Carries, FirstTry
    <2>2. ASSUME NEW a \in answers, a.outcome = Refused("stale"), ~ a.replayed,
                 Unlapsed(a.req), NEW s \in Slots, Holds(serving'[s])
          PROVE  serving'[s].req.key # a.req.key
      BY <1>5, <2>2 DEF Carries, FirstTry
    <2>3. QED BY <1>1, <2>1, <2>2 DEF FirstTry, Unlapsed
  <1>10. /\ SuccessMeansApplied' /\ RetryLearnsOutcome'
         /\ OnlyAdmitted' /\ TenantConfined'
    BY <1>1 DEF SuccessMeansApplied, RetryLearnsOutcome, OnlyAdmitted, TenantConfined
  <1>11. QED BY <1>3, <1>4, <1>6, <1>7, <1>8, <1>9, <1>10

(* What has been seen of request r in slot s after a step that changes     *)
(* neither policies nor grants.                                            *)
SeenBy(s, r, x) ==
  /\ seen[s].admitted \/ Admits(policy, r.req) => x.admitted
  /\ seen[s].active \/ NavigatesGranted(r.req, granted) => x.active

LEMMA GoesOn ==
  ASSUME RequestsInv, Watch, NEW s \in Slots, NEW r \in Serving, Goes(s, r),
         budget' \in [{"sends", "faults", "changes"} -> Nat],
         UNCHANGED <<database, policy, record, history, answers>>,
         r # Idle => \A x : SeenBy(s, r, x) => SoundRequest(r, x),
         Carries(serving[s], r)
  PROVE  RequestsInv'
  <1>1. /\ serving \in [Slots -> Serving] /\ policy' \in [Routes -> SUBSET Callers]
        /\ granted' \subseteq Tenants /\ UNCHANGED <<granted, policy>>
    BY DEF RequestsInv, TypeOK, database
  <1>2. serving' \in [Slots -> Serving] /\ serving'[s] = r
        /\ \A t \in Slots \ {s} : serving'[t] = serving[t]
    BY <1>1 DEF Goes
  <1>3. r # Idle => SeenBy(s, r, seen'[s])
    BY <1>1, <1>2, Watched DEF RequestsInv, SeenBy
  <1>4. r # Idle => SoundRequest(r, seen'[s])
    BY <1>3
  <1>5. \A t \in Slots :
           \/ serving'[t] = serving[t]
           \/ /\ serving'[t] # Idle => SoundRequest(serving'[t], seen'[t])
              /\ Carries(serving[t], serving'[t])
    BY <1>2, <1>4
  <1>6. QED BY <1>1, <1>2, <1>5, InternalStep

LEMMA Aborted ==
  ASSUME RequestsInv, Watch, NEW s \in Slots, NEW kind \in Refusals \ {"stale"}, Abort(s, kind),
         budget' \in [{"sends", "faults", "changes"} -> Nat],
         UNCHANGED <<database, policy, record, history>>
  PROVE  RequestsInv'
  <1>1. Goes(s, Idle) /\ UNCHANGED answers
    BY DEF Abort, Reply, Refused, Refusals
  <1>2. Carries(serving[s], Idle)
    BY DEF Carries, Idle, Holds, Past, Done
  <1>3. UNCHANGED <<database, policy, record, history, answers>>
    BY <1>1
  <1>4. QED BY <1>1, <1>2, <1>3, ServedServing, GoesOn

LEMMA Budgeted ==
  ASSUME TypeOK, NEW s, NEW bound \in {"sends", "faults", "changes"},
         Spend(bound) \/ Fails(s) \/ UNCHANGED budget
  PROVE  budget' \in [{"sends", "faults", "changes"} -> Nat]
  BY DEF TypeOK, Spend, Fails

(* The request a slot serves, with its fields.                             *)
LEMMA InSlot ==
  ASSUME RequestsInv, NEW s \in Slots, serving[s].pc # "idle"
  PROVE  /\ serving[s] \in Served /\ SoundRequest(serving[s], seen[s])
         /\ serving[s].req \in Request
  <1>1. serving[s] \in Serving
    BY DEF RequestsInv, TypeOK
  <1>2. serving[s] # Idle /\ serving[s] \in Served
    BY <1>1, ServingShape
  <1>3. QED BY <1>2 DEF RequestsInv, Requesting, Served

-----------------------------------------------------------------------------
LEMMA SendStep ==
  ASSUME RequestsInv, Watch, NEW s \in Slots, NEW q \in Inputs, Send(s, q)
  PROVE  RequestsInv'
  <1> DEFINE r == [pc |-> Chain[q.api][1], req |-> q, owner |-> FALSE, platform |-> FALSE,
                   cancelled |-> FALSE, outcome |-> Refused("lost")]
  <1>1. q \in Request
    BY RequestsAssumption
  <1>2. r.pc = "key" /\ r \in Serving
    <2>1. Chain[q.api][1] = "key"
      BY <1>1, ChainStarts DEF Request
    <2>2. Refused("lost") \in Outcome
      BY RefusalOutcomes DEF Refusals
    <2>3. r \in Served
      BY <1>1, <2>1, <2>2 DEF Served, Pcs
    <2>4. QED BY <2>1, <2>3, ServedServing
  <1>3. \A x : SoundRequest(r, x)
    BY <1>2 DEF SoundRequest, Holds, Past, Done
  <1>4. Carries(serving[s], r)
    BY <1>2 DEF Carries, Holds, Past, Done
  <1>5. budget' \in [{"sends", "faults", "changes"} -> Nat]
    BY Budgeted DEF Send, RequestsInv
  <1>6. Goes(s, r) /\ UNCHANGED <<database, policy, record, history, answers>>
    BY DEF Send
  <1> HIDE DEF r
  <1>7. QED BY <1>2, <1>3, <1>4, <1>5, <1>6, GoesOn

(* A step of the chain that changes nothing but the place in it.           *)
LEMMA PassStep ==
  ASSUME RequestsInv, Watch, NEW s \in Slots,
         serving[s].pc \in {"key", "limit", "authenticate", "limitUser", "idempotency"},
         serving[s].pc = "key" => serving[s].req.key # BadKey,
         serving[s].pc = "idempotency" => ~ Keyed(serving[s].req),
         Pass(s), UNCHANGED <<database, policy, record, budget, history, answers>>
  PROVE  RequestsInv'
  <1> DEFINE o == serving[s]
             r == [o EXCEPT !.pc = After(o.req.api, o.pc)]
  <1>1. o \in Served /\ SoundRequest(o, seen[s]) /\ o.req \in Request
    BY InSlot
  <1>2. o.req.api \in {"http", "grpc"}
    BY <1>1 DEF Request
  <1>3. /\ o.pc = "key" => After(o.req.api, o.pc) \in {"limit", "authenticate"}
        /\ o.pc = "key" /\ o.req.api = "grpc" => After(o.req.api, o.pc) = "authenticate"
        /\ o.pc = "limit" => After(o.req.api, o.pc) = "authenticate"
        /\ o.pc = "authenticate" => After(o.req.api, o.pc) = "authorize"
        /\ o.pc = "limitUser" => After(o.req.api, o.pc) = "idempotency"
        /\ o.pc = "idempotency" => After(o.req.api, o.pc) = "handler"
    BY <1>1, <1>2, ChainSteps DEF SoundRequest
  <1> DEFINE next == After(o.req.api, o.pc)
  <1>4. next \in {"limit", "authenticate", "authorize", "idempotency", "handler"}
    BY <1>3
  <1>5. /\ r \in Serving /\ r.pc = next /\ r.req = o.req /\ r.owner = o.owner
        /\ r.platform = o.platform /\ r.outcome = o.outcome
    <2> HIDE DEF next
    <2>1. next \in Pcs
      BY <1>4 DEF Pcs
    <2>2. r = [o EXCEPT !.pc = next]
      BY DEF next
    <2> HIDE DEF r, o
    <2>3. QED BY <1>1, <2>1, <2>2, ServedServing DEF Served
  <1> HIDE DEF next, r
  <1>6. ASSUME NEW x, SeenBy(s, r, x)
        PROVE  SoundRequest(r, x)
    BY <1>1, <1>2, <1>3, <1>4, <1>5, <1>6 DEF SoundRequest, SeenBy, Holds, Past, Done, next
  <1>7. Carries(serving[s], r)
    BY <1>1, <1>3, <1>4, <1>5 DEF Carries, Holds, Past, Done, SoundRequest, next
  <1>8. budget' \in [{"sends", "faults", "changes"} -> Nat]
    BY DEF RequestsInv, TypeOK
  <1>9. Goes(s, r)
    BY DEF Pass, r
  <1>10. QED BY <1>5, <1>6, <1>7, <1>8, <1>9, GoesOn

LEMMA IdempotencyKeyStep ==
  ASSUME RequestsInv, Watch, NEW s \in Slots, IdempotencyKey(s)
  PROVE  RequestsInv'
  <1>1. /\ serving[s].pc = "key" /\ UNCHANGED <<database, policy, record, budget, history>>
        /\ \/ Abort(s, "invalid")
           \/ serving[s].req.key # BadKey /\ Pass(s) /\ UNCHANGED answers
    BY DEF IdempotencyKey, At, ValidKey
  <1>2. budget' \in [{"sends", "faults", "changes"} -> Nat]
    BY <1>1 DEF RequestsInv, TypeOK
  <1>3. CASE Abort(s, "invalid")
    BY <1>1, <1>2, <1>3, Aborted DEF Refusals
  <1>4. CASE serving[s].req.key # BadKey /\ Pass(s) /\ UNCHANGED answers
    BY <1>1, <1>4, PassStep
  <1>5. QED BY <1>1, <1>3, <1>4

LEMMA RateLimitStep ==
  ASSUME RequestsInv, Watch, NEW s \in Slots, RateLimit(s)
  PROVE  RequestsInv'
  <1>1. /\ serving[s].pc \in {"limit", "limitUser"}
        /\ UNCHANGED <<database, policy, record, history>>
        /\ \/ Pass(s) /\ UNCHANGED <<answers, budget>>
           \/ Abort(s, "limited") /\ Spend("faults")
           \/ Abort(s, "unavailable") /\ Fails(s)
    BY DEF RateLimit, At
  <1>2. budget' \in [{"sends", "faults", "changes"} -> Nat]
    BY <1>1, Budgeted DEF RequestsInv
  <1>3. CASE Pass(s) /\ UNCHANGED <<answers, budget>>
    BY <1>1, <1>3, PassStep
  <1>4. CASE Abort(s, "limited") \/ Abort(s, "unavailable")
    BY <1>1, <1>2, <1>4, Aborted DEF Refusals
  <1>5. QED BY <1>1, <1>3, <1>4

LEMMA DatabaseAuthenticationStep ==
  ASSUME RequestsInv, Watch, NEW s \in Slots, DatabaseAuthentication(s)
  PROVE  RequestsInv'
  <1>1. /\ serving[s].pc = "authenticate"
        /\ UNCHANGED <<database, policy, record, budget, history>>
        /\ Abort(s, "unauthorized") \/ (Pass(s) /\ UNCHANGED answers)
    BY DEF DatabaseAuthentication, At
  <1>2. budget' \in [{"sends", "faults", "changes"} -> Nat]
    BY <1>1 DEF RequestsInv, TypeOK
  <1>3. CASE Abort(s, "unauthorized")
    BY <1>1, <1>2, <1>3, Aborted DEF Refusals
  <1>4. CASE Pass(s) /\ UNCHANGED answers
    BY <1>1, <1>4, PassStep
  <1>5. QED BY <1>1, <1>3, <1>4

LEMMA DatabaseAuthorizationStep ==
  ASSUME RequestsInv, Watch, NEW s \in Slots, DatabaseAuthorization(s)
  PROVE  RequestsInv'
  <1> DEFINE o == serving[s]
             next == After(o.req.api, "authorize")
             marks == MarksPlatform(o.req)
             r == [o EXCEPT !.pc = next, !.platform = marks]
  <1>1. /\ o.pc = "authorize" /\ UNCHANGED <<database, policy, record, history>>
        /\ \/ Abort(s, "forbidden") /\ UNCHANGED budget
           \/ Abort(s, "unavailable") /\ Fails(s)
           \/ Admits(policy, o.req) /\ Goes(s, r) /\ UNCHANGED <<answers, budget>>
    BY DEF DatabaseAuthorization, At
  <1>2. budget' \in [{"sends", "faults", "changes"} -> Nat]
    BY <1>1, Budgeted DEF RequestsInv
  <1>3. CASE Abort(s, "forbidden") \/ Abort(s, "unavailable")
    BY <1>1, <1>2, <1>3, Aborted DEF Refusals
  <1>4. CASE Admits(policy, o.req) /\ Goes(s, r) /\ UNCHANGED <<answers, budget>>
    <2>1. o \in Served /\ SoundRequest(o, seen[s]) /\ o.req \in Request
      BY <1>1, InSlot
    <2>2. next \in {"limitUser", "idempotency"}
      BY <2>1, ChainSteps DEF Request
    <2>3. next \in Pcs
      BY <2>2 DEF Pcs
    <2>4. marks \in BOOLEAN /\ (marks => o.req.route = "write")
      BY <2>1 DEF Request, Routes, MarksPlatform, platformAdministrationRoute,
                  platformAdministrationMethod
    <2> HIDE DEF next, marks
    <2>5. /\ r \in Served /\ r.pc = next /\ r.req = o.req /\ r.owner = o.owner
          /\ r.platform = marks /\ r.outcome = o.outcome
      <3> HIDE DEF o
      <3>1. QED BY <2>1, <2>3, <2>4 DEF Served
    <2> HIDE DEF r
    <2>6. ASSUME NEW x, SeenBy(s, r, x)
          PROVE  SoundRequest(r, x)
      <3>1. x.admitted /\ ~ Holds(o) /\ ~ Holds(r)
        BY <1>1, <1>4, <2>2, <2>5, <2>6 DEF SeenBy, Holds, Past, Done
      <3>2. r.pc = "limitUser" => r.req.api = "http"
        <4>1. o.req.api = "grpc" => next = "idempotency"
          BY ChainSteps DEF next
        <4>2. QED BY <2>1, <2>5, <4>1 DEF Request
      <3>3. QED BY <1>1, <2>1, <2>2, <2>4, <2>5, <3>1, <3>2 DEF SoundRequest, Past, Done
    <2>7. Carries(serving[s], r)
      BY <2>2, <2>5 DEF Carries, Holds, Past, Done
    <2>8. r \in Serving
      BY <2>5, ServedServing
    <2>9. QED BY <1>1, <1>2, <1>4, <2>6, <2>7, <2>8, GoesOn
  <1>5. QED BY <1>1, <1>3, <1>4

(* The handler goes on, or returns an outcome.                             *)
LEMMA HandlerStep ==
  ASSUME RequestsInv, Watch, NEW s \in Slots, NEW pc \in Pcs, NEW outcome \in Outcome,
         serving[s].pc \in Past \ {"persist"}, pc \in Past,
         Goes(s, [serving[s] EXCEPT !.pc = pc, !.outcome = outcome]),
         budget' \in [{"sends", "faults", "changes"} -> Nat],
         UNCHANGED <<database, policy, record, history, answers>>,
         serving[s].pc \in Done => pc \in Done,
         pc \notin Done => outcome = serving[s].outcome,
         pc \in {"commit", "log", "security"} => serving[s].req.route = "write",
         pc \in Done /\ outcome.kind \in {"ok", "stale"} =>
           \/ serving[s].pc \in Done /\ serving[s].req.route = "write"
                /\ serving[s].outcome = outcome
           \/ serving[s].pc \notin Done /\ outcome.kind = "stale"
           \/ serving[s].req.route # "write",
         pc = "persist" /\ outcome.kind = "ok" /\ serving[s].req.route # "write"
           /\ serving[s].req.caller \in Tenants =>
             /\ outcome.tenant = serving[s].req.caller
             /\ serving[s].req.route = "navigation" => seen[s].active,
         pc = "read" =>
           /\ serving[s].req.route # "write"
           /\ serving[s].req.route = "navigation" /\ serving[s].req.caller \in Tenants =>
                seen[s].active \/ NavigatesGranted(serving[s].req, granted)
           /\ serving[s].req.route = "check" /\ serving[s].req.caller \in Tenants =>
                serving[s].req.target = serving[s].req.caller
  PROVE  RequestsInv'
  <1> DEFINE o == serving[s]
             r == [o EXCEPT !.pc = pc, !.outcome = outcome]
  <1>1. o \in Served /\ SoundRequest(o, seen[s]) /\ o.req \in Request
    BY InSlot DEF Past, Done
  <1>2. /\ r \in Serving /\ r.pc = pc /\ r.outcome = outcome /\ r.req = o.req
        /\ r.owner = o.owner /\ r.platform = o.platform
    <2>1. r = [o EXCEPT !.pc = pc, !.outcome = outcome]
      OBVIOUS
    <2> HIDE DEF r, o
    <2>2. QED BY <1>1, <2>1, ServedServing DEF Served
  <1>3. Goes(s, r)
    OBVIOUS
  <1>4. Holds(r) <=> Holds(o)
    BY <1>2 DEF Holds
  <1> HIDE DEF r
  <1>5. ASSUME NEW x, SeenBy(s, r, x)
        PROVE  SoundRequest(r, x)
    <2>1. /\ seen[s].admitted => x.admitted
          /\ seen[s].active \/ NavigatesGranted(o.req, granted) => x.active
      BY <1>2, <1>5 DEF SeenBy
    <2>2. x.admitted /\ r.req.key # BadKey /\ r.pc \notin {"limit", "limitUser"}
      BY <1>1, <1>2, <2>1 DEF SoundRequest, Past, Done
    <2>3. (r.owner <=> Holds(r)) /\ (r.platform => r.req.route = "write")
      BY <1>1, <1>2, <1>4 DEF SoundRequest
    <2>4. r.pc \notin Done => r.outcome = Refused("lost")
      BY <1>1, <1>2 DEF SoundRequest
    <2>5. QED BY <1>2, <2>1, <2>2, <2>3, <2>4 DEF SoundRequest
  <1>6. Carries(serving[s], r)
    <2>1. Holds(r) => r.req.route = "write"
      BY DEF Holds, Keyed, IdempotentPath
    <2>2. Refused("stale").kind = "stale"
      BY DEF Refused
    <2>3. QED BY <1>2, <1>4, <2>1, <2>2 DEF Carries
  <1>7. QED BY <1>2, <1>3, <1>5, <1>6, GoesOn

(* A handler returns a refusal that is not of the fence.                   *)
LEMMA Refuses ==
  ASSUME RequestsInv, Watch, NEW s \in Slots, NEW kind \in Refusals \ {"stale"},
         serving[s].pc \in {"handler", "read", "security"}, Returns(s, Refused(kind)),
         budget' \in [{"sends", "faults", "changes"} -> Nat],
         UNCHANGED <<database, policy, record, history, answers>>
  PROVE  RequestsInv'
  <1>1. Refused(kind) \in Outcome /\ Refused(kind).kind \notin {"ok", "stale"}
    BY RefusalOutcomes DEF Refusals
  <1>2. serving[s].pc \in Past \ {"persist"} /\ "persist" \in Past \cap Done \cap Pcs
    BY DEF Past, Done, Pcs
  <1>3. Goes(s, [serving[s] EXCEPT !.pc = "persist", !.outcome = Refused(kind)])
    BY DEF Returns
  <1> DEFINE outcome == Refused(kind)
  <1> HIDE DEF outcome
  <1>4. outcome \in Outcome /\ outcome.kind \notin {"ok", "stale"}
        /\ Goes(s, [serving[s] EXCEPT !.pc = "persist", !.outcome = outcome])
    BY <1>1, <1>3 DEF outcome
  <1>5. QED BY <1>2, <1>4, HandlerStep

(* A handler goes to its next access to the database.                      *)
LEMMA MovesOn ==
  ASSUME NEW o \in Served, NEW pc
  PROVE  /\ [o EXCEPT !.pc = pc] = [o EXCEPT !.pc = pc, !.outcome = o.outcome]
         /\ o.outcome \in Outcome
  BY DEF Served

LEMMA StartCommandStep ==
  ASSUME RequestsInv, Watch, NEW s \in Slots, StartCommand(s)
  PROVE  RequestsInv'
  <1> DEFINE o == serving[s]
  <1>1. /\ o.pc = "handler" /\ o.req.route = "write"
        /\ UNCHANGED <<database, policy, record, history, answers>>
        /\ \/ /\ Rejection(o) # "none"
              /\ Returns(s, Refused(Rejection(o))) /\ UNCHANGED budget
           \/ Returns(s, Refused("internal")) /\ Fails(s)
           \/ Goes(s, [o EXCEPT !.pc = "commit"]) /\ UNCHANGED budget
    BY DEF StartCommand, At
  <1>2. budget' \in [{"sends", "faults", "changes"} -> Nat]
    BY <1>1, Budgeted DEF RequestsInv
  <1>3. CASE Rejection(o) # "none" /\ Returns(s, Refused(Rejection(o)))
    <2>1. Rejection(o) \in {"none", "unauthorized", "forbidden", "invalid"}
      BY DEF Rejection
    <2>2. Rejection(o) \in Refusals \ {"stale"}
      BY <1>3, <2>1 DEF Refusals
    <2>3. QED BY <1>1, <1>2, <1>3, <2>2, Refuses
  <1>4. CASE Returns(s, Refused("internal"))
    BY <1>1, <1>2, <1>4, Refuses DEF Refusals
  <1>5. CASE Goes(s, [o EXCEPT !.pc = "commit"])
    <2>1. o \in Served
      BY <1>1, InSlot
    <2>2. Goes(s, [o EXCEPT !.pc = "commit", !.outcome = o.outcome]) /\ o.outcome \in Outcome
      BY <1>5, <2>1, MovesOn
    <2>3. "commit" \in Past \cap Pcs /\ "commit" \notin Done
          /\ o.pc \in Past \ {"persist"} /\ o.pc \notin Done
      BY <1>1 DEF Past, Done, Pcs
    <2>4. QED BY <1>1, <1>2, <2>2, <2>3, HandlerStep
  <1>6. QED BY <1>1, <1>3, <1>4, <1>5

LEMMA recordOperationStep ==
  ASSUME RequestsInv, Watch, NEW s \in Slots, recordOperation(s)
  PROVE  RequestsInv'
  <1> DEFINE o == serving[s]
             next == IF o.req.target = App THEN "persist" ELSE "security"
             outcome == Refused("unavailable")
  <1>1. /\ o.pc = "log" /\ UNCHANGED <<database, policy, record, history, answers>>
        /\ \/ Goes(s, [o EXCEPT !.pc = next]) /\ UNCHANGED budget
           \/ Goes(s, [o EXCEPT !.pc = next, !.outcome = outcome]) /\ Fails(s)
    BY DEF recordOperation, At
  <1>2. budget' \in [{"sends", "faults", "changes"} -> Nat]
    BY <1>1, Budgeted DEF RequestsInv
  <1>3. /\ next \in Past \cap Pcs \cap Done /\ next # "read"
        /\ o.pc \in Past \ {"persist"} /\ o.pc \in Done
    BY <1>1 DEF Past, Done, Pcs
  <1>4. o \in Served /\ o.req.route = "write"
    BY <1>1, InSlot DEF SoundRequest
  <1>5. outcome \in Outcome /\ outcome.kind \notin {"ok", "stale"}
    BY RefusalOutcomes DEF Refusals
  <1> HIDE DEF next, outcome
  <1>6. CASE Goes(s, [o EXCEPT !.pc = next])
    <2>1. Goes(s, [o EXCEPT !.pc = next, !.outcome = o.outcome]) /\ o.outcome \in Outcome
      BY <1>4, <1>6, MovesOn
    <2>2. QED BY <1>1, <1>2, <1>3, <1>4, <2>1, HandlerStep
  <1>7. CASE Goes(s, [o EXCEPT !.pc = next, !.outcome = outcome])
    BY <1>1, <1>2, <1>3, <1>4, <1>5, <1>7, HandlerStep
  <1>8. QED BY <1>1, <1>6, <1>7

LEMMA recordSecurityStep ==
  ASSUME RequestsInv, Watch, NEW s \in Slots, recordSecurity(s)
  PROVE  RequestsInv'
  <1> DEFINE o == serving[s]
  <1>1. /\ o.pc = "security" /\ UNCHANGED <<database, policy, record, history, answers>>
        /\ \/ Returns(s, o.outcome) /\ UNCHANGED budget
           \/ Returns(s, Refused("unavailable")) /\ Fails(s)
    BY DEF recordSecurity, At
  <1>2. budget' \in [{"sends", "faults", "changes"} -> Nat]
    BY <1>1, Budgeted DEF RequestsInv
  <1>3. CASE Returns(s, o.outcome)
    <2>1. o \in Served /\ o.req.route = "write" /\ o.outcome \in Outcome
      BY <1>1, InSlot DEF SoundRequest, Served
    <2>2. /\ "persist" \in Past \cap Pcs \cap Done
          /\ o.pc \in Past \ {"persist"} /\ o.pc \in Done
      BY <1>1 DEF Past, Done, Pcs
    <2>3. Goes(s, [o EXCEPT !.pc = "persist", !.outcome = o.outcome])
      BY <1>3 DEF Returns
    <2>4. QED BY <1>1, <1>2, <2>1, <2>2, <2>3, HandlerStep
  <1>4. CASE Returns(s, Refused("unavailable"))
    BY <1>1, <1>2, <1>4, Refuses DEF Refusals
  <1>5. QED BY <1>1, <1>3, <1>4

(* The tenant that is checked or navigated is the caller's own.            *)
LEMMA CheckTenantStep ==
  ASSUME RequestsInv, Watch, NEW s \in Slots, CheckTenant(s)
  PROVE  RequestsInv'
  <1> DEFINE o == serving[s]
             q == o.req
  <1>1. /\ o.pc = "handler" /\ q.route # "write"
        /\ UNCHANGED <<database, policy, record, history, answers>>
        /\ \/ Returns(s, Refused("unauthorized")) /\ UNCHANGED budget
           \/ Returns(s, Refused("internal")) /\ Fails(s)
           \/ Returns(s, Refused("forbidden")) /\ UNCHANGED budget
           \/ /\ q.route = "navigation" /\ (UserScoped(q) => q.caller \in granted)
              /\ Goes(s, [o EXCEPT !.pc = "read"]) /\ UNCHANGED budget
           \/ /\ q.route = "check" /\ AuthorizesTenant(o, q.target)
              /\ Goes(s, [o EXCEPT !.pc = "read"]) /\ UNCHANGED budget
    BY DEF CheckTenant, At
  <1>2. budget' \in [{"sends", "faults", "changes"} -> Nat]
    BY <1>1, Budgeted DEF RequestsInv
  <1>3. CASE \/ Returns(s, Refused("unauthorized")) \/ Returns(s, Refused("internal"))
             \/ Returns(s, Refused("forbidden"))
    BY <1>1, <1>2, <1>3, Refuses DEF Refusals
  <1>4. CASE /\ Goes(s, [o EXCEPT !.pc = "read"])
             /\ \/ q.route = "navigation" /\ (UserScoped(q) => q.caller \in granted)
                \/ q.route = "check" /\ AuthorizesTenant(o, q.target)
    <2>1. o \in Served /\ SoundRequest(o, seen[s])
      BY <1>1, InSlot
    <2>2. Goes(s, [o EXCEPT !.pc = "read", !.outcome = o.outcome]) /\ o.outcome \in Outcome
      BY <1>4, <2>1, MovesOn
    <2>3. "read" \in Past \cap Pcs /\ "read" \notin Done
          /\ o.pc \in Past \ {"persist"} /\ o.pc \notin Done
      BY <1>1 DEF Past, Done, Pcs
    <2>4. q.route = "navigation" /\ q.caller \in Tenants =>
            seen[s].active \/ NavigatesGranted(q, granted)
      BY <1>4 DEF UserScoped, NavigatesGranted
    <2>5. q.route = "check" /\ q.caller \in Tenants => q.target = q.caller
      BY <1>1, <1>4, <2>1, RequestsAssumption DEF AuthorizesTenant, SoundRequest
    <2>6. QED BY <1>1, <1>2, <2>2, <2>3, <2>4, <2>5, HandlerStep
  <1>5. QED BY <1>1, <1>3, <1>4

LEMMA ReadStep ==
  ASSUME RequestsInv, Watch, NEW s \in Slots, Read(s)
  PROVE  RequestsInv'
  <1> DEFINE o == serving[s]
             q == o.req
             navigation == [kind |-> "ok", version |-> version[App],
                            tenant |-> IF UserScoped(q) THEN q.caller ELSE App]
             check == [kind |-> "ok", version |-> IF q.target \in granted THEN 1 ELSE 0,
                       tenant |-> q.target]
  <1>1. /\ o.pc = "read" /\ UNCHANGED <<database, policy, record, history, answers>>
        /\ \/ Returns(s, Refused("internal")) /\ Fails(s)
           \/ q.route = "navigation" /\ Returns(s, navigation) /\ UNCHANGED budget
           \/ q.route = "check" /\ Returns(s, check) /\ UNCHANGED budget
    BY DEF Read, At
  <1>2. budget' \in [{"sends", "faults", "changes"} -> Nat]
    BY <1>1, Budgeted DEF RequestsInv
  <1>3. /\ SoundRequest(o, seen[s]) /\ q \in Request
        /\ "persist" \in Past \cap Done \cap Pcs /\ o.pc \in Past \ {"persist"}
    BY <1>1, InSlot DEF Past, Done, Pcs
  <1>4. navigation \in Outcome /\ check \in Outcome
    <2>1. version[App] \in Nat
      BY DEF RequestsInv, TypeOK, Targets
    <2>2. (IF UserScoped(q) THEN q.caller ELSE App) \in Targets
      BY DEF UserScoped, Targets
    <2>3. (IF q.target \in granted THEN 1 ELSE 0) \in Nat /\ q.target \in Targets
      BY <1>3 DEF Request
    <2>4. QED BY <2>1, <2>2, <2>3 DEF Outcome
  <1>5. CASE Returns(s, Refused("internal"))
    BY <1>1, <1>2, <1>5, Refuses DEF Refusals
  <1>6. CASE q.route = "navigation" /\ Returns(s, navigation)
    <2>1. q.caller \in Tenants => navigation.tenant = q.caller /\ seen[s].active
      BY <1>1, <1>3, <1>6 DEF SoundRequest, UserScoped
    <2>2. Goes(s, [o EXCEPT !.pc = "persist", !.outcome = navigation])
      BY <1>6 DEF Returns
    <2> HIDE DEF navigation
    <2>3. QED BY <1>1, <1>2, <1>3, <1>4, <1>6, <2>1, <2>2, HandlerStep
  <1>7. CASE q.route = "check" /\ Returns(s, check)
    <2>1. q.caller \in Tenants => check.tenant = q.caller
      BY <1>1, <1>3, <1>7 DEF SoundRequest
    <2>2. Goes(s, [o EXCEPT !.pc = "persist", !.outcome = check])
      BY <1>7 DEF Returns
    <2> HIDE DEF check
    <2>3. QED BY <1>1, <1>2, <1>3, <1>4, <1>7, <2>1, <2>2, HandlerStep
  <1>8. QED BY <1>1, <1>5, <1>6, <1>7

LEMMA CancelStep ==
  ASSUME RequestsInv, Watch, NEW s \in Slots, Cancel(s)
  PROVE  RequestsInv'
  <1> DEFINE o == serving[s]
             r == [o EXCEPT !.cancelled = TRUE]
  <1>1. o \in Served /\ SoundRequest(o, seen[s])
    BY InSlot DEF Cancel, At
  <1>2. /\ r \in Serving /\ r.pc = o.pc /\ r.outcome = o.outcome /\ r.req = o.req
        /\ r.owner = o.owner /\ r.platform = o.platform
    <2> HIDE DEF o
    <2>1. QED BY <1>1, ServedServing DEF Served
  <1>3. Goes(s, r) /\ UNCHANGED <<database, policy, record, history, answers>>
    BY DEF Cancel
  <1>4. budget' \in [{"sends", "faults", "changes"} -> Nat]
    BY Budgeted DEF RequestsInv, Cancel
  <1> HIDE DEF r
  <1>5. ASSUME NEW x, SeenBy(s, r, x)
        PROVE  SoundRequest(r, x)
    <2>1. (seen[s].admitted => x.admitted) /\ (seen[s].active => x.active)
      BY <1>5 DEF SeenBy
    <2>2. QED BY <1>1, <1>2, <2>1 DEF SoundRequest, Holds
  <1>6. Carries(o, r)
    BY <1>2 DEF Carries, Holds
  <1>7. QED BY <1>2, <1>3, <1>4, <1>5, <1>6, GoesOn

LEMMA PanicStep ==
  ASSUME RequestsInv, Watch, NEW s \in Slots, Panic(s)
  PROVE  RequestsInv'
  <1>1. PICK kind \in {"internal", "lost"} : Reply(s, Refused(kind), FALSE)
    BY DEF Panic
  <1>2. Abort(s, kind) /\ kind \in Refusals \ {"stale"}
    BY <1>1 DEF Abort, Refusals
  <1>3. /\ UNCHANGED <<database, policy, record, history>>
        /\ budget' \in [{"sends", "faults", "changes"} -> Nat]
    BY Budgeted DEF RequestsInv, Panic
  <1>4. QED BY <1>2, <1>3, Aborted

LEMMA ChangePolicyStep ==
  ASSUME RequestsInv, Watch, NEW p \in Policies, ChangePolicy(p[1], p[2])
  PROVE  RequestsInv'
  <1>1. /\ policy' = [policy EXCEPT ![p[1]] = p[2]] /\ serving' = serving
        /\ UNCHANGED <<database, record, history, answers>>
    BY DEF ChangePolicy
  <1>2. p[1] \in Routes /\ p[2] \in SUBSET Callers
    BY RequestsAssumption
  <1>3. policy' \in [Routes -> SUBSET Callers] /\ serving' \in [Slots -> Serving]
    BY <1>1, <1>2 DEF RequestsInv, TypeOK
  <1>4. budget' \in [{"sends", "faults", "changes"} -> Nat]
    BY Budgeted DEF RequestsInv, ChangePolicy
  <1>5. QED BY <1>1, <1>3, <1>4, InternalStep

-----------------------------------------------------------------------------
(* A key of Keys counts.                                                   *)
LEMMA UnlapsedKeyed == \A q : Unlapsed(q) => Keyed(q)
  BY RequestsAssumption DEF Unlapsed, Keyed

(* A write in the request's own key is kept from every other request.      *)
LEMMA OwnKey ==
  ASSUME RequestsInv, NEW s \in Slots, Holds(serving[s])
  PROVE  /\ serving[s].req.key \in Keys /\ serving[s].req.route = "write"
         /\ Unlapsed(serving[s].req) =>
              /\ record[serving[s].req.key].state = "processing"
              /\ \A t \in Slots \ {s} : Holds(serving[t]) =>
                   serving[t].req.key # serving[s].req.key
  <1>1. /\ serving[s].pc \in Past /\ Keyed(serving[s].req)
        /\ serving[s].req \in Request /\ SoundRequest(serving[s], seen[s])
    BY InSlot DEF Holds, Past, Done
  <1>2. serving[s].req.key \in Keys /\ serving[s].req.route = "write"
    BY <1>1 DEF Request, Keyed, IdempotentPath, SoundRequest, Past, Done
  <1>3. ASSUME Unlapsed(serving[s].req), NEW t \in Slots \ {s}, Holds(serving[t]),
               serving[t].req.key = serving[s].req.key
        PROVE  FALSE
    <2>1. Unlapsed(serving[t].req)
      BY <1>3 DEF Unlapsed, Holds, Keyed
    <2>2. QED BY <1>3, <2>1 DEF RequestsInv, KeyHeld
  <1>4. QED BY <1>2, <1>3 DEF RequestsInv, KeyHeld

(* A request is answered, and the record of its key taken, kept or left.   *)
LEMMA Answered ==
  ASSUME RequestsInv, Watch, NEW s \in Slots, NEW outcome \in Outcome,
         NEW replayed \in BOOLEAN, serving[s].pc # "idle", Reply(s, outcome, replayed),
         budget' \in [{"sends", "faults", "changes"} -> Nat],
         UNCHANGED <<database, policy, history>>,
         record' \in [Keys -> Record],
         \A k \in Keys : record[k].state # "absent" => record'[k].state # "absent",
         \A t \in Slots \ {s} : Holds(serving[t]) /\ Unlapsed(serving[t].req) =>
           record'[serving[t].req.key] = record[serving[t].req.key],
         \A k \in Keys : record'[k].state = "kept" /\ record'[k].outcome.kind = "ok" =>
           Made(applied, record'[k].print, record'[k].outcome),
         outcome.kind = "ok" => seen[s].admitted,
         outcome.kind = "ok" /\ serving[s].req.route = "write" =>
           Made(applied, Fingerprint(serving[s].req), outcome),
         outcome.kind = "ok" /\ serving[s].req.route # "write"
           /\ serving[s].req.caller \in Tenants =>
             /\ outcome.tenant = serving[s].req.caller
             /\ serving[s].req.route = "navigation" => seen[s].active,
         outcome.kind = "stale" /\ ~ replayed =>
           serving[s].pc = "persist" /\ serving[s].outcome = outcome
  PROVE  RequestsInv'
  <1> DEFINE o == serving[s]
             a == [req |-> o.req, outcome |-> outcome, replayed |-> replayed, seen |-> seen[s]]
  <1> USE DEF RequestsInv
  <1>1. /\ UNCHANGED <<version, granted, policy, applied, lapsed>>
        /\ serving' = [serving EXCEPT ![s] = Idle]
        /\ answers \subseteq answers' /\ answers' \subseteq answers \cup {a}
    BY DEF database, history, Reply, Goes
  <1>2. /\ o \in Served /\ SoundRequest(o, seen[s]) /\ o.req \in Request
        /\ seen[s] \in Seen
    BY InSlot DEF TypeOK
  <1>3. a \in [req : Request, outcome : Outcome, replayed : BOOLEAN, seen : Seen]
        /\ a.req = o.req /\ a.outcome = outcome /\ a.replayed = replayed
        /\ a.seen = seen[s]
    BY <1>2
  <1> HIDE DEF a
  <1>4. serving' \in [Slots -> Serving] /\ serving'[s] = Idle
        /\ \A t \in Slots \ {s} : serving'[t] = serving[t]
    BY <1>1, ServedServing DEF TypeOK
  <1>5. ~ Holds(Idle) /\ Idle.pc \notin Done
    BY DEF Holds, Idle, Past, Done
  <1>6. Requesting' /\ seen' \in [Slots -> Seen]
    <2>1. policy' \in [Routes -> SUBSET Callers] /\ granted' \subseteq Tenants
      BY <1>1 DEF TypeOK
    <2>2. QED BY <1>4, <2>1, RequestingStep
  <1>7. TypeOK'
    BY <1>1, <1>3, <1>4, <1>6 DEF TypeOK
  <1>8. FencedWrites'
    BY <1>1 DEF FencedWrites
  <1>9. SuccessMade'
    <2>1. \A t \in Slots : serving'[t].pc \in Done =>
            serving'[t] = serving[t]
      BY <1>4, <1>5
    <2>2. QED BY <1>1, <2>1 DEF SuccessMade, Made
  <1>10. KeyHeld'
    BY <1>1, <1>4, <1>5 DEF KeyHeld, Unlapsed
  <1>11. ASSUME outcome = Refused("stale"), ~ replayed, Unlapsed(o.req)
         PROVE  /\ record[o.req.key].state # "absent" /\ o.req.key \in Keys
                /\ \A t \in Slots \ {s} : Holds(serving[t]) => serving[t].req.key # o.req.key
                /\ \A w \in applied : w.req # o.req
    <2>1. outcome.kind = "stale"
      BY <1>11, RefusalOutcomes DEF Refusals
    <2>2. Holds(o) /\ o.outcome = Refused("stale")
      BY <1>11, <2>1, UnlapsedKeyed DEF Holds, Past, Done
    <2>3. QED BY <1>11, <2>2, OwnKey DEF FirstTry
  <1>12. FirstTry'
    <2>1. ASSUME NEW w \in applied, Unlapsed(w.req)
          PROVE  /\ record'[w.req.key].state # "absent"
                 /\ \A t \in Slots : Holds(serving'[t]) /\ serving'[t].req.key = w.req.key =>
                      serving'[t].pc \in Done /\ serving'[t].outcome # Refused("stale")
      <3>1. record[w.req.key].state # "absent" /\ w.req.key \in Keys
        BY <2>1 DEF FirstTry, Unlapsed
      <3>2. QED BY <1>4, <1>5, <2>1, <3>1 DEF FirstTry
    <2>2. ASSUME NEW b \in answers, b.outcome = Refused("stale"), ~ b.replayed, Unlapsed(b.req)
          PROVE  /\ record'[b.req.key].state # "absent"
                 /\ \A t \in Slots : Holds(serving'[t]) => serving'[t].req.key # b.req.key
      <3>1. record[b.req.key].state # "absent" /\ b.req.key \in Keys
        BY <2>2 DEF FirstTry, Unlapsed
      <3>2. QED BY <1>4, <1>5, <2>2, <3>1 DEF FirstTry
    <2>3. a.outcome = Refused("stale") /\ ~ a.replayed /\ Unlapsed(a.req) =>
            /\ record'[a.req.key].state # "absent"
            /\ \A t \in Slots : Holds(serving'[t]) => serving'[t].req.key # a.req.key
      BY <1>3, <1>4, <1>5, <1>11
    <2>4. QED BY <1>1, <2>1, <2>2, <2>3 DEF FirstTry, Unlapsed
  <1>13. SuccessMeansApplied'
    <2>1. IsWrite(a) => \E w \in applied :
            SameCommand(w.req, a.req) /\ w.version = a.outcome.version
      BY <1>3 DEF IsWrite, Made, SameCommand, Fingerprint
    <2>2. QED BY <1>1, <2>1 DEF SuccessMeansApplied
  <1>14. RetryLearnsOutcome'
    <2>1. a.outcome = Refused("stale") /\ ~ a.replayed /\ Unlapsed(a.req) =>
            ~ \E w \in applied : w.req = a.req
      BY <1>3, <1>11
    <2>2. QED BY <1>1, <2>1 DEF Unlapsed, RetryLearnsOutcome
  <1>15. OnlyAdmitted'
    BY <1>1, <1>3 DEF OnlyAdmitted
  <1>16. TenantConfined'
    BY <1>1, <1>3 DEF TenantConfined
  <1>17. QED BY <1>6, <1>7, <1>8, <1>9, <1>10, <1>12, <1>13, <1>14, <1>15, <1>16

LEMMA KeepAndAnswerStep ==
  ASSUME RequestsInv, Watch, NEW s \in Slots, KeepAndAnswer(s)
  PROVE  RequestsInv'
  <1> DEFINE o == serving[s]
             kept == [state |-> "kept", print |-> Fingerprint(o.req), outcome |-> o.outcome]
  <1>1. /\ o.pc = "persist" /\ Reply(s, o.outcome, FALSE)
        /\ (o.owner /\ Keeps(s)) \/ UNCHANGED record
        /\ UNCHANGED <<database, policy, history>>
    BY DEF KeepAndAnswer, At
  <1>2. budget' \in [{"sends", "faults", "changes"} -> Nat]
    BY Budgeted DEF RequestsInv, KeepAndAnswer
  <1>3. /\ o \in Served /\ SoundRequest(o, seen[s]) /\ o.outcome \in Outcome
        /\ o.req \in Request /\ record \in [Keys -> Record]
    BY <1>1, InSlot DEF Served, RequestsInv, TypeOK
  <1>4. o.outcome.kind = "ok" /\ o.req.route = "write" =>
          Made(applied, Fingerprint(o.req), o.outcome)
    BY <1>1 DEF RequestsInv, SuccessMade, Done
  <1>5. \/ UNCHANGED record
        \/ /\ Holds(o) /\ o.req.key \in Keys /\ o.req.route = "write" /\ StillOwner(s)
           /\ record' = [record EXCEPT ![o.req.key] = kept]
    <2>1. o.owner => Holds(o)
      BY <1>3 DEF SoundRequest
    <2>2. QED BY <1>1, <2>1, OwnKey DEF Keeps
  <1>6. /\ record' \in [Keys -> Record]
        /\ \A k \in Keys : record'[k] = record[k] \/
             (k = o.req.key /\ record'[k] = kept /\ o.req.route = "write" /\ StillOwner(s))
    <2>1. Fingerprint(o.req) \in Request
      BY <1>3 DEF Fingerprint, Request
    <2>2. kept \in Record
      BY <1>3, <2>1 DEF Record
    <2> HIDE DEF kept
    <2>3. QED BY <1>3, <1>5, <2>2
  <1>7. \A k \in Keys : record[k].state # "absent" => record'[k].state # "absent"
    BY <1>6
  <1>8. \A t \in Slots \ {s} : Holds(serving[t]) /\ Unlapsed(serving[t].req) =>
          record'[serving[t].req.key] = record[serving[t].req.key]
    BY <1>6 DEF StillOwner, RequestsInv, KeyHeld, Unlapsed
  <1>9. \A k \in Keys : record'[k].state = "kept" /\ record'[k].outcome.kind = "ok" =>
          Made(applied, record'[k].print, record'[k].outcome)
    BY <1>4, <1>6 DEF RequestsInv, SuccessMade
  <1>10. o.outcome.kind = "ok" => seen[s].admitted
    BY <1>1, <1>3 DEF SoundRequest, Past, Done
  <1>11. o.outcome.kind = "ok" /\ o.req.route # "write" /\ o.req.caller \in Tenants =>
           /\ o.outcome.tenant = o.req.caller
           /\ o.req.route = "navigation" => seen[s].active
    BY <1>1, <1>3 DEF SoundRequest
  <1>12. QED BY <1>1, <1>2, <1>3, <1>4, <1>6, <1>7, <1>8, <1>9, <1>10, <1>11, Answered

-----------------------------------------------------------------------------
(* A free key is taken for a request: nobody who counts on it held it.     *)
LEMMA Acquired ==
  ASSUME RequestsInv, NEW s \in Slots, serving[s].req \in Request,
         serving[s].req.key \in Keys, Free(serving[s].req.key), Acquires(s)
  PROVE  /\ record' \in [Keys -> Record]
         /\ record'[serving[s].req.key].state = "processing"
         /\ record'[serving[s].req.key].owner = s
         /\ \A k \in Keys \ {serving[s].req.key} : record'[k] = record[k]
         /\ \A t \in Slots : Holds(serving[t]) /\ Unlapsed(serving[t].req) =>
              serving[t].req.key # serving[s].req.key
         /\ \A w \in applied : Unlapsed(w.req) => w.req.key # serving[s].req.key
         /\ \A a \in answers : a.outcome = Refused("stale") /\ ~ a.replayed /\ Unlapsed(a.req)
              => a.req.key # serving[s].req.key
  <1> DEFINE q == serving[s].req
             taken == [state |-> "processing", owner |-> s, print |-> Fingerprint(q)]
  <1>1. record \in [Keys -> Record] /\ record[q.key].state = "absent"
        /\ record' = [record EXCEPT ![q.key] = taken]
    BY DEF RequestsInv, TypeOK, Free, Acquires
  <1>2. taken \in Record /\ taken.state = "processing" /\ taken.owner = s
    <2>1. Fingerprint(q) \in Request
      BY DEF Fingerprint, Request
    <2>2. QED BY <2>1 DEF Record
  <1> HIDE DEF taken
  <1>3. /\ record' \in [Keys -> Record] /\ record'[q.key] = taken
        /\ \A k \in Keys \ {q.key} : record'[k] = record[k]
    BY <1>1, <1>2
  <1>4. \A t \in Slots : Holds(serving[t]) /\ Unlapsed(serving[t].req) =>
          serving[t].req.key # q.key
    BY <1>1 DEF RequestsInv, KeyHeld
  <1>5. /\ \A w \in applied : Unlapsed(w.req) => w.req.key # q.key
        /\ \A a \in answers : a.outcome = Refused("stale") /\ ~ a.replayed /\ Unlapsed(a.req)
             => a.req.key # q.key
    BY <1>1 DEF RequestsInv, FirstTry
  <1>6. QED BY <1>2, <1>3, <1>4, <1>5

(* The owner of a free key runs the handler.                               *)
LEMMA Begun ==
  ASSUME RequestsInv, Watch, NEW s \in Slots, serving[s].pc = "idempotency",
         Keyed(serving[s].req), Free(serving[s].req.key), Acquires(s),
         Goes(s, [serving[s] EXCEPT !.pc = After(serving[s].req.api, "idempotency"),
                                    !.owner = TRUE]),
         UNCHANGED <<database, policy, history, answers, budget>>
  PROVE  RequestsInv'
  <1> DEFINE o == serving[s]
             k == o.req.key
             next == After(o.req.api, "idempotency")
             r == [o EXCEPT !.pc = next, !.owner = TRUE]
  <1> USE DEF RequestsInv
  <1>1. UNCHANGED <<version, granted, policy, applied, lapsed, answers, budget>>
    BY DEF database, history
  <1>2. /\ o \in Served /\ SoundRequest(o, seen[s]) /\ o.req \in Request /\ ~ Holds(o)
    BY InSlot DEF Holds, Past, Done
  <1>3. k \in Keys /\ o.req.route = "write"
    BY <1>2 DEF Keyed, IdempotentPath, SoundRequest, Request
  <1>4. next = "handler"
    BY <1>2, ChainSteps DEF Request
  <1>5. /\ r \in Serving /\ r.pc = "handler" /\ r.req = o.req /\ r.owner = TRUE
        /\ r.platform = o.platform /\ r.outcome = o.outcome
    <2>1. r = [o EXCEPT !.pc = "handler", !.owner = TRUE] /\ "handler" \in Pcs
      BY <1>4 DEF Pcs
    <2> HIDE DEF r, o
    <2>2. QED BY <1>2, <2>1, ServedServing DEF Served
  <1>6. /\ serving' \in [Slots -> Serving] /\ serving'[s] = r
        /\ \A t \in Slots \ {s} : serving'[t] = serving[t]
    <2>1. serving' = [serving EXCEPT ![s] = r]
      BY DEF Goes
    <2> HIDE DEF r
    <2>2. QED BY <1>5, <2>1 DEF TypeOK
  <1> HIDE DEF r
  <1>7. /\ record' \in [Keys -> Record] /\ record'[k].state = "processing"
        /\ record'[k].owner = s /\ \A key \in Keys \ {k} : record'[key] = record[key]
        /\ \A t \in Slots : Holds(serving[t]) /\ Unlapsed(serving[t].req) =>
             serving[t].req.key # k
        /\ \A w \in applied : Unlapsed(w.req) => w.req.key # k
        /\ \A a \in answers : a.outcome = Refused("stale") /\ ~ a.replayed /\ Unlapsed(a.req)
             => a.req.key # k
    BY <1>2, <1>3, Acquired
  <1>8. Requesting' /\ seen' \in [Slots -> Seen]
    <2>1. policy' \in [Routes -> SUBSET Callers] /\ granted' \subseteq Tenants
      BY <1>1 DEF TypeOK
    <2>2. serving'[s] # Idle => SoundRequest(serving'[s], seen'[s])
      <3>1. serving'[s] # Idle /\ (seen[s].admitted => seen'[s].admitted)
        BY <1>5, <1>6, <2>1, Watched DEF Idle
      <3>2. Holds(r)
        BY <1>5 DEF Holds, Past
      <3>3. QED BY <1>2, <1>5, <1>6, <3>1, <3>2 DEF SoundRequest, Done
    <2>3. QED BY <1>6, <2>1, <2>2, RequestingStep
  <1>9. TypeOK'
    BY <1>1, <1>6, <1>7, <1>8 DEF TypeOK
  <1>10. FencedWrites'
    BY <1>1 DEF FencedWrites
  <1>11. SuccessMade'
    <2>1. r.pc \notin Done
      BY <1>5 DEF Done
    <2>2. \A t \in Slots : serving'[t].pc \in Done => serving'[t] = serving[t]
      BY <1>6, <2>1
    <2>3. \A key \in Keys : record'[key].state = "kept" => record'[key] = record[key]
      BY <1>7
    <2>4. QED BY <1>1, <2>2, <2>3 DEF SuccessMade, Made
  <1>12. KeyHeld'
    BY <1>1, <1>5, <1>6, <1>7 DEF KeyHeld, Unlapsed
  <1>13. FirstTry'
    <2>1. ASSUME NEW w \in applied, Unlapsed(w.req)
          PROVE  /\ record'[w.req.key].state # "absent"
                 /\ \A t \in Slots : Holds(serving'[t]) /\ serving'[t].req.key = w.req.key =>
                      serving'[t].pc \in Done /\ serving'[t].outcome # Refused("stale")
      BY <1>5, <1>6, <1>7, <2>1 DEF FirstTry, Unlapsed
    <2>2. ASSUME NEW b \in answers, b.outcome = Refused("stale"), ~ b.replayed, Unlapsed(b.req)
          PROVE  /\ record'[b.req.key].state # "absent"
                 /\ \A t \in Slots : Holds(serving'[t]) => serving'[t].req.key # b.req.key
      BY <1>5, <1>6, <1>7, <2>2 DEF FirstTry, Unlapsed
    <2>3. QED BY <1>1, <2>1, <2>2 DEF FirstTry, Unlapsed
  <1>14. /\ SuccessMeansApplied' /\ RetryLearnsOutcome'
         /\ OnlyAdmitted' /\ TenantConfined'
    BY <1>1 DEF SuccessMeansApplied, RetryLearnsOutcome, OnlyAdmitted, TenantConfined
  <1>15. QED BY <1>8, <1>9, <1>10, <1>11, <1>12, <1>13, <1>14

LEMMA IdempotencyExecutionStep ==
  ASSUME RequestsInv, Watch, NEW s \in Slots, IdempotencyExecution(s)
  PROVE  RequestsInv'
  <1> DEFINE o == serving[s]
             k == o.req.key
             next == After(o.req.api, "idempotency")
             r == [o EXCEPT !.pc = next, !.owner = TRUE]
  <1>1. /\ o.pc = "idempotency" /\ UNCHANGED <<database, policy, history>>
        /\ \/ ~ Keyed(o.req) /\ Pass(s) /\ UNCHANGED <<record, answers, budget>>
           \/ /\ Keyed(o.req)
              /\ \/ /\ Abort(s, "unavailable") /\ Fails(s)
                    /\ UNCHANGED record \/ (Free(k) /\ Acquires(s))
                 \/ /\ Free(k) /\ Acquires(s) /\ Goes(s, r)
                    /\ UNCHANGED <<answers, budget>>
                 \/ /\ UNCHANGED <<record, budget>>
                    /\ Abort(s, "foreign") \/ Abort(s, "progress")
                 \/ /\ UNCHANGED <<record, budget>>
                    /\ record[k].print = Fingerprint(o.req) /\ record[k].state = "kept"
                    /\ Reply(s, record[k].outcome, TRUE)
    BY DEF IdempotencyExecution, At, Keyed
  <1>2. budget' \in [{"sends", "faults", "changes"} -> Nat]
    BY <1>1, Budgeted DEF RequestsInv
  <1>3. /\ o \in Served /\ SoundRequest(o, seen[s]) /\ o.req \in Request
        /\ seen[s].admitted /\ ~ Holds(o)
        /\ record \in [Keys -> Record]
    BY <1>1, InSlot DEF SoundRequest, Holds, Past, Done, RequestsInv, TypeOK
  <1>4. Keyed(o.req) => k \in Keys /\ o.req.route = "write"
    BY <1>1, <1>3 DEF Keyed, IdempotentPath, SoundRequest, Request
  <1>5. CASE ~ Keyed(o.req) /\ Pass(s) /\ UNCHANGED <<record, answers, budget>>
    BY <1>1, <1>5, PassStep
  <1>6. CASE /\ UNCHANGED record
             /\ Abort(s, "unavailable") \/ Abort(s, "foreign") \/ Abort(s, "progress")
    BY <1>1, <1>2, <1>6, Aborted DEF Refusals
  <1>7. CASE Keyed(o.req) /\ Abort(s, "unavailable") /\ Free(k) /\ Acquires(s)
    <2> DEFINE outcome == Refused("unavailable")
    <2>1. outcome \in Outcome /\ outcome.kind \notin {"ok", "stale"} /\ Reply(s, outcome, FALSE)
      BY <1>7, RefusalOutcomes DEF Refusals, Abort
    <2>2. /\ record' \in [Keys -> Record]
          /\ \A key \in Keys : record[key].state # "absent" => record'[key].state # "absent"
          /\ \A t \in Slots \ {s} : Holds(serving[t]) /\ Unlapsed(serving[t].req) =>
               record'[serving[t].req.key] = record[serving[t].req.key]
          /\ \A key \in Keys : record'[key].state = "kept" => record'[key] = record[key]
      BY <1>3, <1>4, <1>7, Acquired DEF Unlapsed
    <2>3. \A key \in Keys : record'[key].state = "kept" /\ record'[key].outcome.kind = "ok" =>
            Made(applied, record'[key].print, record'[key].outcome)
      BY <2>2 DEF RequestsInv, SuccessMade
    <2> HIDE DEF outcome
    <2>4. QED BY <1>1, <1>2, <2>1, <2>2, <2>3, Answered
  <1>8. CASE /\ Keyed(o.req) /\ UNCHANGED record
             /\ record[k].print = Fingerprint(o.req) /\ record[k].state = "kept"
             /\ Reply(s, record[k].outcome, TRUE)
    <2> DEFINE outcome == record[k].outcome
    <2>1. outcome \in Outcome
      BY <1>3, <1>4, <1>8 DEF Record, Absent
    <2>2. outcome.kind = "ok" => Made(applied, Fingerprint(o.req), outcome)
      BY <1>4, <1>8 DEF RequestsInv, SuccessMade
    <2>3. Reply(s, outcome, TRUE) /\ UNCHANGED record
      BY <1>8
    <2>4. \A key \in Keys : record'[key].state = "kept" /\ record'[key].outcome.kind = "ok" =>
            Made(applied, record'[key].print, record'[key].outcome)
      BY <1>8 DEF RequestsInv, SuccessMade
    <2> HIDE DEF outcome
    <2>5. QED BY <1>1, <1>2, <1>3, <1>4, <1>8, <2>1, <2>2, <2>3, <2>4, Answered
  <1>9. CASE /\ Keyed(o.req) /\ Free(k) /\ Acquires(s) /\ Goes(s, r)
             /\ UNCHANGED <<answers, budget>>
    BY <1>1, <1>3, <1>4, <1>9, Begun
  <1>10. QED BY <1>1, <1>5, <1>6, <1>7, <1>8, <1>9

-----------------------------------------------------------------------------
(* A write that is committed is the first under its key, and makes the     *)
(* version after the one it expects.                                       *)
LEMMA Written ==
  ASSUME RequestsInv, Watch, NEW s \in Slots, serving[s].pc = "commit",
         Fenced(serving[s].req), Writes(s, serving[s].req), NEW outcome \in Outcome,
         outcome.kind # "stale",
         outcome.kind = "ok" => outcome.version = serving[s].req.expected + 1,
         Goes(s, [serving[s] EXCEPT !.pc = "log", !.outcome = outcome]),
         budget' \in [{"sends", "faults", "changes"} -> Nat],
         UNCHANGED <<policy, record, answers, lapsed>>
  PROVE  RequestsInv'
  <1> DEFINE o == serving[s]
             q == o.req
             r == [o EXCEPT !.pc = "log", !.outcome = outcome]
             w == [req |-> q, version |-> version[q.target] + 1, seen |-> seen[s]]
  <1> USE DEF RequestsInv
  <1>1. /\ o \in Served /\ SoundRequest(o, seen[s]) /\ q \in Request
        /\ seen[s] \in Seen /\ seen[s].admitted /\ q.route = "write"
    BY InSlot DEF TypeOK, SoundRequest, Past
  <1>2. r \in Serving /\ r.pc = "log" /\ r.req = q /\ r.outcome = outcome
        /\ r.owner = o.owner /\ r.platform = o.platform
    <2>1. r = [o EXCEPT !.pc = "log", !.outcome = outcome] /\ "log" \in Pcs
      BY DEF Pcs
    <2> HIDE DEF r, o
    <2>2. QED BY <1>1, <2>1, ServedServing DEF Served
  <1>3. /\ serving' \in [Slots -> Serving] /\ serving'[s] = r
        /\ \A t \in Slots \ {s} : serving'[t] = serving[t]
    <2>1. serving' = [serving EXCEPT ![s] = r]
      BY DEF Goes
    <2> HIDE DEF r
    <2>2. QED BY <1>2, <2>1 DEF TypeOK
  <1> HIDE DEF r
  <1>4. /\ q.target \in Targets /\ version \in [Targets -> Nat] /\ q.expected \in Nat
        /\ version[q.target] = q.expected
        /\ version' = [version EXCEPT ![q.target] = @ + 1]
    BY <1>1 DEF Request, TypeOK, Fenced, Writes
  <1>5. /\ version' \in [Targets -> Nat] /\ version'[q.target] = q.expected + 1
        /\ \A target \in Targets : version[target] <= version'[target]
    BY <1>4
  <1>6. granted' \subseteq Tenants
    BY <1>4 DEF Writes, TypeOK, Targets
  <1>7. /\ w \in [req : Request, version : Nat, seen : Seen]
        /\ w.req = q /\ w.version = q.expected + 1 /\ w.seen = seen[s]
        /\ applied' = applied \cup {w}
    BY <1>1, <1>4 DEF Writes
  <1> HIDE DEF w
  <1>8. (Holds(r) <=> Holds(o)) /\ r.pc \in Done
    BY <1>2 DEF Holds, Past, Done
  <1>9. Requesting' /\ seen' \in [Slots -> Seen]
    <2>1. policy' \in [Routes -> SUBSET Callers]
      BY DEF TypeOK
    <2>2. serving'[s] # Idle => SoundRequest(serving'[s], seen'[s])
      <3>1. serving'[s] # Idle /\ (seen[s].admitted => seen'[s].admitted)
        BY <1>2, <1>3, <1>6, <2>1, Watched DEF Idle
      <3>2. QED BY <1>1, <1>2, <1>3, <1>8, <3>1 DEF SoundRequest, Done
    <2>3. QED BY <1>3, <1>6, <2>1, <2>2, RequestingStep
  <1>10. TypeOK'
    BY <1>3, <1>5, <1>6, <1>7, <1>9 DEF TypeOK
  <1>11. FencedWrites'
    <2>1. \A v \in applied : v.version \in Nat /\ v.req.target \in Targets
      BY DEF TypeOK, Request
    <2>2. \A v \in applied : v.version = v.req.expected + 1 /\ v.version <= version'[v.req.target]
      BY <1>4, <1>5, <2>1 DEF FencedWrites
    <2>3. \A v \in applied : v.req.target = q.target => v.version <= q.expected
      BY <1>4 DEF FencedWrites
    <2>4. \A v \in applied : v.req.target = q.target => v.version # w.version
      BY <1>4, <1>7, <2>1, <2>3
    <2>5. w.version <= version'[w.req.target]
      BY <1>4, <1>5, <1>7
    <2>6. QED BY <1>7, <2>2, <2>4, <2>5 DEF FencedWrites
  <1>12. \A p, result : Made(applied, p, result) => Made(applied', p, result)
    BY <1>7 DEF Made
  <1>13. SuccessMade'
    <2>1. outcome.kind = "ok" => Made(applied', Fingerprint(q), outcome)
      BY <1>7 DEF Made
    <2>2. ASSUME NEW t \in Slots, serving'[t].pc \in Done,
                 serving'[t].outcome.kind = "ok", serving'[t].req.route = "write"
          PROVE  Made(applied', Fingerprint(serving'[t].req), serving'[t].outcome)
      <3>1. CASE t = s
        BY <1>2, <1>3, <2>1, <2>2, <3>1
      <3>2. CASE t # s
        <4>1. Made(applied, Fingerprint(serving[t].req), serving[t].outcome)
          BY <1>3, <2>2, <3>2 DEF SuccessMade
        <4>2. QED BY <1>3, <1>12, <3>2, <4>1
      <3>3. QED BY <3>1, <3>2
    <2>3. ASSUME NEW k \in Keys, record[k].state = "kept", record[k].outcome.kind = "ok"
          PROVE  Made(applied', record[k].print, record[k].outcome)
      <3>1. Made(applied, record[k].print, record[k].outcome)
        BY <2>3 DEF SuccessMade
      <3>2. QED BY <1>12, <3>1
    <2>4. QED BY <2>2, <2>3 DEF SuccessMade
  <1>14. KeyHeld'
    BY <1>2, <1>3, <1>8 DEF KeyHeld, Unlapsed
  <1>15. Unlapsed(q) => Holds(o)
    BY UnlapsedKeyed DEF Holds, Past
  <1>16. FirstTry'
    <2>1. ASSUME NEW v \in applied, Unlapsed(v.req)
          PROVE  /\ record[v.req.key].state # "absent"
                 /\ \A t \in Slots : Holds(serving'[t]) /\ serving'[t].req.key = v.req.key =>
                      serving'[t].pc \in Done /\ serving'[t].outcome # Refused("stale")
      <3>1. "commit" \notin Done
        BY DEF Done
      <3>2. QED BY <1>2, <1>3, <1>8, <2>1, <3>1 DEF FirstTry
    <2>2. ASSUME NEW b \in answers, b.outcome = Refused("stale"), ~ b.replayed, Unlapsed(b.req)
          PROVE  /\ record[b.req.key].state # "absent"
                 /\ \A t \in Slots : Holds(serving'[t]) => serving'[t].req.key # b.req.key
      BY <1>2, <1>3, <1>8, <2>2 DEF FirstTry
    <2>3. Unlapsed(w.req) =>
            /\ record[w.req.key].state # "absent"
            /\ \A t \in Slots : Holds(serving'[t]) /\ serving'[t].req.key = w.req.key =>
                 serving'[t].pc \in Done /\ serving'[t].outcome # Refused("stale")
      <3>1. Refused("stale").kind = "stale"
        BY DEF Refused
      <3>2. QED BY <1>2, <1>3, <1>7, <1>8, <1>15, <3>1, OwnKey
    <2>4. QED BY <1>7, <2>1, <2>2, <2>3 DEF FirstTry, Unlapsed
  <1>17. SuccessMeansApplied'
    BY <1>7 DEF SuccessMeansApplied
  <1>18. RetryLearnsOutcome'
    <2>1. ASSUME NEW a \in answers, a.outcome = Refused("stale"), ~ a.replayed, Unlapsed(a.req)
          PROVE  w.req # a.req
      BY <1>7, <1>15, <2>1 DEF FirstTry
    <2>2. QED BY <1>7, <2>1 DEF RetryLearnsOutcome, Unlapsed
  <1>19. OnlyAdmitted' /\ TenantConfined'
    BY <1>1, <1>7 DEF OnlyAdmitted, TenantConfined
  <1>20. QED BY <1>9, <1>10, <1>11, <1>13, <1>14, <1>16, <1>17, <1>18, <1>19

LEMMA CommitStep ==
  ASSUME RequestsInv, Watch, NEW s \in Slots, Commit(s)
  PROVE  RequestsInv'
  <1> DEFINE o == serving[s]
             q == o.req
             success == [kind |-> "ok", version |-> q.expected + 1, tenant |-> q.target]
  <1>1. /\ o.pc = "commit" /\ UNCHANGED <<policy, record, answers, lapsed>>
        /\ \/ /\ Fenced(q) /\ Writes(s, q) /\ UNCHANGED budget
              /\ Goes(s, [o EXCEPT !.pc = "log", !.outcome = success])
           \/ /\ UNCHANGED <<database, applied, budget>>
              /\ Goes(s, [o EXCEPT !.pc = "log", !.outcome = Refused("stale")])
           \/ /\ Goes(s, [o EXCEPT !.pc = "log", !.outcome = Refused("internal")])
              /\ Fails(s)
              /\ UNCHANGED <<database, applied>> \/ (Fenced(q) /\ Writes(s, q))
    BY DEF Commit, At
  <1>2. budget' \in [{"sends", "faults", "changes"} -> Nat]
    BY <1>1, Budgeted DEF RequestsInv
  <1>3. success \in Outcome /\ success.kind = "ok" /\ success.version = q.expected + 1
    <2>1. q \in Request
      BY <1>1, InSlot
    <2>2. QED BY <2>1 DEF Request, Outcome
  <1>4. \A kind \in {"stale", "internal"} :
          Refused(kind) \in Outcome /\ Refused(kind).kind = kind
    BY RefusalOutcomes DEF Refusals
  <1> HIDE DEF success
  <1>5. CASE /\ Fenced(q) /\ Writes(s, q)
             /\ Goes(s, [o EXCEPT !.pc = "log", !.outcome = success])
    BY <1>1, <1>2, <1>3, <1>5, Written
  <1>6. CASE /\ Fenced(q) /\ Writes(s, q)
             /\ Goes(s, [o EXCEPT !.pc = "log", !.outcome = Refused("internal")])
    <2> DEFINE outcome == Refused("internal")
    <2>1. outcome \in Outcome /\ outcome.kind = "internal"
      BY <1>4
    <2>2. Goes(s, [o EXCEPT !.pc = "log", !.outcome = outcome])
      BY <1>6
    <2> HIDE DEF outcome
    <2>3. QED BY <1>1, <1>2, <1>6, <2>1, <2>2, Written
  <1>7. ASSUME UNCHANGED <<database, applied>>, NEW kind \in {"stale", "internal"},
               Goes(s, [o EXCEPT !.pc = "log", !.outcome = Refused(kind)])
        PROVE  RequestsInv'
    <2> DEFINE outcome == Refused(kind)
    <2>1. outcome \in Outcome /\ outcome.kind \in {"stale", "internal"}
      BY <1>4
    <2>2. Goes(s, [o EXCEPT !.pc = "log", !.outcome = outcome])
      BY <1>7
    <2>3. /\ "log" \in Past \cap Pcs \cap Done /\ o.pc \notin Done
          /\ o.pc \in Past \ {"persist"}
      BY <1>1 DEF Past, Done, Pcs
    <2>4. q.route = "write" /\ UNCHANGED <<database, policy, record, history, answers>>
      BY <1>1, <1>7, InSlot DEF SoundRequest, history
    <2> HIDE DEF outcome
    <2>5. QED BY <1>1, <1>2, <2>1, <2>2, <2>3, <2>4, HandlerStep
  <1>8. QED BY <1>1, <1>5, <1>6, <1>7

LEMMA LapseStep ==
  ASSUME RequestsInv, Watch, NEW k \in Keys, Lapse(k)
  PROVE  RequestsInv'
  <1> USE DEF RequestsInv
  <1>1. /\ UNCHANGED <<version, granted, policy, serving, budget, applied, answers>>
        /\ record' = [record EXCEPT ![k] = Absent] /\ lapsed' = lapsed \cup {k}
    BY DEF Lapse, database
  <1>2. /\ record' \in [Keys -> Record] /\ record'[k] = Absent
        /\ \A key \in Keys \ {k} : record'[key] = record[key]
    BY <1>1 DEF TypeOK, Record
  <1>3. Requesting' /\ seen' \in [Slots -> Seen]
    BY <1>1, RequestingStep DEF TypeOK
  <1>4. TypeOK'
    BY <1>1, <1>2, <1>3 DEF TypeOK
  <1>5. \A q : Unlapsed(q)' => Unlapsed(q) /\ q.key \in Keys \ {k}
    BY <1>1 DEF Unlapsed
  <1>6. FencedWrites'
    BY <1>1 DEF FencedWrites
  <1>7. SuccessMade'
    <2>1. \A key \in Keys : record'[key].state = "kept" => record'[key] = record[key]
      BY <1>2 DEF Absent
    <2>2. QED BY <1>1, <2>1 DEF SuccessMade, Made
  <1>8. KeyHeld'
    BY <1>1, <1>2, <1>5 DEF KeyHeld
  <1>9. FirstTry'
    BY <1>1, <1>2, <1>5 DEF FirstTry
  <1>10. /\ SuccessMeansApplied' /\ RetryLearnsOutcome'
         /\ OnlyAdmitted' /\ TenantConfined'
    BY <1>1 DEF SuccessMeansApplied, RetryLearnsOutcome, OnlyAdmitted, TenantConfined
  <1>11. QED BY <1>3, <1>4, <1>6, <1>7, <1>8, <1>9, <1>10

-----------------------------------------------------------------------------
LEMMA RequestsInvInit == Init => RequestsInv
  <1> SUFFICES ASSUME Init PROVE RequestsInv
    OBVIOUS
  <1>1. \A s \in Slots : serving[s] = Idle /\ serving[s].pc \notin Past
    BY DEF Init, Idle, Past, Done
  <1>2. \A k \in Keys : record[k] = Absent /\ record[k].state = "absent"
    BY DEF Init, Absent
  <1>3. TypeOK
    <2>1. Absent \in Record /\ Unseen \in Seen /\ Callers \in SUBSET Callers
      BY DEF Record, Unseen, Seen
    <2>2. [sends |-> MaxSends, faults |-> MaxFaults, changes |-> MaxChanges]
            \in [{"sends", "faults", "changes"} -> Nat]
      BY RequestsAssumption
    <2>3. QED BY <2>1, <2>2, ServedServing DEF TypeOK, Init
  <1>4. Requesting /\ KeyHeld /\ SuccessMade
    BY <1>1, <1>2 DEF Requesting, KeyHeld, SuccessMade, Holds, Past
  <1>5. /\ FencedWrites /\ FirstTry /\ SuccessMeansApplied /\ RetryLearnsOutcome
        /\ OnlyAdmitted /\ TenantConfined
    BY DEF Init, FencedWrites, FirstTry, SuccessMeansApplied, RetryLearnsOutcome,
           OnlyAdmitted, TenantConfined
  <1>6. QED BY <1>3, <1>4, <1>5 DEF RequestsInv

LEMMA RequestsInvStep == RequestsInv /\ [Next]_vars => RequestsInv'
  <1> SUFFICES ASSUME RequestsInv, [Next]_vars PROVE RequestsInv'
    OBVIOUS
  <1>1. ASSUME Watch, NEW s \in Slots, NEW q \in Inputs, Send(s, q)
        PROVE  RequestsInv'
    BY <1>1, SendStep
  <1>2. ASSUME Watch, NEW s \in Slots, Serve(s)
        PROVE  RequestsInv'
    BY <1>2, IdempotencyKeyStep, RateLimitStep, DatabaseAuthenticationStep,
       DatabaseAuthorizationStep, IdempotencyExecutionStep, StartCommandStep, CommitStep,
       recordOperationStep, recordSecurityStep, CheckTenantStep, ReadStep, KeepAndAnswerStep
       DEF Serve
  <1>3. ASSUME Watch, NEW s \in Slots, Cancel(s) \/ Panic(s)
        PROVE  RequestsInv'
    BY <1>3, CancelStep, PanicStep
  <1>4. ASSUME Watch, NEW k \in Keys, Lapse(k)
        PROVE  RequestsInv'
    BY <1>4, LapseStep
  <1>5. ASSUME Watch, NEW p \in Policies, ChangePolicy(p[1], p[2])
        PROVE  RequestsInv'
    BY <1>5, ChangePolicyStep
  <1>6. ASSUME UNCHANGED vars
        PROVE  RequestsInv'
    BY <1>6 DEF vars, RequestsInv, TypeOK, Requesting, FencedWrites, SuccessMade, Made, KeyHeld,
                FirstTry, Unlapsed, SuccessMeansApplied, RetryLearnsOutcome, OnlyAdmitted,
                TenantConfined
  <1>7. QED BY <1>1, <1>2, <1>3, <1>4, <1>5, <1>6 DEF Next, Step

LEMMA RequestsInvAlways == Spec => []RequestsInv
  <1>1. RequestsInv /\ [Next]_vars => RequestsInv'
    BY RequestsInvStep
  <1>2. QED BY <1>1, RequestsInvInit, PTL DEF Spec

-----------------------------------------------------------------------------
(* The variables have their types in every state of every server.          *)
THEOREM RequestsTypeCorrect == Spec => []TypeOK
  <1>1. RequestsInv => TypeOK
    BY DEF RequestsInv
  <1>2. QED BY <1>1, RequestsInvAlways, PTL

(* A client that is answered success, by the handler or from the record of *)
(* its key, made the change, and the answer names the version it made:     *)
(* IdempotencyExecution replays only what a request of the same body left. *)
THEOREM SuccessMeansAppliedAlways == Spec => []SuccessMeansApplied
  <1>1. RequestsInv => SuccessMeansApplied
    BY DEF RequestsInv
  <1>2. QED BY <1>1, RequestsInvAlways, PTL

(* However often a command is sent, with its key or without, and whatever  *)
(* runs out or fails in between, the fence on the version of its row lets  *)
(* it change the row at most once.                                         *)
THEOREM AppliedOnceAlways == Spec => []AppliedOnce
  <1>1. RequestsInv => AppliedOnce
    <2> SUFFICES ASSUME RequestsInv, NEW w1 \in applied, NEW w2 \in applied,
                        SameCommand(w1.req, w2.req)
                 PROVE  w1 = w2
      BY DEF AppliedOnce
    <2>1. w1.req \in Request /\ w2.req \in Request
      BY DEF RequestsInv, TypeOK
    <2>2. w1.req.target = w2.req.target /\ w1.req.expected = w2.req.expected
      BY <2>1 DEF SameCommand, Request
    <2>3. QED BY <2>2 DEF RequestsInv, FencedWrites
  <1>2. QED BY <1>1, RequestsInvAlways, PTL

(* A client that retries an HTTP command under its key is never told that  *)
(* its own change made the version stale while no record of the key ran    *)
(* out: a key whose outcome was lost stays in processing.                  *)
THEOREM RetryLearnsOutcomeAlways == Spec => []RetryLearnsOutcome
  <1>1. RequestsInv => RetryLearnsOutcome
    BY DEF RequestsInv
  <1>2. QED BY <1>1, RequestsInvAlways, PTL

(* Nothing is changed, read or replayed for a caller whom the policy of    *)
(* the route did not admit at some moment since its request arrived: both  *)
(* chains put the handler, and the replay, behind the authorization.       *)
THEOREM OnlyAdmittedAlways == Spec => []OnlyAdmitted
  <1>1. RequestsInv => OnlyAdmitted
    BY DEF RequestsInv
  <1>2. QED BY <1>1, RequestsInvAlways, PTL

(* A tenant's user sees only its own tenant, and a navigation only of an   *)
(* application its tenant was granted at some moment of the request: the   *)
(* mark of a platform administrator is not given on the routes of tenants. *)
THEOREM TenantConfinedAlways == Spec => []TenantConfined
  <1>1. RequestsInv => TenantConfined
    BY DEF RequestsInv
  <1>2. QED BY <1>1, RequestsInvAlways, PTL
=============================================================================
