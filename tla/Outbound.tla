------------------------------ MODULE Outbound ------------------------------
(***************************************************************************)
(* The clients of internal/outbound and internal/grpcclient: one upstream  *)
(* shared by several callers.  A call passes the circuit breaker once and  *)
(* then makes up to MaxAttempts attempts, with a backoff between them.     *)
(* Both clients are modelled; they differ in what they retry, in what      *)
(* their breaker counts, and in which deadline bounds a call.              *)
(*                                                                         *)
(* The upstream is external: an attempt that brings no answer may have     *)
(* taken effect or not, and a key it has seen makes it replay its answer.  *)
(* So is the breaker, github.com/sony/gobreaker.                           *)
(***************************************************************************)
EXTENDS Naturals

CONSTANTS
  Callers,      \* goroutines that share the client
  Kinds,        \* the clients looked at: "http", "grpc"
  MaxAttempts,  \* Retry.MaxAttempts
  Threshold,    \* Breaker.FailureThreshold
  MaxCalls      \* bound on the calls made

validateClientPolicy == MaxAttempts \in 1 .. 5 /\ Threshold \in Nat \ {0}

ASSUME OutboundAssumption ==
  /\ Kinds \subseteq {"http", "grpc"} /\ Kinds # {}
  /\ validateClientPolicy
  /\ MaxCalls \in Nat

VARIABLES
  kind,     \* the client
  call,     \* the call each caller is in
  breaker,  \* the state of the breaker of this upstream
  applied,  \* how often the upstream has applied the effect of the call
  blamed,   \* calls that the upstream failed since the breaker last closed
  calls     \* calls made

vars == <<kind, call, breaker, applied, blamed, calls>>

(* safe: a GET, HEAD, OPTIONS, PUT or DELETE; an RPC that a configured     *)
(* pattern matches.  key: the context carries an idempotency key.          *)
(* header: the caller has put the key into the headers as well.            *)
Request == {r \in [safe : BOOLEAN, key : BOOLEAN, header : BOOLEAN] : r.header => r.key}

Lapses   == {"deadline", "cancelled"}
Answers  == {"ok", "refused", "unavailable"}
Outcomes == Answers \cup Lapses \cup {"timeout", "unknown"}

Idle == [pc |-> "idle"]
Call ==
  {Idle}
    \cup [pc : {"admit"}, request : Request, context : {"live"} \cup Lapses]
    \cup [pc : {"attempt", "await", "backoff"}, request : Request,
          context : {"live"} \cup Lapses, attempt : 1 .. MaxAttempts, generation : Nat]
    \cup [pc : {"settle"}, request : Request, generation : Nat, outcome : Outcomes]

Init ==
  /\ kind \in Kinds
  /\ call = [c \in Callers |-> Idle]
  /\ breaker = [state |-> "closed", failures |-> 0, generation |-> 0, probing |-> FALSE]
  /\ applied = [c \in Callers |-> 0]
  /\ blamed = 0
  /\ calls = 0

-----------------------------------------------------------------------------
(* Which requests may be sent again: what the code must not retry is       *)
(* neither safe nor recognisable by the upstream.                          *)
AnyMethod(r) == TRUE
retryable(r) == r.safe \/ r.key

(* The HTTP client tries again after every error; the retry interceptor    *)
(* only after UNAVAILABLE and RESOURCE_EXHAUSTED.                          *)
TriesAgain(outcome) ==
  \/ outcome = "unavailable"
  \/ kind = "http" /\ outcome \in Lapses \cup {"timeout"}

(* metadataInterceptor puts the key of the context on every RPC; the HTTP  *)
(* client sends what headers it is given.                                  *)
CarriesKey(r) == IF kind = "grpc" THEN r.key ELSE r.header

SameAttempt(n) == n
NextAttempt(n) == n + 1

OneMore(n)   == n > MaxAttempts
Exhausted(n) == n >= MaxAttempts

Becomes(c, s) == call' = [call EXCEPT ![c] = s]

Settling(c, outcome) ==
  [pc |-> "settle", request |-> call[c].request, generation |-> call[c].generation,
   outcome |-> outcome]

-----------------------------------------------------------------------------
(* gobreaker: closed until ReadyToTrip, open until OpenTimeout has passed, *)
(* half open for one probe.  A result of an earlier generation is dropped. *)
Counts(outcome) ==
  IF kind = "grpc" THEN outcome \in {"unavailable", "deadline"}
                   ELSE outcome \notin {"ok", "refused", "cancelled"}
Excluded(outcome) ==
  IF kind = "grpc" THEN ~ Counts(outcome) ELSE outcome = "cancelled"

Enter(state) ==
  [state |-> state, failures |-> 0, generation |-> breaker.generation + 1, probing |-> FALSE]

(* An excluded probe may free its place or keep it; an RPC without error   *)
(* is excluded by IsExcluded, and may be counted as a success first.       *)
Record(generation, outcome) ==
  \/ breaker.generation # generation /\ UNCHANGED breaker
  \/ /\ breaker.generation = generation /\ Counts(outcome)
     /\ breaker' = IF breaker.state = "halfOpen" \/ breaker.failures + 1 >= Threshold
                   THEN Enter("open") ELSE [breaker EXCEPT !.failures = @ + 1]
  \/ /\ breaker.generation = generation /\ Excluded(outcome)
     /\ breaker' \in {breaker, [breaker EXCEPT !.probing = FALSE]}
  \/ /\ breaker.generation = generation
     /\ outcome = "ok" \/ ~ (Counts(outcome) \/ Excluded(outcome))
     /\ breaker' = IF breaker.state = "halfOpen" THEN Enter("closed")
                   ELSE [breaker EXCEPT !.failures = 0]

OpenTimeout ==
  /\ breaker.state = "open"
  /\ breaker' = Enter("halfOpen")
  /\ UNCHANGED <<kind, call, applied, blamed, calls>>

(* The retries run inside the breaker's Execute.                           *)
EachAttempt(c, outcome) == Record(call[c].generation, outcome)
BetweenAttempts(c, outcome) == UNCHANGED breaker

-----------------------------------------------------------------------------
(* Do, or an RPC through the interceptors.                                 *)
Begin(c, request) ==
  /\ call[c] = Idle /\ calls < MaxCalls
  /\ kind = "grpc" => ~ request.header
  /\ calls' = calls + 1
  /\ Becomes(c, [pc |-> "admit", request |-> request, context |-> "live"])
  /\ UNCHANGED <<kind, breaker, applied, blamed>>

(* The breaker refuses the call with ErrOpenState or ErrTooManyRequests.   *)
Refuse(c) ==
  /\ call[c].pc = "admit"
  /\ breaker.state = "open" \/ breaker.probing
  /\ Becomes(c, Idle)
  /\ UNCHANGED <<kind, breaker, applied, blamed, calls>>

Admit(c) ==
  /\ call[c].pc = "admit"
  /\ breaker.state # "open" /\ ~ breaker.probing
  /\ breaker' = [breaker EXCEPT !.probing = breaker.state = "halfOpen"]
  /\ Becomes(c, [pc |-> "attempt", request |-> call[c].request, context |-> call[c].context,
                 attempt |-> 1, generation |-> breaker.generation])
  /\ UNCHANGED <<kind, applied, blamed, calls>>

(* The caller gives up, or its deadline passes; timeoutInterceptor gives   *)
(* an RPC without a deadline one.                                          *)
Lapse(c, reason) ==
  /\ call[c].pc \in {"admit", "attempt", "await", "backoff"} /\ call[c].context = "live"
  /\ Becomes(c, [call[c] EXCEPT !.context = reason])
  /\ UNCHANGED <<kind, breaker, applied, blamed, calls>>

Send(c) ==
  /\ call[c].pc = "attempt" /\ call[c].context = "live"
  /\ Becomes(c, [call[c] EXCEPT !.pc = "await"])
  /\ UNCHANGED <<kind, breaker, applied, blamed, calls>>

(* An attempt is over.                                                     *)
Over(c, outcome) ==
  IF TriesAgain(outcome) /\ retryable(call[c].request) /\ ~ Exhausted(call[c].attempt)
  THEN /\ Becomes(c, [call[c] EXCEPT !.pc = "backoff"])
       /\ BetweenAttempts(c, outcome)
  ELSE /\ Becomes(c, Settling(c, outcome))
       /\ UNCHANGED breaker

Effect(c) ==
  applied' = [applied EXCEPT ![c] = IF CarriesKey(call[c].request) /\ @ > 0 THEN @ ELSE @ + 1]

(* The upstream answers, a proxy in front of it does, or the connection    *)
(* breaks; http.Client gives each attempt its own timeout.                 *)
Answer(c, outcome) ==
  /\ call[c].pc = "await"
  /\ outcome = "timeout" => kind = "http"
  /\ Over(c, outcome)
  /\ CASE outcome = "ok"      -> Effect(c)
       [] outcome = "refused" -> UNCHANGED applied
       [] OTHER               -> Effect(c) \/ UNCHANGED applied
  /\ UNCHANGED <<kind, blamed, calls>>

(* An attempt under a context that is done is not made, or not awaited.    *)
Abandon(c) ==
  /\ call[c].pc \in {"attempt", "await"} /\ call[c].context # "live"
  /\ Over(c, call[c].context)
  /\ IF call[c].pc = "await" THEN Effect(c) \/ UNCHANGED applied ELSE UNCHANGED applied
  /\ UNCHANGED <<kind, blamed, calls>>

(* The timer of the backoff fires.                                         *)
Retry(c) ==
  /\ call[c].pc = "backoff"
  /\ Becomes(c, [call[c] EXCEPT !.pc = "attempt", !.attempt = NextAttempt(@)])
  /\ UNCHANGED <<kind, breaker, applied, blamed, calls>>

(* The context ends the backoff.  The interceptor returns its bare error,  *)
(* which has the code UNKNOWN.                                             *)
Interrupted(c) ==
  /\ call[c].pc = "backoff" /\ call[c].context # "live"
  /\ Becomes(c, Settling(c, IF kind = "grpc" THEN "unknown" ELSE call[c].context))
  /\ UNCHANGED <<kind, breaker, applied, blamed, calls>>

Blamable == {"unavailable", "timeout", "deadline"}

(* The breaker records the call, once, and the caller has its result.      *)
Settle(c) ==
  /\ call[c].pc = "settle"
  /\ Record(call[c].generation, call[c].outcome)
  /\ Becomes(c, Idle)
  /\ blamed' = IF breaker'.state = "closed" /\ breaker.state # "closed" THEN 0
               ELSE IF call[c].outcome \in Blamable THEN blamed + 1 ELSE blamed
  /\ applied' = [applied EXCEPT ![c] = 0]
  /\ UNCHANGED <<kind, calls>>

Next ==
  \/ OpenTimeout
  \/ \E c \in Callers :
       \/ \E request \in Request : Begin(c, request)
       \/ \E reason \in Lapses : Lapse(c, reason)
       \/ Refuse(c) \/ Admit(c) \/ Send(c)
       \/ \E outcome \in Answers \cup {"timeout"} : Answer(c, outcome)
       \/ Abandon(c) \/ Retry(c) \/ Interrupted(c) \/ Settle(c)

Spec == Init /\ [][Next]_vars

(* Every RPC has a deadline and every HTTP attempt a timeout; timers fire. *)
TimesOut(c) == IF kind = "grpc" THEN Lapse(c, "deadline") ELSE Answer(c, "timeout")

Proceeds(c) ==
  \/ Refuse(c) \/ Admit(c) \/ Send(c) \/ Abandon(c) \/ Retry(c) \/ Settle(c)

FairSpec ==
  Spec /\ \A c \in Callers : WF_vars(Proceeds(c)) /\ WF_vars(TimesOut(c))

-----------------------------------------------------------------------------
TypeOK ==
  /\ kind \in Kinds
  /\ call \in [Callers -> Call]
  /\ breaker \in [state : {"closed", "open", "halfOpen"}, failures : 0 .. Threshold - 1,
                  generation : Nat, probing : BOOLEAN]
  /\ applied \in [Callers -> Nat] /\ blamed \in Nat /\ calls \in 0 .. MaxCalls

(* "POST/RPC retries are only enabled for configured safe gRPC methods or  *)
(* calls carrying an idempotency key": a request that is not safe takes    *)
(* effect at most once, however many attempts lose their answer.  An HTTP  *)
(* call whose key is only in the context is left out: it is retried        *)
(* without the key.                                                        *)
AppliedOnceUpstream ==
  \A c \in Callers : call[c].pc \notin {"idle", "admit"} =>
    LET r == call[c].request IN
    ~ r.safe /\ (r.key => CarriesKey(r)) => applied[c] <= 1

(* breakerInterceptor and execute wrap the whole retried call, and exclude *)
(* what the upstream is not to blame for: one slow call or impatient       *)
(* callers do not open the breaker, Threshold failed calls do.             *)
TripsOnFailedCalls ==
  /\ breaker.failures <= blamed
  /\ breaker.state = "open" => blamed >= Threshold

(* Timeouts, the bound on the attempts and the breaker between them bring  *)
(* every call to an end, whatever the upstream does.                       *)
CallsReturn == \A c \in Callers : call[c].pc # "idle" ~> call[c].pc = "idle"
=============================================================================
