--------------------------- MODULE Outbound_proofs ---------------------------
(***************************************************************************)
(* What holds of the clients for any number of callers, attempts and calls *)
(* and every threshold of the breaker.                                     *)
(***************************************************************************)
EXTENDS Outbound, TLAPS

-----------------------------------------------------------------------------
(* A call and the number of effects it has had.  Until a request that the  *)
(* upstream could not recognise has been sent, it has had none, and it is  *)
(* not sent again; a backoff is followed by an attempt that is allowed.    *)
(* The HTTP client knows no bare error.                                    *)
SoundCall(s, n) ==
  /\ s.pc \in {"idle", "admit"} => n = 0
  /\ s.pc \in {"attempt", "await"} /\ ~ retryable(s.request) => n = 0
  /\ s.pc = "backoff" => retryable(s.request) /\ s.attempt < MaxAttempts
  /\ s.pc \notin {"idle", "admit"} =>
       (~ s.request.safe /\ (s.request.key => CarriesKey(s.request)) => n <= 1)
  /\ s.pc = "settle" /\ kind = "http" => s.outcome # "unknown"

(* A breaker that is not closed was closed with Threshold failures, and    *)
(* still counts them.                                                      *)
SoundBreaker ==
  /\ breaker.failures <= blamed
  /\ breaker.state # "closed" => blamed >= Threshold

OutboundInv ==
  TypeOK /\ (\A c \in Callers : SoundCall(call[c], applied[c])) /\ SoundBreaker

-----------------------------------------------------------------------------
(* What a program counter says of the fields of a call.                    *)
LEMMA CallFields ==
  ASSUME NEW s \in Call
  PROVE  /\ s.pc \in {"idle", "admit", "attempt", "await", "backoff", "settle"}
         /\ s.pc = "idle" => s = Idle
         /\ s.pc \in {"admit", "attempt", "await", "backoff"} =>
              s.request \in Request /\ s.context \in {"live"} \cup Lapses
         /\ s.pc \in {"attempt", "await", "backoff"} =>
              /\ s.attempt \in 1 .. MaxAttempts /\ s.generation \in Nat
              /\ s \in [pc : {"attempt", "await", "backoff"}, request : Request,
                        context : {"live"} \cup Lapses, attempt : 1 .. MaxAttempts,
                        generation : Nat]
         /\ s.pc = "settle" =>
              s.request \in Request /\ s.generation \in Nat /\ s.outcome \in Outcomes
  BY DEF Call, Idle

LEMMA OutboundInvInit == Init => OutboundInv
  <1> SUFFICES ASSUME Init PROVE OutboundInv
    OBVIOUS
  <1>1. \A c \in Callers : call[c] = Idle /\ applied[c] = 0
    BY DEF Init
  <1>2. TypeOK
    BY OutboundAssumption DEF validateClientPolicy, Init, TypeOK, Call
  <1>3. \A c \in Callers : SoundCall(call[c], applied[c])
    <2>1. SoundCall(Idle, 0)
      BY DEF SoundCall, Idle
    <2>2. QED BY <1>1, <2>1
  <1>4. SoundBreaker
    BY DEF Init, SoundBreaker
  <1>5. QED BY <1>2, <1>3, <1>4 DEF OutboundInv

BreakerState == [state : {"closed", "open", "halfOpen"}, failures : 0 .. Threshold - 1,
                 generation : Nat, probing : BOOLEAN]

(* A step of one caller.                                                   *)
LEMMA CallerStep ==
  ASSUME OutboundInv, NEW c \in Callers, NEW s \in Call, NEW n \in Nat, SoundCall(s, n),
         call' = [call EXCEPT ![c] = s], applied' = [applied EXCEPT ![c] = n],
         breaker' \in BreakerState, blamed' \in Nat, SoundBreaker',
         calls' \in 0 .. MaxCalls, UNCHANGED kind
  PROVE  OutboundInv'
  <1>1. /\ call' \in [Callers -> Call] /\ applied' \in [Callers -> Nat]
        /\ \A d \in Callers : /\ call'[d] = IF d = c THEN s ELSE call[d]
                              /\ applied'[d] = IF d = c THEN n ELSE applied[d]
    BY DEF OutboundInv, TypeOK
  <1>2. TypeOK'
    BY <1>1 DEF OutboundInv, TypeOK, BreakerState
  <1>3. ASSUME NEW d \in Callers PROVE SoundCall(call[d], applied[d])'
    <2>1. SoundCall(call'[d], applied'[d])
      BY <1>1 DEF OutboundInv
    <2>2. QED BY <2>1 DEF SoundCall, CarriesKey
  <1>4. QED BY <1>2, <1>3 DEF OutboundInv

(* The same, when nothing else changes.                                    *)
LEMMA LoneStep ==
  ASSUME OutboundInv, NEW c \in Callers, NEW s \in Call, NEW n \in Nat, SoundCall(s, n),
         call' = [call EXCEPT ![c] = s], applied' = [applied EXCEPT ![c] = n],
         UNCHANGED <<kind, breaker, blamed, calls>>
  PROVE  OutboundInv'
  <1>1. breaker' \in BreakerState /\ blamed' \in Nat /\ SoundBreaker' /\ calls' \in 0 .. MaxCalls
    BY DEF OutboundInv, TypeOK, BreakerState, SoundBreaker
  <1>2. QED BY <1>1, CallerStep

(* What the breaker makes of a result, in the terms of Settle.             *)
LEMMA BreakerRecords ==
  ASSUME OutboundInv, NEW generation \in Nat, NEW outcome \in Outcomes,
         kind = "http" => outcome # "unknown", Record(generation, outcome),
         blamed' = IF breaker'.state = "closed" /\ breaker.state # "closed" THEN 0
                   ELSE IF outcome \in Blamable THEN blamed + 1 ELSE blamed
  PROVE  /\ breaker' \in BreakerState /\ blamed' \in Nat
         /\ SoundBreaker'
  <1> SUFFICES /\ breaker' \in BreakerState /\ blamed' \in Nat
               /\ breaker'.failures <= blamed'
               /\ breaker'.state # "closed" => blamed' >= Threshold
    BY DEF SoundBreaker
  <1>1. breaker \in BreakerState /\ blamed \in Nat /\ Threshold \in Nat \ {0}
    BY OutboundAssumption DEF validateClientPolicy, OutboundInv, TypeOK, BreakerState
  <1>2. PICK state \in {"closed", "open", "halfOpen"}, failures \in 0 .. Threshold - 1,
             number \in Nat, probing \in BOOLEAN :
          breaker = [state |-> state, failures |-> failures, generation |-> number,
                     probing |-> probing]
    BY <1>1 DEF BreakerState
  <1>3. failures <= blamed /\ (state # "closed" => blamed >= Threshold)
    BY <1>2 DEF OutboundInv, SoundBreaker
  <1>4. CASE breaker' \in {breaker, [breaker EXCEPT !.probing = FALSE]}
    <2>1. PICK p \in BOOLEAN :
            breaker' = [state |-> state, failures |-> failures, generation |-> number,
                        probing |-> p]
      BY <1>2, <1>4
    <2> /\ breaker' \in BreakerState
        /\ breaker'.state = state /\ breaker'.failures = failures
      BY <2>1 DEF BreakerState
    <2>2. blamed' \in Nat /\ blamed' >= blamed
      BY <2>1, <1>1, <1>2
    <2>3. QED BY <2>1, <2>2, <1>1, <1>3
  <1>5. CASE /\ Counts(outcome)
             /\ breaker' = IF breaker.state = "halfOpen" \/ breaker.failures + 1 >= Threshold
                           THEN Enter("open") ELSE [breaker EXCEPT !.failures = @ + 1]
    <2>1. kind \in {"http", "grpc"}
      BY OutboundAssumption DEF validateClientPolicy, OutboundInv, TypeOK
    <2>2. outcome \in Blamable
      BY <2>1, <1>5 DEF Counts, Blamable, Outcomes, Answers, Lapses
    <2>3. CASE breaker.state = "halfOpen" \/ breaker.failures + 1 >= Threshold
      <3>1. /\ breaker' = [state |-> "open", failures |-> 0, generation |-> number + 1,
                           probing |-> FALSE]
        BY <2>3, <1>2, <1>5 DEF Enter
      <3>2. blamed' = blamed + 1
        BY <3>1, <2>2
      <3>3. breaker' \in BreakerState /\ breaker'.state = "open" /\ breaker'.failures = 0
        BY <3>1, <1>1 DEF BreakerState
      <3>4. state = "halfOpen" \/ failures + 1 >= Threshold
        BY <2>3, <1>2
      <3>5. blamed + 1 >= Threshold
        BY <3>4, <1>1, <1>3
      <3>6. QED BY <3>2, <3>3, <3>5, <1>1
    <2>4. CASE ~ (breaker.state = "halfOpen" \/ breaker.failures + 1 >= Threshold)
      <3>1. failures + 1 \in 0 .. Threshold - 1
        BY <2>4, <1>1, <1>2
      <3>2. breaker' = [state |-> state, failures |-> failures + 1, generation |-> number,
                        probing |-> probing]
        BY <2>4, <1>2, <1>5
      <3>3. breaker' \in BreakerState /\ breaker'.state = state /\ breaker'.failures = failures + 1
        BY <3>1, <3>2 DEF BreakerState
      <3>4. blamed' = blamed + 1
        BY <3>3, <2>2, <1>2
      <3>5. QED BY <3>3, <3>4, <1>1, <1>3
    <2>5. QED BY <2>3, <2>4
  <1>6. CASE breaker' = IF breaker.state = "halfOpen" THEN Enter("closed")
                        ELSE [breaker EXCEPT !.failures = 0]
    <2>1. CASE breaker.state = "halfOpen"
      <3>1. breaker' = [state |-> "closed", failures |-> 0, generation |-> number + 1,
                        probing |-> FALSE]
        BY <2>1, <1>2, <1>6 DEF Enter
      <3>2. breaker' \in BreakerState /\ breaker'.state = "closed" /\ breaker'.failures = 0
        BY <3>1, <1>1 DEF BreakerState
      <3>3. blamed' = 0
        BY <3>2, <2>1
      <3>4. QED BY <3>2, <3>3
    <2>2. CASE breaker.state # "halfOpen"
      <3>1. breaker' = [state |-> state, failures |-> 0, generation |-> number,
                        probing |-> probing]
        BY <2>2, <1>2, <1>6
      <3>2. breaker' \in BreakerState /\ breaker'.state = state /\ breaker'.failures = 0
        BY <3>1, <1>1 DEF BreakerState
      <3>3. blamed' \in Nat /\ blamed' >= blamed
        BY <3>2, <1>1, <1>2
      <3>4. QED BY <3>2, <3>3, <1>1, <1>3
    <2>3. QED BY <2>1, <2>2
  <1>7. QED BY <1>4, <1>5, <1>6 DEF Record

-----------------------------------------------------------------------------
LEMMA OutboundInvNext == OutboundInv /\ [Next]_vars => OutboundInv'
  <1> SUFFICES ASSUME OutboundInv, [Next]_vars PROVE OutboundInv'
    OBVIOUS
  <1>1. /\ breaker \in BreakerState /\ blamed \in Nat /\ SoundBreaker
        /\ calls \in 0 .. MaxCalls /\ kind \in {"http", "grpc"}
        /\ MaxAttempts \in 1 .. 5 /\ Threshold \in Nat \ {0} /\ MaxCalls \in Nat
    BY OutboundAssumption DEF validateClientPolicy, OutboundInv, TypeOK, BreakerState
  <1>2. \A c \in Callers : /\ call[c] \in Call /\ applied[c] \in Nat
                           /\ SoundCall(call[c], applied[c])
    BY DEF OutboundInv, TypeOK
  <1>3. \A c \in Callers : UNCHANGED applied => applied' = [applied EXCEPT ![c] = applied[c]]
    BY DEF OutboundInv, TypeOK
  <1>4. CASE OpenTimeout
    <2>1. /\ breaker.state = "open" /\ breaker' = Enter("halfOpen")
          /\ UNCHANGED <<kind, call, applied, blamed, calls>>
      BY <1>4 DEF OpenTimeout
    <2>2. breaker' \in BreakerState /\ breaker'.failures = 0
      BY <2>1, <1>1 DEF Enter, BreakerState
    <2>3. TypeOK'
      BY <2>1, <2>2 DEF OutboundInv, TypeOK, BreakerState
    <2>4. SoundBreaker'
      BY <2>1, <2>2, <1>1 DEF SoundBreaker
    <2>5. QED BY <2>1, <2>3, <2>4, <1>2 DEF OutboundInv, SoundCall, CarriesKey
  <1>5. ASSUME NEW c \in Callers, NEW request \in Request, Begin(c, request) PROVE OutboundInv'
    <2> DEFINE s == [pc |-> "admit", request |-> request, context |-> "live"]
    <2>1. /\ call' = [call EXCEPT ![c] = s] /\ call[c] = Idle /\ calls < MaxCalls
          /\ calls' = calls + 1 /\ UNCHANGED <<kind, breaker, applied, blamed>>
      BY <1>5 DEF Begin, Becomes
    <2>2. s \in Call
      BY DEF Call
    <2>3. applied[c] = 0
      BY <2>1, <1>2 DEF SoundCall, Idle
    <2>4. SoundCall(s, 0)
      BY DEF SoundCall
    <2>5. applied' = [applied EXCEPT ![c] = 0]
      BY <2>1, <2>3, <1>3
    <2>6. calls' \in 0 .. MaxCalls
      BY <2>1, <1>1
    <2>7. breaker' \in BreakerState /\ blamed' \in Nat /\ SoundBreaker'
      BY <2>1, <1>1 DEF SoundBreaker
    <2> HIDE DEF s
    <2>8. QED BY <2>1, <2>2, <2>4, <2>5, <2>6, <2>7, CallerStep
  <1>6. ASSUME NEW c \in Callers, Refuse(c) PROVE OutboundInv'
    <2>1. /\ call' = [call EXCEPT ![c] = Idle] /\ call[c].pc = "admit"
          /\ UNCHANGED <<kind, breaker, applied, blamed, calls>>
      BY <1>6 DEF Refuse, Becomes
    <2>2. applied[c] = 0
      BY <2>1, <1>2 DEF SoundCall
    <2>3. applied' = [applied EXCEPT ![c] = 0]
      BY <2>1, <2>2, <1>3
    <2>4. Idle \in Call /\ SoundCall(Idle, 0)
      BY DEF Idle, Call, SoundCall
    <2>5. QED BY <2>1, <2>3, <2>4, LoneStep
  <1>7. ASSUME NEW c \in Callers, Admit(c) PROVE OutboundInv'
    <2> DEFINE s == [pc |-> "attempt", request |-> call[c].request, context |-> call[c].context,
                     attempt |-> 1, generation |-> breaker.generation]
    <2>1. /\ call' = [call EXCEPT ![c] = s] /\ call[c].pc = "admit"
          /\ breaker' = [breaker EXCEPT !.probing = breaker.state = "halfOpen"]
          /\ UNCHANGED <<kind, applied, blamed, calls>>
      BY <1>7 DEF Admit, Becomes
    <2>2. s \in Call
      BY <2>1, <1>1, <1>2, CallFields DEF Call, BreakerState
    <2>3. applied[c] = 0
      BY <2>1, <1>2 DEF SoundCall
    <2>4. SoundCall(s, 0)
      BY DEF SoundCall
    <2>5. applied' = [applied EXCEPT ![c] = 0]
      BY <2>1, <2>3, <1>3
    <2>6. /\ breaker' \in BreakerState /\ breaker'.failures = breaker.failures
          /\ breaker'.state = breaker.state
      BY <2>1, <1>1 DEF BreakerState
    <2>7. blamed' \in Nat /\ SoundBreaker' /\ calls' \in 0 .. MaxCalls
      BY <2>1, <2>6, <1>1 DEF SoundBreaker
    <2> HIDE DEF s
    <2>8. QED BY <2>1, <2>2, <2>4, <2>5, <2>6, <2>7, CallerStep
  <1>8. ASSUME NEW c \in Callers, NEW reason \in Lapses, Lapse(c, reason) PROVE OutboundInv'
    <2> DEFINE s == [call[c] EXCEPT !.context = reason]
    <2>1. /\ call' = [call EXCEPT ![c] = s]
          /\ call[c].pc \in {"admit", "attempt", "await", "backoff"}
          /\ UNCHANGED <<kind, breaker, applied, blamed, calls>>
      BY <1>8 DEF Lapse, Becomes
    <2>2. /\ s \in Call /\ s.pc = call[c].pc /\ s.request = call[c].request
          /\ s.pc = "backoff" => s.attempt = call[c].attempt
      <3>1. CASE call[c].pc = "admit"
        <4>1. call[c] \in [pc : {"admit"}, request : Request, context : {"live"} \cup Lapses]
          BY <3>1, <1>2 DEF Call, Idle
        <4>2. QED BY <4>1 DEF Call
      <3>2. CASE call[c].pc \in {"attempt", "await", "backoff"}
        <4>1. call[c] \in [pc : {"attempt", "await", "backoff"}, request : Request,
                          context : {"live"} \cup Lapses, attempt : 1 .. MaxAttempts,
                          generation : Nat]
          BY <3>2, <1>2, CallFields
        <4>2. QED BY <4>1 DEF Call
      <3>3. QED BY <2>1, <3>1, <3>2
    <2> HIDE DEF s
    <2>3. SoundCall(s, applied[c])
      BY <2>1, <2>2, <1>2 DEF SoundCall
    <2>4. QED BY <2>1, <2>2, <2>3, <1>2, <1>3, LoneStep
  <1>9. ASSUME NEW c \in Callers, Send(c) PROVE OutboundInv'
    <2> DEFINE s == [call[c] EXCEPT !.pc = "await"]
    <2>1. /\ call' = [call EXCEPT ![c] = s] /\ call[c].pc = "attempt"
          /\ UNCHANGED <<kind, breaker, applied, blamed, calls>>
      BY <1>9 DEF Send, Becomes
    <2>2. s \in Call /\ s.pc = "await" /\ s.request = call[c].request
      BY <2>1, <1>2, CallFields DEF Call
    <2> HIDE DEF s
    <2>3. SoundCall(s, applied[c])
      BY <2>1, <2>2, <1>2 DEF SoundCall
    <2>4. QED BY <2>1, <2>2, <2>3, <1>2, <1>3, LoneStep
  <1>10. ASSUME NEW c \in Callers,
                \/ \E outcome \in Answers \cup {"timeout"} : Answer(c, outcome)
                \/ Abandon(c)
         PROVE  OutboundInv'
    <2> DEFINE again == [call[c] EXCEPT !.pc = "backoff"]
    <2>1. /\ call[c].pc \in {"attempt", "await"} /\ UNCHANGED <<kind, breaker, blamed, calls>>
          /\ Effect(c) \/ UNCHANGED applied
          /\ \E outcome \in Outcomes \ {"unknown"} : Over(c, outcome)
      <3>1. ASSUME NEW outcome \in Answers \cup {"timeout"}, Answer(c, outcome)
            PROVE  /\ call[c].pc = "await" /\ Over(c, outcome)
                   /\ Effect(c) \/ UNCHANGED applied
                   /\ UNCHANGED <<kind, blamed, calls>>
        BY <3>1 DEF Answer
      <3>2. ASSUME Abandon(c)
            PROVE  /\ call[c].pc \in {"attempt", "await"} /\ Over(c, call[c].context)
                   /\ call[c].context \in Lapses
                   /\ Effect(c) \/ UNCHANGED applied
                   /\ UNCHANGED <<kind, blamed, calls>>
        BY <3>2, <1>2, CallFields DEF Abandon
      <3>3. \A outcome : Over(c, outcome) => UNCHANGED breaker
        BY DEF Over, BetweenAttempts
      <3>4. QED BY <1>10, <3>1, <3>2, <3>3 DEF Outcomes, Answers, Lapses
    <2>2. PICK outcome \in Outcomes \ {"unknown"} : Over(c, outcome)
      BY <2>1
    <2>3. PICK n \in Nat :
            /\ applied' = [applied EXCEPT ![c] = n]
            /\ n \in {applied[c], applied[c] + 1}
            /\ CarriesKey(call[c].request) /\ applied[c] > 0 => n = applied[c]
      BY <2>1, <1>2 DEF Effect, OutboundInv, TypeOK
    <2>4. ~ call[c].request.safe /\ (call[c].request.key => CarriesKey(call[c].request)) => n <= 1
      <3>1. CASE call[c].request.key
        BY <3>1, <2>1, <2>3, <1>2 DEF SoundCall
      <3>2. CASE ~ call[c].request.key
        BY <3>2, <2>1, <2>3, <1>2 DEF SoundCall, retryable
      <3>3. QED BY <3>1, <3>2
    <2>5. CASE /\ retryable(call[c].request) /\ ~ Exhausted(call[c].attempt)
               /\ call' = [call EXCEPT ![c] = again]
      <3>1. /\ again \in Call /\ again.pc = "backoff" /\ again.request = call[c].request
            /\ again.attempt = call[c].attempt /\ call[c].attempt \in 1 .. MaxAttempts
        BY <2>1, <1>2, CallFields DEF Call
      <3> HIDE DEF again
      <3>2. SoundCall(again, n)
        BY <2>4, <2>5, <3>1, <1>1 DEF SoundCall, Exhausted
      <3>3. QED BY <2>1, <2>3, <2>5, <3>1, <3>2, LoneStep
    <2>6. CASE call' = [call EXCEPT ![c] = Settling(c, outcome)]
      <3>1. /\ Settling(c, outcome) \in Call /\ Settling(c, outcome).pc = "settle"
            /\ Settling(c, outcome).request = call[c].request
            /\ Settling(c, outcome).outcome # "unknown"
        BY <2>1, <1>2, CallFields DEF Call, Settling
      <3>2. SoundCall(Settling(c, outcome), n)
        BY <2>4, <3>1 DEF SoundCall
      <3>3. QED BY <2>1, <2>3, <2>6, <3>1, <3>2, LoneStep
    <2>7. QED BY <2>2, <2>5, <2>6 DEF Over, Becomes
  <1>11. ASSUME NEW c \in Callers, Retry(c) PROVE OutboundInv'
    <2> DEFINE s == [call[c] EXCEPT !.pc = "attempt", !.attempt = NextAttempt(@)]
    <2>1. /\ call' = [call EXCEPT ![c] = s] /\ call[c].pc = "backoff"
          /\ UNCHANGED <<kind, breaker, applied, blamed, calls>>
      BY <1>11 DEF Retry, Becomes
    <2>2. s \in Call /\ s.pc = "attempt" /\ s.request = call[c].request
      <3>1. call[c] \in [pc : {"attempt", "await", "backoff"}, request : Request,
                        context : {"live"} \cup Lapses, attempt : 1 .. MaxAttempts,
                        generation : Nat]
        BY <2>1, <1>2, CallFields
      <3>2. call[c].attempt < MaxAttempts
        BY <2>1, <1>2 DEF SoundCall
      <3>3. NextAttempt(call[c].attempt) \in 1 .. MaxAttempts
        BY <3>1, <3>2, <1>1 DEF NextAttempt
      <3>4. QED BY <3>1, <3>3 DEF Call
    <2> HIDE DEF s
    <2>3. SoundCall(s, applied[c])
      BY <2>1, <2>2, <1>2 DEF SoundCall
    <2>4. QED BY <2>1, <2>2, <2>3, <1>2, <1>3, LoneStep
  <1>12. ASSUME NEW c \in Callers, Interrupted(c) PROVE OutboundInv'
    <2> DEFINE outcome == IF kind = "grpc" THEN "unknown" ELSE call[c].context
    <2>1. /\ call' = [call EXCEPT ![c] = Settling(c, outcome)]
          /\ call[c].pc = "backoff" /\ call[c].context # "live"
          /\ UNCHANGED <<kind, breaker, applied, blamed, calls>>
      BY <1>12 DEF Interrupted, Becomes
    <2>2. outcome \in Outcomes /\ (kind = "http" => outcome # "unknown")
      BY <2>1, <1>2, CallFields DEF Outcomes, Lapses
    <2> HIDE DEF outcome
    <2>3. /\ Settling(c, outcome) \in Call /\ Settling(c, outcome).pc = "settle"
          /\ Settling(c, outcome).request = call[c].request
          /\ Settling(c, outcome).outcome = outcome
      BY <2>1, <2>2, <1>2, CallFields DEF Call, Settling
    <2>4. SoundCall(Settling(c, outcome), applied[c])
      BY <2>1, <2>2, <2>3, <1>2 DEF SoundCall
    <2>5. QED BY <2>1, <2>3, <2>4, <1>2, <1>3, LoneStep
  <1>13. ASSUME NEW c \in Callers, Settle(c) PROVE OutboundInv'
    <2>1. /\ call' = [call EXCEPT ![c] = Idle] /\ applied' = [applied EXCEPT ![c] = 0]
          /\ call[c].pc = "settle" /\ UNCHANGED <<kind, calls>>
          /\ Record(call[c].generation, call[c].outcome)
          /\ blamed' = IF breaker'.state = "closed" /\ breaker.state # "closed" THEN 0
                       ELSE IF call[c].outcome \in Blamable THEN blamed + 1 ELSE blamed
      BY <1>13 DEF Settle, Becomes
    <2>2. /\ call[c].generation \in Nat /\ call[c].outcome \in Outcomes
          /\ kind = "http" => call[c].outcome # "unknown"
      BY <2>1, <1>2, CallFields DEF SoundCall
    <2>3. breaker' \in BreakerState /\ blamed' \in Nat /\ SoundBreaker'
      BY <2>1, <2>2, BreakerRecords
    <2>4. Idle \in Call /\ SoundCall(Idle, 0)
      BY DEF Idle, Call, SoundCall
    <2>5. QED BY <2>1, <2>3, <2>4, <1>1, CallerStep
  <1>14. CASE UNCHANGED vars
    BY <1>14 DEF vars, OutboundInv, TypeOK, SoundCall, SoundBreaker, CarriesKey
  <1>15. QED
    BY <1>4, <1>5, <1>6, <1>7, <1>8, <1>9, <1>10, <1>11, <1>12, <1>13, <1>14 DEF Next

LEMMA OutboundInvAlways == Spec => []OutboundInv
  <1>1. QED BY OutboundInvInit, OutboundInvNext, PTL DEF Spec

-----------------------------------------------------------------------------
(* Types: in particular, no attempt beyond MaxAttempts, and a closed       *)
(* breaker counts fewer than Threshold failures.                           *)
THEOREM OutboundTypeCorrect == Spec => []TypeOK
  <1>1. OutboundInv => TypeOK
    BY DEF OutboundInv
  <1>2. QED BY <1>1, OutboundInvAlways, PTL

(* retryable and the keys that are sent: what the upstream can neither     *)
(* repeat harmlessly nor recognise takes effect at most once.              *)
THEOREM AppliedOnceCorrect == Spec => []AppliedOnceUpstream
  <1>1. OutboundInv => AppliedOnceUpstream
    BY DEF OutboundInv, SoundCall, AppliedOnceUpstream
  <1>2. QED BY <1>1, OutboundInvAlways, PTL

(* The breaker opens after Threshold failed calls of the upstream's, not   *)
(* before.                                                                 *)
THEOREM TripsCorrect == Spec => []TripsOnFailedCalls
  <1>1. OutboundInv => TripsOnFailedCalls
    BY DEF OutboundInv, SoundBreaker, TripsOnFailedCalls
  <1>2. QED BY <1>1, OutboundInvAlways, PTL
=============================================================================
