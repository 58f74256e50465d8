----------------------------- MODULE RetryProofs -----------------------------
(***************************************************************************)
(* What holds of Retry for every number of retries, every delay and every  *)
(* word width: the loop's counters stay within the retry budget, what it   *)
(* returns is backed by what the operations did, a cancelled context       *)
(* starts at most one more operation, and two operations are kept apart.   *)
(***************************************************************************)
EXTENDS Retry, TLAPS

\* How far apart the shared loop must keep two operations.
Gap == IF asked > 0 THEN Smaller(asked, MaxRetryAfter)
                    ELSE Smaller(BaseDelay, MaxBackoff)

\* Where the loop stands fixes how many operations it has run.
Counted ==
    /\ pc = "call" => ran = attempt /\ result = "none"
    /\ pc = "select" => ran = attempt + 1 /\ attempt < MaxRetries /\ result = "none"
    /\ pc = "done" => ran = attempt + 1 /\ result # "none"
    /\ lastErr = "none" <=> ran = 0

\* Applied requests and lost replies never outnumber the operations.
Effects ==
    /\ lost <= ran
    /\ applied = lost + (IF lastErr = "ok" THEN 1 ELSE 0)
    /\ lastErr = "ok" => lost + 1 <= ran
    /\ lastErr = "ok" => pc = "done"

\* An operation started after the cancellation fails with the context's
\* error, which no classifier retries.
Stopped ==
    /\ ranLate <= 1
    /\ ctx = "live" => ranLate = 0
    /\ pc # "done" => ranLate = 0

\* The time waited and the time left add up to at least the gap.
Spaced ==
    caller # "gmail" =>
        /\ pc = "select" => waited + left >= Gap
        /\ pc = "call" /\ ran > 0 => waited >= Gap

\* Only a fetch can find its message not indexed yet.
Indexed == caller # "fetch" => visible = TRUE

IInv == Indexed /\ TypeOK /\ Counted /\ ResultSound /\ NotFoundOnlyAtTheEnd
        /\ Effects /\ Stopped /\ Spaced

-----------------------------------------------------------------------------
\* The product, cut to the word, is an integer.
LEMMA BackoffType ==
    ASSUME NEW a \in 0..MaxRetries
    PROVE  Backoff(a) \in Int
<1> DEFINE m == (BaseDelay * 2^a) % 2^WordBits
<1>1. BaseDelay * 2^a \in Nat
  BY PowerAssumption, RetryAssumption
<1>2. m \in Nat
  BY <1>1, PowerAssumption
<1>3. 2^WordBits \in Int /\ 2^(WordBits - 1) \in Int
  BY PowerAssumption
<1>4. QED
  BY <1>2, <1>3 DEF Backoff, Wrap

\* The shared loop's delay is a natural number of ticks, and long enough.
LEMMA NextDelayBounds ==
    ASSUME NEW a \in 0..MaxRetries, NEW ra \in Nat
    PROVE  /\ NextDelay(a, ra) \in Nat
           /\ ra > 0 => NextDelay(a, ra) = Smaller(ra, MaxRetryAfter)
           /\ ra = 0 => NextDelay(a, ra) >= Smaller(BaseDelay, MaxBackoff)
BY BackoffType, OverflowAssumption, RetryAssumption DEF NextDelay, Smaller

\* Gmail's delay is a natural number of ticks, possibly none.
LEMMA GmailDelayType ==
    ASSUME NEW a \in 0..MaxRetries
    PROVE  GmailDelay(a) \in Nat
BY BackoffType, RetryAssumption DEF GmailDelay

LEMMA InitIInv == Init => IInv
<1> SUFFICES ASSUME Init PROVE IInv
  OBVIOUS
<1>1. visible \in BOOLEAN
  BY DEF Init
<1>2. TypeOK
  BY <1>1, RetryAssumption DEF Init, TypeOK, Outcomes, Results
<1>3. Counted /\ ResultSound /\ NotFoundOnlyAtTheEnd /\ Effects /\ Stopped
  BY RetryAssumption DEF Init, Counted, ResultSound, NotFoundOnlyAtTheEnd, Effects, Stopped
<1>4. Spaced
  BY DEF Init, Spaced
<1>5. Indexed
  BY DEF Init, Indexed
<1>6. QED
  BY <1>2, <1>3, <1>4, <1>5 DEF IInv

-----------------------------------------------------------------------------
\* One pass of the loop body, whatever the operation came back with.
LEMMA CallIInv == IInv /\ Call => IInv'
<1> SUFFICES ASSUME IInv, Call PROVE IInv'
  OBVIOUS
<1> USE DEF IInv
<1>1. PICK outcome \in Outcomes \ {"none"}, done \in BOOLEAN, ra \in RetryAfters :
        /\ RoundTrip(outcome, done)
        /\ lastErr' = outcome
        /\ applied' = IF done THEN applied + 1 ELSE applied
        /\ lost' = IF done /\ outcome = "net" THEN lost + 1 ELSE lost
        /\ asked' = ra
        /\ \/ /\ Accepts(outcome)
              /\ Return(IF outcome = "ok" THEN "ok" ELSE "notfound")
           \/ /\ ~Accepts(outcome) /\ ~Retryable(outcome)
              /\ Return("permanent")
           \/ /\ ~Accepts(outcome) /\ Retryable(outcome)
              /\ GivesUp
              /\ Return("exhausted")
           \/ /\ ~Accepts(outcome) /\ Retryable(outcome)
              /\ ~GivesUp
              /\ pc' = "select"
              /\ left' = Delay(attempt, ra)
              /\ UNCHANGED <<attempt, result>>
  BY DEF Call
<1>2. /\ pc = "call" /\ ran' = ran + 1 /\ waited' = 0
      /\ ranLate' = IF ctx = "cancelled" THEN ranLate + 1 ELSE ranLate
      /\ UNCHANGED <<caller, ctx, visible>>
  BY DEF Call
<1>3. ra \in Nat /\ attempt \in 0..MaxRetries /\ MaxRetries \in Nat
  BY RetryAssumption DEF TypeOK
<1>4. ran = attempt /\ result = "none" /\ lastErr # "ok"
  BY <1>2 DEF Counted, Effects
<1>5. Delay(attempt, ra) \in Nat
  BY <1>3, NextDelayBounds, GmailDelayType DEF Delay
<1>6. left' \in Nat
  BY <1>1, <1>5 DEF Return, TypeOK
<1>7. pc' \in {"select", "done"} /\ attempt' = attempt /\ result' \in Results
  BY <1>1, <1>4 DEF Return, Results
<1>8. ctx = "cancelled" => outcome = "ctx"
  BY <1>1 DEF RoundTrip
<1>9. outcome = "ok" => done = TRUE /\ pc' = "done"
  <2>1. outcome = "ok" => done = TRUE
    <3>1. outcome = "ok" => ctx # "cancelled"
      BY <1>8
    <3>2. QED
      BY <1>1, <3>1 DEF RoundTrip, Errors, Throttle
  <2>2. outcome = "ok" => Accepts(outcome)
    BY DEF Accepts
  <2>3. QED
    BY <2>1, <2>2, <1>1 DEF Return
<1>10. done => outcome = "ok" \/ outcome = "net"
  BY <1>1 DEF RoundTrip
<1>11. lost \in Nat /\ applied = lost /\ lost <= ran /\ ran \in Nat
  BY <1>3, <1>4 DEF Effects, TypeOK
<1>12. TypeOK'
  <2>1. lost' \in 0..(MaxRetries + 1) /\ applied' \in 0..(MaxRetries + 1)
    BY <1>1, <1>3, <1>4, <1>11
  <2>2. ranLate' \in 0..(MaxRetries + 1)
    BY <1>2, <1>3 DEF Stopped, TypeOK
  <2>3. lastErr' \in Outcomes /\ asked' \in Nat
    BY <1>1, <1>3
  <2>4. QED
    BY <2>1, <2>2, <2>3, <1>2, <1>3, <1>4, <1>6, <1>7 DEF TypeOK
<1>13. Counted'
  <2>1. pc' = "select" => attempt < MaxRetries /\ result' = "none"
    BY <1>1, <1>3, <1>4 DEF Return, GivesUp
  <2>2. pc' = "done" => result' # "none"
    BY <1>1 DEF Return
  <2>3. lastErr' # "none" /\ ran' # 0
    BY <1>1, <1>2, <1>11
  <2>4. QED
    BY <2>1, <2>2, <2>3, <1>2, <1>4, <1>7 DEF Counted
<1>14. Effects'
  BY <1>1, <1>2, <1>9, <1>10, <1>11 DEF Effects
<1>15. ResultSound'
  <2>1. Retryable(outcome)' <=> Retryable(outcome)
    BY <1>2 DEF Retryable
  <2>2. result' = "ok" => outcome = "ok"
    BY <1>1, <1>4 DEF Return
  <2>3. result' = "exhausted" => attempt = MaxRetries /\ Retryable(outcome)
    BY <1>1, <1>4 DEF Return, GivesUp
  <2>4. result' = "permanent" => ~Retryable(outcome) /\ outcome # "ok" /\ ~Accepts(outcome)
    BY <1>1, <1>4 DEF Return, Accepts
  <2>5. result' # "cancelled"
    BY <1>1, <1>4 DEF Return
  <2>6. outcome \in Errors \/ outcome \in {"ok", "empty"}
    BY <1>1 DEF Outcomes
  <2>7. outcome = "empty" => Retryable(outcome)
    <3>1. outcome = "empty" => ~visible
      BY <1>1, Zenon DEF RoundTrip, Errors, Throttle
    <3>2. outcome = "empty" => caller = "fetch"
      BY <3>1 DEF Indexed
    <3>3. QED
      BY <3>2 DEF Retryable, RetryableErrors
  <2>8. QED
    BY <2>1, <2>2, <2>3, <2>4, <2>5, <2>6, <2>7, <1>1, <1>2, <1>4, <1>9, <1>14
       DEF ResultSound, Effects
<1>16. Stopped'
  <2>1. ranLate = 0 /\ ctx \in {"live", "cancelled"}
    BY <1>2 DEF Stopped, TypeOK
  <2>2. caller \in {"graph", "fetch", "gmail"}
    BY RetryAssumption DEF TypeOK
  <2>3. ~Retryable("ctx")
    BY <2>2 DEF Retryable, RetryableErrors, Throttle
  <2>4. ctx = "cancelled" => pc' = "done"
    BY <2>3, <1>1, <1>8 DEF Return
  <2>5. QED
    BY <2>1, <2>4, <1>2 DEF Stopped
<1>17. Spaced'
  <2> SUFFICES ASSUME caller # "gmail", pc' = "select"
               PROVE  left' >= Gap'
    BY <1>2, <1>5, <1>6, <1>7 DEF Spaced
  <2>1. left' = NextDelay(attempt, ra)
    BY <1>1 DEF Return, Delay
  <2>2. ra = 0 => left' >= Smaller(BaseDelay, MaxBackoff)
    BY <2>1, <1>3, NextDelayBounds
  <2>3. ra > 0 => left' = Smaller(ra, MaxRetryAfter)
    BY <2>1, <1>3, NextDelayBounds
  <2>4. QED
    BY <2>2, <2>3, <1>1, <1>3, RetryAssumption DEF Gap, Smaller
<1>18. Indexed'
  BY <1>2 DEF Indexed
<1>19. NotFoundOnlyAtTheEnd'
  <2>1. result' = "notfound" => outcome = "empty" /\ attempt + 1 > MaxRetries
    BY <1>1, <1>4 DEF Return, Accepts
  <2>2. QED
    BY <2>1, <1>1, <1>2, <1>3, <1>4 DEF NotFoundOnlyAtTheEnd
<1>20. QED
  BY <1>12, <1>13, <1>14, <1>15, <1>16, <1>17, <1>18, <1>19

\* The other actions leave the outcome of the last operation alone.
LEMMA TimerFiresIInv == IInv /\ TimerFires => IInv'
<1> SUFFICES ASSUME IInv, TimerFires PROVE IInv'
  OBVIOUS
<1> USE DEF IInv, TimerFires
<1>1. attempt \in 0..MaxRetries /\ attempt < MaxRetries /\ MaxRetries \in Nat
  BY RetryAssumption DEF Counted, TypeOK
<1>2. TypeOK'
  BY <1>1 DEF TypeOK
<1>3. Counted' /\ Effects' /\ Stopped' /\ Indexed'
  BY <1>1 DEF Counted, Effects, Stopped, Indexed
<1>4. ResultSound' /\ NotFoundOnlyAtTheEnd'
  BY DEF ResultSound, NotFoundOnlyAtTheEnd, Counted
<1>5. Spaced'
  <2>1. Gap' = Gap /\ Gap \in Nat
    BY RetryAssumption DEF Gap, Smaller, TypeOK
  <2>2. QED
    BY <2>1 DEF Spaced, TypeOK
<1>6. QED
  BY <1>2, <1>3, <1>4, <1>5

LEMMA CtxDoneIInv == IInv /\ CtxDone => IInv'
<1> SUFFICES ASSUME IInv, CtxDone PROVE IInv'
  OBVIOUS
<1> USE DEF IInv, CtxDone, Return
<1>1. attempt \in 0..MaxRetries /\ attempt < MaxRetries /\ MaxRetries \in Nat
  BY RetryAssumption DEF Counted, TypeOK
<1>2. TypeOK'
  BY DEF TypeOK, Results
<1>3. Counted' /\ Effects' /\ Stopped' /\ Indexed' /\ Spaced'
  BY <1>1 DEF Counted, Effects, Stopped, Indexed, Spaced
<1>4. ResultSound' /\ NotFoundOnlyAtTheEnd'
  BY <1>1 DEF ResultSound, NotFoundOnlyAtTheEnd, Counted
<1>5. QED
  BY <1>2, <1>3, <1>4

LEMMA TickIInv == IInv /\ Tick => IInv'
<1> SUFFICES ASSUME IInv, Tick PROVE IInv'
  OBVIOUS
<1> USE DEF IInv, Tick
<1>1. TypeOK'
  BY DEF TypeOK
<1>2. Counted' /\ Effects' /\ Stopped' /\ Indexed'
  BY DEF Counted, Effects, Stopped, Indexed
<1>3. ResultSound' /\ NotFoundOnlyAtTheEnd'
  BY DEF ResultSound, NotFoundOnlyAtTheEnd, Counted
<1>4. Spaced'
  <2>1. Gap' = Gap /\ Gap \in Nat
    BY RetryAssumption DEF Gap, Smaller, TypeOK
  <2>2. QED
    BY <2>1 DEF Spaced, TypeOK
<1>5. QED
  BY <1>1, <1>2, <1>3, <1>4

\* Steps of the surroundings: the context is cancelled, the message indexed.
LEMMA EnvironmentIInv == IInv /\ (Cancel \/ Index) => IInv'
<1> SUFFICES ASSUME IInv, Cancel \/ Index PROVE IInv'
  OBVIOUS
<1> USE DEF IInv, Cancel, Index
<1>1. TypeOK'
  BY DEF TypeOK
<1>2. Counted' /\ Effects' /\ Stopped'
  BY DEF Counted, Effects, Stopped
<1>3. Indexed'
  BY DEF Indexed
<1>4. ResultSound' /\ NotFoundOnlyAtTheEnd'
  BY DEF ResultSound, NotFoundOnlyAtTheEnd, Counted, Retryable
<1>5. Spaced'
  <2>1. Gap' = Gap
    BY DEF Gap
  <2>2. QED
    BY <2>1 DEF Spaced
<1>6. QED
  BY <1>1, <1>2, <1>3, <1>4, <1>5

LEMMA StutterIInv == IInv /\ UNCHANGED vars => IInv'
BY DEF IInv, vars, TypeOK, Counted, ResultSound, NotFoundOnlyAtTheEnd, Effects, Stopped, Spaced,
       Indexed, Gap, Retryable

\* The inductive invariant.
THEOREM Inductive == Spec => []IInv
<1>1. IInv /\ [Next]_vars => IInv'
  BY CallIInv, TimerFiresIInv, CtxDoneIInv, TickIInv, EnvironmentIInv,
     StutterIInv DEF Next
<1>2. QED
  BY InitIInv, <1>1, PTL DEF Spec

-----------------------------------------------------------------------------
\* The variables stay in their ranges, and the loop within its retry budget.
THEOREM TypeCorrect == Spec => []TypeOK
<1>1. IInv => TypeOK
  BY DEF IInv
<1>2. QED
  BY <1>1, Inductive, PTL

\* What the call returns is backed by what its operations did.
THEOREM ResultsAreSound == Spec => []ResultSound
<1>1. IInv => ResultSound
  BY DEF IInv
<1>2. QED
  BY <1>1, Inductive, PTL

\* "Not found" is the last attempt's own answer.
THEOREM NotFoundIsTheLastAnswer == Spec => []NotFoundOnlyAtTheEnd
<1>1. IInv => NotFoundOnlyAtTheEnd
  BY DEF IInv
<1>2. QED
  BY <1>1, Inductive, PTL

\* A cancelled context lets at most one more operation start.
THEOREM CancellationStops == Spec => []CancelStopsRetries
<1>1. IInv => CancelStopsRetries
  BY DEF IInv, Stopped, CancelStopsRetries
<1>2. QED
  BY <1>1, Inductive, PTL

\* The shared loop keeps two operations as far apart as it was asked to.
THEOREM OperationsAreSpacedOut == Spec => SpacedOut
<1>1. IInv /\ [Next]_vars =>
        [caller # "gmail" /\ ran' # ran /\ ran > 0
           => waited >= IF asked > 0 THEN Smaller(asked, MaxRetryAfter)
                        ELSE Smaller(BaseDelay, MaxBackoff)]_vars
  <2> SUFFICES ASSUME IInv, Next, caller # "gmail", ran' # ran, ran > 0
               PROVE  waited >= Gap
    BY DEF Gap
  <2>1. pc = "call"
    BY DEF Next, Call, TimerFires, CtxDone, Tick, Cancel, Index
  <2>2. QED
    BY <2>1 DEF IInv, Spaced
<1>2. QED
  BY <1>1, Inductive, PTL DEF Spec, SpacedOut
=============================================================================
