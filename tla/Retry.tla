-------------------------------- MODULE Retry --------------------------------
(***************************************************************************)
(* The bounded-retry loop every remote call of the Graph and Gmail         *)
(* providers goes through: common/retry RetryWithBackoffFunc with the      *)
(* Graph classifier ("graph"), the same loop under fetchMessagesWithRetry, *)
(* which also retries an empty result ("fetch"), and Gmail's own copy of   *)
(* the loop ("gmail").  Around it: a server that throttles, fails, or      *)
(* applies a request whose reply is lost, an index in which a message      *)
(* becomes visible late, and a context that may be cancelled at any time.  *)
(* Durations are whole ticks; time passes only while the loop waits.       *)
(***************************************************************************)
EXTENDS Integers

CONSTANTS Callers,        \* the copies of the loop to explore
          MaxRetries,     \* config.MaxRetries, never negative (config.go)
          BaseDelay,      \* config.RetryDelay, always positive (config.go)
          MaxBackoff,     \* maxBackoffDelay
          MaxRetryAfter,  \* maxRetryAfterDelay
          RetryAfters,    \* Retry-After values the server may send, 0 = none
          WordBits        \* width of the word time.Duration is computed in

ASSUME RetryAssumption ==
    /\ Callers \subseteq {"graph", "fetch", "gmail"}
    /\ MaxRetries \in Nat
    /\ BaseDelay \in Nat \ {0}
    /\ MaxBackoff \in Nat \ {0}
    /\ MaxRetryAfter \in Nat \ {0}
    /\ RetryAfters \subseteq Nat
    /\ 0 \in RetryAfters
    /\ WordBits \in Nat \ {0}

\* Powers of two are naturals: the provers know nothing of exponentiation.
ASSUME PowerAssumption ==
    /\ \A a \in 0..MaxRetries : 2^a \in Nat
    /\ 2^WordBits \in Nat \ {0}
    /\ 2^(WordBits - 1) \in Nat \ {0}

VARIABLES
    caller,     \* which copy of the loop this call runs; never changes
    pc,         \* "call": operation about to run; "select": waiting; "done"
    attempt,    \* loop counter
    left,       \* what is left of the delay select is waiting for
    ctx,        \* "live" or "cancelled"
    visible,    \* the message is indexed: a fetch would find it
    lastErr,    \* outcome of the last operation
    result,     \* what the call returned
    ran,        \* history: operations started
    ranLate,    \* history: operations started after the cancellation
    asked,      \* history: Retry-After of the last error, 0 when none
    waited,     \* history: ticks since the last operation
    applied,    \* history: times the server applied the request
    lost        \* history: replies lost after the request was applied

vars == <<caller, pc, attempt, left, ctx, visible, lastErr, result, ran,
          ranLate, asked, waited, applied, lost>>

Throttle == {"429", "503", "504"}
Errors == Throttle \cup {"500", "502", "auth", "net", "ctx"}
Outcomes == Errors \cup {"none", "ok", "empty"}
Results == {"none", "ok", "notfound", "permanent", "exhausted", "cancelled"}

Init ==
    /\ caller \in Callers
    /\ pc = "call"
    /\ attempt = 0
    /\ left = 0
    /\ ctx = "live"
    /\ visible \in IF caller = "fetch" THEN BOOLEAN ELSE {TRUE}
    /\ lastErr = "none"
    /\ result = "none"
    /\ ran = 0 /\ ranLate = 0
    /\ asked = 0 /\ waited = 0
    /\ applied = 0 /\ lost = 0

-----------------------------------------------------------------------------
\* Mutant: a cancelled context counts as a timeout.
RetryCtxErrors ==
    [graph |-> Throttle \cup {"net", "ctx"},
     fetch |-> Throttle \cup {"net", "empty", "ctx"},
     gmail |-> Throttle \cup {"500", "502", "net", "ctx"}]

\* What isRetryableGraphError, isRetryableGraphErrorOrEmptyResult and
\* isRetryableGmailError call transient.
RetryableErrors ==
    [graph |-> Throttle \cup {"net"},
     fetch |-> Throttle \cup {"net", "empty"},
     gmail |-> Throttle \cup {"500", "502", "net"}]

Retryable(err) == err \in RetryableErrors[caller]

\* A value computed in a signed word of WordBits bits.
Wrap(x) ==
    LET m == x % 2^WordBits
    IN  IF m >= 2^(WordBits - 1) THEN m - 2^WordBits ELSE m

\* baseDelay * time.Duration(1 << attempt)
Backoff(a) == Wrap(BaseDelay * 2^a)

\* A product that overflows never comes out positive and below BaseDelay.  In
\* 64 bits this is so for any base delay under 34 s: a result below the cap of
\* 30e9 ns is a multiple of 2^attempt times the power of two in the delay.
ASSUME OverflowAssumption ==
    \A a \in 0..MaxRetries :
        Backoff(a) <= 0 \/ Backoff(a) >= BaseDelay

\* Mutant: nextDelay does not look at what the server asked for.
NextDelayUnasked(a, retryAfter) ==
    IF Backoff(a) <= 0 \/ Backoff(a) > MaxBackoff THEN MaxBackoff ELSE Backoff(a)

\* nextDelay: the server's wish, capped, else the capped exponential backoff;
\* a product that is not positive has overflowed and counts as the cap.
NextDelay(a, retryAfter) ==
    IF retryAfter > 0
    THEN IF retryAfter < MaxRetryAfter THEN retryAfter ELSE MaxRetryAfter
    ELSE IF Backoff(a) <= 0 \/ Backoff(a) > MaxBackoff
         THEN MaxBackoff ELSE Backoff(a)

\* retryGmail's inline delay: no Retry-After and no guard against overflow;
\* a timer for a delay that is not positive fires at once.
GmailDelay(a) ==
    LET d == IF Backoff(a) > MaxBackoff THEN MaxBackoff ELSE Backoff(a)
    IN  IF d < 0 THEN 0 ELSE d

Delay(a, retryAfter) ==
    IF caller = "gmail" THEN GmailDelay(a) ELSE NextDelay(a, retryAfter)

\* Mutant: an empty answer is accepted on every attempt.
AcceptsEmpty(outcome) == outcome \in {"ok", "empty"}

\* fetchMessagesWithRetry's closure: an empty answer is the sentinel error
\* unless this is the last attempt, when it is accepted as the answer.
Accepts(outcome) ==
    \/ outcome = "ok"
    \/ outcome = "empty" /\ attempt + 1 > MaxRetries

\* Mutants: off by one either way.
GivesUpLate == attempt > MaxRetries
GivesUpEarly == attempt + 1 >= MaxRetries

\* The last attempt has failed.
GivesUp == attempt = MaxRetries

-----------------------------------------------------------------------------
\* What one round trip can come back with, and whether the server applied it.
\* A request whose context is already cancelled never leaves the process.
RoundTrip(outcome, done) ==
    IF ctx = "cancelled"
    THEN outcome = "ctx" /\ done = FALSE
    ELSE \/ outcome = "ok" /\ visible /\ done = TRUE
         \/ outcome = "empty" /\ ~visible /\ done = FALSE
         \/ outcome = "net" /\ done \in BOOLEAN
         \/ outcome \in Errors \ {"net", "ctx"} /\ done = FALSE

Return(res) ==
    /\ pc' = "done"
    /\ result' = res
    /\ UNCHANGED <<attempt, left>>

\* One pass of the loop body: run the operation, classify, and either return
\* or arm the timer for the next attempt.
Call ==
    /\ pc = "call"
    /\ ran' = ran + 1
    /\ ranLate' = IF ctx = "cancelled" THEN ranLate + 1 ELSE ranLate
    /\ waited' = 0
    /\ \E outcome \in Outcomes \ {"none"}, done \in BOOLEAN, ra \in RetryAfters :
        /\ RoundTrip(outcome, done)
        /\ outcome \notin Throttle => ra = 0
        /\ lastErr' = outcome
        /\ applied' = IF done THEN applied + 1 ELSE applied
        /\ lost' = IF done /\ outcome = "net" THEN lost + 1 ELSE lost
        /\ asked' = ra
        /\ \/ /\ Accepts(outcome)
              /\ Return(IF outcome = "ok" THEN "ok" ELSE "notfound")
           \/ /\ ~Accepts(outcome) /\ ~Retryable(outcome)
              /\ Return("permanent")
           \/ /\ ~Accepts(outcome) /\ Retryable(outcome)
              /\ GivesUp
              /\ Return("exhausted")
           \/ /\ ~Accepts(outcome) /\ Retryable(outcome)
              /\ ~GivesUp
              /\ pc' = "select"
              /\ left' = Delay(attempt, ra)
              /\ UNCHANGED <<attempt, result>>
    /\ UNCHANGED <<caller, ctx, visible>>

\* select takes case <-time.After(delay) and the loop goes round.
TimerFires ==
    /\ pc = "select"
    /\ left = 0
    /\ pc' = "call"
    /\ attempt' = attempt + 1
    /\ UNCHANGED <<caller, left, ctx, visible, lastErr, result, ran, ranLate, asked,
                   waited, applied, lost>>

\* select takes case <-ctx.Done(); with both ready Go picks either.
CtxDone ==
    /\ pc = "select"
    /\ ctx = "cancelled"
    /\ Return("cancelled")
    /\ UNCHANGED <<caller, ctx, visible, lastErr, ran, ranLate, asked, waited,
                   applied, lost>>

\* Time passes while select is parked; a closed ctx.Done() has already woken it.
Tick ==
    /\ pc = "select"
    /\ left > 0
    /\ ctx = "live"
    /\ left' = left - 1
    /\ waited' = waited + 1
    /\ UNCHANGED <<caller, pc, attempt, ctx, visible, lastErr, result, ran, ranLate,
                   asked, applied, lost>>

\* The signal handler, or the caller's deadline, cancels the context.
Cancel ==
    /\ ctx = "live"
    /\ pc # "done"
    /\ ctx' = "cancelled"
    /\ UNCHANGED <<caller, pc, attempt, left, visible, lastErr, result, ran, ranLate,
                   asked, waited, applied, lost>>

\* Graph finishes indexing the message.
Index ==
    /\ ~visible
    /\ pc # "done"
    /\ visible' = TRUE
    /\ UNCHANGED <<caller, pc, attempt, left, ctx, lastErr, result, ran, ranLate,
                   asked, waited, applied, lost>>

Next == Call \/ TimerFires \/ CtxDone \/ Tick \/ Cancel \/ Index

Spec == Init /\ [][Next]_vars

-----------------------------------------------------------------------------
\* Every variable stays in its range, and the budget bounds the counters.
TypeOK ==
    /\ caller \in Callers
    /\ pc \in {"call", "select", "done"}
    /\ attempt \in 0..MaxRetries
    /\ left \in Nat
    /\ ctx \in {"live", "cancelled"}
    /\ visible \in BOOLEAN
    /\ lastErr \in Outcomes
    /\ result \in Results
    /\ ran \in 0..(MaxRetries + 1)
    /\ ranLate \in 0..(MaxRetries + 1)
    /\ asked \in Nat
    /\ waited \in Nat
    /\ applied \in 0..(MaxRetries + 1)
    /\ lost \in 0..(MaxRetries + 1)

\* What the call returns is backed by what the operations did: success only
\* when the last one succeeded, and then the request was applied once more than
\* replies were lost (a send whose reply is lost is sent twice); "exhausted"
\* only after MaxRetries + 1 operations; a permanent error is the last one's
\* (retry.go 116-136).
ResultSound ==
    /\ result = "ok" => lastErr = "ok" /\ applied = lost + 1
    /\ result = "exhausted" => ran = MaxRetries + 1 /\ Retryable(lastErr)
    /\ result = "permanent" => lastErr \in Errors /\ ~Retryable(lastErr)
    /\ result = "cancelled" => ctx = "cancelled" /\ ran <= MaxRetries

\* "No messages found" is reported only after the last attempt, and that
\* attempt itself saw nothing: an error is never reported as not found
\* (utils.go 286-292, docs/protocols/msgraph.md 616).
NotFoundOnlyAtTheEnd ==
    result = "notfound" => ran = MaxRetries + 1 /\ lastErr = "empty"

\* A cancelled context stops the retries: at most the operation whose timer
\* had already fired is still started (retry.go 93, 144-149).
CancelStopsRetries == ranLate <= 1

Smaller(a, b) == IF a < b THEN a ELSE b

\* The shared loop keeps its distance: after a Retry-After no operation starts
\* before that time, or its cap, has passed; otherwise not before the base
\* delay, or the cap on backoff, whatever the attempt number does to the shift
\* (retry.go 75-88, msgraph utils.go 245-261).
SpacedOut ==
    [][caller # "gmail" /\ ran' # ran /\ ran > 0
         => waited >= IF asked > 0 THEN Smaller(asked, MaxRetryAfter)
                      ELSE Smaller(BaseDelay, MaxBackoff)]_vars
=============================================================================
