------------------------------ MODULE BreakerCalls ------------------------------
(***************************************************************************)
(* Callers share one circuit breaker: each asks can_proceed, makes its call*)
(* and records the outcome.  A call takes any time, so its outcome may be  *)
(* recorded in a state, or a half-open round, later than its own.          *)
(***************************************************************************)
EXTENDS Breaker

CONSTANTS Caller,
          Configs,   \* the configurations of the breaker
          MaxSamples \* bound: samples and calls under way while closed

ASSUME CallsAssumption == Configs \subseteq BreakerConfig /\ MaxSamples \in Nat

VARIABLES
    breaker,
    flight,      \* caller -> "none", "normal" or "trial"
    trialsOk,    \* history: successes of this half-open round's own trials
    dropped      \* history: a call has ended with no outcome recorded

callVars == <<breaker, flight, trialsOk, dropped>>

CallsInit ==
    /\ \E config \in Configs : breaker = NewBreaker(config)
    /\ flight = [c \in Caller |-> "none"]
    /\ trialsOk = 0 /\ dropped = FALSE

\* Earlier rounds' trials are ordinary calls in a new round.
Proceed(c) ==
    LET opens == breaker.state = "open"
        others == [x \in Caller |-> IF opens /\ flight[x] = "trial" THEN "normal" ELSE flight[x]]
    IN  /\ flight[c] = "none" /\ Admits(breaker)
        /\ breaker.state = "closed" =>
               Len(breaker.samples) + Cardinality({x \in Caller : flight[x] # "none"}) < MaxSamples
        /\ breaker' = AfterProceed(breaker)
        /\ flight' = [others EXCEPT ![c] = IF breaker.state = "closed" THEN "normal" ELSE "trial"]
        /\ trialsOk' = IF opens THEN 0 ELSE trialsOk
        /\ UNCHANGED dropped

Record(c, outcome) ==
    /\ flight[c] # "none"
    /\ breaker' = AfterRecord(breaker, outcome)
    /\ flight' = [flight EXCEPT ![c] = "none"]
    /\ trialsOk' = IF flight[c] = "trial" /\ breaker.state = "half-open" /\ outcome = "success"
                   THEN trialsOk + 1 ELSE trialsOk
    /\ UNCHANGED dropped

\* The caller's future is dropped while its call is under way.
Drop(c) ==
    /\ flight[c] # "none"
    /\ flight' = [flight EXCEPT ![c] = "none"]
    /\ dropped' = TRUE
    /\ UNCHANGED <<breaker, trialsOk>>

BreakerTick ==
    /\ breaker' = Age(breaker)
    /\ UNCHANGED <<flight, trialsOk, dropped>>

CallsNext ==
    \/ \E c \in Caller : Proceed(c) \/ Drop(c) \/ \E o \in Outcome : Record(c, o)
    \/ BreakerTick

CallsSpec == CallsInit /\ [][CallsNext]_callVars

-----------------------------------------------------------------------------
(* Properties *)

\* The breaker's counters go with its state: no permits are counted outside a
\* half-open round, and a round that is still on has permits used and
\* successes missing.
CountersFitState ==
    /\ breaker.state \in BreakerState
    /\ breaker.state = "half-open" =>
           /\ breaker.attempts \in 1..breaker.config.halfOpenPermitted
           /\ breaker.successes < breaker.config.halfOpenPermitted
    /\ breaker.state # "half-open" => breaker.attempts = 0 /\ breaker.successes = 0

\* A half-open round has never more than half_open_permitted trials under
\* way, whatever earlier calls still have to report.
TrialsBounded ==
    breaker.state = "half-open" =>
        Cardinality({c \in Caller : flight[c] = "trial"}) <= breaker.config.halfOpenPermitted

\* A breaker that lets everything through has not seen what should trip it.
ClosedBelowThreshold ==
    breaker.state = "closed" => ~ShouldOpen(breaker.config, breaker.samples)

\* A half-open round ends: the breaker does not stay between open and closed
\* for ever while callers keep calling and their calls end.  (A call that is
\* dropped takes its permit along.)
HalfOpenEnds == (breaker.state = "half-open") ~> (breaker.state # "half-open" \/ dropped)

\* "HalfOpen: allows up to half_open_permitted trial calls.  After that many
\* successes -> Closed" (circuitbreaker.rs): a round closes the breaker only
\* by the successes of its own trials.
ClosesOnTrials ==
    [][(breaker.state = "half-open" /\ breaker'.state = "closed") =>
          trialsOk' >= breaker.config.halfOpenPermitted]_callVars
=============================================================================
