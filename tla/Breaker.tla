-------------------------------- MODULE Breaker --------------------------------
(***************************************************************************)
(* cave-kernel's circuit breaker as functions of its state.  Instants are  *)
(* kept as ages, cut off where the code no longer tells them apart, so     *)
(* that time may run for ever.                                             *)
(***************************************************************************)
EXTENDS Naturals, Sequences, SequencesExt, FiniteSets

\* CircuitBreakerConfig.
BreakerConfig ==
    [trip : {"rate", "consecutive"},
     windowKind : {"count", "time"}, window : Nat,
     minimumCalls : Nat \ {0},             \* rate: calls needed before it is looked at,
     rate : {r \in Nat \X Nat : r[1] <= r[2] /\ r[2] > 0},  \* and the threshold, a fraction
     failureCount : Nat \ {0},             \* consecutive: failures in a row that trip it
     halfOpenPermitted : Nat \ {0},
     resetTimeout : Nat]

Outcome == {"success", "failure"}
BreakerState == {"closed", "open", "half-open"}

NewBreaker(config) ==
    [config |-> config, state |-> "closed", samples |-> <<>>, openAge |-> 0,
     attempts |-> 0, successes |-> 0]

\* One unit of time passes.
OlderSample(sample, window) == [sample EXCEPT !.age = IF @ <= window THEN @ + 1 ELSE @]

Age(b) ==
    [b EXCEPT
        !.openAge = IF b.state = "open" /\ @ < b.config.resetTimeout THEN @ + 1 ELSE @,
        !.samples = [i \in DOMAIN b.samples |-> OlderSample(b.samples[i], b.config.window)]]

-----------------------------------------------------------------------------
(* can_proceed_at *)

Admits(b) ==
    \/ b.state = "closed"
    \/ b.state = "open" /\ b.openAge >= b.config.resetTimeout
    \/ b.state = "half-open" /\ b.attempts < b.config.halfOpenPermitted

\* Mutant: the call that opens the half-open round is not counted.
AfterProceedUncounted(b) ==
    IF ~Admits(b) \/ b.state = "closed" THEN b
    ELSE IF b.state = "half-open" THEN [b EXCEPT !.attempts = @ + 1]
    ELSE [b EXCEPT !.state = "half-open", !.attempts = 0, !.successes = 0]

AfterProceed(b) ==
    IF ~Admits(b) \/ b.state = "closed" THEN b
    ELSE IF b.state = "half-open" THEN [b EXCEPT !.attempts = @ + 1]
    ELSE [b EXCEPT !.state = "half-open", !.attempts = 1, !.successes = 0]

-----------------------------------------------------------------------------
(* record_at *)

Opened(b) == [b EXCEPT !.state = "open", !.openAge = 0]

\* The window keeps its newest samples, or drops the old ones at its front.
Trimmed(config, samples) ==
    LET drop == IF config.windowKind = "count"
                THEN IF Len(samples) > config.window THEN Len(samples) - config.window ELSE 0
                ELSE CHOOSE n \in 0..Len(samples) :
                         /\ \A i \in 1..n : samples[i].age > config.window
                         /\ n < Len(samples) => samples[n + 1].age <= config.window
    IN  SubSeq(samples, drop + 1, Len(samples))

Failures(samples) == Cardinality({i \in DOMAIN samples : samples[i].outcome = "failure"})

ShouldOpen(config, samples) ==
    IF config.trip = "rate"
    THEN /\ Len(samples) >= config.minimumCalls
         /\ Failures(samples) * config.rate[2] >= config.rate[1] * Len(samples)
    ELSE /\ Len(samples) >= config.failureCount
         /\ \A i \in 0..(config.failureCount - 1) : samples[Len(samples) - i].outcome = "failure"

\* Mutant: the sample is judged before it is recorded.
RecordClosedLate(b, outcome) ==
    LET kept == Trimmed(b.config, Append(b.samples, [age |-> 0, outcome |-> outcome]))
        b2 == [b EXCEPT !.samples = kept]
    IN  IF ShouldOpen(b.config, b.samples) THEN Opened(b2) ELSE b2

RecordClosed(b, outcome) ==
    LET kept == Trimmed(b.config, Append(b.samples, [age |-> 0, outcome |-> outcome]))
        b2 == [b EXCEPT !.samples = kept]
    IN  IF ShouldOpen(b.config, kept) THEN Opened(b2) ELSE b2

\* Mutant: a success that does not close the round is forgotten.
RecordHalfOpenForgets(b, outcome) ==
    CASE outcome = "failure" -> [Opened(b) EXCEPT !.attempts = 0, !.successes = 0]
      [] outcome = "success" /\ b.successes + 1 >= b.config.halfOpenPermitted -> NewBreaker(b.config)
      [] OTHER -> b

\* In a half-open round any failure opens the breaker again, and enough
\* successes close it with an empty window.
RecordHalfOpen(b, outcome) ==
    CASE outcome = "failure" -> [Opened(b) EXCEPT !.attempts = 0, !.successes = 0]
      [] outcome = "success" /\ b.successes + 1 >= b.config.halfOpenPermitted -> NewBreaker(b.config)
      [] OTHER -> [b EXCEPT !.successes = @ + 1]

AfterRecord(b, outcome) ==
    CASE b.state = "closed"    -> RecordClosed(b, outcome)
      [] b.state = "half-open" -> RecordHalfOpen(b, outcome)
      [] b.state = "open"      -> b
=============================================================================
