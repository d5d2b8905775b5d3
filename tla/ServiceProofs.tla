---------------------------- MODULE ServiceProofs ----------------------------
(***************************************************************************)
(* Proofs about the parts that share no state: the circuit breaker and its *)
(* callers, the rate limiters, the leader lease of the controller-manager  *)
(* and the peer registry, each for any number of callers, threads,         *)
(* replicas and nodes and any configuration.                               *)
(***************************************************************************)
EXTENDS BreakerCalls, RateLimiter, LeaderLease, PeerRegistry,
        FiniteSetTheorems, SequenceTheorems, WellFoundedInduction, TLAPS

-----------------------------------------------------------------------------
(* The circuit breaker *)

\* The samples and the whole state of a breaker.
Sample == [age : Nat, outcome : Outcome]
BreakerSet ==
    [config : BreakerConfig, state : BreakerState, samples : Seq(Sample),
     openAge : Nat, attempts : Nat, successes : Nat]

\* What a breaker's counters and samples are in each of its states.
Fits(b) ==
    /\ b.state = "half-open" =>
           /\ b.attempts \in 1..b.config.halfOpenPermitted
           /\ b.successes < b.config.halfOpenPermitted
    /\ b.state # "half-open" => b.attempts = 0 /\ b.successes = 0
    /\ b.state = "closed" => ~ShouldOpen(b.config, b.samples)

\* The calls of this half-open round that are under way.
Trials == {c \in Caller : flight[c] = "trial"}

\* The breaker fits its state, and the round's permits pay for its trials:
\* TrialsBounded alone does not say that a permit used is a permit counted.
CallsInv ==
    /\ breaker \in BreakerSet /\ Fits(breaker)
    /\ flight \in [Caller -> {"none", "normal", "trial"}]
    /\ IsFiniteSet(Trials)
    /\ breaker.state = "half-open" => Cardinality(Trials) <= breaker.attempts

\* The fields of a configuration that steps look at.
LEMMA ConfigFields ==
    ASSUME NEW c \in BreakerConfig
    PROVE  /\ c.halfOpenPermitted \in Nat \ {0} /\ c.minimumCalls \in Nat \ {0}
           /\ c.failureCount \in Nat \ {0} /\ c.window \in Nat /\ c.resetTimeout \in Nat
BY DEF BreakerConfig

\* The window's old samples are a prefix: there is a first one to keep.
LEMMA TrimPoint ==
    ASSUME NEW s \in Seq(Sample), NEW w \in Nat
    PROVE  \E n \in 0..Len(s) :
              /\ \A i \in 1..n : s[i].age > w
              /\ n < Len(s) => s[n + 1].age <= w
<1> DEFINE T == {n \in 0..Len(s) : n < Len(s) => s[n + 1].age <= w}
<1>0. Len(s) \in Nat
  OBVIOUS
<1>1. T \subseteq Nat /\ Len(s) \in T
  BY <1>0
<1>2. IsWellFoundedOn({x \in Nat \X Nat : x[1] < x[2]}, Nat)
  BY NatLessThanWellFounded, Zenon DEF OpToRel
<1>3. PICK n \in T : \A m \in T : ~(<<m, n>> \in {x \in Nat \X Nat : x[1] < x[2]})
  <2> HIDE DEF T
  <2> QED BY <1>1, <1>2, WFMin
<1>4. \A m \in T : ~(m < n)
  BY <1>1, <1>3
<1>5. ASSUME NEW i \in 1..n PROVE s[i].age > w
  <2>1. i - 1 \in 0..Len(s) /\ i - 1 < n /\ i \in 1..Len(s) /\ (i - 1) + 1 = i
    BY <1>0, <1>5
  <2>2. i - 1 \notin T
    BY <2>1, <1>4
  <2>3. ~(s[i].age <= w)
    BY <2>1, <2>2
  <2>4. s[i].age \in Nat
    <3>1. s[i] \in Sample
      BY <2>1, ElementOfSeq
    <3> QED BY <3>1 DEF Sample
  <2> QED BY <2>3, <2>4
<1> QED BY <1>5

\* What a trim keeps are samples.
LEMMA TrimmedType ==
    ASSUME NEW c \in BreakerConfig, NEW s \in Seq(Sample)
    PROVE  Trimmed(c, s) \in Seq(Sample)
<1> DEFINE byCount == IF Len(s) > c.window THEN Len(s) - c.window ELSE 0
           byAge == CHOOSE n \in 0..Len(s) :
                         /\ \A i \in 1..n : s[i].age > c.window
                         /\ n < Len(s) => s[n + 1].age <= c.window
           drop == IF c.windowKind = "count" THEN byCount ELSE byAge
<1>0. Len(s) \in Nat /\ c.window \in Nat
  BY ConfigFields
<1>1. byCount \in 0..Len(s)
  BY <1>0
<1>2. byAge \in 0..Len(s)
  BY <1>0, TrimPoint
<1>3. drop \in 0..Len(s)
  BY <1>1, <1>2
<1>4. Trimmed(c, s) = SubSeq(s, drop + 1, Len(s))
  BY DEF Trimmed
<1> HIDE DEF drop
<1>5. \A i \in (drop + 1)..Len(s) : s[i] \in Sample
  BY <1>0, <1>3, ElementOfSeq
<1> QED BY <1>0, <1>3, <1>4, <1>5, SubSeqProperties

\* An empty window trips nothing.
LEMMA EmptyStaysClosed ==
    ASSUME NEW c \in BreakerConfig
    PROVE  ~ShouldOpen(c, <<>>)
BY ConfigFields DEF ShouldOpen

\* A new breaker, and one that a round has closed.
LEMMA NewFits ==
    ASSUME NEW c \in BreakerConfig
    PROVE  NewBreaker(c) \in BreakerSet /\ Fits(NewBreaker(c))
<1>1. <<>> \in Seq(Sample)
  OBVIOUS
<1> QED BY <1>1, EmptyStaysClosed DEF NewBreaker, BreakerSet, Fits, BreakerState

\* Time moves ages only, and no trip condition looks at an age.
LEMMA AgeFits ==
    ASSUME NEW b \in BreakerSet, Fits(b)
    PROVE  /\ Age(b) \in BreakerSet /\ Fits(Age(b))
           /\ Age(b).state = b.state /\ Age(b).attempts = b.attempts
<1> DEFINE s == b.samples
           t == [i \in DOMAIN s |-> OlderSample(s[i], b.config.window)]
           o == IF b.state = "open" /\ b.openAge < b.config.resetTimeout THEN b.openAge + 1 ELSE b.openAge
<1>0. s \in Seq(Sample) /\ b.config \in BreakerConfig /\ b.openAge \in Nat
  BY DEF BreakerSet
<1>1. Age(b) = [b EXCEPT !.openAge = o, !.samples = t]
  BY DEF Age
<1>2. Len(s) \in Nat /\ DOMAIN s = 1..Len(s) /\ \A i \in 1..Len(s) : s[i] \in Sample
  BY <1>0, ElementOfSeq, LenProperties
<1>3. \A i \in 1..Len(s) : t[i] \in Sample /\ t[i].outcome = s[i].outcome
  <2>1. b.config.window \in Nat
    BY <1>0, ConfigFields
  <2>2. \A x \in Sample : OlderSample(x, b.config.window) \in Sample
                          /\ OlderSample(x, b.config.window).outcome = x.outcome
    BY <2>1 DEF Sample, OlderSample
  <2> QED BY <1>2, <2>2
<1>4. t \in Seq(Sample) /\ Len(t) = Len(s) /\ DOMAIN t = DOMAIN s
  <2>1. t = [i \in 1..Len(s) |-> t[i]]
    BY <1>2
  <2> HIDE DEF t
  <2>2. t \in [1..Len(s) -> Sample]
    BY <1>3, <2>1
  <2> QED BY <1>2, <2>2, LenProperties, IsASeq
<1>5. o \in Nat
  BY <1>0, ConfigFields
<1> HIDE DEF s, t, o
<1>6. Age(b) \in BreakerSet /\ Age(b).state = b.state /\ Age(b).attempts = b.attempts
      /\ Age(b).successes = b.successes /\ Age(b).config = b.config /\ Age(b).samples = t
  BY <1>1, <1>4, <1>5 DEF BreakerSet
<1>7. Failures(t) = Failures(s)
  <2>1. {i \in DOMAIN t : t[i].outcome = "failure"} = {i \in DOMAIN s : s[i].outcome = "failure"}
    BY <1>2, <1>3, <1>4
  <2> QED BY <2>1 DEF Failures
<1>8. \A n \in Nat \ {0} : n <= Len(s) => 
         ((\A i \in 0..(n - 1) : t[Len(s) - i].outcome = "failure")
            <=> (\A i \in 0..(n - 1) : s[Len(s) - i].outcome = "failure"))
  BY <1>2, <1>3
<1>9. ShouldOpen(b.config, t) <=> ShouldOpen(b.config, s)
  BY <1>0, <1>2, <1>4, <1>7, <1>8, ConfigFields DEF ShouldOpen
<1> QED BY <1>6, <1>9 DEF Fits, s

\* Letting a call through keeps the counters.
LEMMA ProceedFits ==
    ASSUME NEW b \in BreakerSet, Fits(b), Admits(b)
    PROVE  /\ AfterProceed(b) \in BreakerSet /\ Fits(AfterProceed(b))
           /\ b.state = "closed" => AfterProceed(b) = b
           /\ b.state = "open" => AfterProceed(b).attempts = 1
           /\ b.state = "half-open" => AfterProceed(b).attempts = b.attempts + 1
<1>0. /\ b.config \in BreakerConfig /\ b.state \in BreakerState
      /\ b.attempts \in Nat /\ b.successes \in Nat
  BY DEF BreakerSet
<1>p. b.config.halfOpenPermitted \in Nat \ {0}
  BY <1>0, ConfigFields
<1>1. CASE b.state = "closed"
  BY <1>1 DEF AfterProceed
<1>2. CASE b.state = "open"
  <2>1. AfterProceed(b) = [b EXCEPT !.state = "half-open", !.attempts = 1, !.successes = 0]
    BY <1>2 DEF AfterProceed
  <2>2. /\ AfterProceed(b) \in BreakerSet
        /\ AfterProceed(b).state = "half-open" /\ AfterProceed(b).attempts = 1
        /\ AfterProceed(b).successes = 0 /\ AfterProceed(b).config = b.config
    <3> DEFINE x == [b EXCEPT !.state = "half-open"]
               y == [x EXCEPT !.attempts = 1]
    <3>1. x \in BreakerSet /\ x.state = "half-open" /\ x.config = b.config
      BY DEF BreakerSet, BreakerState
    <3>2. AfterProceed(b) = [y EXCEPT !.successes = 0]
      BY <2>1, Zenon
    <3> HIDE DEF x
    <3>3. y \in BreakerSet /\ y.state = "half-open" /\ y.config = b.config /\ y.attempts = 1
      BY <3>1 DEF BreakerSet
    <3> HIDE DEF y
    <3> QED BY <3>2, <3>3 DEF BreakerSet
  <2> QED BY <1>2, <2>2, <1>p DEF Fits
<1>3. CASE b.state = "half-open"
  <2>1. AfterProceed(b) = [b EXCEPT !.attempts = b.attempts + 1]
    BY <1>3 DEF AfterProceed
  <2>2. b.attempts < b.config.halfOpenPermitted
    BY <1>3 DEF Admits
  <2> QED BY <1>0, <1>3, <2>1, <2>2, <1>p DEF BreakerSet, Fits
<1> QED BY <1>0, <1>1, <1>2, <1>3 DEF BreakerState

\* So does recording an outcome, in whatever state the breaker is by then.
LEMMA RecordFits ==
    ASSUME NEW b \in BreakerSet, Fits(b), NEW o \in Outcome
    PROVE  /\ AfterRecord(b, o) \in BreakerSet /\ Fits(AfterRecord(b, o))
           /\ AfterRecord(b, o).state = "half-open" =>
                  b.state = "half-open" /\ AfterRecord(b, o).attempts = b.attempts
<1>0. /\ b.config \in BreakerConfig /\ b.state \in BreakerState /\ b.samples \in Seq(Sample)
      /\ b.attempts \in Nat /\ b.successes \in Nat
  BY DEF BreakerSet
<1>p. b.config.halfOpenPermitted \in Nat \ {0}
  BY <1>0, ConfigFields
<1>1. CASE b.state = "closed"
  <2> DEFINE kept == Trimmed(b.config, Append(b.samples, [age |-> 0, outcome |-> o]))
  <2>1. kept \in Seq(Sample)
    <3>1. [age |-> 0, outcome |-> o] \in Sample
      BY DEF Sample
    <3>2. Append(b.samples, [age |-> 0, outcome |-> o]) \in Seq(Sample)
      BY <1>0, <3>1, AppendProperties
    <3> QED BY <1>0, <3>2, TrimmedType
  <2>2. AfterRecord(b, o) = IF ShouldOpen(b.config, kept)
                            THEN Opened([b EXCEPT !.samples = kept]) ELSE [b EXCEPT !.samples = kept]
    BY <1>1 DEF AfterRecord, RecordClosed
  <2> HIDE DEF kept
  <2>3. CASE ShouldOpen(b.config, kept)
    BY <1>1, <2>1, <2>2, <2>3 DEF BreakerSet, Fits, BreakerState, Opened
  <2>4. CASE ~ShouldOpen(b.config, kept)
    BY <1>1, <2>1, <2>2, <2>4 DEF BreakerSet, Fits
  <2> QED BY <2>3, <2>4
<1>2. CASE b.state = "open"
  <2>1. AfterRecord(b, o) = b
    BY <1>2 DEF AfterRecord
  <2> QED BY <1>2, <2>1
<1>3. CASE b.state = "half-open"
  <2>0. AfterRecord(b, o) = RecordHalfOpen(b, o)
    BY <1>3 DEF AfterRecord
  <2>1. CASE o = "failure"
    <3> DEFINE x == [b EXCEPT !.state = "open"]
               y == [x EXCEPT !.openAge = 0]
               z == [y EXCEPT !.attempts = 0]
    <3>1. Opened(b) = y
      BY Zenon DEF Opened
    <3>2. RecordHalfOpen(b, o) = [Opened(b) EXCEPT !.attempts = 0, !.successes = 0]
      BY <2>1 DEF RecordHalfOpen
    <3>4. AfterRecord(b, o) = [z EXCEPT !.successes = 0]
      BY <2>0, <3>1, <3>2, Zenon
    <3>5. x \in BreakerSet /\ x.state = "open"
      BY DEF BreakerSet, BreakerState
    <3> HIDE DEF x
    <3>6. y \in BreakerSet /\ y.state = "open"
      BY <3>5 DEF BreakerSet
    <3> HIDE DEF y
    <3>7. z \in BreakerSet /\ z.state = "open" /\ z.attempts = 0
      BY <3>6 DEF BreakerSet
    <3> HIDE DEF z
    <3>3. /\ AfterRecord(b, o) \in BreakerSet /\ AfterRecord(b, o).state = "open"
          /\ AfterRecord(b, o).attempts = 0 /\ AfterRecord(b, o).successes = 0
      BY <3>4, <3>7 DEF BreakerSet
    <3> QED BY <3>3 DEF Fits
  <2>2. CASE o # "failure" /\ b.successes + 1 >= b.config.halfOpenPermitted
    <3>1. AfterRecord(b, o) = NewBreaker(b.config)
      <4>1. o = "success"
        BY <2>2 DEF Outcome
      <4> QED BY <2>0, <2>2, <4>1 DEF RecordHalfOpen
    <3>2. NewBreaker(b.config).state = "closed"
      BY DEF NewBreaker
    <3> QED BY <1>0, <3>1, <3>2, NewFits
  <2>3. CASE o # "failure" /\ ~(b.successes + 1 >= b.config.halfOpenPermitted)
    <3>1. AfterRecord(b, o) = [b EXCEPT !.successes = b.successes + 1]
      BY <2>0, <2>3 DEF RecordHalfOpen
    <3> QED BY <1>0, <1>p, <1>3, <2>3, <3>1 DEF BreakerSet, Fits
  <2> QED BY <2>1, <2>2, <2>3
<1> QED BY <1>0, <1>1, <1>2, <1>3 DEF BreakerState

\* A call that ends leaves no more trials than there were.
LEMMA TrialEnds ==
    ASSUME CallsInv, NEW c \in Caller, flight' = [flight EXCEPT ![c] = "none"]
    PROVE  /\ flight' \in [Caller -> {"none", "normal", "trial"}]
           /\ IsFiniteSet(Trials') /\ Cardinality(Trials') <= Cardinality(Trials)
           /\ Cardinality(Trials') \in Nat /\ Cardinality(Trials) \in Nat
<1>1. Trials' \in SUBSET Trials
  BY DEF CallsInv, Trials
<1>2. flight' \in [Caller -> {"none", "normal", "trial"}]
  BY DEF CallsInv
<1>3. IsFiniteSet(Trials') /\ Cardinality(Trials') <= Cardinality(Trials)
  BY <1>1, FS_Subset DEF CallsInv
<1> QED BY <1>2, <1>3, FS_CardinalityType DEF CallsInv

\* Every step of a caller, and time, keep the invariant.
LEMMA CallsStep == CallsInv /\ [CallsNext]_callVars => CallsInv'
<1> SUFFICES ASSUME CallsInv, [CallsNext]_callVars PROVE CallsInv'
  OBVIOUS
<1>0. breaker \in BreakerSet /\ Fits(breaker) /\ breaker.attempts \in Nat
      /\ breaker.state \in BreakerState
  BY DEF CallsInv, BreakerSet
<1>1. ASSUME NEW c \in Caller, Proceed(c) PROVE CallsInv'
  <2>1. breaker' = AfterProceed(breaker) /\ Admits(breaker)
    BY <1>1 DEF Proceed
  <2>2. breaker' \in BreakerSet /\ Fits(breaker')
    BY <1>0, <2>1, ProceedFits
  <2>3. flight' \in [Caller -> {"none", "normal", "trial"}]
    BY <1>1 DEF Proceed, CallsInv
  <2>4. CASE breaker.state = "closed"
    <3>1. Trials' = Trials
      BY <1>1, <2>4 DEF Proceed, Trials, CallsInv
    <3>2. breaker' = breaker
      BY <1>0, <2>1, <2>4, ProceedFits
    <3> QED BY <2>2, <2>3, <2>4, <3>1, <3>2 DEF CallsInv
  <2>5. CASE breaker.state = "open"
    <3>1. Trials' = {c}
      BY <1>1, <2>5 DEF Proceed, Trials, CallsInv
    <3>2. IsFiniteSet(Trials') /\ Cardinality(Trials') = 1
      BY <3>1, FS_Singleton
    <3>3. breaker'.attempts = 1
      BY <1>0, <2>1, <2>5, ProceedFits
    <3> QED BY <2>2, <2>3, <3>2, <3>3 DEF CallsInv
  <2>6. CASE breaker.state = "half-open"
    <3>1. Trials' = Trials \cup {c} /\ c \notin Trials
      BY <1>1, <2>6 DEF Proceed, Trials, CallsInv
    <3>2. IsFiniteSet(Trials') /\ Cardinality(Trials') = Cardinality(Trials) + 1
      BY <3>1, FS_AddElement DEF CallsInv
    <3>3. breaker'.attempts = breaker.attempts + 1
      BY <1>0, <2>1, <2>6, ProceedFits
    <3>4. Cardinality(Trials) \in Nat /\ Cardinality(Trials) <= breaker.attempts
      BY <2>6, FS_CardinalityType DEF CallsInv
    <3>5. Cardinality(Trials') <= breaker'.attempts
      BY <1>0, <3>2, <3>3, <3>4
    <3> QED BY <2>2, <2>3, <3>2, <3>5 DEF CallsInv
  <2> QED BY <1>0, <2>4, <2>5, <2>6 DEF BreakerState
<1>2. ASSUME NEW c \in Caller, NEW o \in Outcome, Record(c, o) PROVE CallsInv'
  <2>1. breaker' = AfterRecord(breaker, o) /\ flight' = [flight EXCEPT ![c] = "none"]
    BY <1>2 DEF Record
  <2>2. breaker' \in BreakerSet /\ Fits(breaker')
        /\ (breaker'.state = "half-open" =>
               breaker.state = "half-open" /\ breaker'.attempts = breaker.attempts)
    BY <1>0, <2>1, RecordFits
  <2>3. /\ flight' \in [Caller -> {"none", "normal", "trial"}]
        /\ IsFiniteSet(Trials') /\ Cardinality(Trials') <= Cardinality(Trials)
        /\ Cardinality(Trials') \in Nat /\ Cardinality(Trials) \in Nat
    BY <2>1, TrialEnds
  <2>4. breaker'.state = "half-open" => Cardinality(Trials') <= breaker'.attempts
    BY <1>0, <2>2, <2>3 DEF CallsInv
  <2> QED BY <2>2, <2>3, <2>4 DEF CallsInv
<1>3. ASSUME NEW c \in Caller, Drop(c) PROVE CallsInv'
  <2>1. breaker' = breaker /\ flight' = [flight EXCEPT ![c] = "none"]
    BY <1>3 DEF Drop
  <2>3. /\ flight' \in [Caller -> {"none", "normal", "trial"}]
        /\ IsFiniteSet(Trials') /\ Cardinality(Trials') <= Cardinality(Trials)
        /\ Cardinality(Trials') \in Nat /\ Cardinality(Trials) \in Nat
    BY <2>1, TrialEnds
  <2>4. breaker'.state = "half-open" => Cardinality(Trials') <= breaker'.attempts
    BY <1>0, <2>1, <2>3 DEF CallsInv
  <2> QED BY <1>0, <2>1, <2>3, <2>4 DEF CallsInv
<1>4. CASE BreakerTick
  <2>1. breaker' = Age(breaker) /\ flight' = flight
    BY <1>4 DEF BreakerTick
  <2>2. Trials' = Trials
    BY <2>1 DEF Trials
  <2> QED BY <1>0, <2>1, <2>2, AgeFits DEF CallsInv
<1>5. CASE UNCHANGED callVars
  BY <1>5 DEF callVars, CallsInv, Trials
<1> QED BY <1>1, <1>2, <1>3, <1>4, <1>5 DEF CallsNext

\* The inductive invariant of the breaker and its callers.
THEOREM CallsInvariant == CallsSpec => []CallsInv
<1>1. CallsInit => CallsInv
  <2> SUFFICES ASSUME CallsInit PROVE CallsInv
    OBVIOUS
  <2>1. breaker \in BreakerSet /\ Fits(breaker) /\ breaker.state = "closed"
    <3>1. PICK config \in Configs : breaker = NewBreaker(config)
      BY DEF CallsInit
    <3>2. config \in BreakerConfig
      BY CallsAssumption
    <3> QED BY <3>1, <3>2, NewFits DEF NewBreaker
  <2>2. Trials = {}
    BY DEF CallsInit, Trials
  <2> QED BY <2>1, <2>2, FS_EmptySet DEF CallsInit, CallsInv
<1> QED BY <1>1, CallsStep, PTL DEF CallsSpec

\* Whatever is recorded late, permits are counted in half-open rounds only
\* and a round that is on has successes missing.
THEOREM CountersFit == CallsSpec => []CountersFitState
<1>1. CallsInv => CountersFitState
  BY DEF CallsInv, CountersFitState, Fits, BreakerSet
<1> QED BY <1>1, CallsInvariant, PTL

\* can_proceed_at never lets more trials into a round than it permits.
THEOREM TrialsWithinPermits == CallsSpec => []TrialsBounded
<1>1. CallsInv => TrialsBounded
  <2> SUFFICES ASSUME CallsInv, breaker.state = "half-open"
               PROVE  Cardinality(Trials) <= breaker.config.halfOpenPermitted
    BY DEF TrialsBounded, Trials
  <2>1. Cardinality(Trials) \in Nat /\ breaker.config \in BreakerConfig
    BY FS_CardinalityType DEF CallsInv, BreakerSet
  <2> QED BY <2>1, ConfigFields DEF CallsInv, Fits
<1> QED BY <1>1, CallsInvariant, PTL

\* record_at trips a closed breaker at once: no window that should have
\* tripped it is left, with every configuration.
THEOREM ClosedIsBelow == CallsSpec => []ClosedBelowThreshold
<1>1. CallsInv => ClosedBelowThreshold
  BY DEF CallsInv, ClosedBelowThreshold, Fits
<1> QED BY <1>1, CallsInvariant, PTL

-----------------------------------------------------------------------------
(* The rate limiters *)

\* Nobody takes tokens at an instant read before somebody else's: the calls
\* read the clock under the lock, or there is one thread.
Early == {"consume", "available"}
TokensInOrder == (\A t \in Thread, u \in Thread : t = u) \/ Early \cap Calls = {}

\* The type of both buckets and of the calls under way.
RateType ==
    /\ clock \in Nat /\ tokens \in Nat /\ lastRefill \in Nat
    /\ level \in Nat /\ lastLeak \in Nat /\ taken \in Nat /\ offered \in Nat
    /\ thread \in [Thread -> [call : Calls \cup {"none"}, at : Nat]]
    /\ \A t \in Thread : thread[t].at <= clock
    /\ lastRefill <= clock /\ lastLeak <= clock

\* A thread's instant is not before the last refill it will be compared to.
TokenInv ==
    /\ tokens <= Capacity
    /\ tokens + taken <= Capacity + Refill * lastRefill
    /\ \A t \in Thread : thread[t].call \in Early => lastRefill <= thread[t].at

\* Products grow with their factors.
LEMMA Grows == 
    ASSUME NEW k \in Nat, NEW a \in Nat, NEW b \in Nat, a <= b 
    PROVE  k * a <= k * b /\ k * a \in Nat /\ k * b \in Nat /\ k * b = k * a + (b - a) * k /\ (b - a) * k \in Nat
<1>1. PICK d \in Nat : b = a + d
  <2>1. b - a \in Nat /\ b = a + (b - a)
    OBVIOUS
  <2> QED BY <2>1
<1>2. k * d \in Nat /\ k * a \in Nat /\ k * (a + d) = k * a + k * d /\ (b - a) * k = k * d
  BY <1>1
<1> QED BY <1>1, <1>2

\* Both buckets are counters, and no instant in use is in the future.
LEMMA RateTyped == RateSpec => []RateType
<1> USE RateAssumption
<1>1. RateInit => RateType
  BY DEF RateInit, RateType, NotCalling
<1>2. ASSUME RateType, [RateNext]_rateVars PROVE RateType'
  <2> USE <1>2 
  <2>1. ASSUME NEW t \in Thread, NEW call \in Calls, ReadInstant(t, call) PROVE RateType'
    BY <2>1 DEF ReadInstant, RateType, bucket, leaky
  <2>2. ASSUME NEW i \in Nat, NEW n \in Amounts, i <= clock, Take(i, n), thread' \in [Thread -> [call : Calls \cup {"none"}, at : Nat]],
               \A t \in Thread : thread'[t].at <= clock, UNCHANGED <<clock, leaky, offered>>
        PROVE  RateType'
    <3>0. Since(i, lastRefill) \in Nat
      BY <2>2 DEF Since, Most, RateType
    <3>1. Since(i, lastRefill) * Refill \in Nat
      BY <3>0 
    <3>2. Refilled(i) \in Nat
      BY <3>1 DEF Refilled, Least, RateType
    <3>3. tokens' \in Nat /\ taken' \in Nat
      BY <2>2, <3>2 DEF Take, RateType
    <3> QED BY <2>2, <3>3 DEF Take, RateType, leaky
  <2>3. ASSUME NEW t \in Thread, TryConsume(t) PROVE RateType'
    <3>1. thread' \in [Thread -> [call : Calls \cup {"none"}, at : Nat]] /\ \A x \in Thread : thread'[x].at <= clock
      BY <2>3 DEF TryConsume, RateType, NotCalling
    <3> QED BY <2>2, <2>3, <3>1 DEF TryConsume, RateType
  <2>4. ASSUME NEW t \in Thread, AcquireToken(t) PROVE RateType'
    BY <2>2, <2>4 DEF AcquireToken, RateType
  <2>5. ASSUME NEW t \in Thread, TryOffer(t) PROVE RateType'
    <3>0. Since(thread[t].at, lastLeak) \in Nat
      BY DEF Since, Most, RateType
    <3>1. Since(thread[t].at, lastLeak) * Leak \in Nat
      BY <3>0 
    <3>2. Drained(thread[t].at) \in Nat
      BY <3>1 DEF Drained, Most, RateType
    <3>3. thread' \in [Thread -> [call : Calls \cup {"none"}, at : Nat]] /\ \A x \in Thread : thread'[x].at <= clock
      BY <2>5 DEF TryOffer, RateType, NotCalling
    <3> QED BY <2>5, <3>2, <3>3 DEF TryOffer, RateType, bucket
  <2>8. ASSUME NEW t \in Thread, AvailableAt(t) PROVE RateType'
    <3>0. Since(thread[t].at, lastRefill) \in Nat
      BY DEF Since, Most, RateType
    <3>1. Since(thread[t].at, lastRefill) * Refill \in Nat
      BY <3>0
    <3>2. Refilled(thread[t].at) \in Nat
      BY <3>1 DEF Refilled, Least, RateType
    <3>3. thread' \in [Thread -> [call : Calls \cup {"none"}, at : Nat]] /\ \A x \in Thread : thread'[x].at <= clock
      BY <2>8 DEF AvailableAt, RateType, NotCalling
    <3> QED BY <2>8, <3>2, <3>3 DEF AvailableAt, RateType, leaky
  <2>9. ASSUME NEW t \in Thread, LevelAt(t) PROVE RateType'
    <3>0. Since(thread[t].at, lastLeak) \in Nat
      BY DEF Since, Most, RateType
    <3>1. Since(thread[t].at, lastLeak) * Leak \in Nat
      BY <3>0
    <3>2. Drained(thread[t].at) \in Nat
      BY <3>1 DEF Drained, Most, RateType
    <3>3. thread' \in [Thread -> [call : Calls \cup {"none"}, at : Nat]] /\ \A x \in Thread : thread'[x].at <= clock
      BY <2>9 DEF LevelAt, RateType, NotCalling
    <3> QED BY <2>9, <3>2, <3>3 DEF LevelAt, RateType, bucket
  <2>6. CASE RateTick
    BY <2>6 DEF RateTick, RateType, bucket, leaky
  <2>7. CASE UNCHANGED rateVars
    BY <2>7 DEF rateVars, RateType, bucket, leaky
  <2> QED BY <2>1, <2>3, <2>4, <2>5, <2>6, <2>7, <2>8, <2>9 DEF RateNext
<1> QED BY <1>1, <1>2, PTL DEF RateSpec

\* Refilling at an instant not before the last refill balances, and so does
\* taking tokens then.
LEMMA TakeBalances ==
    ASSUME RateType, TokenInv, NEW i \in Nat, lastRefill <= i, NEW n \in Nat, lastRefill' = i,
           \/ tokens' = Refilled(i) - n /\ taken' = taken + n
           \/ tokens' = Refilled(i) /\ taken' = taken
    PROVE  tokens' <= Capacity /\ tokens' + taken' <= Capacity + Refill * lastRefill'
<1> USE RateAssumption
<1> DEFINE d == Since(i, lastRefill) * Refill
<1>1. Since(i, lastRefill) = i - lastRefill
  BY DEF Since, Most, RateType
<1>2. Refill * i = Refill * lastRefill + d /\ d \in Nat /\ Refill * lastRefill \in Nat /\ Refill * i \in Nat
  <2>1. lastRefill \in Nat /\ Refill \in Nat
    BY DEF RateType
  <2>2. Refill * i = Refill * lastRefill + (i - lastRefill) * Refill
        /\ (i - lastRefill) * Refill \in Nat /\ Refill * lastRefill \in Nat /\ Refill * i \in Nat
    BY <2>1, Grows
  <2>3. d = (i - lastRefill) * Refill
    BY <1>1
  <2> HIDE DEF d
  <2> QED BY <2>2, <2>3, Zenon
<1>3. Refilled(i) = Least(tokens + d, Capacity)
  BY DEF Refilled
<1> HIDE DEF d
<1>7. d \in Nat /\ Capacity \in Nat /\ tokens \in Nat
  BY <1>2 DEF RateType
<1>4. Refilled(i) \in Nat /\ Refilled(i) <= Capacity /\ Refilled(i) <= tokens + d
  <2> HIDE RateAssumption
  <2> QED BY <1>3, <1>7 DEF Least
<1> QED BY <1>2, <1>4 DEF TokenInv, RateType

\* The token account balances as long as instants arrive in order.
LEMMA TokenInvariant ==
    ASSUME TokensInOrder PROVE RateSpec => []TokenInv
<1> USE RateAssumption
<1>1. RateInit => TokenInv
  BY DEF RateInit, TokenInv, NotCalling, Early
<1>2. ASSUME RateType, TokenInv, [RateNext]_rateVars PROVE TokenInv'
  <2>1. ASSUME NEW t \in Thread, NEW call \in Calls, ReadInstant(t, call) PROVE TokenInv'
    BY <1>2, <2>1 DEF ReadInstant, TokenInv, RateType, bucket
  <2>2. ASSUME NEW t \in Thread, thread[t].call \in Early, thread' = [thread EXCEPT ![t] = NotCalling]
        PROVE  \A x \in Thread : thread'[x].call \notin Early
    <3>1. \A x \in Thread : x = t
      BY <1>2, <2>2 DEF TokensInOrder, RateType, Early
    <3> QED BY <1>2, <2>2, <3>1 DEF RateType, NotCalling, Early
  <2>3. ASSUME NEW t \in Thread, TryConsume(t) PROVE TokenInv'
    <3>1. PICK n \in Amounts : Take(thread[t].at, n)
      BY <2>3 DEF TryConsume
    <3>2. thread[t].at \in Nat /\ lastRefill <= thread[t].at /\ n \in Nat
      BY <1>2, <2>3 DEF TryConsume, TokenInv, RateType, Early
    <3>3. tokens' <= Capacity /\ tokens' + taken' <= Capacity + Refill * lastRefill'
      BY <1>2, <3>1, <3>2, TakeBalances DEF Take
    <3>4. \A x \in Thread : thread'[x].call \notin Early
      BY <2>2, <2>3 DEF TryConsume, Early
    <3> QED BY <3>3, <3>4 DEF TokenInv
  <2>8. ASSUME NEW t \in Thread, AvailableAt(t) PROVE TokenInv'
    <3>2. thread[t].at \in Nat /\ lastRefill <= thread[t].at
      BY <1>2, <2>8 DEF AvailableAt, TokenInv, RateType, Early
    <3>3. tokens' <= Capacity /\ tokens' + taken' <= Capacity + Refill * lastRefill'
      <4>1. tokens' = Refilled(thread[t].at) /\ taken' = taken /\ lastRefill' = thread[t].at
        BY <2>8 DEF AvailableAt
      <4> QED BY <1>2, <3>2, <4>1, 0 \in Nat, TakeBalances
    <3>4. \A x \in Thread : thread'[x].call \notin Early
      BY <2>2, <2>8 DEF AvailableAt, Early
    <3> QED BY <3>3, <3>4 DEF TokenInv
  <2>4. ASSUME NEW t \in Thread, AcquireToken(t) PROVE TokenInv'
    <3>1. PICK n \in Amounts : Take(clock, n)
      BY <2>4 DEF AcquireToken
    <3>2. clock \in Nat /\ lastRefill <= clock /\ n \in Nat
      BY <1>2 DEF RateType
    <3>3. tokens' <= Capacity /\ tokens' + taken' <= Capacity + Refill * lastRefill'
      BY <1>2, <3>1, <3>2, TakeBalances DEF Take
    <3>4. \A x \in Thread : thread'[x].call \notin Early
      BY <1>2, <2>4 DEF AcquireToken, TokensInOrder, RateType, NotCalling, Early
    <3> QED BY <3>3, <3>4 DEF TokenInv
  <2>9. ASSUME NEW t \in Thread, LevelAt(t) PROVE TokenInv'
    BY <1>2, <2>9 DEF LevelAt, TokenInv, RateType, bucket, NotCalling, Early
  <2>5. ASSUME NEW t \in Thread, TryOffer(t) PROVE TokenInv'
    BY <1>2, <2>5 DEF TryOffer, TokenInv, RateType, bucket, NotCalling, Early
  <2>6. CASE RateTick
    BY <1>2, <2>6 DEF RateTick, TokenInv, bucket
  <2>7. CASE UNCHANGED rateVars
    BY <1>2, <2>7 DEF rateVars, TokenInv, bucket
  <2> QED BY <1>2, <2>1, <2>3, <2>4, <2>5, <2>6, <2>7, <2>8, <2>9 DEF RateNext
<1> QED BY <1>1, <1>2, RateTyped, PTL DEF RateSpec

\* refill_locked never credits a stretch of time twice, and never more than
\* the capacity, if nobody's clock reading is overtaken on its way to the lock.
THEOREM TokensBalance == ASSUME TokensInOrder PROVE RateSpec => []AccountBalances
<1>1. RateType /\ TokenInv => AccountBalances
  BY RateAssumption DEF RateType, TokenInv, AccountBalances
<1> QED BY <1>1, RateTyped, TokenInvariant, PTL

-----------------------------------------------------------------------------
(* The leader lease *)

\* The type of the lease manager's state and of the replicas' own.
LeaseType ==
    /\ now \in 0..MaxTime
    /\ lease \in [holder : Replica \cup {NoHolder}, expires : Nat, revision : Nat]
    /\ nextRevision \in Nat
    /\ at \in [Replica -> Nat]
    /\ role \in [Replica -> {"leader", "standby"}]
    /\ grant \in [Replica -> [until : Nat, revision : Nat]]

\* An instant a replica has read is not in the future.
ReadIsPast == \A r \in Replica : at[r] # NotRead => at[r] <= now

\* The holder has the lease as its grant; every other grant has run out.
HolderHasGrant ==
    \A r \in Replica :
        IF lease.holder = r
        THEN grant[r] = [until |-> lease.expires, revision |-> lease.revision]
        ELSE grant[r].until <= now

\* A grant's revision is its own, one the manager has given out.
GrantsOwnRevision ==
    /\ \A r \in Replica : grant[r] # NoGrant => grant[r].revision \in 1..nextRevision
    /\ \A a, b \in Replica :
          (a # b /\ grant[a] # NoGrant /\ grant[b] # NoGrant) => grant[a].revision # grant[b].revision

\* Without a holder there is no revision to find either.
LeaseOfHolder ==
    /\ lease.holder = NoHolder => lease.revision = 0
    /\ lease.holder # NoHolder => lease.revision # 0 

\* The inductive invariant of the lease manager and the electors.
LeaseInv == LeaseType /\ ReadIsPast /\ HolderHasGrant /\ GrantsOwnRevision /\ LeaseOfHolder

\* The lease manager starts with no lease and no grant.
LEMMA LeaseStart == LeaseInit => LeaseInv
BY LeaseAssumption DEF LeaseInit, LeaseInv, LeaseType, ReadIsPast, HolderHasGrant, GrantsOwnRevision,
    LeaseOfHolder, Free, NoGrant, NotRead

\* No step of a replica or of the clock gives two replicas unexpired grants.
LEMMA LeaseStep == LeaseInv /\ [LeaseNext]_leaseVars => LeaseInv'
<1> USE LeaseAssumption
<1> SUFFICES ASSUME LeaseInv, [LeaseNext]_leaseVars PROVE LeaseInv'
  OBVIOUS
<1> USE DEF LeaseInv
<1>1. ASSUME NEW r \in Replica, ReadClock(r) PROVE LeaseInv'
  BY <1>1 DEF ReadClock, LeaseType, ReadIsPast, HolderHasGrant, GrantsOwnRevision, LeaseOfHolder,
      NotRead, NoGrant
<1>2. ASSUME NEW r \in Replica, Acquire(r) PROVE LeaseInv'
  <2>0. at[r] <= now /\ at[r] \in Nat /\ at' = [at EXCEPT ![r] = NotRead] /\ now' = now
    BY <1>2 DEF Acquire, CallWith, ReadIsPast, LeaseType
  <2>1. CASE lease.holder \notin {NoHolder, r} /\ lease.expires > at[r]
    BY <1>2, <2>0, <2>1 DEF Acquire, LeaseType, ReadIsPast, HolderHasGrant, GrantsOwnRevision,
      LeaseOfHolder, NotRead, NoGrant
  <2>2. CASE ~(lease.holder \notin {NoHolder, r} /\ lease.expires > at[r])
    <3>1. /\ nextRevision' = nextRevision + 1
          /\ lease' = [holder |-> r, expires |-> at[r] + Ttl, revision |-> nextRevision + 1]
          /\ role' = [role EXCEPT ![r] = "leader"]
          /\ grant' = [grant EXCEPT ![r] = [until |-> at[r] + Ttl, revision |-> nextRevision + 1]]
      BY <1>2, <2>2 DEF Acquire
    <3>2. LeaseType' /\ ReadIsPast' /\ LeaseOfHolder'
      BY <3>1, <2>0 DEF LeaseType, ReadIsPast, LeaseOfHolder, NotRead
    <3>3. HolderHasGrant'
      BY <3>1, <2>0, <2>2 DEF LeaseType, HolderHasGrant
    <3>4. GrantsOwnRevision'
      BY <3>1, <2>0 DEF LeaseType, GrantsOwnRevision, NoGrant
    <3> QED BY <3>2, <3>3, <3>4
  <2> QED BY <2>1, <2>2
<1>3. ASSUME NEW r \in Replica, Renew(r) PROVE LeaseInv'
  <2>0. at[r] <= now /\ at[r] \in Nat /\ at' = [at EXCEPT ![r] = NotRead] /\ now' = now
        /\ nextRevision' = nextRevision
    BY <1>3 DEF Renew, CallWith, ReadIsPast, LeaseType
  <2>1. CASE lease.holder = r
    <3>1. /\ lease' = [lease EXCEPT !.expires = at[r] + Ttl]
          /\ grant' = [grant EXCEPT ![r].until = at[r] + Ttl]
          /\ role' = role
      BY <1>3, <2>1 DEF Renew
    <3>2. LeaseType' /\ ReadIsPast' /\ LeaseOfHolder'
      BY <3>1, <2>0 DEF LeaseType, ReadIsPast, LeaseOfHolder, NotRead
    <3>3. HolderHasGrant'
      BY <3>1, <2>0, <2>1 DEF LeaseType, HolderHasGrant
    <3>5. \A x \in Replica : grant'[x].revision = grant[x].revision /\ (x # r => grant'[x] = grant[x])
      BY <3>1 DEF LeaseType
    <3>6. grant[r] # NoGrant
      BY <2>1 DEF LeaseOfHolder, HolderHasGrant, NoGrant, LeaseType
    <3>4. GrantsOwnRevision'
      BY <3>5, <3>6, <2>0 DEF GrantsOwnRevision
    <3> QED BY <3>2, <3>3, <3>4
  <2>2. CASE lease.holder # r
    <3>1. /\ role' = [role EXCEPT ![r] = "standby"]
          /\ grant' = [grant EXCEPT ![r] = NoGrant]
          /\ lease' = lease
      BY <1>3, <2>2 DEF Renew
    <3> QED BY <3>1, <2>0, <2>2 DEF LeaseType, ReadIsPast, HolderHasGrant, GrantsOwnRevision,
      LeaseOfHolder, NotRead, NoGrant
  <2> QED BY <2>1, <2>2
<1>4. ASSUME NEW r \in Replica, Release(r) PROVE LeaseInv'
  <2>1. /\ lease' = (IF lease.holder = r THEN Free ELSE lease)
        /\ grant' = [grant EXCEPT ![r] = NoGrant]
        /\ now' = now /\ nextRevision' = nextRevision /\ at' = at
        /\ role' = [role EXCEPT ![r] = "standby"]
    BY <1>4 DEF Release
  <2> QED BY <2>1 DEF LeaseType, ReadIsPast, HolderHasGrant, GrantsOwnRevision,
      LeaseOfHolder, NoGrant, Free
<1>5. ASSUME NEW r \in Replica, Sweep(r) PROVE LeaseInv'
  <2>0. at[r] <= now /\ at[r] \in Nat /\ at' = [at EXCEPT ![r] = NotRead] /\ now' = now
        /\ nextRevision' = nextRevision /\ grant' = grant /\ role' = role
        /\ lease' = (IF lease.expires > at[r] THEN lease ELSE Free)
    BY <1>5 DEF Sweep, CallWith, ReadIsPast, LeaseType
  <2> QED BY <2>0 DEF LeaseType, ReadIsPast, HolderHasGrant, GrantsOwnRevision,
      LeaseOfHolder, NoGrant, Free, NotRead
<1>6. CASE LeaseTick
  BY <1>6 DEF LeaseTick, LeaseType, ReadIsPast, HolderHasGrant, GrantsOwnRevision,
      LeaseOfHolder, NoGrant, NotRead
<1>7. CASE UNCHANGED leaseVars
  BY <1>7 DEF leaseVars, LeaseType, ReadIsPast, HolderHasGrant, GrantsOwnRevision,
      LeaseOfHolder, NoGrant, NotRead
<1> QED BY <1>1, <1>2, <1>3, <1>4, <1>5, <1>6, <1>7 DEF LeaseNext

\* The inductive invariant of the leader lease.
THEOREM LeaseInvariant == LeaseSpec => []LeaseInv
BY LeaseStart, LeaseStep, PTL DEF LeaseSpec

\* However late replicas call, two of them never hold grants that have not
\* run out.
THEOREM GrantsExclude == LeaseSpec => []OneUnexpiredGrant
<1>1. LeaseInv => OneUnexpiredGrant
  BY LeaseAssumption DEF LeaseInv, LeaseType, HolderHasGrant, OneUnexpiredGrant
<1> QED BY <1>1, LeaseInvariant, PTL

\* A replica that finds its grant's revision on the lease still holds it.
THEOREM RevisionsTell == LeaseSpec => []RevisionTellsTakeover
<1>1. LeaseInv => RevisionTellsTakeover
  <2> SUFFICES ASSUME LeaseInv, NEW r \in Replica, grant[r] # NoGrant,
                      lease.revision = grant[r].revision
               PROVE  lease.holder = r
    BY DEF RevisionTellsTakeover
  <2>1. lease.holder \in Replica
    BY DEF LeaseInv, LeaseType, GrantsOwnRevision, LeaseOfHolder
  <2>2. grant[lease.holder] = [until |-> lease.expires, revision |-> lease.revision]
        /\ lease.revision # 0
    BY <2>1, LeaseAssumption DEF LeaseInv, HolderHasGrant, LeaseOfHolder
  <2> QED BY <2>1, <2>2 DEF LeaseInv, GrantsOwnRevision, NoGrant
<1> QED BY <1>1, LeaseInvariant, PTL

-----------------------------------------------------------------------------
(* The peer registry *)

\* A registry: the members it knows, each with its time of silence.
Registry == UNION {[K -> 0..Silent] : K \in SUBSET Node}

\* TypeOK with what its steps need: the registries as functions, and room
\* for the bumps that timers have decided on.
PeerType ==
    /\ TypeOK
    /\ silence \in [Node -> Registry]
    /\ IsFiniteSet(firing) /\ bumps + Cardinality(firing) <= MaxBumps

\* A registry is a function to ages, on its own domain.
LEMMA RegistryIs ==
    ASSUME NEW s \in Registry
    PROVE  DOMAIN s \subseteq Node /\ s \in [DOMAIN s -> 0..Silent]
<1>1. PICK K \in SUBSET Node : s \in [K -> 0..Silent]
  BY DEF Registry
<1> QED BY <1>1

\* Any function from members to ages is a registry.
LEMMA IsRegistry ==
    ASSUME NEW K \in SUBSET Node, NEW s \in [K -> 0..Silent]
    PROVE  s \in Registry
BY DEF Registry

\* Every registry keeps its own node as long as it only grows.
LEMMA SilenceTyped ==
    ASSUME NEW s \in [Node -> Registry], \A n \in Node : n \in DOMAIN s[n]
    PROVE  \A n \in Node : n \in DOMAIN s[n] /\ s[n] \in [DOMAIN s[n] -> 0..Silent]
BY RegistryIs

\* Each registry starts with its own node and its seeds.
LEMMA PeersStart == Init => PeerType
<1> USE SeedAssumption, TimeAssumption
<1> SUFFICES ASSUME Init PROVE PeerType
  OBVIOUS
<1>1. ASSUME NEW n \in Node PROVE silence[n] \in Registry /\ n \in DOMAIN silence[n]
  <2>1. Seed[n] \cup {n} \in SUBSET Node
    OBVIOUS
  <2>2. silence[n] \in [Seed[n] \cup {n} -> 0..Silent]
    BY DEF Init, Silent
  <2> QED BY <2>1, <2>2, IsRegistry
<1>2. silence \in [Node -> Registry]
  BY <1>1 DEF Init
<1>3. \A n \in Node : n \in DOMAIN silence[n] /\ silence[n] \in [DOMAIN silence[n] -> 0..Silent]
  BY <1>1, <1>2, SilenceTyped
<1>4. IsFiniteSet(firing) /\ Cardinality(firing) = 0
  BY FS_EmptySet DEF Init
<1>5. term \in [Node -> Nat] /\ highest \in [Node -> Nat] /\ bumps = 0 /\ firing = {}
      /\ msgs = {} /\ handlers = {}
  BY DEF Init
<1> HIDE SeedAssumption
<1> QED BY <1>2, <1>3, <1>4, <1>5 DEF PeerType, TypeOK

\* Handlers, timers and member changes keep the registries' types.
LEMMA PeersTypeStep == PeerType /\ [Next]_vars => PeerType'
<1> USE TimeAssumption
<1> SUFFICES ASSUME PeerType, [Next]_vars PROVE PeerType'
  OBVIOUS
<1> USE DEF PeerType
<1>h. ASSUME NEW n \in Node, HeartbeatTick(n) PROVE PeerType'
  <2>1. \A p \in Peers(n) : p \in Node
    BY RegistryIs DEF Peers
  <2>2. msgs' \subseteq Message
    BY <1>h, <2>1 DEF HeartbeatTick, TypeOK, Message
  <2> QED BY <1>h, <2>2 DEF HeartbeatTick, TypeOK
<1>p. ASSUME NEW n \in Node, NEW p \in Node, NEW t \in {"append", "vote"}, PeerCalls(n, p, t) PROVE PeerType'
  <2>1. msgs' \subseteq Message
    BY <1>p DEF PeerCalls, TypeOK, Message
  <2> QED BY <1>p, <2>1 DEF PeerCalls, TypeOK
<1>r. ASSUME NEW m \in msgs, Receive(m) PROVE PeerType'
  <2>1. m \in Message /\ m.to \in Node /\ m.from \in Node
    BY DEF TypeOK, Message
  <2>2. handlers' \subseteq [msg : Message, read : Nat]
    BY <1>r, <2>1 DEF Receive, TypeOK
  <2>3. silence' \in [Node -> Registry] /\ \A n \in Node : DOMAIN silence'[n] = DOMAIN silence[n]
    <3>1. CASE silence' = silence
      BY <3>1
    <3>2. CASE silence' = [silence EXCEPT ![m.to][m.from] = 0]
      <4>1. silence' = [silence EXCEPT ![m.to] = [silence[m.to] EXCEPT ![m.from] = 0]]
        BY <3>2
      <4>2. [silence[m.to] EXCEPT ![m.from] = 0] \in [DOMAIN silence[m.to] -> 0..Silent]
        <5>1. silence[m.to] \in [DOMAIN silence[m.to] -> 0..Silent]
          BY <2>1, RegistryIs
        <5>2. 0 \in 0..Silent
          BY DEF Silent
        <5> QED BY <5>1, <5>2
      <4>3. [silence[m.to] EXCEPT ![m.from] = 0] \in Registry
        BY <4>2, <2>1, RegistryIs, IsRegistry
      <4> QED BY <4>1, <4>2, <4>3, <2>1
    <3> QED BY <3>1, <3>2, <1>r DEF Receive
  <2>4. \A n \in Node : n \in DOMAIN silence'[n] /\ silence'[n] \in [DOMAIN silence'[n] -> 0..Silent]
    BY <2>3, SilenceTyped DEF TypeOK
  <2> QED BY <1>r, <2>2, <2>3, <2>4 DEF Receive, TypeOK
<1>l. ASSUME NEW m \in msgs, Lose(m) PROVE PeerType'
  BY <1>l DEF Lose, TypeOK
<1>a. ASSUME NEW h \in handlers, Adopt(h) PROVE PeerType'
  <2>1. h.msg.term \in Nat /\ h.msg.to \in Node
    BY DEF TypeOK, Message
  <2>2. term' \in [Node -> Nat] /\ highest' \in [Node -> Nat]
    BY <1>a, <2>1 DEF Adopt, SetTerm, TypeOK
  <2> QED BY <1>a, <2>2 DEF Adopt, TypeOK
<1>d. ASSUME NEW n \in Node, NEW p \in Node, AddPeer(n, p) PROVE PeerType'
  <2> DEFINE K == DOMAIN silence[n] \cup {p}
             s == [x \in K |-> IF x = p THEN Silent ELSE silence[n][x]]
  <2>1. silence' = [silence EXCEPT ![n] = s]
    BY <1>d DEF AddPeer
  <2>2. K \in SUBSET Node /\ s \in [K -> 0..Silent]
    BY RegistryIs DEF Silent
  <2>3. s \in Registry
    BY <2>2, IsRegistry
  <2>4. silence' \in [Node -> Registry] /\ \A x \in Node : DOMAIN silence[x] \subseteq DOMAIN silence'[x]
    BY <2>1, <2>2, <2>3
  <2>5. \A x \in Node : x \in DOMAIN silence'[x] /\ silence'[x] \in [DOMAIN silence'[x] -> 0..Silent]
    BY <2>4, SilenceTyped DEF TypeOK
  <2> QED BY <1>d, <2>4, <2>5 DEF AddPeer, TypeOK
<1>f. ASSUME NEW n \in Node, TimerFires(n) PROVE PeerType'
  <2>1. firing' = firing \cup {n} /\ bumps + Cardinality(firing) < MaxBumps
    BY <1>f DEF TimerFires
  <2>2. IsFiniteSet(firing') /\ Cardinality(firing') <= Cardinality(firing) + 1
        /\ Cardinality(firing) \in Nat /\ Cardinality(firing') \in Nat
    <3>1. IsFiniteSet(firing')
          /\ Cardinality(firing') = IF n \in firing THEN Cardinality(firing) ELSE Cardinality(firing) + 1
      BY <2>1, FS_AddElement
    <3>2. Cardinality(firing) \in Nat /\ Cardinality(firing') \in Nat
      BY <3>1, FS_CardinalityType
    <3> QED BY <3>1, <3>2
  <2> QED BY <1>f, <2>1, <2>2 DEF TimerFires, TypeOK
<1>b. ASSUME NEW n \in Node, BumpTerm(n) PROVE PeerType'
  <2>1. firing' = firing \ {n} /\ n \in firing /\ bumps' = bumps + 1
    BY <1>b DEF BumpTerm
  <2>2. IsFiniteSet(firing') /\ Cardinality(firing') = Cardinality(firing) - 1
        /\ Cardinality(firing) \in Nat /\ Cardinality(firing') \in Nat
    BY <2>1, FS_RemoveElement, FS_CardinalityType
  <2>3. term' \in [Node -> Nat] /\ highest' \in [Node -> Nat]
    BY <1>b DEF BumpTerm, SetTerm, TypeOK
  <2>4. bumps' \in 0..MaxBumps /\ bumps' + Cardinality(firing') <= MaxBumps
    BY <2>1, <2>2 DEF TypeOK
  <2> QED BY <1>b, <2>1, <2>2, <2>3, <2>4 DEF BumpTerm, TypeOK
<1>t. CASE Tick
  <2>1. ASSUME NEW n \in Node
        PROVE  silence'[n] \in Registry /\ DOMAIN silence'[n] = DOMAIN silence[n]
    <3>1. silence'[n] = [p \in DOMAIN silence[n] |-> Older(silence[n][p])]
      BY <1>t DEF Tick
    <3>2. silence'[n] \in [DOMAIN silence[n] -> 0..Silent]
      <4>1. silence[n] \in [DOMAIN silence[n] -> 0..Silent]
        BY RegistryIs
      <4>2. \A x \in 0..Silent : Older(x) \in 0..Silent
        BY DEF Older, Silent
      <4> QED BY <3>1, <4>1, <4>2
    <3> QED BY <3>1, <3>2, RegistryIs, IsRegistry
  <2>2. silence' \in [Node -> Registry]
    BY <2>1, <1>t DEF Tick
  <2>3. \A x \in Node : x \in DOMAIN silence'[x] /\ silence'[x] \in [DOMAIN silence'[x] -> 0..Silent]
    BY <2>1, <2>2, SilenceTyped DEF TypeOK
  <2> QED BY <1>t, <2>2, <2>3 DEF Tick, TypeOK
<1>u. CASE UNCHANGED vars
  BY <1>u DEF vars, TypeOK
<1> QED BY <1>h, <1>p, <1>r, <1>l, <1>a, <1>d, <1>f, <1>b, <1>t, <1>u DEF Next

\* Every node stays in its own registry, and timers never bump beyond the
\* bound, however their two steps interleave.
THEOREM PeersTyped == Spec => []TypeOK
<1>1. PeerType => TypeOK
  BY DEF PeerType
<1> QED BY <1>1, PeersStart, PeersTypeStep, PTL DEF Spec

\* No term exceeds the number of timeouts, in whatever order handlers store
\* what they have read.
THEOREM TermsAreTimeouts == Spec => []TermsComeFromTimeouts
<1>1. Init => TermsComeFromTimeouts
  BY DEF Init, TermsComeFromTimeouts
<1>2. ASSUME TypeOK, TermsComeFromTimeouts, [Next]_vars PROVE TermsComeFromTimeouts'
  <2> USE <1>2 DEF TermsComeFromTimeouts
  <2>h. ASSUME NEW n \in Node, HeartbeatTick(n) PROVE TermsComeFromTimeouts'
    BY <2>h DEF HeartbeatTick
  <2>p. ASSUME NEW n \in Node, NEW p \in Node, NEW t \in {"append", "vote"}, PeerCalls(n, p, t)
        PROVE  TermsComeFromTimeouts'
    BY <2>p DEF PeerCalls
  <2>r. ASSUME NEW m \in msgs, Receive(m) PROVE TermsComeFromTimeouts'
    BY <2>r DEF Receive
  <2>l. ASSUME NEW m \in msgs, Lose(m) PROVE TermsComeFromTimeouts'
    BY <2>l DEF Lose
  <2>a. ASSUME NEW h \in handlers, Adopt(h) PROVE TermsComeFromTimeouts'
    BY <2>a DEF Adopt, SetTerm, TypeOK, Message
  <2>d. ASSUME NEW n \in Node, NEW p \in Node, AddPeer(n, p) PROVE TermsComeFromTimeouts'
    BY <2>d DEF AddPeer
  <2>f. ASSUME NEW n \in Node, TimerFires(n) PROVE TermsComeFromTimeouts'
    BY <2>f DEF TimerFires
  <2>b. ASSUME NEW n \in Node, BumpTerm(n) PROVE TermsComeFromTimeouts'
    <3>1. bumps \in Nat /\ bumps' = bumps + 1 /\ \A m \in msgs : m.term \in Nat
      BY <2>b DEF BumpTerm, TypeOK, Message
    <3>2. \A h \in handlers : h.msg.term \in Nat
      BY DEF TypeOK, Message
    <3>3. \A x \in Node : term'[x] <= bumps'
      BY <2>b, <3>1 DEF BumpTerm, SetTerm, TypeOK
    <3> QED BY <2>b, <3>1, <3>2, <3>3 DEF BumpTerm
  <2>t. CASE Tick
    BY <2>t DEF Tick
  <2>u. CASE UNCHANGED vars
    BY <2>u DEF vars
  <2> QED BY <2>h, <2>p, <2>r, <2>l, <2>a, <2>d, <2>f, <2>b, <2>t, <2>u DEF Next
<1> QED BY <1>1, <1>2, PeersTyped, PTL DEF Spec
=============================================================================
