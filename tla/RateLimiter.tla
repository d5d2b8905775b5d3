------------------------------ MODULE RateLimiter ------------------------------
(***************************************************************************)
(* cave-kernel's token bucket and leaky bucket, each shared by several     *)
(* threads.  try_consume, available, try_offer and level read the clock    *)
(* before they take the bucket's lock; acquire reads it under the lock.    *)
(* Time and amounts are whole units.                                       *)
(***************************************************************************)
EXTENDS Integers, FiniteSets

CONSTANTS Thread,
          Capacity, Refill,      \* the token bucket, and its tokens per unit of time
          QueueSize, Leak,       \* the leaky bucket, and what it loses per unit of time
          Calls,                 \* the calls threads make
          Amounts,               \* the tokens they ask for at once
          MaxClock, MaxTaken      \* bounds: the clock, and what was let through

ASSUME RateAssumption ==
    /\ {Capacity, Refill, QueueSize, Leak} \subseteq Nat \ {0}
    /\ Calls \subseteq {"consume", "available", "acquire", "offer", "level"}
    /\ Amounts \subseteq Nat \ {0}
    /\ MaxClock \in Nat /\ MaxTaken \in Nat

VARIABLES
    clock,
    tokens, lastRefill,  \* TokenBucketState
    level, lastLeak,     \* LeakyBucketState
    thread,              \* thread -> its call and the instant it has read
    taken, offered       \* history: tokens taken and offers accepted so far

bucket == <<tokens, lastRefill>>
leaky == <<level, lastLeak>>
rateVars == <<clock, bucket, leaky, thread, taken, offered>>

NotCalling == [call |-> "none", at |-> 0]

RateInit ==
    /\ clock = 0
    /\ tokens = Capacity /\ lastRefill = 0
    /\ level = 0 /\ lastLeak = 0
    /\ thread = [t \in Thread |-> NotCalling]
    /\ taken = 0 /\ offered = 0

Least(a, b) == IF a < b THEN a ELSE b
Most(a, b) == IF a > b THEN a ELSE b

\* saturating_duration_since
Since(at, then) == Most(at - then, 0)

-----------------------------------------------------------------------------

\* Instant::now(), before the lock.
ReadInstant(t, call) ==
    /\ thread[t] = NotCalling /\ call \in Calls \ {"acquire"}
    /\ thread' = [thread EXCEPT ![t] = [call |-> call, at |-> clock]]
    /\ UNCHANGED <<clock, bucket, leaky, taken, offered>>

\* Mutant: the time since the bucket was made is refilled each time.
RefilledFromStart(at) == Least(tokens + at * Refill, Capacity)

\* refill_locked: what elapsed since the last refill, up to the capacity; the
\* last refill becomes the instant given, be it earlier or later.
Refilled(at) == Least(tokens + Since(at, lastRefill) * Refill, Capacity)

\* Take n tokens at the instant `at`, if they are there.
Take(at, n) ==
    /\ taken + n <= MaxTaken
    /\ lastRefill' = at
    /\ IF Refilled(at) >= n
       THEN tokens' = Refilled(at) - n /\ taken' = taken + n
       ELSE tokens' = Refilled(at) /\ UNCHANGED taken

TryConsume(t) ==
    /\ thread[t].call = "consume"
    /\ \E n \in Amounts : Take(thread[t].at, n)
    /\ thread' = [thread EXCEPT ![t] = NotCalling]
    /\ UNCHANGED <<clock, leaky, offered>>

\* available refills too, and moves the last refill.
AvailableAt(t) ==
    LET at == thread[t].at
    IN  /\ thread[t].call = "available"
        /\ tokens' = Refilled(at) /\ lastRefill' = at
        /\ thread' = [thread EXCEPT ![t] = NotCalling]
        /\ UNCHANGED <<clock, leaky, taken, offered>>

\* One round of acquire's loop; it sleeps and comes back if refused.
AcquireToken(t) ==
    /\ thread[t] = NotCalling /\ "acquire" \in Calls
    /\ \E n \in Amounts : Take(clock, n)
    /\ UNCHANGED <<clock, leaky, thread, offered>>

\* drain_locked and the check of try_offer.
Drained(at) == Most(level - Since(at, lastLeak) * Leak, 0)

\* Mutant: the queue is one longer than its size.
TryOfferBeyond(t) ==
    LET at == thread[t].at
        accepts == Drained(at) <= QueueSize
    IN  /\ thread[t].call = "offer" /\ offered < MaxTaken
        /\ lastLeak' = at
        /\ level' = IF accepts THEN Drained(at) + 1 ELSE Drained(at)
        /\ offered' = IF accepts THEN offered + 1 ELSE offered
        /\ thread' = [thread EXCEPT ![t] = NotCalling]
        /\ UNCHANGED <<clock, bucket, taken>>

TryOffer(t) ==
    LET at == thread[t].at
        accepts == Drained(at) + 1 <= QueueSize
    IN  /\ thread[t].call = "offer" /\ offered < MaxTaken
        /\ lastLeak' = at
        /\ level' = IF accepts THEN Drained(at) + 1 ELSE Drained(at)
        /\ offered' = IF accepts THEN offered + 1 ELSE offered
        /\ thread' = [thread EXCEPT ![t] = NotCalling]
        /\ UNCHANGED <<clock, bucket, taken>>

\* level drains too.
LevelAt(t) ==
    LET at == thread[t].at
    IN  /\ thread[t].call = "level"
        /\ level' = Drained(at) /\ lastLeak' = at
        /\ thread' = [thread EXCEPT ![t] = NotCalling]
        /\ UNCHANGED <<clock, bucket, taken, offered>>

RateTick ==
    /\ clock < MaxClock
    /\ clock' = clock + 1
    /\ UNCHANGED <<bucket, leaky, thread, taken, offered>>

RateNext ==
    \/ \E t \in Thread :
           \/ \E call \in Calls : ReadInstant(t, call)
           \/ TryConsume(t) \/ AvailableAt(t) \/ AcquireToken(t)
           \/ TryOffer(t) \/ LevelAt(t)
    \/ RateTick

RateSpec == RateInit /\ [][RateNext]_rateVars

-----------------------------------------------------------------------------
(* Properties *)

\* "fills at refill_per_sec, capped at capacity" (ratelimiter.rs): over any
\* time from the start no more than a full bucket and its refill is taken.
TakenWithinRate == taken <= Capacity + Refill * clock

\* "queue capped at queue_size, drains at leak_per_sec" (ratelimiter.rs).
OfferedWithinRate == offered <= QueueSize + Leak * clock

\* The token account: what is left and what was taken is never more than a
\* full bucket and the refill up to the last refill's instant.
AccountBalances ==
    /\ tokens \in 0..Capacity /\ lastRefill <= clock
    /\ tokens + taken <= Capacity + Refill * lastRefill
=============================================================================
