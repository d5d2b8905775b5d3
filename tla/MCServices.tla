------------------------------ MODULE MCServices ------------------------------
(***************************************************************************)
(* Model-checking instances of what cave-kernel gives every service, and   *)
(* of two of its users: the circuit breaker under concurrent calls and in  *)
(* the gateway's proxy, the rate limiters, the reconcile loop and the      *)
(* leader lease.  The parts share no state: a behaviour belongs to one of  *)
(* them and leaves the others' variables as they start.                    *)
(***************************************************************************)
EXTENDS BreakerCalls, GatewayProxy, RateLimiter, Reconcile, LeaderLease

CONSTANT Parts       \* the parts to be explored
ASSUME PartsAssumption ==
    Parts \subseteq {"breaker", "gateway", "rate", "reconcile", "lease"}

VARIABLE part

services == <<callVars, gatewayVars, rateVars, loopVars, leaseVars>>

\* Two failures in a row, as the gateway's registry is set up.
MCConsecutive ==
    [trip |-> "consecutive", windowKind |-> "count", window |-> 2,
     minimumCalls |-> 1, rate |-> <<1, 1>>, failureCount |-> 2,
     halfOpenPermitted |-> 2, resetTimeout |-> 1]

\* Half of at least three calls within three units of time.
MCRate ==
    [trip |-> "rate", windowKind |-> "time", window |-> 3,
     minimumCalls |-> 3, rate |-> <<1, 2>>, failureCount |-> 1,
     halfOpenPermitted |-> 2, resetTimeout |-> 2]

MCConfigs == {MCConsecutive, MCRate}

Init ==
    /\ part \in Parts
    /\ CallsInit /\ (part # "breaker" => breaker.config = MCRate)
    /\ GatewayInit /\ RateInit /\ LoopInit /\ LeaseInit

Next ==
    /\ UNCHANGED part
    /\ \/ /\ part = "breaker" /\ CallsNext
          /\ UNCHANGED <<gatewayVars, rateVars, loopVars, leaseVars>>
       \/ /\ part = "gateway" /\ GatewayNext
          /\ UNCHANGED <<callVars, rateVars, loopVars, leaseVars>>
       \/ /\ part = "rate" /\ RateNext
          /\ UNCHANGED <<callVars, gatewayVars, loopVars, leaseVars>>
       \/ /\ part = "reconcile" /\ LoopNext
          /\ UNCHANGED <<callVars, gatewayVars, rateVars, leaseVars>>
       \/ /\ part = "lease" /\ LeaseNext
          /\ UNCHANGED <<callVars, gatewayVars, rateVars, loopVars>>

\* Callers of a breaker keep calling and their calls end; the gateway's
\* clients keep coming, its requests are worked on and its targets recover;
\* the reconcile loop is scheduled, reconcile() and its backoff end; time
\* passes.  Each is asked of the behaviours of its own part.
Fairness ==
    /\ WF_callVars(part = "breaker" /\ BreakerTick)
    /\ \A c \in Caller :
          /\ WF_callVars(part = "breaker" /\ Proceed(c))
          /\ WF_callVars(part = "breaker" /\ \E o \in Outcome : Record(c, o))
    /\ WF_gatewayVars(part = "gateway" /\ GatewayTick)
    /\ \A r \in Request :
          /\ WF_gatewayVars(part = "gateway" /\ Pick(r))
          /\ WF_gatewayVars(part = "gateway" /\ Handle(r))
    /\ \A t \in Target : WF_gatewayVars(part = "gateway" /\ Recover(t))
    /\ WF_loopVars(part = "reconcile" /\ Receive)
    /\ WF_loopVars(part = "reconcile" /\ End)
    /\ WF_loopVars(part = "reconcile" /\ Work)

Spec == Init /\ [][Next]_<<part, services>> /\ Fairness
=============================================================================
