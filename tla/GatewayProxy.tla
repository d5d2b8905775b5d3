------------------------------ MODULE GatewayProxy ------------------------------
(***************************************************************************)
(* The API gateway's proxy engine: requests pick a target of one upstream  *)
(* and send to it, with retries, each target behind the circuit breaker of *)
(* the registry (consecutive failures trip it).  The balancer's choice and *)
(* the targets' answers are left open; no health probe is configured, so   *)
(* every target counts as healthy.                                         *)
(***************************************************************************)
EXTENDS Breaker

CONSTANTS Target, Request,
          TargetConfig,    \* what the registry makes every breaker with
          Retries          \* service.retries

ASSUME GatewayAssumption ==
    Target # {} /\ Retries \in Nat /\ TargetConfig \in BreakerConfig

VARIABLES
    breakers,    \* target -> its breaker
    alive,       \* target -> whether it answers
    req          \* request slot -> where its request is

gatewayVars == <<breakers, alive, req>>

NoRequest == [step |-> "idle", target |-> "none", attempt |-> 0]

\* Targets are down at first and come back for good.
GatewayInit ==
    /\ breakers = [t \in Target |-> NewBreaker(TargetConfig)]
    /\ alive = [t \in Target |-> FALSE]
    /\ req = [r \in Request |-> NoRequest]

\* pick_endpoint: allow() is asked of every target, and moves or counts in its
\* breaker; if none allows, any target is taken.
Pick(r) ==
    LET allowed == {t \in Target : Admits(breakers[t])}
    IN  /\ req[r].step = "idle"
        /\ breakers' = [t \in Target |-> AfterProceed(breakers[t])]
        /\ \E t \in (IF allowed = {} THEN Target ELSE allowed) :
               req' = [req EXCEPT ![r] = [NoRequest EXCEPT !.step = "ask", !.target = t]]
        /\ UNCHANGED alive

\* Mutant: the last attempt's failure is retried too.
AfterFailureAgain(q) ==
    IF q.attempt <= Retries THEN [q EXCEPT !.step = "ask"] ELSE NoRequest

\* proxy_with_retry: another attempt after its delay, or the last status.
AfterFailure(q) ==
    IF q.attempt < Retries THEN [q EXCEPT !.step = "ask", !.attempt = @ + 1]
    ELSE NoRequest

\* proxy_http asks the breaker again, and sends or fails at once.
Ask(r) ==
    LET t == req[r].target
    IN  /\ req[r].step = "ask"
        /\ breakers' = [breakers EXCEPT ![t] = AfterProceed(@)]
        /\ req' = [req EXCEPT ![r] =
                      IF Admits(breakers[t])
                      THEN [@ EXCEPT !.step = "sent"]
                      ELSE AfterFailure(@)]
        /\ UNCHANGED alive

\* An answer of any status is a success of the target.
Answer(r) ==
    LET t == req[r].target
    IN  /\ req[r].step = "sent" /\ alive[t]
        /\ breakers' = [breakers EXCEPT ![t] = AfterRecord(@, "success")]
        /\ req' = [req EXCEPT ![r] = NoRequest]
        /\ UNCHANGED alive

\* The connection fails or times out.
NoAnswer(r) ==
    LET t == req[r].target
    IN  /\ req[r].step = "sent" /\ ~alive[t]
        /\ breakers' = [breakers EXCEPT ![t] = AfterRecord(@, "failure")]
        /\ req' = [req EXCEPT ![r] = AfterFailure(@)]
        /\ UNCHANGED alive

Recover(t) ==
    /\ ~alive[t]
    /\ alive' = [alive EXCEPT ![t] = TRUE]
    /\ UNCHANGED <<breakers, req>>

GatewayTick ==
    /\ breakers' = [t \in Target |-> Age(breakers[t])]
    /\ UNCHANGED <<alive, req>>

Handle(r) == Ask(r) \/ Answer(r) \/ NoAnswer(r)

GatewayNext ==
    \/ \E r \in Request : Pick(r) \/ Handle(r)
    \/ \E t \in Target : Recover(t)
    \/ GatewayTick

GatewaySpec == GatewayInit /\ [][GatewayNext]_gatewayVars

-----------------------------------------------------------------------------
(* Properties *)

\* Every request gets its response, whatever the breakers say.
RequestsEnd == \A r \in Request : (req[r].step # "idle") ~> (req[r].step = "idle")

\* "HalfOpen -> Closed after success_threshold consecutive successes"
\* (circuit_breaker.rs): the breaker of a target that answers closes.
TargetComesBack ==
    \A t \in Target : (alive[t] /\ breakers[t].state # "closed")
                          ~> (breakers[t].state = "closed")
=============================================================================
