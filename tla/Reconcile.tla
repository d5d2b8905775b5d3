------------------------------- MODULE Reconcile -------------------------------
(***************************************************************************)
(* cave-kernel's reconcile loop: one task takes keys from a bounded queue  *)
(* and reconciles them one at a time, retrying in place with a backoff;    *)
(* requeued keys come back through a task of their own after a delay.  The *)
(* loop holds a sender of its own queue, so the queue is never closed      *)
(* while the loop runs and rx.recv() never returns None.                   *)
(***************************************************************************)
EXTENDS Naturals, Sequences, SequencesExt

CONSTANTS Key,
          QueueCapacity, MaxAttempts,
          MaxTimers       \* bound: requeue tasks under way

ASSUME ReconcileAssumption ==
    QueueCapacity \in Nat \ {0} /\ MaxAttempts \in Nat \ {0} /\ MaxTimers \in Nat

VARIABLES
    queue,
    loop,        \* the loop: "waiting", "running" a key for the nth time, "ended"
    timers,      \* keys that requeue tasks will send, in no order
    held,        \* somebody outside still holds a ReconcileQueue
    cancelled

loopVars == <<queue, loop, timers, held, cancelled>>

Waiting == [state |-> "waiting", key |-> "none", attempt |-> 0]
Ended == [state |-> "ended", key |-> "none", attempt |-> 0]

LoopInit ==
    /\ queue = <<>> /\ loop = Waiting /\ timers = <<>>
    /\ held = TRUE /\ cancelled = FALSE

\* enqueue waits for room.  (try_enqueue has the same effect or none.)
Enqueue(k) ==
    /\ held /\ loop # Ended /\ Len(queue) < QueueCapacity
    /\ queue' = Append(queue, k)
    /\ UNCHANGED <<loop, timers, held, cancelled>>

DropHandle ==
    /\ held
    /\ held' = FALSE
    /\ UNCHANGED <<queue, loop, timers, cancelled>>

Cancel ==
    /\ ~cancelled
    /\ cancelled' = TRUE
    /\ UNCHANGED <<queue, loop, timers, held>>

\* Mutant: the newest key first.
ReceiveNewest ==
    /\ loop = Waiting /\ ~cancelled /\ queue # <<>>
    /\ loop' = [state |-> "running", key |-> Last(queue), attempt |-> 0]
    /\ queue' = Front(queue)
    /\ UNCHANGED <<timers, held, cancelled>>

\* The biased select looks at the cancellation first.
Receive ==
    /\ loop = Waiting /\ ~cancelled /\ queue # <<>>
    /\ loop' = [state |-> "running", key |-> Head(queue), attempt |-> 0]
    /\ queue' = Tail(queue)
    /\ UNCHANGED <<timers, held, cancelled>>

\* The loop ends and drops its receiver, and with it the queue.
End ==
    /\ loop = Waiting /\ cancelled
    /\ loop' = Ended
    /\ queue' = <<>>
    /\ UNCHANGED <<timers, held, cancelled>>

-----------------------------------------------------------------------------
(* process_one: what reconcile() returned *)

Done ==
    /\ loop.state = "running"
    /\ loop' = Waiting
    /\ UNCHANGED <<queue, timers, held, cancelled>>

Requeue ==
    /\ loop.state = "running" /\ Len(timers) < MaxTimers
    /\ timers' = Append(timers, loop.key)
    /\ loop' = Waiting
    /\ UNCHANGED <<queue, held, cancelled>>

\* Mutant: the attempts start over instead of running out.
RetryForEver ==
    /\ loop.state = "running"
    /\ loop' = [loop EXCEPT !.attempt = IF @ + 1 >= MaxAttempts THEN 0 ELSE @ + 1]
    /\ UNCHANGED <<queue, timers, held, cancelled>>

\* A failure: the backoff and another attempt, or, after max_attempts, the
\* key is given up.
Retry ==
    /\ loop.state = "running"
    /\ loop' = IF loop.attempt + 1 >= MaxAttempts THEN Waiting
               ELSE [loop EXCEPT !.attempt = @ + 1]
    /\ UNCHANGED <<queue, timers, held, cancelled>>

\* A requeue task's delay is over; its send waits for room and fails if the
\* loop is gone.
TimerFires(i) ==
    /\ i \in DOMAIN timers
    /\ loop = Ended \/ Len(queue) < QueueCapacity
    /\ queue' = IF loop = Ended THEN queue ELSE Append(queue, timers[i])
    /\ timers' = RemoveAt(timers, i)
    /\ UNCHANGED <<loop, held, cancelled>>

Work == Done \/ Requeue \/ Retry

LoopNext ==
    \/ \E k \in Key : Enqueue(k)
    \/ DropHandle \/ Cancel \/ Receive \/ End \/ Work
    \/ \E i \in DOMAIN timers : TimerFires(i)

LoopSpec == LoopInit /\ [][LoopNext]_loopVars

-----------------------------------------------------------------------------
(* Properties *)

\* A key in the queue is reconciled, however often other keys are retried
\* and requeued, unless the loop is cancelled.
QueuedIsReconciled ==
    \A k \in Key : Contains(queue, k) ~> (loop.key = k \/ cancelled)

\* Cancellation ends the loop, also out of the middle of a key's retries.
CancelEndsLoop == cancelled ~> (loop = Ended)

\* "the loop terminates when the queue is closed (handle dropped)"
\* (reconcile.rs).
DroppedHandleEndsLoop == ~held ~> (loop = Ended)
=============================================================================
