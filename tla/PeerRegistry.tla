----------------------------- MODULE PeerRegistry -----------------------------
(***************************************************************************)
(* The peer registry and the legacy heartbeat transport (raft_transport.rs)*)
(* of each member: whom it knows, how long each has been silent, and a term*)
(* counter of its own (RaftCore keeps another).  A handler reads the term  *)
(* when a message arrives and stores the message's term later if it was    *)
(* higher; handlers, the heartbeat loop and the election timer run side by *)
(* side on one registry.                                                   *)
(***************************************************************************)
EXTENDS Integers, FiniteSets

CONSTANTS Node,
          Seed,       \* Seed[n]: the peers cluster.json names to n
          Timeout,    \* the election timeout, in clock ticks
          MaxBumps    \* bound: term bumps in the whole cluster

ASSUME SeedAssumption == Seed \in [Node -> SUBSET Node]
ASSUME TimeAssumption == Timeout \in Nat \ {0} /\ MaxBumps \in Nat

\* Heard from one election timeout ago or longer, or never: the timer does
\* not tell these apart.
Silent == Timeout

VARIABLES
    term,      \* node -> current_term
    silence,   \* node -> known node -> time since last_seen, up to Silent
    msgs,      \* messages on their way
    handlers,  \* handler tasks that have read the term and not compared it
    firing,    \* the nodes whose timer has decided to bump and not yet done so
    bumps,     \* history: how many times any timer bumped
    highest    \* history: node -> the highest term it ever had

vars == <<term, silence, msgs, handlers, firing, bumps, highest>>

Init ==
    /\ term = [n \in Node |-> 0]
    /\ silence = [n \in Node |-> [p \in Seed[n] \cup {n} |-> IF p = n THEN 0 ELSE Silent]]
    /\ msgs = {}
    /\ handlers = {}
    /\ firing = {}
    /\ bumps = 0
    /\ highest = term

Peers(n) == DOMAIN silence[n] \ {n}

\* The messages that are under way or being handled.
Pending == msgs \cup {h.msg : h \in handlers}

SetTerm(n, t) ==
    /\ term' = [term EXCEPT ![n] = t]
    /\ highest' = [highest EXCEPT ![n] = IF t > @ THEN t ELSE @]

\* heartbeat_loop: one tick posts the current term to every known peer.  (In
\* the model the last tick's posts have been answered or failed by then.)
HeartbeatTick(n) ==
    /\ Peers(n) # {}
    /\ \A m \in Pending : m.type # "heartbeat" \/ m.from # n
    /\ msgs' = msgs \cup {[type |-> "heartbeat", from |-> n, to |-> p, term |-> term[n]] : p \in Peers(n)}
    /\ UNCHANGED <<term, silence, handlers, firing, bumps, highest>>

\* An AppendEntries or RequestVote of this wire format: nothing in the
\* repository sends one, a peer may (one at a time in the model).
PeerCalls(n, p, type) ==
    /\ p \in Peers(n)
    /\ \A m \in Pending : m.type = "heartbeat"
    /\ msgs' = msgs \cup {[type |-> type, from |-> n, to |-> p, term |-> term[n]]}
    /\ UNCHANGED <<term, silence, handlers, firing, bumps, highest>>

\* handle_raft_message up to the comparison: the term is read first, then
\* the sender, if known, is noted (a vote request does not count).
Receive(m) ==
    LET n == m.to
    IN  /\ m \in msgs
        /\ msgs' = msgs \ {m}
        /\ handlers' = handlers \cup {[msg |-> m, read |-> term[n]]}
        /\ silence' = IF m.type # "vote" /\ m.from \in DOMAIN silence[n]
                      THEN [silence EXCEPT ![n][m.from] = 0] ELSE silence
        /\ UNCHANGED <<term, firing, bumps, highest>>

\* Mutant: the receiver moves past the term it was sent.
AdoptNext(h) ==
    /\ h \in handlers
    /\ handlers' = handlers \ {h}
    /\ IF h.msg.term > h.read THEN SetTerm(h.msg.to, h.msg.term + 1) ELSE UNCHANGED <<term, highest>>
    /\ UNCHANGED <<silence, msgs, firing, bumps>>

\* Mutant: a higher term is acknowledged and not adopted.
AdoptNothing(h) ==
    /\ h \in handlers
    /\ handlers' = handlers \ {h}
    /\ UNCHANGED <<term, highest, silence, msgs, firing, bumps>>

\* The rest of the handler: store the peer's term if it is above the term
\* that was read.
Adopt(h) ==
    /\ h \in handlers
    /\ handlers' = handlers \ {h}
    /\ IF h.msg.term > h.read THEN SetTerm(h.msg.to, h.msg.term) ELSE UNCHANGED <<term, highest>>
    /\ UNCHANGED <<silence, msgs, firing, bumps>>

\* A heartbeat that fails is logged and forgotten.
Lose(m) ==
    /\ m \in msgs
    /\ msgs' = msgs \ {m}
    /\ UNCHANGED <<term, silence, handlers, firing, bumps, highest>>

\* Mutant: the new peer takes the place of the registry's rows.
AddPeerReplaces(n, p) ==
    /\ silence' = [silence EXCEPT ![n] = [x \in {p} |-> Silent]]
    /\ UNCHANGED <<term, msgs, handlers, firing, bumps, highest>>

\* MemberAdd: add_peer starts the peer afresh, known or not.
AddPeer(n, p) ==
    /\ silence' = [silence EXCEPT ![n] = [x \in DOMAIN @ \cup {p} |-> IF x = p THEN Silent ELSE @[x]]]
    /\ UNCHANGED <<term, msgs, handlers, firing, bumps, highest>>

\* election_timer_loop: with peers, and none of them heard from within the
\* timeout, the timer decides to bump ...
TimerFires(n) ==
    /\ Peers(n) # {}
    /\ \A p \in Peers(n) : silence[n][p] = Silent
    /\ bumps + Cardinality(firing) < MaxBumps
    /\ firing' = firing \cup {n}
    /\ UNCHANGED <<term, silence, msgs, handlers, bumps, highest>>

\* ... and bumps, whatever has arrived since.
BumpTerm(n) ==
    /\ n \in firing
    /\ firing' = firing \ {n}
    /\ SetTerm(n, term[n] + 1)
    /\ bumps' = bumps + 1
    /\ UNCHANGED <<silence, msgs, handlers>>

Older(age) == IF age = Silent THEN Silent ELSE age + 1

Tick ==
    /\ silence' = [n \in Node |-> [p \in DOMAIN silence[n] |-> Older(silence[n][p])]]
    /\ UNCHANGED <<term, msgs, handlers, firing, bumps, highest>>

Next ==
    \/ \E n \in Node : HeartbeatTick(n) \/ TimerFires(n) \/ BumpTerm(n)
    \/ \E n, p \in Node : AddPeer(n, p) \/ \E t \in {"append", "vote"} : PeerCalls(n, p, t)
    \/ \E m \in msgs : Receive(m) \/ Lose(m)
    \/ \E h \in handlers : Adopt(h)
    \/ Tick

Spec == Init /\ [][Next]_vars

\* The loops go on ticking, handlers that run finish, and a peer that is
\* sent heartbeats again and again receives some of them.
Fairness ==
    /\ \A n \in Node : WF_vars(HeartbeatTick(n)) /\ WF_vars(BumpTerm(n))
    /\ \A n, p \in Node :
          /\ SF_vars(\E m \in msgs : m.from = n /\ m.to = p /\ m.type = "heartbeat" /\ Receive(m))
          /\ WF_vars(\E h \in handlers : h.msg.from = n /\ h.msg.to = p /\ Adopt(h))

FairSpec == Spec /\ Fairness

-----------------------------------------------------------------------------
(* Properties *)

Message == [type : {"heartbeat", "append", "vote"}, from : Node, to : Node, term : Nat]

\* The type of the registries: the local node is always in its own.
TypeOK ==
    /\ term \in [Node -> Nat] /\ highest \in [Node -> Nat]
    /\ \A n \in Node : n \in DOMAIN silence[n] /\ silence[n] \in [DOMAIN silence[n] -> 0..Silent]
    /\ msgs \subseteq Message
    /\ handlers \subseteq [msg : Message, read : Nat]
    /\ firing \subseteq Node
    /\ bumps \in 0..MaxBumps

\* Terms are only ever made by an election timeout: whatever is adopted, in
\* whatever order, no term in the cluster exceeds the number of timeouts.
TermsComeFromTimeouts ==
    /\ \A n \in Node : term[n] <= bumps
    /\ \A m \in msgs : m.term <= bumps
    /\ \A h \in handlers : h.msg.term <= bumps

\* "Adopt a higher term observed from a peer (Raft Figure 2)"
\* (raft_transport.rs): a term is only ever replaced by a higher one.
TermIsHighest == \A n \in Node : term[n] = highest[n]

\* Whatever the handlers overwrite, once no timer fires any more all members
\* end up with one term, as long as everyone is known to everyone.
TermsConverge == <>[](\A m, n \in Node : term[m] = term[n])
=============================================================================
