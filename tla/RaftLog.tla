------------------------------- MODULE RaftLog -------------------------------
(***************************************************************************)
(* The pure computations of cave-runtime's Raft core (raft_core.rs): what  *)
(* the handlers compute from a log, an AppendEntries argument or a reply,  *)
(* with no state of their own.  RaftCore is built from them.               *)
(*                                                                         *)
(* A log is a sequence of entries; the index the code stores in every      *)
(* entry is the entry's position (PersistentState::log, `log[i-1].index    *)
(* == i`).  Index 0 stands for "before the log" and has term 0.            *)
(***************************************************************************)
EXTENDS Integers, Sequences, FiniteSets, FiniteSetsExt

\* last_log_index and last_log_term: 0 on an empty log.
LastIndex(log) == Len(log)
LastTerm(log) == IF log = <<>> THEN 0 ELSE log[Len(log)].term

\* The term the leader reports for index i: log_at(i), or 0 where it has none.
TermAt(log, i) == IF i \in 1..Len(log) THEN log[i].term ELSE 0

\* Mutant: the election restriction is dropped.
UpToDateUnchecked(candTerm, candIndex, log) == TRUE

\* candidate_log_at_least_as_up_to_date.
UpToDate(candTerm, candIndex, log) ==
    \/ candTerm > LastTerm(log)
    \/ candTerm = LastTerm(log) /\ candIndex >= LastIndex(log)

\* Mutant: any entry at the previous index will do.
PrevPresent(log, prevIndex, prevTerm) == prevIndex <= Len(log)

\* The prev-log consistency check of handle_append_entries.
PrevMatches(log, prevIndex, prevTerm) ==
    prevIndex > 0 => /\ prevIndex \in 1..Len(log)
                     /\ log[prevIndex].term = prevTerm

\* The hint a follower returns when that check fails: one below the
\* mismatching index, or its last index when it has a hole there.
ConflictIndex(log, prevIndex) ==
    IF prevIndex \in 1..Len(log) THEN prevIndex - 1 ELSE LastIndex(log)

\* Positions of `entries` that the log lacks or holds with another term.
Missing(log, prevIndex, entries) ==
    {k \in 1..Len(entries) : \/ prevIndex + k > Len(log)
                             \/ log[prevIndex + k].term # entries[k].term}

\* Mutant: entries are written over the old ones, the rest of the log stays.
MergeInPlace(log, prevIndex, entries) ==
    [i \in 1..(IF prevIndex + Len(entries) > Len(log)
               THEN prevIndex + Len(entries) ELSE Len(log)) |->
        IF i \in (prevIndex + 1)..(prevIndex + Len(entries))
        THEN entries[i - prevIndex] ELSE log[i]]

\* The append loop of handle_append_entries: entries the log already holds
\* stay; from the first one it lacks, the suffix is replaced.
MergeEntries(log, prevIndex, entries) ==
    LET missing == Missing(log, prevIndex, entries)
    IN  IF missing = {} THEN log
        ELSE LET k == Min(missing)
             IN  SubSeq(log, 1, prevIndex + k - 1)
                   \o SubSeq(entries, k, Len(entries))

\* The entries tick puts in an AppendEntries: every one with index >= next
\* (next may be 0, which selects the whole log, like 1).
Suffix(log, next) == SubSeq(log, IF next = 0 THEN 1 ELSE next, Len(log))

\* Mutant: a plain subtraction.
PrevIndexUnchecked(next) == next - 1

\* `next_idx.saturating_sub(1)`.
PrevIndex(next) == IF next = 0 THEN 0 ELSE next - 1

\* Mutant: without a hint next_index stays where it is.
BacktrackOnHintOnly(next, conflict) ==
    IF conflict > 0 /\ conflict <= PrevIndex(next) THEN conflict ELSE next

\* Where handle_append_entries_reply moves next_index after a rejection.
Backtrack(next, conflict) ==
    IF conflict > 0
    THEN IF conflict <= PrevIndex(next) THEN conflict ELSE PrevIndex(next)
    ELSE IF PrevIndex(next) > 1 THEN PrevIndex(next) ELSE 1

\* Mutant: entries of earlier terms are committed by counting, too.
AdvanceCommitAnyTerm(log, term, commit, match, peers, majority) ==
    LET able == {i \in (commit + 1)..Len(log) :
                    Cardinality({p \in peers : match[p] >= i}) + 1 >= majority}
    IN  IF able = {} THEN commit ELSE Max(able)

\* Mutant: a peer counts one index too early.
AdvanceCommitEarly(log, term, commit, match, peers, majority) ==
    LET able == {i \in (commit + 1)..Len(log) :
                    /\ Cardinality({p \in peers : match[p] + 1 >= i}) + 1 >= majority
                    /\ log[i].term = term}
    IN  IF able = {} THEN commit ELSE Max(able)

\* advance_commit_index: the highest index above `commit` that is of the
\* current term and that a majority (the leader and the peers whose
\* match_index reaches it) holds; `commit` itself when there is none.
AdvanceCommit(log, term, commit, match, peers, majority) ==
    LET held(i) == Cardinality({p \in peers : match[p] >= i}) + 1
        able == {i \in (commit + 1)..Len(log) :
                    held(i) >= majority /\ log[i].term = term}
    IN  IF able = {} THEN commit ELSE Max(able)

\* The commit index a follower takes from an accepted AppendEntries.
FollowerCommit(log, commit, leaderCommit) ==
    IF leaderCommit <= commit THEN commit
    ELSE IF leaderCommit <= LastIndex(log) THEN leaderCommit ELSE LastIndex(log)
=============================================================================
