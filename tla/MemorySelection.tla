---------------------------- MODULE MemorySelection ----------------------------
(***************************************************************************)
(* select_memories (brain/retrieval_policy.py): what becomes of the        *)
(* memories BrainOS recalled for one question.  Unusable records are       *)
(* filtered, the rest is ranked and deduplicated, stale and superseded     *)
(* claims are dropped, then the irrelevant ones and those over the cap.    *)
(* Every drop is recorded with its reason.                                 *)
(*                                                                         *)
(* A memory is identified by its place in the runtime's answer; its text   *)
(* is abstracted to what the policy reads off it.  The score mixes the     *)
(* runtime's signals, lexical overlap and recency under configurable       *)
(* weights: here any order of the candidates may be the ranking.  The list *)
(* of survivors is the set of them, in the order of that ranking; a drop   *)
(* has its place in the report by the pass that made it, then by the order *)
(* in which that pass went through the list.                               *)
(*                                                                         *)
(* Before, the adapter completes what the runtime returned with what the   *)
(* application noted when it observed the text, and the service takes from *)
(* the no_conflict ablation what that is meant to do without.              *)
(***************************************************************************)
EXTENDS Integers, FiniteSets, Sequences, SequencesExt, Functions

CONSTANTS
    Memories,     \* the records the runtime may return
    Observations, \* what the adapter noted of the texts it observed
    Policies,   \* the RetrievalPolicy values in use
    MaxRecall,  \* bound: records returned for one question
    MaxReports, \* bound: contradictions, and stale ids, the runtime reports
    None        \* a clock that is not known; a memory that was not recalled

\* text names the normalized text, similar the texts it is a near duplicate of.
\* claims are its subject-value claims, facts the ledger facts whose markers it
\* carries and preview those still in its first 160 characters.
Records == [text : STRING, similar : SUBSET STRING,
            claims : SUBSET [subject : STRING, value : STRING],
            facts : SUBSET STRING, preview : SUBSET STRING, relevance : 0..100,
            corrects : BOOLEAN, suspicious : BOOLEAN,
            state : {"ok", "empty", "inactive", "expired"},
            observed : Nat \cup {None}, created : Nat \cup {None},
            turn : Nat \cup {None}]

\* ablated: the session runs the no_conflict ablation.
RetrievalPolicy == [floor : 0..100, ratio : 0..100, cap : Nat, resolve : BOOLEAN,
                    stale : BOOLEAN, heuristic : BOOLEAN, dropSuspicious : BOOLEAN,
                    ablated : BOOLEAN]

ASSUME SelectionBounds == MaxRecall \in Nat /\ MaxReports \in Nat
ASSUME MemoriesTyped == Memories \subseteq Records
ASSUME ObservationsTyped ==
    \A t \in DOMAIN Observations :
        Observations[t] \in [turn : Nat \cup {None}, time : Nat \cup {None}]
ASSUME NoneIsNothing == None \notin Nat \cup BOOLEAN
\* The ablation turns the heuristic off (policy_overrides), and the sidebar has no
\* control that turns it on again.
ASSUME PoliciesTyped == \A p \in Policies : /\ p \in RetrievalPolicy
                                            /\ p.ablated => ~p.heuristic

VARIABLES
    phase,     \* where the question stands
    policy,    \* the active policy
    recall,    \* the records, in the order of the runtime's answer
    rank,      \* the place of each usable memory in the ranking
    live,      \* the memories still in
    dropped,   \* RetrievalReport.dropped, each drop with the pass that made it
    contested, \* the memories flagged as contested
    reported   \* history: the runtime reported a contradiction or a stale memory

selVars == <<phase, policy, recall, rank, live, dropped, contested, reported>>

Recalled  == DOMAIN recall
Usable    == {i \in Recalled : recall[i].state = "ok"}
Best(S)   == CHOOSE x \in S : \A y \in S : y <= x
Subjects(i) == {c.subject : c \in recall[i].claims}

\* _apply_observation: turn and time of the observation, where the runtime gave none.
Observed(m) ==
    IF m.text \notin DOMAIN Observations THEN m
    ELSE LET note == Observations[m.text] IN
         [m EXCEPT !.turn = IF @ = None THEN note.turn ELSE @,
                   !.observed = IF @ = None THEN note.time ELSE @]

\* prepare_records: the ablation clears the lifecycle.
Prepared(m) ==
    IF policy.ablated /\ m.state \in {"inactive", "expired"} THEN [m EXCEPT !.state = "ok"]
    ELSE m

SelInit ==
    /\ phase = "recalled"
    /\ policy \in Policies
    /\ \E returned \in BoundedSeq(Memories, MaxRecall) :
         recall = [i \in DOMAIN returned |-> Prepared(Observed(returned[i]))]
    /\ rank = <<>> /\ live = {} /\ dropped = {}
    /\ contested = {} /\ reported = FALSE

\* The passes that drop memories, in the order of the report.
Pass == [unusable |-> 1, duplicate |-> 2, runtime |-> 3, heuristic |-> 4, relevance |-> 5,
         suspicious |-> 6, cap |-> 7, budget |-> 8]

Drops(S, pass, why) == {[memory |-> i, pass |-> pass, reason |-> why[i]] : i \in S}
All(reason) == [i \in Recalled |-> reason]

\* Where a pass meets a memory: the first goes through the answer, the others through
\* the ranking.
Place(i) == IF i \in DOMAIN rank THEN rank[i] ELSE i
Earlier(d, e) ==
    d.pass < e.pass \/ (d.pass = e.pass /\ Place(d.memory) < Place(e.memory))

\* The members of S leave the survivors, each with its reason.
DropFrom(S, pass, why) ==
    /\ dropped' = dropped \cup Drops(S, pass, why)
    /\ live' = live \ S

Unusable == [empty |-> "empty", inactive |-> "stale", expired |-> "expired"]

Similar(i, j) ==
    recall[i].text = recall[j].text \/ recall[j].text \in recall[i].similar

\* _deduplicate: the best of a group stands for it; what resembles no survivor so far
\* stays.
Deduplicated(ranking, S) ==
    \A i \in Usable : i \in S <=> ~\E j \in S : ranking[j] < ranking[i] /\ Similar(i, j)

\* Records without text, inactive and expired ones are dropped as they are met; the
\* others are scored, sorted and deduplicated.
Rank ==
    /\ phase = "recalled" /\ phase' = "ranked"
    /\ rank' \in Bijection(Usable, 1..Cardinality(Usable))
    /\ live' \in {S \in SUBSET Usable : Deduplicated(rank', S)}
    /\ dropped' = Drops(Recalled \ Usable, Pass.unusable,
                        [i \in Recalled \ Usable |-> Unusable[recall[i].state]])
                  \cup Drops(Usable \ live', Pass.duplicate, All("duplicate"))
    /\ UNCHANGED <<policy, recall, contested, reported>>

\* No memory is compared with itself.
Conflict(i, j) ==
    i # j /\ \E c \in recall[i].claims, d \in recall[j].claims :
        c.subject = d.subject /\ c.value # d.value

Timestamp(m) == IF m.observed # None THEN m.observed ELSE m.created

\* Mutant: two memories of the same turn are each taken for the older one.
Older_Ties(i, j) ==
    LET a == recall[i]
        b == recall[j] IN
    IF None \notin {Timestamp(a), Timestamp(b)} /\ Timestamp(a) # Timestamp(b)
    THEN Timestamp(a) < Timestamp(b)
    ELSE None \notin {a.turn, b.turn} /\ a.turn <= b.turn

\* _order_by_recency: by time where both are known and differ, else by turn.
Older(i, j) ==
    LET a == recall[i]
        b == recall[j] IN
    IF None \notin {Timestamp(a), Timestamp(b)} /\ Timestamp(a) # Timestamp(b)
    THEN Timestamp(a) < Timestamp(b)
    ELSE None \notin {a.turn, b.turn} /\ a.turn < b.turn

\* The newer claim counts as a replacement only when it says so.
Replaces(j, i) == Conflict(i, j) /\ Older(i, j) /\ recall[j].corrects

\* A memory the runtime names is found by its id, or else the first by its text.
Locate(i) ==
    LET same == {k \in live : recall[k].text = recall[i].text} IN
    CASE i = None -> None
      [] i \in live -> i
      [] i \notin live \cup {None} /\ same # {} ->
           CHOOSE k \in same : \A l \in same : rank[k] <= rank[l]
      [] OTHER -> None

\* contradictions(): pairs of recalled memories, or one whose newer version was not
\* recalled.
Contradictions ==
    {[older |-> i, newer |-> j] : i \in Recalled, j \in Recalled \cup {None}}
AtMost(n, S) == {T \in SUBSET S : Cardinality(T) <= n}

\* conflicts() and stale_memory_ids(), empty where the runtime fails or has no such
\* call; the ablation does not ask.
RuntimeConflicts ==
    IF policy.ablated THEN {{}}
    ELSE AtMost(MaxReports,
                {p \in Contradictions : p.newer = None \/ Conflict(p.older, p.newer)})
RuntimeStale == IF policy.ablated THEN {{}} ELSE AtMost(MaxReports, Recalled)

\* _apply_stale_and_conflicts, by what the runtime reported: the older memory of a
\* pair that can be located goes, and the reported stale ones.
ByRuntime(pairs, outdated) ==
    LET located == {[older |-> Locate(p.older), newer |-> Locate(p.newer)] : p \in pairs}
        known   == {p \in located : p.older # None} IN
    [superseded |-> IF policy.resolve THEN {p.older : p \in {q \in known : q.newer # None}}
                    ELSE {},
     flagged    |-> IF policy.resolve THEN {p.older : p \in {q \in known : q.newer = None}}
                    ELSE {},
     stale      |-> IF policy.stale THEN outdated \cap live ELSE {}]

\* ... and by the application's heuristic, among the memories S that are left.
Superseded(S) == {i \in S : \E j \in S : Replaces(j, i)}

\* Every other conflict flags both memories.
Contested(S) ==
    {i \in S : \E j \in S : Conflict(i, j) /\ ~Replaces(i, j) /\ ~Replaces(j, i)}

\* What the runtime covers is dropped before the heuristic looks, so the pairs it
\* covers are not looked at again.
Resolve ==
    /\ phase = "ranked" /\ phase' = "resolved"
    /\ \E pairs \in RuntimeConflicts, outdated \in RuntimeStale :
         LET runtime == ByRuntime(pairs, outdated)
             left    == live \ (runtime.superseded \cup runtime.stale)
             guess   == policy.heuristic /\ policy.resolve
             older   == IF guess THEN Superseded(left) ELSE {} IN
         /\ reported' = (pairs # {} \/ outdated # {})
         /\ contested' = runtime.flagged \cup IF guess THEN Contested(left) ELSE {}
         /\ dropped' = dropped
              \cup Drops(live \ left, Pass.runtime,
                         [i \in Recalled |-> IF i \in runtime.superseded
                                               THEN "superseded" ELSE "stale"])
              \cup Drops(older, Pass.heuristic, All("superseded"))
         /\ live' = left \ older
    /\ UNCHANGED <<policy, recall, rank>>

\* _apply_relevance_floor: below the floor, or far below the best.
Floor ==
    LET best == Best({recall[i].relevance : i \in live} \cup {0})
        Low(i)  == recall[i].relevance < policy.floor
        Weak(i) == 100 * recall[i].relevance < policy.ratio * best
    IN
    /\ phase = "resolved" /\ phase' = "relevant"
    /\ DropFrom({i \in live : Low(i) \/ Weak(i)}, Pass.relevance,
                [i \in live |-> IF Low(i) THEN "low_relevance" ELSE "weak_relevance"])
    /\ UNCHANGED <<policy, recall, rank, contested, reported>>

Position(S, i) == Cardinality({j \in S : rank[j] <= rank[i]})

\* Mutant: the cap counts the suspicious memories it has already let go.
Trim_Stale(S, n) ==
    {i \in S : Position(S, i) <= n - Cardinality({j \in live : recall[j].suspicious})}
Trim(S, n) == {i \in S : Position(S, i) <= n}

\* _apply_cap: suspicious memories where the policy says so, then all after the cap.
\* The flag of a memory that is gone is not reported.
Cap ==
    LET clean == {i \in live : ~(policy.dropSuspicious /\ recall[i].suspicious)}
        over  == policy.cap > 0 /\ Cardinality(clean) > policy.cap IN
    /\ phase = "relevant" /\ phase' = "selected"
    /\ live' = IF over THEN Trim(clean, policy.cap) ELSE clean
    /\ dropped' = dropped
         \cup Drops(live \ clean, Pass.suspicious, All("suspicious"))
         \cup Drops({i \in clean : over /\ Position(clean, i) > policy.cap}, Pass.cap,
                    All("cap"))
    /\ contested' = contested \cap live'
    /\ UNCHANGED <<policy, recall, rank, reported>>

SelNext == Rank \/ Resolve \/ Floor \/ Cap

-----------------------------------------------------------------------------
Selecting == phase \in {"ranked", "resolved", "relevant", "selected"}

\* The state is well formed.
SelTypeOK ==
    /\ policy \in Policies
    /\ Len(recall) <= MaxRecall
    /\ \A i \in Recalled : \E m \in Memories : recall[i] = Prepared(Observed(m))
    /\ live \subseteq Recalled
    /\ \A d \in dropped : d.memory \in Recalled
    /\ contested \subseteq Recalled
    /\ reported \in BOOLEAN

\* Every recalled memory is in exactly one place from its ranking on: among the
\* survivors or in the report, once and with one reason, so that the counts of the
\* report add up to candidate_count (RetrievalReport, retrieval_policy.py:1107).
CandidatesAccounted ==
    Selecting =>
        /\ Cardinality(live) + Cardinality(dropped) = Len(recall)
        /\ live \cup {d.memory : d \in dropped} = Recalled

\* The case the heuristic is made for: one clock dates all the memories, no memory
\* claims two things, near duplicates are about the same thing.
PlainRecall ==
    /\ \A i, j \in Recalled : (Timestamp(recall[i]) = None) <=> (Timestamp(recall[j]) = None)
    /\ \A i \in Recalled : \A c, d \in recall[i].claims : c = d
    /\ \A i, j \in Recalled : Similar(i, j) => Subjects(i) = Subjects(j)

\* Where the runtime reported nothing, resolving contradictions in pairs never leaves
\* a subject without any memory that claims something about it: the memory that
\* replaces another may itself be replaced, but not in a circle.
ClaimsSurvive ==
    phase = "resolved" /\ ~reported /\ PlainRecall =>
        \A i \in Usable : Subjects(i) \subseteq UNION {Subjects(j) : j \in live}

\* Two contradicting memories are never shown side by side unless both are flagged as
\* contested, whatever the runtime reported, was recalled or was merged before.
ConflictsFlagged ==
    phase \in {"resolved", "relevant", "selected"} /\ policy.resolve /\ policy.heuristic =>
        \A i, j \in live : Conflict(i, j) => {i, j} \subseteq contested

\* The no_conflict ablation really does without the component it names: whatever the
\* records and the runtime say, no memory is dropped for its age (ablations.py:162).
AblationRemoves ==
    policy.ablated =>
        {d.reason : d \in dropped} \cap {"stale", "expired", "superseded"} = {}

\* Contradictions are settled without losing what they are about, and without hiding
\* one from the model (_apply_stale_and_conflicts, retrieval_policy.py:1200); where
\* the ablation is to leave them standing, they stand.
ConflictsSettled == ClaimsSurvive /\ ConflictsFlagged /\ AblationRemoves
===============================================================================
