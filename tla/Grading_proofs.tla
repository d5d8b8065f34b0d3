----------------------------- MODULE Grading_proofs ----------------------------
(***************************************************************************)
(* What becomes of the memories recalled for a question, and of the label  *)
(* its failure gets: for all memories, policies and tasks, whatever the    *)
(* ranking is and whatever the runtime reports.                            *)
(***************************************************************************)
EXTENDS Grading, FiniteSetTheorems, FunctionTheorems, WellFoundedInduction, TLAPS

-------------------------------------------------------------------------------
(* The inductive invariant.                                                *)

Phases == {"recalled", "ranked", "resolved", "relevant", "selected", "built", "scored",
           "classified"}

\* The records keep the facts of the memories they came from, and under the ablation
\* none is past its life.
RecallOK ==
    /\ phase \in Phases /\ policy \in Policies
    /\ \E n \in 0..MaxRecall : recall \in [1..n -> Records]
    /\ \A i \in Recalled : /\ recall[i].facts \subseteq Facts
                           /\ recall[i].preview \subseteq recall[i].facts
                           /\ \E m \in Memories : recall[i] = Prepared(Observed(m))
                           /\ policy.ablated => recall[i].state \in {"ok", "empty"}

\* Between ranking and prompt each memory is a survivor or dropped, once.
Accounted ==
    /\ Selecting =>
         /\ live \subseteq Usable
         /\ live \cup {d.memory : d \in dropped} = Recalled
         /\ \A d \in dropped : d.memory \notin live
         /\ \A d, e \in dropped : d.memory = e.memory => d = e
    /\ ~Selecting => live = {} /\ dropped = {}

\* Just after the ranking, who is gone resembles somebody who is not.
Represented == phase = "ranked" => \A i \in Usable \ live : \E j \in live : Similar(i, j)

Flags == contested \subseteq Recalled /\ reported \in BOOLEAN
Ranking == Selecting => rank \in [Usable -> Nat]

SelectionInv ==
    RecallOK /\ Accounted /\ Represented /\ Ranking /\ Flags /\ ConflictsSettled

\* What the record of the replay says, and how the score came about.
ReplayTyped ==
    /\ selecting \in BOOLEAN /\ isolated \in BOOLEAN /\ task \in Tasks
    /\ replay.retrieved \subseteq Facts /\ replay.prompt \subseteq Facts

\* The verdicts an answer is given before the prompt is looked at.
Given == {"correct", "incorrect", "abstained", "stale_answer", "ungraded"}
Graded ==
    phase \in {"scored", "classified"} =>
        \E v \in Given : score = Scored(task, v)

Recorded ==
    /\ failure \in FailureRecords \cup {None}
    /\ failure # None => failure.class.type \in failure.class.labels

GradingInv == ReplayTyped /\ Graded /\ Recorded /\ FailuresLabelled

-------------------------------------------------------------------------------
(* Least and greatest.                                                     *)

\* Naturals have a least one.
LEMMA LeastMember ==
    ASSUME NEW S \in SUBSET Nat, S # {}
    PROVE  \E x \in S : \A y \in S : x <= y
<1> DEFINE R == OpToRel(<, Nat)
<1>1. IsWellFoundedOn(R, Nat)
  BY NatLessThanWellFounded
<1>2. \A x, y \in Nat : y < x => <<y, x>> \in R
  BY DEF OpToRel
<1>3. \E x \in S : \A y \in S : ~(<<y, x>> \in R)
  <2> HIDE DEF R
  <2> QED BY <1>1, WFMin
<1> HIDE DEF R
<1>4. PICK x \in S : \A y \in S : ~(<<y, x>> \in R)
  BY <1>3
<1>5. ASSUME NEW y \in S PROVE x <= y
  <2>1. x \in Nat /\ y \in Nat /\ ~(y < x)
    BY <1>2, <1>4
  <2> QED BY <2>1
<1> QED BY <1>5

\* The values that a function takes on finitely many places have a bound.
LEMMA Bounded ==
    ASSUME NEW S, IsFiniteSet(S), NEW f \in [S -> Nat], S # {}
    PROVE  \E x \in S : \A y \in S : f[y] <= f[x]
<1> DEFINE High(T) == \E x \in T : \A y \in T : f[y] <= f[x]
           Bad == {T \in SUBSET S : T # {} /\ ~High(T)}
           R == StrictSubsetOrdering(S)
<1>1. Bad = {}
  <2> SUFFICES ASSUME Bad # {} PROVE FALSE
    OBVIOUS
  <2>1. IsWellFoundedOn(R, FiniteSubsetsOf(S)) /\ FiniteSubsetsOf(S) = SUBSET S
    BY FS_StrictSubsetOrderingWellFounded, FS_FiniteSubsetsOfFinite
  <2>2. Bad \subseteq SUBSET S
    OBVIOUS
  <2>3. \E T \in Bad : \A U \in Bad : ~(<<U, T>> \in R)
    <3> HIDE DEF Bad, R
    <3> QED BY <2>1, <2>2, WFMin
  <2>4. PICK T \in Bad : \A U \in Bad : ~(<<U, T>> \in R)
    BY <2>3
  <2>5. PICK x \in T : TRUE
    OBVIOUS
  <2> DEFINE U == T \ {x}
  <2>6. <<U, T>> \in R /\ U \in SUBSET S
    BY <2>4, <2>5 DEF StrictSubsetOrdering
  <2>7. U \notin Bad
    <3> HIDE DEF R, Bad, U
    <3> QED BY <2>4, <2>6
  <2>8. CASE U = {}
    <3>1. T = {x}
      BY <2>8, <2>5
    <3> QED BY <3>1, <2>4
  <2>9. CASE U # {}
    <3>1. High(U)
      BY <2>6, <2>7, <2>9
    <3>2. PICK z \in U : \A y \in U : f[y] <= f[z]
      BY <3>1
    <3>3. \A y \in T : f[y] \in Nat
      BY <2>4
    <3>4. CASE f[x] <= f[z]
      <4>1. \A y \in T : f[y] <= f[z]
        BY <3>2, <3>4
      <4> QED BY <4>1, <2>4
    <3>5. CASE ~(f[x] <= f[z])
      <4>1. \A y \in T : f[y] <= f[x]
        BY <3>2, <3>3, <3>5, <2>5
      <4> QED BY <4>1, <2>4, <2>5
    <3> QED BY <3>4, <3>5
  <2> QED BY <2>8, <2>9
<1> QED BY <1>1

-------------------------------------------------------------------------------
(* The selection.                                                          *)

\* Completing and preparing a record leaves its facts; the ablation clears its lifecycle.
LEMMA RecordsKept ==
    ASSUME policy \in Policies, NEW m \in Memories
    PROVE  /\ Prepared(Observed(m)) \in Records
           /\ Prepared(Observed(m)).facts = m.facts
           /\ Prepared(Observed(m)).preview = m.preview
           /\ policy.ablated => Prepared(Observed(m)).state \in {"ok", "empty"}
<1>1. m \in Records
  BY MemoriesTyped
<1> DEFINE o == Observed(m)
<1>2. o \in Records /\ o.facts = m.facts /\ o.preview = m.preview
  <2>1. CASE m.text \notin DOMAIN Observations
    BY <1>1, <2>1 DEF Observed
  <2>2. CASE m.text \in DOMAIN Observations
    <3>1. /\ Observations[m.text].turn \in Nat \cup {None}
          /\ Observations[m.text].time \in Nat \cup {None}
      BY <2>2, ObservationsTyped
    <3> DEFINE turn == IF m.turn = None THEN Observations[m.text].turn ELSE m.turn
               time == IF m.observed = None THEN Observations[m.text].time ELSE m.observed
    <3>2. o = [m EXCEPT !.turn = turn, !.observed = time]
      BY <2>2 DEF Observed
    <3>3. turn \in Nat \cup {None} /\ time \in Nat \cup {None}
      BY <1>1, <3>1 DEF Records
    <3> HIDE DEF turn, time, o
    <3> QED BY <1>1, <3>2, <3>3 DEF Records
  <2> QED BY <2>1, <2>2
<1> HIDE DEF o
<1>3. o.state \in {"ok", "empty", "inactive", "expired"}
  BY <1>2 DEF Records
<1>4. /\ Prepared(o) \in Records
      /\ Prepared(o).facts = o.facts
      /\ Prepared(o).preview = o.preview
      /\ policy.ablated => Prepared(o).state \in {"ok", "empty"}
  BY <1>2, <1>3 DEF Prepared, Records
<1> QED BY <1>2, <1>4 DEF o

\* A question starts with what the runtime returned.
LEMMA SelectionStarts ==
    ASSUME SelInit
    PROVE  SelectionInv
<1>1. policy \in Policies /\ phase = "recalled"
  BY DEF SelInit
<1>2. PICK returned \in BoundedSeq(Memories, MaxRecall) :
          recall = [i \in DOMAIN returned |-> Prepared(Observed(returned[i]))]
  BY DEF SelInit
<1>3. PICK n \in 0..MaxRecall : returned \in [1..n -> Memories]
  BY <1>2 DEF BoundedSeq, SeqOf
<1>4. DOMAIN returned = 1..n /\ \A i \in 1..n : returned[i] \in Memories
  BY <1>3
<1>5. recall = [i \in 1..n |-> Prepared(Observed(returned[i]))]
  BY <1>2, <1>4
<1>6. \A i \in 1..n : recall[i] = Prepared(Observed(returned[i])) /\ recall[i] \in Records
  BY <1>1, <1>4, <1>5, RecordsKept
<1>7. recall \in [1..n -> Records] /\ DOMAIN recall = 1..n
  BY <1>5, <1>6
<1>8. RecallOK
  <2>1. ASSUME NEW i \in Recalled
        PROVE  /\ recall[i].facts \subseteq Facts
               /\ recall[i].preview \subseteq recall[i].facts
               /\ \E m \in Memories : recall[i] = Prepared(Observed(m))
               /\ policy.ablated => recall[i].state \in {"ok", "empty"}
    <3>1. i \in 1..n /\ returned[i] \in Memories
      BY <2>1, <1>4, <1>7 DEF Recalled
    <3> QED BY <1>1, <1>6, <3>1, RecordsKept, TasksTyped
  <2> QED BY <1>1, <1>7, <2>1 DEF RecallOK, Phases
<1>9. Accounted /\ Represented /\ Ranking /\ Flags
  BY <1>1 DEF SelInit, Accounted, Represented, Ranking, Flags, Selecting
<1>10. ConflictsSettled
  BY <1>1 DEF SelInit, ConflictsSettled, ClaimsSurvive, ConflictsFlagged, AblationRemoves
<1> QED BY <1>8, <1>9, <1>10 DEF SelectionInv

\* What a pass drops is one drop for each memory of its set.
LEMMA DropsOfSet ==
    ASSUME NEW S, NEW pass, NEW why
    PROVE  /\ {d.memory : d \in Drops(S, pass, why)} = S
           /\ \A d, e \in Drops(S, pass, why) : d.memory = e.memory => d = e
           /\ \A d \in Drops(S, pass, why) : d.memory \in S /\ d.reason = why[d.memory]
<1>1. \A d \in Drops(S, pass, why) :
          \E i \in S : d = [memory |-> i, pass |-> pass, reason |-> why[i]]
  BY DEF Drops
<1>2. ASSUME NEW d \in Drops(S, pass, why)
      PROVE  d.memory \in S /\ d = [memory |-> d.memory, pass |-> pass, reason |-> why[d.memory]]
  <2>1. PICK i \in S : d = [memory |-> i, pass |-> pass, reason |-> why[i]]
    BY <1>1
  <2> QED BY <2>1
<1>3. ASSUME NEW i \in S PROVE \E d \in Drops(S, pass, why) : d.memory = i
  <2>1. [memory |-> i, pass |-> pass, reason |-> why[i]] \in Drops(S, pass, why)
    BY DEF Drops
  <2> QED BY <2>1
<1>4. {d.memory : d \in Drops(S, pass, why)} = S
  BY <1>2, <1>3
<1>5. ASSUME NEW d \in Drops(S, pass, why), NEW e \in Drops(S, pass, why),
             d.memory = e.memory
      PROVE  d = e
  <2>1. /\ d = [memory |-> d.memory, pass |-> pass, reason |-> why[d.memory]]
        /\ e = [memory |-> e.memory, pass |-> pass, reason |-> why[e.memory]]
    BY <1>2
  <2> QED BY <1>5, <2>1
<1>6. \A d \in Drops(S, pass, why) : d.memory \in S /\ d.reason = why[d.memory]
  <2> TAKE d \in Drops(S, pass, why)
  <2>1. d = [memory |-> d.memory, pass |-> pass, reason |-> why[d.memory]]
    BY <1>2
  <2>2. d.reason = why[d.memory]
    BY <2>1
  <2> QED BY <1>2, <2>2
<1> QED BY <1>4, <1>5, <1>6

\* If the members of two sets of drops are of disjoint sets, so is their union.
LEMMA DropsUnited ==
    ASSUME NEW D, NEW E, NEW S, NEW T, S \cap T = {},
           {d.memory : d \in D} = S, {d.memory : d \in E} = T,
           \A d, e \in D : d.memory = e.memory => d = e,
           \A d, e \in E : d.memory = e.memory => d = e
    PROVE  /\ {d.memory : d \in D \cup E} = S \cup T
           /\ \A d, e \in D \cup E : d.memory = e.memory => d = e
<1>1. {d.memory : d \in D \cup E} = S \cup T
  OBVIOUS
<1>2. ASSUME NEW d \in D, NEW e \in E PROVE d.memory # e.memory
  <2>1. d.memory \in S /\ e.memory \in T
    OBVIOUS
  <2> QED BY <2>1
<1> QED BY <1>1, <1>2

\* The members of a pass leave the survivors for the report.
LEMMA PassAccounted ==
    ASSUME Accounted, Selecting, Selecting', recall' = recall,
           NEW S \in SUBSET live, NEW E,
           live' = live \ S, dropped' = dropped \cup E,
           {d.memory : d \in E} = S,
           \A d, e \in E : d.memory = e.memory => d = e
    PROVE  Accounted'
<1> DEFINE gone == {d.memory : d \in dropped}
<1>1. /\ live \subseteq Usable /\ live \cup gone = Recalled
      /\ \A d \in dropped : d.memory \notin live
      /\ \A d, e \in dropped : d.memory = e.memory => d = e
  BY DEF Accounted
<1>2. gone \cap S = {}
  BY <1>1
<1> HIDE DEF gone
<1>3. /\ {d.memory : d \in dropped'} = gone \cup S
      /\ \A d, e \in dropped' : d.memory = e.memory => d = e
  BY <1>1, <1>2, DropsUnited DEF gone
<1>4. \A d \in dropped' : d.memory \in gone \cup S
  BY <1>3
<1>5. (gone \cup S) \cap live' = {}
  BY <1>1, <1>2 DEF gone
<1>6. live' \subseteq Usable' /\ Recalled' = Recalled
  BY <1>1 DEF Usable, Recalled
<1>7. live' \cup (gone \cup S) = Recalled
  BY <1>1
<1> QED BY <1>3, <1>4, <1>5, <1>6, <1>7 DEF Accounted

\* There are finitely many memories, and the usable ones are counted.
LEMMA RecallCounted ==
    ASSUME RecallOK
    PROVE  /\ recall \in Seq(Records) /\ Len(recall) \in 0..MaxRecall
           /\ Recalled = 1..Len(recall)
           /\ IsFiniteSet(Recalled) /\ Cardinality(Recalled) = Len(recall)
           /\ \A S \in SUBSET Recalled : IsFiniteSet(S) /\ Cardinality(S) \in Nat
           /\ \A i \in Recalled : recall[i] \in Records
<1>1. PICK n \in 0..MaxRecall : recall \in [1..n -> Records]
  BY DEF RecallOK
<1>2. n \in Nat
  BY <1>1, SelectionBounds
<1>3. recall \in Seq(Records) /\ Len(recall) = n /\ Recalled = 1..n
  BY <1>1, <1>2 DEF Recalled
<1>4. IsFiniteSet(1..n) /\ Cardinality(1..n) = n
  BY <1>2, FS_Interval
<1>5. ASSUME NEW S \in SUBSET Recalled PROVE IsFiniteSet(S) /\ Cardinality(S) \in Nat
  BY <1>3, <1>4, <1>5, FS_Subset, FS_CardinalityType
<1> QED BY <1>1, <1>3, <1>4, <1>5

\* Reasons that the ablation allows keep it effective.
LEMMA AblationKept ==
    ASSUME AblationRemoves, policy' = policy, NEW E, dropped' = dropped \cup E,
           policy.ablated => \A d \in E : d.reason \notin {"stale", "expired", "superseded"}
    PROVE  AblationRemoves'
BY DEF AblationRemoves

\* The records are not touched while the question stands.
LEMMA RecallKept ==
    ASSUME RecallOK, recall' = recall, policy' = policy, phase' \in Phases
    PROVE  /\ RecallOK' /\ Recalled' = Recalled /\ Usable' = Usable
           /\ \A i, j : /\ Similar(i, j)' = Similar(i, j)
                        /\ Conflict(i, j)' = Conflict(i, j)
                        /\ Subjects(i)' = Subjects(i)
<1>1. Recalled' = Recalled /\ Usable' = Usable
  BY DEF Recalled, Usable
<1>2. \A m : Prepared(Observed(m))' = Prepared(Observed(m))
  BY DEF Prepared, Observed
<1>3. \A i, j : /\ Similar(i, j)' = Similar(i, j)
                /\ Conflict(i, j)' = Conflict(i, j)
                /\ Subjects(i)' = Subjects(i)
  BY DEF Similar, Conflict, Subjects
<1>4. RecallOK'
  BY <1>1, <1>2 DEF RecallOK
<1> QED BY <1>1, <1>3, <1>4

\* Ranking accounts for every record.
LEMMA RankKeeps ==
    ASSUME SelectionInv, Rank
    PROVE  SelectionInv'
<1>1. /\ phase = "recalled" /\ phase' = "ranked"
      /\ rank' \in Bijection(Usable, 1..Cardinality(Usable))
      /\ live' \in SUBSET Usable /\ Deduplicated(rank', live')
      /\ policy' = policy /\ recall' = recall /\ contested' = contested
      /\ reported' = reported
  BY DEF Rank
<1> DEFINE bad == Recalled \ Usable
           why == [i \in bad |-> Unusable[recall[i].state]]
           dup == Usable \ live'
           D == Drops(bad, Pass.unusable, why)
           E == Drops(dup, Pass.duplicate, All("duplicate"))
<1>2. dropped' = D \cup E
  BY DEF Rank
<1>3. Usable \subseteq Recalled /\ bad \cap dup = {} /\ bad \cup dup = Recalled \ live'
  BY <1>1 DEF Usable
<1>4. /\ RecallOK' /\ Recalled' = Recalled /\ Usable' = Usable
      /\ \A i, j : Similar(i, j)' = Similar(i, j)
  BY <1>1, RecallKept DEF SelectionInv, Phases
<1>6. /\ {d.memory : d \in D} = bad /\ \A d, e \in D : d.memory = e.memory => d = e
      /\ \A d \in D : d.memory \in bad /\ d.reason = why[d.memory]
  <2> HIDE DEF bad, why
  <2> QED BY DropsOfSet
<1>7. /\ {d.memory : d \in E} = dup /\ \A d, e \in E : d.memory = e.memory => d = e
      /\ \A d \in E : d.memory \in dup /\ d.reason = All("duplicate")[d.memory]
  <2> HIDE DEF dup
  <2> QED BY DropsOfSet
<1>8. /\ {d.memory : d \in dropped'} = Recalled \ live'
      /\ \A d, e \in dropped' : d.memory = e.memory => d = e
  <2> HIDE DEF bad, dup, D, E
  <2> QED BY <1>2, <1>3, <1>6, <1>7, DropsUnited
<1>9. Accounted'
  <2>1. \A d \in dropped' : d.memory \in Recalled \ live'
    BY <1>8
  <2> QED BY <1>1, <1>3, <1>4, <1>8, <2>1 DEF Accounted, Selecting
<1>10. Represented'
  <2>1. ASSUME NEW i \in Usable \ live' PROVE \E j \in live' : Similar(i, j)
    BY <1>1 DEF Deduplicated
  <2> QED BY <1>1, <1>4, <2>1 DEF Represented
<1>11. Ranking'
  <2>1. Cardinality(Usable) \in Nat
    BY <1>3, RecallCounted DEF SelectionInv
  <2>2. rank' \in [Usable -> 1..Cardinality(Usable)]
    BY <1>1 DEF Bijection, Injection, Surjection
  <2> QED BY <1>4, <2>1, <2>2 DEF Ranking
<1>12. Flags'
  BY <1>1, <1>4 DEF SelectionInv, Flags
<1>13. ConflictsSettled'
  <2>1. ClaimsSurvive' /\ ConflictsFlagged'
    BY <1>1 DEF ClaimsSurvive, ConflictsFlagged
  <2>2. ASSUME policy.ablated, NEW d \in dropped'
        PROVE  d.reason \notin {"stale", "expired", "superseded"}
    <3>1. CASE d \in D
      <4>1. d.memory \in bad /\ d.reason = why[d.memory]
        BY <1>6, <3>1
      <4>2. recall[d.memory].state = "empty"
        BY <2>2, <4>1 DEF SelectionInv, RecallOK, Usable
      <4>3. d.reason = "empty"
        BY <4>1, <4>2 DEF Unusable
      <4> QED BY <4>3
    <3>2. CASE d \in E
      <4>1. d.memory \in Recalled /\ d.reason = All("duplicate")[d.memory]
        BY <1>3, <1>7, <3>2
      <4>2. d.reason = "duplicate"
        BY <4>1 DEF All
      <4> QED BY <4>2
    <3> HIDE DEF D, E
    <3> QED BY <1>2, <3>1, <3>2
  <2>3. AblationRemoves'
    BY <1>1, <2>2 DEF AblationRemoves
  <2> QED BY <2>1, <2>3 DEF ConflictsSettled
<1> QED BY <1>4, <1>9, <1>10, <1>11, <1>12, <1>13 DEF SelectionInv

\* Among memories that claim at most one thing, dated alike, who has the last word on a
\* subject is replaced by nobody.
LEMMA LastWord ==
    ASSUME RecallOK, PlainRecall, NEW L \in SUBSET Recalled, NEW s,
           NEW i \in L, s \in Subjects(i)
    PROVE  \E j \in L \ Superseded(L) : s \in Subjects(j)
<1> DEFINE S == {j \in L : s \in Subjects(j)}
           T(j) == Timestamp(recall[j])
<1>1. S \subseteq Recalled /\ IsFiniteSet(S) /\ S # {}
  BY RecallCounted
<1>2. \A j \in Recalled : /\ T(j) \in Nat \cup {None}
                          /\ recall[j].turn \in Nat \cup {None}
  BY RecallCounted DEF Timestamp, Records
<1>3. None \notin Nat
  BY NoneIsNothing
<1>4. \E P \in SUBSET S :
         /\ P # {}
         /\ \A j \in P, k \in S :
              Older(j, k) => /\ k \in P /\ recall[j].turn # None /\ recall[k].turn # None
                             /\ recall[j].turn < recall[k].turn
  <2>1. CASE \A j \in Recalled : T(j) # None
    <3> DEFINE f == [j \in S |-> T(j)]
    <3>1. f \in [S -> Nat]
      BY <1>1, <1>2, <2>1
    <3>2. PICK top \in S : \A y \in S : f[y] <= f[top]
      <4> HIDE DEF f, S
      <4> QED BY <1>1, <3>1, Bounded
    <3> DEFINE P == {j \in S : T(j) = T(top)}
    <3>3. \A y \in S : T(y) <= T(top) /\ T(y) \in Nat /\ T(y) # None
      BY <1>1, <1>2, <2>1, <3>2
    <3>4. ASSUME NEW j \in P, NEW k \in S, Older(j, k)
          PROVE  /\ k \in P /\ recall[j].turn # None /\ recall[k].turn # None
                 /\ recall[j].turn < recall[k].turn
      <4>1. /\ T(j) = T(top) /\ T(k) <= T(top) /\ T(k) \in Nat /\ T(top) \in Nat
            /\ T(j) # None /\ T(k) # None
        BY <3>3
      <4>2. ~(T(j) < T(k))
        <5> HIDE DEF T
        <5> QED BY <4>1
      <4>3. T(j) = T(k)
        BY <3>4, <4>1, <4>2 DEF Older
      <4>4. None \notin {recall[j].turn, recall[k].turn} /\ recall[j].turn < recall[k].turn
        BY <3>4, <4>3 DEF Older
      <4> QED BY <4>1, <4>3, <4>4
    <3>5. P \in SUBSET S /\ P # {}
      BY <3>2
    <3> HIDE DEF P
    <3> QED BY <3>4, <3>5
  <2>2. CASE ~ \A j \in Recalled : T(j) # None
    <3>1. \A j \in Recalled : T(j) = None
      BY <2>2 DEF PlainRecall
    <3>2. ASSUME NEW j \in S, NEW k \in S, Older(j, k)
          PROVE  /\ recall[j].turn # None /\ recall[k].turn # None
                 /\ recall[j].turn < recall[k].turn
      <4>1. T(j) = None
        BY <1>1, <3>1
      <4> QED BY <3>2, <4>1 DEF Older
    <3> QED BY <1>1, <3>2
  <2> QED BY <2>1, <2>2
<1>5. PICK P \in SUBSET S :
         /\ P # {}
         /\ \A j \in P, k \in S :
              Older(j, k) => /\ k \in P /\ recall[j].turn # None /\ recall[k].turn # None
                             /\ recall[j].turn < recall[k].turn
  BY <1>4
<1>6. \E j \in S : \A k \in S : ~Older(j, k)
  <2> DEFINE Q == {j \in P : recall[j].turn # None}
  <2>1. CASE Q = {}
    BY <1>5, <2>1
  <2>2. CASE Q # {}
    <3> DEFINE f == [j \in Q |-> recall[j].turn]
    <3>1. IsFiniteSet(Q)
      BY <1>1, RecallCounted
    <3>2. f \in [Q -> Nat]
      BY <1>1, <1>2
    <3>3. PICK top \in Q : \A y \in Q : f[y] <= f[top]
      <4> HIDE DEF f, Q
      <4> QED BY <2>2, <3>1, <3>2, Bounded
    <3>4. ASSUME NEW k \in S, Older(top, k) PROVE FALSE
      <4>1. k \in Q /\ recall[top].turn < recall[k].turn
        BY <1>5, <3>3, <3>4
      <4>2. recall[k].turn <= recall[top].turn
        BY <3>3, <4>1
      <4>3. recall[k].turn \in Nat /\ recall[top].turn \in Nat
        BY <3>2, <3>3, <4>1
      <4> QED BY <4>1, <4>2, <4>3
    <3> QED BY <3>3, <3>4
  <2> QED BY <2>1, <2>2
<1>7. PICK j \in S : \A k \in S : ~Older(j, k)
  BY <1>6
<1>8. j \notin Superseded(L)
  <2> SUFFICES ASSUME j \in Superseded(L) PROVE FALSE
    OBVIOUS
  <2>1. PICK k \in L : Conflict(j, k) /\ Older(j, k)
    BY DEF Superseded, Replaces, Conflict
  <2>2. PICK c \in recall[j].claims, d \in recall[k].claims : c.subject = d.subject
    BY <2>1 DEF Conflict
  <2>3. PICK e \in recall[j].claims : e.subject = s
    BY <1>7 DEF Subjects
  <2>4. c = e
    BY <1>1, <1>7, <2>2, <2>3 DEF PlainRecall
  <2>5. k \in S
    BY <2>2, <2>3, <2>4 DEF Subjects
  <2> QED BY <1>7, <2>1, <2>5
<1> QED BY <1>7, <1>8

\* A memory that the runtime names is located among the survivors, or not at all.
LEMMA LocatedLive ==
    ASSUME RecallOK, live \subseteq Usable, rank \in [Usable -> Nat], NEW i, Locate(i) # None
    PROVE  Locate(i) \in live
<1> DEFINE same == {k \in live : recall[k].text = recall[i].text}
<1>1. CASE i = None
  BY <1>1 DEF Locate
<1>2. CASE i # None /\ i \in live
  BY <1>2 DEF Locate
<1>3. CASE i # None /\ i \notin live /\ same # {}
  <2>1. {rank[k] : k \in same} \in SUBSET Nat /\ {rank[k] : k \in same} # {}
    BY <1>3
  <2>2. PICK x \in {rank[k] : k \in same} : \A y \in {rank[k] : k \in same} : x <= y
    <3> HIDE DEF same
    <3> QED BY <2>1, LeastMember
  <2>3. \E k \in same : \A l \in same : rank[k] <= rank[l]
    <3>1. PICK k \in same : x = rank[k]
      BY <2>2
    <3> QED BY <2>2, <3>1
  <2>4. Locate(i) = CHOOSE k \in same : \A l \in same : rank[k] <= rank[l]
    BY <1>3 DEF Locate
  <2>5. Locate(i) \in same
    <3> HIDE DEF same
    <3> QED BY <2>3, <2>4
  <2> QED BY <2>5
<1>4. CASE i # None /\ i \notin live /\ same = {}
  BY <1>4 DEF Locate
<1> QED BY <1>1, <1>2, <1>3, <1>4

\* What the runtime reports concerns survivors; where it reports nothing it settles
\* nothing.
LEMMA RuntimeNamesLive ==
    ASSUME RecallOK, live \subseteq Usable, rank \in [Usable -> Nat], NEW pairs, NEW outdated
    PROVE  LET runtime == ByRuntime(pairs, outdated) IN
           /\ runtime.superseded \subseteq live /\ runtime.flagged \subseteq live
           /\ runtime.stale \subseteq live
           /\ pairs = {} /\ outdated = {} => runtime.superseded = {} /\ runtime.stale = {}
<1> DEFINE located == {[older |-> Locate(p.older), newer |-> Locate(p.newer)] : p \in pairs}
           known == {p \in located : p.older # None}
<1>1. \A p \in known : p.older \in live
  <2> TAKE p \in known
  <2>1. PICK q \in pairs : p = [older |-> Locate(q.older), newer |-> Locate(q.newer)]
    OBVIOUS
  <2>2. Locate(q.older) # None /\ p.older = Locate(q.older)
    BY <2>1
  <2> QED BY <2>2, LocatedLive
<1>2. pairs = {} => known = {}
  OBVIOUS
<1>3. ByRuntime(pairs, outdated) =
        [superseded |-> IF policy.resolve THEN {p.older : p \in {q \in known : q.newer # None}}
                        ELSE {},
         flagged    |-> IF policy.resolve THEN {p.older : p \in {q \in known : q.newer = None}}
                        ELSE {},
         stale      |-> IF policy.stale THEN outdated \cap live ELSE {}]
  BY DEF ByRuntime
<1> HIDE DEF known
<1> QED BY <1>1, <1>2, <1>3

\* Settling contradictions loses no subject, leaves none unflagged, and is not done
\* under the ablation.
LEMMA ResolveKeeps ==
    ASSUME SelectionInv, Resolve
    PROVE  SelectionInv'
<1>1. phase = "ranked" /\ phase' = "resolved" /\ policy' = policy /\ recall' = recall
      /\ rank' = rank
  BY DEF Resolve
<1>2. PICK pairs \in RuntimeConflicts, outdated \in RuntimeStale :
        LET runtime == ByRuntime(pairs, outdated)
            left    == live \ (runtime.superseded \cup runtime.stale)
            guess   == policy.heuristic /\ policy.resolve
            older   == IF guess THEN Superseded(left) ELSE {} IN
        /\ reported' = (pairs # {} \/ outdated # {})
        /\ contested' = runtime.flagged \cup IF guess THEN Contested(left) ELSE {}
        /\ dropped' = dropped
             \cup Drops(live \ left, Pass.runtime,
                        [i \in Recalled |-> IF i \in runtime.superseded
                                              THEN "superseded" ELSE "stale"])
             \cup Drops(older, Pass.heuristic, All("superseded"))
        /\ live' = left \ older
  BY DEF Resolve
<1> DEFINE runtime == ByRuntime(pairs, outdated)
           left    == live \ (runtime.superseded \cup runtime.stale)
           guess   == policy.heuristic /\ policy.resolve
           older   == IF guess THEN Superseded(left) ELSE {}
           why     == [i \in Recalled |-> IF i \in runtime.superseded
                                            THEN "superseded" ELSE "stale"]
           gone    == live \ left
           D       == Drops(gone, Pass.runtime, why)
           E       == Drops(older, Pass.heuristic, All("superseded"))
<1>3. /\ reported' = (pairs # {} \/ outdated # {})
      /\ contested' = runtime.flagged \cup IF guess THEN Contested(left) ELSE {}
      /\ dropped' = dropped \cup D \cup E
      /\ live' = left \ older
  BY <1>2
<1>4. RecallOK /\ live \subseteq Usable /\ Usable \subseteq Recalled /\ rank \in [Usable -> Nat]
  BY <1>1 DEF SelectionInv, Accounted, Ranking, Selecting, Usable
<1>5. /\ runtime.superseded \subseteq live /\ runtime.flagged \subseteq live
      /\ runtime.stale \subseteq live
      /\ pairs = {} /\ outdated = {} => runtime.superseded = {} /\ runtime.stale = {}
  BY <1>4, RuntimeNamesLive
<1>6. older \subseteq left /\ left \subseteq live
  BY DEF Superseded
<1>7. /\ RecallOK' /\ Recalled' = Recalled /\ Usable' = Usable
      /\ \A i, j : /\ Similar(i, j)' = Similar(i, j) /\ Conflict(i, j)' = Conflict(i, j)
                   /\ Subjects(i)' = Subjects(i)
  BY <1>1, <1>4, RecallKept DEF Phases
<1>8. policy.ablated => gone = {} /\ older = {}
  <2>1. policy.ablated => ~policy.heuristic
    BY <1>4, PoliciesTyped DEF RecallOK
  <2>2. policy.ablated => pairs = {} /\ outdated = {}
    BY <1>2 DEF RuntimeConflicts, RuntimeStale
  <2> QED BY <1>5, <2>1, <2>2
<1>9. guess => older = Superseded(left) /\ Contested(left) \subseteq contested'
  BY <1>3
<1>10. ~reported' => left = live
  BY <1>3, <1>5
<1>11. contested' \subseteq live /\ reported' \in BOOLEAN
  <2>1. Contested(left) \subseteq left
    BY DEF Contested
  <2> HIDE DEF runtime, left
  <2> QED BY <1>3, <1>5, <1>6, <2>1
<1>12. older = {} \/ older = Superseded(left)
  OBVIOUS
<1>13. /\ {d.memory : d \in D} = gone /\ \A d, e \in D : d.memory = e.memory => d = e
  <2> HIDE DEF gone, why
  <2> QED BY DropsOfSet
<1>14. /\ {d.memory : d \in E} = older /\ \A d, e \in E : d.memory = e.memory => d = e
  <2> HIDE DEF older
  <2> QED BY DropsOfSet
<1> DEFINE S == gone \cup older
           F == D \cup E
<1>15. /\ {d.memory : d \in F} = S /\ \A d, e \in F : d.memory = e.memory => d = e
  <2>1. gone \cap older = {}
    BY <1>6
  <2> HIDE DEF runtime, left, guess, why, gone, older, D, E
  <2>2. /\ {d.memory : d \in D \cup E} = gone \cup older
        /\ \A d, e \in D \cup E : d.memory = e.memory => d = e
    <3>1. ASSUME NEW d \in D, NEW e \in E PROVE d.memory # e.memory
      <4>1. d.memory \in gone /\ e.memory \in older
        BY ONLY <1>13, <1>14
      <4> QED BY ONLY <2>1, <4>1
    <3>2. {d.memory : d \in D \cup E} = gone \cup older
      BY ONLY <1>13, <1>14
    <3> QED BY ONLY <1>13, <1>14, <3>1, <3>2
  <2> QED BY <2>2
<1>16. S \in SUBSET live /\ live' = live \ S /\ dropped' = dropped \cup F
  <2> HIDE DEF older, D, E
  <2> QED BY <1>3, <1>6
<1>17. policy.ablated => F = {}
  <2> HIDE DEF gone, older
  <2> QED BY <1>8 DEF Drops
<1> HIDE DEF runtime, left, older, why, gone, D, E, S, F
<1>18. Accounted'
  BY <1>1, <1>15, <1>16, PassAccounted DEF SelectionInv, Selecting
<1>19. Represented' /\ Ranking' /\ Flags'
  BY <1>1, <1>4, <1>7, <1>11 DEF Represented, Ranking, Flags
<1>20. ClaimsSurvive'
  <2> SUFFICES ASSUME ~reported', PlainRecall', NEW i \in Usable, NEW s \in Subjects(i)
               PROVE  \E j \in live' : s \in Subjects(j)
    <3>1. Usable' = Usable /\ (\A j : Subjects(j)' = Subjects(j))
      BY <1>7
    <3> QED BY <3>1 DEF ClaimsSurvive
  <2>1. PlainRecall
    BY <1>1, <1>7 DEF PlainRecall, Timestamp
  <2>2. PICK j \in live : s \in Subjects(j)
    <3>1. CASE i \in live
      BY <3>1
    <3>2. CASE i \notin live
      <4>1. PICK j \in live : Similar(i, j)
        BY <1>1, <3>2 DEF SelectionInv, Represented
      <4>2. Subjects(i) = Subjects(j)
        BY <1>4, <2>1, <4>1 DEF PlainRecall
      <4> QED BY <4>1, <4>2
    <3> QED BY <3>1, <3>2
  <2>3. left = live /\ live \in SUBSET Recalled
    BY <1>4, <1>10
  <2>4. PICK k \in live \ Superseded(live) : s \in Subjects(k)
    BY <1>4, <2>1, <2>2, <2>3, LastWord
  <2>5. k \in live'
    BY <1>3, <1>12, <2>3, <2>4
  <2> QED BY <2>4, <2>5
<1>21. ConflictsFlagged'
  <2> SUFFICES ASSUME guess, NEW i \in live', NEW j \in live', Conflict(i, j)
               PROVE  i \in contested' /\ j \in contested'
    BY <1>1, <1>7 DEF ConflictsFlagged
  <2>1. /\ i \in left /\ j \in left /\ i \notin Superseded(left) /\ j \notin Superseded(left)
        /\ Contested(left) \subseteq contested'
    BY <1>3, <1>9
  <2>2. ~Replaces(i, j) /\ ~Replaces(j, i)
    BY <2>1 DEF Superseded
  <2>3. Conflict(j, i)
    BY DEF Conflict
  <2> QED BY <2>1, <2>2, <2>3 DEF Contested
<1>22. AblationRemoves'
  <2>1. policy.ablated => \A d \in F : d.reason \notin {"stale", "expired", "superseded"}
    BY <1>17
  <2> QED BY <1>1, <1>16, <2>1, AblationKept DEF SelectionInv, ConflictsSettled
<1> QED BY <1>7, <1>18, <1>19, <1>20, <1>21, <1>22 DEF SelectionInv, ConflictsSettled

\* The memories a later pass drops were not what settled a contradiction.
LEMMA PassKeeps ==
    ASSUME SelectionInv, phase \in {"resolved", "relevant"},
           phase' \in {"relevant", "selected"}, policy' = policy, recall' = recall,
           rank' = rank, reported' = reported,
           NEW S \in SUBSET live, NEW E, live' = live \ S, dropped' = dropped \cup E,
           {d.memory : d \in E} = S,
           \A d, e \in E : d.memory = e.memory => d = e,
           \A d \in E : d.reason \notin {"stale", "expired", "superseded"},
           contested' \in {contested, contested \cap live'}
    PROVE  SelectionInv'
<1>1. /\ RecallOK' /\ Recalled' = Recalled /\ Usable' = Usable
      /\ \A i, j : Conflict(i, j)' = Conflict(i, j)
  BY RecallKept DEF SelectionInv, Phases
<1>2. Selecting /\ Selecting'
  BY DEF Selecting
<1>3. Accounted'
  BY <1>2, PassAccounted DEF SelectionInv
<1>4. Represented' /\ Ranking' /\ Flags'
  BY <1>1, <1>2 DEF SelectionInv, Represented, Ranking, Flags
<1>5. ClaimsSurvive'
  BY DEF ClaimsSurvive
<1>6. ConflictsFlagged'
  <2> SUFFICES ASSUME policy.resolve, policy.heuristic, NEW i \in live', NEW j \in live',
                      Conflict(i, j)
               PROVE  i \in contested' /\ j \in contested'
    BY <1>1 DEF ConflictsFlagged
  <2>1. i \in contested /\ j \in contested
    BY DEF SelectionInv, ConflictsSettled, ConflictsFlagged
  <2> QED BY <2>1
<1>7. AblationRemoves'
  BY AblationKept DEF SelectionInv, ConflictsSettled
<1> QED BY <1>1, <1>3, <1>4, <1>5, <1>6, <1>7 DEF SelectionInv, ConflictsSettled

\* The relevance floor drops for relevance alone.
LEMMA FloorKeeps ==
    ASSUME SelectionInv, Floor
    PROVE  SelectionInv'
<1>1. /\ phase = "resolved" /\ phase' = "relevant"
      /\ UNCHANGED <<policy, recall, rank, contested, reported>>
  BY DEF Floor
<1>2. PICK S \in SUBSET live, low \in SUBSET Recalled :
          DropFrom(S, Pass.relevance,
                   [i \in live |-> IF i \in low THEN "low_relevance" ELSE "weak_relevance"])
  <2> DEFINE best == Best({recall[i].relevance : i \in live} \cup {0})
             Low(i)  == recall[i].relevance < policy.floor
             Weak(i) == 100 * recall[i].relevance < policy.ratio * best
             S == {i \in live : Low(i) \/ Weak(i)}
             low == {i \in Recalled : Low(i)}
  <2>1. DropFrom(S, Pass.relevance,
                 [i \in live |-> IF Low(i) THEN "low_relevance" ELSE "weak_relevance"])
    BY DEF Floor
  <2>2. live \subseteq Recalled
    BY <1>1 DEF SelectionInv, Accounted, Selecting, Usable
  <2>3. [i \in live |-> IF Low(i) THEN "low_relevance" ELSE "weak_relevance"]
        = [i \in live |-> IF i \in low THEN "low_relevance" ELSE "weak_relevance"]
    BY <2>2
  <2> QED BY <2>1, <2>3
<1> DEFINE why == [i \in live |-> IF i \in low THEN "low_relevance" ELSE "weak_relevance"]
           E == Drops(S, Pass.relevance, why)
<1>3. dropped' = dropped \cup E /\ live' = live \ S
  BY <1>2 DEF DropFrom
<1>4. /\ {d.memory : d \in E} = S /\ \A d, e \in E : d.memory = e.memory => d = e
      /\ \A d \in E : d.memory \in S /\ d.reason = why[d.memory]
  <2> HIDE DEF why
  <2> QED BY DropsOfSet
<1>5. ASSUME NEW d \in E PROVE d.reason \notin {"stale", "expired", "superseded"}
  <2>1. d.memory \in live /\ d.reason = why[d.memory]
    BY <1>4, <1>5
  <2> QED BY <2>1
<1> HIDE DEF E
<1> QED BY <1>1, <1>3, <1>4, <1>5, PassKeeps

\* So do the suspicious and the cap.
LEMMA CapKeeps ==
    ASSUME SelectionInv, Cap
    PROVE  SelectionInv'
<1> DEFINE clean == {i \in live : ~(policy.dropSuspicious /\ recall[i].suspicious)}
           over  == policy.cap > 0 /\ Cardinality(clean) > policy.cap
           tail  == {i \in clean : over /\ Position(clean, i) > policy.cap}
           shady == live \ clean
           D == Drops(shady, Pass.suspicious, All("suspicious"))
           E == Drops(tail, Pass.cap, All("cap"))
           S == shady \cup tail
           F == D \cup E
<1>1. /\ phase = "relevant" /\ phase' = "selected"
      /\ live' = IF over THEN Trim(clean, policy.cap) ELSE clean
      /\ dropped' = dropped \cup D \cup E
      /\ contested' = contested \cap live'
      /\ UNCHANGED <<policy, recall, rank, reported>>
  BY DEF Cap
<1>2. live \subseteq Recalled /\ RecallOK
  BY <1>1 DEF SelectionInv, Accounted, Selecting, Usable
<1>3. ASSUME NEW i \in clean PROVE Position(clean, i) > policy.cap <=> ~(Position(clean, i) <= policy.cap)
  <2>1. Position(clean, i) \in Nat
    BY <1>2, RecallCounted DEF Position
  <2>2. policy.cap \in Nat
    BY <1>2, PoliciesTyped DEF RecallOK, RetrievalPolicy
  <2> HIDE DEF clean
  <2> QED BY <2>1, <2>2
<1>4. live' = live \ S
  <2>1. CASE over
    <3>1. live' = {i \in clean : Position(clean, i) <= policy.cap}
      BY <1>1, <2>1 DEF Trim
    <3>2. tail = {i \in clean : Position(clean, i) > policy.cap}
      BY <2>1
    <3>3. clean \subseteq live
      OBVIOUS
    <3> HIDE DEF clean, over, tail
    <3> QED BY <1>3, <3>1, <3>2, <3>3
  <2>2. CASE ~over
    <3>1. live' = clean /\ tail = {}
      BY <1>1, <2>2
    <3>2. clean \subseteq live
      OBVIOUS
    <3> HIDE DEF clean, over, tail
    <3> QED BY <3>1, <3>2
  <2> QED BY <2>1, <2>2
<1>5. S \in SUBSET live /\ shady \cap tail = {} /\ dropped' = dropped \cup F
  <2> HIDE DEF D, E, over
  <2> QED BY <1>1
<1>6. /\ {d.memory : d \in D} = shady /\ \A d, e \in D : d.memory = e.memory => d = e
      /\ \A d \in D : d.memory \in shady /\ d.reason = All("suspicious")[d.memory]
  <2> HIDE DEF shady
  <2> QED BY DropsOfSet
<1>7. /\ {d.memory : d \in E} = tail /\ \A d, e \in E : d.memory = e.memory => d = e
      /\ \A d \in E : d.memory \in tail /\ d.reason = All("cap")[d.memory]
  <2> HIDE DEF tail
  <2> QED BY DropsOfSet
<1> HIDE DEF shady, tail, clean, over, D, E
<1>8. /\ {d.memory : d \in F} = S /\ \A d, e \in F : d.memory = e.memory => d = e
  <2>1. ASSUME NEW d \in D, NEW e \in E PROVE d.memory # e.memory
    <3>1. d.memory \in shady /\ e.memory \in tail
      BY ONLY <1>6, <1>7
    <3> QED BY ONLY <1>5, <3>1
  <2>2. {d.memory : d \in D \cup E} = shady \cup tail
    BY ONLY <1>6, <1>7
  <2> QED BY ONLY <1>6, <1>7, <2>1, <2>2
<1>9. ASSUME NEW d \in F PROVE d.reason \notin {"stale", "expired", "superseded"}
  <2>1. d.memory \in Recalled
    BY <1>2, <1>5, <1>6, <1>7
  <2>2. d.reason \in {"suspicious", "cap"}
    BY <1>6, <1>7, <2>1 DEF All
  <2> QED BY <2>2
<1> HIDE DEF S, F
<1> QED BY <1>1, <1>4, <1>5, <1>8, <1>9, PassKeeps

\* The selection is kept by its own steps.
LEMMA SelectKeeps ==
    ASSUME SelectionInv, SelNext
    PROVE  SelectionInv'
BY RankKeeps, ResolveKeeps, FloorKeeps, CapKeeps DEF SelNext

\* Outside of it there is nothing to keep but the records.
LEMMA SelectionIdle ==
    ASSUME RecallOK', ~Selecting', phase' # "resolved",
           live' = {}, dropped' = {}, Flags'
    PROVE  SelectionInv'
<1>1. Accounted' /\ Represented' /\ Ranking'
  BY DEF Accounted, Represented, Ranking, Selecting
<1>2. ConflictsSettled'
  BY DEF ConflictsSettled, ClaimsSurvive, ConflictsFlagged, AblationRemoves, Selecting
<1> QED BY <1>1, <1>2 DEF SelectionInv

\* The prompt takes what is left and resets the selection.
LEMMA BuildPromptKeeps ==
    ASSUME SelectionInv, ReplayTyped, BuildPrompt
    PROVE  SelectionInv' /\ ReplayTyped'
<1>1. /\ phase = "selected" /\ phase' = "built" /\ recall' = <<>> /\ live' = {}
      /\ dropped' = {} /\ contested' = {} /\ reported' = FALSE
      /\ policy' = CHOOSE p \in Policies : TRUE
      /\ UNCHANGED <<selecting, isolated, task, score, failure>>
  BY DEF BuildPrompt
<1>2. RecallOK'
  <2>1. Recalled' = {}
    BY <1>1 DEF Recalled
  <2>2. policy' \in Policies
    BY <1>1 DEF SelectionInv, RecallOK
  <2>3. \E n \in 0..MaxRecall : recall' \in [1..n -> Records]
    <3>1. recall' \in [1..0 -> Records] /\ 0 \in 0..MaxRecall
      BY <1>1, SelectionBounds
    <3> QED BY <3>1
  <2> QED BY <1>1, <2>1, <2>2, <2>3 DEF RecallOK, Phases
<1>3. SelectionInv'
  BY <1>1, <1>2, SelectionIdle DEF Selecting, Flags
<1>4. PICK evicted \in SUBSET live, history \in Histories :
         replay' = [retrieved |-> FactsOf(Recalled),
                    prompt    |-> history \cup FactsOf(live \ evicted),
                    reason    |-> DropReason(dropped \cup Drops(evicted, Pass.budget,
                                                                All("memory_budget"))),
                    reasons   |-> {d.reason : d \in dropped \cup
                                     Drops(evicted, Pass.budget, All("memory_budget"))}]
  BY DEF BuildPrompt
<1>5. \A T \in SUBSET Recalled : FactsOf(T) \subseteq Facts
  BY DEF FactsOf, SelectionInv, RecallOK
<1>6. live \ evicted \in SUBSET Recalled
  BY <1>1 DEF SelectionInv, Accounted, Selecting, Usable
<1>7. history \subseteq Facts
  BY <1>4, TasksTyped
<1>8. replay'.retrieved \subseteq Facts /\ replay'.prompt \subseteq Facts
  <2>1. /\ replay'.retrieved = FactsOf(Recalled)
        /\ replay'.prompt = history \cup FactsOf(live \ evicted)
    BY <1>4
  <2> QED BY <1>5, <1>6, <1>7, <2>1
<1> QED BY <1>1, <1>3, <1>8 DEF ReplayTyped

-------------------------------------------------------------------------------
(* The score and the labels.                                               *)


\* What was seen of the facts is read off the record and the task.
LEMMA SeenTyped ==
    ASSUME ReplayTyped
    PROVE  /\ RetrievalScore(task) \in RetrievalScores
           /\ Absent = task.required \ replay.prompt
           /\ ForbiddenShown = task.forbidden \cap replay.prompt
           /\ RetrievalScore(task).evidence <=> task.required # {} /\ Absent = {}
           /\ ExpectsAbstention(task) \in BOOLEAN
           /\ task \in TaskRecords
<1>1. task \in TaskRecords
  BY TasksTyped DEF ReplayTyped
<1>2. task.required \subseteq Facts /\ task.forbidden \subseteq Facts
      /\ task.unanswerable \in BOOLEAN
  BY <1>1 DEF TaskRecords
<1>3. RetrievalScore(task) \in RetrievalScores
  BY <1>2 DEF RetrievalScore, RetrievalScores, ReplayTyped
<1>4. Absent = task.required \ replay.prompt
  BY DEF Absent, RetrievalScore
<1>5. ForbiddenShown = task.forbidden \cap replay.prompt
  BY DEF ForbiddenShown, RetrievalScore
<1>6. RetrievalScore(task).evidence <=> task.required # {} /\ Absent = {}
  BY <1>4 DEF RetrievalScore
<1>7. ExpectsAbstention(task) \in BOOLEAN
  BY <1>2 DEF ExpectsAbstention
<1> QED BY <1>1, <1>3, <1>4, <1>5, <1>6, <1>7

\* The scorer says of each verdict which label it has.
LEMMA ScoreRead ==
    ASSUME ReplayTyped, NEW v \in Given, score = Scored(task, v)
    PROVE  LET seen == RetrievalScore(task).evidence
               x == ExpectsAbstention(task) IN
           /\ score.verdict = IF v = "abstained" /\ seen THEN "wrong_abstention" ELSE v
           /\ score.faithful \in BOOLEAN \cup {None}
           /\ score.verdict = "ungraded" => score.faithful = None /\ score.error = "ungraded"
           /\ score.verdict = "correct" =>
                score.faithful = (IF x THEN TRUE ELSE seen) /\ score.error = ""
           /\ score.verdict = "stale_answer" =>
                score.error = IF task.category = "conflict" THEN "conflicting_memory"
                              ELSE "stale_memory"
           /\ score.verdict = "wrong_abstention" => score.error = "wrong_abstention" /\ seen
           /\ score.verdict = "abstained" => score.error = "missed_memory"
           /\ score.verdict = "incorrect" => score.error \in {"hallucination", "missed_memory"}
<1> DEFINE seen == RetrievalScore(task).evidence
           x == ExpectsAbstention(task)
           w == IF v = "abstained" /\ seen THEN "wrong_abstention" ELSE v
<1>1. seen \in BOOLEAN /\ x \in BOOLEAN /\ (w = "wrong_abstention" => seen)
  BY SeenTyped DEF Given, RetrievalScores
<1>2. w \in {"correct", "incorrect", "abstained", "wrong_abstention", "stale_answer",
             "ungraded"}
  BY DEF Given
<1>3. /\ score.verdict = w /\ score.faithful = Faithful(task, w)
      /\ score.error =
           CASE w = "correct" -> ""
             [] w = "ungraded" -> "ungraded"
             [] w = "stale_answer" ->
                  IF task.category = "conflict" THEN "conflicting_memory" ELSE "stale_memory"
             [] w = "wrong_abstention" -> "wrong_abstention"
             [] w = "abstained" -> "missed_memory"
             [] w = "incorrect" -> IF x \/ seen THEN "hallucination" ELSE "missed_memory"
  BY DEF Scored
<1>4. /\ w = "correct" => score.error = ""
      /\ w = "ungraded" => score.error = "ungraded"
      /\ w = "stale_answer" =>
           score.error = IF task.category = "conflict" THEN "conflicting_memory"
                         ELSE "stale_memory"
      /\ w = "wrong_abstention" => score.error = "wrong_abstention"
      /\ w = "abstained" => score.error = "missed_memory"
      /\ w = "incorrect" => score.error \in {"hallucination", "missed_memory"}
  <2> HIDE DEF w, x, seen
  <2> QED BY <1>2, <1>3
<1>5. /\ w = "ungraded" => Faithful(task, w) = None
      /\ w = "correct" => Faithful(task, w) = (IF x THEN TRUE ELSE seen)
      /\ Faithful(task, w) \in BOOLEAN \cup {None}
  <2>1. CASE w = "ungraded"
    <3>1. Faithful(task, w) = None
      BY <2>1 DEF Faithful
    <3> QED BY <2>1, <3>1
  <2>2. CASE w # "ungraded" /\ x
    <3>1. Faithful(task, w) = (w = "correct")
      BY <2>2 DEF Faithful
    <3> QED BY <2>2, <3>1
  <2>3. CASE w \in {"abstained", "wrong_abstention"} /\ ~x
    <3>1. Faithful(task, w) = ~seen
      BY <2>3 DEF Faithful
    <3> QED BY <2>3, <3>1
  <2>4. CASE w = "correct" /\ ~x
    <3>1. Faithful(task, w) = seen
      BY <2>4 DEF Faithful
    <3> QED BY <1>1, <2>4, <3>1
  <2>5. CASE w = "stale_answer" /\ ~x
    <3>1. Faithful(task, w) = (RetrievalScore(task).forbidden # {})
      BY <2>5 DEF Faithful
    <3> QED BY <2>5, <3>1
  <2>6. CASE w = "incorrect" /\ ~x
    <3>1. Faithful(task, w) = FALSE
      BY <2>6 DEF Faithful
    <3> QED BY <2>6, <3>1
  <2> HIDE DEF w, x, seen
  <2> QED BY <1>2, <2>1, <2>2, <2>3, <2>4, <2>5, <2>6
<1> HIDE DEF seen, x
<1> QED BY <1>1, <1>3, <1>4, <1>5 DEF seen, x

\* The order of attribution is one of all labels.
LEMMA OrderOfLabels ==
    /\ DOMAIN AttributionOrder = 1..9
    /\ AttributionOrder[1] = "hallucination" /\ AttributionOrder[2] = "wrong_abstention"
    /\ AttributionOrder[3] = "conflicting_memory" /\ AttributionOrder[4] = "stale_memory"
    /\ AttributionOrder[5] = "missed_memory" /\ AttributionOrder[6] = "irrelevant_memory"
    /\ AttributionOrder[7] = "over_compression" /\ AttributionOrder[8] = "under_compression"
    /\ AttributionOrder[9] = "wrong_memory"
    /\ Labels = {"hallucination", "wrong_abstention", "conflicting_memory", "stale_memory",
                 "missed_memory", "irrelevant_memory", "over_compression",
                 "under_compression", "wrong_memory"}
<1>1. /\ DOMAIN AttributionOrder = 1..9
      /\ AttributionOrder[1] = "hallucination" /\ AttributionOrder[2] = "wrong_abstention"
      /\ AttributionOrder[3] = "conflicting_memory" /\ AttributionOrder[4] = "stale_memory"
      /\ AttributionOrder[5] = "missed_memory" /\ AttributionOrder[6] = "irrelevant_memory"
      /\ AttributionOrder[7] = "over_compression" /\ AttributionOrder[8] = "under_compression"
      /\ AttributionOrder[9] = "wrong_memory"
  <2>1. DOMAIN AttributionOrder = 1..9
    BY DEF AttributionOrder
  <2>2. /\ AttributionOrder[1] = "hallucination" /\ AttributionOrder[2] = "wrong_abstention"
        /\ AttributionOrder[3] = "conflicting_memory" /\ AttributionOrder[4] = "stale_memory"
        /\ AttributionOrder[5] = "missed_memory" /\ AttributionOrder[6] = "irrelevant_memory"
        /\ AttributionOrder[7] = "over_compression" /\ AttributionOrder[8] = "under_compression"
        /\ AttributionOrder[9] = "wrong_memory"
    BY DEF AttributionOrder
  <2> QED BY <2>1, <2>2
<1>2. 1..9 = {1, 2, 3, 4, 5, 6, 7, 8, 9}
  OBVIOUS
<1>3. Labels = {AttributionOrder[i] : i \in {1, 2, 3, 4, 5, 6, 7, 8, 9}}
  BY <1>1, <1>2 DEF ToSet, Labels
<1>4. {AttributionOrder[i] : i \in {1, 2, 3, 4, 5, 6, 7, 8, 9}}
      = {"hallucination", "wrong_abstention", "conflicting_memory", "stale_memory",
         "missed_memory", "irrelevant_memory", "over_compression", "under_compression",
         "wrong_memory"}
  BY <1>1
<1> QED BY <1>1, <1>3, <1>4

\* The primary label is one of the labels, and what the answer did comes first.
LEMMA PrimaryFirst ==
    ASSUME NEW L \in SUBSET Labels, L # {}
    PROVE  /\ Primary(L) \in L
           /\ "hallucination" \notin L =>
                /\ "wrong_abstention" \in L => Primary(L) = "wrong_abstention"
                /\ "wrong_abstention" \notin L =>
                     /\ "conflicting_memory" \in L => Primary(L) = "conflicting_memory"
                     /\ "conflicting_memory" \notin L /\ "stale_memory" \in L =>
                          Primary(L) = "stale_memory"
<1> DEFINE A == AttributionOrder
           I == {i \in 1..9 : A[i] \in L}
           First(i) == A[i] \in L /\ \A j \in 1..(i - 1) : A[j] \notin L
<1>1. I \in SUBSET Nat /\ I # {}
  <2>1. PICK l \in L : TRUE
    OBVIOUS
  <2>2. PICK i \in DOMAIN A : l = A[i]
    BY <2>1 DEF Labels, ToSet
  <2> QED BY <2>1, <2>2, OrderOfLabels
<1>2. PICK m \in I : \A i \in I : m <= i
  <2> HIDE DEF I
  <2> QED BY <1>1, LeastMember
<1>3. m \in DOMAIN A /\ First(m)
  <2>1. m \in 1..9 /\ A[m] \in L
    BY <1>2
  <2>2. ASSUME NEW j \in 1..(m - 1), A[j] \in L PROVE FALSE
    <3>1. j \in I /\ j < m /\ j \in Int
      BY <2>1, <2>2
    <3> QED BY <1>2, <2>1, <3>1
  <2> HIDE DEF A
  <2> QED BY <2>1, <2>2, OrderOfLabels DEF A
<1> DEFINE p == CHOOSE i \in DOMAIN A : First(i)
<1>4. p \in DOMAIN A /\ First(p)
  <2> HIDE DEF A, First
  <2> QED BY <1>3
<1>5. Primary(L) = A[p]
  BY DEF Primary
<1> HIDE DEF p
<1>6. p \in 1..9 /\ A[p] \in L /\ \A j \in 1..9 : j < p => A[j] \notin L
  <2>1. p \in 1..9
    BY <1>4, OrderOfLabels
  <2>2. ASSUME NEW j \in 1..9, j < p PROVE A[j] \notin L
    <3>1. j \in 1..(p - 1)
      BY <2>1, <2>2
    <3> QED BY <1>4, <3>1
  <2> QED BY <1>4, <2>1, <2>2
<1> HIDE DEF A
<1>7. /\ A[1] = "hallucination" /\ A[2] = "wrong_abstention"
      /\ A[3] = "conflicting_memory" /\ A[4] = "stale_memory"
  BY OrderOfLabels DEF A
<1>8. "hallucination" \notin L => p >= 2
  BY <1>6, <1>7
<1>9. "hallucination" \notin L /\ "wrong_abstention" \notin L => p >= 3
  BY <1>6, <1>7
<1>10. "hallucination" \notin L /\ "wrong_abstention" \notin L
       /\ "conflicting_memory" \notin L => p >= 4
  BY <1>6, <1>7
<1>11. /\ "wrong_abstention" \in L => p <= 2
       /\ "conflicting_memory" \in L => p <= 3
       /\ "stale_memory" \in L => p <= 4
  BY <1>6, <1>7
<1>12. "hallucination" \notin L /\ "wrong_abstention" \in L => p = 2
  BY <1>6, <1>8, <1>11
<1>13. "hallucination" \notin L /\ "wrong_abstention" \notin L /\ "conflicting_memory" \in L
       => p = 3
  BY <1>6, <1>9, <1>11
<1>14. /\ "hallucination" \notin L /\ "wrong_abstention" \notin L
       /\ "conflicting_memory" \notin L /\ "stale_memory" \in L
       => p = 4
  BY <1>6, <1>10, <1>11
<1> QED BY <1>5, <1>6, <1>7, <1>12, <1>13, <1>14

\* The drops and the retriever are blamed for a lost fact, never the answer; a
\* conflict only if its own memory was superseded.
LEMMA BlameLabel ==
    ASSUME NEW f
    PROVE  /\ Blame(f) \in {"irrelevant_memory", "stale_memory", "conflicting_memory",
                            "over_compression", "missed_memory"}
           /\ Blame(f) = "conflicting_memory" => replay.reason[f] = "superseded"
<1> DEFINE r == replay.reason[f]
<1>1. LabelOf(r) \in {"irrelevant_memory", "stale_memory", "conflicting_memory",
                      "over_compression", ""}
  BY DEF LabelOf, RelevanceReasons, VolumeReasons
<1>2. LabelOf(r) = "conflicting_memory" => r = "superseded"
  BY DEF LabelOf, RelevanceReasons, VolumeReasons
<1> HIDE DEF r
<1>3. LabelOf(r) # "" => Blame(f) = LabelOf(r)
  BY DEF Blame, r
<1>4. LabelOf(r) = "" => Blame(f) \in {"irrelevant_memory", "over_compression", "missed_memory"}
  BY DEF Blame, r
<1> QED BY <1>1, <1>2, <1>3, <1>4 DEF r

\* The labels of a scored record, as classify_failure collects them.
Signals  == AnswerSignals \cup PromptSignals
Assigned == IF Signals = {} THEN ResidualSignals ELSE Signals

\* Which labels a record gets, by its verdict and by what its prompt lacked or showed.
LEMMA LabelsRead ==
    ASSUME ReplayTyped, NEW v \in Given, score = Scored(task, v)
    PROVE  /\ Assigned \subseteq Labels
           /\ "hallucination" \in Assigned => score.verdict = "incorrect"
           /\ "wrong_abstention" \in Assigned <=> score.verdict = "wrong_abstention"
           /\ score.verdict = "stale_answer" =>
                (IF task.category = "conflict" THEN "conflicting_memory" ELSE "stale_memory")
                \in Assigned
           /\ "conflicting_memory" \in Assigned =>
                \/ score.verdict = "stale_answer" /\ task.category = "conflict"
                \/ \E f \in Absent : replay.reason[f] = "superseded"
           /\ "over_compression" \in Assigned <=> Absent # {}
           /\ Assigned # {} => Failed
           /\ task.required # {} /\ Failed => Assigned # {}
<1> DEFINE seen == RetrievalScore(task).evidence
           x == ExpectsAbstention(task)
           w == score.verdict
<1>1. /\ seen \in BOOLEAN /\ x \in BOOLEAN
      /\ seen <=> task.required # {} /\ Absent = {}
      /\ Absent = task.required \ replay.prompt
  BY SeenTyped DEF RetrievalScores
<1>2. /\ w \in {"correct", "incorrect", "abstained", "wrong_abstention", "stale_answer",
                "ungraded"}
      /\ w = "abstained" => ~seen
      /\ w = "wrong_abstention" => seen
  BY <1>1, ScoreRead DEF Given
<1>3. \A f \in Absent : /\ Blame(f) \in {"irrelevant_memory", "stale_memory",
                                         "conflicting_memory", "over_compression",
                                         "missed_memory"}
                        /\ Blame(f) = "conflicting_memory" => replay.reason[f] = "superseded"
  BY BlameLabel
<1> DEFINE blamed == {Blame(f) : f \in Absent}
           shown  == ForbiddenShown # {}
           stale  == IF task.category = "conflict" THEN "conflicting_memory"
                     ELSE "stale_memory"
<1>4. AnswerSignals =
        (IF w = "incorrect" /\ x THEN {"hallucination"} ELSE {})
        \cup (IF w = "stale_answer" THEN {stale} ELSE {})
        \cup (IF w = "wrong_abstention" THEN {"wrong_abstention"} ELSE {})
  <2>1. (w \in {"abstained", "wrong_abstention"} /\ seen) <=> w = "wrong_abstention"
    BY <1>2
  <2> QED BY <2>1 DEF AnswerSignals
<1>5. PromptSignals = (IF Absent # {} THEN {"over_compression"} ELSE {})
                      \cup blamed \cup (IF shown THEN {"under_compression"} ELSE {})
  BY DEF PromptSignals
<1>6. /\ blamed \subseteq {"irrelevant_memory", "stale_memory", "conflicting_memory",
                           "over_compression", "missed_memory"}
      /\ Absent = {} => blamed = {}
      /\ "conflicting_memory" \in blamed => \E f \in Absent : replay.reason[f] = "superseded"
  BY <1>3
<1>7. /\ ResidualSignals \subseteq {"wrong_memory", "hallucination"}
      /\ ResidualSignals # {} <=> w = "incorrect" /\ task.required # {} /\ Absent = {}
  BY DEF ResidualSignals
<1>8. Failed <=> w \notin {"correct", "ungraded"} \/ Absent # {} \/ shown
  BY <1>1 DEF Failed
<1>9. stale \in {"conflicting_memory", "stale_memory"}
      /\ (stale = "conflicting_memory" <=> task.category = "conflict")
  OBVIOUS
<1> HIDE DEF seen, x, w, blamed, shown, stale
<1>10. Assigned \subseteq Labels
  BY <1>4, <1>5, <1>6, <1>7, <1>9, OrderOfLabels DEF Assigned, Signals
<1>11. "hallucination" \in Assigned => w = "incorrect"
  BY <1>4, <1>5, <1>6, <1>7, <1>9 DEF Assigned, Signals
<1>12. "wrong_abstention" \in Assigned <=> w = "wrong_abstention"
  BY <1>4, <1>5, <1>6, <1>7, <1>9 DEF Assigned, Signals
<1>13. w = "stale_answer" => stale \in Assigned
  BY <1>4 DEF Assigned, Signals
<1>14. "conflicting_memory" \in Assigned =>
         \/ w = "stale_answer" /\ task.category = "conflict"
         \/ \E f \in Absent : replay.reason[f] = "superseded"
  <2>1. "conflicting_memory" \in Assigned =>
           \/ w = "stale_answer" /\ stale = "conflicting_memory"
           \/ "conflicting_memory" \in blamed
    BY <1>4, <1>5, <1>7 DEF Assigned, Signals
  <2> QED BY <1>6, <1>9, <2>1
<1>15. "over_compression" \in Assigned <=> Absent # {}
  BY <1>4, <1>5, <1>6, <1>7, <1>9 DEF Assigned, Signals
<1>16. Assigned # {} => Failed
  <2>1. AnswerSignals # {} => w \notin {"correct", "ungraded"}
    BY <1>4
  <2>2. PromptSignals # {} => Absent # {} \/ shown
    BY <1>5, <1>6
  <2>3. ResidualSignals # {} => w \notin {"correct", "ungraded"}
    BY <1>7
  <2> QED BY <1>8, <2>1, <2>2, <2>3 DEF Assigned, Signals
<1>17. task.required # {} /\ Failed => Assigned # {}
  <2>1. Absent # {} \/ shown => PromptSignals # {}
    BY <1>5
  <2>2. w \in {"stale_answer", "wrong_abstention"} => AnswerSignals # {}
    BY <1>4
  <2>3. w = "incorrect" /\ task.required # {} /\ Absent = {} => ResidualSignals # {}
    BY <1>7
  <2>4. w = "abstained" /\ task.required # {} => Absent # {}
    BY <1>1, <1>2
  <2> QED BY <1>2, <1>8, <2>1, <2>2, <2>3, <2>4 DEF Assigned, Signals
<1> QED BY <1>10, <1>11, <1>12, <1>13, <1>14, <1>15, <1>16, <1>17 DEF w, stale

\* The scorer reads the record and the task alone.
LEMMA ScoredKept ==
    ASSUME NEW t, NEW v, task' = t, replay' = replay, isolated' = isolated
    PROVE  Scored(task, v)' = Scored(t, v)
<1>1. RetrievalScore(task)' = RetrievalScore(t)
  BY DEF RetrievalScore
<1>2. ExpectsAbstention(task)' = ExpectsAbstention(t)
  BY DEF ExpectsAbstention
<1>3. \A w : Faithful(task, w)' = Faithful(t, w)
  BY <1>1, <1>2 DEF Faithful
<1> QED BY <1>1, <1>2, <1>3 DEF Scored

\* So a graded answer has one of five verdicts before the refinement.
LEMMA GradeKeeps ==
    ASSUME GradingInv, SelectionInv, Grade
    PROVE  GradingInv' /\ SelectionInv'
<1>1. /\ phase = "built" /\ phase' = "scored"
      /\ UNCHANGED <<policy, recall, rank, live, dropped, contested, reported,
                     selecting, isolated, replay, failure>>
  BY DEF Grade
<1>2. PICK t \in Tasks :
         /\ task' = t
         /\ \/ score' = Scored(t, "ungraded")
            \/ \E says \in SUBSET Says :
                 /\ "accepted" \in says => t.answers
                 /\ "stale" \in says => t.forbidden # {}
                 /\ score' = Scored(t, Verdict(t, says))
  BY DEF Grade
<1>3. ASSUME NEW says \in SUBSET Says PROVE Verdict(t, says) \in Given
  <2>1. CASE ExpectsAbstention(t)
    BY <2>1 DEF Verdict, Given
  <2>2. CASE ~ExpectsAbstention(t)
    <3>1. says = {} \/ says = {"stale"} \/ "accepted" \in says \/ "declines" \in says
      BY DEF Says
    <3>2. CASE "accepted" \in says
      <4>1. Verdict(t, says) = "correct"
        BY <2>2, <3>2 DEF Verdict
      <4> QED BY <4>1 DEF Given
    <3>3. CASE "accepted" \notin says /\ "declines" \in says
      <4>1. Verdict(t, says) = "abstained"
        BY <2>2, <3>3 DEF Verdict
      <4> QED BY <4>1 DEF Given
    <3>4. CASE says = {"stale"}
      <4>1. Verdict(t, says) = "stale_answer"
        BY <2>2, <3>4 DEF Verdict
      <4> QED BY <4>1 DEF Given
    <3>5. CASE says = {}
      <4>1. Verdict(t, says) = "incorrect"
        BY <2>2, <3>5 DEF Verdict
      <4> QED BY <4>1 DEF Given
    <3> QED BY <3>1, <3>2, <3>3, <3>4, <3>5
  <2> QED BY <2>1, <2>2
<1>4. PICK v \in Given : score' = Scored(t, v)
  BY <1>2, <1>3 DEF Given
<1>5. score' = Scored(task, v)'
  BY <1>1, <1>2, <1>4, ScoredKept
<1>6. Graded'
  BY <1>5 DEF Graded
<1>7. ReplayTyped' /\ Recorded' /\ FailuresLabelled'
  BY <1>1, <1>2 DEF GradingInv, ReplayTyped, Recorded, FailuresLabelled, Classified
<1>8. SelectionInv'
  <2>1. RecallOK' /\ Flags' /\ live' = {} /\ dropped' = {}
    BY <1>1, RecallKept DEF SelectionInv, Accounted, Selecting, Flags, Phases, Recalled
  <2> QED BY <1>1, <2>1, SelectionIdle DEF Selecting
<1> QED BY <1>6, <1>7, <1>8 DEF GradingInv

\* The failure record and what it says of the labels.
LEMMA RecordRead ==
    ASSUME ReplayTyped, NEW v \in Given, score = Scored(task, v),
           NEW L \in SUBSET Labels, L # {}
    PROVE  LET record == FailureRecord(Classification(L)) IN
           /\ record \in FailureRecords
           /\ record.class.type = Primary(L) /\ record.class.labels = L
           /\ record.class.graded = (score.verdict # "ungraded")
           /\ record.class.observed = (score.verdict \notin {"correct", "ungraded"})
           /\ record.class.evidenceLost = ("over_compression" \in L)
           /\ record.shown.absent = Absent /\ record.scorer = score.error
<1> DEFINE class == Classification(L)
<1>1. Primary(L) \in Labels
  BY PrimaryFirst
<1>2. /\ class \in Classifications
      /\ class.type = Primary(L) /\ class.labels = L
      /\ class.graded = (score.verdict # "ungraded")
      /\ class.observed = (score.verdict \notin {"correct", "ungraded"})
      /\ class.evidenceLost = ("over_compression" \in L)
  BY <1>1 DEF Classification, Classifications
<1>3. score.verdict \in Verdicts
  BY ScoreRead DEF Given, Verdicts
<1>4. score.error \in Labels \cup {"", "ungraded"}
  <2>1. score.error \in {"", "ungraded", "conflicting_memory", "stale_memory",
                         "wrong_abstention", "missed_memory", "hallucination"}
    BY <1>3, ScoreRead DEF Verdicts
  <2> QED BY <2>1, OrderOfLabels
<1>5. score.faithful \in BOOLEAN \cup {None}
  BY ScoreRead
<1>6. RetrievalScore(task) \in RetrievalScores
  BY SeenTyped
<1> HIDE DEF class
<1>7. FailureRecord(class) \in FailureRecords
  BY <1>2, <1>3, <1>4, <1>5, <1>6 DEF FailureRecord, FailureRecords
<1>8. /\ FailureRecord(class).class = class /\ FailureRecord(class).scorer = score.error
      /\ FailureRecord(class).shown.absent = Absent
  BY DEF FailureRecord, Absent
<1> QED BY <1>2, <1>7, <1>8 DEF class

\* The taxonomy labels what went wrong, as the scorer does.
LEMMA ClassifyKeeps ==
    ASSUME GradingInv, SelectionInv, Classify
    PROVE  GradingInv' /\ SelectionInv'
<1>1. /\ phase = "scored" /\ phase' = "classified"
      /\ failure' = IF Assigned = {} THEN None ELSE FailureRecord(Classification(Assigned))
      /\ UNCHANGED <<policy, recall, rank, live, dropped, contested, reported,
                     selecting, isolated, replay, task, score>>
  BY DEF Classify, Assigned, Signals
<1>2. PICK v \in Given : score = Scored(task, v)
  BY <1>1 DEF GradingInv, Graded
<1>3. ReplayTyped
  BY DEF GradingInv
<1> DEFINE w == score.verdict
           record == FailureRecord(Classification(Assigned))
<1>4. /\ Assigned \subseteq Labels
      /\ "hallucination" \in Assigned => w = "incorrect"
      /\ "wrong_abstention" \in Assigned <=> w = "wrong_abstention"
      /\ w = "stale_answer" =>
           (IF task.category = "conflict" THEN "conflicting_memory" ELSE "stale_memory")
           \in Assigned
      /\ "conflicting_memory" \in Assigned =>
           \/ w = "stale_answer" /\ task.category = "conflict"
           \/ \E f \in Absent : replay.reason[f] = "superseded"
      /\ "over_compression" \in Assigned <=> Absent # {}
      /\ Assigned # {} => Failed
      /\ task.required # {} /\ Failed => Assigned # {}
  BY <1>2, <1>3, LabelsRead
<1>5. Assigned # {} =>
        /\ record \in FailureRecords
        /\ record.class.type = Primary(Assigned) /\ record.class.labels = Assigned
        /\ record.class.graded = (w # "ungraded")
        /\ record.class.observed = (w \notin {"correct", "ungraded"})
        /\ record.class.evidenceLost = ("over_compression" \in Assigned)
        /\ record.shown.absent = Absent /\ record.scorer = score.error
  BY <1>2, <1>3, <1>4, RecordRead
<1>6. Assigned # {} =>
        /\ Primary(Assigned) \in Assigned
        /\ "hallucination" \notin Assigned =>
             /\ "wrong_abstention" \in Assigned => Primary(Assigned) = "wrong_abstention"
             /\ "wrong_abstention" \notin Assigned =>
                  /\ "conflicting_memory" \in Assigned => Primary(Assigned) = "conflicting_memory"
                  /\ "conflicting_memory" \notin Assigned /\ "stale_memory" \in Assigned =>
                       Primary(Assigned) = "stale_memory"
  BY <1>4, PrimaryFirst
<1>7. /\ w = IF v = "abstained" /\ RetrievalScore(task).evidence THEN "wrong_abstention" ELSE v
      /\ score.faithful \in BOOLEAN \cup {None}
      /\ w = "ungraded" => score.faithful = None /\ score.error = "ungraded"
      /\ w = "correct" =>
           score.faithful = (IF ExpectsAbstention(task) THEN TRUE
                             ELSE RetrievalScore(task).evidence)
           /\ score.error = ""
      /\ w = "stale_answer" =>
           score.error = IF task.category = "conflict" THEN "conflicting_memory"
                         ELSE "stale_memory"
      /\ w = "wrong_abstention" => score.error = "wrong_abstention"
      /\ w = "abstained" => score.error = "missed_memory"
      /\ w = "incorrect" => score.error \in {"hallucination", "missed_memory"}
  BY <1>2, <1>3, ScoreRead
<1>8. /\ RetrievalScore(task).evidence <=> task.required # {} /\ Absent = {}
      /\ Absent = task.required \ replay.prompt
  BY <1>3, SeenTyped
<1>9. w \in {"correct", "incorrect", "abstained", "wrong_abstention", "stale_answer",
             "ungraded"}
  BY <1>7 DEF Given
<1>10. /\ Assigned = {} => failure' = None
       /\ Assigned # {} => failure' = record /\ failure' # None
  BY <1>1, <1>5, NoneIsNoRecord
<1>11. Absent' = Absent /\ ForbiddenShown' = ForbiddenShown /\ Failed' = Failed
  <2>1. Absent' = Absent /\ ForbiddenShown' = ForbiddenShown
    BY <1>1 DEF Absent, ForbiddenShown, RetrievalScore
  <2> QED BY <1>1, <2>1 DEF Failed
<1> HIDE DEF record
<1>12. LabelAgrees'
  <2> SUFFICES ASSUME failure' # None, LabelsVsScorer' = "unexpected"
               PROVE  /\ score.error = "stale_memory"
                      /\ failure'.class.type = "conflicting_memory"
                      /\ \E f \in Absent : replay.reason[f] = "superseded"
    BY <1>1, <1>11 DEF LabelAgrees
  <2>1. Assigned # {} /\ failure' = record
    BY <1>10
  <2>2. record.class.type = Primary(Assigned) /\ record.scorer = score.error
    BY <1>5, <2>1
  <2>3. /\ score.error \notin {"", "ungraded"} /\ score.error # Primary(Assigned)
        /\ score.error \notin {"missed_memory", "wrong_answer", "hallucination"}
    <3> DEFINE e == score.error
               t == Primary(Assigned)
    <3>1. LabelsVsScorer' = CASE e \in {"", "ungraded"} -> "unlabelled"
                              [] e = t -> "agree"
                              [] /\ e \in {"missed_memory", "wrong_answer", "hallucination"}
                                 /\ e # t -> "refined"
                              [] OTHER -> "unexpected"
      BY <2>1, <2>2 DEF LabelsVsScorer
    <3>2. /\ e \in {"", "ungraded", "conflicting_memory", "stale_memory", "wrong_abstention",
                    "missed_memory", "hallucination"}
      BY <1>7, <1>9
    <3>3. e \notin {"missed_memory", "wrong_answer", "hallucination"} \/ e = t
      <4> HIDE DEF e, t
      <4>1. CASE e \in {"missed_memory", "wrong_answer", "hallucination"} /\ e # t
        <5>1. e \notin {"", "ungraded"}
          BY <4>1
        <5>2. LabelsVsScorer' = "refined"
          BY <3>1, <4>1, <5>1
        <5> QED BY <5>2
      <4> QED BY <4>1
    <3>4. e \notin {"", "ungraded"}
      <4> HIDE DEF e, t
      <4>1. CASE e \in {"", "ungraded"} /\ e # t
        <5>1. e \notin {"missed_memory", "wrong_answer", "hallucination"}
          BY <4>1
        <5>2. LabelsVsScorer' = "unlabelled"
          BY <3>1, <4>1, <5>1
        <5> QED BY <5>2
      <4>2. t \notin {"", "ungraded"}
        BY <1>4, <1>6, <2>1, OrderOfLabels DEF t
      <4> QED BY <4>1, <4>2
    <3>5. e # t
      <4> HIDE DEF e, t
      <4>1. CASE e = t
        <5>1. LabelsVsScorer' = "agree"
          BY <3>1, <3>4, <4>1
        <5> QED BY <5>1
      <4> QED BY <4>1
    <3> QED BY <3>3, <3>4, <3>5
  <2>4. w \in {"stale_answer", "wrong_abstention"}
    BY <1>7, <1>9, <2>3
  <2>5. "hallucination" \notin Assigned
    BY <1>4, <2>4
  <2>6. w = "stale_answer"
    BY <1>4, <1>6, <1>7, <2>1, <2>3, <2>4, <2>5
  <2>7. "wrong_abstention" \notin Assigned
    BY <1>4, <2>6
  <2>8. score.error = "stale_memory" /\ task.category # "conflict"
    BY <1>4, <1>6, <1>7, <2>1, <2>3, <2>5, <2>6, <2>7
  <2>9. "stale_memory" \in Assigned
    BY <1>4, <2>6, <2>8
  <2>10. "conflicting_memory" \in Assigned /\ Primary(Assigned) = "conflicting_memory"
    BY <1>6, <2>1, <2>3, <2>5, <2>7, <2>8, <2>9
  <2> QED BY <1>4, <2>1, <2>2, <2>8, <2>10
<1>13. FailuresLabelled'
  <2>1. task.required # {} => (failure' # None <=> Failed)
    BY <1>4, <1>10
  <2>2. task.required # {} /\ failure' = None => score.faithful # FALSE
    <3>1. Failed <=> w \notin {"correct", "ungraded"} \/ Absent # {} \/ ForbiddenShown # {}
      BY <1>8 DEF Failed
    <3>2. None # FALSE
      BY NoneIsNothing
    <3>3. task.required # {} /\ failure' = None =>
            /\ w \in {"correct", "ungraded"} /\ RetrievalScore(task).evidence
      BY <1>8, <2>1, <3>1
    <3> QED BY <1>7, <3>2, <3>3
  <2>3. failure' # None =>
          /\ failure'.class.evidenceLost <=> failure'.shown.absent # {}
          /\ failure'.class.observed => failure'.class.graded
    BY <1>4, <1>5, <1>10
  <2> QED BY <1>1, <1>11, <1>12, <2>1, <2>2, <2>3 DEF FailuresLabelled
<1>14. Recorded'
  BY <1>5, <1>6, <1>10 DEF Recorded
<1>15. ReplayTyped' /\ Graded'
  <2>1. Scored(task, v)' = Scored(task, v)
    BY <1>1, ScoredKept
  <2> QED BY <1>1, <1>2, <1>3, <2>1 DEF ReplayTyped, Graded
<1>16. SelectionInv'
  <2>1. RecallOK' /\ Flags' /\ live' = {} /\ dropped' = {}
    BY <1>1, RecallKept DEF SelectionInv, Accounted, Selecting, Flags, Phases, Recalled
  <2> QED BY <1>1, <2>1, SelectionIdle DEF Selecting
<1> QED BY <1>13, <1>14, <1>15, <1>16 DEF GradingInv

-------------------------------------------------------------------------------
(* The theorems.                                                           *)

\* Nothing happens to a settled question.
LEMMA StutterKeeps ==
    ASSUME GradingInv, SelectionInv, UNCHANGED vars
    PROVE  GradingInv' /\ SelectionInv'
<1>1. UNCHANGED <<phase, policy, recall, rank, live, dropped, contested, reported>>
      /\ UNCHANGED <<selecting, isolated, replay, task, score, failure>>
  BY DEF vars, selVars, gradeVars
<1>2. phase \in Phases
  BY DEF SelectionInv, RecallOK
<1>3. /\ RecallOK' /\ Recalled' = Recalled /\ Usable' = Usable
      /\ \A i, j : /\ Similar(i, j)' = Similar(i, j) /\ Conflict(i, j)' = Conflict(i, j)
                   /\ Subjects(i)' = Subjects(i)
  BY <1>1, <1>2, RecallKept DEF SelectionInv
<1>4. Selecting' = Selecting
  BY <1>1 DEF Selecting
<1>5. Accounted' /\ Represented' /\ Ranking' /\ Flags'
  BY <1>1, <1>3, <1>4 DEF SelectionInv, Accounted, Represented, Ranking, Flags
<1>6. PlainRecall' = PlainRecall
  BY <1>1, <1>3 DEF PlainRecall, Timestamp
<1>7. ClaimsSurvive' = ClaimsSurvive
  BY <1>1, <1>3, <1>6 DEF ClaimsSurvive
<1>8. ConflictsFlagged' = ConflictsFlagged /\ AblationRemoves' = AblationRemoves
  BY <1>1, <1>3 DEF ConflictsFlagged, AblationRemoves
<1>9. SelectionInv'
  BY <1>3, <1>5, <1>7, <1>8 DEF SelectionInv, ConflictsSettled
<1>10. \A v : Scored(task, v)' = Scored(task, v)
  BY <1>1, ScoredKept
<1>11. ReplayTyped' /\ Graded' /\ Recorded'
  BY <1>1, <1>10 DEF GradingInv, ReplayTyped, Graded, Recorded
<1>12. Absent' = Absent /\ ForbiddenShown' = ForbiddenShown
  BY <1>1 DEF Absent, ForbiddenShown, RetrievalScore
<1>13. Failed' = Failed /\ LabelsVsScorer' = LabelsVsScorer /\ Classified' = Classified
  BY <1>1, <1>12 DEF Failed, LabelsVsScorer, Classified
<1>14. FailuresLabelled'
  BY <1>1, <1>12, <1>13 DEF GradingInv, FailuresLabelled, LabelAgrees
<1> QED BY <1>9, <1>11, <1>14 DEF GradingInv

\* The inductive invariant of a question holds.
THEOREM QuestionInvariant == Spec => [](SelectionInv /\ GradingInv)
<1>1. Init => SelectionInv /\ GradingInv
  <2> SUFFICES ASSUME Init PROVE SelectionInv /\ GradingInv
    OBVIOUS
  <2>1. SelectionInv
    BY SelectionStarts DEF Init
  <2>2. phase = "recalled"
    BY DEF Init, SelInit
  <2>3. task \in Tasks
    BY TasksTyped DEF Init, NoTask
  <2>4. ReplayTyped
    BY <2>3 DEF Init, ReplayTyped, NoReplay
  <2>5. Graded /\ Recorded /\ FailuresLabelled
    BY <2>2 DEF Init, Graded, Recorded, FailuresLabelled, Classified
  <2> QED BY <2>1, <2>4, <2>5 DEF GradingInv
<1>2. SelectionInv /\ GradingInv /\ [Next]_vars => SelectionInv' /\ GradingInv'
  <2> SUFFICES ASSUME SelectionInv, GradingInv, [Next]_vars
               PROVE  SelectionInv' /\ GradingInv'
    OBVIOUS
  <2>1. CASE Select
    <3>1. SelNext /\ UNCHANGED <<selecting, isolated, replay, task, score, failure>>
      BY <2>1 DEF Select, gradeVars
    <3>2. SelectionInv'
      BY <3>1, SelectKeeps
    <3>3. /\ phase \in {"recalled", "ranked", "resolved", "relevant"}
          /\ phase' \in {"ranked", "resolved", "relevant", "selected"}
      BY <3>1 DEF SelNext, Rank, Resolve, Floor, Cap
    <3>4. ReplayTyped' /\ Graded' /\ Recorded' /\ FailuresLabelled'
      BY <3>1, <3>3 DEF GradingInv, ReplayTyped, Graded, Recorded, FailuresLabelled, Classified
    <3> QED BY <3>2, <3>4 DEF GradingInv
  <2>2. CASE BuildPrompt
    <3>1. SelectionInv' /\ ReplayTyped'
      BY <2>2, BuildPromptKeeps DEF GradingInv
    <3>2. phase' = "built" /\ failure' = failure
      BY <2>2 DEF BuildPrompt
    <3>3. Graded' /\ Recorded' /\ FailuresLabelled'
      BY <3>2 DEF GradingInv, Graded, Recorded, FailuresLabelled, Classified
    <3> QED BY <3>1, <3>3 DEF GradingInv
  <2>3. CASE Grade
    BY <2>3, GradeKeeps
  <2>4. CASE Classify
    BY <2>4, ClassifyKeeps
  <2>5. CASE Done \/ UNCHANGED vars
    BY <2>5, StutterKeeps DEF Done
  <2> QED BY <2>1, <2>2, <2>3, <2>4, <2>5 DEF Next
<1> QED BY <1>1, <1>2, PTL DEF Spec

\* The state of a question, its record of the replay, its score and its failure record
\* are well formed.
THEOREM TypeCorrect == Spec => []TypeOK
<1>1. SelectionInv /\ GradingInv => TypeOK
  <2> SUFFICES ASSUME SelectionInv, GradingInv PROVE TypeOK
    OBVIOUS
  <2>1. SelTypeOK
    <3>1. live \subseteq Recalled /\ \A d \in dropped : d.memory \in Recalled
      BY DEF SelectionInv, Accounted, Usable
    <3>2. Len(recall) \in 0..MaxRecall
      BY RecallCounted DEF SelectionInv
    <3>3. Len(recall) <= MaxRecall
      BY <3>2, SelectionBounds
    <3> QED BY <3>1, <3>3 DEF SelTypeOK, SelectionInv, RecallOK, Flags
  <2>2. phase \in {"scored", "classified"} =>
          score.verdict \in Verdicts /\ score.error \in Labels \cup {"", "ungraded"}
    <3> SUFFICES ASSUME phase \in {"scored", "classified"}
                 PROVE  score.verdict \in Verdicts
                        /\ score.error \in Labels \cup {"", "ungraded"}
      OBVIOUS
    <3>1. PICK v \in Given : score = Scored(task, v)
      BY DEF GradingInv, Graded
    <3>2. score.verdict \in Verdicts
      BY <3>1, ScoreRead DEF Given, Verdicts, GradingInv
    <3>3. score.error \in {"", "ungraded", "conflicting_memory", "stale_memory",
                           "wrong_abstention", "missed_memory", "hallucination"}
      BY <3>1, <3>2, ScoreRead DEF Verdicts, GradingInv
    <3> QED BY <3>2, <3>3, OrderOfLabels
  <2> QED BY <2>1, <2>2 DEF TypeOK, SelectionInv, RecallOK, Phases, GradingInv, ReplayTyped,
                          Recorded
<1> QED BY <1>1, QuestionInvariant, PTL

\* The survivors and the drops of the report add up to the memories that were recalled.
THEOREM CandidatesAreAccounted == Spec => []CandidatesAccounted
<1>1. SelectionInv => CandidatesAccounted
  <2> SUFFICES ASSUME SelectionInv, Selecting
               PROVE  /\ Cardinality(live) + Cardinality(dropped) = Len(recall)
                      /\ live \cup {d.memory : d \in dropped} = Recalled
    BY DEF CandidatesAccounted
  <2> DEFINE gone == {d.memory : d \in dropped}
             f == [d \in dropped |-> d.memory]
  <2>1. /\ live \cup gone = Recalled /\ live \cap gone = {}
        /\ \A d, e \in dropped : d.memory = e.memory => d = e
    BY DEF SelectionInv, Accounted
  <2>2. /\ IsFiniteSet(live) /\ IsFiniteSet(gone)
        /\ Cardinality(live) \in Nat /\ Cardinality(gone) \in Nat
        /\ Cardinality(Recalled) = Len(recall)
    BY <2>1, RecallCounted DEF SelectionInv
  <2>3. ExistsBijection(gone, dropped)
    <3>1. f \in [dropped -> gone]
      OBVIOUS
    <3>2. \A d, e \in dropped : f[d] = f[e] => d = e
      BY <2>1
    <3>3. \A m \in gone : \E d \in dropped : f[d] = m
      OBVIOUS
    <3> HIDE DEF f, gone
    <3>4. f \in Bijection(dropped, gone)
      BY <3>1, <3>2, <3>3, Fun_IsBij
    <3>5. ExistsBijection(dropped, gone)
      BY <3>4 DEF ExistsBijection
    <3> QED BY <3>5, Fun_ExistsBijSymmetric
  <2>4. Cardinality(dropped) = Cardinality(gone)
    <3> HIDE DEF f, gone
    <3> QED BY <2>2, <2>3, FS_Bijection
  <2>5. Cardinality(live \cup gone) = Cardinality(live) + Cardinality(gone)
    <3>1. Cardinality(live \cap gone) = 0
      BY <2>1, FS_EmptySet
    <3>2. Cardinality(live \cup gone)
          = Cardinality(live) + Cardinality(gone) - Cardinality(live \cap gone)
      <4> HIDE DEF gone
      <4> QED BY <2>2, FS_Union
    <3> QED BY <2>2, <3>1, <3>2
  <2> QED BY <2>1, <2>2, <2>4, <2>5
<1> QED BY <1>1, QuestionInvariant, PTL

\* Contradictions are settled without losing what they are about, and without hiding one
\* from the model; the ablation leaves them standing.
THEOREM ConflictsAreSettled == Spec => []ConflictsSettled
<1>1. SelectionInv => ConflictsSettled
  BY DEF SelectionInv
<1> QED BY <1>1, QuestionInvariant, PTL

\* The scorer and the taxonomy say the same of a record.
THEOREM FailuresAreLabelled == Spec => []FailuresLabelled
<1>1. GradingInv => FailuresLabelled
  BY DEF GradingInv
<1> QED BY <1>1, QuestionInvariant, PTL
===============================================================================
