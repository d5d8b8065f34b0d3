-------------------------- MODULE ChatBudget_proofs --------------------------
(***************************************************************************)
(* Proofs about ChatBudget, for any number of handlers and sessions and    *)
(* any limits.                                                             *)
(*                                                                         *)
(* The ceilings are not inductive by themselves: a handler that passed     *)
(* check_turn has not counted its turn yet.  The invariant counts those    *)
(* handlers too, budget by budget.                                         *)
(***************************************************************************)
EXTENDS ChatBudget, FiniteSetTheorems, TLAPS

\* The handlers that work for budget b and stand at one of the given steps.
At(steps, b)    == {h \in Handlers : pc[h] \in steps /\ job[h].budget = b}
Count(steps, b) == Cardinality(At(steps, b))

Admitted == {"serve"}                                \* passed, not yet counted
Counted  == {"turn", "built", "sent", "answered"}    \* counted, not yet charged
Unpaid   == {"serve", "turn", "built", "sent", "answered"}

\* A handler past _ensure_budget holds a budget that exists.
HoldsBudget == \A h \in Handlers : pc[h] \notin {"idle", "ensure", "create"} =>
                   job[h].budget \in 1..made

\* So does the budget a session refers to, if any.
UsageExists == \A s \in Sids : usage[s] \in 0..made

TurnsInv ==
    \A b \in BudgetIds : budget[b].limits.turns # 0 =>
        budget[b].turns + Count(Admitted, b) < budget[b].limits.turns + Width

RequestsInv ==
    \A b \in BudgetIds : budget[b].limits.requests # 0 =>
        budget[b].requests + Count(Unpaid, b) < budget[b].limits.requests + Width

ChargesInv ==
    \A b \in BudgetIds : budget[b].requests + Count(Counted, b) <= budget[b].turns

IInv == TypeOK /\ HoldsBudget /\ UsageExists /\ TurnsInv /\ RequestsInv /\ ChargesInv

-------------------------------------------------------------------------------

\* ChatBudget's methods return counters of the same shape.
LEMMA CountersClosed ==
    ASSUME NEW c \in Counters, NEW p \in Nat, NEW q \in Nat, NEW t \in BOOLEAN
    PROVE  /\ RecordedTurn(c) \in Counters
           /\ RecordedRefusal(c) \in Counters
           /\ Charged(c, p, q, t) \in Counters
<1>1. RecordedTurn(c) \in Counters
  BY DEF RecordedTurn, Counters
<1>2. RecordedRefusal(c) \in Counters
  BY DEF RecordedRefusal, Counters
<1>3. Charged(c, p, q, t) \in Counters
  <2>1. c.tokens + p + q \in Nat /\ c.requests + 1 \in Nat
    BY DEF Counters
  <2>2. c.timeouts + (IF t THEN 1 ELSE 0) \in Nat
    BY DEF Counters
  <2>3. Charged(c, p, q, t) =
            [limits |-> c.limits, turns |-> c.turns, requests |-> c.requests + 1,
             tokens |-> c.tokens + p + q, refused |-> c.refused,
             timeouts |-> c.timeouts + (IF t THEN 1 ELSE 0)]
    <3> DEFINE late == c.timeouts + (IF t THEN 1 ELSE 0)
    <3>1. Charged(c, p, q, t) =
            [c EXCEPT !.requests = c.requests + 1, !.tokens = c.tokens + p + q,
                      !.timeouts = late]
      BY DEF Charged
    <3> HIDE DEF late
    <3>2. Charged(c, p, q, t) =
            [limits |-> c.limits, turns |-> c.turns, requests |-> c.requests + 1,
             tokens |-> c.tokens + p + q, refused |-> c.refused, timeouts |-> late]
      BY <3>1 DEF Counters
    <3> QED
      BY <3>2 DEF late
  <2>4. c.limits \in Limits /\ c.turns \in Nat /\ c.refused \in Nat
    BY DEF Counters
  <2>5. ASSUME NEW n \in Nat, NEW m \in Nat, NEW k \in Nat
        PROVE  [limits |-> c.limits, turns |-> c.turns, requests |-> n, tokens |-> m,
                refused |-> c.refused, timeouts |-> k] \in Counters
    BY <2>4 DEF Counters
  <2> QED
    BY <2>1, <2>2, <2>3, <2>5
<1> QED
  BY <1>1, <1>2, <1>3

\* Replacing one budget by well-typed counters keeps the type of budget.
LEMMA BudgetUpdate ==
    ASSUME budget \in [BudgetIds -> Counters], NEW b, NEW c,
           b \in BudgetIds => c \in Counters,
           budget' = [budget EXCEPT ![b] = c]
    PROVE  budget' \in [BudgetIds -> Counters]
  OBVIOUS

\* The variables start in their types.
LEMMA TypeInit == Init => TypeOK
<1> SUFFICES ASSUME Init PROVE TypeOK
  OBVIOUS
<1>1. limits \in Limits
  BY LimitSetsTyped DEF Init
<1>2. FreshBudget(limits) \in Counters
  BY <1>1 DEF FreshBudget, Counters
<1>3. PICK s \in Sids : job = [h \in Handlers |-> [sid |-> s, budget |-> NoBudget,
                              prompt |-> 0, completion |-> 0, timedOut |-> FALSE]]
  BY DEF Init
<1>4. job \in [Handlers -> Jobs]
  BY <1>3 DEF Jobs
<1>5. /\ made \in 0..MaxBudgets /\ chats \in 0..MaxChats /\ updates \in 0..MaxUpdates
      /\ usage \in [Sids -> {NoBudget} \cup BudgetIds]
      /\ pc \in [Handlers -> Steps]
  BY BoundsTyped DEF Init, Steps
<1>6. budget \in [BudgetIds -> Counters]
  BY <1>2 DEF Init
<1> QED
  BY <1>1, <1>4, <1>5, <1>6 DEF TypeOK

\* Every action keeps the variables in their types.
LEMMA TypeNext == TypeOK /\ [Next]_vars => TypeOK'
<1> SUFFICES ASSUME TypeOK, [Next]_vars PROVE TypeOK'
  OBVIOUS
<1> USE BoundsTyped DEF TypeOK, Goto, Mine
<1>1. ASSUME NEW h \in Handlers, NEW s \in Sids, Begin(h, s) PROVE TypeOK'
  BY <1>1 DEF Begin, Steps, Jobs, NoBudget
<1>2. ASSUME NEW h \in Handlers, EnsureFound(h) \/ EnsureMissing(h) PROVE TypeOK'
  BY <1>2 DEF EnsureFound, EnsureMissing, Steps, Jobs, NoBudget
<1>3. ASSUME NEW h \in Handlers, EnsureCreate(h) PROVE TypeOK'
  <2>1. made' \in BudgetIds
    BY <1>3 DEF EnsureCreate, BudgetIds
  <2>2. FreshBudget(limits) \in Counters
    BY DEF FreshBudget, Counters
  <2> QED
    BY <1>3, <2>1, <2>2 DEF EnsureCreate, Steps, Jobs
<1>4. ASSUME NEW h \in Handlers, Refuse(h) PROVE TypeOK'
  <2>1. job[h].budget \in BudgetIds => RecordedRefusal(budget[job[h].budget]) \in Counters
    BY CountersClosed DEF Jobs
  <2>2. budget' \in [BudgetIds -> Counters]
    BY <1>4, <2>1, BudgetUpdate DEF Refuse
  <2> QED
    BY <1>4, <2>2 DEF Refuse, Steps
<1>5. ASSUME NEW h \in Handlers, Admit(h) \/ ServiceUnavailable(h) PROVE TypeOK'
  BY <1>5 DEF Admit, ServiceUnavailable, Steps
<1>6. ASSUME NEW h \in Handlers, RecordTurn(h) PROVE TypeOK'
  <2>1. job[h].budget \in BudgetIds => RecordedTurn(budget[job[h].budget]) \in Counters
    BY CountersClosed DEF Jobs
  <2>2. budget' \in [BudgetIds -> Counters]
    BY <1>6, <2>1, BudgetUpdate DEF RecordTurn
  <2> QED
    BY <1>6, <2>2 DEF RecordTurn, Steps
<1>7. ASSUME NEW h \in Handlers, NEW p \in PromptCosts, Build(h, p) PROVE TypeOK'
  BY <1>7, CostsTyped DEF Build, Steps, Jobs
<1>8. ASSUME NEW h \in Handlers, Send(h) \/ SkipProvider(h) PROVE TypeOK'
  BY <1>8 DEF Send, SkipProvider, Steps
<1>9. ASSUME NEW h \in Handlers, NEW p \in PromptCosts, NEW c \in CompletionCosts,
             Answer(h, p, c)
      PROVE  TypeOK'
  BY <1>9, CostsTyped DEF Answer, Steps, Jobs
<1>10. ASSUME NEW h \in Handlers, NEW t \in BOOLEAN, Fail(h, t) PROVE TypeOK'
  BY <1>10 DEF Fail, Steps, Jobs
<1>11. ASSUME NEW h \in Handlers, Raise(h) PROVE TypeOK'
  BY <1>11 DEF Raise, Steps
<1>12. ASSUME NEW h \in Handlers, Charge(h) PROVE TypeOK'
  <2>1. job[h].budget \in BudgetIds => Charged(budget[job[h].budget], job[h].prompt, job[h].completion,
                                                    job[h].timedOut) \in Counters
    BY CountersClosed DEF Jobs
  <2>2. budget' \in [BudgetIds -> Counters]
    BY <1>12, <2>1, BudgetUpdate DEF Charge
  <2> QED
    BY <1>12, <2>2 DEF Charge, Steps
<1>13. ASSUME NEW h \in Handlers, FlagLargePrompt(h) PROVE TypeOK'
  <2>1. job[h].budget \in BudgetIds => RecordedRefusal(budget[job[h].budget]) \in Counters
    BY CountersClosed DEF Jobs
  <2>2. budget' \in [BudgetIds -> Counters]
    BY <1>13, <2>1, BudgetUpdate DEF FlagLargePrompt
  <2> QED
    BY <1>13, <2>2 DEF FlagLargePrompt, Steps
<1>14. ASSUME NEW s \in Sids, ClearConversation(s) PROVE TypeOK'
  BY <1>14 DEF ClearConversation
<1>15. ASSUME NEW l \in LimitSets, UpdateCosts(l.tokens, l.input) PROVE TypeOK'
  <2>1. l.tokens \in Nat /\ l.input \in Nat
    BY <1>15, LimitSetsTyped DEF Limits
  <2>2. [limits EXCEPT !.tokens = l.tokens, !.input = l.input] \in Limits
    BY <2>1 DEF Limits
  <2> QED
    BY <1>15, <2>2 DEF UpdateCosts
<1>16. CASE UNCHANGED vars
  BY <1>16 DEF vars
<1> QED
  BY <1>1, <1>2, <1>3, <1>4, <1>5, <1>6, <1>7, <1>8, <1>9, <1>10, <1>11, <1>12,
     <1>13, <1>14, <1>15, <1>16 DEF Next, Chat

\* The limits, budgets and locals always have the shape the code gives them.
THEOREM TypeCorrect == Spec => []TypeOK
  BY TypeInit, TypeNext, PTL DEF Spec

-------------------------------------------------------------------------------
(* How counts of handlers change when one handler moves.                   *)

\* A group of handlers is counted by a number between 0 and Width.
LEMMA CountTyped ==
    ASSUME NEW steps, NEW b
    PROVE  /\ IsFiniteSet(At(steps, b))
           /\ Count(steps, b) \in Nat
           /\ Count(steps, b) <= Width
  <1>1. At(steps, b) \in SUBSET Handlers
    BY DEF At
  <1> QED
    BY <1>1, HandlersFinite, FS_Subset, FS_CardinalityType DEF Count, Width

\* One handler goes from one step to another; the others stay where they are.
LEMMA CountMoves ==
    ASSUME TypeOK, NEW h \in Handlers, NEW from, NEW to, Goto(h, from, to),
           \A g \in Handlers : g # h => job'[g] = job[g],
           NEW steps, NEW b
    PROVE  Count(steps, b)' =
               Count(steps, b)
                 - (IF from \in steps /\ job[h].budget = b THEN 1 ELSE 0)
                 + (IF to \in steps /\ job'[h].budget = b THEN 1 ELSE 0)
<1> DEFINE rest == At(steps, b) \ {h}
<1>1. h \in At(steps, b) <=> from \in steps /\ job[h].budget = b
  BY DEF At, Goto
<1>2. pc'[h] = to /\ \A g \in Handlers : g # h => pc'[g] = pc[g]
  BY DEF Goto, TypeOK
<1>3. h \in At(steps, b)' <=> to \in steps /\ job'[h].budget = b
  BY <1>2 DEF At
<1>4. At(steps, b)' \ {h} = rest
  BY <1>2 DEF At
<1>5. /\ IsFiniteSet(rest)
      /\ Cardinality(rest) = Count(steps, b) - (IF h \in At(steps, b) THEN 1 ELSE 0)
      /\ Cardinality(rest) \in Nat
  BY CountTyped, FS_RemoveElement, FS_CardinalityType DEF Count
<1>6. Count(steps, b)' = Cardinality(rest) + (IF h \in At(steps, b)' THEN 1 ELSE 0)
  <2>1. CASE h \in At(steps, b)'
    <3>1. At(steps, b)' = rest \cup {h}
      BY <2>1, <1>4
    <3> QED
      BY <3>1, <2>1, <1>5, FS_AddElement DEF Count
  <2>2. CASE h \notin At(steps, b)'
    <3>1. At(steps, b)' = rest
      BY <2>2, <1>4
    <3> QED
      BY <3>1, <2>2, <1>5 DEF Count
  <2> QED
    BY <2>1, <2>2
<1> QED
  BY <1>1, <1>3, <1>5, <1>6, CountTyped

\* Nobody moves and nobody's budget changes.
LEMMA CountStays ==
    ASSUME UNCHANGED <<pc, job>>, NEW steps, NEW b
    PROVE  Count(steps, b)' = Count(steps, b)
  BY DEF Count, At

-------------------------------------------------------------------------------
(* The invariant is inductive.                                             *)

Moves(h, from, to) ==
    /\ Goto(h, from, to)
    /\ \A g \in Handlers : g # h => job'[g] = job[g]

\* What a method leaves alone in every budget.
SameSpend ==
    \A b \in BudgetIds : /\ budget'[b].limits = budget[b].limits
                         /\ budget'[b].turns = budget[b].turns
                         /\ budget'[b].requests = budget[b].requests

\* A step that counts nothing and enters no group of steps keeps the invariant.
LEMMA QuietStep ==
    ASSUME IInv, NEW h \in Handlers, NEW from, NEW to, Moves(h, from, to),
           SameSpend, made' = made,
           to \in Admitted => from \in Admitted,
           to \in Unpaid => from \in Unpaid,
           to \in Counted => from \in Counted,
           to \in Unpaid => job'[h].budget = job[h].budget,
           to \notin {"idle", "ensure", "create"} => job'[h].budget \in 1..made
    PROVE  HoldsBudget' /\ TurnsInv' /\ RequestsInv' /\ ChargesInv'
<1> USE DEF IInv, Moves
<1>1. ASSUME NEW steps, NEW b,
             to \in steps => from \in steps,
             to \in steps => job'[h].budget = job[h].budget
      PROVE  /\ Count(steps, b)' <= Count(steps, b)
             /\ Count(steps, b)' \in Nat
  <2>1. Count(steps, b)' =
               Count(steps, b)
                 - (IF from \in steps /\ job[h].budget = b THEN 1 ELSE 0)
                 + (IF to \in steps /\ job'[h].budget = b THEN 1 ELSE 0)
    BY CountMoves
  <2>2. Count(steps, b) \in Nat
    BY CountTyped
  <2>3. Count(steps, b)' \in Nat
    BY CountTyped, HandlersFinite, FS_Subset, FS_CardinalityType DEF Count, At
  <2> QED
    BY <2>1, <2>2, <2>3, <1>1
<1>2. \A b \in BudgetIds : /\ Count(Admitted, b)' <= Count(Admitted, b)
                           /\ Count(Admitted, b)' \in Nat
  BY <1>1 DEF Admitted, Unpaid
<1>3. \A b \in BudgetIds : /\ Count(Unpaid, b)' <= Count(Unpaid, b)
                           /\ Count(Unpaid, b)' \in Nat
  BY <1>1
<1>4. \A b \in BudgetIds : /\ Count(Counted, b)' <= Count(Counted, b)
                           /\ Count(Counted, b)' \in Nat
  BY <1>1 DEF Counted, Unpaid
<1>5. \A b \in BudgetIds : budget[b] \in Counters /\ budget[b].limits \in Limits
  BY DEF TypeOK, Counters
<1>6. \A b \in BudgetIds : Count(Admitted, b) \in Nat /\ Count(Unpaid, b) \in Nat
                           /\ Count(Counted, b) \in Nat /\ Width \in Nat
  BY CountTyped, HandlersFinite, FS_CardinalityType DEF Width
<1>7. HoldsBudget'
  BY DEF HoldsBudget, Goto, TypeOK
<1>8. TurnsInv'
  BY <1>2, <1>5, <1>6 DEF TurnsInv, SameSpend, Counters, Limits, Width
<1>9. RequestsInv'
  BY <1>3, <1>5, <1>6 DEF RequestsInv, SameSpend, Counters, Limits, Width
<1>10. ChargesInv'
  BY <1>4, <1>5, <1>6 DEF ChargesInv, SameSpend, Counters
<1> QED
  BY <1>7, <1>8, <1>9, <1>10

\* record_refusal changes none of the three counters the ceilings read.
LEMMA SpendAfterRefusal ==
    ASSUME TypeOK, NEW b0, budget' = [budget EXCEPT ![b0] = RecordedRefusal(@)]
    PROVE  SameSpend
<1> SUFFICES ASSUME NEW b \in BudgetIds
             PROVE  /\ budget'[b].limits = budget[b].limits
                    /\ budget'[b].turns = budget[b].turns
                    /\ budget'[b].requests = budget[b].requests
  BY DEF SameSpend
<1>1. budget[b] \in Counters
  BY DEF TypeOK
<1>2. budget'[b] = budget[b] \/ budget'[b] = RecordedRefusal(budget[b])
  BY DEF TypeOK
<1> QED
  BY <1>1, <1>2 DEF RecordedRefusal, Counters

\* One handler moves: what becomes of the three groups the invariant counts.
LEMMA GroupCounts ==
    ASSUME IInv, NEW h \in Handlers, NEW from, NEW to, Moves(h, from, to), NEW b
    PROVE  /\ Count(Admitted, b)' = Count(Admitted, b)
                 - (IF from \in Admitted /\ job[h].budget = b THEN 1 ELSE 0)
                 + (IF to \in Admitted /\ job'[h].budget = b THEN 1 ELSE 0)
           /\ Count(Unpaid, b)' = Count(Unpaid, b)
                 - (IF from \in Unpaid /\ job[h].budget = b THEN 1 ELSE 0)
                 + (IF to \in Unpaid /\ job'[h].budget = b THEN 1 ELSE 0)
           /\ Count(Counted, b)' = Count(Counted, b)
                 - (IF from \in Counted /\ job[h].budget = b THEN 1 ELSE 0)
                 + (IF to \in Counted /\ job'[h].budget = b THEN 1 ELSE 0)
           /\ Count(Admitted, b) \in Nat /\ Count(Admitted, b)' \in Nat
           /\ Count(Unpaid, b) \in Nat /\ Count(Unpaid, b)' \in Nat
           /\ Count(Counted, b) \in Nat
           /\ Count(Admitted, b)' <= Width /\ Count(Unpaid, b)' <= Width
           /\ Width \in Nat
<1>1. ASSUME NEW steps
      PROVE  /\ Count(steps, b)' = Count(steps, b)
                 - (IF from \in steps /\ job[h].budget = b THEN 1 ELSE 0)
                 + (IF to \in steps /\ job'[h].budget = b THEN 1 ELSE 0)
             /\ Count(steps, b) \in Nat
             /\ Count(steps, b)' \in Nat
             /\ Count(steps, b)' <= Width
  <2>1. At(steps, b)' \in SUBSET Handlers
    BY DEF At
  <2>2. Count(steps, b)' \in Nat /\ Count(steps, b)' <= Width
    BY <2>1, HandlersFinite, FS_Subset, FS_CardinalityType DEF Count, Width
  <2> QED
    BY <2>2, CountMoves, CountTyped DEF IInv, Moves
<1>2. Width \in Nat
  BY HandlersFinite, FS_CardinalityType DEF Width
<1> QED
  BY <1>1, <1>2

\* check_turn admits a turn only below each ceiling, and at most Width
\* handlers can be past it at once.
LEMMA AdmitKeeps == ASSUME IInv, NEW h \in Handlers, Admit(h), TypeOK'
                    PROVE  HoldsBudget' /\ TurnsInv' /\ RequestsInv' /\ ChargesInv'
<1> DEFINE mine == job[h].budget
<1>1. Moves(h, "check", "serve") /\ made' = made /\ budget' = budget /\ job' = job
  BY DEF Admit, Moves
<1>2. mine \in BudgetIds /\ mine \in 1..made
  BY BoundsTyped DEF Admit, Goto, IInv, HoldsBudget, TypeOK, BudgetIds
<1>3. \A b \in BudgetIds : budget[b] \in Counters /\ budget[b].limits \in Limits
  BY DEF IInv, TypeOK, Counters
<1>4. HoldsBudget'
  BY <1>1 DEF Moves, Goto, HoldsBudget, IInv, TypeOK
<1>5. /\ budget[mine].limits.turns # 0 => budget[mine].turns < budget[mine].limits.turns
      /\ budget[mine].limits.requests # 0 =>
            budget[mine].requests < budget[mine].limits.requests
  BY <1>2, <1>3 DEF Admit, Mine, Exhausted, Reached, Counters, Limits
<1>6. TurnsInv'
  <2> SUFFICES ASSUME NEW b \in BudgetIds, budget[b].limits.turns # 0
               PROVE  budget[b].turns + Count(Admitted, b)' < budget[b].limits.turns + Width
    BY <1>1 DEF TurnsInv, Width
  <2>1. CASE b = mine
    BY <2>1, <1>1, <1>3, <1>5, GroupCounts DEF Counters, Limits
  <2>2. CASE b # mine
    <3>1. Count(Admitted, b)' = Count(Admitted, b)
      BY <2>2, <1>1, GroupCounts DEF Admitted
    <3> QED
      BY <3>1 DEF IInv, TurnsInv
  <2> QED
    BY <2>1, <2>2
<1>7. RequestsInv'
  <2> SUFFICES ASSUME NEW b \in BudgetIds, budget[b].limits.requests # 0
               PROVE  budget[b].requests + Count(Unpaid, b)'
                          < budget[b].limits.requests + Width
    BY <1>1 DEF RequestsInv, Width
  <2>1. CASE b = mine
    BY <2>1, <1>1, <1>3, <1>5, GroupCounts DEF Counters, Limits
  <2>2. CASE b # mine
    <3>1. Count(Unpaid, b)' = Count(Unpaid, b)
      BY <2>2, <1>1, GroupCounts DEF Unpaid
    <3> QED
      BY <3>1 DEF IInv, RequestsInv
  <2> QED
    BY <2>1, <2>2
<1>8. ChargesInv'
  <2> SUFFICES ASSUME NEW b \in BudgetIds
               PROVE  budget[b].requests + Count(Counted, b)' <= budget[b].turns
    BY <1>1 DEF ChargesInv
  <2>1. Count(Counted, b)' = Count(Counted, b)
    BY <1>1, GroupCounts DEF Counted
  <2> QED
    BY <2>1 DEF IInv, ChargesInv
<1> QED
  BY <1>4, <1>6, <1>7, <1>8

\* record_turn moves one handler from Admitted to Counted.
LEMMA RecordTurnKeeps == ASSUME IInv, NEW h \in Handlers, RecordTurn(h), TypeOK'
                         PROVE  HoldsBudget' /\ TurnsInv' /\ RequestsInv' /\ ChargesInv'
<1> DEFINE mine == job[h].budget
<1>1. Moves(h, "serve", "turn") /\ made' = made /\ job' = job
  BY DEF RecordTurn, Moves
<1>2. mine \in BudgetIds /\ mine \in 1..made
  BY BoundsTyped DEF RecordTurn, Goto, IInv, HoldsBudget, TypeOK, BudgetIds
<1>3. \A b \in BudgetIds : budget[b] \in Counters /\ budget[b].limits \in Limits
  BY DEF IInv, TypeOK, Counters
<1>4. HoldsBudget'
  BY <1>1, <1>2 DEF Moves, Goto, HoldsBudget, IInv, TypeOK
<1>5. /\ budget'[mine].limits = budget[mine].limits
      /\ budget'[mine].turns = budget[mine].turns + 1
      /\ budget'[mine].requests = budget[mine].requests
  BY <1>2, <1>3 DEF RecordTurn, RecordedTurn, IInv, TypeOK, Counters
<1>6. \A b \in BudgetIds : b # mine => budget'[b] = budget[b]
  BY DEF RecordTurn, IInv, TypeOK
<1>7. ASSUME NEW b \in BudgetIds
      PROVE  /\ budget'[b].limits.turns # 0 =>
                    budget'[b].turns + Count(Admitted, b)' < budget'[b].limits.turns + Width
             /\ budget'[b].limits.requests # 0 =>
                    budget'[b].requests + Count(Unpaid, b)'
                        < budget'[b].limits.requests + Width
             /\ budget'[b].requests + Count(Counted, b)' <= budget'[b].turns
  <2>1. /\ budget[b].limits.turns # 0 =>
              budget[b].turns + Count(Admitted, b) < budget[b].limits.turns + Width
        /\ budget[b].limits.requests # 0 =>
              budget[b].requests + Count(Unpaid, b) < budget[b].limits.requests + Width
        /\ budget[b].requests + Count(Counted, b) <= budget[b].turns
    BY DEF IInv, TurnsInv, RequestsInv, ChargesInv
  <2>2. CASE b = mine
    <3>1. /\ Count(Admitted, b)' = Count(Admitted, b) - 1
          /\ Count(Unpaid, b)' = Count(Unpaid, b)
          /\ Count(Counted, b)' = Count(Counted, b) + 1
          /\ Count(Admitted, b) \in Nat /\ Count(Unpaid, b) \in Nat
          /\ Count(Counted, b) \in Nat
      BY <2>2, <1>1, GroupCounts DEF Admitted, Unpaid, Counted
    <3> QED
      BY <3>1, <2>1, <2>2, <1>3, <1>5 DEF Counters, Limits
  <2>3. CASE b # mine
    <3>1. /\ Count(Admitted, b)' = Count(Admitted, b)
          /\ Count(Unpaid, b)' = Count(Unpaid, b)
          /\ Count(Counted, b)' = Count(Counted, b)
      BY <2>3, <1>1, GroupCounts DEF Admitted, Unpaid, Counted
    <3> QED
      BY <3>1, <2>1, <2>3, <1>6
  <2> QED
    BY <2>2, <2>3
<1> QED
  BY <1>4, <1>7 DEF TurnsInv, RequestsInv, ChargesInv, Width

\* charge pays for a turn that was counted.
LEMMA ChargeKeeps == ASSUME IInv, NEW h \in Handlers, Charge(h), TypeOK'
                     PROVE  HoldsBudget' /\ TurnsInv' /\ RequestsInv' /\ ChargesInv'
<1> DEFINE mine == job[h].budget
<1>1. Moves(h, "answered", "charged") /\ made' = made /\ job' = job
  BY DEF Charge, Moves
<1>2. mine \in BudgetIds /\ mine \in 1..made
  BY BoundsTyped DEF Charge, Goto, IInv, HoldsBudget, TypeOK, BudgetIds
<1>3. \A b \in BudgetIds : budget[b] \in Counters /\ budget[b].limits \in Limits
  BY DEF IInv, TypeOK, Counters
<1>4. HoldsBudget'
  BY <1>1, <1>2 DEF Moves, Goto, HoldsBudget, IInv, TypeOK
<1>5. /\ budget'[mine].limits = budget[mine].limits
      /\ budget'[mine].turns = budget[mine].turns
      /\ budget'[mine].requests = budget[mine].requests + 1
  BY <1>2, <1>3 DEF Charge, Charged, IInv, TypeOK, Counters
<1>6. \A b \in BudgetIds : b # mine => budget'[b] = budget[b]
  BY DEF Charge, IInv, TypeOK
<1>7. ASSUME NEW b \in BudgetIds
      PROVE  /\ budget'[b].limits.turns # 0 =>
                    budget'[b].turns + Count(Admitted, b)' < budget'[b].limits.turns + Width
             /\ budget'[b].limits.requests # 0 =>
                    budget'[b].requests + Count(Unpaid, b)'
                        < budget'[b].limits.requests + Width
             /\ budget'[b].requests + Count(Counted, b)' <= budget'[b].turns
  <2>1. /\ budget[b].limits.turns # 0 =>
              budget[b].turns + Count(Admitted, b) < budget[b].limits.turns + Width
        /\ budget[b].limits.requests # 0 =>
              budget[b].requests + Count(Unpaid, b) < budget[b].limits.requests + Width
        /\ budget[b].requests + Count(Counted, b) <= budget[b].turns
    BY DEF IInv, TurnsInv, RequestsInv, ChargesInv
  <2>2. CASE b = mine
    <3>1. /\ Count(Admitted, b)' = Count(Admitted, b)
          /\ Count(Unpaid, b)' = Count(Unpaid, b) - 1
          /\ Count(Counted, b)' = Count(Counted, b) - 1
          /\ Count(Admitted, b) \in Nat /\ Count(Unpaid, b) \in Nat
          /\ Count(Counted, b) \in Nat
      BY <2>2, <1>1, GroupCounts DEF Admitted, Unpaid, Counted
    <3> QED
      BY <3>1, <2>1, <2>2, <1>3, <1>5 DEF Counters, Limits
  <2>3. CASE b # mine
    <3>1. /\ Count(Admitted, b)' = Count(Admitted, b)
          /\ Count(Unpaid, b)' = Count(Unpaid, b)
          /\ Count(Counted, b)' = Count(Counted, b)
      BY <2>3, <1>1, GroupCounts DEF Admitted, Unpaid, Counted
    <3> QED
      BY <3>1, <2>1, <2>3, <1>6
  <2> QED
    BY <2>2, <2>3
<1> QED
  BY <1>4, <1>7 DEF TurnsInv, RequestsInv, ChargesInv, Width

\* A new budget is empty and nobody else holds it.
LEMMA CreateKeeps == ASSUME IInv, NEW h \in Handlers, EnsureCreate(h), TypeOK'
                     PROVE  HoldsBudget' /\ TurnsInv' /\ RequestsInv' /\ ChargesInv'
<1>1. /\ Moves(h, "create", "check") /\ made' = made + 1 /\ job'[h].budget = made'
      /\ made' \in BudgetIds
  BY BoundsTyped DEF EnsureCreate, Moves, Goto, IInv, TypeOK, BudgetIds
<1>2. budget'[made'] = FreshBudget(limits)
      /\ \A b \in BudgetIds : b # made' => budget'[b] = budget[b]
  BY <1>1 DEF EnsureCreate, IInv, TypeOK
<1>3. HoldsBudget'
  BY <1>1 DEF Moves, Goto, HoldsBudget, IInv, TypeOK
<1>4. ASSUME NEW b \in BudgetIds
      PROVE  /\ Count(Admitted, b)' = Count(Admitted, b)
             /\ Count(Unpaid, b)' = Count(Unpaid, b)
             /\ Count(Counted, b)' = Count(Counted, b)
             /\ Width \in Nat
  BY <1>1, GroupCounts DEF Admitted, Unpaid, Counted
<1>5. /\ Count(Admitted, made') = 0 /\ Count(Unpaid, made') = 0
      /\ Count(Counted, made') = 0
  <2>1. ASSUME NEW steps, steps \cap {"idle", "ensure", "create"} = {}
        PROVE  Count(steps, made') = 0
    <3>1. At(steps, made') = {}
      BY <1>1, <2>1 DEF At, IInv, HoldsBudget, TypeOK
    <3> QED
      BY <3>1, FS_EmptySet DEF Count
  <2> QED
    BY <2>1 DEF Admitted, Unpaid, Counted
<1>6. ASSUME NEW b \in BudgetIds
      PROVE  /\ budget'[b].limits.turns # 0 =>
                    budget'[b].turns + Count(Admitted, b)' < budget'[b].limits.turns + Width
             /\ budget'[b].limits.requests # 0 =>
                    budget'[b].requests + Count(Unpaid, b)'
                        < budget'[b].limits.requests + Width
             /\ budget'[b].requests + Count(Counted, b)' <= budget'[b].turns
  <2>1. CASE b = made'
    <3>1. /\ budget'[b].turns = 0 /\ budget'[b].requests = 0
          /\ budget'[b].limits.turns \in Nat /\ budget'[b].limits.requests \in Nat
      BY <2>1, <1>2 DEF FreshBudget, IInv, TypeOK, Limits
    <3>2. /\ Count(Admitted, b)' = 0 /\ Count(Unpaid, b)' = 0 /\ Count(Counted, b)' = 0
          /\ Width \in Nat
      <4>1. Count(Admitted, b) = 0 /\ Count(Unpaid, b) = 0 /\ Count(Counted, b) = 0
        BY <2>1, <1>5
      <4> QED
        BY <4>1, <1>4
    <3> QED
      BY <3>1, <3>2
  <2>2. CASE b # made'
    BY <2>2, <1>2, <1>4 DEF IInv, TurnsInv, RequestsInv, ChargesInv
  <2> QED
    BY <2>1, <2>2
<1> QED
  BY <1>3, <1>6 DEF TurnsInv, RequestsInv, ChargesInv, Width

\* No budget exists and no handler runs: the invariant starts true.
LEMMA InvInit == Init => IInv
<1> SUFFICES ASSUME Init PROVE IInv
  OBVIOUS
<1>1. TypeOK
  BY TypeInit
<1>2. HoldsBudget
  BY DEF Init, HoldsBudget
<1>3. ASSUME NEW b \in BudgetIds
      PROVE  Count(Admitted, b) = 0 /\ Count(Unpaid, b) = 0 /\ Count(Counted, b) = 0
  <2>1. At(Admitted, b) = {} /\ At(Unpaid, b) = {} /\ At(Counted, b) = {}
    BY DEF Init, At, Admitted, Unpaid, Counted
  <2> QED
    BY <2>1, FS_EmptySet DEF Count
<1>4. \A b \in BudgetIds : /\ budget[b].turns = 0 /\ budget[b].requests = 0
                           /\ budget[b].limits \in Limits
  BY <1>1 DEF Init, FreshBudget, TypeOK
<1>5. Width \in Nat
  BY HandlersFinite, FS_CardinalityType DEF Width
<1>6. TurnsInv /\ RequestsInv /\ ChargesInv
  BY <1>3, <1>4, <1>5 DEF TurnsInv, RequestsInv, ChargesInv, Limits
<1>7. UsageExists
  BY DEF Init, UsageExists, NoBudget
<1> QED
  BY <1>1, <1>2, <1>6, <1>7 DEF IInv

\* Neither the budgets nor the handlers change.
LEMMA IdleStep ==
    ASSUME IInv, UNCHANGED <<budget, made, pc, job>>
    PROVE  HoldsBudget' /\ TurnsInv' /\ RequestsInv' /\ ChargesInv'
<1>1. ASSUME NEW steps, NEW b PROVE Count(steps, b)' = Count(steps, b)
  BY CountStays
<1> QED
  BY <1>1 DEF IInv, HoldsBudget, TurnsInv, RequestsInv, ChargesInv, Width

\* Every action keeps the invariant; those that count have a lemma of their own.
LEMMA InvNext == IInv /\ [Next]_vars => IInv'
<1> SUFFICES ASSUME IInv, [Next]_vars PROVE IInv'
  OBVIOUS
<1> DEFINE Kept == HoldsBudget' /\ TurnsInv' /\ RequestsInv' /\ ChargesInv'
<1>a. TypeOK /\ TypeOK'
  BY TypeNext DEF IInv
<1>b. ASSUME NEW h \in Handlers, NEW from, NEW to, Goto(h, from, to),
             to \notin Unpaid \/ (from \in Unpaid /\ job'[h].budget = job[h].budget),
             to \notin Admitted, to \in Counted => from \in Counted,
             to \notin {"idle", "ensure", "create"} => job'[h].budget \in 1..made,
             \A g \in Handlers : g # h => job'[g] = job[g],
             SameSpend, made' = made
      PROVE  Kept
  BY <1>b, QuietStep DEF Moves
<1>c. ASSUME NEW h \in Handlers, pc[h] \notin {"idle", "ensure", "create"}
      PROVE  job[h].budget \in 1..made
  BY <1>c DEF IInv, HoldsBudget
<1>d. UNCHANGED budget => SameSpend
  BY DEF SameSpend
<1> HIDE DEF Kept
<1>1. ASSUME NEW h \in Handlers, NEW s \in Sids, Begin(h, s) PROVE Kept
  <2>1. /\ Goto(h, "idle", "ensure") /\ SameSpend /\ made' = made
        /\ \A g \in Handlers : g # h => job'[g] = job[g]
    BY <1>1, <1>a, <1>d DEF Begin, TypeOK
  <2> QED
    BY <2>1, <1>b DEF Unpaid, Admitted, Counted
<1>2. ASSUME NEW h \in Handlers, EnsureFound(h) PROVE Kept
  <2>1. /\ Goto(h, "ensure", "check") /\ SameSpend /\ made' = made
        /\ \A g \in Handlers : g # h => job'[g] = job[g]
    BY <1>2, <1>a, <1>d DEF EnsureFound, TypeOK
  <2>2. job'[h].budget = usage[job[h].sid]
    BY <1>2, <1>a DEF EnsureFound, TypeOK, Jobs
  <2>3. usage[job[h].sid] \in 1..made
    <3>1. job[h].sid \in Sids
      BY <1>a DEF TypeOK, Jobs
    <3> QED
      BY <3>1, <1>2, <1>a DEF EnsureFound, IInv, UsageExists, NoBudget, TypeOK
  <2> QED
    BY <2>1, <2>2, <2>3, <1>b DEF Unpaid, Admitted, Counted
<1>3. ASSUME NEW h \in Handlers, EnsureMissing(h) PROVE Kept
  <2>1. /\ Goto(h, "ensure", "create") /\ SameSpend /\ made' = made /\ job' = job
    BY <1>3, <1>d DEF EnsureMissing
  <2> QED
    BY <2>1, <1>b DEF Unpaid, Admitted, Counted
<1>4. ASSUME NEW h \in Handlers, Refuse(h) PROVE Kept
  <2>1. Goto(h, "check", "idle") /\ made' = made /\ job' = job
    BY <1>4 DEF Refuse
  <2>2. SameSpend
    BY <1>4, <1>a, SpendAfterRefusal DEF Refuse
  <2> QED
    BY <2>1, <2>2, <1>b DEF Unpaid, Admitted, Counted
<1>5. ASSUME NEW h \in Handlers, ServiceUnavailable(h) PROVE Kept
  <2>1. Goto(h, "serve", "idle") /\ SameSpend /\ made' = made /\ job' = job
    BY <1>5, <1>d DEF ServiceUnavailable
  <2> QED
    BY <2>1, <1>b DEF Unpaid, Admitted, Counted
<1>6. ASSUME NEW h \in Handlers, NEW p \in PromptCosts, Build(h, p) PROVE Kept
  <2>1. /\ Goto(h, "turn", "built") /\ SameSpend /\ made' = made
        /\ \A g \in Handlers : g # h => job'[g] = job[g]
        /\ job'[h].budget = job[h].budget
    BY <1>6, <1>a, <1>d DEF Build, TypeOK, Jobs
  <2>2. job[h].budget \in 1..made
    BY <1>6, <1>c DEF Build, Goto
  <2> QED
    BY <2>1, <2>2, <1>b DEF Unpaid, Admitted, Counted
<1>7. ASSUME NEW h \in Handlers, Send(h) \/ SkipProvider(h) PROVE Kept
  <2>1. /\ Goto(h, "built", "sent") \/ Goto(h, "built", "answered")
        /\ SameSpend /\ made' = made /\ job' = job
    BY <1>7, <1>d DEF Send, SkipProvider
  <2>2. job[h].budget \in 1..made
    BY <2>1, <1>c DEF Goto
  <2> QED
    BY <2>1, <2>2, <1>b DEF Unpaid, Admitted, Counted
<1>8. ASSUME NEW h \in Handlers, NEW p \in PromptCosts, NEW c \in CompletionCosts,
             Answer(h, p, c)
      PROVE  Kept
  <2>1. /\ Goto(h, "sent", "answered") /\ SameSpend /\ made' = made
        /\ \A g \in Handlers : g # h => job'[g] = job[g]
        /\ job'[h].budget = job[h].budget
    BY <1>8, <1>a, <1>d DEF Answer, TypeOK, Jobs
  <2>2. job[h].budget \in 1..made
    BY <1>8, <1>c DEF Answer, Goto
  <2> QED
    BY <2>1, <2>2, <1>b DEF Unpaid, Admitted, Counted
<1>9. ASSUME NEW h \in Handlers, NEW t \in BOOLEAN, Fail(h, t) PROVE Kept
  <2>1. /\ Goto(h, "sent", "answered") /\ SameSpend /\ made' = made
        /\ \A g \in Handlers : g # h => job'[g] = job[g]
        /\ job'[h].budget = job[h].budget
    BY <1>9, <1>a, <1>d DEF Fail, TypeOK, Jobs
  <2>2. job[h].budget \in 1..made
    BY <1>9, <1>c DEF Fail, Goto
  <2> QED
    BY <2>1, <2>2, <1>b DEF Unpaid, Admitted, Counted
<1>10. ASSUME NEW h \in Handlers, Raise(h) PROVE Kept
  <2>1. Goto(h, pc[h], "idle") /\ SameSpend /\ made' = made /\ job' = job
    BY <1>10, <1>d DEF Raise, Goto
  <2> QED
    BY <2>1, <1>b DEF Unpaid, Admitted, Counted
<1>11. ASSUME NEW h \in Handlers, FlagLargePrompt(h) PROVE Kept
  <2>1. Goto(h, "charged", "idle") /\ made' = made /\ job' = job
    BY <1>11 DEF FlagLargePrompt
  <2>2. SameSpend
    <3>1. CASE FitsPrompt(limits, job[h].prompt)
      BY <3>1, <1>11, <1>d DEF FlagLargePrompt
    <3>2. CASE ~FitsPrompt(limits, job[h].prompt)
      BY <3>2, <1>11, <1>a, SpendAfterRefusal DEF FlagLargePrompt
    <3> QED
      BY <3>1, <3>2
  <2> QED
    BY <2>1, <2>2, <1>b DEF Unpaid, Admitted, Counted
<1>12. ASSUME NEW h \in Handlers,
              EnsureCreate(h) \/ Admit(h) \/ RecordTurn(h) \/ Charge(h)
       PROVE  Kept
  BY <1>12, <1>a, CreateKeeps, AdmitKeeps, RecordTurnKeeps, ChargeKeeps DEF Kept
<1>13. ASSUME NEW s \in Sids, ClearConversation(s) PROVE Kept
  BY <1>13, IdleStep DEF ClearConversation, Kept
<1>14. ASSUME NEW l \in LimitSets, UpdateCosts(l.tokens, l.input) PROVE Kept
  BY <1>14, IdleStep DEF UpdateCosts, Kept
<1>15. ASSUME UNCHANGED vars PROVE Kept
  BY <1>15, IdleStep DEF vars, Kept
<1>16. Kept
  BY <1>1, <1>2, <1>3, <1>4, <1>5, <1>6, <1>7, <1>8, <1>9, <1>10, <1>11, <1>12,
     <1>13, <1>14, <1>15 DEF Next, Chat
<1>17. UsageExists'
  <2>1. UNCHANGED <<usage, made>> => UsageExists'
    BY DEF IInv, UsageExists
  <2>2. ASSUME NEW h \in Handlers, EnsureCreate(h) PROVE UsageExists'
    BY <2>2, <1>a, BoundsTyped DEF EnsureCreate, IInv, UsageExists, TypeOK
  <2>3. ASSUME NEW s \in Sids, ClearConversation(s) PROVE UsageExists'
    BY <2>3, <1>a DEF ClearConversation, IInv, UsageExists, TypeOK, NoBudget
  <2>4. ASSUME NEW h \in Handlers, Chat(h), ~EnsureCreate(h)
        PROVE  UNCHANGED <<usage, made>>
    BY <2>4 DEF Chat, Begin, EnsureFound, EnsureMissing, Refuse, Admit,
                ServiceUnavailable, RecordTurn, Build, Send, SkipProvider, Answer,
                Fail, Raise, Charge, FlagLargePrompt
  <2> QED
    BY <2>1, <2>2, <2>3, <2>4 DEF Next, UpdateCosts, vars
<1> QED
  BY <1>a, <1>16, <1>17 DEF IInv, Kept

\* The inductive invariant holds in every behaviour.
LEMMA Invariance == Spec => []IInv
  BY InvInit, InvNext, PTL DEF Spec

-------------------------------------------------------------------------------
(* What the invariant gives.                                               *)

\* However many handlers run chat at once, the turns counted on a budget end
\* less than one per handler beyond max_turns.
THEOREM TurnCeiling == Spec => []TurnsBounded
<1>1. IInv => TurnsBounded
  <2> SUFFICES ASSUME IInv, NEW b \in BudgetIds, budget[b].limits.turns # 0
               PROVE  budget[b].turns < budget[b].limits.turns + Width
    BY DEF TurnsBounded
  <2>1. budget[b].turns \in Nat /\ budget[b].limits.turns \in Nat
    BY DEF IInv, TypeOK, Counters, Limits
  <2>2. budget[b].turns + Count(Admitted, b) < budget[b].limits.turns + Width
    BY DEF IInv, TurnsInv
  <2>3. Count(Admitted, b) \in Nat /\ Width \in Nat
    BY CountTyped, HandlersFinite, FS_CardinalityType DEF Width
  <2> QED
    BY <2>1, <2>2, <2>3
<1> QED
  BY <1>1, Invariance, PTL

\* The same for max_session_requests, which only charge counts against, long
\* after check_turn let the turn pass.
THEOREM RequestCeiling == Spec => []RequestsBounded
<1>1. IInv => RequestsBounded
  <2> SUFFICES ASSUME IInv, NEW b \in BudgetIds, budget[b].limits.requests # 0
               PROVE  budget[b].requests < budget[b].limits.requests + Width
    BY DEF RequestsBounded
  <2>1. budget[b].requests \in Nat /\ budget[b].limits.requests \in Nat
    BY DEF IInv, TypeOK, Counters, Limits
  <2>2. budget[b].requests + Count(Unpaid, b) < budget[b].limits.requests + Width
    BY DEF IInv, RequestsInv
  <2>3. Count(Unpaid, b) \in Nat /\ Width \in Nat
    BY CountTyped, HandlersFinite, FS_CardinalityType DEF Width
  <2> QED
    BY <2>1, <2>2, <2>3
<1> QED
  BY <1>1, Invariance, PTL

\* No budget is charged for more requests than it counted turns, although
\* clearing the conversation may replace the budget while turns run.
THEOREM TurnBeforeRequest == Spec => []NoRequestWithoutTurn
<1>1. IInv => NoRequestWithoutTurn
  <2> SUFFICES ASSUME IInv, NEW b \in BudgetIds
               PROVE  budget[b].requests <= budget[b].turns
    BY DEF NoRequestWithoutTurn
  <2>1. budget[b].requests \in Nat /\ budget[b].turns \in Nat
    BY DEF IInv, TypeOK, Counters
  <2>2. budget[b].requests + Count(Counted, b) <= budget[b].turns
    BY DEF IInv, ChargesInv
  <2>3. Count(Counted, b) \in Nat
    BY CountTyped
  <2> QED
    BY <2>1, <2>2, <2>3
<1> QED
  BY <1>1, Invariance, PTL

-------------------------------------------------------------------------------
(* Tokens.  A turn's cost is known when it is over; until then each unpaid *)
(* turn counts with the most it can cost.                                  *)

\* The locals of a turn hold costs that a prompt and a completion can have.
CostsInv == \A h \in Handlers :
    /\ pc[h] \in {"built", "sent", "answered"} => job[h].prompt \in PromptCosts
    /\ pc[h] # "idle" => job[h].completion \in CompletionCosts

TokensInv ==
    \A b \in BudgetIds : budget[b].limits.tokens # 0 =>
        budget[b].tokens + Count(Unpaid, b) * MaxCost
            < budget[b].limits.tokens + Width * MaxCost

\* More turns cost no less.
LEMMA TimesMonotone ==
    ASSUME NEW a \in Nat, NEW b \in Nat, NEW m \in Nat, a <= b
    PROVE  a * m \in Nat /\ b * m \in Nat /\ a * m <= b * m
  OBVIOUS

\* One turn more costs once more.
LEMMA TimesMore ==
    ASSUME NEW a \in Nat, NEW m \in Nat
    PROVE  (a + 1) * m = a * m + m
  OBVIOUS

\* A turn starts without a cost, gets its prompt when that is built and its completion
\* when that is reported.
LEMMA CostsStep == TypeOK /\ CostsInv /\ [Next]_vars => CostsInv'
<1> SUFFICES ASSUME TypeOK, CostsInv, [Next]_vars PROVE CostsInv'
  OBVIOUS
<1> USE DEF TypeOK, CostsInv, Goto
<1>1. ASSUME NEW h \in Handlers, NEW s \in Sids, Begin(h, s) PROVE CostsInv'
  BY <1>1, NoUsageReported DEF Begin
<1>2. ASSUME NEW h \in Handlers, EnsureFound(h) PROVE CostsInv'
  BY <1>2 DEF EnsureFound, Jobs
<1>3. ASSUME NEW h \in Handlers, EnsureMissing(h) PROVE CostsInv'
  BY <1>3 DEF EnsureMissing
<1>4. ASSUME NEW h \in Handlers, EnsureCreate(h) PROVE CostsInv'
  BY <1>4 DEF EnsureCreate, Jobs
<1>5. ASSUME NEW h \in Handlers,
             Refuse(h) \/ Admit(h) \/ ServiceUnavailable(h) \/ RecordTurn(h)
      PROVE  CostsInv'
  BY <1>5 DEF Refuse, Admit, ServiceUnavailable, RecordTurn
<1>6. ASSUME NEW h \in Handlers, NEW p \in PromptCosts, Build(h, p) PROVE CostsInv'
  BY <1>6 DEF Build, Jobs
<1>7. ASSUME NEW h \in Handlers, Send(h) \/ SkipProvider(h) PROVE CostsInv'
  BY <1>7 DEF Send, SkipProvider
<1>8. ASSUME NEW h \in Handlers, NEW p \in PromptCosts, NEW c \in CompletionCosts,
             Answer(h, p, c)
      PROVE  CostsInv'
  BY <1>8 DEF Answer, Jobs
<1>9. ASSUME NEW h \in Handlers, NEW t \in BOOLEAN, Fail(h, t) PROVE CostsInv'
  BY <1>9 DEF Fail, Jobs
<1>10. ASSUME NEW h \in Handlers, Raise(h) \/ Charge(h) \/ FlagLargePrompt(h)
       PROVE  CostsInv'
  BY <1>10 DEF Raise, Charge, FlagLargePrompt
<1>11. ASSUME UNCHANGED <<pc, job>> PROVE CostsInv'
  BY <1>11
<1> QED
  BY <1>1, <1>2, <1>3, <1>4, <1>5, <1>6, <1>7, <1>8, <1>9, <1>10, <1>11
  DEF Next, Chat, ClearConversation, UpdateCosts, vars

\* What every step leaves alone, or only lets grow, in a budget that exists; a new budget
\* is empty and is nobody's yet.  Only charge adds tokens.
LEMMA BudgetsGrow ==
    ASSUME TypeOK, [Next]_vars, NEW b \in BudgetIds, b <= made
    PROVE  /\ budget'[b].limits = budget[b].limits
           /\ budget'[b].turns >= budget[b].turns
           /\ budget'[b].requests >= budget[b].requests
           /\ budget'[b].tokens >= budget[b].tokens
           /\ (\A h \in Handlers : ~Charge(h)) => budget'[b].tokens = budget[b].tokens
<1> USE DEF TypeOK
<1>1. budget[b] \in Counters
  OBVIOUS
<1>2. ASSUME NEW c \in Counters
      PROVE  /\ c.turns >= c.turns /\ c.requests >= c.requests /\ c.tokens >= c.tokens
             /\ RecordedTurn(c).limits = c.limits /\ RecordedTurn(c).turns = c.turns + 1
             /\ RecordedTurn(c).requests = c.requests /\ RecordedTurn(c).tokens = c.tokens
             /\ RecordedRefusal(c).limits = c.limits /\ RecordedRefusal(c).turns = c.turns
             /\ RecordedRefusal(c).requests = c.requests
             /\ RecordedRefusal(c).tokens = c.tokens
             /\ c.turns + 1 >= c.turns
  BY DEF RecordedTurn, RecordedRefusal, Counters
<1>3. CASE budget'[b] \in {budget[b], RecordedTurn(budget[b]), RecordedRefusal(budget[b])}
  BY <1>1, <1>2, <1>3
<1>4. ASSUME NEW h \in Handlers, Charge(h), budget'[b] # budget[b]
      PROVE  /\ budget'[b].limits = budget[b].limits
             /\ budget'[b].turns >= budget[b].turns
             /\ budget'[b].requests >= budget[b].requests
             /\ budget'[b].tokens >= budget[b].tokens
  <2>1. budget'[b] = Charged(budget[b], job[h].prompt, job[h].completion, job[h].timedOut)
    BY <1>4 DEF Charge
  <2>2. job[h].prompt \in Nat /\ job[h].completion \in Nat
    BY DEF Jobs
  <2>3. /\ budget'[b].limits = budget[b].limits /\ budget'[b].turns = budget[b].turns
        /\ budget'[b].requests = budget[b].requests + 1
        /\ budget'[b].tokens = budget[b].tokens + job[h].prompt + job[h].completion
    BY <1>1, <2>1 DEF Charged, Counters
  <2>4. budget[b].turns \in Nat /\ budget[b].requests \in Nat /\ budget[b].tokens \in Nat
    BY <1>1 DEF Counters
  <2> QED
    BY <2>2, <2>3, <2>4
<1>5. ASSUME NEW h \in Handlers, Chat(h), ~Charge(h)
      PROVE  budget'[b] \in {budget[b], RecordedTurn(budget[b]), RecordedRefusal(budget[b])}
  <2>1. CASE EnsureCreate(h)
    BY <2>1 DEF EnsureCreate
  <2>2. CASE RecordTurn(h)
    BY <2>2 DEF RecordTurn
  <2>3. CASE Refuse(h) \/ FlagLargePrompt(h)
    BY <2>3 DEF Refuse, FlagLargePrompt
  <2>4. CASE UNCHANGED budget
    BY <2>4
  <2> QED
    BY <1>5, <2>1, <2>2, <2>3, <2>4
    DEF Chat, Begin, EnsureFound, EnsureMissing, Admit, ServiceUnavailable, Build, Send,
        SkipProvider, Answer, Fail, Raise
<1>6. CASE UNCHANGED budget
  BY <1>3, <1>6
<1> QED
  BY <1>3, <1>4, <1>5, <1>6 DEF Next, ClearConversation, UpdateCosts, vars

\* Nothing a session or an operator does reopens a budget: its limits stay and its
\* counters only grow, so a ceiling once reached is reached for good, also when
\* update_costs raises the limits of the budgets to come.
THEOREM ExhaustionStays == Spec => ExhaustionIsFinal
<1>1. TypeOK /\ TypeOK' /\ [Next]_vars =>
        [\A b \in BudgetIds : b <= made /\ Exhausted(budget[b], budget[b].limits)
             => Exhausted(budget'[b], budget'[b].limits)]_vars
  <2> SUFFICES ASSUME TypeOK, TypeOK', [Next]_vars, NEW b \in BudgetIds, b <= made,
                      Exhausted(budget[b], budget[b].limits)
               PROVE  Exhausted(budget'[b], budget'[b].limits)
    OBVIOUS
  <2>1. budget[b] \in Counters /\ budget'[b] \in Counters /\ budget[b].limits \in Limits
    BY DEF TypeOK, Counters
  <2>2. /\ budget'[b].limits = budget[b].limits
        /\ budget'[b].turns >= budget[b].turns
        /\ budget'[b].requests >= budget[b].requests
        /\ budget'[b].tokens >= budget[b].tokens
    BY BudgetsGrow
  <2>3. ASSUME NEW l \in Nat, NEW x \in Nat, NEW y \in Nat, y >= x, Reached(l, x)
        PROVE  Reached(l, y)
    BY <2>3 DEF Reached
  <2> QED
    BY <2>1, <2>2, <2>3 DEF Exhausted, Counters, Limits
<1> QED
  BY <1>1, TypeCorrect, PTL DEF Spec, ExhaustionIsFinal

\* A step that neither admits nor charges a turn adds no tokens and no unpaid turn.
LEMMA QuietTokens ==
    ASSUME IInv, NEW h \in Handlers, Chat(h), ~EnsureCreate(h), ~Admit(h), ~Charge(h),
           NEW b \in BudgetIds
    PROVE  /\ budget'[b].limits = budget[b].limits
           /\ budget'[b].tokens = budget[b].tokens
           /\ Count(Unpaid, b)' \in Nat /\ Count(Unpaid, b)' <= Count(Unpaid, b)
<1> USE DEF IInv, TypeOK, Goto
<1>1. budget'[b] \in {budget[b], RecordedTurn(budget[b]), RecordedRefusal(budget[b])}
  <2>1. CASE RecordTurn(h)
    BY <2>1 DEF RecordTurn
  <2>2. CASE Refuse(h) \/ FlagLargePrompt(h)
    BY <2>2 DEF Refuse, FlagLargePrompt
  <2>3. CASE UNCHANGED budget
    BY <2>3
  <2> QED
    BY <2>1, <2>2, <2>3
    DEF Chat, Begin, EnsureFound, EnsureMissing, Admit, ServiceUnavailable, Build, Send,
        SkipProvider, Answer, Fail, Raise
<1>2. budget'[b].limits = budget[b].limits /\ budget'[b].tokens = budget[b].tokens
  BY <1>1 DEF RecordedTurn, RecordedRefusal, Counters
<1>3. ASSUME NEW from, NEW to, Moves(h, from, to),
             to \in Unpaid => from \in Unpaid /\ job'[h].budget = job[h].budget
      PROVE  Count(Unpaid, b)' \in Nat /\ Count(Unpaid, b)' <= Count(Unpaid, b)
  BY <1>3, GroupCounts
<1>4. ASSUME NEW s \in Sids, Begin(h, s) PROVE Moves(h, "idle", "ensure")
  BY <1>4 DEF Begin, Moves
<1>5. EnsureFound(h) => Moves(h, "ensure", "check")
  BY DEF EnsureFound, Moves
<1>6. EnsureMissing(h) => Moves(h, "ensure", "create")
  BY DEF EnsureMissing, Moves
<1>7. Refuse(h) \/ ServiceUnavailable(h) \/ Raise(h) \/ FlagLargePrompt(h)
        => Moves(h, pc[h], "idle")
  BY DEF Refuse, ServiceUnavailable, Raise, FlagLargePrompt, Moves
<1>8. RecordTurn(h) => Moves(h, "serve", "turn") /\ job' = job
  BY DEF RecordTurn, Moves
<1>9. Send(h) => Moves(h, "built", "sent") /\ job' = job
  BY DEF Send, Moves
<1>10. SkipProvider(h) => Moves(h, "built", "answered") /\ job' = job
  BY DEF SkipProvider, Moves
<1>11. ASSUME NEW p \in PromptCosts, Build(h, p)
       PROVE  Moves(h, "turn", "built") /\ job'[h].budget = job[h].budget
  BY <1>11 DEF Build, Moves, Jobs
<1>12. ASSUME NEW p \in PromptCosts, NEW c \in CompletionCosts, Answer(h, p, c)
       PROVE  Moves(h, "sent", "answered") /\ job'[h].budget = job[h].budget
  BY <1>12 DEF Answer, Moves, Jobs
<1>13. ASSUME NEW t \in BOOLEAN, Fail(h, t)
       PROVE  Moves(h, "sent", "answered") /\ job'[h].budget = job[h].budget
  BY <1>13 DEF Fail, Moves, Jobs
<1> USE DEF Unpaid
<1>14. Count(Unpaid, b)' \in Nat /\ Count(Unpaid, b)' <= Count(Unpaid, b)
  <2> HIDE DEF IInv, TypeOK, Goto
  <2>1. CASE \E s \in Sids : Begin(h, s)
    BY <2>1, <1>3, <1>4
  <2>2. CASE EnsureFound(h) \/ EnsureMissing(h)
    BY <2>2, <1>3, <1>5, <1>6
  <2>3. CASE Refuse(h) \/ ServiceUnavailable(h) \/ Raise(h) \/ FlagLargePrompt(h)
    BY <2>3, <1>3, <1>7
  <2>4. CASE RecordTurn(h) \/ Send(h) \/ SkipProvider(h)
    BY <2>4, <1>3, <1>8, <1>9, <1>10
  <2>5. CASE \E p \in PromptCosts : Build(h, p)
    BY <2>5, <1>3, <1>11
  <2>6. CASE \E p \in PromptCosts, c \in CompletionCosts : Answer(h, p, c)
    BY <2>6, <1>3, <1>12
  <2>7. CASE \E t \in BOOLEAN : Fail(h, t)
    BY <2>7, <1>3, <1>13
  <2> QED
    BY <2>1, <2>2, <2>3, <2>4, <2>5, <2>6, <2>7 DEF Chat
<1> QED
  BY <1>2, <1>14

\* Admitting a turn is where the count of unpaid turns grows, charging it where it turns
\* into tokens.
LEMMA TokensStep ==
    ASSUME IInv, TypeOK', CostsInv, TokensInv, [Next]_vars
    PROVE  TokensInv'
<1> SUFFICES ASSUME NEW b \in BudgetIds, budget'[b].limits.tokens # 0
             PROVE  budget'[b].tokens + Count(Unpaid, b)' * MaxCost
                        < budget'[b].limits.tokens + Width * MaxCost
  BY DEF TokensInv, Width
<1> DEFINE n == Count(Unpaid, b)
           all == Width * MaxCost
<1>1. MaxCost \in Nat /\ Width \in Nat /\ n \in Nat /\ all \in Nat /\ n * MaxCost \in Nat
  BY CostsBounded, CountTyped, HandlersFinite, FS_CardinalityType, TimesMonotone DEF Width
<1>2. /\ budget[b] \in Counters /\ budget[b].tokens \in Nat /\ budget[b].limits.tokens \in Nat
      /\ budget'[b].tokens \in Nat /\ budget'[b].limits.tokens \in Nat
  BY DEF IInv, TypeOK, Counters, Limits
<1>3. budget[b].limits.tokens # 0 => budget[b].tokens + n * MaxCost < budget[b].limits.tokens + all
  BY DEF TokensInv
<1>4. ASSUME budget'[b].limits = budget[b].limits, budget'[b].tokens = budget[b].tokens,
             n' \in Nat, n' <= n
      PROVE  budget'[b].tokens + n' * MaxCost < budget'[b].limits.tokens + all
  <2> HIDE DEF n, all
  <2>1. n' * MaxCost \in Nat /\ n' * MaxCost <= n * MaxCost
    BY <1>1, <1>4, TimesMonotone
  <2> QED
    BY <1>1, <1>2, <1>3, <1>4, <2>1
<1>5. ASSUME NEW h \in Handlers, Admit(h)
      PROVE  budget'[b].tokens + n' * MaxCost < budget'[b].limits.tokens + all
  <2>1. Moves(h, "check", "serve") /\ budget' = budget /\ job' = job
    BY <1>5 DEF Admit, Moves
  <2>2. CASE b = job[h].budget
    <3>1. budget[b].tokens < budget[b].limits.tokens
      BY <1>2, <1>5, <2>1, <2>2 DEF Admit, Mine, Exhausted, Reached
    <3>2. n' \in Nat /\ n' <= Width
      BY <2>1, GroupCounts
    <3> HIDE DEF n
    <3>3. n' * MaxCost \in Nat /\ n' * MaxCost <= Width * MaxCost
      BY <1>1, <3>2, TimesMonotone
    <3> QED
      BY <1>1, <1>2, <2>1, <3>1, <3>3
  <2>3. CASE b # job[h].budget
    <3>1. n' = n
      BY <2>1, <2>3, GroupCounts DEF Unpaid
    <3> QED
      BY <1>1, <1>4, <2>1, <3>1
  <2> QED
    BY <2>2, <2>3
<1>6. ASSUME NEW h \in Handlers, Charge(h)
      PROVE  budget'[b].tokens + n' * MaxCost < budget'[b].limits.tokens + all
  <2>1. Moves(h, "answered", "charged") /\ job' = job
    BY <1>6 DEF Charge, Moves
  <2>2. CASE b = job[h].budget
    <3> DEFINE p == job[h].prompt
               c == job[h].completion
    <3>1. p \in PromptCosts /\ c \in CompletionCosts
      BY <1>6 DEF Charge, Goto, CostsInv
    <3>2. p \in Nat /\ c \in Nat /\ p + c <= MaxCost
      BY <3>1, CostsTyped, CostsBounded
    <3>3. budget'[b] = Charged(budget[b], p, c, job[h].timedOut)
      BY <1>6, <2>2 DEF Charge, IInv, TypeOK
    <3>4. budget'[b].tokens = budget[b].tokens + p + c
          /\ budget'[b].limits = budget[b].limits
      BY <1>2, <3>3 DEF Charged, Counters
    <3>5. n' \in Nat /\ n = n' + 1
      BY <2>1, <2>2, GroupCounts DEF Unpaid
    <3> HIDE DEF n, all, p, c
    <3>6. n * MaxCost = n' * MaxCost + MaxCost /\ n' * MaxCost \in Nat
      <4>1. MaxCost \in Nat
        BY <1>1
      <4>2. ASSUME NEW k \in Nat
            PROVE  (k + 1) * MaxCost = k * MaxCost + MaxCost /\ k * MaxCost \in Nat
        BY <4>1, TimesMore, TimesMonotone
      <4> QED
        BY <3>5, <4>2
    <3> QED
      BY <1>1, <1>2, <1>3, <3>2, <3>4, <3>6
  <2>3. CASE b # job[h].budget
    <3>1. n' = n
      BY <2>1, <2>3, GroupCounts DEF Unpaid
    <3>2. budget'[b] = budget[b]
      BY <1>6, <2>3 DEF Charge, IInv, TypeOK
    <3> QED
      BY <1>1, <1>4, <3>1, <3>2
  <2> QED
    BY <2>2, <2>3
<1>7. ASSUME NEW h \in Handlers, EnsureCreate(h)
      PROVE  budget'[b].tokens + n' * MaxCost < budget'[b].limits.tokens + all
  <2>1. /\ Moves(h, "create", "check") /\ made' = made + 1
        /\ budget' = [budget EXCEPT ![made'] = FreshBudget(limits)]
    BY <1>7 DEF EnsureCreate, Moves, IInv, TypeOK
  <2>2. n' = n
    BY <2>1, GroupCounts DEF Unpaid
  <2>3. CASE b = made'
    <3>1. budget'[b].tokens = 0
      BY <2>1, <2>3 DEF FreshBudget, IInv, TypeOK
    <3>2. n = 0
      <4>1. At(Unpaid, b) = {}
        BY <2>1, <2>3 DEF At, Unpaid, IInv, HoldsBudget, TypeOK
      <4> QED
        BY <4>1, FS_EmptySet DEF Count
    <3>3. n' * MaxCost = 0
      BY <1>1, <2>2, <3>2
    <3> DEFINE spent == budget'[b].tokens + n' * MaxCost
               cap   == budget'[b].limits.tokens
    <3>4. spent = 0
      BY <3>1, <3>3
    <3>5. cap \in Nat /\ cap # 0 /\ all \in Nat
      BY <1>1, <1>2
    <3> HIDE DEF n, all, spent, cap
    <3>6. spent < cap + all
      BY <3>4, <3>5
    <3> QED
      BY <3>6 DEF spent, cap
  <2>4. CASE b # made'
    BY <1>1, <1>4, <2>1, <2>2, <2>4 DEF IInv, TypeOK
  <2> QED
    BY <2>3, <2>4
<1>8. ASSUME NEW h \in Handlers, Chat(h), ~EnsureCreate(h), ~Admit(h), ~Charge(h)
      PROVE  budget'[b].tokens + n' * MaxCost < budget'[b].limits.tokens + all
  BY <1>4, <1>8, QuietTokens
<1>9. ASSUME UNCHANGED <<budget, pc, job>>
      PROVE  budget'[b].tokens + n' * MaxCost < budget'[b].limits.tokens + all
  BY <1>1, <1>4, <1>9, CountStays
<1> HIDE DEF n, all
<1>10. budget'[b].tokens + n' * MaxCost < budget'[b].limits.tokens + all
  BY <1>5, <1>6, <1>7, <1>8, <1>9 DEF Next, ClearConversation, UpdateCosts, vars
<1> QED
  BY <1>10 DEF n, all

\* The tokens charged to a budget pass max_session_tokens by less than one turn per
\* handler at the most a turn can cost, however late the costs come in.
THEOREM TokenCeiling == Spec => []TokensBounded
<1>1. Init => CostsInv /\ TokensInv
  <2> SUFFICES ASSUME Init PROVE CostsInv /\ TokensInv
    OBVIOUS
  <2>1. CostsInv
    BY DEF Init, CostsInv
  <2>2. ASSUME NEW b \in BudgetIds, budget[b].limits.tokens # 0
        PROVE  budget[b].tokens + Count(Unpaid, b) * MaxCost
                   < budget[b].limits.tokens + Width * MaxCost
    <3>1. budget[b].tokens = 0 /\ budget[b].limits.tokens \in Nat
      BY TypeInit DEF Init, FreshBudget, TypeOK, Limits
    <3>2. At(Unpaid, b) = {}
      BY DEF Init, At, Unpaid
    <3>3. Count(Unpaid, b) = 0
      BY <3>2, FS_EmptySet DEF Count
    <3>4. Width \in Nat /\ MaxCost \in Nat
      BY CostsBounded, HandlersFinite, FS_CardinalityType DEF Width
    <3>5. Width * MaxCost \in Nat /\ Count(Unpaid, b) * MaxCost = 0
      BY <3>3, <3>4, TimesMonotone
    <3> QED
      BY <2>2, <3>1, <3>5
  <2> QED
    BY <2>1, <2>2 DEF TokensInv
<1>2. IInv /\ IInv' /\ CostsInv /\ TokensInv /\ [Next]_vars => CostsInv' /\ TokensInv'
  BY CostsStep, TokensStep DEF IInv
<1>3. IInv /\ TokensInv => TokensBounded
  <2> SUFFICES ASSUME IInv, TokensInv, NEW b \in BudgetIds, budget[b].limits.tokens # 0
               PROVE  budget[b].tokens < budget[b].limits.tokens + Width * MaxCost
    BY DEF TokensBounded
  <2>1. budget[b].tokens \in Nat /\ budget[b].limits.tokens \in Nat
    BY DEF IInv, TypeOK, Counters, Limits
  <2>2. Count(Unpaid, b) * MaxCost \in Nat /\ Width * MaxCost \in Nat
    BY CountTyped, CostsBounded, HandlersFinite, FS_CardinalityType, TimesMonotone DEF Width
  <2>3. budget[b].tokens + Count(Unpaid, b) * MaxCost
            < budget[b].limits.tokens + Width * MaxCost
    BY DEF TokensInv
  <2> QED
    BY <2>1, <2>2, <2>3
<1> QED
  BY <1>1, <1>2, <1>3, Invariance, PTL DEF Spec

===============================================================================
