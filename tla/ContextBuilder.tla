----------------------------- MODULE ContextBuilder -----------------------------
(***************************************************************************)
(* brain/context_builder.py, build_context: which of a session's memories, *)
(* transcript chunks and recent messages reach the prompt of one turn.     *)
(* Each section is first filled up to its own budget; then, while the      *)
(* whole prompt is over max_tokens, evidence is taken out again, one item  *)
(* at a time.                                                              *)
(*                                                                         *)
(* A text is its identity and its token cost.  Memories and chunks come in *)
(* rank order from select_memories and the retriever; of the memories that *)
(* select_memories drops (MemorySelection) only the number is left, which  *)
(* the report and the counts include.  A delimited block costs the sum of  *)
(* its lines and a frame; an empty block is left out.                      *)
(***************************************************************************)
EXTENDS Integers, Sequences, FiniteSets, FiniteSetsExt, Functions

CONSTANTS
    Inputs,       \* the calls of build_context
    Texts,        \* identities of message and chunk texts
    MemoryFrame,  \* cost of the memory block's preamble and delimiters
    ChunkFrame,   \* the same for the chunk block
    MarkerCost,   \* cost of the marker that ends a truncated text
    NoTurnLimit   \* max_recent_turns is None

Items == [text: Texts, cost: Nat]

\* ContextBudget; max = 0 means that there is no global ceiling.
Budgets == [max: Nat, recent: Nat, memory: Nat, chunk: Nat, system: Nat,
            turns: Nat \cup {NoTurnLimit}, overhead: Nat]

\* memories are those select_memories returns, unselected the number it drops.
Calls == [system: Nat, current: Nat, history: Seq(Items), memories: Seq(Nat),
          unselected: Nat, chunks: Seq(Items), budget: Budgets]

ASSUME InputsTyped == Inputs \subseteq Calls
ASSUME CostsTyped  == MemoryFrame \in Nat /\ ChunkFrame \in Nat /\ MarkerCost \in Nat \ {0}
ASSUME NoTurnLimitIsNone == NoTurnLimit \notin Nat

VARIABLES
    input,      \* the arguments of the call
    phase,      \* the section build_context is at
    next,       \* the rank of the candidate it looks at
    system,     \* system_tokens; the text is empty exactly when it is 0
    memory,     \* ranks of the memories in memory_lines
    chunk,      \* ranks of the chunks in chunk_lines
    window,     \* history_slice holds the newest window messages
    windowCost, \* history_tokens
    drops,      \* the drop lists: section-skipped, duplicate and evicted items
    fitted      \* history: system_tokens before the ceiling was applied

vars == <<input, phase, next, system, memory, chunk, window, windowCost, drops, fitted>>

NoDrops == [memory |-> {}, chunk |-> {}, duplicate |-> {}, evictedMemory |-> {},
            evictedChunk |-> {}, messages |-> 0]

Init ==
    /\ input \in Inputs
    /\ phase = "system" /\ next = 1
    /\ system = input.system /\ fitted = input.system
    /\ memory = {} /\ chunk = {}
    /\ window = 0 /\ windowCost = 0
    /\ drops = NoDrops

-------------------------------------------------------------------------------
(* Costs.                                                                  *)

SumOver(costs, kept) == SumFunctionOnSet(costs, kept)

CostsOf(items) == [i \in DOMAIN items |-> items[i].cost]

MemoryBlock(kept) ==
    IF kept = {} THEN 0 ELSE MemoryFrame + SumOver(input.memories, kept)

ChunkBlock(kept) ==
    IF kept = {} THEN 0 ELSE ChunkFrame + SumOver(CostsOf(input.chunks), kept)

Present(cost) == IF cost > 0 THEN 1 ELSE 0
Nonempty(kept) == IF kept = {} THEN 0 ELSE 1

\* total_prompt_tokens: the sections, the question, and an overhead for each
\* message.
PromptTokens(sys, mem, chk, win, winCost) ==
    sys + MemoryBlock(mem) + ChunkBlock(chk) + winCost + input.current
    + input.budget.overhead * (Present(sys) + Nonempty(mem) + Nonempty(chk) + win + 1)

Total == PromptTokens(system, memory, chunk, window, windowCost)

\* Mutant: a limit below zero is not noticed.
Fitted_Unchecked(cost, limit) == IF cost <= limit THEN {cost} ELSE {limit}

\* _fit_system: what is left of a text of this cost under a limit.  A cut text
\* ends in the marker, whose cost the limit need not cover.
Fitted(cost, limit) ==
    IF cost = 0 THEN {0} ELSE IF limit <= 0 THEN {0}
    ELSE IF cost <= limit THEN {cost}
    ELSE {MarkerCost} \cup MarkerCost..limit

-------------------------------------------------------------------------------
(* The sections, each up to its budget.                                    *)

At(here) == phase = here
Enter(there) == phase' = there /\ next' = 1
Stay == UNCHANGED phase /\ next' = next + 1

FitSystem ==
    /\ At("system") /\ Enter("memory")
    /\ system' \in Fitted(system, input.budget.system)
    /\ fitted' = system'
    /\ UNCHANGED <<input, memory, chunk, window, windowCost, drops>>

\* A memory that does not fit is skipped; a lower-ranked one may still fit.
FillMemory ==
    LET fits == MemoryBlock(memory \cup {next}) <= input.budget.memory IN
    /\ At("memory") /\ next <= Len(input.memories) /\ Stay
    /\ memory' = IF fits THEN memory \cup {next} ELSE memory
    /\ drops' = IF fits THEN drops ELSE [drops EXCEPT !.memory = @ \cup {next}]
    /\ UNCHANGED <<input, system, chunk, window, windowCost, fitted>>

EndMemory ==
    /\ At("memory") /\ next > Len(input.memories) /\ Enter("history")
    /\ UNCHANGED <<input, system, memory, chunk, window, windowCost, drops, fitted>>

\* _select_history: the newest messages, as many as fit, and at least one
\* unless max_recent_turns is 0.
MessageFits(m) ==
    /\ input.budget.turns # NoTurnLimit => window < input.budget.turns
    /\ window > 0 => windowCost + m.cost <= input.budget.recent

Older == input.history[Len(input.history) - window]

TakeMessage ==
    /\ At("history") /\ window < Len(input.history) /\ MessageFits(Older)
    /\ window' = window + 1
    /\ windowCost' = windowCost + Older.cost
    /\ UNCHANGED <<input, phase, next, system, memory, chunk, drops, fitted>>

EndHistory ==
    /\ At("history")
    /\ window < Len(input.history) => ~MessageFits(Older)
    /\ Enter("chunks")
    /\ UNCHANGED <<input, system, memory, chunk, window, windowCost, drops, fitted>>

\* The texts the first w messages back say; an empty message says nothing.
Said(w) == {input.history[i].text : i \in
               {j \in (Len(input.history) - w + 1)..Len(input.history) :
                    input.history[j].cost > 0}}

DropDuplicate ==
    /\ At("chunks") /\ next <= Len(input.chunks) /\ Stay
    /\ input.chunks[next].text \in Said(window)
    /\ drops' = [drops EXCEPT !.duplicate = @ \cup {next}]
    /\ UNCHANGED <<input, system, memory, chunk, window, windowCost, fitted>>

\* Mutant: a chunk is not compared to the window.
FillChunk_Unchecked ==
    /\ At("chunks") /\ next <= Len(input.chunks) /\ Stay
    /\ ChunkBlock(chunk \cup {next}) <= input.budget.chunk
    /\ chunk' = chunk \cup {next}
    /\ UNCHANGED <<input, system, memory, window, windowCost, drops, fitted>>

FillChunk ==
    LET fits == ChunkBlock(chunk \cup {next}) <= input.budget.chunk IN
    /\ At("chunks") /\ next <= Len(input.chunks) /\ Stay
    /\ input.chunks[next].text \notin Said(window)
    /\ chunk' = IF fits THEN chunk \cup {next} ELSE chunk
    /\ drops' = IF fits THEN drops ELSE [drops EXCEPT !.chunk = @ \cup {next}]
    /\ UNCHANGED <<input, system, memory, window, windowCost, fitted>>

EndChunks ==
    /\ At("chunks") /\ next > Len(input.chunks) /\ Enter("ceiling")
    /\ UNCHANGED <<input, system, memory, chunk, window, windowCost, drops, fitted>>

-------------------------------------------------------------------------------
(* The ceiling: oldest message, lowest-ranked chunk, lowest-ranked memory, *)
(* and the system prompt last.                                             *)

Over == input.budget.max > 0 /\ Total > input.budget.max

\* Mutant: the oldest message goes, the newest one's tokens are subtracted.
EvictMessage_Newest ==
    /\ At("ceiling") /\ Over /\ window > 0
    /\ window' = window - 1
    /\ windowCost' = windowCost - input.history[Len(input.history)].cost
    /\ drops' = [drops EXCEPT !.messages = @ + 1]
    /\ UNCHANGED <<input, phase, next, system, memory, chunk, fitted>>

EvictMessage ==
    /\ At("ceiling") /\ Over /\ window > 0
    /\ window' = window - 1
    /\ windowCost' = windowCost - input.history[Len(input.history) - window + 1].cost
    /\ drops' = [drops EXCEPT !.messages = @ + 1]
    /\ UNCHANGED <<input, phase, next, system, memory, chunk, fitted>>

\* Mutant: the evicted chunk is not recorded.
EvictChunk_Silent ==
    /\ At("ceiling") /\ Over /\ window = 0 /\ chunk # {}
    /\ chunk' = chunk \ {Max(chunk)}
    /\ UNCHANGED <<input, phase, next, system, memory, window, windowCost, drops, fitted>>

EvictChunk ==
    /\ At("ceiling") /\ Over /\ window = 0 /\ chunk # {}
    /\ chunk' = chunk \ {Max(chunk)}
    /\ drops' = [drops EXCEPT !.evictedChunk = @ \cup {Max(chunk)}]
    /\ UNCHANGED <<input, phase, next, system, memory, window, windowCost, fitted>>

EvictMemory ==
    /\ At("ceiling") /\ Over /\ window = 0 /\ chunk = {} /\ memory # {}
    /\ memory' = memory \ {Max(memory)}
    /\ drops' = [drops EXCEPT !.evictedMemory = @ \cup {Max(memory)}]
    /\ UNCHANGED <<input, phase, next, system, chunk, window, windowCost, fitted>>

\* Mutant: the prompt's other sections are left out of the sum.
CutSystem_Alone ==
    /\ At("ceiling") /\ Over /\ window = 0 /\ chunk = {} /\ memory = {} /\ system > 0
    /\ system' \in Fitted(system, input.budget.max)
    /\ UNCHANGED <<input, phase, next, memory, chunk, window, windowCost, drops, fitted>>

CutSystem ==
    /\ At("ceiling") /\ Over /\ window = 0 /\ chunk = {} /\ memory = {} /\ system > 0
    /\ system' \in Fitted(system, input.budget.max - (Total - system))
    /\ UNCHANGED <<input, phase, next, memory, chunk, window, windowCost, drops, fitted>>

\* Mutant: the system prompt is never cut.
Finish_Uncut ==
    /\ At("ceiling")
    /\ Over => window = 0 /\ chunk = {} /\ memory = {}
    /\ Enter("done")
    /\ UNCHANGED <<input, system, memory, chunk, window, windowCost, drops, fitted>>

\* Under the ceiling, or nothing but the question is left.
Finish ==
    /\ At("ceiling")
    /\ Over => window = 0 /\ chunk = {} /\ memory = {} /\ system = 0
    /\ Enter("done")
    /\ UNCHANGED <<input, system, memory, chunk, window, windowCost, drops, fitted>>

-------------------------------------------------------------------------------
(* What is returned: the message list, the drop records and ContextStats.  *)

\* messages, by what each one costs.
Prompt ==
    LET block(cost, there) == IF there THEN <<cost>> ELSE <<>>
        length == Len(input.history)
    IN  block(system, system > 0)
            \o block(MemoryBlock(memory), memory # {})
            \o block(ChunkBlock(chunk), chunk # {})
            \o SubSeq(CostsOf(input.history), length - window + 1, length)
            \o <<input.current>>

\* _budget_drop and _chunk_drop: what the report is told of each item, and why.
DropRecord(kind, items, reason) == {[kind |-> kind, rank |-> i, reason |-> reason] : i \in items}

BudgetDrops ==
    DropRecord("memory", drops.memory, "memory_budget")
        \cup DropRecord("memory", drops.evictedMemory, "budget")
        \cup DropRecord("chunk", drops.duplicate, "duplicate_history")
        \cup DropRecord("chunk", drops.chunk, "chunk_budget")
        \cup DropRecord("chunk", drops.evictedChunk, "chunk_ceiling")

\* Every candidate select_memories did not return has its drop in selection.report
\* (MemorySelection, CandidatesAccounted); here they rank after those it returned.
SelectionDrops ==
    LET ranked == Len(input.memories)
    IN  DropRecord("memory", (ranked + 1)..(ranked + input.unselected), "selection")

\* report.dropped
Report == SelectionDrops \cup BudgetDrops

Everything(items) == SumOver(items, DOMAIN items)

\* _full_context_reference: the same question with the whole transcript.
FullContextReference ==
    system + Everything(CostsOf(input.history)) + input.current
        + input.budget.overhead * (Len(input.history) + 1 + Present(system))

Stats ==
    [final        |-> Everything(Prompt) + input.budget.overhead * Len(Prompt),
     overhead     |-> input.budget.overhead * Len(Prompt),
     messages     |-> Len(Prompt),
     rawHistory   |-> Everything(CostsOf(input.history)),
     memoryBlock  |-> MemoryBlock(memory),
     chunkBlock   |-> ChunkBlock(chunk),
     selectedMemories   |-> Cardinality(memory),
     candidateMemories  |-> Len(input.memories) + input.unselected,
     droppedMemories    |-> Cardinality(drops.memory) + Cardinality(drops.evictedMemory),
     selectedChunks     |-> Cardinality(chunk),
     candidateChunks    |-> Len(input.chunks),
     droppedChunks      |-> Cardinality(drops.chunk) + Cardinality(drops.evictedChunk),
     consideredMessages |-> Len(input.history),
     selectedMessages   |-> window,
     droppedMessages    |-> drops.messages,
     reference          |-> FullContextReference]

EvidenceTokens == Stats.memoryBlock + Stats.chunkBlock

\* token_savings_vs_raw_history and token_savings_vs_full_context.
Savings(reference) == Max({0, reference - Stats.final})

\* context_reduction_vs_..., in percent.
Reduction(reference) ==
    IF reference = 0 THEN 0 ELSE (100 * Savings(reference)) \div reference

\* exceeds_max_tokens
Exceeds == input.budget.max > 0 /\ Stats.final > input.budget.max

-------------------------------------------------------------------------------
Next ==
    \/ FitSystem
    \/ FillMemory \/ EndMemory
    \/ TakeMessage \/ EndHistory
    \/ DropDuplicate \/ FillChunk \/ EndChunks
    \/ EvictMessage \/ EvictChunk \/ EvictMemory \/ CutSystem \/ Finish

Spec     == Init /\ [][Next]_vars
FairSpec == Spec /\ WF_vars(Next)

-------------------------------------------------------------------------------

Phases == {"system", "memory", "history", "chunks", "ceiling", "done"}

TypeOK ==
    /\ input \in Inputs
    /\ phase \in Phases
    /\ next \in Nat \ {0}
    /\ system \in Nat /\ fitted \in Nat
    /\ memory \subseteq 1..Len(input.memories)
    /\ chunk \subseteq 1..Len(input.chunks)
    /\ window \in 0..Len(input.history)
    /\ windowCost \in Nat
    /\ drops \in [memory: SUBSET (1..Len(input.memories)),
                  evictedMemory: SUBSET (1..Len(input.memories)),
                  chunk: SUBSET (1..Len(input.chunks)),
                  duplicate: SUBSET (1..Len(input.chunks)),
                  evictedChunk: SUBSET (1..Len(input.chunks)),
                  messages: 0..Len(input.history)]

Done == phase = "done"

\* "max_tokens is the hard ceiling for the whole prompt", except that the
\* question is never cut: a finished prompt over the ceiling holds nothing else.
CeilingHolds ==
    Done /\ input.budget.max > 0 /\ Total > input.budget.max =>
        system = 0 /\ memory = {} /\ chunk = {} /\ window = 0

\* The documented order and its economy: nothing is taken out while something
\* of lower priority is left, and nothing that would have fitted.  The prompt
\* with the item that was taken out last in its section, and with everything
\* that was to go after it, is over the ceiling.
EvictionsNeeded ==
    LET mem == memory \cup drops.evictedMemory
        chk == chunk \cup drops.evictedChunk
        overCeiling(tokens) == tokens > input.budget.max
        returned == input.history[Len(input.history) - window]
    IN  Done =>
        /\ drops.messages > 0 =>
               overCeiling(PromptTokens(fitted, mem, chk, window + 1,
                                        windowCost + returned.cost))
        /\ drops.evictedChunk # {} =>
               /\ window = 0
               /\ overCeiling(PromptTokens(fitted, mem, chunk \cup {Min(drops.evictedChunk)},
                                           0, 0))
        /\ drops.evictedMemory # {} =>
               /\ window = 0 /\ chunk = {}
               /\ overCeiling(PromptTokens(fitted, memory \cup {Min(drops.evictedMemory)},
                                           {}, 0, 0))
        /\ system < fitted =>
               /\ window = 0 /\ chunk = {} /\ memory = {}
               /\ overCeiling(PromptTokens(fitted, {}, {}, 0, 0))

\* "every drop reason and token count is accounted" (README.md): each candidate
\* ends in the prompt or in exactly one of the drop lists.
EveryDropRecorded ==
    Done =>
    /\ memory \cup drops.memory \cup drops.evictedMemory = 1..Len(input.memories)
    /\ memory \cap (drops.memory \cup drops.evictedMemory) = {}
    /\ drops.memory \cap drops.evictedMemory = {}
    /\ chunk \cup drops.chunk \cup drops.duplicate \cup drops.evictedChunk
           = 1..Len(input.chunks)
    /\ chunk \cap (drops.chunk \cup drops.duplicate \cup drops.evictedChunk) = {}
    /\ drops.chunk \cap (drops.duplicate \cup drops.evictedChunk) = {}
    /\ drops.duplicate \cap drops.evictedChunk = {}

\* recent_history_tokens is kept up to date by additions and subtractions; it
\* is always the cost of the messages that are in the window.
WindowAccounted ==
    windowCost = SumOver(CostsOf(input.history),
                         (Len(input.history) - window + 1)..Len(input.history))

\* A prompt pays for no sentence twice: no chunk repeats a message of the window.
NoSentenceTwice == \A i \in chunk : input.chunks[i].text \notin Said(window)

\* The sections stay within their budgets; a window of one message may be
\* longer than recent_turn_budget.
SectionBudgetsHold ==
    /\ MemoryBlock(memory) <= input.budget.memory
    /\ ChunkBlock(chunk) <= input.budget.chunk
    /\ window > 1 => windowCost <= input.budget.recent
    /\ phase # "system" /\ MarkerCost <= input.budget.system => system <= input.budget.system

\* The account that is returned is the prompt's: the message list costs what the ceiling
\* was held against; every candidate is selected or in the report once, those that
\* select_memories dropped included, and the counts of what the budgets dropped are those
\* of the report; a duplicate repeats a message the window held before the ceiling cut
\* it (which need not be there any more); and a prompt is dearer than the full context by
\* no more than its evidence, so that a reduction that is reported is real.
StatsTrue ==
    Done =>
    LET blocks == Nonempty(memory) + Nonempty(chunk)
        reasons(kind) == {d \in Report : d.kind = kind}
        budget == {d \in Report : d.reason \in {"memory_budget", "budget"}}
    IN  /\ Stats.final = Total
        /\ Stats.selectedMemories + Cardinality(reasons("memory")) = Stats.candidateMemories
        /\ Cardinality(budget) = Stats.droppedMemories
        /\ Stats.selectedChunks + Cardinality(reasons("chunk")) = Stats.candidateChunks
        /\ Cardinality(reasons("chunk")) = Stats.droppedChunks + Cardinality(drops.duplicate)
        /\ \A i \in drops.duplicate : input.chunks[i].text \in Said(window + drops.messages)
        /\ Stats.final - EvidenceTokens - input.budget.overhead * blocks <= Stats.reference
        /\ Reduction(Stats.reference) > 0 =>
               Stats.selectedMessages < Stats.consideredMessages
        /\ Exceeds => Stats.messages = 1

\* What build_context reports of a section is what the section costs, the sections stay
\* within what the budget gives them, the ceiling takes out of them no more than it must,
\* in the documented order, and ContextStats says so.
SectionsAccounted ==
    WindowAccounted /\ SectionBudgetsHold /\ EvictionsNeeded /\ StatsTrue

\* build_context returns: taking evidence out ends.
Returns == <>Done
===============================================================================
