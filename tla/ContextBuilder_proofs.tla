------------------------- MODULE ContextBuilder_proofs -------------------------
(***************************************************************************)
(* Proofs about ContextBuilder, for every set of inputs.                   *)
(***************************************************************************)
EXTENDS ContextBuilder, SumTheorems, TLAPS

(* The window only grows while no chunk has been kept yet, and a smaller   *)
(* window says no more than a larger one.                                  *)
Shape ==
    /\ input \in Inputs
    /\ window \in 0..Len(input.history)
    /\ phase \in {"system", "memory", "history"} => chunk = {}

\* The texts of a smaller window are texts of the larger one.
LEMMA SaidGrows ==
    ASSUME input \in Inputs, NEW w \in 0..Len(input.history), NEW v \in 0..w
    PROVE  Said(v) \subseteq Said(w)
<1>1. Len(input.history) \in Nat
    BY InputsTyped DEF Calls
<1>2. (Len(input.history) - v + 1)..Len(input.history)
          \subseteq (Len(input.history) - w + 1)..Len(input.history)
    BY <1>1
<1> QED BY <1>2 DEF Said

\* Before a section's turn comes, nothing has been put in it.
LEMMA ShapeHolds == Spec => []Shape
<1>1. Init => Shape
    BY InputsTyped DEF Init, Shape, Calls
<1>2. Shape /\ [Next]_vars => Shape'
  <2> SUFFICES ASSUME Shape, [Next]_vars PROVE Shape'
    OBVIOUS
  <2>1. Len(input.history) \in Nat
    BY InputsTyped DEF Calls, Shape
  <2>2. CASE FitSystem \/ FillMemory \/ EndMemory
    BY <2>2 DEF Shape, FitSystem, FillMemory, EndMemory, At, Enter, Stay
  <2>3. CASE TakeMessage
    BY <2>1, <2>3 DEF Shape, TakeMessage, At
  <2>4. CASE EndHistory \/ DropDuplicate \/ FillChunk \/ EndChunks
    BY <2>4 DEF Shape, EndHistory, DropDuplicate, FillChunk, EndChunks, At, Enter, Stay
  <2>5. CASE EvictMessage
    BY <2>1, <2>5 DEF Shape, EvictMessage, At
  <2>6. CASE EvictChunk \/ EvictMemory \/ CutSystem \/ Finish
    BY <2>6 DEF Shape, EvictChunk, EvictMemory, CutSystem, Finish, At, Enter
  <2>7. CASE UNCHANGED vars
    BY <2>7 DEF Shape, vars
  <2> QED BY <2>2, <2>3, <2>4, <2>5, <2>6, <2>7 DEF Next
<1> QED BY <1>1, <1>2, PTL DEF Spec

\* No prompt pays for a sentence twice, whatever the candidates, the budgets
\* and the order in which the ceiling takes evidence out.
THEOREM NothingSaidTwice == Spec => []NoSentenceTwice
<1>1. Init => NoSentenceTwice
    BY DEF Init, NoSentenceTwice
<1>2. Shape /\ NoSentenceTwice /\ [Next]_vars => NoSentenceTwice'
  <2> SUFFICES ASSUME Shape, NoSentenceTwice, [Next]_vars PROVE NoSentenceTwice'
    OBVIOUS
  <2>1. Len(input.history) \in Nat
    BY InputsTyped DEF Calls, Shape
  <2>2. ASSUME input' = input, window' = window, chunk' \subseteq chunk
        PROVE  NoSentenceTwice'
    BY <2>2 DEF NoSentenceTwice, Said
  <2>3. CASE FitSystem \/ FillMemory \/ EndMemory \/ EndHistory \/ DropDuplicate
             \/ EndChunks \/ EvictMemory \/ CutSystem \/ Finish
    BY <2>2, <2>3 DEF FitSystem, FillMemory, EndMemory, EndHistory, DropDuplicate,
        EndChunks, EvictMemory, CutSystem, Finish
  <2>4. CASE TakeMessage
    <3>1. chunk' = {}
      BY <2>4 DEF Shape, TakeMessage, At
    <3> QED BY <3>1 DEF NoSentenceTwice
  <2>5. CASE FillChunk
    <3>1. chunk' \subseteq chunk \cup {next} /\ UNCHANGED <<input, window>>
      BY <2>5 DEF FillChunk
    <3>2. input.chunks[next].text \notin Said(window)
      BY <2>5 DEF FillChunk
    <3>3. Said(window)' = Said(window)
      BY <3>1 DEF Said
    <3> QED BY <3>1, <3>2, <3>3 DEF NoSentenceTwice
  <2>6. CASE EvictChunk
    BY <2>2, <2>6 DEF EvictChunk
  <2>7. CASE EvictMessage
    <3>1. window' = window - 1 /\ window > 0 /\ UNCHANGED <<input, chunk>>
      BY <2>7 DEF EvictMessage
    <3>2. window \in 0..Len(input.history) /\ window' \in 0..window
      BY <2>1, <3>1 DEF Shape
    <3>3. Said(window') \subseteq Said(window)
      BY <3>2, SaidGrows DEF Shape
    <3>4. Said(window)' = Said(window')
      BY <3>1 DEF Said
    <3> QED BY <3>1, <3>3, <3>4 DEF NoSentenceTwice
  <2>8. CASE UNCHANGED vars
    BY <2>2, <2>8 DEF vars
  <2> QED BY <2>3, <2>4, <2>5, <2>6, <2>7, <2>8 DEF Next
<1> QED BY <1>1, <1>2, ShapeHolds, PTL DEF Spec


\* The ceiling holds for every call that returns, or nothing but the question
\* is left: the loop never stops early and nothing is added after it.
THEOREM CeilingKept == Spec => []CeilingHolds
<1>1. Init => CeilingHolds
    BY DEF Init, CeilingHolds, Done
<1>2. Shape /\ CeilingHolds /\ [Next]_vars => CeilingHolds'
  <2> SUFFICES ASSUME Shape, CeilingHolds, [Next]_vars PROVE CeilingHolds'
    OBVIOUS
  <2>1. ASSUME UNCHANGED <<input, system, memory, chunk, window, windowCost>>
        PROVE  Total' = Total
    BY <2>1 DEF Total, PromptTokens, MemoryBlock, ChunkBlock, Present, Nonempty
  <2>2. CASE Finish
    <3>1. UNCHANGED <<input, system, memory, chunk, window, windowCost>>
      BY <2>2 DEF Finish
    <3> QED BY <2>1, <2>2, <3>1 DEF CeilingHolds, Finish, Over
  <2>3. CASE UNCHANGED vars
    <3>1. UNCHANGED <<input, phase, system, memory, chunk, window, windowCost>>
      BY <2>3 DEF vars
    <3> QED BY <2>1, <3>1 DEF CeilingHolds, Done
  <2>4. CASE FitSystem \/ FillMemory \/ EndMemory \/ TakeMessage \/ EndHistory
             \/ DropDuplicate \/ FillChunk \/ EndChunks
    BY <2>4 DEF CeilingHolds, Done, FitSystem, FillMemory, EndMemory, TakeMessage,
        EndHistory, DropDuplicate, FillChunk, EndChunks, At, Enter, Stay
  <2>5. CASE EvictMessage \/ EvictChunk \/ EvictMemory \/ CutSystem
    BY <2>5 DEF CeilingHolds, Done, EvictMessage, EvictChunk, EvictMemory, CutSystem, At
  <2> QED BY <2>2, <2>3, <2>4, <2>5 DEF Next
<1> QED BY <1>1, <1>2, ShapeHolds, PTL DEF Spec

(* Every candidate is accounted for.                                       *)

\* The ceiling takes out an item that is there: a nonempty set of ranks has a
\* greatest member.
LEMMA MaxIsMember ==
    ASSUME NEW n \in Nat, NEW S \in SUBSET (1..n), S # {}
    PROVE  Max(S) \in S /\ \A i \in S : Max(S) >= i
<1> DEFINE T == {n - i : i \in S}
           R == OpToRel(<, Nat)
<1>1. IsWellFoundedOn(R, Nat)
    BY NatLessThanWellFounded
<1>2. \A x, y \in Nat : y < x => <<y, x>> \in R
    BY DEF OpToRel
<1>3. T \subseteq Nat /\ T # {}
  <2>1. \A i \in S : n - i \in Nat
    <3> HIDE DEF T, R
    <3> QED OBVIOUS
  <2>2. T # {}
    OBVIOUS
  <2> HIDE DEF R
  <2> QED BY <2>1, <2>2
<1>4. \E x \in T : \A y \in T : ~(<<y, x>> \in R)
  <2> HIDE DEF T, R
  <2> QED BY <1>1, <1>3, WFMin
<1>5. PICK x \in T : \A y \in T : ~(y < x)
  <2> HIDE DEF R
  <2> QED BY <1>2, <1>3, <1>4
<1>6. PICK m \in S : x = n - m
  OBVIOUS
<1>7. ASSUME NEW i \in S PROVE m >= i
  <2>1. n - i \in T
    OBVIOUS
  <2>2. ~(n - i < n - m)
    BY <1>5, <1>6, <2>1
  <2>3. i \in Int /\ m \in Int /\ n \in Int
    OBVIOUS
  <2> HIDE DEF T
  <2> QED BY <2>2, <2>3
<1> QED BY <1>7 DEF Max

\* The memories and the chunks looked at so far.
SeenMemories == CASE phase = "system" -> {}
                  [] phase = "memory" -> 1..(next - 1)
                  [] OTHER -> 1..Len(input.memories)

SeenChunks == CASE phase \in {"system", "memory", "history"} -> {}
                [] phase = "chunks" -> 1..(next - 1)
                [] OTHER -> 1..Len(input.chunks)

MemoriesSplit ==
    /\ memory \cup drops.memory \cup drops.evictedMemory = SeenMemories
    /\ memory \cap (drops.memory \cup drops.evictedMemory) = {}
    /\ drops.memory \cap drops.evictedMemory = {}

ChunksSplit ==
    /\ chunk \cup drops.chunk \cup drops.duplicate \cup drops.evictedChunk = SeenChunks
    /\ chunk \cap (drops.chunk \cup drops.duplicate \cup drops.evictedChunk) = {}
    /\ drops.chunk \cap (drops.duplicate \cup drops.evictedChunk) = {}
    /\ drops.duplicate \cap drops.evictedChunk = {}

Cursor ==
    /\ input \in Inputs
    /\ phase \in Phases
    /\ next \in Nat \ {0}
    /\ phase = "memory" => next <= Len(input.memories) + 1
    /\ phase = "chunks" => next <= Len(input.chunks) + 1
    /\ drops = [memory |-> drops.memory, chunk |-> drops.chunk,
                duplicate |-> drops.duplicate, evictedMemory |-> drops.evictedMemory,
                evictedChunk |-> drops.evictedChunk, messages |-> drops.messages]

\* The candidate looked at is one that no list holds yet.
LEMMA CursorHolds == Spec => []Cursor
<1>1. Init => Cursor
    BY DEF Init, Cursor, Phases, NoDrops
<1>2. Cursor /\ [Next]_vars => Cursor'
  <2> SUFFICES ASSUME Cursor, [Next]_vars PROVE Cursor'
    OBVIOUS
  <2>1. Len(input.memories) \in Nat /\ Len(input.chunks) \in Nat
    BY InputsTyped DEF Calls, Cursor
  <2> USE DEF Cursor, Phases
  <2>2. CASE FitSystem
    BY <2>1, <2>2 DEF FitSystem, At, Enter
  <2>3. CASE FillMemory
    <3>1. UNCHANGED <<input, phase>> /\ next' = next + 1 /\ phase = "memory"
          /\ next <= Len(input.memories)
      BY <2>3 DEF FillMemory, At, Stay
    <3>2. drops' = drops \/ drops' = [drops EXCEPT !.memory = @ \cup {next}]
      BY <2>3 DEF FillMemory
    <3> QED BY <2>1, <3>1, <3>2
  <2>4. CASE EndMemory \/ EndHistory \/ EndChunks \/ Finish
    BY <2>1, <2>4 DEF EndMemory, EndHistory, EndChunks, Finish, At, Enter
  <2>5. CASE TakeMessage \/ CutSystem
    BY <2>1, <2>5 DEF TakeMessage, CutSystem
  <2>6. CASE DropDuplicate
    <3>1. UNCHANGED <<input, phase>> /\ next' = next + 1 /\ phase = "chunks"
          /\ next <= Len(input.chunks)
      BY <2>6 DEF DropDuplicate, At, Stay
    <3>2. drops' = [memory |-> drops.memory, chunk |-> drops.chunk,
                    duplicate |-> drops.duplicate \cup {next},
                    evictedMemory |-> drops.evictedMemory,
                    evictedChunk |-> drops.evictedChunk, messages |-> drops.messages]
      BY <2>6 DEF DropDuplicate
    <3> QED BY <2>1, <3>1, <3>2
  <2>7. CASE FillChunk
    <3>1. UNCHANGED <<input, phase>> /\ next' = next + 1 /\ phase = "chunks"
          /\ next <= Len(input.chunks)
      BY <2>7 DEF FillChunk, At, Stay
    <3>2. drops' = drops \/ drops' = [drops EXCEPT !.chunk = @ \cup {next}]
      BY <2>7 DEF FillChunk
    <3> QED BY <2>1, <3>1, <3>2
  <2>8. CASE EvictMessage \/ EvictChunk \/ EvictMemory
    BY <2>1, <2>8 DEF EvictMessage, EvictChunk, EvictMemory
  <2>9. CASE UNCHANGED vars
    BY <2>9 DEF vars
  <2> QED BY <2>2, <2>3, <2>4, <2>5, <2>6, <2>7, <2>8, <2>9 DEF Next
<1> QED BY <1>1, <1>2, PTL DEF Spec

\* The memories already looked at are kept, skipped or evicted, and only one.
LEMMA MemoriesSplitHolds == Spec => []MemoriesSplit
<1>1. Init => MemoriesSplit
    BY DEF Init, MemoriesSplit, SeenMemories, NoDrops
<1>2. Cursor /\ MemoriesSplit /\ [Next]_vars => MemoriesSplit'
  <2> SUFFICES ASSUME Cursor, MemoriesSplit, [Next]_vars PROVE MemoriesSplit'
    OBVIOUS
  <2>1. Len(input.memories) \in Nat
    BY InputsTyped DEF Calls, Cursor
  <2>2. ASSUME UNCHANGED <<memory, drops>>, SeenMemories' = SeenMemories
        PROVE  MemoriesSplit'
    BY <2>2 DEF MemoriesSplit
  <2>3. CASE FitSystem
    BY <2>1, <2>2, <2>3 DEF FitSystem, At, Enter, SeenMemories
  <2>4. CASE FillMemory
    <3>1. SeenMemories = 1..(next - 1) /\ SeenMemories' = SeenMemories \cup {next}
      BY <2>4 DEF FillMemory, At, Stay, SeenMemories, Cursor
    <3>2. next \notin SeenMemories
      BY <3>1 DEF Cursor
    <3>3. \/ memory' = memory \cup {next} /\ drops' = drops
          \/ memory' = memory /\ drops' = [drops EXCEPT !.memory = @ \cup {next}]
      BY <2>4 DEF FillMemory
    <3>4. drops'.evictedMemory = drops.evictedMemory
      BY <3>3 DEF Cursor
    <3>5. CASE memory' = memory \cup {next} /\ drops' = drops
      BY <3>1, <3>2, <3>5 DEF MemoriesSplit
    <3>6. CASE memory' = memory /\ drops' = [drops EXCEPT !.memory = @ \cup {next}]
      <4>1. drops'.memory = drops.memory \cup {next}
        BY <3>6 DEF Cursor
      <4> QED BY <3>1, <3>2, <3>4, <3>6, <4>1 DEF MemoriesSplit
    <3> QED BY <3>3, <3>5, <3>6
  <2>5. CASE EndMemory
    BY <2>1, <2>2, <2>5 DEF EndMemory, At, Enter, SeenMemories, Cursor
  <2>6. CASE TakeMessage \/ EndHistory \/ EndChunks \/ CutSystem \/ Finish
    BY <2>2, <2>6 DEF TakeMessage, EndHistory, EndChunks, CutSystem, Finish, At, Enter,
        SeenMemories
  <2>7. CASE DropDuplicate \/ FillChunk \/ EvictMessage \/ EvictChunk
    <3>1. memory' = memory /\ SeenMemories' = SeenMemories
      BY <2>7 DEF DropDuplicate, FillChunk, EvictMessage, EvictChunk, At, Stay, SeenMemories
    <3>2. drops'.memory = drops.memory /\ drops'.evictedMemory = drops.evictedMemory
      BY <2>7 DEF DropDuplicate, FillChunk, EvictMessage, EvictChunk, Cursor
    <3> QED BY <3>1, <3>2 DEF MemoriesSplit
  <2>8. CASE EvictMemory
    <3> DEFINE last == Max(memory)
    <3>1. memory \subseteq 1..Len(input.memories)
      BY <2>8 DEF EvictMemory, At, MemoriesSplit, SeenMemories
    <3>2. last \in memory
      BY <2>1, <2>8, <3>1, MaxIsMember DEF EvictMemory
    <3>3. memory' = memory \ {last} /\ SeenMemories' = SeenMemories
      BY <2>8 DEF EvictMemory, SeenMemories
    <3>4. drops'.memory = drops.memory
          /\ drops'.evictedMemory = drops.evictedMemory \cup {last}
      BY <2>8 DEF EvictMemory, Cursor
    <3> HIDE DEF last
    <3> QED BY <3>2, <3>3, <3>4 DEF MemoriesSplit
  <2>9. CASE UNCHANGED vars
    BY <2>2, <2>9 DEF vars, SeenMemories
  <2> QED BY <2>3, <2>4, <2>5, <2>6, <2>7, <2>8, <2>9 DEF Next
<1> QED BY <1>1, <1>2, CursorHolds, PTL DEF Spec

\* The chunks already looked at are kept, skipped, duplicate or evicted.
LEMMA ChunksSplitHolds == Spec => []ChunksSplit
<1>1. Init => ChunksSplit
    BY DEF Init, ChunksSplit, SeenChunks, NoDrops
<1>2. Cursor /\ ChunksSplit /\ [Next]_vars => ChunksSplit'
  <2> SUFFICES ASSUME Cursor, ChunksSplit, [Next]_vars PROVE ChunksSplit'
    OBVIOUS
  <2>1. Len(input.chunks) \in Nat
    BY InputsTyped DEF Calls, Cursor
  <2>2. ASSUME UNCHANGED <<chunk, drops>>, SeenChunks' = SeenChunks
        PROVE  ChunksSplit'
    BY <2>2 DEF ChunksSplit
  <2>3. CASE FitSystem \/ EndMemory \/ TakeMessage \/ CutSystem \/ Finish
    BY <2>2, <2>3 DEF FitSystem, EndMemory, TakeMessage, CutSystem, Finish, At, Enter,
        SeenChunks
  <2>4. CASE EndHistory
    BY <2>1, <2>2, <2>4 DEF EndHistory, At, Enter, SeenChunks
  <2>5. CASE EndChunks
    BY <2>1, <2>2, <2>5 DEF EndChunks, At, Enter, SeenChunks, Cursor
  <2>6. CASE FillMemory \/ EvictMessage \/ EvictMemory
    <3>1. chunk' = chunk /\ SeenChunks' = SeenChunks
      BY <2>6 DEF FillMemory, EvictMessage, EvictMemory, At, Stay, SeenChunks
    <3>2. drops'.chunk = drops.chunk /\ drops'.duplicate = drops.duplicate
          /\ drops'.evictedChunk = drops.evictedChunk
      BY <2>6 DEF FillMemory, EvictMessage, EvictMemory, Cursor
    <3> QED BY <3>1, <3>2 DEF ChunksSplit
  <2>7. CASE DropDuplicate \/ FillChunk
    <3>1. SeenChunks = 1..(next - 1) /\ SeenChunks' = SeenChunks \cup {next}
      BY <2>7 DEF DropDuplicate, FillChunk, At, Stay, SeenChunks, Cursor
    <3>2. next \notin SeenChunks
      BY <3>1 DEF Cursor
    <3>3. \/ chunk' = chunk \cup {next} /\ drops' = drops
          \/ chunk' = chunk /\ drops' = [drops EXCEPT !.chunk = @ \cup {next}]
          \/ chunk' = chunk /\ drops' = [drops EXCEPT !.duplicate = @ \cup {next}]
      BY <2>7 DEF DropDuplicate, FillChunk
    <3>4. CASE chunk' = chunk \cup {next} /\ drops' = drops
      BY <3>1, <3>2, <3>4 DEF ChunksSplit
    <3>5. CASE chunk' = chunk /\ drops' = [drops EXCEPT !.chunk = @ \cup {next}]
      <4>1. drops'.chunk = drops.chunk \cup {next} /\ drops'.duplicate = drops.duplicate
            /\ drops'.evictedChunk = drops.evictedChunk
        BY <3>5 DEF Cursor
      <4> QED BY <3>1, <3>2, <3>5, <4>1 DEF ChunksSplit
    <3>6. CASE chunk' = chunk /\ drops' = [drops EXCEPT !.duplicate = @ \cup {next}]
      <4>1. drops'.chunk = drops.chunk /\ drops'.duplicate = drops.duplicate \cup {next}
            /\ drops'.evictedChunk = drops.evictedChunk
        BY <3>6 DEF Cursor
      <4> QED BY <3>1, <3>2, <3>6, <4>1 DEF ChunksSplit
    <3> QED BY <3>3, <3>4, <3>5, <3>6
  <2>8. CASE EvictChunk
    <3> DEFINE last == Max(chunk)
    <3>1. chunk \subseteq 1..Len(input.chunks)
      BY <2>8 DEF EvictChunk, At, ChunksSplit, SeenChunks
    <3>2. last \in chunk
      BY <2>1, <2>8, <3>1, MaxIsMember DEF EvictChunk
    <3>3. chunk' = chunk \ {last} /\ SeenChunks' = SeenChunks
      BY <2>8 DEF EvictChunk, SeenChunks
    <3>4. drops'.chunk = drops.chunk /\ drops'.duplicate = drops.duplicate
          /\ drops'.evictedChunk = drops.evictedChunk \cup {last}
      BY <2>8 DEF EvictChunk, Cursor
    <3> HIDE DEF last
    <3> QED BY <3>2, <3>3, <3>4 DEF ChunksSplit
  <2>9. CASE UNCHANGED vars
    BY <2>2, <2>9 DEF vars, SeenChunks
  <2> QED BY <2>3, <2>4, <2>5, <2>6, <2>7, <2>8, <2>9 DEF Next
<1> QED BY <1>1, <1>2, CursorHolds, PTL DEF Spec

\* Whatever the candidates and the budgets, a finished call has put each
\* memory and each chunk in the prompt or in exactly one drop list.
THEOREM EveryDropIsRecorded == Spec => []EveryDropRecorded
<1>1. Cursor /\ MemoriesSplit /\ ChunksSplit => EveryDropRecorded
  <2> SUFFICES ASSUME Cursor, MemoriesSplit, ChunksSplit, Done PROVE EveryDropRecorded
    BY DEF EveryDropRecorded
  <2>1. SeenMemories = 1..Len(input.memories) /\ SeenChunks = 1..Len(input.chunks)
    BY DEF Done, SeenMemories, SeenChunks
  <2> QED BY <2>1 DEF EveryDropRecorded, MemoriesSplit, ChunksSplit
<1> QED BY <1>1, CursorHolds, MemoriesSplitHolds, ChunksSplitHolds, PTL

(* Types.  That the tokens of the window never go below zero is the hard   *)
(* part: build_context subtracts what it once added, so there is a running *)
(* total of the window's messages, newest first, that ends in windowCost.  *)

RunningTotal(total) ==
    /\ total \in [0..window -> Nat]
    /\ total[0] = 0 /\ total[window] = windowCost
    /\ \A w \in 1..window :
           total[w] = total[w - 1] + input.history[Len(input.history) - w + 1].cost

Window ==
    /\ input \in Inputs
    /\ window \in 0..Len(input.history)
    /\ phase \in {"system", "memory", "history", "chunks"} => drops.messages = 0
    /\ drops.messages \in Nat /\ window + drops.messages <= Len(input.history)
    /\ \E total : RunningTotal(total)

Tokens == system \in Nat /\ fitted \in Nat

\* Steps that leave the window alone keep its total.
LEMMA TotalStays ==
    ASSUME Window, UNCHANGED <<input, window, windowCost>>
    PROVE  \E total : RunningTotal(total)'
<1>1. PICK total : RunningTotal(total)
  BY DEF Window
<1>2. RunningTotal(total)'
  BY <1>1 DEF RunningTotal
<1> QED BY <1>2

\* The window holds a prefix of the messages, newest first, at the sum of their costs.
LEMMA WindowHolds == Spec => []Window
<1>1. Init => Window
  <2> SUFFICES ASSUME Init PROVE Window
    OBVIOUS
  <2>1. RunningTotal([w \in {0} |-> 0])
    BY DEF Init, RunningTotal
  <2>2. Len(input.history) \in Nat
    BY InputsTyped DEF Init, Calls
  <2> QED BY <2>1, <2>2 DEF Init, Window, NoDrops
<1>2. Cursor /\ Window /\ [Next]_vars => Window'
  <2> SUFFICES ASSUME Cursor, Window, [Next]_vars PROVE Window'
    OBVIOUS
  <2>1. /\ Len(input.history) \in Nat /\ window \in Nat
        /\ \A i \in 1..Len(input.history) : input.history[i].cost \in Nat
    <3>1. input.history \in Seq(Items)
      BY InputsTyped DEF Calls, Window
    <3>2. Len(input.history) \in Nat
      BY <3>1
    <3>3. \A i \in 1..Len(input.history) : input.history[i] \in Items
      BY <3>1
    <3> QED BY <3>2, <3>3 DEF Items, Window
  <2>2. ASSUME UNCHANGED <<input, window, windowCost>>, drops'.messages = drops.messages,
               \/ phase' \in {"ceiling", "done"}
               \/ phase \in {"system", "memory", "history", "chunks"}
        PROVE  Window'
    BY <2>2, TotalStays DEF Window
  <2>3. CASE FitSystem \/ EndMemory \/ EndHistory \/ EndChunks
    BY <2>2, <2>3 DEF FitSystem, EndMemory, EndHistory, EndChunks, At, Enter
  <2>4. CASE FillMemory \/ FillChunk \/ DropDuplicate
    <3>1. drops'.messages = drops.messages
      BY <2>4 DEF FillMemory, FillChunk, DropDuplicate, Cursor
    <3> QED BY <2>2, <2>4, <3>1 DEF FillMemory, FillChunk, DropDuplicate, At, Stay
  <2>5. CASE EvictChunk \/ EvictMemory \/ CutSystem \/ Finish
    <3>1. drops'.messages = drops.messages
      BY <2>5 DEF EvictChunk, EvictMemory, CutSystem, Finish, Cursor
    <3> QED BY <2>2, <2>5, <3>1 DEF EvictChunk, EvictMemory, CutSystem, Finish, At, Enter
  <2>6. CASE TakeMessage
    <3>1. /\ window < Len(input.history) /\ window' = window + 1 /\ phase = "history"
          /\ windowCost' = windowCost + input.history[Len(input.history) - window].cost
          /\ UNCHANGED <<input, phase, drops>>
      BY <2>6 DEF TakeMessage, Older, At
    <3>2. PICK total : RunningTotal(total)
      BY DEF Window
    <3>3. windowCost \in Nat /\ windowCost' \in Nat
      <4>1. Len(input.history) - window \in 1..Len(input.history)
        BY <2>1, <3>1
      <4>2. window \in 0..window /\ total[window] = windowCost
        BY <2>1, <3>2 DEF RunningTotal
      <4>3. windowCost \in Nat
        BY <3>2, <4>2 DEF RunningTotal
      <4>4. input.history[Len(input.history) - window].cost \in Nat
        BY <2>1, <4>1
      <4> QED BY <3>1, <4>3, <4>4
    <3>4. PICK longer : /\ longer \in [0..window + 1 -> Nat]
                        /\ longer[window + 1] = windowCost'
                        /\ \A w \in 0..window : longer[w] = total[w]
      <4> DEFINE f == [w \in 0..window + 1 |-> IF w = window + 1 THEN windowCost' ELSE total[w]]
      <4>1. /\ f \in [0..window + 1 -> Nat]
            /\ f[window + 1] = windowCost'
            /\ \A w \in 0..window : f[w] = total[w]
        BY <2>1, <3>2, <3>3 DEF RunningTotal
      <4> HIDE DEF f
      <4> QED BY <4>1
    <3>5. longer[0] = 0
      BY <2>1, <3>2, <3>4 DEF RunningTotal
    <3>6. ASSUME NEW w \in 1..window + 1
          PROVE  longer[w] = longer[w - 1] + input.history[Len(input.history) - w + 1].cost
      <4>1. CASE w = window + 1
        <5>1. /\ longer[w] = windowCost' /\ w - 1 = window
              /\ Len(input.history) - w + 1 = Len(input.history) - window
          BY <2>1, <3>4, <4>1
        <5>2. longer[window] = windowCost
          BY <2>1, <3>2, <3>4 DEF RunningTotal
        <5> QED BY <3>1, <5>1, <5>2
      <4>2. CASE w # window + 1
        <5>1. w \in 1..window /\ w - 1 \in 0..window /\ w \in 0..window
          BY <2>1, <4>2
        <5>2. total[w] = total[w - 1] + input.history[Len(input.history) - w + 1].cost
          BY <3>2, <5>1 DEF RunningTotal
        <5> QED BY <3>4, <5>1, <5>2
      <4> QED BY <4>1, <4>2
    <3>7. RunningTotal(longer)'
      BY <3>1, <3>4, <3>5, <3>6 DEF RunningTotal
    <3>8. window' \in 0..Len(input.history)
      BY <2>1, <3>1
    <3> QED BY <2>1, <3>1, <3>7, <3>8 DEF Window
  <2>7. CASE EvictMessage
    <3>1. /\ window > 0 /\ window' = window - 1 /\ phase = "ceiling" /\ phase' = phase
          /\ windowCost' = windowCost - input.history[Len(input.history) - window + 1].cost
          /\ input' = input /\ drops' = [drops EXCEPT !.messages = @ + 1]
      BY <2>7 DEF EvictMessage, At
    <3>2. PICK total : RunningTotal(total)
      BY DEF Window
    <3>3. PICK shorter : /\ shorter \in [0..window - 1 -> Nat]
                         /\ \A w \in 0..window - 1 : shorter[w] = total[w] /\ total[w] \in Nat
      <4> DEFINE f == [w \in 0..window - 1 |-> total[w]]
      <4>1. /\ f \in [0..window - 1 -> Nat]
            /\ \A w \in 0..window - 1 : f[w] = total[w] /\ total[w] \in Nat
        BY <2>1, <3>2 DEF RunningTotal
      <4> HIDE DEF f
      <4> QED BY <4>1
    <3>4. windowCost' = total[window - 1]
      <4>1. window \in 1..window /\ window - 1 \in 0..window - 1
        BY <2>1, <3>1
      <4>2. total[window] = total[window - 1]
                              + input.history[Len(input.history) - window + 1].cost
        BY <3>2, <4>1 DEF RunningTotal
      <4>3. Len(input.history) - window + 1 \in 1..Len(input.history)
        BY <2>1, <3>1 DEF Window
      <4>4. input.history[Len(input.history) - window + 1].cost \in Nat
        BY <2>1, <4>3
      <4>5. total[window - 1] \in Nat /\ total[window] = windowCost
        BY <3>2, <3>3, <4>1 DEF RunningTotal
      <4> QED BY <3>1, <4>2, <4>4, <4>5
    <3>5. ASSUME NEW w \in 1..window - 1
          PROVE  shorter[w] = shorter[w - 1] + input.history[Len(input.history) - w + 1].cost
      <4>1. w \in 1..window /\ w - 1 \in 0..window - 1 /\ w \in 0..window - 1
        BY <2>1
      <4> QED BY <3>2, <3>3, <4>1 DEF RunningTotal
    <3>6. 0 \in 0..window - 1 /\ window - 1 \in 0..window - 1
      BY <2>1, <3>1
    <3>7. RunningTotal(shorter)'
      BY <3>1, <3>2, <3>3, <3>4, <3>5, <3>6 DEF RunningTotal
    <3>8. drops'.messages = drops.messages + 1
      BY <3>1 DEF Cursor
    <3>9. window' \in 0..Len(input.history) /\ drops'.messages \in Nat
          /\ window' + drops'.messages <= Len(input.history)
      BY <2>1, <3>1, <3>8 DEF Window
    <3> QED BY <3>1, <3>7, <3>9 DEF Window
  <2>8. CASE UNCHANGED vars
    BY <2>8, TotalStays DEF vars, Window
  <2> QED BY <2>3, <2>4, <2>5, <2>6, <2>7, <2>8 DEF Next
<1> QED BY <1>1, <1>2, CursorHolds, PTL DEF Spec

\* What is left of a text costs no less than nothing, whatever the limit.
LEMMA FittedTyped ==
    ASSUME NEW cost \in Nat, NEW limit, NEW left \in Fitted(cost, limit)
    PROVE  left \in Nat
BY CostsTyped DEF Fitted

\* The system prompt is only ever cut.
LEMMA TokensHold == Spec => []Tokens
<1>1. Init => Tokens
  BY InputsTyped DEF Init, Tokens, Calls
<1>2. Tokens /\ [Next]_vars => Tokens'
  <2> SUFFICES ASSUME Tokens, [Next]_vars PROVE Tokens'
    OBVIOUS
  <2>1. CASE FitSystem
    BY <2>1, FittedTyped DEF FitSystem, Tokens
  <2>2. CASE CutSystem
    BY <2>2, FittedTyped DEF CutSystem, Tokens
  <2>3. CASE ~FitSystem /\ ~CutSystem
    BY <2>3 DEF Next, Tokens, vars, FillMemory, EndMemory, TakeMessage, EndHistory,
        DropDuplicate, FillChunk, EndChunks, EvictMessage, EvictChunk, EvictMemory, Finish
  <2> QED BY <2>1, <2>2, <2>3
<1> QED BY <1>1, <1>2, PTL DEF Spec

\* build_context's locals keep their types: in particular no count of tokens goes
\* below zero and no rank is outside the candidates.
THEOREM TypeCorrect == Spec => []TypeOK
<1>1. Cursor /\ MemoriesSplit /\ ChunksSplit /\ Window /\ Tokens => TypeOK
  <2> SUFFICES ASSUME Cursor, MemoriesSplit, ChunksSplit, Window, Tokens PROVE TypeOK
    OBVIOUS
  <2>1. /\ Len(input.memories) \in Nat /\ Len(input.chunks) \in Nat
        /\ Len(input.history) \in Nat
    BY InputsTyped DEF Calls, Cursor
  <2>2. SeenMemories \subseteq 1..Len(input.memories)
    BY <2>1 DEF SeenMemories, Cursor
  <2>3. SeenChunks \subseteq 1..Len(input.chunks)
    BY <2>1 DEF SeenChunks, Cursor
  <2>4. /\ memory \subseteq 1..Len(input.memories)
        /\ drops.memory \subseteq 1..Len(input.memories)
        /\ drops.evictedMemory \subseteq 1..Len(input.memories)
    BY <2>2 DEF MemoriesSplit
  <2>5. /\ chunk \subseteq 1..Len(input.chunks)
        /\ drops.chunk \subseteq 1..Len(input.chunks)
        /\ drops.duplicate \subseteq 1..Len(input.chunks)
        /\ drops.evictedChunk \subseteq 1..Len(input.chunks)
    BY <2>3 DEF ChunksSplit
  <2>6. windowCost \in Nat
    BY DEF Window, RunningTotal
  <2>7. drops.messages \in 0..Len(input.history)
    BY <2>1 DEF Window
  <2> QED BY <2>4, <2>5, <2>6, <2>7 DEF TypeOK, Cursor, Window, Tokens
<1> QED BY <1>1, CursorHolds, MemoriesSplitHolds, ChunksSplitHolds, WindowHolds,
           TokensHold, PTL
-------------------------------------------------------------------------------
(* The account of the sections.                                            *)

\* A rank below all others is the least, once it joins them.
LEMMA MinIsNew ==
    ASSUME NEW S \in SUBSET Int, NEW x \in Int, \A i \in S : x < i
    PROVE  Min(S \cup {x}) = x
<1>1. x \in S \cup {x} /\ \A i \in S \cup {x} : x <= i
  OBVIOUS
<1>2. \A y \in S \cup {x} : (\A i \in S \cup {x} : y <= i) => y = x
  <2> SUFFICES ASSUME NEW y \in S \cup {x}, \A i \in S \cup {x} : y <= i PROVE y = x
    OBVIOUS
  <2> QED BY <1>1
<1> QED BY <1>1, <1>2 DEF Min

\* What a call of build_context brings is counted in whole tokens.
LEMMA InputCounted ==
    ASSUME input \in Inputs
    PROVE  /\ Len(input.history) \in Nat /\ Len(input.chunks) \in Nat
           /\ Len(input.memories) \in Nat
           /\ DOMAIN CostsOf(input.history) = 1..Len(input.history)
           /\ \A i \in 1..Len(input.history) :
                  /\ CostsOf(input.history)[i] = input.history[i].cost
                  /\ CostsOf(input.history)[i] \in Nat
           /\ \A i \in 1..Len(input.chunks) : CostsOf(input.chunks)[i] \in Nat
           /\ \A i \in 1..Len(input.memories) : input.memories[i] \in Nat
           /\ input.current \in Nat /\ input.system \in Nat /\ input.unselected \in Nat
           /\ input.budget.max \in Nat /\ input.budget.recent \in Nat
           /\ input.budget.memory \in Nat /\ input.budget.chunk \in Nat
           /\ input.budget.system \in Nat /\ input.budget.overhead \in Nat
<1>1. input \in Calls
  BY InputsTyped
<1>2. /\ input.history \in Seq(Items) /\ input.chunks \in Seq(Items)
      /\ input.memories \in Seq(Nat) /\ input.current \in Nat /\ input.system \in Nat
      /\ input.unselected \in Nat /\ input.budget \in Budgets
  BY <1>1 DEF Calls
<1>3. \A i \in 1..Len(input.history) : input.history[i].cost \in Nat
  <2>1. \A i \in 1..Len(input.history) : input.history[i] \in Items
    BY <1>2
  <2> QED BY <2>1 DEF Items
<1>4. \A i \in 1..Len(input.chunks) : input.chunks[i].cost \in Nat
  <2>1. \A i \in 1..Len(input.chunks) : input.chunks[i] \in Items
    BY <1>2
  <2> QED BY <2>1 DEF Items
<1>5. \A i \in 1..Len(input.memories) : input.memories[i] \in Nat
  BY <1>2
<1>6. DOMAIN input.history = 1..Len(input.history) /\ DOMAIN input.chunks = 1..Len(input.chunks)
      /\ Len(input.history) \in Nat /\ Len(input.chunks) \in Nat
      /\ Len(input.memories) \in Nat
  BY <1>2
<1>7. \A i \in 1..Len(input.history) : CostsOf(input.history)[i] = input.history[i].cost
  BY <1>6 DEF CostsOf
<1>8. \A i \in 1..Len(input.chunks) : CostsOf(input.chunks)[i] = input.chunks[i].cost
  BY <1>6 DEF CostsOf
<1>9. DOMAIN CostsOf(input.history) = 1..Len(input.history)
  BY <1>6 DEF CostsOf
<1> QED BY <1>2, <1>3, <1>4, <1>5, <1>6, <1>7, <1>8, <1>9 DEF Budgets

\* A block costs no less than nothing, and with fewer lines it costs no more.
LEMMA BlocksShrink ==
    ASSUME input \in Inputs
    PROVE  /\ \A kept \in SUBSET (1..Len(input.memories)) :
                  /\ MemoryBlock(kept) \in Nat
                  /\ \A less \in SUBSET kept : MemoryBlock(less) <= MemoryBlock(kept)
           /\ \A kept \in SUBSET (1..Len(input.chunks)) :
                  /\ ChunkBlock(kept) \in Nat
                  /\ \A less \in SUBSET kept : ChunkBlock(less) <= ChunkBlock(kept)
<1>1. ASSUME NEW f, NEW n \in Nat, \A i \in 1..n : f[i] \in Nat,
             NEW kept \in SUBSET (1..n), NEW less \in SUBSET kept
      PROVE  SumOver(f, kept) \in Nat /\ SumOver(f, less) <= SumOver(f, kept)
             /\ SumOver(f, less) \in Nat
  <2>1. IsFiniteSet(kept)
    <3>1. IsFiniteSet(1..n)
      BY FS_Interval
    <3> QED BY <3>1, FS_Subset
  <2>2. IsFiniteSet(less) /\ less \in SUBSET (1..n)
    BY <2>1, FS_Subset
  <2>3. \A x \in kept : f[x] \in Nat
    BY <1>1
  <2>4. \A x \in less : f[x] \in Nat
    BY <1>1
  <2>5. SumFunctionOnSet(f, kept) \in Nat /\ SumFunctionOnSet(f, less) \in Nat
    BY <2>1, <2>2, <2>3, <2>4, SumTyped
  <2>6. SumFunctionOnSet(f, less) <= SumFunctionOnSet(f, kept)
    BY <2>1, <2>3, SumSubset
  <2> QED BY <2>5, <2>6 DEF SumOver
<1>2. ASSUME NEW kept \in SUBSET (1..Len(input.memories)), NEW less \in SUBSET kept
      PROVE  MemoryBlock(kept) \in Nat /\ MemoryBlock(less) <= MemoryBlock(kept)
  <2>1. SumOver(input.memories, kept) \in Nat /\ SumOver(input.memories, less) \in Nat
        /\ SumOver(input.memories, less) <= SumOver(input.memories, kept)
    BY <1>1, InputCounted
  <2> QED BY <2>1, CostsTyped DEF MemoryBlock
<1>3. ASSUME NEW kept \in SUBSET (1..Len(input.chunks)), NEW less \in SUBSET kept
      PROVE  ChunkBlock(kept) \in Nat /\ ChunkBlock(less) <= ChunkBlock(kept)
  <2> DEFINE f == CostsOf(input.chunks)
  <2>1. \A i \in 1..Len(input.chunks) : f[i] \in Nat
    BY InputCounted
  <2>2. Len(input.chunks) \in Nat
    BY InputCounted
  <2> HIDE DEF f
  <2>3. SumOver(f, kept) \in Nat /\ SumOver(f, less) \in Nat
        /\ SumOver(f, less) <= SumOver(f, kept)
    BY <1>1, <2>1, <2>2
  <2> QED BY <2>3, CostsTyped DEF ChunkBlock, f
<1> QED BY <1>2, <1>3

\* The window's tokens are those of its messages: what the ceiling subtracts is what
\* the section once added.
LEMMA WindowStaysAccounted == Spec => []WindowAccounted
<1> DEFINE length == Len(input.history)
           f == CostsOf(input.history)
<1>1. Init => WindowAccounted
  <2> SUFFICES ASSUME Init PROVE WindowAccounted
    OBVIOUS
  <2>1. length \in Nat
    BY InputCounted DEF Init
  <2>2. (length - window + 1)..length = {}
    BY <2>1 DEF Init
  <2> QED BY <2>2, SumEmpty DEF Init, WindowAccounted, SumOver
<1>2. TypeOK /\ WindowAccounted /\ [Next]_vars => WindowAccounted'
  <2> SUFFICES ASSUME TypeOK, WindowAccounted, [Next]_vars PROVE WindowAccounted'
    OBVIOUS
  <2>1. /\ length \in Nat /\ window \in 0..length /\ windowCost \in Nat
        /\ \A i \in 1..length : f[i] = input.history[i].cost /\ f[i] \in Nat
    BY InputCounted DEF TypeOK
  <2>2. windowCost = SumFunctionOnSet(f, (length - window + 1)..length)
    BY DEF WindowAccounted, SumOver
  <2>3. ASSUME UNCHANGED <<input, window, windowCost>> PROVE WindowAccounted'
    BY <2>3 DEF WindowAccounted
  <2>4. CASE TakeMessage
    <3> DEFINE S == (length - window + 1)..length
               x == length - window
    <3>1. input' = input /\ window' = window + 1 /\ windowCost' = windowCost + f[x]
          /\ window < length
      BY <2>1, <2>4 DEF TakeMessage, Older
    <3>2. (length - window' + 1)..length = S \cup {x} /\ x \notin S /\ x \in 1..length
          /\ S \subseteq 1..length
      BY <2>1, <3>1
    <3>3. IsFiniteSet(S)
      BY <2>1, FS_Interval
    <3>4. \A y \in S \cup {x} : f[y] \in Int
      BY <2>1, <3>2
    <3>5. windowCost = SumFunctionOnSet(f, S)
      BY <2>2
    <3> HIDE DEF S, x, f
    <3>6. SumFunctionOnSet(f, S \cup {x}) = SumFunctionOnSet(f, S) + f[x]
      BY <3>2, <3>3, <3>4, SumAdd
    <3>7. windowCost' = SumFunctionOnSet(f, (length - window' + 1)..length)
      BY <3>1, <3>2, <3>5, <3>6
    <3> QED BY <3>1, <3>7 DEF WindowAccounted, SumOver, f
  <2>5. CASE EvictMessage
    <3> DEFINE S == (length - window + 1)..length
               x == length - window + 1
    <3>1. input' = input /\ window' = window - 1 /\ windowCost' = windowCost - f[x]
          /\ window > 0
      BY <2>1, <2>5 DEF EvictMessage
    <3>2. (length - window' + 1)..length = S \ {x} /\ x \in S /\ S \subseteq 1..length
      BY <2>1, <3>1
    <3>3. IsFiniteSet(S) /\ IsFiniteSet(S \ {x})
      <4>1. IsFiniteSet(S)
        BY <2>1, FS_Interval
      <4> HIDE DEF S, x
      <4> QED BY <4>1, FS_RemoveElement
    <3>4. \A y \in S : f[y] \in Int
      BY <2>1, <3>2
    <3>5. windowCost = SumFunctionOnSet(f, S)
      BY <2>2
    <3> HIDE DEF S, x, f
    <3>6. SumFunctionOnSet(f, S) = f[x] + SumFunctionOnSet(f, S \ {x})
      BY <3>2, <3>3, <3>4, SumRemove
    <3>7. f[x] \in Int /\ SumFunctionOnSet(f, S \ {x}) \in Int
      BY <3>2, <3>3, <3>4, SumTyped
    <3>8. windowCost' = SumFunctionOnSet(f, (length - window' + 1)..length)
      <4>1. \A a, b \in Int : (a + b) - a = b
        OBVIOUS
      <4>2. windowCost' = (f[x] + SumFunctionOnSet(f, S \ {x})) - f[x]
        BY <3>1, <3>5, <3>6
      <4> QED BY <3>2, <3>7, <4>1, <4>2
    <3> QED BY <3>1, <3>8 DEF WindowAccounted, SumOver, f
  <2>6. CASE FitSystem \/ FillMemory \/ EndMemory \/ EndHistory \/ DropDuplicate \/ FillChunk
             \/ EndChunks \/ EvictChunk \/ EvictMemory \/ CutSystem \/ Finish
    BY <2>3, <2>6 DEF FitSystem, FillMemory, EndMemory, EndHistory, DropDuplicate, FillChunk,
        EndChunks, EvictChunk, EvictMemory, CutSystem, Finish
  <2>7. CASE UNCHANGED vars
    BY <2>3, <2>7 DEF vars
  <2> QED BY <2>4, <2>5, <2>6, <2>7 DEF Next
<1> QED BY <1>1, <1>2, TypeCorrect, PTL DEF Spec

\* What is left of a text is within its limit, if the marker is, and is no dearer
\* than the text or the marker.
LEMMA FittedBound ==
    ASSUME NEW cost \in Nat, NEW limit \in Int, NEW left \in Fitted(cost, limit)
    PROVE  /\ left <= cost \/ left = MarkerCost
           /\ limit >= 0 /\ MarkerCost <= limit => left <= limit
BY CostsTyped DEF Fitted

\* What the prompt costs is a whole number.
LEMMA TotalTyped ==
    ASSUME TypeOK
    PROVE  Total \in Nat
<1>1. /\ MemoryBlock(memory) \in Nat /\ ChunkBlock(chunk) \in Nat /\ system \in Nat
      /\ windowCost \in Nat /\ window \in Nat /\ input.current \in Nat
      /\ input.budget.overhead \in Nat
  BY BlocksShrink, InputCounted DEF TypeOK
<1>2. /\ Present(system) \in Nat /\ Nonempty(memory) \in Nat /\ Nonempty(chunk) \in Nat
  BY DEF Present, Nonempty
<1>3. \A a, b \in Nat : a * b \in Nat
  OBVIOUS
<1>4. input.budget.overhead
          * (Present(system) + Nonempty(memory) + Nonempty(chunk) + window + 1) \in Nat
  <2>1. Present(system) + Nonempty(memory) + Nonempty(chunk) + window + 1 \in Nat
    BY <1>1, <1>2
  <2> QED BY <1>1, <1>3, <2>1
<1> QED BY <1>1, <1>4 DEF Total, PromptTokens

\* No section is ever over what the budget gives it.
LEMMA SectionsStayWithin == Spec => []SectionBudgetsHold
<1>1. Init => SectionBudgetsHold
  BY InputCounted DEF Init, SectionBudgetsHold, MemoryBlock, ChunkBlock
<1>2. TypeOK /\ SectionBudgetsHold /\ [Next]_vars => SectionBudgetsHold'
  <2> SUFFICES ASSUME TypeOK, SectionBudgetsHold, [Next]_vars PROVE SectionBudgetsHold'
    OBVIOUS
  <2>1. ASSUME UNCHANGED <<input, memory>> PROVE MemoryBlock(memory)' = MemoryBlock(memory)
    BY <2>1 DEF MemoryBlock
  <2>2. ASSUME UNCHANGED <<input, chunk>> PROVE ChunkBlock(chunk)' = ChunkBlock(chunk)
    BY <2>2 DEF ChunkBlock
  <2>3. ASSUME UNCHANGED <<input, memory, chunk, window, windowCost, system>>,
               phase' = "system" => phase = "system", phase = "system" => phase' = phase
        PROVE  SectionBudgetsHold'
    BY <2>1, <2>2, <2>3 DEF SectionBudgetsHold
  <2>4. CASE FitSystem
    <3>1. system' \in Fitted(system, input.budget.system)
          /\ UNCHANGED <<input, memory, chunk, window, windowCost>>
      BY <2>4 DEF FitSystem
    <3>2. MarkerCost <= input.budget.system => system' <= input.budget.system
      BY <3>1, FittedBound, InputCounted DEF TypeOK
    <3> QED BY <2>1, <2>2, <3>1, <3>2 DEF SectionBudgetsHold
  <2>5. CASE FillMemory
    <3>1. /\ UNCHANGED <<input, chunk, window, windowCost, system, phase>>
          /\ memory' = memory \/ /\ memory' = memory \cup {next}
                                 /\ MemoryBlock(memory \cup {next}) <= input.budget.memory
      BY <2>5 DEF FillMemory, Stay
    <3>2. MemoryBlock(memory)' <= input.budget.memory
      BY <3>1 DEF SectionBudgetsHold, MemoryBlock
    <3> QED BY <2>2, <3>1, <3>2 DEF SectionBudgetsHold
  <2>6. CASE FillChunk
    <3>1. /\ UNCHANGED <<input, memory, window, windowCost, system, phase>>
          /\ chunk' = chunk \/ /\ chunk' = chunk \cup {next}
                               /\ ChunkBlock(chunk \cup {next}) <= input.budget.chunk
      BY <2>6 DEF FillChunk, Stay
    <3>2. ChunkBlock(chunk)' <= input.budget.chunk
      BY <3>1 DEF SectionBudgetsHold, ChunkBlock
    <3> QED BY <2>1, <3>1, <3>2 DEF SectionBudgetsHold
  <2>7. CASE TakeMessage
    <3>1. /\ UNCHANGED <<input, memory, chunk, system, phase>>
          /\ window' = window + 1 /\ windowCost' = windowCost + Older.cost
          /\ window > 0 => windowCost + Older.cost <= input.budget.recent
      BY <2>7 DEF TakeMessage, MessageFits
    <3>2. window' > 1 => windowCost' <= input.budget.recent
      BY <3>1 DEF TypeOK
    <3> QED BY <2>1, <2>2, <3>1, <3>2 DEF SectionBudgetsHold
  <2>8. CASE EvictMessage
    <3> DEFINE x == Len(input.history) - window + 1
    <3>1. /\ UNCHANGED <<input, memory, chunk, system, phase>>
          /\ window' = window - 1 /\ windowCost' = windowCost - input.history[x].cost
          /\ window > 0
      BY <2>8 DEF EvictMessage
    <3>2. input.history[x].cost \in Nat /\ windowCost \in Nat /\ window \in Nat
      <4>1. /\ window \in 0..Len(input.history) /\ windowCost \in Nat
            /\ Len(input.history) \in Nat
            /\ \A i \in 1..Len(input.history) : input.history[i].cost \in Nat
        BY InputCounted DEF TypeOK
      <4>2. x \in 1..Len(input.history)
        BY <3>1, <4>1
      <4> HIDE DEF x
      <4> QED BY <4>1, <4>2
    <3>3. window' > 1 => windowCost' <= input.budget.recent
      <4> HIDE DEF x
      <4>1. input.budget.recent \in Nat
        BY InputCounted DEF TypeOK
      <4> QED BY <3>1, <3>2, <4>1 DEF SectionBudgetsHold
    <3> QED BY <2>1, <2>2, <3>1, <3>3 DEF SectionBudgetsHold
  <2>9. CASE EvictChunk
    <3>1. /\ UNCHANGED <<input, memory, window, windowCost, system, phase>>
          /\ chunk' \in SUBSET chunk
      BY <2>9 DEF EvictChunk
    <3>2. ChunkBlock(chunk') <= ChunkBlock(chunk) /\ ChunkBlock(chunk') \in Nat
          /\ ChunkBlock(chunk) \in Nat /\ input.budget.chunk \in Nat
      BY <3>1, BlocksShrink, InputCounted DEF TypeOK
    <3>3. ChunkBlock(chunk)' = ChunkBlock(chunk')
      BY <3>1 DEF ChunkBlock
    <3>4. ChunkBlock(chunk)' <= input.budget.chunk
      BY <3>2, <3>3 DEF SectionBudgetsHold
    <3> QED BY <2>1, <3>1, <3>4 DEF SectionBudgetsHold
  <2>10. CASE EvictMemory
    <3>1. /\ UNCHANGED <<input, chunk, window, windowCost, system, phase>>
          /\ memory' \in SUBSET memory
      BY <2>10 DEF EvictMemory
    <3>2. MemoryBlock(memory') <= MemoryBlock(memory) /\ MemoryBlock(memory') \in Nat
          /\ MemoryBlock(memory) \in Nat /\ input.budget.memory \in Nat
      BY <3>1, BlocksShrink, InputCounted DEF TypeOK
    <3>3. MemoryBlock(memory)' = MemoryBlock(memory')
      BY <3>1 DEF MemoryBlock
    <3>4. MemoryBlock(memory)' <= input.budget.memory
      BY <3>2, <3>3 DEF SectionBudgetsHold
    <3> QED BY <2>2, <3>1, <3>4 DEF SectionBudgetsHold
  <2>11. CASE CutSystem
    <3> DEFINE limit == input.budget.max - (Total - system)
    <3>1. /\ UNCHANGED <<input, memory, chunk, window, windowCost, phase>>
          /\ phase # "system" /\ system' \in Fitted(system, limit)
      BY <2>11 DEF CutSystem, At
    <3>2. limit \in Int
      <4>1. Total \in Nat
        BY TotalTyped
      <4>2. system \in Nat /\ input.budget.max \in Nat
        BY InputCounted DEF TypeOK
      <4> QED BY <4>1, <4>2
    <3>3. system' <= system \/ system' = MarkerCost
      <4> HIDE DEF limit
      <4> QED BY <3>1, <3>2, FittedBound DEF TypeOK
    <3>4. system \in Nat /\ system' \in Nat /\ input.budget.system \in Nat
      BY <3>1, FittedTyped, InputCounted DEF TypeOK
    <3>5. MarkerCost <= input.budget.system => system' <= input.budget.system
      BY <3>1, <3>3, <3>4 DEF SectionBudgetsHold
    <3> QED BY <2>1, <2>2, <3>1, <3>5 DEF SectionBudgetsHold
  <2>12. CASE EndMemory \/ EndHistory \/ DropDuplicate \/ EndChunks \/ Finish
    BY <2>3, <2>12 DEF EndMemory, EndHistory, DropDuplicate, EndChunks, Finish, At, Enter, Stay
  <2>13. CASE UNCHANGED vars
    BY <2>3, <2>13 DEF vars
  <2> QED BY <2>4, <2>5, <2>6, <2>7, <2>8, <2>9, <2>10, <2>11, <2>12, <2>13 DEF Next
<1> QED BY <1>1, <1>2, TypeCorrect, PTL DEF Spec

(* The economy of the ceiling: what it has taken out, in which order.      *)

TakenInOrder ==
    /\ phase \in {"system", "memory", "history", "chunks"} =>
           /\ drops.evictedMemory = {} /\ drops.evictedChunk = {} /\ drops.messages = 0
           /\ system = fitted
    /\ drops.evictedChunk # {} => window = 0
    /\ drops.evictedMemory # {} => window = 0 /\ chunk = {}
    /\ system # fitted => window = 0 /\ chunk = {} /\ memory = {}
    /\ \A i \in chunk, j \in drops.evictedChunk : i < j
    /\ \A i \in memory, j \in drops.evictedMemory : i < j

\* The ceiling takes the oldest message, then the lowest chunk, then the lowest memory,
\* and cuts the system prompt when nothing else is left.
LEMMA TakenInOrderHolds == Spec => []TakenInOrder
<1>1. Init => TakenInOrder
  BY DEF Init, TakenInOrder, NoDrops
<1>2. TypeOK /\ Cursor /\ TakenInOrder /\ [Next]_vars => TakenInOrder'
  <2> SUFFICES ASSUME TypeOK, Cursor, TakenInOrder, [Next]_vars PROVE TakenInOrder'
    OBVIOUS
  <2>1. Len(input.memories) \in Nat /\ Len(input.chunks) \in Nat
    BY InputCounted DEF TypeOK
  <2>2. CASE FitSystem
    BY <2>2 DEF FitSystem, At, Enter, TakenInOrder
  <2>3. CASE FillMemory \/ FillChunk \/ DropDuplicate
    <3>1. /\ phase \in {"memory", "chunks"} /\ UNCHANGED <<phase, system, fitted>>
          /\ drops'.evictedMemory = drops.evictedMemory
          /\ drops'.evictedChunk = drops.evictedChunk /\ drops'.messages = drops.messages
      BY <2>3 DEF FillMemory, FillChunk, DropDuplicate, At, Stay, Cursor
    <3> QED BY <3>1 DEF TakenInOrder
  <2>4. CASE TakeMessage
    BY <2>4 DEF TakeMessage, At, TakenInOrder
  <2>5. CASE EndMemory \/ EndHistory \/ EndChunks
    BY <2>5 DEF EndMemory, EndHistory, EndChunks, At, Enter, TakenInOrder
  <2>6. CASE EvictMessage
    <3>1. /\ phase' = "ceiling" /\ window > 0 /\ UNCHANGED <<memory, chunk, system, fitted>>
          /\ drops'.evictedMemory = drops.evictedMemory
          /\ drops'.evictedChunk = drops.evictedChunk
      BY <2>6 DEF EvictMessage, At, Cursor
    <3>2. window # 0
      BY <3>1
    <3> QED BY <3>1, <3>2 DEF TakenInOrder
  <2>7. CASE EvictChunk
    <3> DEFINE last == Max(chunk)
    <3>1. last \in chunk /\ \A i \in chunk : last >= i
      BY <2>1, <2>7, MaxIsMember DEF EvictChunk, TypeOK
    <3>2. /\ phase' = "ceiling" /\ window' = 0 /\ UNCHANGED <<memory, system, fitted>>
          /\ chunk # {} /\ chunk' = chunk \ {last}
          /\ drops'.evictedMemory = drops.evictedMemory
          /\ drops'.evictedChunk = drops.evictedChunk \cup {last}
      BY <2>7 DEF EvictChunk, At, Cursor
    <3>3. \A i \in chunk : i \in Int
      BY <2>1 DEF TypeOK
    <3> HIDE DEF last
    <3>4. \A i \in chunk', j \in drops'.evictedChunk : i < j
      BY <3>1, <3>2, <3>3 DEF TakenInOrder
    <3> QED BY <3>2, <3>4 DEF TakenInOrder
  <2>8. CASE EvictMemory
    <3> DEFINE last == Max(memory)
    <3>1. last \in memory /\ \A i \in memory : last >= i
      BY <2>1, <2>8, MaxIsMember DEF EvictMemory, TypeOK
    <3>2. /\ phase' = "ceiling" /\ window' = 0 /\ chunk' = {} /\ UNCHANGED <<system, fitted>>
          /\ memory # {} /\ memory' = memory \ {last} /\ chunk = {}
          /\ drops'.evictedMemory = drops.evictedMemory \cup {last}
          /\ drops'.evictedChunk = drops.evictedChunk
      BY <2>8 DEF EvictMemory, At, Cursor
    <3>3. \A i \in memory : i \in Int
      BY <2>1 DEF TypeOK
    <3> HIDE DEF last
    <3>4. \A i \in memory', j \in drops'.evictedMemory : i < j
      BY <3>1, <3>2, <3>3 DEF TakenInOrder
    <3> QED BY <3>2, <3>4 DEF TakenInOrder
  <2>9. CASE CutSystem
    BY <2>9 DEF CutSystem, At, TakenInOrder
  <2>10. CASE Finish
    BY <2>10 DEF Finish, At, Enter, TakenInOrder
  <2>11. CASE UNCHANGED vars
    BY <2>11 DEF vars, TakenInOrder
  <2> QED BY <2>2, <2>3, <2>4, <2>5, <2>6, <2>7, <2>8, <2>9, <2>10, <2>11 DEF Next
<1> QED BY <1>1, <1>2, TypeCorrect, CursorHolds, PTL DEF Spec

\* total_prompt_tokens of any sections of a call's evidence.
Cost(in, sys, mem, chk, win, winCost) ==
    sys + (IF mem = {} THEN 0 ELSE MemoryFrame + SumFunctionOnSet(in.memories, mem))
    + (IF chk = {} THEN 0 ELSE ChunkFrame + SumFunctionOnSet(CostsOf(in.chunks), chk))
    + winCost + in.current
    + in.budget.overhead * ((IF sys > 0 THEN 1 ELSE 0) + (IF mem = {} THEN 0 ELSE 1)
                             + (IF chk = {} THEN 0 ELSE 1) + win + 1)

MemoriesBefore == memory \cup drops.evictedMemory
ChunksBefore == chunk \cup drops.evictedChunk
Returned(w) == input.history[Len(input.history) - w].cost

\* What EvictionsNeeded says of a finished call holds from the first eviction on, and
\* of a system prompt that was cut to the marker as well.
Needed ==
    /\ drops.messages > 0 =>
           Cost(input, fitted, MemoriesBefore, ChunksBefore, window + 1, windowCost + Returned(window))
               > input.budget.max
    /\ drops.evictedChunk # {} =>
           Cost(input, fitted, MemoriesBefore, chunk \cup {Min(drops.evictedChunk)}, 0, 0)
               > input.budget.max
    /\ drops.evictedMemory # {} =>
           Cost(input, fitted, memory \cup {Min(drops.evictedMemory)}, {}, 0, 0)
               > input.budget.max
    /\ system # fitted => Cost(input, fitted, {}, {}, 0, 0) > input.budget.max

\* An empty window costs nothing.
LEMMA EmptyWindow ==
    ASSUME TypeOK, WindowAccounted, window = 0
    PROVE  windowCost = 0
<1>1. Len(input.history) \in Nat
  BY InputCounted DEF TypeOK
<1>2. (Len(input.history) - window + 1)..Len(input.history) = {}
  BY <1>1
<1> QED BY <1>2, SumEmpty DEF WindowAccounted, SumOver

\* The ceiling takes nothing out that would have fitted.
LEMMA NeededHolds == Spec => []Needed
<1>1. Init => Needed
  BY DEF Init, Needed, NoDrops
<1>2. TypeOK /\ Cursor /\ TakenInOrder /\ WindowAccounted /\ Needed /\ [Next]_vars => Needed'
  <2> SUFFICES ASSUME TypeOK, Cursor, TakenInOrder, WindowAccounted, Needed, [Next]_vars
               PROVE  Needed'
    OBVIOUS
  <2>1. /\ Len(input.memories) \in Nat /\ Len(input.chunks) \in Nat
        /\ Len(input.history) \in Nat
    BY InputCounted DEF TypeOK
  <2>2. Total = Cost(input, system, memory, chunk, window, windowCost)
    BY DEF Total, PromptTokens, Cost, MemoryBlock, ChunkBlock, Present, Nonempty, SumOver
  <2>3. ASSUME phase' \in {"memory", "history", "chunks"},
               drops'.evictedMemory = {}, drops'.evictedChunk = {}, drops'.messages = 0,
               system' = fitted'
        PROVE  Needed'
    BY <2>3 DEF Needed
  <2>4. CASE FitSystem \/ EndMemory \/ EndHistory
    BY <2>3, <2>4 DEF FitSystem, EndMemory, EndHistory, At, Enter, TakenInOrder
  <2>5. CASE FillMemory \/ FillChunk \/ DropDuplicate
    <3>1. /\ phase' \in {"memory", "chunks"} /\ UNCHANGED <<phase, system, fitted>>
          /\ drops'.evictedMemory = drops.evictedMemory
          /\ drops'.evictedChunk = drops.evictedChunk /\ drops'.messages = drops.messages
      BY <2>5 DEF FillMemory, FillChunk, DropDuplicate, At, Stay, Cursor
    <3> QED BY <2>3, <3>1 DEF TakenInOrder
  <2>6. CASE TakeMessage
    BY <2>3, <2>6 DEF TakeMessage, At, TakenInOrder
  <2>7. CASE EndChunks
    <3>1. drops'.evictedMemory = {} /\ drops'.evictedChunk = {} /\ drops'.messages = 0
          /\ system' = fitted'
      BY <2>7 DEF EndChunks, At, TakenInOrder
    <3> QED BY <3>1 DEF Needed
  <2>8. CASE EvictMessage
    <3>1. /\ UNCHANGED <<input, memory, chunk, system, fitted>> /\ window > 0
          /\ window' = window - 1
          /\ windowCost' = windowCost - input.history[Len(input.history) - window + 1].cost
          /\ drops'.evictedMemory = drops.evictedMemory
          /\ drops'.evictedChunk = drops.evictedChunk
          /\ Total > input.budget.max
      BY <2>8 DEF EvictMessage, Over, Cursor
    <3>2. /\ drops.evictedMemory = {} /\ drops.evictedChunk = {} /\ system = fitted
      <4>1. window # 0
        BY <3>1
      <4> QED BY <4>1 DEF TakenInOrder
    <3>3. Returned(window)' = input.history[Len(input.history) - window + 1].cost
      <4>1. Len(input.history) - (window - 1) = Len(input.history) - window + 1
        BY <2>1 DEF TypeOK
      <4> QED BY <3>1, <4>1 DEF Returned
    <3>4. windowCost' + Returned(window)' = windowCost /\ window' + 1 = window
      <4>1. window \in 0..Len(input.history) /\ windowCost \in Nat
            /\ \A i \in 1..Len(input.history) : input.history[i].cost \in Nat
        BY InputCounted DEF TypeOK
      <4>2. Len(input.history) - window + 1 \in 1..Len(input.history)
        BY <2>1, <3>1, <4>1
      <4>3. Returned(window)' \in Nat
        BY <3>3, <4>1, <4>2
      <4> QED BY <3>1, <3>3, <4>1, <4>3
    <3>5. MemoriesBefore' = memory /\ ChunksBefore' = chunk
      BY <3>1, <3>2 DEF MemoriesBefore, ChunksBefore
    <3>6. Cost(input', fitted', MemoriesBefore', ChunksBefore', window' + 1, windowCost' + Returned(window)')
              > input'.budget.max
      BY <2>2, <3>1, <3>2, <3>4, <3>5
    <3> QED BY <3>1, <3>2, <3>6 DEF Needed
  <2>9. CASE EvictChunk
    <3> DEFINE last == Max(chunk)
               gone == drops.evictedChunk
    <3>1. last \in chunk /\ \A i \in chunk : last >= i
      BY <2>1, <2>9, MaxIsMember DEF EvictChunk, TypeOK
    <3>2. /\ UNCHANGED <<input, memory, window, windowCost, system, fitted>>
          /\ window = 0 /\ chunk # {} /\ chunk' = chunk \ {last}
          /\ drops'.evictedMemory = drops.evictedMemory
          /\ drops'.evictedChunk = gone \cup {last} /\ drops'.messages = drops.messages
          /\ Total > input.budget.max
      BY <2>9 DEF EvictChunk, Over, Cursor
    <3>3. drops.evictedMemory = {} /\ system = fitted /\ windowCost = 0
      BY <3>2, EmptyWindow DEF TakenInOrder
    <3>4. Min(gone \cup {last}) = last
      <4>1. gone \in SUBSET (1..Len(input.chunks)) /\ chunk \in SUBSET (1..Len(input.chunks))
        BY DEF TypeOK
      <4>2. \A i \in gone : last < i
        <5> HIDE DEF last
        <5> QED BY <3>1 DEF TakenInOrder
      <4> HIDE DEF last, gone
      <4>3. gone \in SUBSET Int /\ last \in Int
        BY <2>1, <3>1, <4>1
      <4> QED BY <4>2, <4>3, MinIsNew
    <3> HIDE DEF last
    <3>5. MemoriesBefore' = memory /\ chunk' \cup {Min(drops'.evictedChunk)} = chunk
      BY <3>1, <3>2, <3>3, <3>4 DEF MemoriesBefore
    <3>6. Cost(input', fitted', MemoriesBefore', chunk' \cup {Min(drops'.evictedChunk)}, 0, 0)
              > input'.budget.max
      BY <2>2, <3>2, <3>3, <3>5
    <3>7. MemoriesBefore' = MemoriesBefore /\ ChunksBefore' = ChunksBefore
      BY <3>1, <3>2 DEF MemoriesBefore, ChunksBefore
    <3>8. Returned(window)' = Returned(window)
      BY <3>2 DEF Returned
    <3> QED BY <3>2, <3>3, <3>6, <3>7, <3>8 DEF Needed
  <2>10. CASE EvictMemory
    <3> DEFINE last == Max(memory)
               gone == drops.evictedMemory
    <3>1. last \in memory /\ \A i \in memory : last >= i
      BY <2>1, <2>10, MaxIsMember DEF EvictMemory, TypeOK
    <3>2. /\ UNCHANGED <<input, chunk, window, windowCost, system, fitted>>
          /\ window = 0 /\ chunk = {} /\ memory # {} /\ memory' = memory \ {last}
          /\ drops'.evictedMemory = gone \cup {last}
          /\ drops'.evictedChunk = drops.evictedChunk /\ drops'.messages = drops.messages
          /\ Total > input.budget.max
      BY <2>10 DEF EvictMemory, Over, Cursor
    <3>3. system = fitted /\ windowCost = 0
      BY <3>2, EmptyWindow DEF TakenInOrder
    <3>4. Min(gone \cup {last}) = last
      <4>1. gone \in SUBSET (1..Len(input.memories)) /\ memory \in SUBSET (1..Len(input.memories))
        BY DEF TypeOK
      <4>2. \A i \in gone : last < i
        <5> HIDE DEF last
        <5> QED BY <3>1 DEF TakenInOrder
      <4> HIDE DEF last, gone
      <4>3. gone \in SUBSET Int /\ last \in Int
        BY <2>1, <3>1, <4>1
      <4> QED BY <4>2, <4>3, MinIsNew
    <3> HIDE DEF last
    <3>5. memory' \cup {Min(drops'.evictedMemory)} = memory
      BY <3>1, <3>2, <3>4
    <3>6. Cost(input', fitted', memory' \cup {Min(drops'.evictedMemory)}, {}, 0, 0)
              > input'.budget.max
      BY <2>2, <3>2, <3>3, <3>5
    <3>7. MemoriesBefore' = MemoriesBefore /\ ChunksBefore' = ChunksBefore
      BY <3>1, <3>2 DEF MemoriesBefore, ChunksBefore
    <3>8. Returned(window)' = Returned(window)
      BY <3>2 DEF Returned
    <3> QED BY <3>2, <3>3, <3>6, <3>7, <3>8 DEF Needed
  <2>11. CASE CutSystem
    <3>1. /\ UNCHANGED <<input, memory, chunk, window, windowCost, drops, fitted>>
          /\ window = 0 /\ chunk = {} /\ memory = {} /\ Total > input.budget.max
      BY <2>11 DEF CutSystem, Over
    <3>2. Cost(input, fitted, {}, {}, 0, 0) > input.budget.max
      <4>1. CASE system = fitted
        <5>1. windowCost = 0
          BY <3>1, EmptyWindow
        <5> QED BY <2>2, <3>1, <4>1, <5>1
      <4>2. CASE system # fitted
        BY <4>2 DEF Needed
      <4> QED BY <4>1, <4>2
    <3>3. MemoriesBefore' = MemoriesBefore /\ ChunksBefore' = ChunksBefore /\ Returned(window)' = Returned(window)
      BY <3>1 DEF MemoriesBefore, ChunksBefore, Returned
    <3> QED BY <3>1, <3>2, <3>3 DEF Needed
  <2>12. CASE Finish \/ UNCHANGED vars
    <3>1. UNCHANGED <<input, memory, chunk, window, windowCost, drops, fitted, system>>
      BY <2>12 DEF Finish, vars
    <3>2. MemoriesBefore' = MemoriesBefore /\ ChunksBefore' = ChunksBefore /\ Returned(window)' = Returned(window)
      BY <3>1 DEF MemoriesBefore, ChunksBefore, Returned
    <3> QED BY <3>1, <3>2 DEF Needed
  <2> QED BY <2>4, <2>5, <2>6, <2>7, <2>8, <2>9, <2>10, <2>11, <2>12 DEF Next
<1> QED BY <1>1, <1>2, TypeCorrect, CursorHolds, TakenInOrderHolds, WindowStaysAccounted,
           PTL DEF Spec

\* What Needed says of every state, EvictionsNeeded says of the finished ones.
LEMMA EvictionsWereNeeded ==
    ASSUME TypeOK, TakenInOrder, Needed
    PROVE  EvictionsNeeded
<1>1. ASSUME NEW s, NEW m, NEW c, NEW w, NEW t
      PROVE  PromptTokens(s, m, c, w, t) = Cost(input, s, m, c, w, t)
  BY DEF PromptTokens, Cost, MemoryBlock, ChunkBlock, Present, Nonempty, SumOver
<1>2. system < fitted => system # fitted
  BY DEF TypeOK
<1> QED BY <1>1, <1>2 DEF EvictionsNeeded, TakenInOrder, Needed, MemoriesBefore, ChunksBefore, Returned

(* ContextStats: what the call reports of its prompt.                      *)

Spoken(in, w) == {in.history[i].text : i \in
                     {j \in (Len(in.history) - w + 1)..Len(in.history) : in.history[j].cost > 0}}

DuplicatesSaid ==
    /\ phase \in {"system", "memory", "history"} => drops.duplicate = {}
    /\ \A i \in drops.duplicate :
           input.chunks[i].text \in Spoken(input, window + drops.messages)

\* A duplicate repeats a message that the window held before the ceiling cut it.
LEMMA DuplicatesStaySaid == Spec => []DuplicatesSaid
<1>1. Init => DuplicatesSaid
  BY DEF Init, DuplicatesSaid, NoDrops
<1>2. TypeOK /\ Cursor /\ TakenInOrder /\ DuplicatesSaid /\ [Next]_vars => DuplicatesSaid'
  <2> SUFFICES ASSUME TypeOK, Cursor, TakenInOrder, DuplicatesSaid, [Next]_vars
               PROVE  DuplicatesSaid'
    OBVIOUS
  <2>1. ASSUME input' = input, drops'.duplicate = drops.duplicate,
               window' + drops'.messages = window + drops.messages,
               phase' \in {"system", "memory", "history"} => drops.duplicate = {}
        PROVE  DuplicatesSaid'
    BY <2>1 DEF DuplicatesSaid
  <2>2. CASE FitSystem \/ EndMemory \/ EndHistory \/ EndChunks \/ EvictChunk \/ EvictMemory
             \/ CutSystem \/ Finish
    <3>1. /\ UNCHANGED <<input, window>> /\ drops'.duplicate = drops.duplicate
          /\ drops'.messages = drops.messages
          /\ phase' \in {"system", "memory", "history"}
                 => phase \in {"system", "memory", "history"}
      BY <2>2 DEF FitSystem, EndMemory, EndHistory, EndChunks, EvictChunk, EvictMemory,
          CutSystem, Finish, At, Enter, Cursor
    <3> QED BY <2>1, <3>1 DEF DuplicatesSaid
  <2>3. CASE FillMemory \/ FillChunk
    <3>1. /\ UNCHANGED <<input, window, phase>> /\ drops'.duplicate = drops.duplicate
          /\ drops'.messages = drops.messages
      BY <2>3 DEF FillMemory, FillChunk, Stay, Cursor
    <3> QED BY <2>1, <3>1 DEF DuplicatesSaid
  <2>4. CASE TakeMessage
    <3>1. phase' = "history" /\ drops'.duplicate = {}
      BY <2>4 DEF TakeMessage, At, DuplicatesSaid
    <3> QED BY <3>1 DEF DuplicatesSaid
  <2>5. CASE DropDuplicate
    <3>1. /\ UNCHANGED <<input, window>> /\ drops'.duplicate = drops.duplicate \cup {next}
          /\ drops'.messages = drops.messages /\ phase' = "chunks" /\ phase = "chunks"
          /\ input.chunks[next].text \in Spoken(input, window)
      BY <2>5 DEF DropDuplicate, At, Stay, Cursor, Said, Spoken
    <3>2. window + drops.messages = window
      BY <3>1 DEF TakenInOrder, TypeOK
    <3> QED BY <3>1, <3>2 DEF DuplicatesSaid
  <2>6. CASE EvictMessage
    <3>1. /\ input' = input /\ window' = window - 1 /\ phase' = "ceiling"
          /\ drops'.duplicate = drops.duplicate /\ drops'.messages = drops.messages + 1
      BY <2>6 DEF EvictMessage, At, Cursor
    <3>2. window \in Int /\ drops.messages \in Int
      BY InputCounted DEF TypeOK
    <3>3. window' + drops'.messages = window + drops.messages
      BY <3>1, <3>2
    <3> QED BY <2>1, <3>1, <3>3
  <2>7. CASE UNCHANGED vars
    BY <2>1, <2>7 DEF vars, DuplicatesSaid
  <2> QED BY <2>2, <2>3, <2>4, <2>5, <2>6, <2>7 DEF Next
<1> QED BY <1>1, <1>2, TypeCorrect, CursorHolds, TakenInOrderHolds, PTL DEF Spec

\* A drop list is reported item for item.
LEMMA RecordsCounted ==
    ASSUME NEW kind, NEW items, IsFiniteSet(items), NEW reason
    PROVE  /\ IsFiniteSet(DropRecord(kind, items, reason))
           /\ Cardinality(DropRecord(kind, items, reason)) = Cardinality(items)
<1> DEFINE f == [i \in items |-> [kind |-> kind, rank |-> i, reason |-> reason]]
           records == DropRecord(kind, items, reason)
<1>1. f \in Bijection(items, records)
  <2>1. \A i \in items : f[i] \in records
    BY DEF DropRecord
  <2>2. \A r \in records : \E i \in items : f[i] = r
    BY DEF DropRecord
  <2>3. \A i, j \in items : f[i] = f[j] => i = j
    OBVIOUS
  <2>4. f \in [items -> records]
    BY <2>1
  <2> HIDE DEF f, records
  <2>5. f \in Injection(items, records) /\ f \in Surjection(items, records)
    BY <2>2, <2>3, <2>4 DEF Injection, IsInjective, Surjection
  <2> QED BY <2>5 DEF Bijection
<1>2. ExistsBijection(items, records)
  <2> HIDE DEF f, records
  <2> QED BY <1>1 DEF ExistsBijection
<1> HIDE DEF records
<1>3. IsFiniteSet(records) /\ Cardinality(records) = Cardinality(items)
  BY <1>2, FS_Bijection
<1> QED BY <1>3 DEF records

\* The sizes of sets that have nothing in common add up.
LEMMA DisjointCounted ==
    ASSUME NEW S, NEW T, IsFiniteSet(S), IsFiniteSet(T), S \cap T = {}
    PROVE  /\ IsFiniteSet(S \cup T)
           /\ Cardinality(S \cup T) = Cardinality(S) + Cardinality(T)
           /\ Cardinality(S) \in Nat /\ Cardinality(T) \in Nat
<1>1. Cardinality(S \cap T) = 0
  BY FS_EmptySet
<1>2. Cardinality(S) \in Nat /\ Cardinality(T) \in Nat
  BY FS_CardinalityType
<1>3. Cardinality(S \cup T) = Cardinality(S) + Cardinality(T) - Cardinality(S \cap T)
      /\ IsFiniteSet(S \cup T)
  BY FS_Union
<1> QED BY <1>1, <1>2, <1>3

\* Every candidate of a section is counted once: as selected, or under the reason of its
\* drop for a budget.
LEMMA CandidatesCounted ==
    ASSUME TypeOK, EveryDropRecorded, Done
    PROVE  LET reasons(kind) == {d \in BudgetDrops : d.kind = kind}
           IN  /\ Cardinality(memory) + (Cardinality(drops.memory)
                      + Cardinality(drops.evictedMemory)) = Len(input.memories)
               /\ Cardinality(reasons("memory"))
                      = Cardinality(drops.memory) + Cardinality(drops.evictedMemory)
               /\ Cardinality(chunk) + Cardinality(reasons("chunk")) = Len(input.chunks)
               /\ Cardinality(reasons("chunk"))
                      = (Cardinality(drops.chunk) + Cardinality(drops.evictedChunk))
                            + Cardinality(drops.duplicate)
<1> DEFINE reasons(kind) == {d \in BudgetDrops : d.kind = kind}
           M1 == DropRecord("memory", drops.memory, "memory_budget")
           M2 == DropRecord("memory", drops.evictedMemory, "budget")
           C1 == DropRecord("chunk", drops.duplicate, "duplicate_history")
           C2 == DropRecord("chunk", drops.chunk, "chunk_budget")
           C3 == DropRecord("chunk", drops.evictedChunk, "chunk_ceiling")
<1>1. /\ IsFiniteSet(1..Len(input.memories)) /\ IsFiniteSet(1..Len(input.chunks))
      /\ Cardinality(1..Len(input.memories)) = Len(input.memories)
      /\ Cardinality(1..Len(input.chunks)) = Len(input.chunks)
  <2>1. Len(input.memories) \in Nat /\ Len(input.chunks) \in Nat
    BY InputCounted DEF TypeOK
  <2>2. \A n \in Nat : IsFiniteSet(1..n) /\ Cardinality(1..n) = n
    <3>1. \A n \in Nat : IF 1 > n THEN n = 0 ELSE n - 1 + 1 = n
      OBVIOUS
    <3> QED BY <3>1, FS_Interval
  <2> QED BY <2>1, <2>2
<1>2. /\ memory \in SUBSET (1..Len(input.memories))
      /\ drops.memory \in SUBSET (1..Len(input.memories))
      /\ drops.evictedMemory \in SUBSET (1..Len(input.memories))
      /\ chunk \in SUBSET (1..Len(input.chunks))
      /\ drops.chunk \in SUBSET (1..Len(input.chunks))
      /\ drops.duplicate \in SUBSET (1..Len(input.chunks))
      /\ drops.evictedChunk \in SUBSET (1..Len(input.chunks))
  BY DEF TypeOK
<1>3. /\ IsFiniteSet(memory) /\ IsFiniteSet(drops.memory) /\ IsFiniteSet(drops.evictedMemory)
      /\ IsFiniteSet(chunk) /\ IsFiniteSet(drops.chunk) /\ IsFiniteSet(drops.duplicate)
      /\ IsFiniteSet(drops.evictedChunk)
  BY <1>1, <1>2, FS_Subset
<1>4. reasons("memory") = M1 \cup M2 /\ reasons("chunk") = C1 \cup (C2 \cup C3)
  <2>1. \A d \in M1 \cup M2 : d.kind = "memory"
    BY DEF DropRecord
  <2>2. \A d \in C1 \cup (C2 \cup C3) : d.kind = "chunk"
    BY DEF DropRecord
  <2>3. BudgetDrops = (M1 \cup M2) \cup (C1 \cup (C2 \cup C3))
    <3>1. BudgetDrops = M1 \cup M2 \cup C1 \cup C2 \cup C3
      BY DEF BudgetDrops
    <3> HIDE DEF M1, M2, C1, C2, C3
    <3> QED BY <3>1
  <2> HIDE DEF M1, M2, C1, C2, C3
  <2> QED BY <2>1, <2>2, <2>3
<1>5. M1 \cap M2 = {} /\ C1 \cap (C2 \cup C3) = {} /\ C2 \cap C3 = {}
  <2>1. \A d \in M1 : d.reason = "memory_budget"
    BY DEF DropRecord
  <2>2. \A d \in M2 : d.reason = "budget"
    BY DEF DropRecord
  <2>3. \A d \in C1 : d.reason = "duplicate_history"
    BY DEF DropRecord
  <2>4. \A d \in C2 : d.reason = "chunk_budget"
    BY DEF DropRecord
  <2>5. \A d \in C3 : d.reason = "chunk_ceiling"
    BY DEF DropRecord
  <2> HIDE DEF M1, M2, C1, C2, C3
  <2> QED BY <2>1, <2>2, <2>3, <2>4, <2>5
<1>6. /\ IsFiniteSet(M1) /\ Cardinality(M1) = Cardinality(drops.memory)
      /\ IsFiniteSet(M2) /\ Cardinality(M2) = Cardinality(drops.evictedMemory)
      /\ IsFiniteSet(C1) /\ Cardinality(C1) = Cardinality(drops.duplicate)
      /\ IsFiniteSet(C2) /\ Cardinality(C2) = Cardinality(drops.chunk)
      /\ IsFiniteSet(C3) /\ Cardinality(C3) = Cardinality(drops.evictedChunk)
  BY <1>3, RecordsCounted
<1> HIDE DEF M1, M2, C1, C2, C3
<1>7. Cardinality(M1 \cup M2) = Cardinality(drops.memory) + Cardinality(drops.evictedMemory)
  <2>1. M1 \cap M2 = {} /\ IsFiniteSet(M1) /\ IsFiniteSet(M2)
    BY <1>5, <1>6
  <2>2. Cardinality(M1 \cup M2) = Cardinality(M1) + Cardinality(M2)
    BY <2>1, DisjointCounted
  <2> QED BY <1>6, <2>2
<1>8. IsFiniteSet(C2 \cup C3)
      /\ Cardinality(C2 \cup C3) = Cardinality(drops.chunk) + Cardinality(drops.evictedChunk)
  BY <1>5, <1>6, DisjointCounted
<1>9. Cardinality(C1 \cup (C2 \cup C3))
          = Cardinality(drops.duplicate)
                + (Cardinality(drops.chunk) + Cardinality(drops.evictedChunk))
  <2> DEFINE C == C2 \cup C3
  <2>1. IsFiniteSet(C) /\ C1 \cap C = {}
    BY <1>5, <1>8
  <2> HIDE DEF C
  <2>2. Cardinality(C1 \cup C) = Cardinality(C1) + Cardinality(C)
    BY <1>6, <2>1, DisjointCounted
  <2> QED BY <1>6, <1>8, <2>2 DEF C
<1>10. Cardinality(memory) + (Cardinality(drops.memory) + Cardinality(drops.evictedMemory))
           = Len(input.memories)
  <2> DEFINE D == drops.memory \cup drops.evictedMemory
  <2>1. drops.memory \cap drops.evictedMemory = {} /\ memory \cap D = {}
        /\ memory \cup D = 1..Len(input.memories)
    BY DEF EveryDropRecorded
  <2>2. IsFiniteSet(D)
        /\ Cardinality(D) = Cardinality(drops.memory) + Cardinality(drops.evictedMemory)
    BY <1>3, <2>1, DisjointCounted
  <2> HIDE DEF D
  <2>3. Cardinality(memory \cup D) = Cardinality(memory) + Cardinality(D)
    BY <1>3, <2>1, <2>2, DisjointCounted
  <2> QED BY <1>1, <2>1, <2>2, <2>3
<1>11. Cardinality(chunk)
           + (Cardinality(drops.duplicate)
                  + (Cardinality(drops.chunk) + Cardinality(drops.evictedChunk)))
           = Len(input.chunks)
  <2> DEFINE D == drops.chunk \cup drops.evictedChunk
             E == drops.duplicate \cup D
  <2>1. /\ drops.chunk \cap drops.evictedChunk = {} /\ drops.duplicate \cap D = {}
        /\ chunk \cap E = {} /\ chunk \cup E = 1..Len(input.chunks)
    BY DEF EveryDropRecorded
  <2>2. IsFiniteSet(D)
        /\ Cardinality(D) = Cardinality(drops.chunk) + Cardinality(drops.evictedChunk)
    BY <1>3, <2>1, DisjointCounted
  <2> HIDE DEF D
  <2>3. IsFiniteSet(E) /\ Cardinality(E) = Cardinality(drops.duplicate) + Cardinality(D)
    BY <1>3, <2>1, <2>2, DisjointCounted
  <2> HIDE DEF E
  <2>4. Cardinality(chunk \cup E) = Cardinality(chunk) + Cardinality(E)
    BY <1>3, <2>1, <2>3, DisjointCounted
  <2> QED BY <1>1, <2>1, <2>2, <2>3, <2>4
<1>12. /\ Cardinality(drops.duplicate) \in Nat /\ Cardinality(drops.chunk) \in Nat
       /\ Cardinality(drops.evictedChunk) \in Nat
  BY <1>3, FS_CardinalityType
<1>13. Cardinality(reasons("memory"))
           = Cardinality(drops.memory) + Cardinality(drops.evictedMemory)
  BY <1>4, <1>7
<1>14. Cardinality(reasons("chunk"))
           = Cardinality(drops.duplicate)
                 + (Cardinality(drops.chunk) + Cardinality(drops.evictedChunk))
  BY <1>4, <1>9
<1>15. \A a, b, c \in Nat : a + (b + c) = (b + c) + a
  OBVIOUS
<1> HIDE DEF reasons
<1>16. Cardinality(reasons("chunk"))
           = (Cardinality(drops.chunk) + Cardinality(drops.evictedChunk))
                 + Cardinality(drops.duplicate)
  BY <1>12, <1>14, <1>15
<1> QED BY <1>10, <1>11, <1>13, <1>14, <1>16 DEF reasons

\* The report adds the memories the policy dropped to those the budgets did.
LEMMA ReportCounted ==
    ASSUME TypeOK, EveryDropRecorded, Done
    PROVE  LET reasons(kind) == {d \in Report : d.kind = kind}
               budget == {d \in Report : d.reason \in {"memory_budget", "budget"}}
           IN  /\ Cardinality(memory) + Cardinality(reasons("memory"))
                      = Len(input.memories) + input.unselected
               /\ Cardinality(budget)
                      = Cardinality(drops.memory) + Cardinality(drops.evictedMemory)
               /\ Cardinality(chunk) + Cardinality(reasons("chunk")) = Len(input.chunks)
               /\ Cardinality(reasons("chunk"))
                      = (Cardinality(drops.chunk) + Cardinality(drops.evictedChunk))
                            + Cardinality(drops.duplicate)
<1> DEFINE ranked == Len(input.memories)
           rest == (ranked + 1)..(ranked + input.unselected)
           dropped(kind) == {d \in BudgetDrops : d.kind = kind}
           S == SelectionDrops
           M == dropped("memory")
<1>1. ranked \in Nat /\ input.unselected \in Nat
  BY InputCounted DEF TypeOK
<1>2. IsFiniteSet(rest) /\ Cardinality(rest) = input.unselected
  <2>1. /\ ranked + 1 \in Int /\ ranked + input.unselected \in Int
        /\ IF ranked + 1 > ranked + input.unselected THEN input.unselected = 0
           ELSE (ranked + input.unselected) - (ranked + 1) + 1 = input.unselected
    BY <1>1
  <2> HIDE DEF ranked
  <2> QED BY <2>1, FS_Interval
<1>3. S = DropRecord("memory", rest, "selection")
  BY DEF SelectionDrops
<1>4. IsFiniteSet(S) /\ Cardinality(S) = input.unselected
  <2> HIDE DEF rest
  <2> QED BY <1>2, <1>3, RecordsCounted
<1>5. \A d \in S : d.kind = "memory" /\ d.reason = "selection"
  BY <1>3 DEF DropRecord
<1>6. /\ \A d \in M : d.kind = "memory" /\ d.reason \in {"memory_budget", "budget"}
      /\ \A d \in BudgetDrops : d.reason \in {"memory_budget", "budget"} => d \in M
  BY DEF BudgetDrops, DropRecord
<1>7. /\ {d \in Report : d.kind = "memory"} = S \cup M
      /\ {d \in Report : d.reason \in {"memory_budget", "budget"}} = M
      /\ {d \in Report : d.kind = "chunk"} = dropped("chunk")
      /\ S \cap M = {}
  <2>1. Report = S \cup BudgetDrops
    BY DEF Report
  <2> HIDE DEF S
  <2>2. {d \in Report : d.kind = "memory"} = S \cup M
    BY <1>5, <2>1
  <2>3. {d \in Report : d.reason \in {"memory_budget", "budget"}} = M
    <3>1. \A d \in S : d.reason \notin {"memory_budget", "budget"}
      BY <1>5
    <3>2. M \subseteq BudgetDrops
      OBVIOUS
    <3> HIDE DEF M
    <3> QED BY <1>6, <2>1, <3>1, <3>2
  <2>4. {d \in Report : d.kind = "chunk"} = dropped("chunk")
    BY <1>5, <2>1
  <2>5. S \cap M = {}
    <3> HIDE DEF M
    <3> QED BY <1>5, <1>6
  <2> QED BY <2>2, <2>3, <2>4, <2>5
<1>8. /\ Cardinality(memory) + (Cardinality(drops.memory)
             + Cardinality(drops.evictedMemory)) = ranked
      /\ Cardinality(M) = Cardinality(drops.memory) + Cardinality(drops.evictedMemory)
      /\ Cardinality(chunk) + Cardinality(dropped("chunk")) = Len(input.chunks)
      /\ Cardinality(dropped("chunk"))
             = (Cardinality(drops.chunk) + Cardinality(drops.evictedChunk))
                   + Cardinality(drops.duplicate)
  BY CandidatesCounted
<1>9. IsFiniteSet(M) /\ IsFiniteSet(memory)
  <2>1. IsFiniteSet(1..ranked)
    BY <1>1, FS_Interval
  <2>2. IsFiniteSet(memory) /\ IsFiniteSet(drops.memory) /\ IsFiniteSet(drops.evictedMemory)
    <3>1. /\ memory \in SUBSET (1..ranked) /\ drops.memory \in SUBSET (1..ranked)
          /\ drops.evictedMemory \in SUBSET (1..ranked)
      BY DEF TypeOK
    <3> HIDE DEF ranked
    <3> QED BY <2>1, <3>1, FS_Subset
  <2> DEFINE M1 == DropRecord("memory", drops.memory, "memory_budget")
             M2 == DropRecord("memory", drops.evictedMemory, "budget")
  <2>3. IsFiniteSet(M1) /\ IsFiniteSet(M2)
    BY <2>2, RecordsCounted
  <2>4. M \subseteq M1 \cup M2
    BY DEF BudgetDrops, DropRecord
  <2> HIDE DEF M, M1, M2
  <2>5. IsFiniteSet(M1 \cup M2)
    BY <2>3, FS_Union
  <2> QED BY <2>2, <2>4, <2>5, FS_Subset
<1> HIDE DEF M, S, dropped
<1>10. Cardinality(S \cup M) = input.unselected + Cardinality(M) /\ Cardinality(M) \in Nat
  BY <1>4, <1>7, <1>9, DisjointCounted
<1>11. Cardinality(memory) \in Nat
  BY <1>9, FS_CardinalityType
<1>12. Cardinality(memory) + Cardinality(S \cup M) = ranked + input.unselected
  BY <1>1, <1>8, <1>10, <1>11
<1> QED BY <1>7, <1>8, <1>12 DEF ranked

\* What a list of prompt parts costs, and how long it is.
LEMMA PartsCost ==
    ASSUME NEW s \in Seq(Int), NEW t \in Seq(Int)
    PROVE  /\ s \o t \in Seq(Int) /\ Len(s \o t) = Len(s) + Len(t)
           /\ Everything(s \o t) = Everything(s) + Everything(t)
<1>1. s \o t \in Seq(Int) /\ Len(s \o t) = Len(s) + Len(t)
  OBVIOUS
<1>2. DOMAIN s = 1..Len(s) /\ DOMAIN t = 1..Len(t) /\ DOMAIN (s \o t) = 1..Len(s \o t)
  <2>1. \A r \in Seq(Int) : DOMAIN r = 1..Len(r)
    OBVIOUS
  <2> QED BY <1>1, <2>1
<1>3. SumFunctionOnSet(s \o t, 1..Len(s \o t))
          = SumFunctionOnSet(s, 1..Len(s)) + SumFunctionOnSet(t, 1..Len(t))
  BY SumConcat
<1> QED BY <1>1, <1>2, <1>3 DEF Everything, SumOver

\* A part that is there costs what it costs, and one that is not costs nothing.
LEMMA PartCost ==
    ASSUME NEW c \in Int, NEW there \in BOOLEAN, NEW part,
           part = IF there THEN <<c>> ELSE <<>>
    PROVE  /\ part \in Seq(Int) /\ Len(part) = (IF there THEN 1 ELSE 0)
           /\ Everything(part) = (IF there THEN c ELSE 0)
<1>1. CASE there
  <2>1. <<c>> \in Seq(Int) /\ Len(<<c>>) = 1 /\ DOMAIN <<c>> = 1..Len(<<c>>)
    OBVIOUS
  <2>2. SumFunctionOnSet(<<c>>, 1..Len(<<c>>)) = c
    BY SumOne
  <2>3. Everything(<<c>>) = c
    BY <2>1, <2>2 DEF Everything, SumOver
  <2> QED BY <1>1, <2>1, <2>3
<1>2. CASE ~there
  <2>1. << >> \in Seq(Int) /\ Len(<< >>) = 0 /\ DOMAIN << >> = {}
    OBVIOUS
  <2>2. Everything(<< >>) = 0
    BY <2>1, SumEmpty DEF Everything, SumOver
  <2> QED BY <1>2, <2>1, <2>2
<1> QED BY <1>1, <1>2

\* The messages of the window, as a list of their own, cost what the section says.
LEMMA WindowCost ==
    ASSUME TypeOK, WindowAccounted
    PROVE  LET length == Len(input.history)
               part   == SubSeq(CostsOf(input.history), length - window + 1, length)
           IN  part \in Seq(Int) /\ Len(part) = window /\ Everything(part) = windowCost
<1> DEFINE length == Len(input.history)
           f == CostsOf(input.history)
           part == SubSeq(f, length - window + 1, length)
<1>1. /\ length \in Nat /\ window \in 0..length /\ \A i \in 1..length : f[i] \in Nat
      /\ DOMAIN f = 1..length
      /\ windowCost = SumFunctionOnSet(f, (length - window + 1)..length)
  BY InputCounted DEF TypeOK, WindowAccounted, SumOver
<1>2. f = [i \in 1..length |-> f[i]]
  BY <1>1 DEF CostsOf
<1> HIDE DEF f, length
<1>3. part = [i \in 1..window |-> f[(length - window) + i]]
  <2>1. 1..(length - (length - window + 1) + 1) = 1..window
    BY <1>1
  <2>2. \A i \in 1..window : length - window + 1 + i - 1 = (length - window) + i
    BY <1>1
  <2>3. part = [i \in 1..(length - (length - window + 1) + 1)
                    |-> f[length - window + 1 + i - 1]]
    BY <1>1 DEF SubSeq
  <2> HIDE DEF part
  <2> QED BY <2>1, <2>2, <2>3
<1>4. \A i \in 1..window : (length - window) + i \in 1..length
  BY <1>1
<1>5. \A i \in 1..window : part[i] = f[(length - window) + i] /\ part[i] \in Int
  <2> HIDE DEF part
  <2> QED BY <1>1, <1>3, <1>4
<1>6. part \in Seq(Int) /\ Len(part) = window /\ DOMAIN part = 1..window
  <2> HIDE DEF part
  <2>1. part \in [1..window -> Int] /\ window \in Nat
    BY <1>1, <1>3, <1>5
  <2> QED BY <2>1
<1>7. SumFunctionOnSet(part, 1..window)
          = SumFunctionOnSet(f, (length - window + 1)..(length - window + window))
  <2> DEFINE k == length - window
  <2>1. k \in Int /\ window \in Nat
    BY <1>1
  <2>2. \A i \in 1..window : part[i] = f[k + i] /\ part[i] \in Int
    BY <1>5
  <2> HIDE DEF part, k
  <2>3. SumFunctionOnSet(part, 1..window) = SumFunctionOnSet(f, (k + 1)..(k + window))
    BY ONLY <2>1, <2>2, SumShift
  <2> QED BY <2>3 DEF k
<1>8. length - window + window = length
  BY <1>1
<1> HIDE DEF part
<1>9. Everything(part) = windowCost
  BY <1>1, <1>6, <1>7, <1>8 DEF Everything, SumOver
<1> QED BY <1>6, <1>9 DEF part, f, length

\* The message list costs what the ceiling was held against.
LEMMA PromptCost ==
    ASSUME TypeOK, WindowAccounted
    PROVE  /\ Len(Prompt) = Present(system) + Nonempty(memory) + Nonempty(chunk) + window + 1
           /\ Everything(Prompt) + input.budget.overhead * Len(Prompt) = Total
<1> DEFINE length == Len(input.history)
           A == IF system > 0 THEN <<system>> ELSE <<>>
           B == IF memory # {} THEN <<MemoryBlock(memory)>> ELSE <<>>
           C == IF chunk # {} THEN <<ChunkBlock(chunk)>> ELSE <<>>
           D == SubSeq(CostsOf(input.history), length - window + 1, length)
           E == <<input.current>>
<1>1. /\ system \in Nat /\ MemoryBlock(memory) \in Nat /\ ChunkBlock(chunk) \in Nat
      /\ input.current \in Nat /\ window \in Nat /\ windowCost \in Nat
  BY BlocksShrink, InputCounted DEF TypeOK
<1>2. /\ A \in Seq(Int) /\ Len(A) = Present(system) /\ Everything(A) = system
  <2>1. A \in Seq(Int) /\ Len(A) = (IF system > 0 THEN 1 ELSE 0)
        /\ Everything(A) = (IF system > 0 THEN system ELSE 0)
    <3>1. system \in Int /\ (system > 0) \in BOOLEAN
      BY <1>1
    <3> QED BY <3>1, PartCost
  <2> HIDE DEF A
  <2> QED BY <1>1, <2>1 DEF Present
<1>3. /\ B \in Seq(Int) /\ Len(B) = Nonempty(memory) /\ Everything(B) = MemoryBlock(memory)
  <2> DEFINE c == MemoryBlock(memory)
  <2>1. c \in Int /\ (memory # {}) \in BOOLEAN
    BY <1>1
  <2>2. B \in Seq(Int) /\ Len(B) = (IF memory # {} THEN 1 ELSE 0)
        /\ Everything(B) = (IF memory # {} THEN c ELSE 0)
    <3> HIDE DEF c
    <3> QED BY <2>1, PartCost DEF c
  <2>3. memory = {} => c = 0
    BY DEF MemoryBlock
  <2> HIDE DEF B, c
  <2> QED BY <2>2, <2>3 DEF Nonempty, c
<1>4. /\ C \in Seq(Int) /\ Len(C) = Nonempty(chunk) /\ Everything(C) = ChunkBlock(chunk)
  <2> DEFINE c == ChunkBlock(chunk)
  <2>1. c \in Int /\ (chunk # {}) \in BOOLEAN
    BY <1>1
  <2>2. C \in Seq(Int) /\ Len(C) = (IF chunk # {} THEN 1 ELSE 0)
        /\ Everything(C) = (IF chunk # {} THEN c ELSE 0)
    <3> HIDE DEF c
    <3> QED BY <2>1, PartCost DEF c
  <2>3. chunk = {} => c = 0
    BY DEF ChunkBlock
  <2> HIDE DEF C, c
  <2> QED BY <2>2, <2>3 DEF Nonempty, c
<1>5. D \in Seq(Int) /\ Len(D) = window /\ Everything(D) = windowCost
  BY WindowCost
<1>6. E \in Seq(Int) /\ Len(E) = 1 /\ Everything(E) = input.current
  <2>1. input.current \in Int /\ E = IF TRUE THEN <<input.current>> ELSE <<>>
    BY <1>1
  <2> HIDE DEF E
  <2> QED BY <2>1, PartCost
<1>7. Prompt = (((A \o B) \o C) \o D) \o E
  BY DEF Prompt
<1> HIDE DEF A, B, C, D, E
<1>8. /\ A \o B \in Seq(Int) /\ Len(A \o B) = Present(system) + Nonempty(memory)
      /\ Everything(A \o B) = system + MemoryBlock(memory)
  BY <1>2, <1>3, PartsCost
<1> DEFINE AB == A \o B
           ABC == AB \o C
           ABCD == ABC \o D
<1>9. /\ ABC \in Seq(Int) /\ Len(ABC) = Present(system) + Nonempty(memory) + Nonempty(chunk)
      /\ Everything(ABC) = system + MemoryBlock(memory) + ChunkBlock(chunk)
  <2>1. /\ AB \in Seq(Int) /\ Len(AB) = Present(system) + Nonempty(memory)
        /\ Everything(AB) = system + MemoryBlock(memory)
    BY <1>8
  <2> HIDE DEF AB
  <2> QED BY <1>4, <2>1, PartsCost
<1> HIDE DEF ABC
<1>10. /\ ABCD \in Seq(Int)
       /\ Len(ABCD) = Present(system) + Nonempty(memory) + Nonempty(chunk) + window
       /\ Everything(ABCD) = system + MemoryBlock(memory) + ChunkBlock(chunk) + windowCost
  BY <1>5, <1>9, PartsCost
<1> HIDE DEF ABCD
<1>11. /\ Len(ABCD \o E) = Present(system) + Nonempty(memory) + Nonempty(chunk) + window + 1
       /\ Everything(ABCD \o E)
              = system + MemoryBlock(memory) + ChunkBlock(chunk) + windowCost + input.current
  BY <1>6, <1>10, PartsCost
<1>12. Prompt = ABCD \o E
  BY <1>7 DEF ABCD, ABC, AB
<1> QED BY <1>11, <1>12 DEF Total, PromptTokens

\* The window costs no more than the transcript, and all of it costs as much.
LEMMA TranscriptCost ==
    ASSUME TypeOK, WindowAccounted
    PROVE  LET transcript == Everything(CostsOf(input.history))
           IN  /\ transcript \in Nat /\ windowCost <= transcript
               /\ window = Len(input.history) => windowCost = transcript
<1> DEFINE length == Len(input.history)
           f == CostsOf(input.history)
           S == (length - window + 1)..length
<1>1. /\ length \in Nat /\ window \in 0..length /\ \A i \in 1..length : f[i] \in Nat
      /\ DOMAIN f = 1..length /\ windowCost = SumFunctionOnSet(f, S)
  BY InputCounted DEF TypeOK, WindowAccounted, SumOver
<1> HIDE DEF f, length
<1>2. IsFiniteSet(1..length)
  BY <1>1, FS_Interval
<1>3. S \in SUBSET (1..length) /\ (window = length => S = 1..length)
  BY <1>1
<1> HIDE DEF S
<1>4. SumFunctionOnSet(f, 1..length) \in Nat
      /\ SumFunctionOnSet(f, S) <= SumFunctionOnSet(f, 1..length)
  <2> DEFINE T == 1..length
  <2>1. IsFiniteSet(T) /\ S \in SUBSET T /\ \A x \in T : f[x] \in Nat
    BY <1>1, <1>2, <1>3
  <2> HIDE DEF T
  <2>2. SumFunctionOnSet(f, T) \in Nat /\ SumFunctionOnSet(f, S) <= SumFunctionOnSet(f, T)
    BY <2>1, SumTyped, SumSubset
  <2> QED BY <2>2 DEF T
<1>5. Everything(f) = SumFunctionOnSet(f, 1..length)
  BY <1>1 DEF Everything, SumOver
<1> QED BY <1>1, <1>3, <1>4, <1>5 DEF f, length

\* The greater of zero and a number.
LEMMA NotBelowZero ==
    ASSUME NEW k \in Int
    PROVE  Max({0, k}) = IF k > 0 THEN k ELSE 0
<1> DEFINE m == IF k > 0 THEN k ELSE 0
<1>1. m \in {0, k} /\ \A i \in {0, k} : m >= i
  OBVIOUS
<1>2. \A y \in {0, k} : (\A i \in {0, k} : y >= i) => y = m
  OBVIOUS
<1> HIDE DEF m
<1>3. Max({0, k}) = m
  BY <1>1, <1>2 DEF Max
<1> QED BY <1>3 DEF m

\* A prompt is dearer than the full context by no more than its evidence, and cheaper
\* only if it leaves messages out.
LEMMA ReferenceMet ==
    ASSUME TypeOK, WindowAccounted
    PROVE  /\ FullContextReference \in Nat
           /\ Total - (MemoryBlock(memory) + ChunkBlock(chunk))
                  - input.budget.overhead * (Nonempty(memory) + Nonempty(chunk))
                      <= FullContextReference
           /\ window = Len(input.history) => FullContextReference <= Total
<1> DEFINE length == Len(input.history)
           all == Everything(CostsOf(input.history))
           over == input.budget.overhead
           n == Nonempty(memory) + Nonempty(chunk)
           p == Present(system)
           evidence == MemoryBlock(memory) + ChunkBlock(chunk)
<1>1. /\ system \in Nat /\ evidence \in Nat /\ input.current \in Nat /\ windowCost \in Nat
      /\ window \in 0..length /\ length \in Nat /\ over \in Nat /\ n \in Nat /\ p \in Nat
  <2>1. /\ system \in Nat /\ input.current \in Nat /\ windowCost \in Nat
        /\ window \in 0..length /\ length \in Nat /\ over \in Nat
    BY InputCounted DEF TypeOK
  <2>2. MemoryBlock(memory) \in Nat /\ ChunkBlock(chunk) \in Nat
    BY BlocksShrink DEF TypeOK
  <2>3. n \in Nat /\ p \in Nat
    BY DEF Nonempty, Present
  <2> QED BY <2>1, <2>2, <2>3
<1>2. all \in Nat /\ windowCost <= all /\ (window = length => windowCost = all)
  BY TranscriptCost
<1>3. FullContextReference = system + all + input.current + over * (length + 1 + p)
  BY DEF FullContextReference
<1>4. Total = system + evidence + windowCost + input.current + over * (p + n + window + 1)
  <2>1. MemoryBlock(memory) \in Nat /\ ChunkBlock(chunk) \in Nat
    BY BlocksShrink DEF TypeOK
  <2>2. Nonempty(memory) \in Nat /\ Nonempty(chunk) \in Nat
    BY DEF Nonempty
  <2>3. p + Nonempty(memory) + Nonempty(chunk) + window + 1 = p + n + window + 1
    BY <1>1, <2>2
  <2>4. Total = system + MemoryBlock(memory) + ChunkBlock(chunk) + windowCost + input.current
                    + over * (p + n + window + 1)
    BY <2>3 DEF Total, PromptTokens
  <2> DEFINE x == over * (p + n + window + 1)
  <2>5. x \in Nat
    <3>1. \A a, b \in Nat : a * b \in Nat
      OBVIOUS
    <3>2. p + n + window + 1 \in Nat
      BY <1>1
    <3> QED BY <1>1, <3>1, <3>2
  <2> HIDE DEF x, p, n, over
  <2> QED BY <1>1, <2>1, <2>4, <2>5
<1> HIDE DEF length, all, over, n, p, evidence
<1>5. \A a, b, c \in Nat : a * (b + c) = a * b + a * c /\ a * b \in Nat
  OBVIOUS
<1> DEFINE less == over * (p + window + 1)
           more == over * (length - window)
           extra == over * n
<1>6. /\ over * (p + n + window + 1) = less + extra
      /\ over * (length + 1 + p) = less + more
      /\ less \in Nat /\ more \in Nat /\ extra \in Nat
  <2>1. p + window + 1 \in Nat /\ length - window \in Nat
        /\ p + n + window + 1 = (p + window + 1) + n
        /\ length + 1 + p = (p + window + 1) + (length - window)
    BY <1>1
  <2> QED BY <1>1, <1>5, <2>1
<1>7. window = length => more = 0
  <2>1. \A a \in Nat : a * (0) = 0
    OBVIOUS
  <2>2. window = length => length - window = 0
    BY <1>1
  <2> QED BY <1>1, <2>1, <2>2
<1> HIDE DEF less, more, extra
<1>8. FullContextReference \in Nat
  BY <1>1, <1>2, <1>3, <1>6
<1>9. Total - evidence - extra <= FullContextReference
  BY <1>1, <1>2, <1>3, <1>4, <1>6
<1>10. window = length => FullContextReference <= Total
  BY <1>1, <1>2, <1>3, <1>4, <1>6, <1>7
<1> QED BY <1>8, <1>9, <1>10 DEF length, over, n, evidence, extra

\* A finished call's ContextStats are true of its prompt.
LEMMA StatsAreTrue ==
    ASSUME TypeOK, WindowAccounted, EveryDropRecorded, DuplicatesSaid, CeilingHolds
    PROVE  StatsTrue
<1> SUFFICES ASSUME Done PROVE StatsTrue
  BY DEF StatsTrue
<1> DEFINE blocks == Nonempty(memory) + Nonempty(chunk)
           reasons(kind) == {d \in Report : d.kind = kind}
           budget == {d \in Report : d.reason \in {"memory_budget", "budget"}}
<1>1. /\ Stats.final = Everything(Prompt) + input.budget.overhead * Len(Prompt)
      /\ Stats.messages = Len(Prompt) /\ Stats.memoryBlock = MemoryBlock(memory)
      /\ Stats.chunkBlock = ChunkBlock(chunk)
      /\ Stats.selectedMemories = Cardinality(memory)
      /\ Stats.candidateMemories = Len(input.memories) + input.unselected
      /\ Stats.droppedMemories = Cardinality(drops.memory) + Cardinality(drops.evictedMemory)
      /\ Stats.selectedChunks = Cardinality(chunk)
      /\ Stats.candidateChunks = Len(input.chunks)
      /\ Stats.droppedChunks = Cardinality(drops.chunk) + Cardinality(drops.evictedChunk)
      /\ Stats.consideredMessages = Len(input.history) /\ Stats.selectedMessages = window
      /\ Stats.reference = FullContextReference
  BY DEF Stats
<1>2. Stats.final = Total /\ Total \in Nat
  BY <1>1, PromptCost, TotalTyped
<1>3. /\ Cardinality(memory) + Cardinality(reasons("memory"))
             = Len(input.memories) + input.unselected
      /\ Cardinality(budget) = Cardinality(drops.memory) + Cardinality(drops.evictedMemory)
      /\ Cardinality(chunk) + Cardinality(reasons("chunk")) = Len(input.chunks)
      /\ Cardinality(reasons("chunk"))
             = (Cardinality(drops.chunk) + Cardinality(drops.evictedChunk))
                   + Cardinality(drops.duplicate)
  BY ReportCounted
<1>4. \A i \in drops.duplicate : input.chunks[i].text \in Said(window + drops.messages)
  BY DEF DuplicatesSaid, Said, Spoken
<1>5. Stats.final - EvidenceTokens - input.budget.overhead * blocks <= Stats.reference
  BY <1>1, <1>2, ReferenceMet DEF EvidenceTokens
<1>6. Reduction(Stats.reference) > 0 => Stats.selectedMessages < Stats.consideredMessages
  <2> SUFFICES ASSUME ~(window < Len(input.history))
               PROVE  ~(Reduction(FullContextReference) > 0)
    BY <1>1
  <2>1. window = Len(input.history)
    BY InputCounted DEF TypeOK
  <2> DEFINE ref == FullContextReference
  <2>2. ref \in Nat /\ ref <= Total
    BY <2>1, ReferenceMet
  <2>3. Savings(ref) = 0
    <3>1. ref - Total \in Int /\ ~(ref - Total > 0)
      BY <1>2, <2>2
    <3> HIDE DEF ref
    <3>2. Max({0, ref - Total}) = 0
      BY <3>1, NotBelowZero
    <3> QED BY <1>2, <3>2 DEF Savings
  <2> HIDE DEF ref
  <2>4. ref # 0 => (100 * 0) \div ref = 0
    BY <2>2
  <2>5. Reduction(ref) = 0
    BY <2>3, <2>4 DEF Reduction
  <2> QED BY <2>5 DEF ref
<1>7. Exceeds => Stats.messages = 1
  <2> SUFFICES ASSUME Exceeds PROVE Len(Prompt) = 1
    BY <1>1
  <2>1. input.budget.max > 0 /\ Total > input.budget.max
    BY <1>2 DEF Exceeds
  <2>2. system = 0 /\ memory = {} /\ chunk = {} /\ window = 0
    BY <2>1 DEF CeilingHolds
  <2>3. Len(Prompt) = Present(system) + Nonempty(memory) + Nonempty(chunk) + window + 1
    BY PromptCost
  <2> QED BY <2>2, <2>3 DEF Present, Nonempty
<1> HIDE DEF blocks, reasons, budget
<1>8. /\ Stats.selectedMemories + Cardinality(reasons("memory")) = Stats.candidateMemories
      /\ Cardinality(budget) = Stats.droppedMemories
      /\ Stats.selectedChunks + Cardinality(reasons("chunk")) = Stats.candidateChunks
      /\ Cardinality(reasons("chunk")) = Stats.droppedChunks + Cardinality(drops.duplicate)
  BY <1>1, <1>3
<1> QED BY <1>2, <1>4, <1>5, <1>6, <1>7, <1>8 DEF StatsTrue, blocks, reasons, budget

\* Whatever the evidence and the budgets: the tokens build_context reports of a section
\* are those of what is in it, no section is over its budget, the ceiling takes out no
\* more than it must and in the documented order, and ContextStats and the report agree
\* with the prompt that is sent and with the memories and chunks build_context was given.
THEOREM SectionsAreAccounted == Spec => []SectionsAccounted
<1>1. TypeOK /\ WindowAccounted /\ SectionBudgetsHold /\ TakenInOrder /\ Needed
          /\ EveryDropRecorded /\ DuplicatesSaid /\ CeilingHolds => SectionsAccounted
  BY EvictionsWereNeeded, StatsAreTrue DEF SectionsAccounted
<1> QED BY <1>1, TypeCorrect, WindowStaysAccounted, SectionsStayWithin, TakenInOrderHolds,
           NeededHolds, EveryDropIsRecorded, DuplicatesStaySaid, CeilingKept, PTL
===============================================================================
