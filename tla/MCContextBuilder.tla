---------------------------- MODULE MCContextBuilder ----------------------------
(* Small instances of ContextBuilder for TLC: every combination of sections *)
(* and budgets that can meet a budget exactly, miss it by one or overflow.  *)
EXTENDS ContextBuilder

Messages  == {[text |-> "t", cost |-> 1], [text |-> "u", cost |-> 2]}
Histories == {<<>>, <<[text |-> "t", cost |-> 0], [text |-> "t", cost |-> 1]>>}
                 \cup [1..3 -> Messages]
Rankings  == {<<>>, <<1>>, <<1, 1>>, <<3, 1>>, <<1, 2, 1>>}
Unselected == {0, 2}
Retrieved == {<<>>, <<[text |-> "t", cost |-> 2]>>,
              <<[text |-> "t", cost |-> 1], [text |-> "v", cost |-> 1]>>,
              <<[text |-> "v", cost |-> 2], [text |-> "u", cost |-> 1]>>}

SmallInputs ==
    [system: {0, 3}, current: {2}, history: Histories, memories: Rankings,
     unselected: Unselected, chunks: Retrieved,
     budget: [max: {0, 3, 5, 9, 12}, recent: {3}, memory: {3}, chunk: {3},
              system: {2, 4}, turns: {NoTurnLimit, 0, 2}, overhead: {1}]]
=================================================================================
