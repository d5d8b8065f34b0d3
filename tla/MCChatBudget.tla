---------------------------- MODULE MCChatBudget ----------------------------
(* Small instances of ChatBudget for TLC.                                  *)
EXTENDS ChatBudget, TLC

\* Every ceiling small enough to be reached, in sets where some are off.
SmallLimits == {[turns |-> 2, requests |-> 1, tokens |-> 3, input |-> 1],
                [turns |-> 1, requests |-> 0, tokens |-> 2, input |-> 0],
                [turns |-> 0, requests |-> 0, tokens |-> 2, input |-> 1]}

Symmetry == Permutations(Handlers) \cup Permutations(Sids)
=============================================================================
