---------------------------- MODULE MCChatSession ----------------------------
(* Small instances of ChatSession for TLC.                                 *)
EXTENDS ChatSession, TLC

HandlerSymmetry == Permutations(Handlers)

ChatAndEnd  == {"chat", "end_session"}
ChatAndKeys == {"chat", "connect", "disconnect"}
NeverFails  == {TRUE}
MayFail     == BOOLEAN
=============================================================================
