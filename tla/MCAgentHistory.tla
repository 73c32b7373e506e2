--------------------------- MODULE MCAgentHistory ---------------------------
(* AgentHistory for TLC. *)
EXTENDS AgentHistory

AllReplies == {"exceeded", "malformed", "quiet", "message", "failure", "thinking", "calls",
               "invalid", "confirm", "torn"}
AllAnswers == {"observation", "error", "exception", "crash"}
=============================================================================
