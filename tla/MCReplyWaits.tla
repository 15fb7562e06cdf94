--------------------------- MODULE MCReplyWaits ---------------------------
EXTENDS ReplyWaits, TLC

CONSTANTS main, left, right

\* Two subagents of the top-level agent.
Team == {main, left, right}
Up == [a \in Team |-> IF a = main THEN None ELSE main]

Subagents == Permutations({left, right})
===========================================================================
