--------------------------- MODULE MCPosTerminal ----------------------------
EXTENDS PosTerminal, TLC

CONSTANTS a, left, right, none

\* Two windows of one terminal, and a cashier who signs in and out of them: to a request
\* under way the token of another cashier is the same as none.
MCAgents == {a}
MCTabs == {left, right}

\* The windows do not differ.
MCSymmetry == Permutations(MCTabs)
=============================================================================
