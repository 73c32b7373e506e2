-------------------------- MODULE MCConversations --------------------------
EXTENDS Conversations, TLC
CONSTANTS r1, r2, always, never
MCSymmetry == Permutations({r1, r2})
=============================================================================
