---------------------------- MODULE MCWebClient ----------------------------
EXTENDS WebClient, TLC
CONSTANTS a, b, w1, w2, w3

\* Neither the conversations nor the sockets differ; only safety is checked.
Symmetry == Permutations(Convs) \cup Permutations(Sockets)
=============================================================================
