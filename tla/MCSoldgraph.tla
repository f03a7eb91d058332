----------------------------- MODULE MCSoldgraph ----------------------------
EXTENDS Soldgraph, TLC

\* Executions are alike.
Symmetric == Permutations(Workers)
=============================================================================
