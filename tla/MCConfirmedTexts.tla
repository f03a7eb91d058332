-------------------------- MODULE MCConfirmedTexts --------------------------
EXTENDS ConfirmedTexts, TLC

\* Documents are alike, and so are the jobs of one type.
Symmetric ==
    Permutations(Documents) \cup Permutations(Preparers) \cup Permutations(Reviewers)
=============================================================================
