--------------------------- MODULE MCTranscription --------------------------
EXTENDS Transcription, TLC

\* Jobs are alike.
Symmetric == Permutations(Jobs)
=============================================================================
