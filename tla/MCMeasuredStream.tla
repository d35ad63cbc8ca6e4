-------------------------- MODULE MCMeasuredStream --------------------------
(* MeasuredStream with texts for TLC: one and two letter words, and stop    *)
(* sequences inside a word, across words, and overlapping.                  *)
EXTENDS MeasuredStream

CONSTANTS a, b, sp

MCCharacters == {a, b, sp}
MCVocab == {<<a>>, <<a, b>>}
MCSpace == <<sp>>
MCStops == {<<b>>, <<a, sp>>, <<sp, a, sp>>}

=============================================================================
