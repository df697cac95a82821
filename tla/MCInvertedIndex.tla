--------------------------- MODULE MCInvertedIndex ---------------------------
(* Instances of InvertedIndex for TLC. *)
EXTENDS InvertedIndex, TLC

CONSTANTS c1, c2, u, v

(* One query of two words: two calls of it may meet at a word, stand at
   different words, or stop half-way and leave the rest to the next one. *)
MCQueries == {<<u, v>>}
=============================================================================
