----------------------------- MODULE MCIndexing -----------------------------
EXTENDS Indexing

CONSTANTS long, short, blank

\* A text of two chunks, one of a single chunk, one without any.
MCSize == [t \in Texts |-> CASE t = long -> 2 [] t = short -> 1 [] OTHER -> 0]
=============================================================================
