----------------------------- MODULE MCMerging -----------------------------
EXTENDS Merging

CONSTANTS head1, head2, shared1, shared2

MCPieces == {head1, head2, shared1, shared2} \cup Edits
\* 3 is a new note, a twin of 2 and alike with 1.
MCOpening ==
  [n \in Notes |-> {shared1, shared2} \cup IF n = 1 THEN {head1} ELSE {head2}]
MCReviewed == {{1, 2}}
MCSimilar == {{1, 3}}
=============================================================================
