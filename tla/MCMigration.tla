---------------------------- MODULE MCMigration -----------------------------
(* Migration files for the model checking of Migration.                      *)
EXTENDS Migration

\* Three versions in two texts each: a file that fails half way until it is
\* corrected, and one whose second text repeats an object of another file.
MCScript ==
  <<[r \in Revisions |-> IF r = 1 THEN <<"a">> ELSE <<"a", "b">>],
    [r \in Revisions |-> IF r = 1 THEN <<"c", "c">> ELSE <<"c", "d">>],
    [r \in Revisions |-> IF r = 1 THEN <<"e">> ELSE <<"b">>]>>
=============================================================================
