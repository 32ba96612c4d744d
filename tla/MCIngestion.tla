---------------------------- MODULE MCIngestion -----------------------------
(* Initial vaults for the model checking of Ingestion.                       *)
EXTENDS Ingestion

CONSTANTS pa, pb, ca, cb

\* One note; the other path is free.
OneNote == {[p \in Paths |-> IF p = pa THEN ca ELSE NoFile]}
=============================================================================
