----------------------------- MODULE MCRowLoop -----------------------------
(* RowLoop on small instances.                                             *)
EXTENDS RowLoop
=============================================================================
