--------------------------- MODULE MCInterpControl ---------------------------
(* InterpControl on small instances.                                        *)
EXTENDS InterpControl
=============================================================================
