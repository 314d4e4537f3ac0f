---------------------------- MODULE MCJitControl ----------------------------
(* JitControl on small instances.                                          *)
EXTENDS JitControl
=============================================================================
