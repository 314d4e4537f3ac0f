---------------------------- MODULE MCFuncCache ----------------------------
(* FuncCache on small instances.  Structs are interchangeable addresses.    *)
EXTENDS FuncCache, TLC

StructSymmetry == Permutations(Struct)
=============================================================================
