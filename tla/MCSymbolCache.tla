--------------------------- MODULE MCSymbolCache ---------------------------
(* Small instances of SymbolCache: two files, changes of the first.   *)
EXTENDS SymbolCache, TLC

CONSTANTS f1, f2, n1, n2

MCFileOf == [n \in Changes |-> f1]

HandlerSymmetry == Permutations(Handlers)
=============================================================================
