--------------------------- MODULE MCSymbolCache ----------------------------
(***************************************************************************)
(* Three searches, two lists and the empty one.                            *)
(***************************************************************************)
EXTENDS SymbolCache
=============================================================================
