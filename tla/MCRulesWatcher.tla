--------------------------- MODULE MCRulesWatcher ---------------------------
(***************************************************************************)
(* Values for the constants of RulesWatcher: a rules folder with one       *)
(* subdirectory.                                                           *)
(***************************************************************************)
EXTENDS RulesWatcher, TLC

CONSTANTS top, nested, root, sub

NestedDirOf == top :> root @@ nested :> sub
=============================================================================
