-------------------------------- MODULE Widths --------------------------------
(***************************************************************************)
(* The INT columns: a Go int is narrowed by int32(n), which wraps without  *)
(* an error, before a statement sees it (the mappers and repositories under *)
(* src/server/internal, and search/search.go).                             *)
(***************************************************************************)
EXTENDS Integers

CONSTANT Half            \* 2^31: a column holds -Half .. Half-1

ASSUME WidthAssumption == Half \in Nat \ {0}

Columns == -Half .. Half - 1

\* int32(n) of an int
Int32(n) == ((n + Half) % (2 * Half)) - Half

=============================================================================
