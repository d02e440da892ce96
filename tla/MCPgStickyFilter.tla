-------------------------- MODULE MCPgStickyFilter --------------------------
(***************************************************************************)
(* Instances of PgStickyFilter for TLC.  Names and texts are only compared *)
(* for equality, so they may be permuted, the texts within their class.    *)
(***************************************************************************)
EXTENDS PgStickyFilter, TLC

CONSTANTS s1, s2, a1, a2, f1

MCNames == {s1, s2}
MCAllowed == {a1, a2}
MCSql == {a1, a2, f1}
Symmetric == Permutations(MCNames) \cup Permutations(MCAllowed)
=============================================================================
