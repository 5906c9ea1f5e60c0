------------------------------ MODULE MCPurge ------------------------------
(***************************************************************************)
(* Purge instantiated for TLC: two help-file paths that may or may not     *)
(* share a basename, two ordinary topics and the special topic help, two   *)
(* contents so that identical and different duplicates both occur, and up *)
(* to two sections per file so that a file can mix cited and uncited ones. *)
(***************************************************************************)
EXTENDS Purge, TLC

CONSTANTS p1, p2, b1, b2, t1, t2, help, c1, c2

MCPaths     == {p1, p2}
MCBasenames == {b1, b2}
MCTopics    == {t1, t2, help}
MCSpecial   == {help}
MCContents  == {c1, c2}

(* Paths, basenames, ordinary topics and contents are only compared for   *)
(* equality, so permuting each of them is a symmetry.                      *)
MCSymmetry == Permutations(MCPaths) \cup Permutations(MCBasenames)
              \cup Permutations({t1, t2}) \cup Permutations(MCContents)
=============================================================================
