---------------------------- MODULE MCHelpParse ----------------------------
(***************************************************************************)
(* HelpParse instantiated for TLC: up to two help files of up to three     *)
(* lines each, over two section names (so a header can repeat), one text, *)
(* and #include lines of the two- and three-field layouts.  Every branch of the line loop is reachable    *)
(* within three lines, and two files let citations accumulate across files.*)
(***************************************************************************)
EXTENDS HelpParse, TLC

CONSTANTS p1, p2, b1, b2, n1, n2, x, hash, k, f, t

MCPaths     == {p1, p2}
MCBasenames == {b1, b2}
MCNames     == {n1, n2}
MCTexts     == {x}
MCSymbols   == {hash, k, f, t}

(* "#include": only its '#' is ever compared, so one symbol stands for     *)
(* each of the seven letters of "include".                                 *)
Keyword == <<hash, k, k, k, k, k, k, k>>

(* #include#f#t cites (f, t); #include#t#f#t cites (f, t) too; and        *)
(* #include#f#t#f cites (t, f).                                            *)
MCIncludes ==
  {[text |-> Keyword \o <<hash, f, hash, t>>,       target |-> {<<<<f>>, <<t>>>>}],
   [text |-> Keyword \o <<hash, f, hash, t, hash, f>>, target |-> {<<<<t>>, <<f>>>>}]}

(* Distinct basenames; the #include target names a section of p2.         *)
MCBase      == (p1 :> b1) @@ (p2 :> b2)
=============================================================================
