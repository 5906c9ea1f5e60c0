----------------------------- MODULE MCMain --------------------------------
(***************************************************************************)
(* Inputs for Main.                                                        *)
(*                                                                         *)
(* prte_cmd_line.h: #define lines with a one- or two-letter name, one or   *)
(* two spaces before a quoted value (empty, one letter, or with a space    *)
(* inside), optional surrounding spaces, and lines without a value,        *)
(* without quotes or without the keyword.                                  *)
(*                                                                         *)
(* The source tree: a .git directory with a help file in it, tools/ and    *)
(* schizo/prte/ with a help and a source file each, schizo/ with a source  *)
(* file, util/ with two help, a source and an unrelated file, and a help   *)
(* file at the top.  Tokens: sl the separator, T "tools", S "schizo",      *)
(* P "prte", O "ompi", g ".git", the rest plain names.                     *)
(***************************************************************************)
EXTENDS Main

CONSTANTS sp, tab, q, h, e, a, b

MCDefine == <<h, e, e, e, e, e, e>>
MCLetters == {a, b, h, e}

Key == MCDefine \o <<sp>>

MCLines ==
  {Key \o nm \o sep \o <<q>> \o v \o <<q>> \o tr :
     nm \in {<<a>>, <<a, b>>}, sep \in {<<sp>>, <<sp, sp>>},
     v \in {<<>>, <<b>>, <<a, sp, b>>}, tr \in {<<>>, <<sp>>}}
  \cup {<<sp>> \o Key \o <<a, sp, q, b, q>>,
        Key \o <<a>>,
        Key \o <<a, sp, b>>,
        <<a, sp, q, b, q>>}

CONSTANTS root, dgit, dtools, dschizo, dprte, dutil,
          sl, T, S, P, O, g, u, r, x, y, z

MCDirs == {root, dgit, dtools, dschizo, dprte, dutil}

MCParent == [d \in MCDirs \ {root} |-> IF d = dprte THEN dschizo ELSE root]

MCDirName == [d \in MCDirs |->
                CASE d = dgit -> <<g>> [] d = dtools -> <<T>> [] d = dschizo -> <<S>>
                  [] d = dprte -> <<P>> [] d = dutil -> <<u>> [] OTHER -> <<r>>]

HelpX == [kind |-> "help", name |-> <<x>>]
SrcY  == [kind |-> "src", name |-> <<y>>]

MCFiles == [d \in MCDirs |->
              CASE d \in {root, dgit} -> {HelpX}
                [] d = dschizo -> {SrcY}
                [] d \in {dtools, dprte} -> {HelpX, SrcY}
                [] d = dutil -> {HelpX, SrcY, [kind |-> "help", name |-> <<x, y>>],
                                 [kind |-> "other", name |-> <<z>>]}
                [] OTHER -> {}]

MCMarkers == {<<S, sl, P>>, <<S, sl, O>>, <<T>>}
MCSkipDirs == {<<g>>}
MCRootPath == <<r>>
====
