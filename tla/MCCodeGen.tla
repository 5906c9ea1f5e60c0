----------------------------- MODULE MCCodeGen -----------------------------
(***************************************************************************)
(* Content lines for CodeGen: strings of up to two tokens.  A token is a   *)
(* plain character, a quote, a ';', the pseudo-escape '\;', and in the     *)
(* second set also a backslash that does not precede ';'.                  *)
(***************************************************************************)
EXTENDS CodeGen

CONSTANTS q, bs, semi, nl, n, z, t1

(* No help line holds a newline: parse_help_files strips each line.        *)
CleanTokens == {<<z>>, <<q>>, <<semi>>, <<bs, semi>>}
AnyTokens   == CleanTokens \cup {<<bs>>, <<bs, n>>}

Strings(T) == {<<>>} \cup T \cup {a \o b : a \in T, b \in T}

MCCleanContents == Strings(CleanTokens)
MCAnyContents   == Strings(AnyTokens)
MCTopics == {t1}
====
