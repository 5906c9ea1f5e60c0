----------------------------- MODULE MCToolScan -----------------------------
(***************************************************************************)
(* Usage tables for ToolScan: every row built from a short option (none   *)
(* or -a), a long option (none, --ab, --a-b, the skipped --b, or --a-      *)
(* wrapped onto a continuation row), with or without quotes, the short and *)
(* long cells joined by '|' or ' | ', and the row closed by '|' or by a    *)
(* further cell.  Each row is built from what it is meant to list.         *)
(***************************************************************************)
EXTENDS ToolScan

CONSTANTS bar, sp, dash, quote, a, b, x, b1

MCLetters == {a, b, x}
MCUsage   == <<x>>
MCSkipped == {<<b>>}
MCWords   == {<<a>>, <<a, b>>, <<a, dash, b>>, <<b>>, MCUsage}
MCBasenames == {b1}

Tails == {<<bar>>, <<bar, x, bar>>}

(* | -s<sep>"--long-" <tail>, with the options it lists.                    *)
OptRow(short, long, wrap, quoted, sep, tail) ==
  LET qt   == IF quoted THEN <<quote>> ELSE <<>>
      scel == IF short = <<>> THEN <<>> ELSE <<dash>> \o short \o sep
      lcel == IF long = <<>> THEN <<>>
              ELSE qt \o <<dash, dash>> \o long
                      \o (IF wrap THEN <<dash>> ELSE <<>>) \o qt
  IN [kind |-> "opt",
      text |-> <<bar, sp>> \o scel \o lcel \o <<sp>> \o tail,
      opts |-> (IF short = <<>> THEN <<>> ELSE <<short>>)
                 \o (IF long # <<>> /\ ~wrap /\ long \notin MCSkipped
                       THEN <<long>> ELSE <<>>),
      stash |-> IF wrap THEN long \o <<dash>> ELSE <<>>,
      rest |-> <<>>]

(* | rest <tail>: the rest of a wrapped option.                             *)
ContRow(rest, tail) ==
  [kind |-> "cont", text |-> <<bar, sp>> \o rest \o <<sp>> \o tail,
   opts |-> <<>>, stash |-> <<>>, rest |-> rest]

Shorts == {<<>>, <<a>>}

MCRows ==
  {OptRow(s, l, FALSE, FALSE, sep, t) :
     s \in Shorts, l \in {<<a, b>>, <<a, dash, b>>, <<b>>},
     sep \in {<<bar>>, <<sp, bar, sp>>}, t \in Tails}
  \cup {OptRow(s, <<a, b>>, FALSE, TRUE, <<bar>>, t) : s \in Shorts, t \in Tails}
  \cup {OptRow(<<a>>, <<>>, FALSE, FALSE, <<sp, bar, sp>>, <<bar>>)}
  \cup {OptRow(s, <<a>>, TRUE, qt, <<bar>>, <<bar>>) : s \in Shorts, qt \in BOOLEAN}
  \cup {ContRow(r, t) : r \in {<<b>>, <<a, b>>}, t \in Tails}

(* A bare '|' row, as a table's closing rule.                               *)
MCBareRows ==
  MCRows \cup {[kind |-> "cont", text |-> <<bar>>,
                opts |-> <<>>, stash |-> <<>>, rest |-> <<>>]}

====
