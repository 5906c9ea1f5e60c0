----------------------------- MODULE MCSrcScan -----------------------------
(***************************************************************************)
(* SrcScan instantiated for TLC.  A line's text is any sequence of up to   *)
(* eight symbols over the quote and two words, with no two words adjacent  *)
(* (a word is a maximal run) and an even number of quotes: enough for a    *)
(* whole call -- filename literal, separator, topic literal, separator --  *)
(* on one line.  Each text occurs as a call line and as a plain line; one  *)
(* comment line stands for all, since a comment line is skipped whatever   *)
(* it holds.                                                               *)
(***************************************************************************)
EXTENDS SrcScan, TLC

CONSTANTS quote, a, b

MCWords == {a, b}

RECURSIVE Texts(_)
(* The texts of length n with no two words adjacent.                       *)
Texts(n) ==
  IF n = 0 THEN {<<>>}
  ELSE { t \o <<c>> : t \in Texts(n - 1), c \in {quote} \cup MCWords }
       \cap { t \in Seq({quote} \cup MCWords) :
                Len(t) = n /\ (n >= 2 /\ t[n] # quote => t[n - 1] = quote) }

(* A C string literal cannot run past the end of its line, so a line holds *)
(* an even number of quotes.                                               *)
LinesUpTo(max) ==
  LET texts == { t \in UNION {Texts(n) : n \in 0..max} :
                   Len(SelectSeq(t, LAMBDA c : c = quote)) % 2 = 0 }
  IN {[comment |-> FALSE, call |-> c, text |-> t] : c \in BOOLEAN, t \in texts}
     \cup {[comment |-> TRUE, call |-> FALSE, text |-> <<a>>]}

MCLines == LinesUpTo(8)

=============================================================================
