------------------------------ MODULE CodeGen ------------------------------
(***************************************************************************)
(* generate_c_code (prte-convert-help.py lines 392-428): the corpus, files *)
(* in sorted order and sections in insertion order, becomes one static     *)
(* array of { topic, content } entries per file, each content array and    *)
(* each file array closed by a NULL sentinel.  A content line becomes a C  *)
(* string literal by the replace chain of line 414.                        *)
(*                                                                         *)
(* The corpus is read as the generator walks it: each step takes the next  *)
(* file, section or content line, and the variable corpus records what was *)
(* read.  table is the generated table, its content literals kept as the   *)
(* symbols between the quotes of line 415.  What a C compiler makes of a   *)
(* literal is the reference CLiteral below.                                *)
(***************************************************************************)
EXTENDS Naturals, Sequences, PyStr

CONSTANTS Quote, Backslash, Semi, NL, N,   \* '"', '\', ';', newline, 'n'
          Contents,     \* content lines: strings of symbols
          Topics,
          MaxFiles, MaxSections, MaxLines

VARIABLES corpus,   \* Seq of files, a file a Seq of [topic, content]
          table,    \* the generated table, the same shape with C literals
          pc        \* "file", "section", "content", "done"

vars == <<corpus, table, pc>>

(* The open file and section: the last of each.                            *)
LastFile    == Len(corpus)
LastSection == Len(corpus[LastFile])

(* Append x to the content of the open section.                            *)
AddLine(t, x) ==
  [t EXCEPT ![Len(t)][Len(t[Len(t)])].content = Append(@, x)]

-----------------------------------------------------------------------------
(* A plausible bug of the escaping.                                        *)

(* Quotes left as they are.                                                *)
EscapeNoQuotes(c) ==
  PyReplace(PyReplace(c, <<NL>>, <<Backslash, N, Quote, NL, Quote>>),
            <<Backslash, Semi>>, <<Semi>>)

(* Line 414: content.replace('"','\\"').replace("\n", '\\n"\n"')          *)
(*                  .replace("\\;", ";")                                   *)
Escape(c) ==
  PyReplace(PyReplace(PyReplace(c, <<Quote>>, <<Backslash, Quote>>),
                      <<NL>>, <<Backslash, N, Quote, NL, Quote>>),
            <<Backslash, Semi>>, <<Semi>>)

-----------------------------------------------------------------------------
(***************************************************************************)
(* Actions: the loops of lines 406-426.                                    *)
(***************************************************************************)

Init ==
  /\ corpus = <<>>
  /\ table = <<>>
  /\ pc = "file"

(* Lines 406-410: the next file of sorted(parsed_data.items()).           *)
StartFile ==
  /\ pc = "file" /\ Len(corpus) < MaxFiles
  /\ corpus' = Append(corpus, <<>>)
  /\ table' = Append(table, <<>>)
  /\ pc' = "section"

(* Lines 411-412: the next section of the file opens its entry.           *)
StartSection ==
  /\ pc = "section" /\ Len(corpus[LastFile]) < MaxSections
  /\ \E t \in Topics :
       /\ corpus' = [corpus EXCEPT ![LastFile] = Append(@, [topic |-> t, content |-> <<>>])]
       /\ table'  = [table  EXCEPT ![LastFile] = Append(@, [topic |-> t, content |-> <<>>])]
  /\ pc' = "content"

(* Lines 413-415: a content line, escaped, becomes a literal.             *)
EmitContent ==
  /\ pc = "content" /\ Len(corpus[LastFile][LastSection].content) < MaxLines
  /\ \E c \in Contents :
       /\ corpus' = AddLine(corpus, c)
       /\ table'  = AddLine(table, Escape(c))
  /\ UNCHANGED pc

(* Lines 416-417: the content array is closed by NULL.                    *)
EndSection ==
  /\ pc = "content"
  /\ pc' = "section"
  /\ UNCHANGED <<corpus, table>>

(* Lines 418-422: the file's array is closed by its NULL entry.           *)
EndFile ==
  /\ pc = "section"
  /\ pc' = "file"
  /\ UNCHANGED <<corpus, table>>

(* Lines 423-428: the outer array is closed and the text returned.        *)
Finish ==
  /\ pc = "file"
  /\ pc' = "done"
  /\ UNCHANGED <<corpus, table>>

Terminated == pc = "done" /\ UNCHANGED vars

Next == StartFile \/ StartSection \/ EmitContent \/ EndSection \/ EndFile
          \/ Finish \/ Terminated

Spec == Init /\ [][Next]_vars

-----------------------------------------------------------------------------
(***************************************************************************)
(* What a C compiler reads from a string literal: the symbols up to the    *)
(* first unescaped quote, with \" \\ \n and the unknown escape \; (kept as *)
(* ';') decoded.  u is the text after the opening quote, up to and with    *)
(* the closing quote line 415 writes; the literal is well formed when that *)
(* closing quote is the one that ends it.                                  *)
(***************************************************************************)
CEscape(c) ==
  CASE c = N -> NL
    [] OTHER -> c

RECURSIVE CLiteral(_)
CLiteral(u) ==
  CASE u = <<>> -> [ok |-> FALSE, value |-> <<>>]
    [] Head(u) = Quote -> [ok |-> Tail(u) = <<>>, value |-> <<>>]
    [] Head(u) = Backslash /\ Len(u) = 1 -> [ok |-> FALSE, value |-> <<>>]
    [] Head(u) = Backslash ->
         LET r == CLiteral(Tail(Tail(u)))
         IN [r EXCEPT !.value = <<CEscape(u[2])>> \o @]
    [] OTHER ->
         LET r == CLiteral(Tail(u))
         IN [r EXCEPT !.value = <<Head(u)>> \o @]

(* spec.md section 4.7: the line itself, with the pseudo-escape '\;'       *)
(* turned into ';'.                                                        *)
Intended(c) == PyReplace(c, <<Backslash, Semi>>, <<Semi>>)

-----------------------------------------------------------------------------
(* spec.md sections 4.7 and 8: every content line of the corpus comes out  *)
(* of the generated table, as C reads it, as the line itself (with '\;'    *)
(* read as ';'), in the same file, section and place.                      *)
TableDecodes ==
  \A f \in DOMAIN table : \A s \in DOMAIN table[f] :
    \A i \in DOMAIN table[f][s].content :
      CLiteral(table[f][s].content[i] \o <<Quote>>)
        = [ok |-> TRUE, value |-> Intended(corpus[f][s].content[i])]

====
