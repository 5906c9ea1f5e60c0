------------------------------ MODULE SrcScan ------------------------------
(***************************************************************************)
(* The source citation scanner of src/util/prte-convert-help.py (function  *)
(* parse_src_files, lines 158-238): the per-file state machine that finds  *)
(* the (help file, topic) pair of a show-help call whose string literals   *)
(* may be split over several lines.  It runs in lockstep with the scanner  *)
(* spec.md section 4.4 describes, over the same input lines.               *)
(*                                                                         *)
(* Data abstraction.  A line, after line.strip(), is a record: whether it  *)
(* starts with one of the comment prefixes of line 167, whether it holds   *)
(* one of the three call markers of line 211, and its text.  In the text   *)
(* every maximal run of characters other than '"' is one symbol (a word):  *)
(* the scanner only searches for '"' and slices between quotes, so the     *)
(* quote it finds, whether that quote is the line's last character, and    *)
(* the string between two quotes are the same as on the real line.  The    *)
(* marker is taken to come before the line's literals.                     *)
(***************************************************************************)
EXTENDS Naturals, Sequences, PyStr

CONSTANTS Q,                \* the '"' character
          Words,            \* runs of other characters
          Lines,            \* the lines a source file may contain
          ClosedLiterals,   \* TRUE: no line ends with a literal
          PendingLiteral    \* TRUE: the pending literal is on the next line

ASSUME Q \notin Words /\ ClosedLiterals \in BOOLEAN /\ PendingLiteral \in BOOLEAN

Text == Seq({Q} \cup Words)

ASSUME Lines \subseteq [comment : BOOLEAN, call : BOOLEAN, text : Text]

States == {"IDLE", "AWAIT_FILENAME", "AWAIT_TOPIC"}

VARIABLES cont_topic,      \* the topic is expected on the next line
          cont_filename,   \* the filename is expected on the next line
          filename,        \* the last filename literal read
          emitted,         \* citations appended for the last line read
          citations,       \* the citations list
          ref_state,       \* the scanner of spec.md 4.4
          ref_filename,
          ref_emitted

vars == <<cont_topic, cont_filename, filename, emitted, citations,
          ref_state, ref_filename, ref_emitted>>

-----------------------------------------------------------------------------
(***************************************************************************)
(* The searches of the code.  Every search for a closing or second quote  *)
(* passes end = -1 (lines 176, 188, 192, 195, 218, 222, 225), which leaves *)
(* the line's last character out.                                          *)
(***************************************************************************)

Open(t)      == PyFindFrom(t, Q, 0)         \* line.find('"')
Close(t, s)  == PyFind(t, Q, s + 1, -1)     \* line.find('"', s+1, -1)
(* The slice takes the quotes with the literal: line[s:e+1].               *)
LitWithQuotes(t, s, e) == PySlice(t, s, e + 1)

Lit(t, s, e) == PySlice(t, s + 1, e)        \* line[s+1:e]

(* The chain of searches the code makes on a line: the first quote s, its  *)
(* closing quote e, the next opening quote s2 and its closing quote e2.    *)
(* A search that follows a failed one is not made; its field is -1.        *)
Quotes(t) ==
  LET s  == Open(t)
      e  == IF s = -1 THEN -1 ELSE Close(t, s)
      s2 == IF e = -1 THEN -1 ELSE Close(t, e)
      e2 == IF s2 = -1 THEN -1 ELSE Close(t, s2)
  IN [s |-> s, e |-> e, s2 |-> s2, e2 |-> e2]

(* Quotes of every text of Lines, computed once.                           *)
QuotesOf == [t \in {l.text : l \in Lines} |-> Quotes(t)]

-----------------------------------------------------------------------------
(***************************************************************************)
(* The scanner of spec.md 4.4: a literal is the text between the next two  *)
(* quotes.  A line that does not carry the expected literal abandons the   *)
(* pending call and is scanned as a line read in IDLE.                     *)
(***************************************************************************)

RECURSIVE SpecLiterals(_)
SpecLiterals(t) ==
  LET s == PyFindFrom(t, Q, 0)
      e == IF s = -1 THEN -1 ELSE PyFindFrom(t, Q, s + 1)
  IN IF e = -1 THEN <<>>
     ELSE <<PySlice(t, s + 1, e)>> \o SpecLiterals(PySlice(t, e + 1, Len(t)))

(* The literals of every text of Lines, computed once.                     *)
LiteralsOf == [t \in {l.text : l \in Lines} |-> SpecLiterals(t)]

(* The result of a call line (IDLE) or of the line after a call whose      *)
(* filename is pending (AWAIT_FILENAME): both take the first two literals. *)
SpecTwoLiterals(lits) ==
  CASE Len(lits) >= 2 -> [st |-> "IDLE", f |-> lits[1], out |-> {<<lits[1], lits[2]>>}]
    [] Len(lits) = 1  -> [st |-> "AWAIT_TOPIC", f |-> lits[1], out |-> {}]
    [] OTHER          -> [st |-> "AWAIT_FILENAME", f |-> ref_filename, out |-> {}]

SpecIdle(l) ==
  IF l.call THEN SpecTwoLiterals(LiteralsOf[l.text])
  ELSE [st |-> "IDLE", f |-> ref_filename, out |-> {}]

SpecStep(l) ==
  LET lits == LiteralsOf[l.text]
  IN CASE l.comment -> [st |-> ref_state, f |-> ref_filename, out |-> {}]
       [] ref_state = "AWAIT_TOPIC" /\ lits # <<>> ->
            [st |-> "IDLE", f |-> ref_filename, out |-> {<<ref_filename, lits[1]>>}]
       [] ref_state = "AWAIT_FILENAME" /\ lits # <<>> -> SpecTwoLiterals(lits)
       [] OTHER -> SpecIdle(l)

(* The lines the project's call formatting allows in state st: with       *)
(* ClosedLiterals a literal is never the last thing on a line (a ',' or    *)
(* ')' follows it), and with PendingLiteral the line after a call whose    *)
(* topic or filename is pending carries that literal.                      *)
Conventional(st, l) ==
  /\ ClosedLiterals /\ l.text # <<>> => l.text[Len(l.text)] # Q
  /\ PendingLiteral /\ st # "IDLE" /\ ~l.comment => LiteralsOf[l.text] # <<>>

RefStep(l) ==
  LET r == SpecStep(l)
  IN /\ ref_state' = r.st
     /\ ref_filename' = r.f
     /\ ref_emitted' = r.out

-----------------------------------------------------------------------------
(***************************************************************************)
(* The code's scanner, one action per branch of the loop body.             *)
(***************************************************************************)

(* The state of spec.md 4.4 the two flags stand for.                       *)
ScanState == IF cont_topic THEN "AWAIT_TOPIC"
             ELSE IF cont_filename THEN "AWAIT_FILENAME" ELSE "IDLE"

(* Lines 174-176: the line holds a literal whose closing quote is found.   *)
TopicFound(t) == QuotesOf[t].e # -1

(* The line reaches the call-marker test of line 211: no earlier branch   *)
(* ended with continue.                                                    *)
ReachesMarkerTest(l) ==
  \/ cont_topic /\ ~TopicFound(l.text)
  \/ ~cont_topic /\ cont_filename /\ QuotesOf[l.text].s = -1
  \/ ~cont_topic /\ ~cont_filename

(* A call whose topic is not on its line leaves cont_topic unset: the     *)
(* assignment of line 231 is missing.                                      *)
CallLineNoPending(l) ==
  /\ ~l.comment /\ l.call /\ ReachesMarkerTest(l)
  /\ LET t == l.text
         s == QuotesOf[t].s
         e == QuotesOf[t].e
         s2 == QuotesOf[t].s2
         e2 == QuotesOf[t].e2
     IN \/ /\ s = -1
           /\ cont_filename' = TRUE /\ cont_topic' = FALSE
           /\ UNCHANGED filename /\ emitted' = {}
        \/ /\ s # -1 /\ e = -1
           /\ cont_filename' = FALSE /\ cont_topic' = FALSE
           /\ UNCHANGED filename /\ emitted' = {}
        \/ /\ s # -1 /\ e # -1
           /\ filename' = Lit(t, s, e)
           /\ cont_filename' = FALSE
           /\ cont_topic' = FALSE
           /\ emitted' = IF s2 # -1 /\ e2 # -1 THEN {<<Lit(t, s, e), Lit(t, s2, e2)>>} ELSE {}

(* Line 167: comment lines are skipped.                                    *)
CommentLine(l) ==
  /\ l.comment
  /\ emitted' = {}
  /\ UNCHANGED <<cont_topic, cont_filename, filename>>

(* Lines 170-183: the topic of the pending call is on this line.           *)
TopicLine(l) ==
  /\ ~l.comment /\ cont_topic /\ TopicFound(l.text)
  /\ emitted' = {<<filename, Lit(l.text, QuotesOf[l.text].s, QuotesOf[l.text].e)>>}
  /\ cont_topic' = FALSE
  /\ UNCHANGED <<cont_filename, filename>>

(* Lines 184-205: the filename of the pending call is on this line, maybe  *)
(* with its topic.                                                         *)
FilenameLine(l) ==
  /\ ~l.comment /\ ~cont_topic /\ cont_filename
  /\ LET t == l.text
         s == QuotesOf[t].s
         e == QuotesOf[t].e
         s2 == QuotesOf[t].s2
         e2 == QuotesOf[t].e2
     IN /\ s # -1 /\ e # -1
        /\ filename' = Lit(t, s, e)
        /\ cont_topic' = (s2 = -1)
        /\ emitted' = IF s2 # -1 /\ e2 # -1 THEN {<<Lit(t, s, e), Lit(t, s2, e2)>>} ELSE {}
  /\ cont_filename' = FALSE

(* Lines 206-209: an opening quote without its closing quote.              *)
FilenameUnterminated(l) ==
  /\ ~l.comment /\ ~cont_topic /\ cont_filename
  /\ QuotesOf[l.text].s # -1 /\ QuotesOf[l.text].e = -1
  /\ cont_filename' = FALSE
  /\ emitted' = {}
  /\ UNCHANGED <<cont_topic, filename>>

(* Lines 211-236: a line holding a call marker starts a new call.          *)
CallLine(l) ==
  /\ ~l.comment /\ l.call /\ ReachesMarkerTest(l)
  /\ LET t == l.text
         s == QuotesOf[t].s
         e == QuotesOf[t].e
         s2 == QuotesOf[t].s2
         e2 == QuotesOf[t].e2
     IN \/ /\ s = -1
           /\ cont_filename' = TRUE /\ cont_topic' = FALSE
           /\ UNCHANGED filename /\ emitted' = {}
        \/ /\ s # -1 /\ e = -1
           /\ cont_filename' = FALSE /\ cont_topic' = FALSE
           /\ UNCHANGED filename /\ emitted' = {}
        \/ /\ s # -1 /\ e # -1
           /\ filename' = Lit(t, s, e)
           /\ cont_filename' = FALSE
           /\ cont_topic' = (s2 = -1)
           /\ emitted' = IF s2 # -1 /\ e2 # -1 THEN {<<Lit(t, s, e), Lit(t, s2, e2)>>} ELSE {}

(* Any other line leaves the scanner as it is.                             *)
OtherLine(l) ==
  /\ ~l.comment /\ ~l.call /\ ReachesMarkerTest(l)
  /\ emitted' = {}
  /\ UNCHANGED <<cont_topic, cont_filename, filename>>

Init ==
  /\ cont_topic = FALSE
  /\ cont_filename = FALSE
  /\ filename = <<>>
  /\ emitted = {}
  /\ citations = {}
  /\ ref_state = "IDLE"
  /\ ref_filename = <<>>
  /\ ref_emitted = {}

(* One line of the current file, read by both scanners.                    *)
ScanLine ==
  \E l \in Lines :
    /\ Conventional(ref_state, l)
    /\ \/ CommentLine(l) \/ TopicLine(l) \/ FilenameLine(l)
       \/ FilenameUnterminated(l) \/ CallLine(l) \/ OtherLine(l)
    /\ citations' = citations \cup emitted'
    /\ RefStep(l)

(* Lines 160-162: the next source file starts with both flags clear.  The *)
(* local filename keeps its value from the previous file.                  *)
NextFile ==
  /\ cont_topic' = FALSE
  /\ cont_filename' = FALSE
  /\ emitted' = {}
  /\ ref_state' = "IDLE"
  /\ ref_emitted' = {}
  /\ UNCHANGED <<filename, citations, ref_filename>>

Next == ScanLine \/ NextFile

Spec == Init /\ [][Next]_vars

-----------------------------------------------------------------------------
(***************************************************************************)
(* Properties.                                                             *)
(***************************************************************************)

Literal == Seq(Words)

TypeOK ==
  /\ cont_topic \in BOOLEAN
  /\ cont_filename \in BOOLEAN
  /\ filename \in Literal
  /\ emitted \subseteq Literal \X Literal
  /\ citations \subseteq Literal \X Literal
  /\ ref_state \in States
  /\ ref_filename \in Literal
  /\ ref_emitted \subseteq Literal \X Literal

(* On lines written to the project's conventions, the two flags of the     *)
(* code track the state of the spec's scanner, the pending filename is the *)
(* same, and every line adds the same citation to the list.                *)
ScanMatchesSpec ==
  /\ ScanState = ref_state
  /\ ref_state = "AWAIT_TOPIC" => filename = ref_filename
  /\ emitted = ref_emitted

(* spec.md 4.4 and 8: every line yields the citation the spec's scanner    *)
(* reads from it, and no other.                                            *)
CitationsMatchSpec == emitted = ref_emitted

=============================================================================
