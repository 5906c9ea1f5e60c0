------------------------------ MODULE Options ------------------------------
(***************************************************************************)
(* parse_cmd_line_options (prte-convert-help.py lines 17-42): each line of *)
(* prte_cmd_line.h is stripped, and a line that starts with "#define"      *)
(* gives the pair (name, option): the name from index 8 to the next space, *)
(* the option between the next two quotes.  A line is a string of symbols; *)
(* Define stands for the seven characters of "#define".                    *)
(*                                                                         *)
(* ref_options is the list spec.md section 4.1 describes, read from the    *)
(* same lines: the token after the keyword and the first quoted literal    *)
(* after it, for any whitespace between them.                              *)
(***************************************************************************)
EXTENDS Naturals, Sequences, PyStr

CONSTANTS Sp, Tab, Q, Define, Letters, Lines, MaxLines

ASSUME Len(Define) = 7

WS == {Sp, Tab}

VARIABLES options, nread, done, ref_options

vars == <<options, nread, done, ref_options>>

(* Lines 23-24: the stripped line starts with "#define".                   *)
IsDefine(st) == Len(st) >= 7 /\ SubSeq(st, 1, 7) = Define

(* An off-by-one start of the name, one index early.                       *)
ExtractNameFrom7(l) ==
  LET st    == PyStrip(l, WS)
      end   == PyFindFrom(st, Sp, 9)
      start == PyFindFrom(st, Q, end)
  IN IF ~IsDefine(st) \/ end = -1 \/ start = -1 THEN <<>>
     ELSE << <<PySlice(st, 7, end), PySlice(st, start + 1, PyFindFrom(st, Q, start + 1))>> >>

(* The closing quote searched from the opening one, one index early.       *)
ExtractCloseAtOpen(l) ==
  LET st    == PyStrip(l, WS)
      end   == PyFindFrom(st, Sp, 9)
      start == PyFindFrom(st, Q, end)
  IN IF ~IsDefine(st) \/ end = -1 \/ start = -1 THEN <<>>
     ELSE << <<PySlice(st, 8, end), PySlice(st, start + 1, PyFindFrom(st, Q, start))>> >>

(* Lines 22-40: what one line appends to options, as a sequence of zero   *)
(* or one pair.  end = -1 (no space after the name) skips the line; a     *)
(* missing closing quote makes the option slice end at -1.                 *)
Extract(l) ==
  LET st    == PyStrip(l, WS)
      end   == PyFindFrom(st, Sp, 9)
      start == PyFindFrom(st, Q, end)
  IN IF ~IsDefine(st) \/ end = -1 \/ start = -1 THEN <<>>
     ELSE << <<PySlice(st, 8, end), PySlice(st, start + 1, PyFindFrom(st, Q, start + 1))>> >>

-----------------------------------------------------------------------------
(* spec.md section 4.1, 1-based: after the keyword, the first run of       *)
(* non-whitespace is the name; the first two quotes after it enclose the   *)
(* value; a line without them gives nothing.                               *)
Least(S) == CHOOSE i \in S : \A j \in S : i <= j

DeclaredOption(l) ==
  LET st   == PyStrip(l, WS)
      rest == IF IsDefine(st) THEN SubSeq(st, 8, Len(st)) ELSE <<>>
      body == {i \in DOMAIN rest : rest[i] \notin WS}
      a    == Least(body)
      gaps == {i \in a..Len(rest) : rest[i] \in WS}
      b    == IF gaps = {} THEN Len(rest) ELSE Least(gaps) - 1
      qs   == {i \in b+1..Len(rest) : rest[i] = Q}
      q1   == Least(qs)
  IN IF body = {} \/ a = 1 \/ qs = {} \/ qs = {q1} THEN <<>>
     ELSE << <<SubSeq(rest, a, b), SubSeq(rest, q1 + 1, Least(qs \ {q1}) - 1)>> >>

-----------------------------------------------------------------------------
Init ==
  /\ options = <<>> /\ ref_options = <<>>
  /\ nread = 0 /\ done = FALSE

(* Lines 21-40: one line of the file.                                      *)
ReadLine ==
  /\ ~done /\ nread < MaxLines
  /\ \E l \in Lines :
       /\ options' = options \o Extract(l)
       /\ ref_options' = ref_options \o DeclaredOption(l)
  /\ nread' = nread + 1
  /\ UNCHANGED done

(* Line 42: the end of the file; the list is returned.                     *)
Return ==
  /\ ~done
  /\ done' = TRUE
  /\ UNCHANGED <<options, nread, ref_options>>

Terminated == done /\ UNCHANGED vars

Next == ReadLine \/ Return \/ Terminated

Spec == Init /\ [][Next]_vars

-----------------------------------------------------------------------------
TypeOK ==
  /\ nread \in 0..MaxLines /\ done \in BOOLEAN
  /\ options \in Seq(Seq(Letters) \X Seq(Letters \cup WS))
  /\ Len(options) <= nread

(* spec.md section 4.1, over lines with one space after the keyword (the   *)
(* layout the fixed offset of line 27 expects): every #define line with a  *)
(* name and a quoted value gives exactly the pair (name, value), with one  *)
(* or two spaces before the value, blanks around the line and spaces in    *)
(* the value; a line without a name, a value or the keyword gives nothing. *)
(* A tab or a second space after the keyword breaks the pair (line 28);    *)
(* that layout is left out here and listed as a hazard.                    *)
OptionsAsDeclared == options = ref_options

====
