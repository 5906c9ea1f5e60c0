----------------------------- MODULE HelpParse -----------------------------
(***************************************************************************)
(* The help-file parser of src/util/prte-convert-help.py (function         *)
(* parse_help_files, lines 96-156), run over the list of help files and    *)
(* accumulating into the shared parsed_data dict and citations list.       *)
(*                                                                         *)
(* Data abstraction: a line, after line.rstrip(), is a record saying which *)
(* branch of the parser it takes and carrying what that branch reads: the  *)
(* name of a well-formed [name] header, or an opaque text value.  An        *)
(* #include line keeps its text, a string of symbols that lines 117-130    *)
(* decompose with the code's own str.find calls (module PyStr), and the    *)
(* (file, topic) its author meant it to cite.  A section's content is the  *)
(* sequence of line records appended to it.                                *)
(***************************************************************************)
EXTENDS Naturals, Sequences, FiniteSets, Functions, SequencesExt, PyStr

CONSTANTS Paths,       \* help-file paths
          Basenames,   \* their basenames
          Names,       \* section names
          Texts,       \* opaque content text
          Symbols,     \* the characters of an #include line
          Hash,        \* '#'
          Includes,    \* #include lines: [text, target], target {} or {<<file, topic>>}
          NoSection,   \* current_section is None
          base,        \* os.path.basename on Paths
          MaxLines     \* bound: lines per help file

ASSUME NoSection \notin Names /\ MaxLines \in Nat /\ base \in [Paths -> Basenames]

ASSUME \A i \in Includes : i.text \in Seq(Symbols) /\ i.text[1] = Hash

(* The lines of a help file, by the branch of lines 107-146 they take.    *)
Line ==
       {[kind |-> "blank"], [kind |-> "comment"], [kind |-> "badheader"]}
  \cup [kind : {"header"}, name : Names]
  \cup [kind : {"text"}, text : Texts]
  \cup [kind : {"include"}, inc : Includes]

(* The help files handed to parse_help_files: distinct paths, as os.walk   *)
(* yields them.                                                            *)
PathLists ==
  {q \in UNION {[1..n -> Paths] : n \in 0..Cardinality(Paths)} : IsInjective(q)}

VARIABLES files,       \* the file_paths argument
          fidx,        \* index of the file being parsed
          lines,       \* the lines of that file read so far
          read,        \* the lines of each file already parsed
          current,     \* current_section
          sections,    \* sections: Seq of [topic, content], insertion order
          data,        \* parsed_data: Seq of [path, sections]
          citations,   \* the citations list, as a set
          pc           \* "parse", "done", "crashed"

vars == <<files, fidx, lines, read, current, sections, data, citations, pc>>

Keys(d) == {d[i].topic : i \in DOMAIN d}

(* sections[name] = list() (line 144): a new key is appended at the end;   *)
(* an existing key keeps its place and loses its content.                  *)
ResetSection(d, name) ==
  IF name \in Keys(d)
    THEN [i \in DOMAIN d |-> IF d[i].topic = name THEN [d[i] EXCEPT !.content = <<>>]
                                                 ELSE d[i]]
    ELSE Append(d, [topic |-> name, content |-> <<>>])

(* sections[current_section].append(line) (lines 115 and 146).            *)
AppendLine(d, name, l) ==
  [i \in DOMAIN d |-> IF d[i].topic = name THEN [d[i] EXCEPT !.content = Append(@, l)]
                                           ELSE d[i]]

(* Lines 117-130: the citation an #include line decomposes into.  start is *)
(* the '#' after the keyword; with one more '#' the line is file#topic,    *)
(* with two it is x#file#topic.  When end is -1 the search for end2 starts *)
(* at 0 and finds the line's first '#'.                                    *)
IncludeCitation(s) ==
  LET start == PyFindFrom(s, Hash, 2)
      end   == PyFindFrom(s, Hash, start + 1)
      end2  == PyFindFrom(s, Hash, end + 1)
  IN CASE start = -1 -> {}
       [] end2 = -1  -> {<<PySlice(s, start + 1, end), PySlice(s, end + 1, Len(s))>>}
       [] OTHER      -> {<<PySlice(s, end + 1, end2), PySlice(s, end2 + 1, Len(s))>>}

(* The loop of line 105 takes its next line l of file_path.                *)
Reading == pc = "parse" /\ fidx \in DOMAIN files /\ Len(lines) < MaxLines

Path == files[fidx]                 \* file_path

(* Every line action reads its line.                                       *)
Consume(l) == lines' = Append(lines, l)

-----------------------------------------------------------------------------
(***************************************************************************)
(* Plausible bugs of the parser, used to show that the properties below    *)
(* can tell them apart.                                                    *)
(***************************************************************************)

(* A comment line is skipped without closing the section.                  *)
CommentLineNoClose(l) ==
  /\ Reading /\ l.kind = "comment"
  /\ Consume(l)
  /\ UNCHANGED <<files, fidx, read, current, sections, data, citations, pc>>

(* An #include line cites its target but not its own section.              *)
IncludeLineNoSelfCite(l) ==
  /\ Reading /\ l.kind = "include" /\ current # NoSection
  /\ sections' = AppendLine(sections, current, l)
  /\ citations' = citations \cup IncludeCitation(l.inc.text)
  /\ Consume(l)
  /\ UNCHANGED <<files, fidx, read, current, data, pc>>

(* A header adds a new entry even when the section exists: sections kept   *)
(* as a list of (name, lines) pairs instead of a dict.                     *)
HeaderLineAppends(l) ==
  /\ Reading /\ l.kind = "header"
  /\ current' = l.name
  /\ sections' = Append(sections, [topic |-> l.name, content |-> <<>>])
  /\ Consume(l)
  /\ UNCHANGED <<files, fidx, read, data, citations, pc>>

-----------------------------------------------------------------------------
(***************************************************************************)
(* Actions: one per branch of the line loop, the end of a file, the end of *)
(* the list.                                                               *)
(***************************************************************************)

Init ==
  /\ files \in PathLists
  /\ fidx = 1
  /\ lines = <<>>
  /\ read = <<>>
  /\ current = NoSection
  /\ sections = <<>>
  /\ data = <<>>
  /\ citations = {}
  /\ pc = "parse"

(* Lines 107-108, 141-142 and 145: a blank or plain line outside a         *)
(* section, and a '[' line without ']', are dropped.                       *)
SkipLine(l) ==
  /\ Reading
  /\ \/ l.kind \in {"blank", "text"} /\ current = NoSection
     \/ l.kind = "badheader"
  /\ Consume(l)
  /\ UNCHANGED <<files, fidx, read, current, sections, data, citations, pc>>

(* Lines 109-112: an #include outside a section.  sys.stderr.write is      *)
(* given three arguments and raises TypeError, which ends the program.     *)
IncludeOutsideSection(l) ==
  /\ Reading /\ l.kind = "include" /\ current = NoSection
  /\ pc' = "crashed"
  /\ Consume(l)
  /\ UNCHANGED <<files, fidx, read, current, sections, data, citations>>

(* Lines 113-134: the directive is kept as content, cites what it          *)
(* decomposes into and cites the section that contains it.                 *)
IncludeLine(l) ==
  /\ Reading /\ l.kind = "include" /\ current # NoSection
  /\ sections' = AppendLine(sections, current, l)
  /\ citations' = citations \cup IncludeCitation(l.inc.text)
                            \cup {<<base[Path], current>>}
  /\ Consume(l)
  /\ UNCHANGED <<files, fidx, read, current, data, pc>>

(* Lines 135-137: any other '#' line closes the section.                   *)
CommentLine(l) ==
  /\ Reading /\ l.kind = "comment"
  /\ current' = NoSection
  /\ Consume(l)
  /\ UNCHANGED <<files, fidx, read, sections, data, citations, pc>>

(* Lines 138-144: a header opens the section, emptying it if it exists.    *)
HeaderLine(l) ==
  /\ Reading /\ l.kind = "header"
  /\ current' = l.name
  /\ sections' = ResetSection(sections, l.name)
  /\ Consume(l)
  /\ UNCHANGED <<files, fidx, read, data, citations, pc>>

(* Lines 145-146: inside a section any other line, blank or not, is        *)
(* appended.                                                               *)
ContentLine(l) ==
  /\ Reading /\ l.kind \in {"text", "blank"} /\ current # NoSection
  /\ sections' = AppendLine(sections, current, l)
  /\ Consume(l)
  /\ UNCHANGED <<files, fidx, read, current, data, citations, pc>>

(* Lines 148-151, at the end of the file: store its sections under its     *)
(* path.  The branch for a path already stored would raise TypeError like  *)
(* line 112; paths from os.walk are distinct, so it is never taken.        *)
EndFile ==
  /\ pc = "parse" /\ fidx \in DOMAIN files
  /\ IF \E i \in DOMAIN data : data[i].path = Path
       THEN pc' = "crashed" /\ UNCHANGED data
       ELSE data' = Append(data, [path |-> Path, sections |-> sections])
            /\ UNCHANGED pc
  /\ fidx' = fidx + 1
  /\ read' = Append(read, lines)
  /\ lines' = <<>>
  /\ current' = NoSection
  /\ sections' = <<>>
  /\ UNCHANGED <<files, citations>>

(* Line 156: every file of the list is parsed.                             *)
Finish ==
  /\ pc = "parse" /\ fidx > Len(files)
  /\ pc' = "done"
  /\ UNCHANGED <<files, fidx, lines, read, current, sections, data, citations>>

Terminated ==
  /\ pc \in {"done", "crashed"}
  /\ UNCHANGED vars

ParseLine ==
  \E l \in Line :
    \/ SkipLine(l) \/ IncludeOutsideSection(l) \/ IncludeLine(l)
    \/ CommentLine(l) \/ HeaderLine(l) \/ ContentLine(l)

Next == ParseLine \/ EndFile \/ Finish \/ Terminated

Spec == Init /\ [][Next]_vars

-----------------------------------------------------------------------------
(***************************************************************************)
(* Declarative reading of a help file, by line positions.                  *)
(***************************************************************************)

IsHeader(l, n) == l.kind = "header" /\ l.name = n

(* The section open at line k: the last header before k, unless a comment *)
(* line comes between.                                                     *)
Owner(ls, k) ==
  LET hs == {j \in 1..k-1 : ls[j].kind = "header"}
  IN IF hs = {} THEN NoSection
     ELSE LET h == Max(hs)
          IN IF \E j \in h+1..k-1 : ls[j].kind = "comment" THEN NoSection
             ELSE ls[h].name

(* The lines after header h up to the next header or comment line.         *)
Region(ls, h) ==
  LET ends == {k \in h+1..Len(ls) : ls[k].kind \in {"header", "comment"}}
      e    == IF ends = {} THEN Len(ls) + 1 ELSE Min(ends)
  IN SubSeq(ls, h + 1, e - 1)

(* A section's content is the region of its last header, without the      *)
(* malformed headers; sections come in the order of their first header.   *)
DeclaredSections(ls) ==
  LET firsts == {k \in DOMAIN ls : ls[k].kind = "header" /\
                   \A j \in 1..k-1 : ~IsHeader(ls[j], ls[k].name)}
      hs     == SetToSortSeq(firsts, <)
      LastHdr(n) == Max({k \in DOMAIN ls : IsHeader(ls[k], n)})
  IN [i \in DOMAIN hs |->
        [topic   |-> ls[hs[i]].name,
         content |-> SelectSeq(Region(ls, LastHdr(ls[hs[i]].name)),
                               LAMBDA l : l.kind # "badheader")]]

(* The citations of a file: each #include inside a section cites what its  *)
(* author meant it to cite and that section.                               *)
DeclaredCitations(p, ls) ==
  UNION { ls[k].inc.target \cup {<<base[p], Owner(ls, k)>>} :
          k \in {k \in DOMAIN ls : ls[k].kind = "include"} }

-----------------------------------------------------------------------------
(***************************************************************************)
(* Properties.                                                             *)
(***************************************************************************)

TypeOK ==
  /\ files \in PathLists
  /\ fidx \in 1..Len(files) + 1
  /\ lines \in Seq(Line) /\ Len(lines) <= MaxLines
  /\ read \in Seq(Seq(Line)) /\ Len(read) = fidx - 1
  /\ current \in Names \cup {NoSection}
  /\ \A i \in DOMAIN sections : sections[i].topic \in Names
                                /\ sections[i].content \in Seq(Line)
  /\ IsInjective([i \in DOMAIN sections |-> sections[i].topic])
  /\ \A i \in DOMAIN data : data[i].path \in Paths
  /\ citations \subseteq (Basenames \X Names) \cup (Seq(Symbols) \X Seq(Symbols))
  /\ pc \in {"parse", "done", "crashed"}

(* The line-by-line parser, with its current_section, its emptying of a    *)
(* repeated header and its closing comments, stores for every file the     *)
(* sections the declarative reading gives.                                 *)
ParsedAsDeclared ==
  \A i \in DOMAIN data : data[i].sections = DeclaredSections(read[i])

(* Once every file is parsed, the citations are exactly those of the       *)
(* #include lines inside sections: their targets and their sections.       *)
CitedAsDeclared ==
  pc = "done" => citations = UNION {DeclaredCitations(files[i], read[i]) : i \in DOMAIN files}

(* spec.md 4.3: an #include outside a section is reported and parsing of  *)
(* the file continues; the parser never aborts the program.                *)
IncludeNeverAborts == pc # "crashed"

=============================================================================
