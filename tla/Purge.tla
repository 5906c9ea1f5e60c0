------------------------------- MODULE Purge -------------------------------
(***************************************************************************)
(* The purge pass of src/util/prte-convert-help.py (function purge, lines  *)
(* 322-390): the citation reconciler.  It walks the parsed corpus file by  *)
(* file, section by section, in dict insertion order; looks for the same   *)
(* section in other files; keeps special topics and cited sections; and    *)
(* exits with status 1 at the end of the first file for which anything was *)
(* reported.                                                               *)
(*                                                                         *)
(* Data abstraction: a path, a basename, a topic name and the joined       *)
(* content of a section are model values.  A dict is a sequence of        *)
(* records in insertion order.  The citation list is a set: purge only     *)
(* asks whether a pair occurs in it and whether it is empty.               *)
(***************************************************************************)
EXTENDS Naturals, Sequences, FiniteSets, Functions

CONSTANTS Paths,          \* help-file paths
          Basenames,      \* their basenames
          Topics,         \* section names
          SpecialTopics,  \* the special_topics list, lines 323-332
          Contents,       \* joined content of a section ('\n'.join)
          MaxSections     \* bound: sections per help file

ASSUME SpecialTopics \subseteq Topics /\ MaxSections \in Nat

VARIABLES corpus,          \* parsed_data: Seq of [path, sections]
          citations,       \* the citations list
          base,            \* os.path.basename on Paths
          fi,              \* index of the current file of parsed_data
          si,              \* index of the current section of that file
          result_sections, \* result_sections of the current file
          result_data,     \* result_data: Seq of [path, sections]
          errorFound,
          reports,         \* messages written to stderr
          pc               \* "sections", "returned", "exit", "crashed"

vars == <<corpus, citations, base, fi, si, result_sections, result_data,
          errorFound, reports, pc>>

Section == [topic : Topics, content : Contents]

(* A dict of sections: topic names are its keys, hence distinct.           *)
SectionDicts ==
  { d \in UNION {[1..n -> Section] : n \in 0..MaxSections} :
      IsInjective([i \in DOMAIN d |-> d[i].topic]) }

(* parsed_data: paths are its keys, hence distinct.                        *)
Corpora ==
  { c \in UNION {[1..n -> [path : Paths, sections : SectionDicts]] :
                   n \in 0..Cardinality(Paths)} :
      IsInjective([i \in DOMAIN c |-> c[i].path]) }

Citation == Basenames \X Topics

Report == [kind : {"duplicate", "conflict"}, path : Paths, topic : Topics,
           other : Paths]
          \cup [kind : {"unused"}, path : Paths, topic : Topics]
          \cup [kind : {"empty"}, path : Paths]

Keys(d) == {d[i].topic : i \in DOMAIN d}

(* Line 348 compares sec, the whole section dict of the other file, with   *)
(* the section name: a dict never equals a string.                         *)
SameTopic(sec, sec2, section) == sec = section

(* Lines 343-358: the reports of the duplicate scan of section s of file   *)
(* f, over every section sec2 of every other file of parsed_data.          *)
DupReportsOf(f, s) ==
  UNION { { [kind  |-> IF s.content = sec2.content THEN "duplicate"
                                                  ELSE "conflict",
             path  |-> f, topic |-> s.topic, other |-> corpus[j].path] :
            sec2 \in { sec2 \in { corpus[j].sections[k] :
                                    k \in DOMAIN corpus[j].sections } :
                         SameTopic(corpus[j].sections, sec2, s.topic) } } :
          j \in { j \in DOMAIN corpus : corpus[j].path # f } }

(* The defects the code acts on: a non-special section without a matching *)
(* citation (line 368), or a file left with no section (line 379).         *)
Uncited(cites, b, f, s) ==
  s.topic \notin SpecialTopics /\ <<b[f], s.topic>> \notin cites

FileDefective(file, cites, b) ==
  \/ file.sections = <<>>
  \/ \E k \in DOMAIN file.sections : Uncited(cites, b, file.path, file.sections[k])

CodeDefective(c, cites, b) == \E i \in DOMAIN c : FileDefective(c[i], cites, b)

(* spec.md 4.6 rule 1 adds: a section name occurring in two files.         *)
SpecDefective(c, cites, b) ==
  \/ CodeDefective(c, cites, b)
  \/ \E i, j \in DOMAIN c : i # j /\ Keys(c[i].sections) \cap Keys(c[j].sections) # {}

-----------------------------------------------------------------------------
(***************************************************************************)
(* Plausible bugs of the pass, used to show that the properties below can  *)
(* tell them apart.                                                        *)
(***************************************************************************)

(* An unused topic is reported but errorFound is not set.                  *)
CheckSectionNoFlag ==
  /\ pc = "sections" /\ fi \in DOMAIN corpus /\ si \in DOMAIN corpus[fi].sections
  /\ LET f    == corpus[fi].path
         s    == corpus[fi].sections[si]
         dups == DupReportsOf(f, s)
     IN \/ /\ s.topic \in SpecialTopics \/ <<base[f], s.topic>> \in citations
           /\ result_sections' = Append(result_sections, s)
           /\ reports' = reports \cup dups
           /\ errorFound' = (errorFound \/ dups # {})
           /\ si' = si + 1
           /\ UNCHANGED pc
        \/ /\ s.topic \notin SpecialTopics /\ citations = {}
           /\ reports' = reports \cup dups
           /\ pc' = "crashed"
           /\ UNCHANGED <<result_sections, errorFound, si>>
        \/ /\ Uncited(citations, base, f, s) /\ citations # {}
           /\ UNCHANGED result_sections
           /\ reports' = reports \cup dups
                         \cup {[kind |-> "unused", path |-> f, topic |-> s.topic]}
           /\ errorFound' = errorFound
           /\ si' = si + 1
           /\ UNCHANGED pc
  /\ UNCHANGED <<corpus, citations, base, fi, result_data>>

(* The first unused topic ends the pass at once (exit inside the loop).    *)
CheckSectionFailFast ==
  /\ pc = "sections" /\ fi \in DOMAIN corpus /\ si \in DOMAIN corpus[fi].sections
  /\ LET f    == corpus[fi].path
         s    == corpus[fi].sections[si]
         dups == DupReportsOf(f, s)
     IN \/ /\ s.topic \in SpecialTopics \/ <<base[f], s.topic>> \in citations
           /\ result_sections' = Append(result_sections, s)
           /\ reports' = reports \cup dups
           /\ errorFound' = (errorFound \/ dups # {})
           /\ si' = si + 1
           /\ UNCHANGED pc
        \/ /\ s.topic \notin SpecialTopics /\ citations = {}
           /\ reports' = reports \cup dups
           /\ pc' = "crashed"
           /\ UNCHANGED <<result_sections, errorFound, si>>
        \/ /\ Uncited(citations, base, f, s) /\ citations # {}
           /\ UNCHANGED result_sections
           /\ reports' = reports \cup dups
                         \cup {[kind |-> "unused", path |-> f, topic |-> s.topic]}
           /\ errorFound' = TRUE
           /\ si' = si + 1
           /\ pc' = "exit"
  /\ UNCHANGED <<corpus, citations, base, fi, result_data>>

(* errorFound is only acted on after the loop over files.                  *)
EndFileNoExit ==
  /\ pc = "sections" /\ fi \in DOMAIN corpus /\ si > Len(corpus[fi].sections)
  /\ LET f     == corpus[fi].path
         empty == result_sections = <<>>
     IN /\ result_data' = IF empty THEN result_data
                          ELSE Append(result_data, [path |-> f, sections |-> result_sections])
        /\ reports' = IF empty THEN reports \cup {[kind |-> "empty", path |-> f]}
                      ELSE reports
        /\ errorFound' = (errorFound \/ empty)
  /\ fi' = fi + 1
  /\ si' = 1
  /\ result_sections' = <<>>
  /\ UNCHANGED <<corpus, citations, base, pc>>

(* result_sections is created once, before the loop over files, instead of *)
(* once per file (line 337).                                               *)
EndFileKeepsResult ==
  /\ pc = "sections" /\ fi \in DOMAIN corpus /\ si > Len(corpus[fi].sections)
  /\ LET f     == corpus[fi].path
         empty == result_sections = <<>>
         err   == errorFound \/ empty
     IN /\ result_data' = IF empty THEN result_data
                          ELSE Append(result_data, [path |-> f, sections |-> result_sections])
        /\ reports' = IF empty THEN reports \cup {[kind |-> "empty", path |-> f]}
                      ELSE reports
        /\ errorFound' = err
        /\ pc' = IF err THEN "exit" ELSE "sections"
        /\ fi' = IF err THEN fi ELSE fi + 1
  /\ si' = 1
  /\ UNCHANGED <<corpus, citations, base, result_sections>>

-----------------------------------------------------------------------------
(***************************************************************************)
(* Actions: one iteration of the section loop, the end of one iteration of *)
(* the file loop, and the return.                                          *)
(***************************************************************************)

Init ==
  /\ corpus \in Corpora
  /\ citations \in SUBSET Citation
  /\ base \in [Paths -> Basenames]
  /\ fi = 1
  /\ si = 1
  /\ result_sections = <<>>
  /\ result_data = <<>>
  /\ errorFound = FALSE
  /\ reports = {}
  /\ pc = "sections"

(* Lines 338-377, one section: the duplicate scan, then the special-topic  *)
(* exemption, then the citation search.  With an empty citation list the   *)
(* loop of line 364 never runs, so line 373 reads the unbound local `used` *)
(* and Python raises UnboundLocalError.                                    *)
CheckSection ==
  /\ pc = "sections" /\ fi \in DOMAIN corpus /\ si \in DOMAIN corpus[fi].sections
  /\ LET f    == corpus[fi].path
         s    == corpus[fi].sections[si]
         dups == DupReportsOf(f, s)
     IN \/ /\ s.topic \in SpecialTopics \/ <<base[f], s.topic>> \in citations
           /\ result_sections' = Append(result_sections, s)
           /\ reports' = reports \cup dups
           /\ errorFound' = (errorFound \/ dups # {})
           /\ si' = si + 1
           /\ UNCHANGED pc
        \/ /\ s.topic \notin SpecialTopics /\ citations = {}
           /\ reports' = reports \cup dups
           /\ pc' = "crashed"
           /\ UNCHANGED <<result_sections, errorFound, si>>
        \/ /\ Uncited(citations, base, f, s) /\ citations # {}
           /\ UNCHANGED result_sections
           /\ reports' = reports \cup dups
                         \cup {[kind |-> "unused", path |-> f, topic |-> s.topic]}
           /\ errorFound' = TRUE
           /\ si' = si + 1
           /\ UNCHANGED pc
  /\ UNCHANGED <<corpus, citations, base, fi, result_data>>

(* Lines 378-386: keep the file if a section is left, and exit(1) if       *)
(* anything was reported so far.                                           *)
EndFile ==
  /\ pc = "sections" /\ fi \in DOMAIN corpus /\ si > Len(corpus[fi].sections)
  /\ LET f     == corpus[fi].path
         empty == result_sections = <<>>
         err   == errorFound \/ empty
     IN /\ result_data' = IF empty THEN result_data
                          ELSE Append(result_data, [path |-> f, sections |-> result_sections])
        /\ reports' = IF empty THEN reports \cup {[kind |-> "empty", path |-> f]}
                      ELSE reports
        /\ errorFound' = err
        /\ pc' = IF err THEN "exit" ELSE "sections"
        /\ fi' = IF err THEN fi ELSE fi + 1
  /\ si' = 1
  /\ result_sections' = <<>>
  /\ UNCHANGED <<corpus, citations, base>>

(* Lines 388-390.                                                          *)
Return ==
  /\ pc = "sections" /\ fi > Len(corpus)
  /\ pc' = IF errorFound THEN "exit" ELSE "returned"
  /\ UNCHANGED <<corpus, citations, base, fi, si, result_sections, result_data,
                 errorFound, reports>>

(* The process has returned, exited or died: nothing more happens.         *)
Terminated ==
  /\ pc \in {"returned", "exit", "crashed"}
  /\ UNCHANGED vars

Next == CheckSection \/ EndFile \/ Return \/ Terminated

Spec == Init /\ [][Next]_vars

-----------------------------------------------------------------------------
(***************************************************************************)
(* Properties.                                                             *)
(***************************************************************************)

TypeOK ==
  /\ corpus \in Corpora
  /\ citations \in SUBSET Citation
  /\ base \in [Paths -> Basenames]
  /\ fi \in 1..Len(corpus) + 1
  /\ si \in 1..MaxSections + 1
  /\ result_sections \in SectionDicts /\ Len(result_sections) < si
  /\ result_data \in Corpora
  /\ errorFound \in BOOLEAN
  /\ reports \subseteq Report
  /\ pc \in {"sections", "returned", "exit", "crashed"}

(* Refinement: the section-by-section pass, with its exit(1) at the end of *)
(* a file and its UnboundLocalError, implements the one-step gate over the *)
(* defects the code detects.  In particular it returns only when nothing   *)
(* is defective, and then returns parsed_data unchanged.                   *)
Outcome == CASE pc \in {"exit", "crashed"} -> "exit"
             [] pc = "returned"            -> "returned"
             [] OTHER                      -> "running"

Output == IF pc = "returned" THEN result_data ELSE <<>>

CodeGate == INSTANCE PurgeGate WITH Defective <- CodeDefective,
                                    outcome <- Outcome, output <- Output
CodeGateSpec == CodeGate!Spec

(* spec.md 4.6: duplicate and conflicting sections across files also fail *)
(* the gate.  Line 348 compares the wrong variable, so they never do.      *)
SpecGate == INSTANCE PurgeGate WITH Defective <- SpecDefective,
                                    outcome <- Outcome, output <- Output
SpecGateSpec == SpecGate!Spec

(* When purge exits (line 386), every uncited non-special section of every *)
(* file examined so far, the current one included, has been reported: the  *)
(* exit waits for the end of the file's section loop.                      *)
DiagnosedExit ==
  pc = "exit" =>
    \A i \in DOMAIN corpus : i <= fi =>
      \A k \in DOMAIN corpus[i].sections :
        LET s == corpus[i].sections[k]
        IN Uncited(citations, base, corpus[i].path, s) =>
             [kind |-> "unused", path |-> corpus[i].path, topic |-> s.topic] \in reports

(* Purge exits at the end of the first defective file of parsed_data, and  *)
(* only there (spec.md 4.6 rule 5).                                        *)
ExitAtFirstDefect ==
  pc = "exit" =>
    /\ fi \in DOMAIN corpus
    /\ FileDefective(corpus[fi], citations, base)
    /\ \A i \in 1..fi - 1 : ~FileDefective(corpus[i], citations, base)

(* Every failure of purge is diagnosed: when it stops without returning,   *)
(* at least one problem has been written to stderr.                        *)
FailureDiagnosed ==
  pc \in {"exit", "crashed"} => reports # {}

=============================================================================
