----------------------------- MODULE FindFiles -----------------------------
(***************************************************************************)
(* find_files (prte-convert-help.py lines 44-94): os.walk over the tree    *)
(* under root, top-down, pruning the children named in skip_dirs, and the  *)
(* files of each directory sorted into four lists: help-*.txt files and    *)
(* .c/.h files, each split by whether the full path contains a marker      *)
(* substring ("schizo/prte", "schizo/ompi", "tools").                      *)
(*                                                                         *)
(* A name or path is a string of tokens, a token standing for a run of     *)
(* characters (the separator, "tools", "schizo", ...), so that the marker  *)
(* test is a substring test over tokens.  A file's kind stands for the     *)
(* startswith/endswith tests of lines 69 and 85.  os.walk lists a          *)
(* directory's entries in the file system's order, so a visit takes them   *)
(* in any order; and os.walk, called without onerror, skips a directory    *)
(* it cannot list without a word.                                          *)
(***************************************************************************)
EXTENDS Naturals, Sequences, FiniteSets, SequencesExt

CONSTANTS Dirs, Root,
          Parent,     \* the parent of every directory but Root
          DirName,    \* Dirs -> name string
          Files,      \* Dirs -> set of [kind, name]
          RootPath, Sep, Markers, SkipDirs

ASSUME Root \in Dirs /\ \A d \in Dirs \ {Root} : Parent[d] \in Dirs

Kids(d) == {c \in Dirs \ {Root} : Parent[c] = d}

RECURSIVE DirPath(_)
DirPath(d) == IF d = Root THEN RootPath ELSE DirPath(Parent[d]) \o <<Sep>> \o DirName[d]

(* Lines 76 and 86: os.path.join(root_dir, file).                         *)
FullPath(d, f) == DirPath(d) \o <<Sep>> \o f.name

(* Lines 77 and 87: a marker occurs in the full path.                      *)
IsTool(p) ==
  \E m \in Markers : \E i \in 1..Len(p) :
     i + Len(m) - 1 <= Len(p) /\ SubSeq(p, i, i + Len(m) - 1) = m

VARIABLES todo,         \* os.walk's directories still to walk
          help_files, source_files, tool_help_files, tool_source_files,
          failed,       \* the directories os.walk could not list
          done

vars == <<todo, help_files, source_files, tool_help_files, tool_source_files,
          failed, done>>

(* The paths of the files fs of d of one kind on one side of the split.   *)
Found(d, fs, kind, tool) ==
  LET sel == SelectSeq(fs, LAMBDA f : f.kind = kind /\ IsTool(FullPath(d, f)) = tool)
  IN [i \in 1..Len(sel) |-> FullPath(d, sel[i])]

(* Lines 64-66: the children left after skip_dirs are removed.             *)
Walked(d) == {c \in Kids(d) : DirName[c] \notin SkipDirs}

(* A plausible bug: the skip_dirs pruning dropped.                         *)
VisitNoPrune ==
  /\ ~done /\ todo # <<>>
  /\ LET d == Head(todo) IN
     \E fs \in SetToSeqs(Files[d]), ks \in SetToSeqs(Kids(d)) :
       /\ help_files' = help_files \o Found(d, fs, "help", FALSE)
       /\ tool_help_files' = tool_help_files \o Found(d, fs, "help", TRUE)
       /\ source_files' = source_files \o Found(d, fs, "src", FALSE)
       /\ tool_source_files' = tool_source_files \o Found(d, fs, "src", TRUE)
       /\ todo' = ks \o Tail(todo)
  /\ UNCHANGED <<failed, done>>

-----------------------------------------------------------------------------
Init ==
  /\ todo = <<Root>>
  /\ help_files = <<>> /\ source_files = <<>>
  /\ tool_help_files = <<>> /\ tool_source_files = <<>>
  /\ failed = {} /\ done = FALSE

(* Lines 63-91: one directory of the walk, its entries in listing order;   *)
(* the walk goes on depth first into the children kept.  skip_files is     *)
(* empty (line 62), so the loop of lines 71-74 never skips a file.         *)
Visit ==
  /\ ~done /\ todo # <<>>
  /\ LET d == Head(todo) IN
     \E fs \in SetToSeqs(Files[d]), ks \in SetToSeqs(Walked(d)) :
       /\ help_files' = help_files \o Found(d, fs, "help", FALSE)
       /\ tool_help_files' = tool_help_files \o Found(d, fs, "help", TRUE)
       /\ source_files' = source_files \o Found(d, fs, "src", FALSE)
       /\ tool_source_files' = tool_source_files \o Found(d, fs, "src", TRUE)
       /\ todo' = ks \o Tail(todo)
  /\ UNCHANGED <<failed, done>>

(* Line 63: os.scandir on the directory fails (permissions, a directory    *)
(* removed meanwhile); os.walk drops it and its subtree and goes on.      *)
ListingFails ==
  /\ ~done /\ todo # <<>>
  /\ failed' = failed \cup {Head(todo)}
  /\ todo' = Tail(todo)
  /\ UNCHANGED <<help_files, source_files, tool_help_files, tool_source_files, done>>

(* Line 94: the walk is over and the four lists are returned.             *)
Return ==
  /\ ~done /\ todo = <<>>
  /\ done' = TRUE
  /\ UNCHANGED <<todo, help_files, source_files, tool_help_files, tool_source_files, failed>>

(* Lines 46-49: before the walk starts, root is not a directory; nothing   *)
(* is listed and the process exits (the exit is the caller's state).      *)
RootMissing == ~done /\ todo = <<Root>> /\ failed = {} /\ UNCHANGED vars

Terminated == done /\ UNCHANGED vars

Next == Visit \/ ListingFails \/ Return \/ Terminated

Spec == Init /\ [][Next]_vars

-----------------------------------------------------------------------------
AllFound == Range(help_files) \cup Range(source_files)
              \cup Range(tool_help_files) \cup Range(tool_source_files)

(* The directories the walk reaches past pruning, and past the listings   *)
(* in lost, and the help and source files in them.                         *)
RECURSIVE Reached(_, _)
Reached(d, lost) ==
  d \notin lost /\ (d = Root \/ (DirName[d] \notin SkipDirs /\ Reached(Parent[d], lost)))

FilesUnder(lost) ==
  UNION {{FullPath(d, f) : f \in {g \in Files[d] : g.kind \in {"help", "src"}}} :
           d \in {e \in Dirs : Reached(e, lost)}}

TypeOK ==
  /\ todo \in Seq(Dirs) /\ IsInjective(todo)
  /\ failed \subseteq Dirs /\ done \in BOOLEAN
  /\ done => todo = <<>>

(* Whatever the listing order and whichever listings fail, the walk        *)
(* returns every help and source file of every directory it listed that   *)
(* is not under .git, .libs or .deps, each once, and nothing else.         *)
FoundAllListed ==
  done => /\ AllFound = FilesUnder(failed)
          /\ Len(help_files) + Len(source_files) + Len(tool_help_files)
               + Len(tool_source_files) = Cardinality(AllFound)

====
