------------------------------ MODULE ToolScan ------------------------------
(***************************************************************************)
(* parse_tool_files (prte-convert-help.py lines 240-318): for each tool    *)
(* help file, collect its topic names and the command-line options listed  *)
(* in the pipe-table rows of its [usage] section, then cite every option   *)
(* that is also a topic of the same file.                                  *)
(*                                                                         *)
(* A row is a string of symbols, scanned with the code's own str.find      *)
(* bounds and indices (module PyStr).  Other lines are abstracted to their *)
(* kind: blank, comment, header(topic), or other text.  Each row carries   *)
(* what its author meant: the options it lists, the prefix of an option    *)
(* wrapped onto the next row, or, for a continuation row, the rest of the  *)
(* wrapped option.  The ref_ variables collect that meaning in lockstep    *)
(* with the scan, as spec.md section 4.5 describes it.                     *)
(***************************************************************************)
EXTENDS Naturals, Sequences, FiniteSets, PyStr

CONSTANTS Bar, Sp, Dash, Q,  \* the symbols '|', ' ', '-' and '"'
          Letters,           \* the other symbols
          Words,             \* option and topic names
          Usage,             \* the topic name "usage"
          Skipped,           \* "help", "version", "verbose"
          Rows,              \* the rows a usage table may contain
          Basenames

(* A name is letters with inner dashes, like map-by.                       *)
Name == Seq(Letters \cup {Dash})

ASSUME Words \subseteq Name /\ Usage \in Words /\ Skipped \subseteq Words

(* A row: its text and the options it is meant to list.  opts are the      *)
(* options of the row read on its own, stash the wrapped prefix it leaves  *)
(* pending (<<>> if none), rest what it completes when it continues one.   *)
ASSUME \A r \in Rows : r.text[1] = Bar

Line == [kind : {"blank", "comment", "other"}]
          \cup [kind : {"header"}, topic : Words]
          \cup [kind : {"row"}, row : Rows]

VARIABLES base,          \* os.path.basename(hlp) of the file being read
          topics,        \* topic names seen so far in this file
          options,       \* options collected so far in this file
          inUsage,
          continuation,
          optstart,
          citations,     \* the shared citation list (as a set)
          pc,            \* "scan" or "crashed" (IndexError)
          ref_options, ref_pending, ref_prefix

vars == <<base, topics, options, inUsage, continuation, optstart, citations,
          pc, ref_options, ref_pending, ref_prefix>>

-----------------------------------------------------------------------------
(***************************************************************************)
(* One usage row, lines 270-309.  The result says whether a Python index   *)
(* is out of range (IndexError), which options the row appends, and the    *)
(* continuation state after it.                                            *)
(***************************************************************************)

(* optend, backed up over one closing quote (lines 274-276, 297-298).      *)
BackUpQuote(l, optend) ==
  IF PyIndexOK(l, optend - 1) /\ PyIndex(l, optend - 1) = Q
    THEN optend - 1 ELSE optend

(* The continuation slice starts at the row's bar: line[1:optend].         *)
ContinuationRowFrom1(l, entryend, ostart) ==
  LET optend0 == PyFind(l, Sp, 2, entryend)
      optend  == BackUpQuote(l, optend0)
  IN [crash |-> ~PyIndexOK(l, optend0 - 1),
      opts  |-> <<ostart \o PySlice(l, 1, optend)>>,
      continuation |-> FALSE, optstart |-> ostart]

(* The flag is left set after a continuation row (no reset at line 279). *)
ContinuationRowKeepsFlag(l, entryend, ostart) ==
  LET optend0 == PyFind(l, Sp, 2, entryend)
      optend  == BackUpQuote(l, optend0)
  IN [crash |-> ~PyIndexOK(l, optend0 - 1),
      opts  |-> <<ostart \o PySlice(l, 2, optend)>>,
      continuation |-> TRUE, optstart |-> ostart]

(* A continuation row, lines 272-280: the prefix and the row's first word. *)
ContinuationRow(l, entryend, ostart) ==
  LET optend0 == PyFind(l, Sp, 2, entryend)
      optend  == BackUpQuote(l, optend0)
  IN [crash |-> ~PyIndexOK(l, optend0 - 1),
      opts  |-> <<ostart \o PySlice(l, 2, optend)>>,
      continuation |-> FALSE, optstart |-> ostart]

(* The long option after "--", lines 291-309.                              *)
LongOption(l, entryend, shorts, ostart) ==
  LET opt0 == PyFindPair(l, Dash, Dash, 2, entryend)
      opt  == opt0 + 2
      e0   == PyFind(l, Sp, opt + 1, entryend)
      e1   == BackUpQuote(l, e0)
      word == PySlice(l, opt, e1)
  IN CASE opt0 = -1 ->
            [crash |-> FALSE, opts |-> shorts,
             continuation |-> FALSE, optstart |-> ostart]
       [] ~PyIndexOK(l, e0 - 1) \/ ~PyIndexOK(l, e1 - 1) ->
            [crash |-> TRUE, opts |-> shorts,
             continuation |-> FALSE, optstart |-> ostart]
       [] PyIndex(l, e1 - 1) = Dash ->
            [crash |-> FALSE, opts |-> shorts,
             continuation |-> TRUE, optstart |-> word]
       [] OTHER ->
            [crash |-> FALSE,
             opts |-> IF word \in Skipped THEN shorts ELSE Append(shorts, word),
             continuation |-> FALSE, optstart |-> ostart]

(* A row outside a continuation, lines 282-309: a single-dash option first *)
(* (its letter; the bar search then restarts at opt+6), then the long one. *)
OptionRow(l, entryend, ostart) ==
  LET opt   == PyFind(l, Dash, 2, entryend)
      short == PyIndexOK(l, opt + 1) /\ PyIndex(l, opt + 1) # Dash
  IN CASE opt = -1 ->
            [crash |-> FALSE, opts |-> <<>>,
             continuation |-> FALSE, optstart |-> ostart]
       [] ~PyIndexOK(l, opt + 1) ->
            [crash |-> TRUE, opts |-> <<>>,
             continuation |-> FALSE, optstart |-> ostart]
       [] short ->
            LongOption(l, PyFindFrom(l, Bar, opt + 6),
                       <<<<PyIndex(l, opt + 1)>>>>, ostart)
       [] OTHER -> LongOption(l, entryend, <<>>, ostart)

ScanRow(l, cont, ostart) ==
  LET entryend == PyFindFrom(l, Bar, 2)
  IN IF cont THEN ContinuationRow(l, entryend, ostart)
             ELSE OptionRow(l, entryend, ostart)

(* The prefixes a row can leave pending, and ScanRow tabulated over them   *)
(* once, so that the check does not rescan a row at every state.           *)
Prefixes == {<<>>} \cup {r.stash : r \in Rows}

ScanOf == [k \in Rows \X BOOLEAN \X Prefixes |-> ScanRow(k[1].text, k[2], k[3])]

Scan(r, cont, ostart) ==
  IF ostart \in Prefixes THEN ScanOf[<<r, cont, ostart>>]
                         ELSE ScanRow(r.text, cont, ostart)

Elems(s) == {s[i] : i \in DOMAIN s}

(* What the row means, after a row that left prefix pending or not.        *)
IntendedRow(r, pending, prefix) ==
  IF pending
    THEN [opts |-> <<prefix \o r.rest>>, pending |-> FALSE, prefix |-> prefix]
    ELSE [opts |-> r.opts, pending |-> r.stash # <<>>,
          prefix |-> IF r.stash # <<>> THEN r.stash ELSE prefix]

-----------------------------------------------------------------------------
(* The reference reading of one line, spec.md section 4.5.                 *)
RefStep(l) ==
  LET m == IntendedRow(l.row, ref_pending, ref_prefix)
  IN IF l.kind = "row" /\ inUsage
       THEN /\ ref_options' = ref_options \cup Elems(m.opts)
            /\ ref_pending' = m.pending
            /\ ref_prefix' = m.prefix
       ELSE UNCHANGED <<ref_options, ref_pending, ref_prefix>>

(* Rows are written as the table format intends: while an option is        *)
(* wrapped, the next usage row is its continuation, and only then.         *)
Conventional(l) ==
  l.kind = "row" /\ inUsage => (ref_pending <=> l.row.kind = "cont")

-----------------------------------------------------------------------------
(***************************************************************************)
(* Actions: one per branch of the per-line loop, lines 250-309, and the    *)
(* end of a file, lines 310-318 with the resets of lines 243-249.          *)
(***************************************************************************)

Init ==
  /\ base \in Basenames
  /\ topics = {} /\ options = {}
  /\ inUsage = FALSE /\ continuation = FALSE /\ optstart = <<>>
  /\ citations = {} /\ pc = "scan"
  /\ ref_options = {} /\ ref_pending = FALSE /\ ref_prefix = <<>>

(* Blank lines, other text, and rows outside the usage section, lines      *)
(* 252-253 and 265-268.                                                    *)
SkipLine(l) ==
  /\ \/ l.kind \in {"blank", "other"}
     \/ l.kind = "row" /\ ~inUsage
  /\ UNCHANGED <<base, topics, options, inUsage, continuation, optstart,
                 citations, pc>>

(* A comment line ends the usage section, lines 254-255.                   *)
CommentLine(l) ==
  /\ l.kind = "comment"
  /\ inUsage' = FALSE
  /\ UNCHANGED <<base, topics, options, continuation, optstart, citations, pc>>

(* A [topic] header, lines 256-264; [usage] opens the usage section, any  *)
(* other header leaves inUsage as it is.                                  *)
HeaderLine(l) ==
  /\ l.kind = "header"
  /\ topics' = topics \cup {l.topic}
  /\ inUsage' = (inUsage \/ l.topic = Usage)
  /\ UNCHANGED <<base, options, continuation, optstart, citations, pc>>

(* A row of the usage table, lines 269-309.                                *)
UsageRow(l) ==
  /\ l.kind = "row" /\ inUsage
  /\ LET res == Scan(l.row, continuation, optstart)
     IN IF res.crash
          THEN pc' = "crashed"
               /\ UNCHANGED <<options, continuation, optstart>>
          ELSE /\ options' = options \cup Elems(res.opts)
               /\ continuation' = res.continuation
               /\ optstart' = res.optstart
               /\ UNCHANGED pc
  /\ UNCHANGED <<base, topics, inUsage, citations>>

ReadLine ==
  /\ pc = "scan"
  /\ \E l \in Line :
       /\ Conventional(l)
       /\ SkipLine(l) \/ CommentLine(l) \/ HeaderLine(l) \/ UsageRow(l)
       /\ RefStep(l)

(* Cite every option that is a topic of the same file, lines 310-318,     *)
(* then start the next file with fresh per-file state (lines 242-249).    *)
EndFile ==
  /\ pc = "scan"
  /\ citations' = citations \cup {<<base, o>> : o \in options \cap topics}
  /\ base' \in Basenames
  /\ topics' = {} /\ options' = {} /\ inUsage' = FALSE /\ continuation' = FALSE
  /\ ref_options' = {} /\ ref_pending' = FALSE
  /\ UNCHANGED <<optstart, pc, ref_prefix>>

(* The script died of an IndexError.                                       *)
Terminated == pc = "crashed" /\ UNCHANGED vars

Next == ReadLine \/ EndFile \/ Terminated

Spec == Init /\ [][Next]_vars

-----------------------------------------------------------------------------
TypeOK ==
  /\ base \in Basenames
  /\ topics \subseteq Words /\ options \subseteq Name
  /\ inUsage \in BOOLEAN /\ continuation \in BOOLEAN
  /\ optstart \in Name
  /\ citations \subseteq Basenames \X Name
  /\ pc \in {"scan", "crashed"}

(* After every line, the options the scan has collected from this file,    *)
(* and a pending wrapped option, are those the table's rows list: the      *)
(* str.find bounds, the opt+6 restart after a short option and the quote   *)
(* back-up of lines 270-309 take each option whole.                        *)
OptionsAsIntended ==
  pc = "scan" =>
    /\ options = ref_options
    /\ continuation = ref_pending
    /\ (ref_pending => optstart = ref_prefix)

(* Reading a tool help file never raises IndexError.                       *)
NoIndexError == pc # "crashed"

====
