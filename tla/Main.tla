------------------------------- MODULE Main -------------------------------
(***************************************************************************)
(* main (prte-convert-help.py lines 432-484).  argparse reads --purge and  *)
(* --dryrun (--root and --out are required); the run checks that           *)
(* <root>/src/util/prte_cmd_line.h exists, calls parse_cmd_line_options on *)
(* it and find_files on <root>/src, the three parsers on the lists, purge  *)
(* when asked, and writes the generated table to --out unless it is a dry  *)
(* run.                                                                    *)
(*                                                                         *)
(* Options and FindFiles are composed step by step, each with its own      *)
(* state.  The later calls are modelled by how they end, which is all main *)
(* sees of them: each returns, raises, or exits (their insides are the     *)
(* modules HelpParse, SrcScan, ToolScan, Purge and CodeGen).  A call over  *)
(* an empty list returns.  The output file is "old" (what a previous build *)
(* left), "raw" or "purged" (this run's table of parsed_data or of purge's *)
(* result), or "truncated" (opened for writing, the write failed).  An     *)
(* uncaught exception ends the process with status 1.                      *)
(***************************************************************************)
EXTENDS Integers, Sequences

CONSTANTS Sp, Tab, Q, Define, Letters, Lines, MaxLines,
          Dirs, Root, Parent, DirName, Files, RootPath, Sep, Markers, SkipDirs

VARIABLES options, nread, opt_done, ref_options,
          todo, help_files, source_files, tool_help_files, tool_source_files,
          failed, walk_done,
          phase,      \* the call main is in, or "end"
          purge_opt,  \* args.purge
          dryrun,     \* args.dryrun
          outdata,    \* "none", "raw" (parsed_data) or "purged"
          out,        \* the file at args.out
          status      \* the exit status, NoExit while running

opt_vars  == <<options, nread, opt_done, ref_options>>
walk_vars == <<todo, help_files, source_files, tool_help_files, tool_source_files,
               failed, walk_done>>
run_vars  == <<phase, purge_opt, dryrun, outdata, out, status>>
vars == <<opt_vars, walk_vars, run_vars>>

Opt  == INSTANCE Options WITH done <- opt_done
Walk == INSTANCE FindFiles WITH done <- walk_done

NoExit == -1

(* Lines 467-471: the parser calls in main's order.                        *)
Calls == <<"help", "tool_help", "src", "tool_src", "tool">>

Phases == {"args", "check", "options", "walk", "outdata", "purge", "gen", "end"}
            \cup {Calls[i] : i \in DOMAIN Calls}

(* The call after Calls[i]; after the last, the choice of lines 472-475.   *)
After(i) == IF i < Len(Calls) THEN Calls[i + 1] ELSE "outdata"

(* End the process with exit status s.                                     *)
Stop(s) == phase' = "end" /\ status' = s

Init ==
  /\ Opt!Init /\ Walk!Init
  /\ phase = "args" /\ purge_opt = FALSE /\ dryrun = FALSE
  /\ outdata = "none" /\ out = "old" /\ status = NoExit

(* Line 449: --root or --out missing; argparse exits with status 2.       *)
ArgsRejected ==
  /\ phase = "args" /\ Stop(2)
  /\ UNCHANGED <<opt_vars, walk_vars, purge_opt, dryrun, outdata, out>>

ArgsParsed ==
  /\ phase = "args" /\ phase' = "check"
  /\ \E p, d \in BOOLEAN : purge_opt' = p /\ dryrun' = d
  /\ UNCHANGED <<opt_vars, walk_vars, outdata, out, status>>

(* Lines 459-462: prte_cmd_line.h is missing; exit(1).                    *)
CmdLineMissing ==
  /\ phase = "check" /\ Stop(1)
  /\ UNCHANGED <<opt_vars, walk_vars, purge_opt, dryrun, outdata, out>>

(* Line 464: the file is there and is parsed.                              *)
CmdLineFound ==
  /\ phase = "check" /\ phase' = "options"
  /\ UNCHANGED <<opt_vars, walk_vars, purge_opt, dryrun, outdata, out, status>>

OptionsStep ==
  /\ phase = "options"
  /\ Opt!ReadLine
  /\ UNCHANGED <<walk_vars, run_vars>>

(* Line 466: parse_cmd_line_options has returned; find_files starts.      *)
OptionsDone ==
  /\ phase = "options"
  /\ Opt!Return
  /\ phase' = "walk"
  /\ UNCHANGED <<walk_vars, purge_opt, dryrun, outdata, out, status>>

WalkStep ==
  /\ phase = "walk"
  /\ Walk!Visit \/ Walk!ListingFails
  /\ UNCHANGED <<opt_vars, run_vars>>

(* find_files' own check of lines 46-49 fails: <root>/src was found at    *)
(* line 459 but is gone (the tree removed or replaced while the build ran) *)
(* when find_files starts; it prints and exits(1).                         *)
WalkRootMissing ==
  /\ phase = "walk"
  /\ Walk!RootMissing
  /\ Stop(1)
  /\ UNCHANGED <<opt_vars, purge_opt, dryrun, outdata, out>>

(* Line 466: the four lists are returned; the first parser call starts.   *)
WalkDone ==
  /\ phase = "walk"
  /\ Walk!Return
  /\ phase' = Calls[1]
  /\ UNCHANGED <<opt_vars, purge_opt, dryrun, outdata, out, status>>

(* Lines 467-471: the current parser call returns.                         *)
CallReturns ==
  /\ \E i \in DOMAIN Calls : phase = Calls[i] /\ phase' = After(i)
  /\ UNCHANGED <<opt_vars, walk_vars, purge_opt, dryrun, outdata, out, status>>

(* The parser calls that can raise, over a non-empty list: an #include     *)
(* outside a section reaches the failing write of line 112 in either       *)
(* parse_help_files call, a bare '|' row after a wrapped option the        *)
(* IndexError of line 275 in parse_tool_files.  parse_src_files does not   *)
(* raise.                                                                  *)
CallRaises ==
  /\ \/ phase = "help" /\ help_files # <<>>
     \/ phase \in {"tool_help", "tool"} /\ tool_help_files # <<>>
  /\ Stop(1)
  /\ UNCHANGED <<opt_vars, walk_vars, purge_opt, dryrun, outdata, out>>

(* Lines 472-475: purge's result, or parsed_data itself, is outdata.      *)
ChooseOutdata ==
  /\ phase = "outdata"
  /\ IF purge_opt THEN phase' = "purge" /\ outdata' = outdata
                  ELSE phase' = "gen" /\ outdata' = "raw"
  /\ UNCHANGED <<opt_vars, walk_vars, purge_opt, dryrun, out, status>>

(* Line 390: purge returns the pruned corpus.                              *)
PurgeReturns ==
  /\ phase = "purge" /\ phase' = "gen" /\ outdata' = "purged"
  /\ UNCHANGED <<opt_vars, walk_vars, purge_opt, dryrun, out, status>>

(* Lines 385-386 and 373: purge exits on a defect of a file, or raises     *)
(* UnboundLocalError when the citation list is empty.  Over an empty       *)
(* corpus its loop does not run and it returns.                            *)
PurgeFails ==
  /\ phase = "purge" /\ help_files \o tool_help_files # <<>>
  /\ Stop(1)
  /\ UNCHANGED <<opt_vars, walk_vars, purge_opt, dryrun, outdata, out>>

(* A write error that does not end the run: the table is reported written. *)
GenerateIgnoresWriteError ==
  /\ phase = "gen" /\ ~dryrun
  /\ \/ out' = outdata /\ Stop(0)
     \/ out' = out /\ Stop(1)
     \/ out' = "truncated" /\ Stop(0)
  /\ UNCHANGED <<opt_vars, walk_vars, purge_opt, dryrun, outdata>>

(* Lines 477-481: the table is generated first, then open(args.out, "w")   *)
(* truncates the file and f.write writes it.  open can fail (the file is   *)
(* left as it was) and so can the write (the file is left truncated); both *)
(* raise.                                                                  *)
Generate ==
  /\ phase = "gen" /\ ~dryrun
  /\ \/ out' = outdata /\ Stop(0)
     \/ out' = out /\ Stop(1)
     \/ out' = "truncated" /\ Stop(1)
  /\ UNCHANGED <<opt_vars, walk_vars, purge_opt, dryrun, outdata>>

(* Line 477: a dry run returns from main without writing.                  *)
DryRunEnds ==
  /\ phase = "gen" /\ dryrun /\ Stop(0)
  /\ UNCHANGED <<opt_vars, walk_vars, purge_opt, dryrun, outdata, out>>

Terminated == phase = "end" /\ UNCHANGED vars

Next == ArgsRejected \/ ArgsParsed \/ CmdLineMissing \/ CmdLineFound
          \/ OptionsStep \/ OptionsDone \/ WalkStep \/ WalkRootMissing \/ WalkDone
          \/ CallReturns \/ CallRaises \/ ChooseOutdata
          \/ PurgeReturns \/ PurgeFails \/ Generate \/ DryRunEnds
          \/ Terminated

Spec == Init /\ [][Next]_vars

-----------------------------------------------------------------------------
TypeOK ==
  /\ Opt!TypeOK /\ Walk!TypeOK
  /\ phase \in Phases /\ purge_opt \in BOOLEAN /\ dryrun \in BOOLEAN
  /\ outdata \in {"none", "raw", "purged"}
  /\ out \in {"old", "raw", "purged", "truncated"}
  /\ status \in {NoExit, 0, 1, 2}
  /\ (status = NoExit) = (phase # "end")

(* parse_cmd_line_options, spec.md section 4.1: the options returned are   *)
(* the declared (name, value) pairs of the #define lines, for lines with   *)
(* one space after the keyword (see Options).                              *)
OptionsAsDeclared == Opt!OptionsAsDeclared

(* find_files, whatever the listing order and whichever listings fail:     *)
(* the parsers receive each help and source file of every listed directory *)
(* outside .git once, and nothing else.  Once is what parse_help_files     *)
(* relies on: a path it stores twice reaches the failing write of line 149.*)
FoundAllListed == Walk!FoundAllListed

(* The build trusts main's exit status (spec.md section 7: a failed run    *)
(* leaves no partial output).  When main has ended with status 0, the file *)
(* at --out is untouched by a dry run, and otherwise holds this run's      *)
(* whole table, of purge's result exactly when --purge was given; a run    *)
(* that leaves the file truncated, or any other run with a non-zero        *)
(* status, is one the build sees fail.                                     *)
ExitStatusTruthful ==
  phase = "end" =>
    \/ status = 0 /\ dryrun /\ out = "old"
    \/ status = 0 /\ ~dryrun /\ out = IF purge_opt THEN "purged" ELSE "raw"
    \/ status # 0 /\ out \in {"old", "truncated"}

====
