# TLA+ models of `prte-convert-help.py`

`src/src/util/prte-convert-help.py` builds PRRTE's show-help table. It reads
every `help-*.txt` INI file under `<root>/src`. It collects the
(file, topic) citations that the C sources and the tool usage tables make. With
`--purge` it refuses to continue when a topic is unused. It then writes a C
file that holds every file's sections. The program is one sequential process,
so its hard behaviour lies in the order of its steps and its per-line scanner
state, not in concurrency. That means Python string-index edge cases (`find`
returning -1, negative indices), state left over from one line or file to the
next, a crash part-way through a pass, and an exit after part of the corpus.

## Components and how they interact

`main` (lines 432-484) runs these steps in a fixed order (459-481):

| Component | Code | State | Operations |
|---|---|---|---|
| Option Extractor | `parse_cmd_line_options` 17-42 | `options` list | one step per line; main never reads the result |
| Tree Scanner | `find_files` 44-94 | four path lists, `os.walk`'s stack | list a directory, prune, classify each file by name and path substring |
| Help-File Parser | `parse_help_files` 96-156 | `sections`, `current_section`, shared `data` and `citations` | skip, include, comment, header, content line; store the file |
| Source Citation Scanner | `parse_src_files` 158-238 | `cont_topic`, `cont_filename`, `filename`, `citations` | comment skip, topic continuation, filename continuation, call marker |
| Tool Usage Scanner | `parse_tool_files` 240-318 | `topics`, `options`, `inUsage`, `continuation`, `optstart` | header, comment, usage row, continuation row, match options to topics |
| Purge | `purge` 322-390 | `result_data`, `result_sections`, `errorFound` | per section: duplicate scan, exemption, citation search; per file: empty check, exit |
| Code Generator | `generate_c_code` 392-428 | the table text | per file, section and content line: escape and emit, NULL sentinels |
| Driver | `main` 432-484 | the flags, `outdata`, the file at `--out`, the exit status | parse arguments, check `prte_cmd_line.h`, call each component, choose `outdata`, write the table |

`find_files` produces the file lists. The parsers all append to one
`citations` list and one `parsed_data` dict. Purge reads both of them. Its
result, or `parsed_data` itself without `--purge`, goes to the generator.

## Modules

| Module | Models | State ↔ code |
|---|---|---|
| `PyStr` | Python `str.find` (one- and two-character needles), slicing, indexing, `replace`, `strip` | CPython's bound clamping and negative indices over sequences of symbols |
| `Options` | `parse_cmd_line_options` | `options` is the list. `ReadLine` is one loop iteration (`Extract`: strip, `#define` test, name from index 8 to the next space, value between the next two quotes). `ref_options` is spec.md §4.1's reading of the same lines. |
| `FindFiles` | `find_files` | `todo` is `os.walk`'s stack of directories. The four lists are the code's. `Visit` lists one directory in any order, prunes `.git`/`.libs`/`.deps` and classifies its files. `ListingFails` is `os.walk` dropping a directory it cannot list (no `onerror`). `RootMissing` is the check of lines 46-49 failing before the walk starts. Names are token strings, so the marker test is a substring test. |
| `Main` | `main` | Composes `Options` and `FindFiles` step by step (`INSTANCE ... WITH done <- ...`) after argparse and the `prte_cmd_line.h` check. `WalkRootMissing` is `find_files`' own root check failing because `<root>/src` vanished after line 459. Each later call is one action per way it ends: `CallReturns`, `CallRaises` (the `TypeError` of line 112, the `IndexError` of 275, only over a non-empty list), `PurgeReturns`/`PurgeFails`. `ChooseOutdata` is 472-475. `Generate` is 477-481 with its three outcomes: written, `open` failing (file untouched), the write failing after `open` truncated the file. `status` is the exit status. |
| `HelpParse` | `parse_help_files` | `files`/`fidx` are the outer loop. `current`, `sections`, `data` and `citations` are the code's variables. Each action is one branch of the per-line body and takes the next line as it is read; `lines` and `read` keep the lines read as history. An `#include` line is a string of symbols decomposed by the code's `find` calls (`IncludeCitation`). `EndFile` is the per-file store at 148-151. |
| `SrcScan` | `parse_src_files` | `cont_topic`, `cont_filename`, `filename` and `citations` are the code's variables. `emitted` holds what the last line appended. A line is a token sequence: a quote, or one word standing for a run of non-quote characters. Every `find` has the code's bounds. The `ref_*` variables run spec.md §4.4's scanner in lockstep. |
| `ToolScan` | `parse_tool_files` | `topics`, `options`, `inUsage`, `continuation`, `optstart` and `citations` are the code's. A usage row is a string of symbols scanned with the code's `find` bounds; its record also carries what the row was written to mean. The `ref_*` variables collect that meaning in lockstep. The reference takes the code's `inUsage`: spec.md §4.5 defines the usage section the same way (from `[usage]` to the next `#` line or the end of the file), so the property checks the option extraction, not the section tracking. `pc` becomes `crashed` on an `IndexError`. |
| `PurgeGate` | what purge promises | `outcome`: exit(1) or return; `output`: the dict handed on. The set of defective corpora is the constant operator `Defective`. |
| `Purge` | `purge` | `fi`/`si` are the two loop positions. `result_sections`, `result_data` and `errorFound` are the code's locals. `reports` is the set of stderr diagnostics. `CheckSection` is one iteration of the loop at 338. `EndFile` is 378-386. `Return` is 388-390. |
| `CodeGen` | `generate_c_code` | `corpus` is what the loops have read so far, `table` what they have emitted: the same shape, each content line as the symbols between the quotes of line 415. `Escape` is line 414's `replace` chain. `CLiteral` is what a C compiler reads from a literal. |

Purge is shown to implement `PurgeGate` by
`CodeGate == INSTANCE PurgeGate WITH Defective <- CodeDefective, outcome <- Outcome, output <- Output`.
The abstract spec is the property `CodeGateSpec`. Instantiating the gate with
`SpecDefective` (the defects spec.md lists) gives `SpecGateSpec`, which fails.

## Runs

| Run | Checks | Result |
|---|---|---|
| `purge` | TypeOK, DiagnosedExit (every unused topic of the visited files is reported before the exit), ExitAtFirstDefect, CodeGateSpec (refinement) | pass |
| `purge_spec_gate` | SpecGateSpec | violation: two files declare `t1`, purge returns (line 348) |
| `purge_failure_diagnosed` | FailureDiagnosed | violation: empty citations → `UnboundLocalError` at 373 with no report |
| `help_parse` | TypeOK, ParsedAsDeclared (sections = the declarative reading of each file), CitedAsDeclared (citations = what each include means, plus its self-citation) | pass, ≈690k states |
| `help_include_outside` | IncludeNeverAborts | violation: `sys.stderr.write` with three args raises at 112 |
| `src_scan` | TypeOK, ScanMatchesSpec | pass on conventional input |
| `src_scan_stale` | CitationsMatchSpec | violation: `cont_filename` survives quote-less lines and picks up a phantom citation |
| `tool_scan` | TypeOK, OptionsAsIntended (the options are those the rows were written to carry, and a pending wrapped prefix is the intended one) | pass, ≈12.5k states |
| `tool_scan_bare_row` | NoIndexError | violation: a bare `\|` row after a wrapped option reads `line[-2]` (line 275) |
| `code_gen` | TableDecodes (every literal reads back in C as its line, `\;` as `;`) | pass, ≈1M states |
| `code_gen_backslash` | TableDecodes | violation: a line ending in `\` gives the unterminated literal `"\",` (line 414) |
| `main` | TypeOK, OptionsAsDeclared, FoundAllListed (each help and source file of every listed directory outside `.git`, once, in any listing order, with any listings failing), ExitStatusTruthful (status 0 means the output is untouched by a dry run or is this run's whole table, purged exactly with `--purge`; a truncated file always comes with a non-zero status) | pass, ≈533k states |

The findings in `PROJECT.json` explain each violation. The hazards list says
which property covers each hazard, and, where the pass run's bounds leave a
hazard out, which input makes the property fail: an `#include` with one `#`
field (line 122), a long option written against the next `|` (296), a
tab or a second space after `#define` (28; `OptionsAsDeclared` is stated
for lines with one space after the keyword), a topic literal at the very end
of a line (176), a blank line inside a help-file section, which the code keeps
as content and spec.md §4.3/§8 drops (146; `ParsedAsDeclared` follows the
code). These are real divergences too; the project keeps at most twelve runs,
so they are stated there, not run.

Every property of a passing run has a mutant: a plausible bug in one mapped
definition, written as an operator just before it. TLC finds the property
violated when that operator replaces the definition.

## Bounds

* **Purge:** up to two files with up to two sections each, drawn from two
  ordinary topics, one special topic and two contents. Paths may share a
  basename. Every citation set over those names is enumerated. This covers a
  shared topic, a shared basename, an empty file, a special topic, an empty
  citation list, and an error in the first versus the second file.
* **HelpParse:** two files of up to three lines. Each line is one of the six
  kinds over two names, one text and two include texts (two- and three-field).
  Three lines are enough for header–include–comment and for a repeated header.
* **SrcScan:** every line of up to 8 tokens with an even number of quotes,
  because C string literals close on their line.
* **ToolScan:** rows with and without a short option, three long options (one
  of them a skipped standard option, one with an inner dash), quoted, wrapped
  and continuation rows, two separators and two tails, one basename; files
  of any length (the state space is finite).
* **CodeGen:** two files, two sections, one line per section, each line up to
  two tokens over a plain character, a quote, `;` and `\;`; the violation run
  adds a lone `\` and `\n`.
* **Main:** both flags, every way each call can end, up to three
  `#define` lines out of 28, and a six-directory tree with `.git`,
  `tools/`, `schizo/prte/` and an ordinary directory, with
  two help files in one directory so that listing order matters. The tree
  holds help files in `tools/` and elsewhere, so both `parse_help_files`
  calls and `parse_tool_files` can raise.

## Fairness

No run needs fairness, and none states liveness. Every loop of the program
runs over a finite list or file, and `main` is straight-line code that calls
each component once, so "the run ends" holds by the shape of every model and
no plausible change to this code breaks it. Every property is a safety
property. Deadlock is checked: a terminal state stutters through a
`Terminated` action.

## Not modelled

* `main`'s verbose prints; the generator's header text and the file and
  array names (395-408, 419-421) are layout.
* The parsers' and purge's insides inside `Main`: `Main` models each call by
  how it ends, and the components are checked one by one with their own
  inputs. Feeding one enumerated tree's files through every parser at once
  is far past TLC's reach at any useful bound. The one assumption the
  composition rests on, that the walk lists a path once (a path stored twice
  reaches the failing write of line 149), is checked in `main`.
