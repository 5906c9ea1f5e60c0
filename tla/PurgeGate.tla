----------------------------- MODULE PurgeGate -----------------------------
(***************************************************************************)
(* What the purge pass of prte-convert-help.py promises, in one step: it   *)
(* is a build gate.  Given the parsed help corpus and the citation list,   *)
(* either the corpus is defective and the process exits with status 1, or  *)
(* it is not and the corpus is handed on to the code generator.  Which     *)
(* corpora count as defective is the parameter Defective: the purge module *)
(* instantiates it once with the defects the code detects and once with    *)
(* the defects spec.md section 4.6 lists.                                  *)
(***************************************************************************)

CONSTANT Defective(_, _, _)   \* Defective(corpus, citations, base)

VARIABLES corpus,      \* the parsed corpus, input of the pass
          citations,   \* the citation list, input of the pass
          base,        \* path -> basename
          outcome,     \* "running", "returned" or "exit"
          output       \* the corpus handed to the code generator

vars == <<corpus, citations, base, outcome, output>>

Init ==
  /\ outcome = "running"
  /\ output = <<>>

(* The whole pass, as one atomic decision.                                 *)
Decide ==
  /\ outcome = "running"
  /\ IF Defective(corpus, citations, base)
       THEN outcome' = "exit" /\ output' = <<>>
       ELSE outcome' = "returned" /\ output' = corpus
  /\ UNCHANGED <<corpus, citations, base>>

Next == Decide

Spec == Init /\ [][Next]_vars

=============================================================================
