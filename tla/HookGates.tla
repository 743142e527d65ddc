--------------------------------- MODULE HookGates ---------------------------------
(***************************************************************************)
(* The two checks of the workflow precommit-parity-gate, which keep the    *)
(* local hooks of .pre-commit-config.yaml and CI from drifting apart, as   *)
(* predicates of a repository state.                                       *)
(*                                                                         *)
(* A line of a script is the set of the marks it holds: "exit0",           *)
(* "notfound", "skipvar" (a variable named like SKIP or BYPASS), "cond"    *)
(* (if or &&) and "ok" (fail-loud-ok).  A hook has its language, the line  *)
(* of its entry, the scripts named there in order, and its stages; a hook  *)
(* that names no stage has the file's default_stages.                      *)
(***************************************************************************)
EXTENDS Naturals, Sequences

CONSTANTS
  Window,       \* 6: the lines looked back from an exit 0
  NoPin

ASSUME WindowAssumption == Window \in Nat

-----------------------------------------------------------------------------
(* validate_precommit_fail_loud.py *)

\* Some line of the window holds the mark and is not a reviewed exception.
Marked(text, from, to, mark) == \E j \in from..to : mark \in text[j] /\ "ok" \notin text[j]

\* An exit 0 that follows a missing prerequisite, or that a bypass variable leads to.
FalseGreen(text, i) ==
  LET from == IF i > Window THEN i - Window ELSE 1
  IN  /\ "exit0" \in text[i] /\ "ok" \notin text[i]
      /\ \/ Marked(text, from, i, "notfound")
         \/ /\ Marked(text, from, i, "skipvar")
            /\ \E j \in from..i : "cond" \in text[j]

ScanLineByLine(text) ==   \* mutant: only the line of the exit itself is looked at
  {i \in DOMAIN text : {"exit0", "notfound"} \subseteq text[i] /\ "ok" \notin text[i]}

ScanText(text) == {i \in DOMAIN text : FalseGreen(text, i)}

\* The hooks of this repository's own that run a command; of the scripts an entry names,
\* only the first is read.
CheckFailLoud(repo) ==
  \A h \in repo.hooks :
    h.language \in {"system", "script"} =>
      /\ ScanText(<<h.entry>>) = {}
      /\ h.runs # <<>> => ScanText(repo.scripts[Head(h.runs)]) = {}

\* Each stage a hook names is installed, except the opt-in stage.
CheckStageCoverage(repo) ==
  (UNION {h.stages : h \in repo.hooks}) \ {"manual"} \subseteq repo.installed

FailLoudGate(repo) == CheckFailLoud(repo) /\ CheckStageCoverage(repo)

-----------------------------------------------------------------------------
(* validate_precommit_pin_parity.py *)

\* The revisions of the shared validator that ci.yml pins, wherever it names one.
CIPins(repo) == {repo.ciPin, repo.ciPin2} \ {NoPin}

PinParityFirst(repo) ==   \* mutant: only ci.yml's first pin is compared
  repo.hookPin # NoPin /\ repo.ciPin = repo.hookPin

PinParityGate(repo) == repo.hookPin # NoPin /\ CIPins(repo) = {repo.hookPin}
====================================================================================
