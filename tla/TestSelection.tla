-------------------------------- MODULE TestSelection --------------------------------
(***************************************************************************)
(* The change-aware tests of CI: scripts/ci/detect_test_paths.py maps the  *)
(* changed files to the test directories to run, and ci.yml runs them in   *)
(* parallel groups between the validate job and the two gates.  A pull     *)
(* request grows file by file, the variable ENABLE_SMART_TESTS may be      *)
(* changed at any time, and every job may fail or be cancelled.            *)
(*                                                                         *)
(* A file is known by where it is: [in |-> "src", of |-> m] is any file of *)
(* the package's module m, [in |-> "tests", of |-> m] any file below       *)
(* src/omnibase_compat/tests/<m>; "infra" is one of the paths that force   *)
(* the whole suite, "other" any file outside the package.                  *)
(***************************************************************************)
EXTENDS Naturals, FiniteSets

CONSTANTS
  Modules,
  Adjacent,     \* the modules that have an entry in the adjacency map
  ReverseDeps,  \* ReverseDeps[m]: the modules that the entry of m lists
  Shared,       \* the modules whose change escalates to the whole suite
  Threshold,    \* so do this many changed modules
  TestDirs,     \* the modules m for which src/omnibase_compat/tests/<m>/ exists
  Top,          \* the test root tests/, outside the package
  FullSplits,   \* the groups a full suite is split into (4)
  Files,
  MaxFiles      \* bound: files changed by one pull request

\* The checks of the adjacency map when it is loaded.
ValidMap ==
  /\ Shared \subseteq Adjacent
  /\ ReverseDeps \in [Adjacent -> SUBSET Adjacent]
  /\ Threshold \in Nat \ {0}

ASSUME MapAssumption == ValidMap

ASSUME FilesAssumption ==
  /\ Adjacent \subseteq Modules /\ TestDirs \subseteq Modules /\ Top \notin Modules
  /\ Files \subseteq [in : {"src", "tests", "infra", "other"}, of : Modules]
  /\ FullSplits \in Nat \ {0} /\ MaxFiles \in Nat

VARIABLES
  diff,      \* the files the pull request changes
  flag,      \* vars.ENABLE_SMART_TESTS == 'true'
  run        \* the latest CI run of the head commit, or NoRun

vars == <<diff, flag, run>>

\* "whole": a merge-queue entry, the nightly schedule, or any run on the branch main;
\* "push": a push to dev or a hotfix branch, or a dispatch there.
Events == {"pull_request", "push", "whole"}
NoRun == [event |-> "none"]

-----------------------------------------------------------------------------
(* detect_test_paths.py *)

\* Both test roots, as pyproject.toml's testpaths lists them.
CollectedTestRoots == TestDirs \cup {Top}

OneRoot == TestDirs   \* mutant: the full-suite step names a path (before OMN-15541)

\* The tests that pytest collects when no path is given.
InheritedPaths == CollectedTestRoots

ChangedModules(changed) == {f.of : f \in {g \in changed : g.in = "src"}} \cap Adjacent

Resolve(changed) ==
  LET direct == ChangedModules(changed)
  IN  direct \cup (UNION {ReverseDeps[m] : m \in direct})
             \cup {f.of : f \in {g \in changed : g.in = "tests"}}

EscalatesExactly(changed) ==   \* mutant: a sixth changed module lifts the escalation
  \/ \E f \in changed : f.in = "infra"
  \/ ChangedModules(changed) \cap Shared # {}
  \/ Cardinality(ChangedModules(changed)) = Threshold

\* The escalations that the changed files cause.
Escalates(changed) ==
  \/ \E f \in changed : f.in = "infra"
  \/ ChangedModules(changed) \cap Shared # {}
  \/ Cardinality(ChangedModules(changed)) >= Threshold

SplitCount(paths) ==
  LET n == Cardinality(paths) IN IF n <= 3 THEN 1 ELSE IF n <= 6 THEN 2 ELSE 3

\* The two roots are two paths: one group is enough for the fallback.
ComputeSelection(changed, event, smart) ==
  IF ~smart \/ event = "whole" \/ Escalates(changed)
  THEN [full |-> TRUE, paths |-> CollectedTestRoots, splits |-> FullSplits]
  ELSE IF Resolve(changed) = {}
  THEN [full |-> FALSE, paths |-> CollectedTestRoots, splits |-> 1]
  ELSE [full |-> FALSE, paths |-> Resolve(changed), splits |-> SplitCount(Resolve(changed))]

-----------------------------------------------------------------------------
(* The jobs of ci.yml *)

Init == diff = {} /\ flag \in BOOLEAN /\ run = NoRun

\* A commit changes one more file.  The head is new: it has no run yet.
Commit(f) ==
  /\ f \notin diff /\ Cardinality(diff) < MaxFiles
  /\ diff' = diff \cup {f} /\ run' = NoRun /\ UNCHANGED flag

SetFlag == flag' = ~flag /\ UNCHANGED <<diff, run>>

\* A pull request's run sees its whole diff; any other sees the last commit's files,
\* or no file when there is no earlier commit to compare with.
Start(event) ==
  /\ run = NoRun
  /\ \E changed \in IF event = "pull_request" THEN {diff} ELSE {{f} : f \in diff} \cup {{}} :
       run' = [event |-> event, changed |-> changed,
               validate |-> "waiting", detect |-> "waiting", tests |-> "waiting",
               gate |-> "waiting", summary |-> "waiting",
               sel |-> [full |-> FALSE, paths |-> {}, splits |-> 0], groups |-> << >>]
  /\ UNCHANGED <<diff, flag>>

Started == run # NoRun
Outcomes == {"success", "failure", "cancelled"}

Validate(outcome) ==
  /\ Started /\ run.validate = "waiting"
  /\ run' = [run EXCEPT !.validate = outcome] /\ UNCHANGED <<diff, flag>>

\* The job reads the flag and writes the selection to its outputs.
Detect ==
  /\ Started /\ run.validate = "success" /\ run.detect = "waiting"
  /\ LET sel == ComputeSelection(run.changed, run.event, flag)
     IN  run' = [run EXCEPT !.detect = "success", !.sel = sel,
                   !.groups = [i \in 1..sel.splits |-> [result |-> "waiting", ran |-> {}]]]
  /\ UNCHANGED <<diff, flag>>

\* It fails, or it is skipped because validate did not succeed.
NoDetect ==
  /\ Started /\ run.detect = "waiting" /\ run.validate # "waiting"
  /\ \E outcome \in IF run.validate = "success" THEN {"failure", "cancelled"} ELSE {"skipped"} :
       run' = [run EXCEPT !.detect = outcome]
  /\ UNCHANGED <<diff, flag>>

\* The tests one group draws its share from: the flag is read again, in the "if:"
\* of the two pytest steps.
Collects == IF flag /\ ~run.sel.full THEN run.sel.paths ELSE InheritedPaths

\* pytest refuses to start when a path it is given does not exist.
TestGroup(i, outcome) ==
  /\ run.groups[i].result = "waiting"
  /\ outcome = "success" => Collects \subseteq CollectedTestRoots
  /\ run' = [run EXCEPT !.groups[i] = [result |-> outcome, ran |-> Collects]]
  /\ UNCHANGED <<diff, flag>>

\* The result of the matrix job as its dependants see it.
ConcludeTests ==
  /\ Started /\ run.tests = "waiting" /\ run.detect # "waiting"
  /\ LET results == {run.groups[i].result : i \in DOMAIN run.groups}
     IN  /\ "waiting" \notin results
         /\ run' = [run EXCEPT !.tests =
              IF run.detect # "success" THEN "skipped"
              ELSE IF "failure" \in results THEN "failure"
              ELSE IF "cancelled" \in results THEN "cancelled" ELSE "success"]
  /\ UNCHANGED <<diff, flag>>

PassSkipped(result) == result \in {"success", "skipped"}   \* mutant: before OMN-15315

Pass(result) == result = "success"

TestsGate ==
  /\ Started /\ run.gate = "waiting" /\ run.tests # "waiting"
  /\ run' = [run EXCEPT !.gate = IF Pass(run.tests) THEN "success" ELSE "failure"]
  /\ UNCHANGED <<diff, flag>>

\* The two other jobs it needs: the ratchet must succeed, the contract check must
\* not fail (it is skipped for a scheduled run).
CISummary(ratchet, contract) ==
  /\ Started /\ run.summary = "waiting" /\ run.validate # "waiting" /\ run.gate # "waiting"
  /\ LET bad == {"failure", "cancelled"} \cap {run.validate, run.gate, ratchet, contract}
     IN  run' = [run EXCEPT !.summary =
                   IF ratchet = "success" /\ bad = {} THEN "success" ELSE "failure"]
  /\ UNCHANGED <<diff, flag>>

Next ==
  \/ \E f \in Files : Commit(f)
  \/ SetFlag
  \/ \E event \in Events : Start(event)
  \/ \E outcome \in Outcomes : Validate(outcome)
  \/ Detect
  \/ NoDetect
  \/ \E outcome \in Outcomes : Started /\ \E i \in DOMAIN run.groups : TestGroup(i, outcome)
  \/ ConcludeTests
  \/ TestsGate
  \/ \E ratchet \in Outcomes, contract \in Outcomes \cup {"skipped"} : CISummary(ratchet, contract)

Spec == Init /\ [][Next]_vars

-----------------------------------------------------------------------------
(* Properties *)

Green == Started /\ run.summary = "success"
Ran == UNION {run.groups[i].ran : i \in DOMAIN run.groups}

\* pytest-split deals one collection out to the groups: together they ran all of it
\* only if every group drew from the same collection.
OneCollection == \A i, j \in DOMAIN run.groups : run.groups[i].ran = run.groups[j].ran

\* What the adjacency map promises for a set of changed files: the tests of each
\* changed module, of the modules its entry lists, and the changed tests themselves.
Declared(changed) ==
  {m \in TestDirs : \E f \in changed :
     \/ /\ f.in = "src" /\ f.of \in Adjacent
        /\ m = f.of \/ m \in ReverseDeps[f.of]
     \/ f.in = "tests" /\ m = f.of}

\* A green CI Summary means that the tests the map declares for the changed files were
\* run, whatever job failed, was cancelled or was skipped on the way (ci.yml 186-229 and
\* 293-312, adjacency map line 6) -- unless the flag changed while the groups ran.
GreenCoversDeclared ==
  Green /\ OneCollection => run.groups # << >> /\ Declared(run.changed) \subseteq Ran

EscalatingFile(changed) ==
  \E f \in changed : f.in = "infra" \/ (f.in = "src" /\ f.of \in Shared)

\* The safety net is no narrower than what it backs up: a green run of an escalating
\* event, or of a change that escalates, drew every group from both test roots, even if
\* the flag changed while it ran (detect_test_paths.py 183-196, ci.yml 152-176).
GreenEscalationRanAll ==
  Green /\ (run.event = "whole" \/ EscalatingFile(run.changed))
    => \A i \in DOMAIN run.groups : run.groups[i].ran = TestDirs \cup {Top}

\* More changes never mean fewer tests: as long as the selection is no mere fallback,
\* a file added to the pull request loses none of the tests selected before, across
\* every escalation (detect_test_paths.py 118-180).
SelectedNow == ComputeSelection(diff, "pull_request", TRUE)
Fallback == ~SelectedNow.full /\ Resolve(diff) = {}
GrowingDiffKeepsTests ==
  [][~Fallback /\ diff \subseteq diff'
       => SelectedNow.paths \cap CollectedTestRoots \subseteq SelectedNow'.paths]_vars

\* detect_test_paths.py 80-81: "Source changes under src/omnibase_compat/<module>:
\* include src/omnibase_compat/tests/<module>/."
OwnTestsSelected ==
  \A f \in diff : f.in = "src" /\ f.of \in TestDirs => f.of \in SelectedNow.paths
======================================================================================
