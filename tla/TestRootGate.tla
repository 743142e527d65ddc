------------------------------- MODULE TestRootGate -------------------------------
(***************************************************************************)
(* validate_test_root_collection.py: every directory of tests must be      *)
(* reached by the full suite, as a predicate of a repository state, and    *)
(* what pytest itself would collect.                                       *)
(*                                                                         *)
(* A path is the sequence of its parts; repo.testFiles are the directories *)
(* that hold a test_*.py.  The run block of ci.yml's full-suite step is    *)
(* its sequence of shell words: "pytest", "-x" (an option without a        *)
(* separate value), "-n" (one whose value is the next word, and listed in  *)
(* the script), "--n" (one the script does not list), "--ignore" (listed,  *)
(* and its value leaves tests out: it stands for -k, -m and --deselect     *)
(* too), "--ignore=" (the same in one word), "ini" (a value that overrides *)
(* testpaths), "launcher" (a word that starts pytest under another name, a *)
(* quoted command included) and words that may name directories.           *)
(***************************************************************************)
EXTENDS Naturals, Sequences, FiniteSets, SequencesExt

CONSTANTS
  NoStep,   \* ci.yml has no step with the name the script looks for
  Dirs      \* Dirs[word]: the directories that a word names, or leaves out as an option

Ignored == {".git", "__pycache__", ".venv", "node_modules", ".mypy_cache"}

\* The directories named tests with a test file below, ignored trees excepted.
FindTestDirs(files) ==
  {dir \in UNION {Prefixes(f) : f \in files} :
     dir # <<>> /\ Last(dir) = "tests" /\ Ignored \cap ToSet(dir) = {}}

CheckTestpathsExist(repo) ==
  \A root \in repo.testpaths : \E f \in repo.testFiles : IsPrefix(root, f)

CheckUncollectedRoots(repo) ==
  \A dir \in FindTestDirs(repo.testFiles) : \E root \in repo.testpaths : IsPrefix(root, dir)

\* The positions after the first word pytest.
AfterPytest(words) == {i \in DOMAIN words : \E k \in 1..(i - 1) : words[k] = "pytest"}

\* Word i is the value of the option before it: that option ends an odd row of options that
\* take a value, so it is not a value itself.
IsValue(words, valued, i) ==
  \E j \in AfterPytest(words) :
    /\ j < i /\ (i - j) % 2 = 1 /\ words[j - 1] \notin valued
    /\ \A k \in j..(i - 1) : words[k] \in valued

\* Options followed by a value: those the script lists, and those pytest has.
Listed == {"-n", "--ignore"}
Valued == Listed \cup {"--n"}
Options == Valued \cup {"-x", "--ignore="}

\* The positions of the words that a reader who knows the given options takes for paths:
\* all after pytest that are neither options nor an option's value.
Positionals(words, valued) ==
  {i \in AfterPytest(words) : words[i] \notin Options /\ ~IsValue(words, valued, i)}

NoPytestArgs(words) == {}   \* mutant: a path in the step is not noticed (before OMN-15541)

PositionalPytestArgs(words) == Positionals(words, Listed)

CheckFullSuiteInvocation(repo) == repo.step # NoStep /\ PositionalPytestArgs(repo.step) = {}

\* detect_test_paths._full_suite reads testpaths, or a list of its own.
CheckSelectorParity(repo) ==
  repo.selector.derives \/ repo.selector.roots = repo.testpaths

\* Without testpaths pytest would take the whole checkout: collected_roots raises.
CollectedRoots(repo) == repo.testpaths # {}

TestRootsSound(repo) ==
  /\ CollectedRoots(repo)
  /\ CheckTestpathsExist(repo)
  /\ CheckUncollectedRoots(repo)
  /\ CheckFullSuiteInvocation(repo)
  /\ CheckSelectorParity(repo)

-----------------------------------------------------------------------------
(* What it is meant to establish. *)

Below(dirs, f) == \E dir \in dirs : IsPrefix(dir, f)

DirsOf(word) == IF word \in DOMAIN Dirs THEN Dirs[word] ELSE {}

\* The directories that the command itself leaves out of the collection.
LeftOut(words) ==
  UNION {DirsOf(words[i]) : i \in {k \in AfterPytest(words) :
    IF IsValue(words, Valued, k) THEN words[k - 1] = "--ignore" ELSE words[k] = "--ignore="}}

\* pytest's default norecursedirs: pyproject.toml sets none of its own.
NotEntered == Ignored \cup {"build", "dist", "venv"}

\* pytest finds f below one of the given directories, which it enters whatever their names.
Finds(dirs, f) ==
  \E dir \in dirs : IsPrefix(dir, f) /\ \A i \in DOMAIN f : i > Len(dir) => f[i] \notin NotEntered

\* pytest as it reads its own command line: with a path the roots do not count.
Collected(repo) ==
  LET paths == Positionals(repo.step, Valued)
      from  == IF paths = {} THEN repo.testpaths ELSE UNION {DirsOf(repo.step[i]) : i \in paths}
  IN  {f \in repo.testFiles : Finds(from, f) /\ ~Below(LeftOut(repo.step), f)}

\* The step starts pytest by its name, leaves testpaths alone, and pytest does start: it
\* refuses an option that wants a value and is followed by none.
StepIsReadable(repo) ==
  /\ repo.step # NoStep /\ "pytest" \in ToSet(repo.step) /\ "ini" \notin ToSet(repo.step)
  /\ \A i \in DOMAIN repo.step : repo.step[i] \in Valued =>
       i < Len(repo.step) /\ repo.step[i + 1] \notin Options

\* The tests in and below directories named tests are collected, all but those that an option
\* of the step leaves out by name and those in a directory that pytest does not enter.
MissesOnlyExcluded(repo) ==
  \A f \in repo.testFiles : Below(FindTestDirs(repo.testFiles), f) =>
    f \in Collected(repo) \/ Below(LeftOut(repo.step), f) \/ ToSet(f) \cap NotEntered # {}
====================================================================================
