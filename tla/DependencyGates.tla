------------------------------ MODULE DependencyGates ------------------------------
(***************************************************************************)
(* The checks of what the package depends on, as predicates of a           *)
(* repository state: check_dep_provenance.py (no first-party distribution  *)
(* from git), check_no_infra_edge.py (no upstream distribution declared or *)
(* locked), validate_no_upstream_deps.py (none imported) and the release's *)
(* verify_pypi_pin_resolvability.py.  Next to each stands what it is meant *)
(* to establish, as uv and pip see it.                                     *)
(*                                                                         *)
(* A distribution name is spelled with one of the three separators that    *)
(* PEP 503 treats alike: [dist |-> d, sep |-> "-"].  A requirement has the *)
(* group it is declared in.  An entry of [tool.uv.sources] has the form it *)
(* is written in ("inline": pkg = { k = "v" } on a line; "literal": the    *)
(* same with 'v'; "list", "table" and "dotted": the other ways TOML and uv *)
(* accept), its keys, and its raw-override-ok note: none, empty or a       *)
(* ticket.                                                                 *)
(***************************************************************************)
EXTENDS Naturals, FiniteSets

CONSTANTS
  Dists,
  Upstream,     \* omnibase-infra, -core, -spi
  FirstParty,   \* omnibase-core, -spi, -compat: published, to be taken from PyPI
  Requires,     \* Requires[d]: the distributions that the metadata of d names
  NoLock

ASSUME DistsAssumption ==
  /\ IsFiniteSet(Dists) /\ Upstream \subseteq Dists /\ FirstParty \subseteq Dists
  /\ Requires \in [Dists -> SUBSET Dists]

Canonical(d) == [dist |-> d, sep |-> "-"]

\* Both scripts lower the name and replace "_"; PEP 503 also replaces ".".
Normalize(name) == [dist |-> name.dist, sep |-> IF name.sep = "_" THEN "-" ELSE name.sep]

\* The distributions that installing S brings along, S included.
Closure(S) ==
  LET reach[n \in Nat] ==
        IF n = 0 THEN S ELSE reach[n - 1] \cup UNION {Requires[d] : d \in reach[n - 1]}
  IN  reach[Cardinality(Dists)]

-----------------------------------------------------------------------------
(* check_dep_provenance.py *)

GitKeys == {"git", "rev", "branch", "tag"}

\* The keys that the regular expressions find: a quoted value on the entry's own line.
ParsedKeys(entry) == IF entry.form = "inline" THEN entry.keys ELSE {}

Escaped(entry) == entry.note = "ticket"

FindUnspelled(sources) ==   \* mutant: the underscore spelling is another package
  {e \in sources : /\ e.sep = "-" /\ e.dist \in FirstParty
                   /\ ParsedKeys(e) \cap GitKeys # {} /\ ~Escaped(e)}

FindViolations(sources) ==
  {e \in sources : /\ Normalize(e) \in {Canonical(d) : d \in FirstParty}
                   /\ ParsedKeys(e) \cap GitKeys # {}
                   /\ ~Escaped(e)}

ProvenanceClean(repo) == FindViolations(repo.sources) = {}

\* What it is meant to rule out: uv takes a first-party distribution from git.
UnexcusedOverrides(sources) ==
  {e \in sources : e.dist \in FirstParty /\ e.keys \cap GitKeys # {} /\ e.note # "ticket"}

-----------------------------------------------------------------------------
(* check_no_infra_edge.py and validate_no_upstream_deps.py *)

DeclaredNames(declared) == {Normalize([dist |-> r.dist, sep |-> r.sep]) : r \in declared}

LockedNames(lock) == IF lock = NoLock THEN {} ELSE {Canonical(d) : d \in lock}

ScanDeclared(repo) ==   \* mutant: the lock file is not looked at
  DeclaredNames(repo.declared) \cap {Canonical(d) : d \in Upstream}

\* omnibase-compat itself is not among the forbidden names.
ScanDependencyClosure(repo) ==
  (DeclaredNames(repo.declared) \cup LockedNames(repo.lock)) \cap {Canonical(d) : d \in Upstream}

NoInfraEdge(repo) == ScanDependencyClosure(repo) = {}

\* A module name that starts like an upstream package: a package of ours that merely has a
\* longer name counts, and so does a relative import; "from . import x" and a dynamic
\* import are not seen.
UpstreamImports(imports) ==
  {i \in imports : i.stmt \in {"import", "from", "relative"} /\ i.head \in {"upstream", "longer"}}

NoUpstreamImport(repo) == UpstreamImports(repo.imports) = {}

\* What the two are meant to rule out, with the closure that the declarations have now.
UpstreamReached(repo) ==
  \/ Closure({r.dist : r \in repo.declared}) \cap Upstream # {}
  \/ \E i \in repo.imports : i.head = "upstream" /\ i.stmt \in {"import", "from"}

\* The lock file has what is declared and all that its own members require; it may be older
\* than the declarations, and have more.
LockCovers(repo) ==
  /\ {r.dist : r \in repo.declared} \subseteq repo.lock
  /\ \A d \in repo.lock : Requires[d] \subseteq repo.lock

-----------------------------------------------------------------------------
(* Installing: the steps of the validate job around those checks, and the release's check *)

WheelPins(repo) == {r.dist : r \in {s \in repo.declared : s.group = "project"}}

\* uv sync --frozen: the lock file as it is.
SyncFrozen(repo) == repo.lock # NoLock

\* uv pip install dist/*.whl into the environment that holds the locked distributions.
WheelInstalls(repo, index) == Closure(WheelPins(repo)) \subseteq repo.lock \cup index

\* The only wheel of dist/ into a bare environment, from the package index alone.
VerifyPinResolvability(repo, index) == Closure(WheelPins(repo)) \subseteq index
====================================================================================
