---------------------------------- MODULE MergeQueue ----------------------------------
(***************************************************************************)
(* The branch dev under the repository's own gates: pull requests, the     *)
(* merge queue, the calendar and the release.                              *)
(*                                                                         *)
(* dev maps each surface (a part of a file that merges by itself) to its   *)
(* content; a pull request is an edit, a function from the surfaces it     *)
(* changes.  Two pull requests that change no common surface merge without *)
(* conflict, each checked against a dev that the other has left since.     *)
(*                                                                         *)
(* ci.yml's validate and precommit-parity-gate.yml run for a pull request, *)
(* for the merge group and (on push) for dev; dep-provenance-gate.yml      *)
(* looks at a pull request that touches pyproject.toml and skips the       *)
(* merge group; shim-ttl-gate.yml has no merge group.  All four are taken  *)
(* as required: which ones are is a setting outside the repository.        *)
(***************************************************************************)
EXTENDS DependencyGates, HookGates, TestRootGate, RetentionGates

CONSTANTS
  PRs,
  NoEdit,
  Proposals,     \* sets of edits; in one execution all come from one of them
  InitialDev,
  InitialIndex,  \* the distributions that PyPI has
  RawWindows,    \* the values of COMPAT_RETENTION_WARN_DAYS a run may find
  MaxDay,        \* bounds the days
  MaxMerges      \* bounds the merges

VARIABLES
  proposal,      \* the member of Proposals
  dev,
  pr,            \* pr[p]: the edit of a pull request whose checks are green, or NoEdit
  merges,
  day,
  headDay,       \* the day of dev's head commit
  notified,      \* the <<file, date>> that a run on dev printed a warning for
  index,
  published      \* of each released wheel: its dependencies, and the lock file beside it

vars == <<proposal, dev, pr, merges, day, headDay, notified, index, published>>

PyprojectSurfaces == {"sources", "declared", "testpaths"}

Surfaces ==
  PyprojectSurfaces \cup Files \cup {"lock", "imports", "hooks", "installed", "scripts",
    "hookPin", "ciPin", "ciPin2", "testFiles", "step", "selector"}

\* What every version of a surface is: the separators a distribution name can have, known
\* distributions, hooks that name scripts there are, paths and texts that are sequences,
\* dates that are days.
WellFormed(edit) ==
  /\ DOMAIN edit \subseteq Surfaces
  /\ "sources" \in DOMAIN edit => \A e \in edit.sources : e.sep \in {"-", "_", "."}
  /\ "declared" \in DOMAIN edit => \A r \in edit.declared : r.dist \in Dists
  /\ "hooks" \in DOMAIN edit =>
       \A h \in edit.hooks : h.runs \in Seq(DOMAIN InitialDev.scripts)
  /\ "scripts" \in DOMAIN edit =>
       edit.scripts \in [DOMAIN InitialDev.scripts -> Seq(SUBSET STRING)]
  /\ "testpaths" \in DOMAIN edit => edit.testpaths \subseteq Seq(STRING)
  /\ "testFiles" \in DOMAIN edit => edit.testFiles \subseteq Seq(STRING)
  /\ "step" \in DOMAIN edit => (edit.step # NoStep => edit.step \in Seq(STRING))
  /\ \A f \in Files \cap DOMAIN edit : edit[f].date # NoDate => edit[f].date \in Nat

ASSUME ProposalsAssumption == \A edits \in Proposals : \A edit \in edits : WellFormed(edit)

Merged(edit) ==
  [s \in DOMAIN edit \cup DOMAIN dev |-> IF s \in DOMAIN edit THEN edit[s] ELSE dev[s]]

\* The steps of validate before the retention check, and those from it on.
BeforeRetention(repo) == SyncFrozen(repo) /\ NoUpstreamImport(repo) /\ NoInfraEdge(repo)

AfterRetention(repo) == TestRootsSound(repo) /\ WheelInstalls(repo, index)

Validate(repo, commitDay, today) ==
  /\ BeforeRetention(repo)
  /\ RetentionClean(repo, commitDay, today)
  /\ AfterRetention(repo)

ParityGate(repo) == FailLoudGate(repo) /\ PinParityGate(repo)

PullRequestChecks(edit) ==
  /\ Validate(Merged(edit), day, day)
  /\ ParityGate(Merged(edit))
  /\ DOMAIN edit \cap PyprojectSurfaces # {} => ProvenanceClean(Merged(edit))
  /\ ShimsAlive(Merged(edit), day)

MergeGroupChecks(edit) == Validate(Merged(edit), day, day) /\ ParityGate(Merged(edit))

\* The warnings of a run of validate on dev.
Printed(repo, commitDay, today, raw) ==
  IF BeforeRetention(repo)
  THEN {<<f, repo[f].date>> : f \in Warnings(repo, commitDay, today, raw)}
  ELSE {}

\* The branch starts green, before any of its dates.
ASSUME InitialDevAssumption ==
  /\ DOMAIN InitialDev = Surfaces /\ WellFormed(InitialDev)
  /\ BeforeRetention(InitialDev)
  /\ TestRootsSound(InitialDev) /\ WheelInstalls(InitialDev, InitialIndex)
  /\ ParityGate(InitialDev) /\ ProvenanceClean(InitialDev)
  /\ \A f \in Files : (Scanned(InitialDev[f]) /\ InitialDev[f].date # NoDate) =>
       InitialDev[f].date > 0

-----------------------------------------------------------------------------
Init ==
  /\ proposal \in Proposals
  /\ dev = InitialDev
  /\ pr = [p \in PRs |-> NoEdit]
  /\ merges = 0 /\ day = 0 /\ headDay = 0
  /\ notified = {}
  /\ index = InitialIndex
  /\ published = {}

\* A pull request is opened, pushed to or rebased, and its checks pass.  Red checks leave
\* nothing behind.
OpenOrPush(p) ==
  /\ merges < MaxMerges
  /\ \E edit \in proposal \ {pr[p]} :
       /\ PullRequestChecks(edit)
       /\ pr' = [pr EXCEPT ![p] = edit]
  /\ UNCHANGED <<proposal, dev, merges, day, headDay, notified, index, published>>

\* The merge group is green and becomes dev, where validate runs again; the pull requests
\* that now conflict wait for a rebase.
Merge(p) ==
  /\ pr[p] # NoEdit /\ merges < MaxMerges
  /\ MergeGroupChecks(pr[p])
  /\ dev' = Merged(pr[p])
  /\ pr' = [q \in PRs |-> IF /\ pr[q] # NoEdit
                             /\ DOMAIN pr[q] \cap DOMAIN pr[p] = {}
                          THEN pr[q] ELSE NoEdit]
  /\ merges' = merges + 1
  /\ headDay' = day
  /\ \E raw \in RawWindows : notified' = notified \cup Printed(dev', day, day, raw)
  /\ UNCHANGED <<proposal, day, index, published>>

\* The nightly run of the next day.
NextDay ==
  /\ day < MaxDay
  /\ day' = day + 1
  /\ \E raw \in RawWindows : notified' = notified \cup Printed(dev, headDay, day', raw)
  /\ UNCHANGED <<proposal, dev, pr, merges, headDay, index, published>>

\* The release job's steps: the wheel resolves from the index alone, and is uploaded.
Publish ==
  /\ VerifyPinResolvability(dev, index)
  /\ published' = published \cup {[pins |-> WheelPins(dev), lock |-> dev.lock]}
  /\ UNCHANGED <<proposal, dev, pr, merges, day, headDay, notified, index>>

IndexGains ==
  /\ \E d \in Dists \ index : index' = index \cup {d}
  /\ UNCHANGED <<proposal, dev, pr, merges, day, headDay, notified, published>>

Next == (\E p \in PRs : OpenOrPush(p) \/ Merge(p)) \/ NextDay \/ Publish \/ IndexGains

Spec == Init /\ [][Next]_vars
-----------------------------------------------------------------------------
\* Whatever pull requests merged side by side (one may add a directory while another takes
\* its root out of testpaths or names paths in ci.yml's step), pytest's full suite on dev
\* leaves out no test below a directory named tests, but for what an option of the step names
\* ("Use --ignore to exclude, never a positional include") and what lies in a directory that
\* pytest never enters (validate_test_root_collection.py).  Only a step that does start pytest,
\* by its own name and without overriding testpaths, can be read.
DevMissesOnlyExcluded == StepIsReadable(dev) => MissesOnlyExcluded(dev)

\* No upstream package is imported, or reached from what dev declares, through any number of
\* dependencies, as long as uv.lock has all that is declared and required; it may be stale
\* and have more, --frozen never compares the two (check_no_infra_edge.py,
\* validate_no_upstream_deps.py).
DevClosureClean == (dev.lock # NoLock /\ LockCovers(dev)) => ~UpstreamReached(dev)

\* uv takes no first-party distribution from git without a ticket, although the merge group
\* does not look: among the entries in the form and the spellings the check reads
\* (check_dep_provenance.py).
NoGitOverrideOnDev ==
  \A e \in UnexcusedOverrides(dev.sources) : e.form # "inline" \/ e.sep = "."

\* Every revision of the shared validator pinned on dev is one and the same, in the hook and
\* in each place of ci.yml (validate_precommit_pin_parity.py).
DevPinsAgree == \A pin \in {dev.ciPin, dev.ciPin2} \ {NoPin} : pin = dev.hookPin

\* No hook of dev that runs a command goes green where its script reports a missing
\* prerequisite up to Window lines before, even when the hook and the script came with
\* different pull requests (validate_precommit_fail_loud.py).
DevHooksFailLoud ==
  \A h \in dev.hooks : (h.language \in {"system", "script"} /\ h.runs # <<>>) =>
    LET text == dev.scripts[Head(h.runs)] IN
    ~\E i, j \in DOMAIN text :
       /\ i <= j /\ j - i <= Window
       /\ "notfound" \in text[i] /\ "exit0" \in text[j] /\ "ok" \notin text[i] \cup text[j]

\* When validate fails on dev, and with it every pull request, only the calendar did it: each
\* file it reports carries a date that some run warned about before, or none at all; no other
\* step fails (check_compat_retention.py, "Pre-expiry warning window").
NoticeBeforeFailure ==
  ~Validate(dev, headDay, day) =>
    /\ BeforeRetention(dev) /\ AfterRetention(dev)
    /\ \A f \in Violations(dev, headDay, day) :
         dev[f].date # NoDate => <<f, dev[f].date>> \in notified

\* A released wheel brings no upstream distribution along unless through one that the lock
\* file beside it did not have: the release itself looks only whether the wheel resolves, and
\* an upstream distribution that is on PyPI does (verify_pypi_pin_resolvability.py).
ReleasesReachNoUpstream ==
  \A w \in published : Closure(w.pins) \subseteq w.lock => Closure(w.pins) \cap Upstream = {}

\* A class without a date whose file is older than the threshold makes the check of dev
\* fail: the files of Files have been there since the first day.
AgedClassIsReported ==
  \A f \in Files : (Scanned(dev[f]) /\ dev[f].date = NoDate /\ day > StaleDays) =>
    ~RetentionClean(dev, headDay, day)
====================================================================================
