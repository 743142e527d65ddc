# omnibase_compat: TLA+ models and proofs

`omnibase_compat` is a thin package of shared types with a few stateful helpers
(an idempotent-registration decorator, a sync/async bridge, a cached overlay
resolver, the PR evidence stamp), together with the CI scripts and GitHub
workflows that test, release and stamp it. The data types carry almost no
behaviour. What is hard to get right is in the helpers that run under threads
and in the workflows, whose runs overlap, are cancelled, fail between steps and
talk to services that lose things. That is what is modelled here.

Paths below are relative to the repository root; `pkg/` is `src/omnibase_compat/`.

## 1. The system and its parts

| Part | State it keeps | Operations | Hard behaviour |
|---|---|---|---|
| Idempotent registration, `pkg/registration/decorator_idempotent_register.py` | a seen-set and a lock per decorated function | wrapper: bind, extract key, lock, check, call, record | concurrent calls, nested calls, bodies that raise after their effect |
| Sync/async bridge, `pkg/concurrency/util_run_coro_sync.py` | none; a worker thread and loop per call | `run_coro_sync` | the blocked caller and what the coroutine needs of it |
| Overlay configuration, `pkg/config/`, `pkg/env/` | one-entry cache; environment; overlay file | `load_overlay`, `resolve_endpoint_url`, `is_strict_mode` | stale and evicted cache entries, concurrent misses |
| Tracker adapter, `pkg/adapters/` | the endpoint URL captured at construction | `list_*` | stale URL, malformed answers |
| PR evidence stamp, `pkg/contracts/pr_occ_stamp/` | the PR body (outside) | parse, render | round trips between an author and automation |
| Born path, `call-occ-*.yml`, `occ_manual_replay_precheck.py`, `occ-autobind-mint-verify.yml` | workflow runs, the pull request, published commands, the body's binding | publish on event, manual replay, verify | cancellation, stale payloads, lost commands |
| Release, `release.yml` | tags, main, PyPI, GitHub releases, queued runs | one job of eight steps | overlapping runs, moved tags, failure between uploads, files deleted and uploaded anew |
| Change-aware tests, `detect_test_paths.py`, `ci.yml` | the diff, a repository variable, job results | select, run in groups, gate | skipped jobs, escalations, a flag read twice |
| Injectable registry, `pkg/registration/decorator_injectable_optional.py` | an attribute per class | decorate | inherited lists that are extended in place |
| Experimental registry, `pkg/experimental/` | one dictionary of dictionaries | register, get | shallow copies, inner dictionaries that several readers hold |
| Validated contracts: evidence, delegation, pricing, routing, overseer, learning | none (frozen) | construct, edit a container | containers inside frozen instances |
| Other types: enumerations, telemetry, runtime deployment, topics | none | - | - |
| Repository checks, `scripts/*.py`, `scripts/validation/`, `scripts/ci/verify_pypi_pin_resolvability.py` | none; they read files, git and PyPI | one predicate each | what a text scan misses, what a merge combines, what a day changes |
| The merge queue, `ci.yml`, `precommit-parity-gate.yml`, `dep-provenance-gate.yml`, `shim-ttl-gate.yml` | the branch dev, pull requests | check, merge, nightly run | pull requests checked against a dev that others have left since |
| Merge automation and audits (`auto-merge`, `cr-thread-gate`, `todo-audit-on-merge`, ...) | PR labels, threads, issues | gate, merge, file issues | check-then-act on GitHub state |

How they interact: a registration body may call another decorated function,
directly or through `run_coro_sync`, and waits for it while its own lock is
held. `is_strict_mode` and the adapter resolve through the overlay. The born
path publishes a command, a consumer in another repository writes an
`Evidence-Source` line to the PR body with the stamp's parser and renderer, and
mint-verify reads the body back. CI runs the selected tests; the release job
publishes what was tagged and moves `main`. The merge queue is what the repository
checks meet in: each looks at one tree, and dev is made of trees none of them saw
before the merge group.

## 2. Modules

| Module | Kind | Models |
|---|---|---|
| `RegisterOnce` | abstract specification | what `@idempotent_register` promises: each call answered in one step, a key registered once |
| `IdempotentRegister` | component | the wrapper, step by step, under threads and nesting |
| `IdempotentRegisterProofs` | proofs | type correctness, the two invariants, the refinement |
| `OccStamp` | algorithms, driven by an author and by automation | parser and renderer of the PR stamp |
| `OccStampProofs` | proofs | all its invariants, for bodies of any length; retries; prose under automation |
| `OccBornPath` | component with its environment | publisher, replay, precheck, mint verification |
| `Release` | component with its environment | the release workflow |
| `ReleaseProofs` | proofs | its three safety invariants |
| `OccBornPathProofs` | proofs | the safety invariants of the born path |
| `TestSelection` | algorithm and component | the selection and the CI jobs around it |
| `TestSelectionProofs` | proofs | what green means; a growing diff loses no test |
| `RunCoroSync` | component | the sync/async bridge: threads, loops, workers |
| `RunCoroSyncProofs` | proofs | awaited once, nothing left behind |
| `OverlayResolver` | component | overlay lookups, their cache, the strict flag, the environment |
| `ProjectTracker` | component, extends `OverlayResolver` | the tracker's client and its list calls |
| `SharedMetadata` | component | injectable-optional decorations; the experimental registry |
| `FrozenContracts` | component | thirteen validated contracts and the containers that can be edited in place |
| `ProcessStateProofs` | proofs | overlay and tracker, decorations, the registry and its copies |
| `DependencyGates`, `HookGates`, `TestRootGate`, `RetentionGates` | algorithms | nine check scripts as predicates of a repository state, next to what each is meant to establish |
| `MergeQueue` | component, composes the four | dev under those checks: pull requests, merge group, nights, releases |
| `MergeQueueProofs` | proofs | all properties of dev and of released wheels; what `Closure` computes |
| `MC*` | instances | constants for TLC |

### IdempotentRegister

`pc[c]` follows a call through the wrapper: `waiting` (for `with lock`),
`checking` (line 146), `running`/`applied` (inside `fn`, before and after its
effect), `leaving` (out of the `with` block), `done`. `lock[f]` and `seen[f]`
are the closure's variables, `request[c].obj` the key object and
`Str[request[c].obj]` the `key_str` of line 144. A call that cannot be bound or
has no key raises before the lock is touched (`Reject`). `parent[c]` is the call
whose body made call `c`: the body waits for it (`Suspended`). A `threading.Lock`
is not re-entrant, so a nested call on the same thread and one on a
`run_coro_sync` worker look the same to it. `applied` and `outcome` are history.

`FnRaise` may come before or after the effect; after it, the registration took
effect and the key is still open, so a retry applies it again. `AppliedOnce` says
precisely what is left: among the calls that took effect and did not raise, at
most one per key. `EveryCallLeaves` needs an acyclic call order (`MayCall`); with
a cycle (or a body that calls itself) the code deadlocks, and the condition is
the users' to keep.

### OccStamp

A body is a sequence of lines; a line is what the regular expressions see in it.
`Parse` and `Render` are folds over it (no recursion), one operator per function
of `pr_occ_metadata_stamp.py` and one for the step of each fold; that tickets are
kept once, in first-seen order, is the validator of the stamp's model. The state
machine lets an author append lines and the automation rewrite the body with a new source (`Rebind`), so the properties are checked
on bodies that went through earlier renders. `ParseRaises` are the bodies whose
source the pattern accepts and the model's validator refuses (`OCC#0`, an
upper-case SHA). A line may hold several skip tokens; a line with an allowlist
comment is searched for none.

### OccBornPath

One pull request and one publisher; the concurrency group names both, so nothing
is shared with others. A run carries what it knows: an event run its payload, a
replay what it fetched. `by` is who started it: a person's event, an event of
dependabot or renovate (`bot`), which the job's `if:` passes over (`Wanted`), or a
dispatch. `Start` cancels what is in progress, `ReplayEligible` is
the precheck script and the ticket gate. The second publisher
(`call-occ-companion-effect.yml`) is the same workflow with another command.
`Consume` is the consumer: it may bind the body at any time, or never.

### Release

A commit stands for the files built from it. `Enqueue` is GitHub's concurrency
group without cancel-in-progress: one run works, one waits, a third displaces
the one that waits. `uv publish` uploads the wheel and then the sdist; the job
may fail at any step, and be started again. PyPI accepts a file name again only
with the same content. The release action finds or creates the GitHub release
(`CreateRelease`) and attaches the files one by one; a file that is attached
already is deleted and then uploaded (`DeleteAsset`, `UploadAsset`), so a re-run
that fails in between takes a file from a finished release. `left` is what a run
has still to attach. Files are identified by their
commit: two builds of one commit count as the same files; should they differ,
PyPI refuses the second and the run ends `failed`, which `StepFails` covers.

### TestSelection

`ComputeSelection` follows `compute_selection`; a file is known by where it is.
`Detect` reads the repository variable, each `TestGroup` reads it again, as the
workflow's two `if:` lines do. A selected directory that does not exist makes
pytest refuse to start. `OneCollection` says that the groups of a run all drew
from the same collection: `pytest-split` divides whatever collection a group
sees, so two groups that saw different ones do not add up to either.

### RunCoroSync

`loop` is the set of threads with a running loop; a call takes the path that
`asyncio.get_running_loop` decides (`InRunningLoop`). `RunHere` is
`asyncio.run(coro)` on the caller's thread, `Submit`/`RunOnWorker`/`EndWorker` are
the pool of one worker that lives as long as the `with` statement. `AsyncioRun`
keeps asyncio's refusal of a thread whose loop runs, so the choice of path is
something a property can find wrong. The coroutine is external: it may call
`run_coro_sync` again, await something only another thread's loop can give
(once), return or raise. A thread is `Blocked` while a call it made is active.
`Entangled` names the calls that wait, directly or not, for a circle of calls and
blocked loops: a condition the code leaves to its callers.

### OverlayResolver and ProjectTracker

A lookup reads the document, interpolates its tokens one by one (`Read`) while
`SetEnv` may change the environment in between, and then validates the whole of
it: an endpoint nobody asked for makes a lookup fail. `cache` is
`lru_cache(maxsize=1)`: it is consulted on entry and written at the end, so several
threads may miss at the same time, and the first to finish is kept (`Store`).
`overlay_path` and the strict flag go round it. `ever` and `seen` are history: the
values a field had in the process and during a call. `ProjectTracker` constructs
its client from a returned lookup of the tracker's key or from the caller's
`base_url`; a reply is described by how far its nesting is what the code expects
and by the keys of its nodes.

### SharedMetadata

`own[c]` is the attribute a class itself has: an entry or a reference to a list in
`lists`. `Existing` is `getattr` along the method resolution order, so `append`
may extend a list that a base owns. Classes are decorated in the order Python's
decorator syntax gives, a class before its subclasses. The registry maps names to
inner dictionaries by identity; `GetExperimentalArtifacts` gives a reader a copy of
the outer one only, so an edit reaches everyone who holds the inner dictionary.
`versions` and `held` are history: what each registration of a name has come to,
and which of them a reader's copy is from. `EditsStayWithRegistration` says with
them who sees what, and knows nothing of identities.

### FrozenContracts

One operator per contract with a validator, over the fields the validator
relates. `Container` gives the type each model declares for a field that holds
others, `ReadOnlyViews` the two that a validator wraps. What can be edited in place
follows: a list or dictionary that is not wrapped (`Editable`), which then takes any
value of its type, and no validator runs (`Edits`). Nothing is proved of it: that
validators accept what they accepted is no property, and what the documentation
says beyond it, that declarations and records are immutable, is false
(`DeclarationsStayValid`).

### The gates and MergeQueue

A repository state is a record of *surfaces*, parts of files that merge by
themselves: uv sources, declared requirements, lock, imports, hooks, scripts,
pins, testpaths, the full-suite step, dated files. Each gate module gives the
check as the script computes it (which spellings it normalises, which TOML forms
its regular expressions see, which words it takes for positional paths) and,
apart from it, what uv, pip, pytest or pre-commit would do. `MergeQueue` relates
the two over time: pull requests get green against a dev that changes, the merge
group re-runs some of the checks, days pass, wheels are published, the index
grows. Its properties say what holds of dev *and* carry the conditions under which
the scripts cannot see: a source entry in another TOML form, a lock that is not
complete, a step that does not name pytest.

`TestRootGate` reads the step of the full suite twice, as the script does
(`PositionalPytestArgs`, with the value options it lists) and as pytest does
(`Collected`): a path replaces the roots, `--ignore` (which stands for `--deselect`,
`-k` and `-m` too) leaves out what it names (`LeftOut`), and the directories of
`norecursedirs` are not entered. The script passes an `--ignore` of anything, and
its own advice is to use it, so what it can establish is `MissesOnlyExcluded`: the
suite misses what the step names, openly and in one place, and nothing by accident.

## 3. Runs

| Run | Instance | Shows |
|---|---|---|
| `concurrency` | `@idempotent_register`: 3 calls, 2 functions, one may call the other, 3 key objects, 2 of which print alike; or `run_coro_sync`: 3 calls, 2 threads with a loop and 1 without, 2 worker threads | type invariant, `AppliedOnce`, `SeenIsRegistered`, the wrapper implements `RegisterOnce`, every call leaves; a coroutine is awaited once, nothing is left behind, only a circle of blocked loops keeps a call from returning |
| `born_path` | 2 changes, 1 manual replay | cancelled runs never publish, heads in order, ready heads have runs, ticketed events of persons answered, no silent miss |
| `release` | 4 commits, 3 versions (one a candidate), 3 runs, 1 file on GitHub | one source per version, main a release whose file is there or owed, successful releases stay in main, pushed tags conclude |
| `test_selection` | 8 modules, 10 kinds of file, up to 4 changed, threshold 3, 2 groups in a full suite | what a green summary means; escalations run both roots; a growing diff loses no test |
| `merge_queue` | 2 pull requests about one of 4 subjects (dependencies, hooks, test roots, dates), 2 merges, 3 days | what the checks establish for dev and for released wheels, each under the condition its script can see |
| `process_state` | 2 threads, 3 lookups, 1 change of a variable, 6 documents; 12 replies; a diamond of 4 classes, 4 decorations; 2 readers, 3 registry writes; bodies of up to 4 lines of 15 kinds and their re-renders | answers were declared and failures had a cause, clients fail closed, lists are whole, decorations stay visible, edits of a registration's entry reach the copies of that registration and no other; lossless sections, plain prose kept, idempotent rendering of bodies with no indented marker, bound stamps read back, allowlist ids bind to the nearest token |
| `rerender_keeps_prose` | bodies as in `process_state`, shorter | violated: prose next to a skip token is deleted, and an indented marker is rendered again and again |
| `miss_is_retried` | 1 change, 1 replay | violated: the retry step never runs |
| `own_tests_selected` | as `test_selection` | violated: a module with no adjacency entry does not select its own tests |
| `aged_class_is_reported` | as `merge_queue` | violated: with a checkout of depth one a file is as old as the head commit, and the age rule misses it |
| `stable_per_process` | as `process_state` | violated: one endpoint has two URLs in a process, after an eviction or when two lookups miss at once and a variable changes |
| `declarations_stay_valid` | 150 candidates of 13 contracts | violated: a validated policy whose list is edited is refused by its own validator |

Bounds, and why they are enough. Three calls are the first number at which a
holder, a waiter and a nested call meet; two print-alike objects are all that
`str` can confuse. Four lines hold every pair of neighbours around a marker with
a blank between; renders add more. Two changes reach every pair of draft, close,
reopen, push and edit, and with one replay every run that can cancel another.
Three runs are one that works, one that waits and one that displaces it. Four
modules exceed the threshold of three used instead of the repository's five, and
two groups are the fewest that can draw from different collections.
Two pull requests are the fewest that merge side by side; one subject per
execution loses nothing, because no check relates surfaces of two subjects, and each
subject's edits pair every form a script recognises with one it does not. Three
days with a threshold and a window of one pass every boundary of both (the day
before, the day, the day after). Two threads, three lookups and one change are a
miss beside a miss with different environments and a hit after both. The
parts of `process_state` share nothing and run one at a time, and so do the two of
`concurrency`. Two readers are the fewest that share a dictionary, and three writes
are two registrations with an edit between, before or after. One file on GitHub is
enough: no step relates two, and the theorem is about any set of them. A diamond is the
smallest hierarchy in which a list reaches a class by two ways. Three calls of the
bridge nest twice, or block two loops for each other with one call to spare.

`CHECK_DEADLOCK FALSE` stands where the system may stop for good: a merged pull
request, no more runs, a body at its length bound. `IdempotentRegister` ends in
`Finished`, so there a deadlock of the wrapper would be found; in the same run the
bridge may rest at any time.

Fairness. `IdempotentRegister`: each thread that can take a step inside the
wrapper does, and a body that is not waiting for a nested call ends; nobody has
to call. Weak fairness is enough for a waiting call:
the calls are finitely many and each takes a lock at most once, so in the end the
lock is free for good. `OccBornPath` and `Release`: GitHub carries the runs it has
started to their end within the jobs' time limits; authors, operators and the
consumer owe nothing. `RunCoroSync`: every thread goes on with what it was given
(`Proceed`), a coroutine that waits for nothing ends, and a loop that is not blocked
answers; nobody has to call or to await. The other modules state no liveness.

What the models take for granted, besides the code:

- `MergeQueue`: all four checks are required (which ones are is a setting of the
  repository, not a file in it); nightly runs are on dev, the default branch; a
  run that fails leaves nothing behind; the files of `Files` exist from the first
  day; the package index only grows; `ruff`, `mypy` and the local hooks are left out.
- `DependencyGates`: one lock for all groups; a distribution's requirements do
  not change. `HookGates`: hooks from other repositories are hooks in another
  language, which the script does not read either. `TestRootGate`: the
  directories of a state are those that hold tests; words that start pytest in
  another way, an `-o testpaths` and an option without its value are outside
  `StepIsReadable`.
- `OverlayResolver`: the packaged document does not change within a process; a
  variable is set or unset as a whole.
- `SharedMetadata`: a class is decorated before its subclasses exist. Decorating
  a base later, by a plain call, can hide a subclass's entry.
- `FrozenContracts`: edits keep the types of fields.
- `Release`: the release action and the queue behave as the workflow uses them; the
  checksums and the release's text are not told apart from its files.
- `RunCoroSync`: a coroutine awaits another loop at most once, and cancellation
  and interrupts do not occur.

## 4. Proofs

`tlapm` checks every proof to the last leaf, for all values of the constants.

`IdempotentRegisterProofs`: `TypeCorrect`, `SeenSetsExact`,
`RegistrationAppliedOnce` and `WrapperImplementsRegisterOnce`. The assumptions
are that `Str` maps objects to keys and that `None` is none of the values it is
told from. The inductive invariant `IInv` adds to `TypeOK`
and `SeenIsRegistered` that a call has a request exactly when it entered and an
outcome exactly when it is past the body (`PlaceInv`), that a call inside the
`with` block holds its function's lock (`LockInv`), that a running body's key is
not recorded (`OpenInv`), that a call that took effect is still in the block or
has been answered (`AppliedInv`) and that one call completed each key
(`RegisteredOnce`). Mutual exclusion is what
makes `AppliedOnce` inductive: without it nothing says that no other call ran
between the check of line 146 and the record of line 153. The refinement follows
step by step: `Enter` is `Submit`; `FnReturn`, `Skip` and `FnRaise` are the three
answers; everything else stutters.

`ReleaseProofs`: `FilesHaveOneSource`, `MainAlwaysReleased`,
`ReleasesStayInMain`, from the assumptions that versions and ancestry are
functions of commits and that ancestry is reflexive and transitive. No concurrency
group is needed: the invariant (`RunInv`) records per run what its steps have
established - a run past `checked` holds a commit of its version, one past
`wheel` finds the wheel of its version built from that commit, and so on - and
PyPI's refusal to replace a file keeps these facts true whatever other runs do. The
files on GitHub are replaced, so of them a run may rely on less (`AssetInv`): a file
it attached is there or owed by another run, which takes that only an upload makes a
run owe less (`OwedKept`).

The other modules of proofs follow the same plan: an invariant in named parts, one
lemma per action, a temporal theorem, and the properties the runs check as
consequences.

`RunCoroSyncProofs`: `Placement` (`IInv`), `CoroutineAwaitedOnce`,
`LeavesNothingBehind`. Assumed: calls and threads are different things, and a
thread has a loop of its own or none. `AwaitedOnce` is not inductive: that
`asyncio.run` is not refused follows from where coroutines run. `ParentInv` says
that whoever made an active call is blocked by it and made no other, `ThreadInv`
that a live coroutine is on its call's worker or on the plain thread that called,
and `LoopInv` that the running loops are exactly theirs; together they give
`NoLoopIsPlain`: a call that finds no loop was made by a thread on which none can
be running. `RunsInv` counts the starts.

`OccBornPathProofs`: `RunsAndHeads` (`IInv`), `OneRunInProgress`,
`CommandsInOrder`, `NobodyStranded`. Assumed: the bounds are numbers. Order of
commands needs to know what a run in progress will publish: `HeadInv` says its head
is at least as new as every published one, which holds because starting a run
cancels the others and a new one sees the present head.

`TestSelectionProofs`: `GreenAllTheWayDown` (`IInv`), `GreenCovers`,
`GreenEscalations`, `GrowingDiff`. Assumed: the map satisfies its own validator
and names known modules. The invariant follows a green summary down: gate, matrix,
groups, and a selection that is the one computed from the run's own files for one
value of the flag. Lemmas about the algorithm carry the rest: every selection
includes what the map declares (`SelectionCovers`), a whole run and an escalating
file select everything (`EscalationSelectsAll`), and resolving, escalating and
counting are monotone, which takes cardinalities of finite sets.

`MergeQueueProofs`: `GreenBranch` (`IInv`), `ClosureClean`, `NoGitOverride`,
`PinsAgree`, `HooksFailLoud`, `NoFailureWithoutNotice`, `ReleasesClean`,
`OnlyExcludedMissed` and `ClosureIsLeast`.
Assumed: the first dev passes the checks (they were introduced green) and surfaces
have their types. `GreenInv` says that the parts of
the checks that read nothing but the tree hold of dev: only trees that passed
become dev. `ReviewedInv` is needed because the merge group skips the provenance
check: a table of sources comes to dev as the pull request's own run saw it.
`NoticeInv` says that a date that has come was announced, which holds because the
run of a date's last day warns and passes, and no commit or night goes without a
run. From there each theorem is one about a check: what the script accepts is what
uv, pip, pytest or pre-commit does, under the stated condition. `Closure` iterates
the requirements as often as there are distributions, and `ClosureIsLeast` shows
that this is enough, cycles included: each round that is not the last adds a
distribution, so after that many rounds nothing is left to add. `ClosureClean` needs
only that the lock has what is declared and what its members require (`LockCovers`);
it may be stale and have more. `ReleasesClean` follows from `PublishedInv`: the lock
beside a released wheel had passed the scan, so what the wheel brings along from it is
clean, whatever dev and the index became since. `OnlyExcludedMissed` rests on the
agreement of two readers of one command line (`ReadableStep`): where pytest accepts
its options, a reader who knows one value option more than the script finds no path
that the script did not. The proof found the condition: with `--n -n 4` (`--n` an
option the script does not list), where pytest stops with a usage error, they disagree about the words that follow.

`ProcessStateProofs`, its first part, about `OverlayResolver` and
`ProjectTracker`: `LookupsExplained` (`LookupInv`), `ResultsAreDeclared`,
`FailuresAreCaused`, `ClientsFailClosed`, `ListingsAreWhole`. Assumed: the flag is no endpoint's name, and the tracker's key
is one. They are about `TrackerSpec`, in which lookups and list calls interleave
freely; the run checks the two apart. `LoadingInv` describes a lookup in the middle of
its document - what it has read are values its fields had since it began, what it
has not read it will find in the history - and `EverInv` and `CacheInv` tie that
history to the environment and to the cache.

`ProcessStateProofs`, the rest: `Decorations`, `EveryDecorationSeen`, `Dictionaries`,
`EditsReachSharers`, about `SharedSpec`. Assumed: a class is first in its own
resolution order, as in Python. The order of decorations matters where an
entry turns into a list: the attribute moves to the decorated class, and only
because no decorated subclass exists yet does none lose sight of an entry
(`DecorateKeeps`). `RegistryBinds` and `CopiesBind` say that a dictionary belongs to
one registration of one name, for the registry and for every copy: a registration
makes a new one and nothing else assigns one, so an edit reaches exactly its sharers.

`OccStampProofs`: `BodyTyped`, `SectionsLosslessHolds`, `PlainProseKeptHolds`,
`RenderIdempotentHolds`, `BoundStampReadsBackHolds`, `AllowlistBindsNearestHolds`,
and beyond what the run checks `AutomationKeepsProse` (no step of the automation
touches plain prose) and `RetriesChangeNothing` (a bound body parses again, and
binding the same source twice is binding it once). They hold for bodies of any
length, where the run stops at four lines and their renders. Assumed: lines are
records of captured texts (`LinesAssumption`), and a well-formed source is neither
absent nor one the patterns or the validator refuse (`SourcesAssumption`). The
invariant of the specification is only that the body is a sequence of lines; the
rest is about every such sequence, by induction on it.

The library's induction theorems take a predicate, which the provers cannot
instantiate; its `WFMin` takes a set. So `NatSetInduction` and `SeqSetInduction`
say that a set with 0 (or `<<>>`) that is closed under successor (or `Append`) is
everything, and each induction names the set of bodies that have the property.
`FoldLeft` is defined by a `CHOOSE` of a recursive function: `FoldExists` shows
there is one and `FoldPrefixes` what its values on the prefixes are, once for all
folds, and each parser gets two laws, its value on `<<>>` and on `Append(b, l)`.
From there on:

- the sections: an invariant of the fold's accumulator (`WellGrouped`, `OpenRun`) -
  the closed runs alternate, the open one is of the present kind, together they
  spell what was read;
- the block: a rendered block consists of stamp lines (`BlockKinds`), each parser
  passes over lines that name nothing for it, before, between and after those that
  do (`PassedBefore`, `PassedOver`, `PassedAfter`), and reads its own part back
  (`TicketsReadBack`, `SkipsReadBack`); where no marker strays the human lines are
  clean, so after them the whole block reads back (`BlockReadsBack`), and joining the
  prose and the block again changes nothing (`JoinedSplits`);
- the prose: it is the prose of the human lines (`ProseIsHuman`), stripping the end
  drops none of it and the block adds none;
- the allowlist: a token is a place in a line, and its rank counts the places up to it;
  one more line adds ranks after the present ones and changes the id of the last token
  only (`RankAppend`, `AllowsAppend`).

Model-checked only:

- liveness (`EveryCallLeaves`, `PushConcludes`, `RequestAnswered`, `NoSilentMiss`,
  `ReturnsUnlessEntangled`): it needs fairness and `ENABLED`, which the prover does
  not handle;
- the six violations: they are about single executions, which TLC exhibits.

## 5. Not modelled

- Types without behaviour: enumerations, telemetry, topic names, runtime deployment
  contracts, constant tables such as the agent scope presets; protocols.
- The workflows that are shell around GitHub's state: automatic merge, review
  threads, base-branch guards, tagging, and the audits of TODOs. What they decide
  lies in labels, threads and issues whose semantics are not in this repository.
- GraphQL queries, HTTP, message texts, headings kept on sections, the inspection
  of signatures at decoration time, pip and checkout steps (each is "a step may
  fail").
- Cancellation of coroutines and interrupts of blocked threads.

`PROJECT.json` lists every part with its status and reason.

## 6. Plan

Every component with behaviour is modelled, and every invariant and safety action
property that a passing run checks is a theorem. What is left:

1. An abstract specification of the born path (a queue that answers the newest
   head) and of the cache (a map that forgets), with their refinements proved.
2. What survives a re-render of a body with stray markers: which of its tickets and
   tokens still read back.
3. The bridge's circle: a call that does not return is `Entangled`, as an
   invariant about states in which no step of it is possible.
