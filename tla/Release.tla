---------------------------------- MODULE Release ----------------------------------
(***************************************************************************)
(* The release workflow (.github/workflows/release.yml): a pushed version  *)
(* tag, a manual dispatch or a re-run starts a run; its steps publish the  *)
(* wheel and the sdist to PyPI, create the GitHub release, attach the files *)
(* to it and fast-forward main to the tag.  Several runs, of one tag or of *)
(* many, interleave at their steps, and any step may fail half-way.  PyPI, *)
(* GitHub's queue, the release action (a file that is attached is deleted, *)
(* then uploaded anew) and git's refusal of a push that is no fast-forward *)
(* are as the workflow uses them.                                          *)
(*                                                                         *)
(* A commit stands for the files built from it; the tag "v<x>" is named by *)
(* the version x.                                                          *)
(***************************************************************************)
EXTENDS Naturals, Sequences

CONSTANTS
  Commits,
  Anc,       \* Anc[c]: c and the commits before it
  Root,      \* where main is before the first release
  Versions,
  Version,   \* Version[c]: [project].version in pyproject.toml at c
  Rc,        \* the versions whose name contains "rc"
  Files,     \* the files of the GitHub release: wheel, sdist, checksums
  None,
  MaxRuns    \* bound: runs started

ASSUME CommitsAssumption ==
  /\ Root \in Commits /\ None \notin Commits
  /\ Version \in [Commits -> Versions]
  /\ Rc \subseteq Versions
  /\ MaxRuns \in Nat

ASSUME AncAssumption ==
  /\ Anc \in [Commits -> SUBSET Commits]
  /\ \A c \in Commits : c \in Anc[c]
  /\ \A c \in Commits : \A b \in Anc[c] : Anc[b] \subseteq Anc[c]

VARIABLES
  tag,       \* tag[v]: the commit of the tag "v<v>" on the remote, or None
  main,      \* the commit of refs/heads/main
  wheel,     \* wheel[v], sdist[v]: what PyPI holds for version v, or None
  sdist,
  ghrel,     \* the versions that have a GitHub release
  asset,     \* asset[v][f]: the commit file f of that release is from, or None
  runs       \* every run, oldest first

vars == <<tag, main, wheel, sdist, ghrel, asset, runs>>

MaybeCommit == Commits \cup {None}

\* "checked" to "released" name the last step done; "left" holds the files that a
\* run which has created the release has still to attach.
InProgress == {"checked", "wheel", "sdist", "released"}
Ended == {"success", "failed"}
Runs == [by : {"push", "dispatch"}, v : Versions, at : MaybeCommit,
         left : SUBSET Files,
         status : {"queued", "cancelled"} \cup InProgress \cup Ended]

Init ==
  /\ tag = [v \in Versions |-> None]
  /\ main = Root
  /\ wheel = [v \in Versions |-> None]
  /\ sdist = [v \in Versions |-> None]
  /\ ghrel = {}
  /\ asset = [v \in Versions |-> [f \in Files |-> None]]
  /\ runs = << >>

-----------------------------------------------------------------------------
(* Starting a run *)

OneGroup(r, s) == TRUE   \* mutant: the group does not name the ref

\* The concurrency group names github.ref_name: the tag of a push, the branch of
\* a dispatch, whatever tag that is for.
SameGroup(r, s) == r.by = s.by /\ (r.by = "push" => r.v = s.v)

\* One run of a group is in progress and one waits; a new one takes the place of
\* the one that waits.
Enqueue(by, v) ==
  LET r == [by |-> by, v |-> v, at |-> None, left |-> {}, status |-> "queued"]
      Displace(s) == IF s.status = "queued" /\ SameGroup(s, r)
                     THEN [s EXCEPT !.status = "cancelled"] ELSE s
  IN  /\ Len(runs) < MaxRuns
      /\ runs' = Append([i \in DOMAIN runs |-> Displace(runs[i])], r)

\* A person pushes a tag, or moves it.
PushTag(v, c) ==
  /\ tag[v] # c
  /\ tag' = [tag EXCEPT ![v] = c]
  /\ Enqueue("push", v)
  /\ UNCHANGED <<main, wheel, sdist, ghrel, asset>>

Dispatch(v) ==
  /\ Enqueue("dispatch", v)
  /\ UNCHANGED <<tag, main, wheel, sdist, ghrel, asset>>

Rerun(i) ==
  /\ runs[i].status = "failed"
  /\ Enqueue(runs[i].by, runs[i].v)
  /\ UNCHANGED <<tag, main, wheel, sdist, ghrel, asset>>

-----------------------------------------------------------------------------
(* The steps of the job *)

SetStatus(i, status) == runs' = [runs EXCEPT ![i].status = status]

Free(i) ==
  \A j \in DOMAIN runs : SameGroup(runs[i], runs[j]) => runs[j].status \notin InProgress

\* The tag, checked out as it is now, holds the version it names.
Validated(v) == tag[v] \in {c \in Commits : Version[c] = v}

Begin(i) ==
  /\ runs[i].status = "queued" /\ Free(i) /\ Validated(runs[i].v)
  /\ runs' = [runs EXCEPT ![i].at = tag[runs[i].v], ![i].status = "checked"]
  /\ UNCHANGED <<tag, main, wheel, sdist, ghrel, asset>>

BeginRefused(i) ==
  /\ runs[i].status = "queued" /\ Free(i) /\ ~Validated(runs[i].v)
  /\ SetStatus(i, "failed")
  /\ UNCHANGED <<tag, main, wheel, sdist, ghrel, asset>>

PyPITakesAny(held, c) == TRUE   \* mutant: a file that exists is passed over

\* PyPI never replaces a file; it accepts the same file again.
PyPITakes(held, c) == held \in {None, c}

Kept(held, c) == IF held = None THEN c ELSE held

PublishWheel(i) ==
  /\ runs[i].status = "checked" /\ PyPITakes(wheel[runs[i].v], runs[i].at)
  /\ wheel' = [wheel EXCEPT ![runs[i].v] = Kept(@, runs[i].at)]
  /\ SetStatus(i, "wheel")
  /\ UNCHANGED <<tag, main, sdist, ghrel, asset>>

PublishSdist(i) ==
  /\ runs[i].status = "wheel" /\ PyPITakes(sdist[runs[i].v], runs[i].at)
  /\ sdist' = [sdist EXCEPT ![runs[i].v] = Kept(@, runs[i].at)]
  /\ SetStatus(i, "sdist")
  /\ UNCHANGED <<tag, main, wheel, ghrel, asset>>

\* An existing release is found and updated.
CreateRelease(i) ==
  /\ runs[i].status = "sdist"
  /\ ghrel' = ghrel \cup {runs[i].v}
  /\ runs' = [runs EXCEPT ![i].left = Files, ![i].status = "released"]
  /\ UNCHANGED <<tag, main, wheel, sdist, asset>>

DeleteAsset(i, f) ==
  /\ runs[i].status = "released" /\ f \in runs[i].left /\ asset[runs[i].v][f] # None
  /\ asset' = [asset EXCEPT ![runs[i].v][f] = None]
  /\ UNCHANGED <<tag, main, wheel, sdist, ghrel, runs>>

UploadAsset(i, f) ==
  /\ runs[i].status = "released" /\ f \in runs[i].left /\ asset[runs[i].v][f] = None
  /\ asset' = [asset EXCEPT ![runs[i].v][f] = runs[i].at]
  /\ runs' = [runs EXCEPT ![i].left = @ \ {f}]
  /\ UNCHANGED <<tag, main, wheel, sdist, ghrel>>

Attached(i) == runs[i].status = "released" /\ runs[i].left = {}

ForcePush(c) == TRUE   \* mutant: with force

\* git push of the tag's commit to main, without force.
FastForward(c) == main \in Anc[c]

SyncedAlways(v) == TRUE   \* mutant: release candidates too

Synced(v) == v \notin Rc

SyncMain(i) ==
  /\ Attached(i) /\ Synced(runs[i].v) /\ FastForward(runs[i].at)
  /\ main' = runs[i].at
  /\ SetStatus(i, "success")
  /\ UNCHANGED <<tag, wheel, sdist, ghrel, asset>>

SkipSync(i) ==
  /\ Attached(i) /\ ~Synced(runs[i].v)
  /\ SetStatus(i, "success")
  /\ UNCHANGED <<tag, main, wheel, sdist, ghrel, asset>>

\* The step the run is at fails: refused by PyPI or by git, or for any other
\* reason (the build, the pin check, a lost connection).
StepFails(i) ==
  /\ runs[i].status \in InProgress
  /\ SetStatus(i, "failed")
  /\ UNCHANGED <<tag, main, wheel, sdist, ghrel, asset>>

-----------------------------------------------------------------------------
RunStep(i) ==
  \/ Begin(i)
  \/ BeginRefused(i)
  \/ PublishWheel(i)
  \/ PublishSdist(i)
  \/ CreateRelease(i)
  \/ \E f \in Files : DeleteAsset(i, f) \/ UploadAsset(i, f)
  \/ SyncMain(i)
  \/ SkipSync(i)
  \/ StepFails(i)

Next ==
  \/ \E v \in Versions, c \in Commits : PushTag(v, c)
  \/ \E v \in Versions : Dispatch(v)
  \/ \E i \in DOMAIN runs : Rerun(i) \/ RunStep(i)

Spec == Init /\ [][Next]_vars

\* GitHub runs what it has queued, and every step has an end.
FairSpec == Spec /\ WF_vars(\E i \in DOMAIN runs : RunStep(i))

-----------------------------------------------------------------------------
(* Properties *)

TypeOK ==
  /\ tag \in [Versions -> MaybeCommit]
  /\ main \in Commits
  /\ wheel \in [Versions -> MaybeCommit]
  /\ sdist \in [Versions -> MaybeCommit]
  /\ ghrel \subseteq Versions
  /\ asset \in [Versions -> [Files -> MaybeCommit]]
  /\ runs \in Seq(Runs)

\* However tags move and runs overlap or are repeated, the files of a version are
\* built from one commit, of that version: those on PyPI and those on GitHub.
OneSource ==
  \A v \in Versions :
    /\ wheel[v] # None => Version[wheel[v]] = v
    /\ sdist[v] \in {None, wheel[v]}
    /\ \A f \in Files : asset[v][f] \in {None, sdist[v]}

\* A run for v is to attach f and has not: it is at it, or failed before.
Unattached(v, f) == \E j \in DOMAIN runs : runs[j].v = v /\ f \in runs[j].left

\* main is a release and not a candidate: both files are on PyPI, and a file of the
\* GitHub release can be missing only because another run for the version has
\* still to attach it, or failed between deleting it and uploading it.
MainIsReleased ==
  main # Root =>
    LET v == Version[main] IN
      /\ v \notin Rc /\ wheel[v] = main /\ sdist[v] = main /\ v \in ghrel
      /\ \A f \in Files : asset[v][f] = main \/ (asset[v][f] = None /\ Unattached(v, f))

\* A run that ended well has main at its commit or beyond: of two releases, the
\* older one that finishes last does not take main back.
ReleaseReachesMain ==
  \A i \in DOMAIN runs :
    runs[i].status = "success" /\ runs[i].v \notin Rc => runs[i].at \in Anc[main]

RunIds == 1..MaxRuns
Started(i) == i <= Len(runs)
TagPushed(i) == Started(i) /\ runs[i].by = "push"
TagConcluded(i) ==
  IF Started(i)
  THEN \E j \in i..Len(runs) : runs[j].v = runs[i].v /\ runs[j].status \in Ended
  ELSE FALSE

\* A pushed tag is released or fails visibly: when its run is displaced while it
\* waits, the run that took its place is for the same tag.
PushConcludes == \A i \in RunIds : TagPushed(i) ~> TagConcluded(i)
====================================================================================
