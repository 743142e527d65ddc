------------------------------- MODULE ReleaseProofs -------------------------------
(***************************************************************************)
(* Proofs about Release for every set of commits and versions, every       *)
(* ancestry that is reflexive and transitive, and any number of runs.      *)
(*                                                                         *)
(* The three properties speak of what is published; none is inductive by   *)
(* itself.  What carries them is what a run may rely on while others       *)
(* interleave: the files it has published are still the ones it built, and *)
(* a file it attached to the release is there or owed by another run.      *)
(***************************************************************************)
EXTENDS Release, TLAPS

\* A run past the checks works on a commit of the version it was started for.
CheckedInv ==
  \A i \in DOMAIN runs : runs[i].status \in InProgress \cup {"success"} =>
    runs[i].at \in Commits /\ Version[runs[i].at] = runs[i].v

\* What a run has published stays in place.
WheelInv ==
  \A i \in DOMAIN runs : runs[i].status \in {"wheel", "sdist", "released", "success"} =>
    wheel[runs[i].v] = runs[i].at
SdistInv ==
  \A i \in DOMAIN runs : runs[i].status \in {"sdist", "released", "success"} =>
    sdist[runs[i].v] = runs[i].at
GhrelInv ==
  \A i \in DOMAIN runs : runs[i].status \in {"released", "success"} =>
    /\ runs[i].v \in ghrel
    /\ runs[i].status = "success" => runs[i].left = {}

\* A file that is gone after a run attached it has a run that still owes it.
AssetInv ==
  \A i \in DOMAIN runs : runs[i].status \in {"released", "success"} =>
    \A f \in Files \ runs[i].left :
      asset[runs[i].v][f] = None => Unattached(runs[i].v, f)

RunInv == CheckedInv /\ WheelInv /\ SdistInv /\ GhrelInv /\ AssetInv

IInv == TypeOK /\ RunInv /\ OneSource /\ MainIsReleased /\ ReleaseReachesMain

-----------------------------------------------------------------------------
(* Lemmas *)

LEMMA RunTyped ==
  ASSUME TypeOK, NEW i \in DOMAIN runs
  PROVE  runs[i] \in Runs /\ runs[i].v \in Versions /\ runs[i].by \in {"push", "dispatch"}
<1>1. runs[i] \in Runs
  BY DEF TypeOK
<1> QED
  BY <1>1 DEF Runs

\* How replacing the record of run i changes the runs.
LEMMA RunSet ==
  ASSUME TypeOK, NEW i \in DOMAIN runs, NEW r \in Runs, runs' = [runs EXCEPT ![i] = r]
  PROVE  /\ runs' \in Seq(Runs) /\ DOMAIN runs' = DOMAIN runs
         /\ runs'[i] = r
         /\ \A j \in DOMAIN runs : j # i => runs'[j] = runs[j]
BY DEF TypeOK

\* No step but an upload makes a run owe less.
OwedKept ==
  \A j \in DOMAIN runs :
    j \in DOMAIN runs' /\ runs'[j].v = runs[j].v /\ runs[j].left \subseteq runs'[j].left

\* How a step of run i changes the runs.
LEMMA StatusSet ==
  ASSUME TypeOK, NEW i \in DOMAIN runs, NEW s \in InProgress \cup Ended, SetStatus(i, s)
  PROVE  /\ runs' \in Seq(Runs)
         /\ DOMAIN runs' = DOMAIN runs
         /\ runs'[i] = [runs[i] EXCEPT !.status = s]
         /\ runs[i] \in Runs
         /\ runs'[i].status = s /\ runs'[i].v = runs[i].v /\ runs'[i].at = runs[i].at
         /\ runs'[i].left = runs[i].left
         /\ \A j \in DOMAIN runs : j # i => runs'[j] = runs[j]
<1>1. runs[i] \in Runs
  BY DEF TypeOK
<1>2. [runs[i] EXCEPT !.status = s] \in Runs
  BY <1>1 DEF Runs
<1>3. runs' = [runs EXCEPT ![i] = [runs[i] EXCEPT !.status = s]]
  BY DEF SetStatus
<1>4. /\ runs' \in Seq(Runs) /\ DOMAIN runs' = DOMAIN runs
      /\ runs'[i] = [runs[i] EXCEPT !.status = s]
      /\ \A j \in DOMAIN runs : j # i => runs'[j] = runs[j]
  BY <1>2, <1>3, RunSet
<1>5. /\ runs'[i].status = s /\ runs'[i].v = runs[i].v /\ runs'[i].at = runs[i].at
      /\ runs'[i].left = runs[i].left
  BY <1>1, <1>4 DEF Runs
<1> QED
  BY <1>1, <1>4, <1>5

\* Queuing a run disturbs none that has begun.
LEMMA RunQueued ==
  ASSUME TypeOK, NEW by \in {"push", "dispatch"}, NEW v \in Versions, Enqueue(by, v)
  PROVE  /\ runs' \in Seq(Runs)
         /\ \A j \in DOMAIN runs' : runs'[j].status \in InProgress \cup {"success"} =>
              j \in DOMAIN runs /\ runs'[j] = runs[j]
         /\ OwedKept
<1> DEFINE r == [by |-> by, v |-> v, at |-> None, left |-> {}, status |-> "queued"]
           D(s) == IF s.status = "queued" /\ SameGroup(s, r)
                   THEN [s EXCEPT !.status = "cancelled"] ELSE s
           old == [j \in DOMAIN runs |-> D(runs[j])]
<1>1. runs' = Append(old, r)
  BY DEF Enqueue
<1>2. r \in Runs
  BY DEF Runs, MaybeCommit
<1>3. \A j \in DOMAIN runs : runs[j] \in Runs
  BY DEF TypeOK
<1>4. \A s \in Runs : D(s) \in Runs
  BY DEF Runs
<1>5. old \in Seq(Runs) /\ Len(old) = Len(runs) /\ DOMAIN old = DOMAIN runs
  <2>1. DOMAIN runs = 1..Len(runs) /\ Len(runs) \in Nat
    BY DEF TypeOK
  <2>2. old \in [1..Len(runs) -> Runs]
    BY <1>3, <1>4, <2>1
  <2> HIDE DEF old
  <2> QED
    BY <2>1, <2>2
<1>6. \A s \in Runs : D(s).status \in InProgress \cup {"success"} => D(s) = s
  BY DEF Runs, InProgress
<1>7. \A j \in DOMAIN runs : old[j] = D(runs[j])
  OBVIOUS
<1>8. r.status = "queued"
  OBVIOUS
<1>8a. \A s \in Runs : D(s).v = s.v /\ D(s).left = s.left
  BY DEF Runs
<1> HIDE DEF r, old
<1>9. runs' \in Seq(Runs)
  BY <1>1, <1>2, <1>5
<1>10. ASSUME NEW j \in DOMAIN runs', runs'[j].status \in InProgress \cup {"success"}
       PROVE  j \in DOMAIN runs /\ runs'[j] = runs[j]
  <2>1. CASE j = Len(runs) + 1
    <3>1. runs'[j] = r
      BY <1>1, <1>5, <2>1
    <3> QED
      BY <1>8, <1>10, <3>1 DEF InProgress
  <2>2. CASE j # Len(runs) + 1
    <3>1. j \in DOMAIN runs /\ runs'[j] = old[j]
      BY <1>1, <1>2, <1>5, <2>2 DEF TypeOK
    <3>2. runs'[j] = D(runs[j]) /\ runs[j] \in Runs
      BY <1>3, <1>7, <3>1
    <3>3. D(runs[j]) = runs[j]
      BY <1>6, <1>10, <3>2
    <3> QED
      BY <3>1, <3>2, <3>3
  <2> QED
    BY <2>1, <2>2
<1>11. ASSUME NEW j \in DOMAIN runs
       PROVE  j \in DOMAIN runs' /\ runs'[j].v = runs[j].v /\ runs'[j].left = runs[j].left
  <2>1. j \in DOMAIN runs' /\ runs'[j] = old[j]
    BY <1>1, <1>2, <1>5 DEF TypeOK
  <2> QED
    BY <1>3, <1>7, <1>8a, <2>1
<1> QED
  BY <1>9, <1>10, <1>11 DEF OwedKept

\* With the files as they are, no step that keeps what is owed breaks the claim.
LEMMA AssetsStay ==
  ASSUME AssetInv, OwedKept, asset' = asset,
         \A j \in DOMAIN runs' : runs'[j].status \in {"released", "success"} =>
           \/ runs'[j].left = Files
           \/ /\ j \in DOMAIN runs /\ runs[j].status \in {"released", "success"}
              /\ runs'[j].v = runs[j].v /\ runs'[j].left = runs[j].left
  PROVE  AssetInv'
<1> SUFFICES ASSUME NEW i \in DOMAIN runs', runs'[i].status \in {"released", "success"},
                    NEW f \in Files, f \notin runs'[i].left, asset'[runs'[i].v][f] = None
             PROVE  Unattached(runs[i].v, f)'
  BY DEF AssetInv
<1>1. /\ i \in DOMAIN runs /\ runs[i].status \in {"released", "success"}
      /\ runs'[i].v = runs[i].v /\ runs'[i].left = runs[i].left
  OBVIOUS
<1>2. PICK k \in DOMAIN runs : runs[k].v = runs[i].v /\ f \in runs[k].left
  BY <1>1 DEF AssetInv, Unattached
<1> QED
  BY <1>1, <1>2 DEF OwedKept, Unattached

\* main stays a release as long as nothing of its version is taken away.
LEMMA MainStays ==
  ASSUME TypeOK, MainIsReleased, OwedKept, UNCHANGED <<main, asset>>, ghrel \subseteq ghrel',
         \A v \in Versions : wheel[v] # None => wheel'[v] = wheel[v],
         \A v \in Versions : sdist[v] # None => sdist'[v] = sdist[v]
  PROVE  MainIsReleased'
<1> SUFFICES ASSUME main # Root PROVE MainIsReleased'
  BY DEF MainIsReleased
<1> DEFINE v == Version[main]
<1>1. main \in Commits /\ v \in Versions /\ main # None
  BY CommitsAssumption DEF TypeOK
<1>2. v \notin Rc /\ wheel'[v] = main /\ sdist'[v] = main /\ v \in ghrel'
  BY <1>1 DEF MainIsReleased
<1>3. ASSUME NEW f \in Files
      PROVE  asset[v][f] = main
             \/ (asset[v][f] = None /\ \E j \in DOMAIN runs' : runs'[j].v = v /\ f \in runs'[j].left)
  BY DEF MainIsReleased, Unattached, OwedKept
<1> QED
  BY <1>2, <1>3 DEF MainIsReleased, Unattached

LEMMA InitIInv == Init => IInv
<1> SUFFICES ASSUME Init PROVE IInv
  OBVIOUS
<1>1. TypeOK
  BY CommitsAssumption DEF Init, TypeOK, MaybeCommit
<1>2. DOMAIN runs = {}
  BY DEF Init
<1>3. RunInv /\ ReleaseReachesMain
  BY <1>2 DEF RunInv, CheckedInv, WheelInv, SdistInv, GhrelInv, AssetInv, ReleaseReachesMain
<1>4. OneSource /\ MainIsReleased
  BY DEF Init, OneSource, MainIsReleased
<1> QED
  BY <1>1, <1>3, <1>4 DEF IInv

\* Starting a run, whatever happens to the tag.
LEMMA QueueIInv ==
  ASSUME IInv, NEW by \in {"push", "dispatch"}, NEW v \in Versions, Enqueue(by, v),
         UNCHANGED <<main, wheel, sdist, ghrel, asset>>, tag' \in [Versions -> MaybeCommit]
  PROVE  IInv'
<1>1. TypeOK'
  BY RunQueued DEF IInv, TypeOK
<1>2. \A j \in DOMAIN runs' : runs'[j].status \in InProgress \cup {"success"} =>
        j \in DOMAIN runs /\ runs'[j] = runs[j]
  BY RunQueued DEF IInv
<1>3. CheckedInv' /\ WheelInv' /\ SdistInv' /\ GhrelInv'
  BY <1>2 DEF IInv, RunInv, CheckedInv, WheelInv, SdistInv, GhrelInv, InProgress
<1>4. OwedKept
  BY RunQueued DEF IInv
<1>5. AssetInv'
  <2>1. \A j \in DOMAIN runs' : runs'[j].status \in {"released", "success"} =>
          /\ j \in DOMAIN runs /\ runs[j].status \in {"released", "success"}
          /\ runs'[j].v = runs[j].v /\ runs'[j].left = runs[j].left
    BY <1>2 DEF InProgress
  <2> QED
    BY <1>4, <2>1, AssetsStay DEF IInv, RunInv
<1>6. MainIsReleased'
  BY <1>4, MainStays DEF IInv
<1>7. ReleaseReachesMain' /\ OneSource'
  BY <1>2 DEF IInv, ReleaseReachesMain, OneSource
<1> QED
  BY <1>1, <1>3, <1>5, <1>6, <1>7 DEF IInv, RunInv

LEMMA BeginIInv ==
  ASSUME IInv, NEW i \in DOMAIN runs, Begin(i)
  PROVE  IInv'
<1> DEFINE c == tag[runs[i].v]
<1>1. runs[i] \in Runs /\ c \in Commits /\ Version[c] = runs[i].v
  BY RunTyped DEF IInv, Begin, Validated
<1>2. runs' = [runs EXCEPT ![i] = [runs[i] EXCEPT !.at = c, !.status = "checked"]]
  BY DEF Begin
<1>3. [runs[i] EXCEPT !.at = c, !.status = "checked"] \in Runs
  BY <1>1 DEF Runs, InProgress, MaybeCommit
<1>4. TypeOK'
  <2>1. runs' \in Seq(Runs)
    BY <1>2, <1>3 DEF IInv, TypeOK
  <2> QED
    BY <2>1 DEF IInv, TypeOK, Begin
<1>5. /\ DOMAIN runs' = DOMAIN runs
      /\ runs'[i].status = "checked" /\ runs'[i].at = c /\ runs'[i].v = runs[i].v
      /\ runs'[i].left = runs[i].left
      /\ \A j \in DOMAIN runs : j # i => runs'[j] = runs[j]
  BY <1>1, <1>2 DEF IInv, TypeOK, Runs
<1>6. CheckedInv' /\ WheelInv' /\ SdistInv' /\ GhrelInv'
  BY <1>1, <1>5 DEF IInv, RunInv, CheckedInv, WheelInv, SdistInv, GhrelInv, Begin
<1>7. OwedKept
  BY <1>5 DEF OwedKept
<1>8. AssetInv'
  BY <1>5, <1>7, AssetsStay DEF IInv, RunInv, Begin
<1>9. MainIsReleased'
  BY <1>7, MainStays DEF IInv, Begin
<1>10. ReleaseReachesMain' /\ OneSource'
  BY <1>5 DEF IInv, ReleaseReachesMain, OneSource, Begin
<1> QED
  BY <1>4, <1>6, <1>8, <1>9, <1>10 DEF IInv, RunInv

\* A run that ends red, at its beginning or at any step.
LEMMA FailIInv ==
  ASSUME IInv, NEW i \in DOMAIN runs, SetStatus(i, "failed"),
         UNCHANGED <<tag, main, wheel, sdist, ghrel, asset>>
  PROVE  IInv'
<1>1. /\ runs' \in Seq(Runs) /\ DOMAIN runs' = DOMAIN runs
      /\ runs'[i].status = "failed" /\ runs'[i].v = runs[i].v /\ runs'[i].left = runs[i].left
      /\ \A j \in DOMAIN runs : j # i => runs'[j] = runs[j]
  BY StatusSet DEF IInv, Ended
<1>2. TypeOK'
  BY <1>1 DEF IInv, TypeOK
<1>3. CheckedInv' /\ WheelInv' /\ SdistInv' /\ GhrelInv'
  BY <1>1 DEF IInv, RunInv, CheckedInv, WheelInv, SdistInv, GhrelInv, InProgress
<1>4. OwedKept
  BY <1>1 DEF OwedKept
<1>5. AssetInv'
  BY <1>1, <1>4, AssetsStay DEF IInv, RunInv
<1>6. MainIsReleased'
  BY <1>4, MainStays DEF IInv
<1>7. ReleaseReachesMain' /\ OneSource'
  BY <1>1 DEF IInv, ReleaseReachesMain, OneSource
<1> QED
  BY <1>2, <1>3, <1>5, <1>6, <1>7 DEF IInv, RunInv

LEMMA PublishWheelIInv ==
  ASSUME IInv, NEW i \in DOMAIN runs, PublishWheel(i)
  PROVE  IInv'
<1> DEFINE v == runs[i].v
           c == runs[i].at
<1>1. /\ runs' \in Seq(Runs) /\ DOMAIN runs' = DOMAIN runs
      /\ runs'[i].status = "wheel" /\ runs'[i].v = v /\ runs'[i].at = c
      /\ runs'[i].left = runs[i].left
      /\ runs[i] \in Runs
      /\ \A j \in DOMAIN runs : j # i => runs'[j] = runs[j]
  BY StatusSet DEF IInv, PublishWheel, InProgress
<1>2. v \in Versions /\ c \in Commits /\ Version[c] = v
  BY <1>1 DEF IInv, RunInv, CheckedInv, PublishWheel, InProgress, Runs
<1>3. /\ wheel \in [Versions -> MaybeCommit] /\ wheel[v] \in {None, c}
      /\ wheel' = [wheel EXCEPT ![v] = c]
  BY DEF IInv, TypeOK, PublishWheel, PyPITakes, Kept
<1>4. wheel'[v] = c /\ \A w \in Versions : w # v => wheel'[w] = wheel[w]
  BY <1>2, <1>3
<1>5. \A w \in Versions : wheel[w] # None => wheel'[w] = wheel[w]
  BY <1>3, <1>4
<1>6. TypeOK'
  BY <1>1, <1>2, <1>3 DEF IInv, TypeOK, PublishWheel, MaybeCommit
<1>7. \A j \in DOMAIN runs : runs[j].v \in Versions
  BY RunTyped DEF IInv
<1>8. WheelInv'
  <2> SUFFICES ASSUME NEW j \in DOMAIN runs, j # i,
                      runs[j].status \in {"wheel", "sdist", "released", "success"}
               PROVE  wheel'[runs[j].v] = runs[j].at
    BY <1>1, <1>4 DEF WheelInv
  <2>1. wheel[runs[j].v] = runs[j].at /\ runs[j].at \in Commits
    BY DEF IInv, RunInv, WheelInv, CheckedInv, InProgress
  <2> QED
    BY <1>5, <1>7, <2>1, CommitsAssumption
<1>9. CheckedInv' /\ SdistInv' /\ GhrelInv'
  BY <1>1, <1>2 DEF IInv, RunInv, CheckedInv, SdistInv, GhrelInv, PublishWheel, InProgress
<1>10. OneSource'
  BY <1>2, <1>4, <1>5 DEF IInv, OneSource, PublishWheel
<1>11. OwedKept
  BY <1>1 DEF OwedKept
<1>12. AssetInv'
  BY <1>1, <1>11, AssetsStay DEF IInv, RunInv, PublishWheel
<1>13. MainIsReleased'
  BY <1>5, <1>11, MainStays DEF IInv, PublishWheel
<1>14. ReleaseReachesMain'
  BY <1>1 DEF IInv, ReleaseReachesMain, PublishWheel
<1> QED
  BY <1>6, <1>8, <1>9, <1>10, <1>12, <1>13, <1>14 DEF IInv, RunInv

LEMMA PublishSdistIInv ==
  ASSUME IInv, NEW i \in DOMAIN runs, PublishSdist(i)
  PROVE  IInv'
<1> DEFINE v == runs[i].v
           c == runs[i].at
<1>1. /\ runs' \in Seq(Runs) /\ DOMAIN runs' = DOMAIN runs
      /\ runs'[i].status = "sdist" /\ runs'[i].v = v /\ runs'[i].at = c
      /\ runs'[i].left = runs[i].left
      /\ runs[i] \in Runs
      /\ \A j \in DOMAIN runs : j # i => runs'[j] = runs[j]
  BY StatusSet DEF IInv, PublishSdist, InProgress
<1>2. v \in Versions /\ c \in Commits /\ Version[c] = v /\ wheel[v] = c
  BY <1>1 DEF IInv, RunInv, CheckedInv, WheelInv, PublishSdist, InProgress, Runs
<1>3. /\ sdist \in [Versions -> MaybeCommit] /\ sdist[v] \in {None, c}
      /\ sdist' = [sdist EXCEPT ![v] = c]
  BY DEF IInv, TypeOK, PublishSdist, PyPITakes, Kept
<1>4. sdist'[v] = c /\ \A w \in Versions : w # v => sdist'[w] = sdist[w]
  BY <1>2, <1>3
<1>5. \A w \in Versions : sdist[w] # None => sdist'[w] = sdist[w]
  BY <1>3, <1>4
<1>6. TypeOK'
  BY <1>1, <1>2, <1>3 DEF IInv, TypeOK, PublishSdist, MaybeCommit
<1>7. \A j \in DOMAIN runs : runs[j].v \in Versions
  BY RunTyped DEF IInv
<1>8. SdistInv'
  <2> SUFFICES ASSUME NEW j \in DOMAIN runs, j # i,
                      runs[j].status \in {"sdist", "released", "success"}
               PROVE  sdist'[runs[j].v] = runs[j].at
    BY <1>1, <1>4 DEF SdistInv
  <2>1. sdist[runs[j].v] = runs[j].at /\ runs[j].at \in Commits
    BY DEF IInv, RunInv, SdistInv, CheckedInv, InProgress
  <2> QED
    BY <1>5, <1>7, <2>1, CommitsAssumption
<1>9. WheelInv'
  BY <1>1, <1>2 DEF IInv, RunInv, WheelInv, PublishSdist
<1>10. CheckedInv' /\ GhrelInv'
  BY <1>1, <1>2 DEF IInv, RunInv, CheckedInv, GhrelInv, PublishSdist, InProgress
<1>11. OneSource'
  BY <1>2, <1>3, <1>4 DEF IInv, OneSource, PublishSdist
<1>12. OwedKept
  BY <1>1 DEF OwedKept
<1>13. AssetInv'
  BY <1>1, <1>12, AssetsStay DEF IInv, RunInv, PublishSdist
<1>14. MainIsReleased'
  BY <1>5, <1>12, MainStays DEF IInv, PublishSdist
<1>15. ReleaseReachesMain'
  BY <1>1 DEF IInv, ReleaseReachesMain, PublishSdist
<1> QED
  BY <1>6, <1>8, <1>9, <1>10, <1>11, <1>13, <1>14, <1>15 DEF IInv, RunInv

LEMMA CreateReleaseIInv ==
  ASSUME IInv, NEW i \in DOMAIN runs, CreateRelease(i)
  PROVE  IInv'
<1>1. runs[i] \in Runs /\ runs[i].v \in Versions
  BY RunTyped DEF IInv
<1>2. runs' = [runs EXCEPT ![i] = [runs[i] EXCEPT !.left = Files, !.status = "released"]]
  BY DEF CreateRelease
<1>3. [runs[i] EXCEPT !.left = Files, !.status = "released"] \in Runs
  BY <1>1 DEF Runs, InProgress
<1>3a. /\ runs' \in Seq(Runs) /\ DOMAIN runs' = DOMAIN runs
       /\ runs'[i] = [runs[i] EXCEPT !.left = Files, !.status = "released"]
       /\ \A j \in DOMAIN runs : j # i => runs'[j] = runs[j]
  BY <1>2, <1>3, RunSet DEF IInv
<1>4. /\ runs' \in Seq(Runs) /\ DOMAIN runs' = DOMAIN runs
      /\ runs'[i].status = "released" /\ runs'[i].v = runs[i].v /\ runs'[i].at = runs[i].at
      /\ runs'[i].left = Files /\ runs[i].left \subseteq Files
      /\ \A j \in DOMAIN runs : j # i => runs'[j] = runs[j]
  BY <1>1, <1>3a DEF Runs
<1>5. TypeOK'
  BY <1>1, <1>4 DEF IInv, TypeOK, CreateRelease
<1>6. CheckedInv' /\ WheelInv' /\ SdistInv' /\ GhrelInv'
  BY <1>4 DEF IInv, RunInv, CheckedInv, WheelInv, SdistInv, GhrelInv, CreateRelease, InProgress
<1>7. OwedKept
  BY <1>4 DEF OwedKept
<1>8. AssetInv'
  BY <1>4, <1>7, AssetsStay DEF IInv, RunInv, CreateRelease
<1>9. MainIsReleased'
  BY <1>7, MainStays DEF IInv, CreateRelease
<1>10. ReleaseReachesMain' /\ OneSource'
  BY <1>4 DEF IInv, ReleaseReachesMain, OneSource, CreateRelease
<1> QED
  BY <1>5, <1>6, <1>8, <1>9, <1>10 DEF IInv, RunInv

\* How deleting or uploading one file changes what is attached.
LEMMA AssetSet ==
  ASSUME TypeOK, NEW v \in Versions, NEW f \in Files, NEW c \in MaybeCommit,
         asset' = [asset EXCEPT ![v][f] = c]
  PROVE  /\ asset' \in [Versions -> [Files -> MaybeCommit]]
         /\ asset'[v][f] = c
         /\ \A w \in Versions, g \in Files : <<w, g>> # <<v, f>> => asset'[w][g] = asset[w][g]
<1>1. asset[v] \in [Files -> MaybeCommit]
  BY DEF TypeOK
<1>2. [asset[v] EXCEPT ![f] = c] \in [Files -> MaybeCommit]
  BY <1>1
<1>3. asset' = [asset EXCEPT ![v] = [asset[v] EXCEPT ![f] = c]]
  OBVIOUS
<1> QED
  BY <1>1, <1>2, <1>3 DEF TypeOK

\* The run that deletes a file owes it.
LEMMA DeleteAssetIInv ==
  ASSUME IInv, NEW i \in DOMAIN runs, NEW f \in Files, DeleteAsset(i, f)
  PROVE  IInv'
<1> DEFINE v == runs[i].v
<1>1. v \in Versions /\ None \in MaybeCommit /\ f \in runs[i].left
  BY RunTyped DEF IInv, DeleteAsset, MaybeCommit
<1>2. /\ asset' \in [Versions -> [Files -> MaybeCommit]]
      /\ asset'[v][f] = None
      /\ \A w \in Versions, g \in Files : <<w, g>> # <<v, f>> => asset'[w][g] = asset[w][g]
  BY <1>1, AssetSet DEF IInv, DeleteAsset
<1>3. TypeOK'
  BY <1>2 DEF IInv, TypeOK, DeleteAsset
<1>4. CheckedInv' /\ WheelInv' /\ SdistInv' /\ GhrelInv' /\ ReleaseReachesMain'
  BY DEF IInv, RunInv, CheckedInv, WheelInv, SdistInv, GhrelInv, ReleaseReachesMain, DeleteAsset
<1>5. Unattached(v, f)
  BY <1>1 DEF Unattached
<1>6. \A w \in Versions, g \in Files : asset'[w][g] = asset[w][g] \/ (w = v /\ g = f)
  BY <1>2
<1>7. runs' = runs
  BY DEF DeleteAsset
<1>8. AssetInv'
  <2> SUFFICES ASSUME NEW j \in DOMAIN runs, runs[j].status \in {"released", "success"},
                      NEW g \in Files, g \notin runs[j].left, asset'[runs[j].v][g] = None
               PROVE  \E k \in DOMAIN runs : runs[k].v = runs[j].v /\ g \in runs[k].left
    BY <1>7 DEF AssetInv, Unattached
  <2>1. runs[j].v \in Versions
    BY RunTyped DEF IInv
  <2> QED
    BY <1>5, <1>6, <2>1 DEF IInv, RunInv, AssetInv, Unattached
<1>9. OneSource'
  BY <1>2, <1>6 DEF IInv, OneSource, DeleteAsset
<1>10. MainIsReleased'
  <2> SUFFICES ASSUME main # Root PROVE MainIsReleased'
    BY DEF MainIsReleased, DeleteAsset
  <2> DEFINE w == Version[main]
  <2>1. w \in Versions
    BY CommitsAssumption DEF IInv, TypeOK
  <2>2. w \notin Rc /\ wheel[w] = main /\ sdist[w] = main /\ w \in ghrel
    BY DEF IInv, MainIsReleased
  <2>3. ASSUME NEW g \in Files
        PROVE  asset'[w][g] = main
               \/ (asset'[w][g] = None /\ \E k \in DOMAIN runs : runs[k].v = w /\ g \in runs[k].left)
    BY <1>2, <1>5, <1>6, <2>1 DEF IInv, MainIsReleased, Unattached
  <2> QED
    BY <1>7, <2>2, <2>3 DEF MainIsReleased, Unattached, DeleteAsset
<1> QED
  BY <1>3, <1>4, <1>8, <1>9, <1>10 DEF IInv, RunInv

\* What is attached anew is the file that was on PyPI already; a file the run still
\* owes is owed by it as before.
LEMMA UploadAssetIInv ==
  ASSUME IInv, NEW i \in DOMAIN runs, NEW f \in Files, UploadAsset(i, f)
  PROVE  IInv'
<1> DEFINE v == runs[i].v
           c == runs[i].at
<1>1. /\ runs[i] \in Runs /\ v \in Versions /\ c \in Commits /\ sdist[v] = c /\ c # None
      /\ c \in MaybeCommit
  <2>1. runs[i].status = "released"
    BY DEF UploadAsset
  <2> QED
    BY <2>1, RunTyped, CommitsAssumption
    DEF IInv, RunInv, CheckedInv, SdistInv, InProgress, MaybeCommit
<1>2. /\ asset' \in [Versions -> [Files -> MaybeCommit]]
      /\ asset'[v][f] = c
      /\ \A w \in Versions, g \in Files : <<w, g>> # <<v, f>> => asset'[w][g] = asset[w][g]
  <2>1. asset' = [asset EXCEPT ![v][f] = c]
    BY DEF UploadAsset
  <2>2. PICK w \in Versions, d \in MaybeCommit : w = v /\ d = c
    BY <1>1
  <2>3. asset' = [asset EXCEPT ![w][f] = d]
    BY <2>1, <2>2
  <2>4. TypeOK
    BY DEF IInv
  <2>5. /\ asset' \in [Versions -> [Files -> MaybeCommit]]
        /\ asset'[w][f] = d
        /\ \A u \in Versions, g \in Files : <<u, g>> # <<w, f>> => asset'[u][g] = asset[u][g]
    BY <2>3, <2>4, AssetSet
  <2> QED
    BY <2>2, <2>5
<1>3. \A w \in Versions, g \in Files : asset'[w][g] = asset[w][g] \/ (w = v /\ g = f)
  BY <1>2
<1>4. runs' = [runs EXCEPT ![i] = [runs[i] EXCEPT !.left = runs[i].left \ {f}]]
  BY DEF UploadAsset
<1>5. [runs[i] EXCEPT !.left = runs[i].left \ {f}] \in Runs
  BY <1>1 DEF Runs
<1>5a. /\ runs' \in Seq(Runs) /\ DOMAIN runs' = DOMAIN runs
       /\ runs'[i] = [runs[i] EXCEPT !.left = runs[i].left \ {f}]
       /\ \A j \in DOMAIN runs : j # i => runs'[j] = runs[j]
  BY <1>4, <1>5, RunSet DEF IInv
<1>5b. runs[i].status = "released"
  BY DEF UploadAsset
<1>6. /\ runs' \in Seq(Runs) /\ DOMAIN runs' = DOMAIN runs
      /\ runs'[i].status = runs[i].status /\ runs'[i].v = v /\ runs'[i].at = c
      /\ runs'[i].left = runs[i].left \ {f} /\ runs[i].status = "released"
      /\ \A j \in DOMAIN runs : j # i => runs'[j] = runs[j]
  BY <1>1, <1>5a, <1>5b DEF Runs
<1>7. TypeOK'
  BY <1>2, <1>6 DEF IInv, TypeOK, UploadAsset
<1>8. CheckedInv' /\ WheelInv' /\ SdistInv' /\ GhrelInv' /\ ReleaseReachesMain'
  BY <1>6 DEF IInv, RunInv, CheckedInv, WheelInv, SdistInv, GhrelInv, ReleaseReachesMain,
     UploadAsset
<1>9. \A w \in Versions, g \in Files :
        asset'[w][g] = None => asset[w][g] = None /\ ~(w = v /\ g = f)
  BY <1>1, <1>2, <1>3
<1>10. ASSUME NEW w \in Versions, NEW g \in Files, ~(w = v /\ g = f), NEW k \in DOMAIN runs,
              runs[k].v = w, g \in runs[k].left
       PROVE  k \in DOMAIN runs' /\ runs'[k].v = w /\ g \in runs'[k].left
  BY <1>6, <1>10
<1>11. AssetInv'
  <2> SUFFICES ASSUME NEW j \in DOMAIN runs, runs'[j].status \in {"released", "success"},
                      NEW g \in Files, g \notin runs'[j].left, asset'[runs'[j].v][g] = None
               PROVE  \E k \in DOMAIN runs' : runs'[k].v = runs'[j].v /\ g \in runs'[k].left
    BY <1>6 DEF AssetInv, Unattached
  <2>1. /\ runs[j].v \in Versions /\ runs'[j].v = runs[j].v
        /\ runs[j].status \in {"released", "success"}
    BY <1>6, RunTyped DEF IInv
  <2>2. asset[runs[j].v][g] = None /\ ~(runs[j].v = v /\ g = f)
    BY <1>9, <2>1
  <2>3. g \notin runs[j].left
    BY <1>6, <2>2
  <2>4. PICK k \in DOMAIN runs : runs[k].v = runs[j].v /\ g \in runs[k].left
    BY <2>1, <2>2, <2>3 DEF IInv, RunInv, AssetInv, Unattached
  <2> QED
    BY <1>10, <2>1, <2>2, <2>4
<1>12. OneSource'
  <2>1. \A w \in Versions, g \in Files : asset'[w][g] \in {None, sdist[w]}
    BY <1>1, <1>2, <1>3 DEF IInv, OneSource
  <2> QED
    BY <2>1 DEF IInv, OneSource, UploadAsset
<1>13. MainIsReleased'
  <2> SUFFICES ASSUME main # Root PROVE MainIsReleased'
    BY DEF MainIsReleased, UploadAsset
  <2> DEFINE w == Version[main]
  <2>1. w \in Versions
    BY CommitsAssumption DEF IInv, TypeOK
  <2>2. w \notin Rc /\ wheel[w] = main /\ sdist[w] = main /\ w \in ghrel
    BY DEF IInv, MainIsReleased
  <2>3. ASSUME NEW g \in Files
        PROVE  asset'[w][g] = main
               \/ (asset'[w][g] = None
                   /\ \E k \in DOMAIN runs' : runs'[k].v = w /\ g \in runs'[k].left)
    <3>1. CASE w = v /\ g = f
      BY <1>1, <1>2, <2>2, <3>1
    <3>2. CASE ~(w = v /\ g = f)
      <4>1. asset'[w][g] = asset[w][g]
        BY <1>3, <2>1, <3>2
      <4>2. CASE asset[w][g] = main
        BY <4>1, <4>2
      <4>3. CASE asset[w][g] # main
        <5>1. asset[w][g] = None
              /\ \E k \in DOMAIN runs : runs[k].v = w /\ g \in runs[k].left
          BY <4>3 DEF IInv, MainIsReleased, Unattached
        <5>2. PICK k \in DOMAIN runs : runs[k].v = w /\ g \in runs[k].left
          BY <5>1
        <5> QED
          BY <1>10, <2>1, <3>2, <4>1, <5>1, <5>2
      <4> QED
        BY <4>2, <4>3
    <3> QED
      BY <3>1, <3>2
  <2>4. UNCHANGED <<main, wheel, sdist, ghrel>>
    BY DEF UploadAsset
  <2> QED
    BY <2>2, <2>3, <2>4 DEF MainIsReleased, Unattached
<1> QED
  BY <1>7, <1>8, <1>11, <1>12, <1>13 DEF IInv, RunInv

\* A run that ends green leaves the files alone: what it published is all there.
LEMMA SucceedRunInv ==
  ASSUME IInv, NEW i \in DOMAIN runs, Attached(i), SetStatus(i, "success"),
         UNCHANGED <<wheel, sdist, ghrel, asset>>
  PROVE  /\ runs' \in Seq(Runs) /\ DOMAIN runs' = DOMAIN runs
         /\ runs'[i].status = "success" /\ runs'[i].v = runs[i].v /\ runs'[i].at = runs[i].at
         /\ \A j \in DOMAIN runs : j # i => runs'[j] = runs[j]
         /\ RunInv' /\ OwedKept
<1>1. /\ runs' \in Seq(Runs) /\ DOMAIN runs' = DOMAIN runs
      /\ runs'[i].status = "success" /\ runs'[i].v = runs[i].v /\ runs'[i].at = runs[i].at
      /\ runs'[i].left = runs[i].left
      /\ \A j \in DOMAIN runs : j # i => runs'[j] = runs[j]
  BY StatusSet DEF IInv, Ended
<1>2. CheckedInv' /\ WheelInv' /\ SdistInv' /\ GhrelInv'
  BY <1>1 DEF IInv, RunInv, CheckedInv, WheelInv, SdistInv, GhrelInv, InProgress, Attached
<1>3. OwedKept
  BY <1>1 DEF OwedKept
<1>4. AssetInv'
  BY <1>1, <1>3, AssetsStay DEF IInv, RunInv, Attached
<1> QED
  BY <1>1, <1>2, <1>3, <1>4 DEF RunInv

\* main moves to a descendant, so every commit it had reached stays behind it.
LEMMA SyncMainIInv ==
  ASSUME IInv, NEW i \in DOMAIN runs, SyncMain(i)
  PROVE  IInv'
<1> DEFINE v == runs[i].v
           c == runs[i].at
<1>1. /\ runs' \in Seq(Runs) /\ DOMAIN runs' = DOMAIN runs
      /\ runs'[i].status = "success" /\ runs'[i].v = v /\ runs'[i].at = c
      /\ \A j \in DOMAIN runs : j # i => runs'[j] = runs[j]
      /\ RunInv' /\ OwedKept
  BY SucceedRunInv DEF SyncMain
<1>2. /\ v \in Versions /\ c \in Commits /\ Version[c] = v /\ v \notin Rc
      /\ wheel[v] = c /\ sdist[v] = c /\ v \in ghrel
  BY RunTyped DEF IInv, RunInv, CheckedInv, WheelInv, SdistInv, GhrelInv, SyncMain, Attached,
     Synced, InProgress
<1>3. main' = c /\ main \in Anc[c] /\ Anc[main] \subseteq Anc[c] /\ c \in Anc[c]
  BY <1>2, AncAssumption DEF SyncMain, FastForward
<1>4. TypeOK'
  BY <1>1, <1>2 DEF IInv, TypeOK, SyncMain
<1>5. ASSUME NEW f \in Files
      PROVE  asset[v][f] = c
             \/ (asset[v][f] = None /\ \E k \in DOMAIN runs' : runs'[k].v = v /\ f \in runs'[k].left)
  <2>1. runs[i].status = "released" /\ f \notin runs[i].left
    BY DEF SyncMain, Attached
  <2>2. asset[v][f] \in {None, c}
    BY <1>2 DEF IInv, OneSource
  <2>3. asset[v][f] = None => \E k \in DOMAIN runs : runs[k].v = v /\ f \in runs[k].left
    BY <2>1 DEF IInv, RunInv, AssetInv, Unattached
  <2> QED
    BY <1>1, <2>2, <2>3 DEF OwedKept
<1>6. UNCHANGED <<wheel, sdist, ghrel, asset>>
  BY DEF SyncMain
<1>7. MainIsReleased'
  BY <1>2, <1>3, <1>5, <1>6 DEF MainIsReleased, Unattached
<1>8. OneSource'
  BY <1>6 DEF IInv, OneSource
<1>9. ReleaseReachesMain'
  BY <1>1, <1>3 DEF IInv, ReleaseReachesMain
<1> QED
  BY <1>1, <1>4, <1>7, <1>8, <1>9 DEF IInv

LEMMA SkipSyncIInv ==
  ASSUME IInv, NEW i \in DOMAIN runs, SkipSync(i)
  PROVE  IInv'
<1>1. /\ runs' \in Seq(Runs) /\ DOMAIN runs' = DOMAIN runs
      /\ runs'[i].v = runs[i].v /\ runs[i].v \in Rc
      /\ \A j \in DOMAIN runs : j # i => runs'[j] = runs[j]
      /\ RunInv' /\ OwedKept
  BY SucceedRunInv DEF SkipSync, Synced
<1>2. TypeOK' /\ OneSource'
  BY <1>1 DEF IInv, TypeOK, OneSource, SkipSync
<1>3. MainIsReleased'
  BY <1>1, MainStays DEF IInv, SkipSync
<1>4. ReleaseReachesMain'
  BY <1>1 DEF IInv, ReleaseReachesMain, SkipSync
<1> QED
  BY <1>1, <1>2, <1>3, <1>4 DEF IInv

LEMMA NextIInv == IInv /\ [Next]_vars => IInv'
<1> SUFFICES ASSUME IInv, [Next]_vars PROVE IInv'
  OBVIOUS
<1>1. ASSUME NEW v \in Versions, NEW c \in Commits, PushTag(v, c) PROVE IInv'
  <2>1. tag' \in [Versions -> MaybeCommit]
    BY <1>1 DEF IInv, TypeOK, PushTag, MaybeCommit
  <2> QED
    BY <1>1, <2>1, QueueIInv DEF PushTag
<1>2. ASSUME NEW v \in Versions, Dispatch(v) PROVE IInv'
  BY <1>2, QueueIInv DEF IInv, TypeOK, Dispatch
<1>3. ASSUME NEW i \in DOMAIN runs, Rerun(i) PROVE IInv'
  <2>1. runs[i].by \in {"push", "dispatch"} /\ runs[i].v \in Versions
    BY RunTyped DEF IInv
  <2> QED
    BY <1>3, <2>1, QueueIInv DEF IInv, TypeOK, Rerun
<1>4. ASSUME NEW i \in DOMAIN runs, RunStep(i) PROVE IInv'
  <2>1. CASE BeginRefused(i) \/ StepFails(i)
    BY <2>1, FailIInv DEF BeginRefused, StepFails
  <2> QED
    BY <1>4, <2>1, BeginIInv, PublishWheelIInv, PublishSdistIInv, CreateReleaseIInv,
       DeleteAssetIInv, UploadAssetIInv, SyncMainIInv, SkipSyncIInv DEF RunStep
<1>5. CASE UNCHANGED vars
  BY <1>5 DEF vars, IInv, TypeOK, RunInv, CheckedInv, WheelInv, SdistInv, GhrelInv, AssetInv,
     Unattached, OneSource, MainIsReleased, ReleaseReachesMain
<1> QED
  BY <1>1, <1>2, <1>3, <1>4, <1>5 DEF Next

LEMMA InvariantHolds == Spec => []IInv
  BY InitIInv, NextIInv, PTL DEF Spec

-----------------------------------------------------------------------------
(* Theorems *)

\* The files of a version come from one commit of that version, on PyPI and on
\* GitHub, however tags move and runs overlap.
THEOREM FilesHaveOneSource == Spec => []OneSource
<1>1. IInv => OneSource
  BY DEF IInv
<1> QED
  BY <1>1, InvariantHolds, PTL

\* main is always a release that is not a candidate, with both files on PyPI; a file
\* missing on GitHub is owed by a run for the same version.
THEOREM MainAlwaysReleased == Spec => []MainIsReleased
<1>1. IInv => MainIsReleased
  BY DEF IInv
<1> QED
  BY <1>1, InvariantHolds, PTL

\* No release that ended green falls out of main's history.
THEOREM ReleasesStayInMain == Spec => []ReleaseReachesMain
<1>1. IInv => ReleaseReachesMain
  BY DEF IInv
<1> QED
  BY <1>1, InvariantHolds, PTL
====================================================================================
