------------------------------ MODULE TestSelectionProofs ------------------------------
(***************************************************************************)
(* Proofs about TestSelection for any modules, adjacency map, files and    *)
(* threshold: what a green CI Summary says about the tests that ran, and   *)
(* that a growing change loses none.                                       *)
(***************************************************************************)
EXTENDS TestSelection, FiniteSetTheorems, TLAPS

RunKeys == {"event", "changed", "validate", "detect", "tests", "gate", "summary", "sel", "groups"}

\* A group that is over drew from the selection, or from everything.
GroupsInv ==
  \A i \in DOMAIN run.groups :
    /\ run.groups[i].result \in {"waiting"} \cup Outcomes
    /\ run.groups[i].result # "waiting" =>
         run.groups[i].ran = InheritedPaths \/ (~run.sel.full /\ run.groups[i].ran = run.sel.paths)

\* The selection is the one computed from the run's own files, for one value of the flag.
SelectionInv ==
  run.detect = "success" =>
    /\ \E smart \in BOOLEAN : run.sel = ComputeSelection(run.changed, run.event, smart)
    /\ DOMAIN run.groups = 1..run.sel.splits

\* Green means green all the way down.
GatesInv ==
  /\ run.gate \in {"waiting", "success", "failure"}
  /\ run.summary = "success" => run.gate = "success"
  /\ run.gate = "success" => run.tests = "success"
  /\ run.tests = "success" =>
       run.detect = "success" /\ \A i \in DOMAIN run.groups : run.groups[i].result = "success"

RunInv == DOMAIN run = RunKeys /\ GroupsInv /\ SelectionInv /\ GatesInv

IInv ==
  /\ flag \in BOOLEAN
  /\ IsFiniteSet(ChangedModules(diff))
  /\ Started => RunInv

-----------------------------------------------------------------------------
(* The selection *)

\* The adjacency map's promise is kept by every selection that is computed.
LEMMA SelectionCovers ==
  ASSUME NEW changed, NEW event, NEW smart \in BOOLEAN
  PROVE  Declared(changed) \subseteq ComputeSelection(changed, event, smart).paths
<1> DEFINE sel == ComputeSelection(changed, event, smart)
<1>1. sel.paths = CollectedTestRoots \/ sel.paths = Resolve(changed)
  BY DEF ComputeSelection
<1>2. Declared(changed) \subseteq CollectedTestRoots
  BY DEF Declared, CollectedTestRoots
<1>3. Declared(changed) \subseteq Resolve(changed)
  <2> SUFFICES ASSUME NEW m \in TestDirs, NEW f \in changed,
                      \/ f.in = "src" /\ f.of \in Adjacent /\ (m = f.of \/ m \in ReverseDeps[f.of])
                      \/ f.in = "tests" /\ m = f.of
               PROVE  m \in Resolve(changed)
    BY DEF Declared
  <2>1. CASE f.in = "src" /\ f.of \in Adjacent /\ (m = f.of \/ m \in ReverseDeps[f.of])
    <3>1. f.of \in ChangedModules(changed)
      BY <2>1 DEF ChangedModules
    <3> QED  BY <2>1, <3>1 DEF Resolve
  <2>2. CASE f.in = "tests" /\ m = f.of
    BY <2>2 DEF Resolve
  <2> QED  BY <2>1, <2>2
<1> QED  BY <1>1, <1>2, <1>3

LEMMA SelectionSplits ==
  ASSUME NEW changed, NEW event, NEW smart \in BOOLEAN
  PROVE  1 \in 1..ComputeSelection(changed, event, smart).splits
<1> DEFINE splits == ComputeSelection(changed, event, smart).splits
<1>1. SplitCount(Resolve(changed)) \in {1, 2, 3}
  BY DEF SplitCount
<1>2. splits \in {FullSplits, 1} \cup {1, 2, 3}
  BY <1>1 DEF ComputeSelection
<1> QED  BY <1>2, FilesAssumption

\* A whole run, and one for a file that escalates, computes the full suite.
LEMMA EscalationSelectsAll ==
  ASSUME NEW changed, NEW event, NEW smart \in BOOLEAN,
         event = "whole" \/ EscalatingFile(changed)
  PROVE  ComputeSelection(changed, event, smart).full
<1>1. event = "whole" \/ Escalates(changed)
  <2>1. CASE \E f \in changed : f.in = "src" /\ f.of \in Shared
    <3>1. PICK f \in changed : f.in = "src" /\ f.of \in Shared
      BY <2>1
    <3>2. f.of \in ChangedModules(changed) \cap Shared
      BY <3>1, MapAssumption DEF ValidMap, ChangedModules
    <3> QED  BY <3>2 DEF Escalates
  <2> QED  BY <2>1 DEF EscalatingFile, Escalates
<1> QED  BY <1>1 DEF ComputeSelection

-----------------------------------------------------------------------------
(* The invariant *)

LEMMA InitIInv == Init => IInv
<1> SUFFICES ASSUME Init  PROVE IInv
  OBVIOUS
<1>1. ChangedModules(diff) = {}
  BY DEF Init, ChangedModules
<1> QED  BY <1>1, FS_EmptySet DEF Init, IInv, Started

\* A new head has no run, and one more file is at most one more module.
LEMMA CommitIInv ==
  ASSUME IInv, NEW f \in Files, Commit(f)
  PROVE  IInv'
<1>1. diff' = diff \cup {f} /\ ~Started' /\ flag' = flag
  BY DEF Commit, Started
<1>2. IsFiniteSet(ChangedModules(diff) \cup {f.of})
  BY FS_AddElement DEF IInv
<1>3. ChangedModules(diff)' \subseteq ChangedModules(diff) \cup {f.of}
  BY <1>1 DEF ChangedModules
<1>4. IsFiniteSet(ChangedModules(diff)')
  BY <1>2, <1>3, FS_Subset
<1> QED  BY <1>1, <1>4 DEF IInv

LEMMA StartRunInv ==
  ASSUME NEW event, Start(event)
  PROVE  RunInv'
<1>1. /\ DOMAIN run' = RunKeys /\ run'.detect = "waiting" /\ run'.tests = "waiting"
      /\ run'.gate = "waiting" /\ run'.summary = "waiting" /\ run'.groups = << >>
  BY DEF Start, RunKeys
<1>2. DOMAIN run'.groups = {}
  BY <1>1
<1> QED  BY <1>1, <1>2 DEF RunInv, GroupsInv, SelectionInv, GatesInv

\* The first jobs: while the detection is open nothing after it can be green.
LEMMA DetectRunInv ==
  ASSUME RunInv, flag \in BOOLEAN, Detect
  PROVE  RunInv'
<1> USE DEF RunInv
<1> DEFINE sel == ComputeSelection(run.changed, run.event, flag)
           groups == [i \in 1..sel.splits |-> [result |-> "waiting", ran |-> {}]]
<1>1. run.detect = "waiting" /\ run' = [run EXCEPT !.detect = "success", !.sel = sel, !.groups = groups]
  BY DEF Detect
<1>2. /\ DOMAIN run' = RunKeys /\ run'.detect = "success" /\ run'.sel = sel /\ run'.groups = groups
      /\ run'.changed = run.changed /\ run'.event = run.event
      /\ run'.tests = run.tests /\ run'.gate = run.gate /\ run'.summary = run.summary
  BY <1>1 DEF RunKeys
<1> HIDE DEF sel
<1>3. GroupsInv'
  BY <1>2 DEF GroupsInv
<1>4. SelectionInv'
  BY <1>2 DEF SelectionInv, sel
<1>5. GatesInv'
  BY <1>1, <1>2 DEF GatesInv
<1> QED  BY <1>2, <1>3, <1>4, <1>5

LEMMA OtherJobRunInv ==
  ASSUME RunInv,
         \/ \E outcome \in Outcomes : Validate(outcome)
         \/ NoDetect \/ ConcludeTests \/ TestsGate
         \/ \E ratchet \in Outcomes, contract \in Outcomes \cup {"skipped"} :
              CISummary(ratchet, contract)
  PROVE  RunInv'
<1> USE DEF RunInv
<1>1. /\ DOMAIN run' = RunKeys /\ run'.groups = run.groups /\ run'.sel = run.sel
      /\ run'.changed = run.changed /\ run'.event = run.event
  BY DEF Validate, NoDetect, ConcludeTests, TestsGate, CISummary, RunKeys
<1>2. GroupsInv'
  BY <1>1 DEF GroupsInv
<1>3. CASE \E outcome \in Outcomes : Validate(outcome)
  <2>1. run'.detect = run.detect /\ run'.tests = run.tests /\ run'.gate = run.gate /\ run'.summary = run.summary
    BY <1>3 DEF Validate, RunKeys
  <2> QED  BY <1>1, <1>2, <2>1 DEF SelectionInv, GatesInv
<1>4. CASE NoDetect
  <2>1. /\ run.detect = "waiting" /\ run'.detect \in {"failure", "cancelled", "skipped"}
        /\ run'.tests = run.tests /\ run'.gate = run.gate /\ run'.summary = run.summary
    BY <1>4 DEF NoDetect, RunKeys
  <2> QED  BY <1>1, <1>2, <2>1 DEF SelectionInv, GatesInv
<1>5. CASE ConcludeTests
  <2>1. /\ run.tests = "waiting"
        /\ run'.detect = run.detect /\ run'.gate = run.gate /\ run'.summary = run.summary
    BY <1>5 DEF ConcludeTests, RunKeys
  <2>2. run'.tests = "success" =>
          run.detect = "success" /\ \A i \in DOMAIN run.groups : run.groups[i].result = "success"
    <3> SUFFICES ASSUME run'.tests = "success"
                 PROVE  run.detect = "success" /\ \A i \in DOMAIN run.groups : run.groups[i].result = "success"
      OBVIOUS
    <3> DEFINE results == {run.groups[i].result : i \in DOMAIN run.groups}
    <3>1. /\ "waiting" \notin results
          /\ run'.tests = IF run.detect # "success" THEN "skipped"
                          ELSE IF "failure" \in results THEN "failure"
                          ELSE IF "cancelled" \in results THEN "cancelled" ELSE "success"
      BY <1>5 DEF ConcludeTests, RunKeys
    <3>2. run.detect = "success" /\ "failure" \notin results /\ "cancelled" \notin results
      BY <3>1
    <3> QED  BY <3>1, <3>2 DEF GroupsInv, Outcomes
  <2> QED  BY <1>1, <1>2, <2>1, <2>2 DEF SelectionInv, GatesInv
<1>6. CASE TestsGate
  <2>1. /\ run.gate = "waiting" /\ run'.gate = IF Pass(run.tests) THEN "success" ELSE "failure"
        /\ run'.detect = run.detect /\ run'.tests = run.tests /\ run'.summary = run.summary
    BY <1>6 DEF TestsGate, RunKeys
  <2> QED  BY <1>1, <1>2, <2>1 DEF SelectionInv, GatesInv, Pass
<1>7. CASE \E ratchet \in Outcomes, contract \in Outcomes \cup {"skipped"} :
             CISummary(ratchet, contract)
  <2>1. PICK ratchet \in Outcomes, contract \in Outcomes \cup {"skipped"} :
          CISummary(ratchet, contract)
    BY <1>7
  <2>2. run'.detect = run.detect /\ run'.tests = run.tests /\ run'.gate = run.gate
    BY <2>1 DEF CISummary, RunKeys
  <2>3. run.gate # "waiting" /\ (run'.summary = "success" => run.gate # "failure")
    <3> DEFINE bad == {"failure", "cancelled"} \cap {run.validate, run.gate, ratchet, contract}
    <3>1. /\ run.gate # "waiting"
          /\ run'.summary = IF ratchet = "success" /\ bad = {} THEN "success" ELSE "failure"
      BY <2>1 DEF CISummary, RunKeys
    <3>2. bad = {} => run.gate # "failure"
      OBVIOUS
    <3> QED  BY <3>1, <3>2
  <2> QED  BY <1>1, <1>2, <2>2, <2>3 DEF SelectionInv, GatesInv
<1> QED  BY <1>3, <1>4, <1>5, <1>6, <1>7

\* A group ends with what the flag of its own moment lets it collect.
LEMMA TestGroupRunInv ==
  ASSUME RunInv, NEW i \in DOMAIN run.groups, NEW outcome \in Outcomes, TestGroup(i, outcome)
  PROVE  RunInv'
<1> USE DEF RunInv
<1> DEFINE new == [result |-> outcome, ran |-> Collects]
<1>1. run.groups[i].result = "waiting" /\ run' = [run EXCEPT !.groups[i] = new]
  BY DEF TestGroup
<1>2. /\ DOMAIN run' = RunKeys /\ run'.groups = [run.groups EXCEPT ![i] = new] /\ run'.sel = run.sel
      /\ run'.changed = run.changed /\ run'.event = run.event /\ run'.detect = run.detect
      /\ run'.tests = run.tests /\ run'.gate = run.gate /\ run'.summary = run.summary
  BY <1>1 DEF RunKeys
<1>3. Collects = InheritedPaths \/ (~run.sel.full /\ Collects = run.sel.paths)
  BY DEF Collects
<1> HIDE DEF new
<1>4. DOMAIN run'.groups = DOMAIN run.groups
      /\ \A k \in DOMAIN run.groups : run'.groups[k] = IF k = i THEN new ELSE run.groups[k]
  BY <1>2
<1>5. GroupsInv'
  BY <1>2, <1>3, <1>4 DEF GroupsInv, new
<1>6. SelectionInv'
  BY <1>2, <1>4 DEF SelectionInv
<1>7. GatesInv'
  BY <1>1, <1>2, <1>4 DEF GatesInv
<1> QED  BY <1>2, <1>5, <1>6, <1>7

\* Every reachable state satisfies the invariant.
THEOREM GreenAllTheWayDown == Spec => []IInv
<1>1. IInv /\ [Next]_vars => IInv'
  <2> SUFFICES ASSUME IInv, [Next]_vars  PROVE IInv'
    OBVIOUS
  <2>1. CASE UNCHANGED vars \/ SetFlag
    BY <2>1 DEF vars, SetFlag, IInv, Started, RunInv, GroupsInv, SelectionInv, GatesInv
  <2>2. CASE \E f \in Files : Commit(f)
    BY <2>2, CommitIInv
  <2>3. CASE \E event \in Events : Start(event)
    <3>1. RunInv' /\ UNCHANGED <<diff, flag>>
      BY <2>3, StartRunInv DEF Start
    <3> QED  BY <3>1 DEF IInv
  <2>4. CASE Detect
    <3>1. RunInv' /\ UNCHANGED <<diff, flag>>
      BY <2>4, DetectRunInv DEF Detect, IInv
    <3> QED  BY <3>1 DEF IInv
  <2>5. CASE \/ \E outcome \in Outcomes : Validate(outcome)
             \/ NoDetect \/ ConcludeTests \/ TestsGate
             \/ \E ratchet \in Outcomes, contract \in Outcomes \cup {"skipped"} :
                  CISummary(ratchet, contract)
    <3>1. Started /\ UNCHANGED <<diff, flag>>
      BY <2>5 DEF Validate, NoDetect, ConcludeTests, TestsGate, CISummary
    <3>2. RunInv'
      BY <2>5, <3>1, OtherJobRunInv DEF IInv
    <3> QED  BY <3>1, <3>2 DEF IInv
  <2>6. CASE \E outcome \in Outcomes :
               Started /\ \E i \in DOMAIN run.groups : TestGroup(i, outcome)
    <3>1. RunInv' /\ UNCHANGED <<diff, flag>>
      BY <2>6, TestGroupRunInv DEF TestGroup, IInv
    <3> QED  BY <3>1 DEF IInv
  <2> QED  BY <2>1, <2>2, <2>3, <2>4, <2>5, <2>6 DEF Next
<1> QED  BY InitIInv, <1>1, PTL DEF Spec

-----------------------------------------------------------------------------
(* What green means *)

\* Behind a green summary every group succeeded, on a selection of at least one group.
LEMMA GreenRun ==
  ASSUME IInv, Green
  PROVE  /\ \E smart \in BOOLEAN : run.sel = ComputeSelection(run.changed, run.event, smart)
         /\ 1 \in DOMAIN run.groups
         /\ \A i \in DOMAIN run.groups :
              \/ run.groups[i].ran = InheritedPaths
              \/ ~run.sel.full /\ run.groups[i].ran = run.sel.paths
<1>1. RunInv /\ run.summary = "success"
  BY DEF IInv, Green
<1>2. run.detect = "success" /\ \A i \in DOMAIN run.groups : run.groups[i].result = "success"
  BY <1>1 DEF RunInv, GatesInv
<1>3. PICK smart \in BOOLEAN : run.sel = ComputeSelection(run.changed, run.event, smart)
  BY <1>1, <1>2 DEF RunInv, SelectionInv
<1>4. 1 \in DOMAIN run.groups
  <2>1. DOMAIN run.groups = 1..run.sel.splits
    BY <1>1, <1>2 DEF RunInv, SelectionInv
  <2> QED  BY <1>3, <2>1, SelectionSplits
<1> QED  BY <1>1, <1>2, <1>3, <1>4 DEF RunInv, GroupsInv

\* The tests that the adjacency map declares for the changed files ran in every green run.
THEOREM GreenCovers == Spec => []GreenCoversDeclared
<1>1. IInv => GreenCoversDeclared
  <2> SUFFICES ASSUME IInv, Green  PROVE run.groups # << >> /\ Declared(run.changed) \subseteq Ran
    BY DEF GreenCoversDeclared
  <2>1. PICK smart \in BOOLEAN : run.sel = ComputeSelection(run.changed, run.event, smart)
    BY GreenRun
  <2>2. 1 \in DOMAIN run.groups
    BY GreenRun
  <2>3. run.groups[1].ran = InheritedPaths \/ run.groups[1].ran = run.sel.paths
    BY <2>2, GreenRun
  <2>4. Declared(run.changed) \subseteq run.groups[1].ran
    <3>1. Declared(run.changed) \subseteq run.sel.paths
      BY <2>1, SelectionCovers
    <3>2. Declared(run.changed) \subseteq InheritedPaths
      BY DEF Declared, InheritedPaths, CollectedTestRoots
    <3> QED  BY <2>3, <3>1, <3>2
  <2>5. run.groups[1].ran \subseteq Ran
    BY <2>2 DEF Ran
  <2>6. DOMAIN << >> = {}
    OBVIOUS
  <2> QED  BY <2>2, <2>4, <2>5, <2>6
<1> QED  BY <1>1, GreenAllTheWayDown, PTL

\* An escalation that is green ran both test roots, whatever the flag was meanwhile.
THEOREM GreenEscalations == Spec => []GreenEscalationRanAll
<1>1. IInv => GreenEscalationRanAll
  <2> SUFFICES ASSUME IInv, Green, run.event = "whole" \/ EscalatingFile(run.changed),
                      NEW i \in DOMAIN run.groups
               PROVE  run.groups[i].ran = TestDirs \cup {Top}
    BY DEF GreenEscalationRanAll
  <2>1. PICK smart \in BOOLEAN : run.sel = ComputeSelection(run.changed, run.event, smart)
    BY GreenRun
  <2>2. run.sel.full
    BY <2>1, EscalationSelectsAll
  <2>3. run.groups[i].ran = InheritedPaths
    BY <2>2, GreenRun
  <2> QED  BY <2>3 DEF InheritedPaths, CollectedTestRoots
<1> QED  BY <1>1, GreenAllTheWayDown, PTL

-----------------------------------------------------------------------------
(* A growing change *)

LEMMA SelectionGrows ==
  ASSUME NEW small, NEW large, small \subseteq large, IsFiniteSet(ChangedModules(large))
  PROVE  /\ Resolve(small) \subseteq Resolve(large)
         /\ Escalates(small) => Escalates(large)
<1>1. ChangedModules(small) \subseteq ChangedModules(large)
  BY DEF ChangedModules
<1>2. Resolve(small) \subseteq Resolve(large)
  BY <1>1 DEF Resolve
<1>3. /\ Cardinality(ChangedModules(small)) <= Cardinality(ChangedModules(large))
      /\ Cardinality(ChangedModules(small)) \in Nat /\ Cardinality(ChangedModules(large)) \in Nat
  BY <1>1, FS_Subset, FS_CardinalityType
<1>4. Cardinality(ChangedModules(small)) >= Threshold => Cardinality(ChangedModules(large)) >= Threshold
  BY <1>3, MapAssumption DEF ValidMap
<1>5. Escalates(small) => Escalates(large)
  BY <1>1, <1>4 DEF Escalates
<1> QED  BY <1>2, <1>5

\* Across every escalation, a file more is no test less.
THEOREM GrowingDiff == Spec => GrowingDiffKeepsTests
<1>1. ASSUME IInv, IInv', ~Fallback, diff \subseteq diff'
      PROVE  SelectedNow.paths \cap CollectedTestRoots \subseteq SelectedNow'.paths
  <2>1. /\ Resolve(diff) \subseteq Resolve(diff')
        /\ Escalates(diff) => Escalates(diff')
    <3>1. IsFiniteSet(ChangedModules(diff'))
      BY <1>1 DEF IInv, ChangedModules
    <3> QED  BY <1>1, <3>1, SelectionGrows
  <2>2. SelectedNow' = ComputeSelection(diff', "pull_request", TRUE)
    BY DEF SelectedNow, ComputeSelection, CollectedTestRoots, Escalates, ChangedModules, Resolve
  <2>3. CASE SelectedNow'.paths = CollectedTestRoots
    BY <2>3
  <2>4. CASE SelectedNow'.paths # CollectedTestRoots
    <3>1. ~Escalates(diff') /\ SelectedNow'.paths = Resolve(diff')
      BY <2>2, <2>4 DEF ComputeSelection
    <3>2. ~Escalates(diff)
      BY <2>1, <3>1
    <3>3. Resolve(diff) # {}
      BY <1>1, <3>2 DEF Fallback, SelectedNow, ComputeSelection
    <3>4. SelectedNow.paths = Resolve(diff)
      BY <3>2, <3>3 DEF SelectedNow, ComputeSelection
    <3> QED  BY <2>1, <3>1, <3>4
  <2> QED  BY <2>3, <2>4
<1>2. IInv /\ IInv' => [~Fallback /\ diff \subseteq diff'
        => SelectedNow.paths \cap CollectedTestRoots \subseteq SelectedNow'.paths]_vars
  BY <1>1
<1> QED  BY <1>2, GreenAllTheWayDown, PTL DEF GrowingDiffKeepsTests
====================================================================================
