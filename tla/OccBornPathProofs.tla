------------------------------ MODULE OccBornPathProofs ------------------------------
(***************************************************************************)
(* Proofs about OccBornPath for any number of changes and replays: what    *)
(* the concurrency group, the fetch of a replay and the triggers of the    *)
(* publisher give together.                                                *)
(***************************************************************************)
EXTENDS OccBornPath, TLAPS

PullRequest ==
  [state : {"open", "closed", "merged"}, draft : BOOLEAN, ticket : BOOLEAN, head : Nat]

Run ==
  [by : Events \cup {"dispatch"},
   status : {"queued", "fetched", "published", "success", "failed", "skipped", "cancelled"},
   q : PullRequest,
   verify : {"none", "waiting", "unresolved", "green", "red", "error", "ended"},
   retried : BOOLEAN]

TypeInv == pr \in PullRequest /\ runs \in Seq(Run) /\ log \in Seq(Nat)

\* Nothing is known of a head that the pull request has not reached, and a run in progress
\* knows a head at least as new as every published command.
HeadInv ==
  /\ \A i \in DOMAIN runs : runs[i].q.head <= pr.head
  /\ \A k \in DOMAIN log : log[k] <= pr.head
  /\ \A k \in DOMAIN log : \A i \in DOMAIN runs :
       runs[i].status \in Live => log[k] <= runs[i].q.head

IInv == TypeInv /\ RunsWellFormed /\ HeadInv /\ HeadsInOrder /\ ReadyHeadHasRun

-----------------------------------------------------------------------------
(* The kinds of steps *)

LEMMA CancelKeeps ==
  ASSUME NEW rs \in Seq(Run)
  PROVE  /\ Cancel(rs) \in Seq(Run) /\ Len(Cancel(rs)) = Len(rs)
         /\ \A i \in 1..Len(rs) :
              /\ Cancel(rs)[i].q = rs[i].q /\ Cancel(rs)[i].status \notin Live
              /\ Cancel(rs)[i].verify = rs[i].verify /\ Cancel(rs)[i].by = rs[i].by
              /\ rs[i].status \notin Live => Cancel(rs)[i].status = rs[i].status
<1> DEFINE c == Cancel(rs)
<1>1. DOMAIN c = 1..Len(rs) /\ Len(rs) \in Nat
  BY DEF Cancel
<1>2. ASSUME NEW i \in 1..Len(rs)
      PROVE  /\ c[i] \in Run /\ c[i].q = rs[i].q /\ c[i].status \notin Live
             /\ c[i].verify = rs[i].verify /\ c[i].by = rs[i].by
             /\ rs[i].status \notin Live => c[i].status = rs[i].status
  <2>1. rs[i] \in Run
    OBVIOUS
  <2>2. c[i] = IF rs[i].status \in Live THEN [rs[i] EXCEPT !.status = "cancelled"] ELSE rs[i]
    BY DEF Cancel
  <2> QED  BY <2>1, <2>2 DEF Run, Live
<1>3. c = [i \in 1..Len(rs) |-> c[i]]
  BY <1>1 DEF Cancel
<1> HIDE DEF c
<1>4. c \in Seq(Run) /\ Len(c) = Len(rs)
  BY <1>1, <1>2, <1>3
<1> QED  BY <1>2, <1>4 DEF c

LEMMA HeadIsNat ==
  ASSUME TypeInv, NEW i \in DOMAIN runs
  PROVE  runs[i] \in Run /\ runs[i].q.head \in Nat
<1>1. runs[i] \in Run
  BY DEF TypeInv
<1>2. runs[i].q \in PullRequest
  BY <1>1 DEF Run
<1> QED  BY <1>1, <1>2 DEF PullRequest

\* A run starts for the newest head and cancels what was in progress.
LEMMA StartIInv ==
  ASSUME IInv, NEW by \in Events \cup {"dispatch"}, NEW q \in PullRequest,
         Start(by, q), pr' = q, q.head >= pr.head, log' = log
  PROVE  IInv'
<1> USE DEF IInv
<1> DEFINE old == Cancel(runs)
           new == NewRun(by, q)
           n == Len(runs)
<1>1. runs \in Seq(Run) /\ n \in Nat /\ log \in Seq(Nat) /\ pr \in PullRequest
  BY DEF TypeInv
<1>2. /\ old \in Seq(Run) /\ Len(old) = n
      /\ \A i \in 1..n : /\ old[i].q = runs[i].q /\ old[i].status \notin Live
                         /\ old[i].verify = runs[i].verify /\ old[i].by = runs[i].by
                         /\ runs[i].status \notin Live => old[i].status = runs[i].status
  BY <1>1, CancelKeeps
<1>3. /\ new \in Run /\ new.q = q /\ new.status = "queued" /\ new.verify = "none"
  BY DEF NewRun, Run
<1>4. runs' = Append(old, new)
  BY DEF Start
<1> HIDE DEF old, new
<1>5. /\ runs' \in Seq(Run) /\ DOMAIN runs' = 1..(n + 1) /\ Len(runs') = n + 1
      /\ runs'[n + 1] = new /\ \A i \in 1..n : runs'[i] = old[i]
  BY <1>1, <1>2, <1>3, <1>4
<1> HIDE DEF n
<1>6. TypeInv'
  BY <1>1, <1>5 DEF TypeInv
<1>7. RunsWellFormed'
  <2>1. ASSUME NEW i \in 1..n
        PROVE  /\ runs'[i].status \notin Live
               /\ runs'[i].verify # "none" => runs'[i].by \in Events /\ runs'[i].status = "success"
    <3>1. runs[i].verify # "none" => runs[i].by \in Events /\ runs[i].status = "success"
      BY <1>1 DEF RunsWellFormed, n
    <3> QED  BY <1>2, <1>5, <3>1 DEF Live
  <2>2. \A i \in 1..(n + 1) : i \in 1..n \/ i = n + 1
    BY <1>1
  <2> QED  BY <1>3, <1>5, <2>1, <2>2 DEF RunsWellFormed
<1>8. HeadInv'
  <2>1. q.head \in Nat /\ pr.head \in Nat
    BY <1>1 DEF PullRequest
  <2>2. ASSUME NEW i \in 1..n  PROVE runs'[i].q.head <= q.head /\ runs'[i].status \notin Live
    <3>1. runs[i].q.head \in Nat /\ runs[i].q.head <= pr.head
      BY <1>1, HeadIsNat DEF HeadInv, n
    <3>2. runs[i].q.head <= q.head
      BY <2>1, <3>1
    <3> QED  BY <1>2, <1>5, <3>2
  <2>3. ASSUME NEW k \in DOMAIN log  PROVE log[k] <= q.head
    <3>1. log[k] \in Nat /\ log[k] <= pr.head
      BY <1>1 DEF HeadInv
    <3> QED  BY <2>1, <3>1
  <2>4. \A i \in 1..(n + 1) : i \in 1..n \/ (i = n + 1 /\ runs'[i].q = q)
    BY <1>1, <1>3, <1>5
  <2>5. \A i \in 1..(n + 1) : runs'[i].q.head <= q.head
    BY <2>1, <2>2, <2>4
  <2> QED  BY <1>5, <2>2, <2>3, <2>4, <2>5 DEF HeadInv
<1>9. HeadsInOrder'
  BY DEF HeadsInOrder
<1>10. ReadyHeadHasRun'
  <2>1. n + 1 \in DOMAIN runs' /\ runs'[n + 1].q = q
    BY <1>1, <1>3, <1>5
  <2> QED  BY <2>1 DEF ReadyHeadHasRun
<1> QED  BY <1>6, <1>7, <1>8, <1>9, <1>10

\* The pull request changes without a run, and does not become one that is ready.
LEMMA QuietIInv ==
  ASSUME IInv, NEW q \in PullRequest, pr' = q, UNCHANGED <<runs, log>>, q.head = pr.head,
         q.state = "open" /\ ~q.draft => pr.state = "open" /\ ~pr.draft
  PROVE  IInv'
  BY DEF IInv, TypeInv, RunsWellFormed, HeadInv, HeadsInOrder, ReadyHeadHasRun

\* One run goes on: it knows what it knew or the pull request of now, is no longer in
\* progress unless it was, and is verified only once it is a completed event run.
LEMMA UpdateIInv ==
  ASSUME IInv, NEW i \in DOMAIN runs, NEW new \in Run, runs' = [runs EXCEPT ![i] = new],
         UNCHANGED <<pr, log>>,
         new.status \in Live => runs[i].status \in Live,
         new.verify # "none" => new.by \in Events /\ new.status = "success",
         new.q = runs[i].q \/ new.q = pr
  PROVE  IInv'
<1> USE DEF IInv
<1>1. /\ runs' \in Seq(Run) /\ DOMAIN runs' = DOMAIN runs /\ Len(runs') = Len(runs)
      /\ \A k \in DOMAIN runs : runs'[k] = IF k = i THEN new ELSE runs[k]
  BY DEF TypeInv
<1>2. TypeInv'
  BY <1>1 DEF TypeInv
<1>3. RunsWellFormed'
  BY <1>1 DEF RunsWellFormed
<1>4. HeadInv'
  <2>1. pr.head \in Nat /\ pr.head <= pr.head
    BY DEF TypeInv, PullRequest
  <2> QED  BY <1>1, <2>1 DEF HeadInv
<1>5. HeadsInOrder'
  BY DEF HeadsInOrder
<1>6. ReadyHeadHasRun'
  <2> SUFFICES ASSUME pr.state = "open", ~pr.draft
               PROVE  \E k \in DOMAIN runs' : runs'[k].q.head = pr.head /\ ~runs'[k].q.draft
    BY DEF ReadyHeadHasRun
  <2>1. PICK k \in DOMAIN runs : runs[k].q.head = pr.head /\ ~runs[k].q.draft
    BY DEF ReadyHeadHasRun
  <2> QED  BY <1>1, <2>1
<1> QED  BY <1>2, <1>3, <1>4, <1>5, <1>6

\* A command is sent by the one run in progress, for a head no older than any before.
LEMMA PublishIInv ==
  ASSUME IInv, NEW i \in DOMAIN runs, runs[i].status \in {"queued", "fetched"}, Publish(i)
  PROVE  IInv'
<1> USE DEF IInv
<1> DEFINE h == runs[i].q.head
           n == Len(log)
<1>1. /\ runs' = [runs EXCEPT ![i].status = "published"] /\ pr' = pr /\ log' = Append(log, h)
  BY DEF Publish, Step
<1>2. runs \in Seq(Run) /\ log \in Seq(Nat) /\ n \in Nat /\ runs[i] \in Run /\ h \in Nat
  BY HeadIsNat DEF TypeInv
<1>3. [runs[i] EXCEPT !.status = "published"] \in Run
  BY <1>2 DEF Run
<1>4. /\ runs' \in Seq(Run) /\ DOMAIN runs' = DOMAIN runs /\ Len(runs') = Len(runs)
      /\ \A k \in DOMAIN runs :
           runs'[k] = IF k = i THEN [runs[i] EXCEPT !.status = "published"] ELSE runs[k]
  BY <1>1, <1>2, <1>3
<1>5. \A k \in DOMAIN runs :
        /\ runs'[k].q = runs[k].q /\ runs'[k].verify = runs[k].verify /\ runs'[k].by = runs[k].by
        /\ runs'[k].status = IF k = i THEN "published" ELSE runs[k].status
  BY <1>2, <1>4 DEF Run
<1>6. /\ log' \in Seq(Nat) /\ DOMAIN log' = 1..(n + 1) /\ log'[n + 1] = h
      /\ \A k \in 1..n : log'[k] = log[k]
  BY <1>1, <1>2
<1>7. runs[i].status \in Live /\ runs[i].verify = "none"
  BY DEF Live, RunsWellFormed
<1>8. \A k \in 1..n : log[k] <= h /\ log[k] \in Nat
  BY <1>2, <1>7 DEF HeadInv
<1> HIDE DEF h, n
<1>9. TypeInv'
  BY <1>1, <1>4, <1>6 DEF TypeInv
<1>10. RunsWellFormed'
  BY <1>4, <1>5, <1>7 DEF RunsWellFormed
<1>11. \A k \in 1..(n + 1) : log'[k] <= h
  <2>1. \A k \in 1..(n + 1) : k \in 1..n \/ k = n + 1
    BY <1>2
  <2>2. h <= h
    BY <1>2
  <2>3. \A k \in 1..n : log'[k] <= h
    BY <1>6, <1>8
  <2> QED  BY <1>6, <2>1, <2>2, <2>3
<1>12. HeadInv'
  <2>1. h <= pr.head /\ pr.head \in Nat
    BY DEF HeadInv, h, TypeInv, PullRequest
  <2>2. \A k \in 1..(n + 1) : log'[k] <= pr.head
    <3> SUFFICES ASSUME NEW k \in 1..(n + 1)  PROVE log'[k] <= pr.head
      OBVIOUS
    <3>1. log'[k] \in Nat
      <4>1. k \in DOMAIN log' /\ log' \in Seq(Nat)
        BY <1>6
      <4> QED  BY <4>1
    <3>2. log'[k] <= h
      BY <1>11
    <3> QED  BY <1>2, <2>1, <3>1, <3>2
  <2>3. \A k \in DOMAIN runs : runs'[k].status \in Live => k = i
    BY <1>4, <1>5, <1>7 DEF RunsWellFormed
  <2>4. runs'[i].q.head = h
    BY <1>5 DEF h
  <2>5. \A k \in DOMAIN runs' : runs'[k].q.head <= pr'.head
    BY <1>1, <1>4, <1>5 DEF HeadInv
  <2>6. \A k \in DOMAIN log' : \A m \in DOMAIN runs' :
          runs'[m].status \in Live => log'[k] <= runs'[m].q.head
    BY <1>4, <1>6, <1>11, <2>3, <2>4
  <2>7. \A k \in DOMAIN log' : log'[k] <= pr'.head
    BY <1>1, <1>6, <2>2
  <2> QED  BY <2>5, <2>6, <2>7 DEF HeadInv
<1>13. HeadsInOrder'
  <2> SUFFICES ASSUME NEW j \in 1..(n + 1), NEW k \in 1..(n + 1), j < k
               PROVE  log'[j] <= log'[k]
    BY <1>6 DEF HeadsInOrder
  <2>1. CASE k = n + 1
    BY <1>6, <1>11, <2>1
  <2>2. CASE k # n + 1
    <3>1. j \in 1..n /\ k \in 1..n
      BY <1>2, <2>2
    <3>2. j \in DOMAIN log /\ k \in DOMAIN log
      BY <1>2, <3>1 DEF n
    <3>3. log[j] <= log[k]
      BY <3>2 DEF HeadsInOrder
    <3> QED  BY <1>6, <3>1, <3>3
  <2> QED  BY <2>1, <2>2
<1>14. ReadyHeadHasRun'
  BY <1>1, <1>4, <1>5 DEF ReadyHeadHasRun
<1> QED  BY <1>9, <1>10, <1>12, <1>13, <1>14

-----------------------------------------------------------------------------
(* The invariant *)

LEMMA InitIInv == Init => IInv
<1> SUFFICES ASSUME Init  PROVE IInv
  OBVIOUS
<1>1. pr \in PullRequest /\ pr.head = 1
  BY DEF Init, PullRequest
<1>0. PICK by \in Events : runs = <<NewRun(by, pr)>>
  BY DEF Init
<1> DEFINE new == NewRun(by, pr)
<1>2. new \in Run /\ new.q = pr /\ new.verify = "none"
  BY <1>1 DEF NewRun, Run
<1>3. runs = <<new>> /\ log = << >>
  BY <1>0 DEF Init
<1> HIDE DEF new
<1>4. runs \in Seq(Run) /\ DOMAIN runs = {1} /\ Len(runs) = 1 /\ runs[1] = new
  BY <1>2, <1>3
<1>5. TypeInv
  BY <1>1, <1>3, <1>4 DEF TypeInv
<1>6. RunsWellFormed
  BY <1>2, <1>4 DEF RunsWellFormed
<1>7. HeadInv /\ HeadsInOrder
  BY <1>1, <1>2, <1>3, <1>4 DEF HeadInv, HeadsInOrder
<1>8. ReadyHeadHasRun
  BY <1>2, <1>4 DEF ReadyHeadHasRun
<1> QED  BY <1>5, <1>6, <1>7, <1>8 DEF IInv

\* push, ready_for_review and reopened move the head forward, if at all, and start a run.
LEMMA FiresIInv ==
  ASSUME IInv, Push \/ MarkReady \/ Reopen
  PROVE  IInv'
<1>1. pr \in PullRequest /\ log' = log
  BY DEF IInv, TypeInv, Push, MarkReady, Reopen, Change
<1>2. PICK q : FiresEvent(q) /\ q \in PullRequest /\ q.head \in {pr.head, pr.head + 1}
  <2>1. CASE Push
    <3> DEFINE q == [pr EXCEPT !.head = @ + 1]
    <3>1. q \in PullRequest /\ q.head = pr.head + 1
      BY <1>1 DEF PullRequest
    <3>2. FiresEvent(q)
      BY <2>1 DEF Push
    <3> QED  BY <3>1, <3>2
  <2>2. CASE MarkReady
    <3> DEFINE q == [pr EXCEPT !.draft = FALSE]
    <3>1. q \in PullRequest /\ q.head = pr.head
      BY <1>1 DEF PullRequest
    <3>2. FiresEvent(q)
      BY <2>2 DEF MarkReady
    <3> QED  BY <3>1, <3>2
  <2>3. CASE Reopen
    <3>1. PICK h \in {pr.head, pr.head + 1} : FiresEvent([pr EXCEPT !.state = "open", !.head = h])
      BY <2>3 DEF Reopen
    <3> DEFINE q == [pr EXCEPT !.state = "open", !.head = h]
    <3>2. h \in Nat
      BY <1>1 DEF PullRequest
    <3>3. q \in PullRequest /\ q.head = h
      BY <1>1, <3>2 DEF PullRequest
    <3> QED  BY <3>1, <3>3
  <2> QED  BY <2>1, <2>2, <2>3
<1>3. q.head >= pr.head
  BY <1>1, <1>2 DEF PullRequest
<1> QED  BY <1>1, <1>2, <1>3, StartIInv DEF FiresEvent

\* What starts no run leaves the head and does not make the pull request ready.
LEMMA SilentIInv ==
  ASSUME IInv, MarkDraft \/ Close \/ Merge \/ EditTitle
  PROVE  IInv'
<1>1. pr \in PullRequest /\ UNCHANGED <<runs, log>>
  BY DEF IInv, TypeInv, MarkDraft, Close, Merge, EditTitle, Change, Silently
<1>2. CASE MarkDraft
  <2> DEFINE q == [pr EXCEPT !.draft = TRUE]
  <2>1. q \in PullRequest /\ q.head = pr.head /\ q.draft
    BY <1>1 DEF PullRequest
  <2>2. pr' = q
    BY <1>2 DEF MarkDraft, Silently
  <2> QED  BY <1>1, <2>1, <2>2, QuietIInv
<1>3. CASE Close \/ Merge
  <2>1. PICK state \in {"closed", "merged"} : pr' = [pr EXCEPT !.state = state]
    BY <1>3 DEF Close, Merge, Silently
  <2> DEFINE q == [pr EXCEPT !.state = state]
  <2>2. q \in PullRequest /\ q.head = pr.head /\ q.state # "open"
    BY <1>1 DEF PullRequest
  <2> QED  BY <1>1, <2>1, <2>2, QuietIInv
<1>4. CASE EditTitle
  <2> DEFINE q == [pr EXCEPT !.ticket = ~@]
  <2>1. q \in PullRequest /\ q.head = pr.head /\ q.state = pr.state /\ q.draft = pr.draft
    BY <1>1 DEF PullRequest
  <2>2. pr' = q
    BY <1>4 DEF EditTitle, Silently
  <2> QED  BY <1>1, <2>1, <2>2, QuietIInv
<1> QED  BY <1>2, <1>3, <1>4

LEMMA DispatchIInv == ASSUME IInv, Dispatch  PROVE IInv'
<1>1. pr \in PullRequest /\ pr.head >= pr.head
  BY DEF IInv, TypeInv, PullRequest
<1> QED  BY <1>1, StartIInv DEF Dispatch

LEMMA RunStepIInv ==
  ASSUME IInv, NEW i \in DOMAIN runs, RunStep(i)
  PROVE  IInv'
<1> DEFINE r == runs[i]
<1>1. r \in Run /\ pr \in PullRequest
  BY HeadIsNat DEF IInv, TypeInv
<1>2. r.verify # "none" => r.by \in Events /\ r.status = "success"
  BY DEF IInv, RunsWellFormed
<1>3. CASE PublishEvent(i) \/ PublishReplay(i)
  BY <1>3, PublishIInv DEF PublishEvent, PublishReplay
<1>4. CASE SkipUnwanted(i) \/ RefuseReplay(i) \/ Fail(i)
  <2>1. PICK status \in {"skipped", "failed"} : Step(i, status) /\ log' = log
    BY <1>4 DEF SkipUnwanted, RefuseReplay, Fail
  <2>2. r.status \in {"queued", "fetched"}
    BY <1>4 DEF SkipUnwanted, RefuseReplay, Fail
  <2> DEFINE new == [r EXCEPT !.status = status]
  <2>3. runs' = [runs EXCEPT ![i] = new] /\ UNCHANGED <<pr, log>>
    BY <2>1 DEF Step
  <2>4. new \in Run /\ new.status = status /\ new.verify = r.verify /\ new.q = r.q
    BY <1>1 DEF Run
  <2> HIDE DEF new
  <2> QED  BY <1>2, <2>2, <2>3, <2>4, UpdateIInv DEF Live
<1>5. CASE Fetch(i)
  <2> DEFINE new == [r EXCEPT !.status = "fetched", !.q = pr]
  <2>1. runs' = [runs EXCEPT ![i] = new] /\ UNCHANGED <<pr, log>> /\ r.status = "queued"
    BY <1>1, <1>5 DEF Fetch
  <2>2. new \in Run /\ new.status = "fetched" /\ new.verify = r.verify /\ new.q = pr
    BY <1>1 DEF Run
  <2> HIDE DEF new
  <2> QED  BY <1>2, <2>1, <2>2, UpdateIInv DEF Live
<1>6. CASE Conclude(i)
  <2> DEFINE verdict == IF Verified(r) THEN "waiting" ELSE "none"
             new == [r EXCEPT !.status = "success", !.verify = verdict]
  <2>1. runs' = [runs EXCEPT ![i] = new] /\ UNCHANGED <<pr, log>>
    BY <1>1, <1>6 DEF Conclude
  <2>2. /\ new \in Run /\ new.status = "success" /\ new.verify = verdict /\ new.q = r.q
        /\ new.by = r.by
    BY <1>1 DEF Run
  <2> HIDE DEF new
  <2> QED  BY <2>1, <2>2, UpdateIInv DEF Live, Verified
<1> QED  BY <1>3, <1>4, <1>5, <1>6 DEF RunStep

\* The verification changes its own verdict only.
LEMMA VerifyStepIInv ==
  ASSUME IInv, NEW i \in DOMAIN runs, VerifyStep(i)
  PROVE  IInv'
<1> DEFINE r == runs[i]
<1>1. r \in Run
  BY HeadIsNat DEF IInv
<1>2. r.verify \in {"waiting", "red"} /\ r.by \in Events /\ r.status = "success"
  BY DEF IInv, RunsWellFormed, VerifyStep, LosesNumber, ReadsBack, VerifyBreaks, EndsRed
<1>3. CASE \E verdict \in {"unresolved", "green", "red", "error"} : Verify(i, verdict)
  <2>1. PICK verdict \in {"unresolved", "green", "red", "error"} : Verify(i, verdict)
    BY <1>3
  <2> DEFINE new == [r EXCEPT !.verify = verdict]
  <2>2. runs' = [runs EXCEPT ![i] = new] /\ UNCHANGED <<pr, log>>
    BY <2>1 DEF Verify
  <2>3. new \in Run /\ new.status = r.status /\ new.by = r.by /\ new.q = r.q
    BY <1>1 DEF Run
  <2> HIDE DEF new
  <2> QED  BY <1>2, <2>2, <2>3, UpdateIInv DEF Live
<1>4. CASE EndsRed(i)
  <2> DEFINE new == [r EXCEPT !.verify = "ended", !.retried = RetryStepRuns(TRUE)]
  <2>1. runs' = [runs EXCEPT ![i] = new] /\ UNCHANGED <<pr, log>>
    BY <1>1, <1>4 DEF EndsRed
  <2>2. new \in Run /\ new.status = r.status /\ new.by = r.by /\ new.q = r.q
    BY <1>1 DEF Run, RetryStepRuns
  <2> HIDE DEF new
  <2> QED  BY <1>2, <2>1, <2>2, UpdateIInv DEF Live
<1> QED  BY <1>3, <1>4 DEF VerifyStep, LosesNumber, ReadsBack, VerifyBreaks

\* Every reachable state satisfies the invariant.
THEOREM RunsAndHeads == Spec => []IInv
<1>1. IInv /\ [Next]_vars => IInv'
  <2> SUFFICES ASSUME IInv, [Next]_vars  PROVE IInv'
    OBVIOUS
  <2>1. CASE UNCHANGED vars \/ Consume
    BY <2>1 DEF vars, Consume, IInv, TypeInv, RunsWellFormed, HeadInv, HeadsInOrder, ReadyHeadHasRun
  <2>2. CASE Workflows
    BY <2>2, RunStepIInv, VerifyStepIInv DEF Workflows
  <2> QED  BY <2>1, <2>2, FiresIInv, SilentIInv, DispatchIInv DEF Next
<1> QED  BY InitIInv, <1>1, PTL DEF Spec

-----------------------------------------------------------------------------
(* What the publisher guarantees *)

\* Only the newest run is in progress, and only a completed event run is verified.
THEOREM OneRunInProgress == Spec => []RunsWellFormed
<1>1. IInv => RunsWellFormed
  BY DEF IInv
<1> QED  BY <1>1, RunsAndHeads, PTL

\* No command for a superseded head follows one for its successor, replays included.
THEOREM CommandsInOrder == Spec => []HeadsInOrder
<1>1. IInv => HeadsInOrder
  BY DEF IInv
<1> QED  BY <1>1, RunsAndHeads, PTL

\* A head that is ready for review has had a run that saw it ready.
THEOREM NobodyStranded == Spec => []ReadyHeadHasRun
<1>1. IInv => ReadyHeadHasRun
  BY DEF IInv
<1> QED  BY <1>1, RunsAndHeads, PTL
====================================================================================
