------------------------------- MODULE OccBornPath -------------------------------
(***************************************************************************)
(* How a pull request gets its evidence companion: a publisher workflow    *)
(* (call-occ-autobind.yml; call-occ-companion-effect.yml is the same but   *)
(* for the command) with its concurrency group and manual replay, the      *)
(* precheck of the replay (occ_manual_replay_precheck.py), the mint        *)
(* verification (occ-autobind-mint-verify.yml) and, outside this           *)
(* repository, the consumer of the published commands.                     *)
(*                                                                         *)
(* One pull request and one publisher: the concurrency group names both,   *)
(* so the runs of two publishers, or for two pull requests, never cancel   *)
(* one another.  Editing the title or turning the pull request into a      *)
(* draft starts no run.                                                    *)
(***************************************************************************)
EXTENDS Naturals, Sequences

CONSTANTS
  MaxChanges,    \* bound: changes to the pull request after it is opened
  MaxDispatches  \* bound: manual replays

ASSUME BoundsAssumption == MaxChanges \in Nat /\ MaxDispatches \in Nat

VARIABLES
  pr,          \* the pull request as GitHub shows it now
  bound,       \* its body carries "Evidence-Source: OCC#<n>"
  runs,        \* every run of the publisher, oldest first
  log,         \* history: the heads of the published commands, in order
  changes,     \* changes made so far
  dispatches   \* manual replays so far

vars == <<pr, bound, runs, log, changes, dispatches>>

\* A run holds what it knows of the pull request: an event run its payload, a
\* manual replay what it fetched (here from its start, refreshed by Fetch).  It was
\* started by a person's event, by one whose actor is dependabot or renovate, or by hand.
Events == {"event", "bot"}
NewRun(by, q) == [by |-> by, status |-> "queued", q |-> q, verify |-> "none", retried |-> FALSE]

Live == {"queued", "fetched", "published"}

\* Mutant: without cancel-in-progress.
CancelNothing(rs) == rs

Cancel(rs) == [i \in DOMAIN rs |-> IF rs[i].status \in Live
                                   THEN [rs[i] EXCEPT !.status = "cancelled"] ELSE rs[i]]

\* A run starts.  The concurrency group is the workflow and the pull request
\* number, with cancel-in-progress: what was in progress is cancelled.
Start(by, q) == runs' = Append(Cancel(runs), NewRun(by, q))

Init ==
  /\ pr \in [state : {"open"}, draft : BOOLEAN, ticket : BOOLEAN, head : {1}]
  /\ bound = FALSE
  /\ \E by \in Events : runs = <<NewRun(by, pr)>>   \* opened
  /\ log = << >>
  /\ changes = 0
  /\ dispatches = 0

-----------------------------------------------------------------------------
(* The pull request *)

Change ==
  /\ changes < MaxChanges
  /\ changes' = changes + 1
  /\ UNCHANGED <<bound, log, dispatches>>

\* No run starts.
Silently(q) == pr' = q /\ UNCHANGED runs

\* synchronize, ready_for_review and reopened start a run.
FiresEvent(q) == pr' = q /\ \E by \in Events : Start(by, q)

Push == Change /\ pr.state = "open" /\ FiresEvent([pr EXCEPT !.head = @ + 1])
MarkReadySilently == \* mutant: without ready_for_review
  Change /\ pr.state = "open" /\ pr.draft /\ Silently([pr EXCEPT !.draft = FALSE])
MarkReady == Change /\ pr.state = "open" /\ pr.draft /\ FiresEvent([pr EXCEPT !.draft = FALSE])
Reopen ==   \* its branch may have moved meanwhile
  /\ Change /\ pr.state = "closed"
  /\ \E h \in {pr.head, pr.head + 1} : FiresEvent([pr EXCEPT !.state = "open", !.head = h])

MarkDraft == Change /\ pr.state = "open" /\ ~pr.draft /\ Silently([pr EXCEPT !.draft = TRUE])
Close == Change /\ pr.state = "open" /\ Silently([pr EXCEPT !.state = "closed"])
Merge == Change /\ pr.state = "open" /\ ~pr.draft /\ Silently([pr EXCEPT !.state = "merged"])
EditTitle == Change /\ Silently([pr EXCEPT !.ticket = ~@])

-----------------------------------------------------------------------------
(* The publisher workflow *)

Step(i, status) ==
  /\ runs' = [runs EXCEPT ![i].status = status]
  /\ UNCHANGED <<pr, bound, changes, dispatches>>

Publish(i) ==
  /\ Step(i, "published")
  /\ log' = Append(log, runs[i].q.head)

\* The job's if: no bot, and the OMN- ticket in the event's title or branch.
Wanted(r) == r.by = "event" /\ r.q.ticket

SkipUnwanted(i) ==
  /\ runs[i].by \in Events /\ runs[i].status = "queued" /\ ~Wanted(runs[i])
  /\ Step(i, "skipped")
  /\ UNCHANGED log

PublishEvent(i) ==
  /\ runs[i].status = "queued" /\ Wanted(runs[i])
  /\ Publish(i)

\* An operator asks for a replay.
Dispatch ==
  /\ dispatches < MaxDispatches
  /\ dispatches' = dispatches + 1
  /\ Start("dispatch", pr)
  /\ UNCHANGED <<pr, bound, log, changes>>

Fetch(i) ==
  /\ runs[i].by = "dispatch" /\ runs[i].status = "queued"
  /\ runs' = [runs EXCEPT ![i].status = "fetched", ![i].q = pr]
  /\ UNCHANGED <<pr, bound, log, changes, dispatches>>

\* check_replay_eligible, then the ticket gate.
ReplayEligible(q) == q.state = "open" /\ ~q.draft /\ q.ticket

PublishReplay(i) ==
  /\ runs[i].by = "dispatch" /\ runs[i].status = "fetched" /\ ReplayEligible(runs[i].q)
  /\ Publish(i)

\* Mutant: a refusal leaves the run green.
RefuseReplayGreen(i) ==
  /\ runs[i].status = "fetched" /\ ~ReplayEligible(runs[i].q)
  /\ Step(i, "success")
  /\ UNCHANGED log

RefuseReplay(i) ==
  /\ runs[i].status = "fetched" /\ ~ReplayEligible(runs[i].q)
  /\ Step(i, "failed")
  /\ UNCHANGED log

\* A step of the job fails: checkout, the gh call, the installation, the broker.
Fail(i) ==
  /\ runs[i].status \in {"queued", "fetched"}
  /\ runs[i].by = "dispatch" \/ Wanted(runs[i])
  /\ Step(i, "failed")
  /\ UNCHANGED log

VerifiedAll(r) == TRUE   \* mutant: the trigger is not looked at

\* The run completes; mint-verify reacts to a success whose trigger was an event.
Verified(r) == r.by \in Events

Conclude(i) ==
  /\ runs[i].status = "published"
  /\ runs' = [runs EXCEPT ![i].status = "success",
                          ![i].verify = IF Verified(runs[i]) THEN "waiting" ELSE "none"]
  /\ UNCHANGED <<pr, bound, log, changes, dispatches>>

-----------------------------------------------------------------------------
(* The consumer, outside this repository, binds the body for a command of   *)
(* this publisher or the other, at any later time; its F-17 guard looks at  *)
(* the live pull request.  It may fail, or never see the command.           *)

Consume ==
  /\ pr.state = "open" /\ ~pr.draft
  /\ bound' = TRUE
  /\ UNCHANGED <<pr, runs, log, changes, dispatches>>

-----------------------------------------------------------------------------
(* occ-autobind-mint-verify.yml, for the publisher's run i *)

Verify(i, verdict) ==
  /\ runs' = [runs EXCEPT ![i].verify = verdict]
  /\ UNCHANGED <<pr, bound, log, changes, dispatches>>

\* GitHub no longer associates a pull request that is not open with the run.
LosesNumber(i) ==
  /\ runs[i].verify = "waiting" /\ pr.state # "open"
  /\ Verify(i, "unresolved")

\* After the SLA window the body is read back.
ReadsBackGreen(i) ==   \* mutant: the signal does not fail the job
  /\ runs[i].verify = "waiting"
  /\ Verify(i, "green")

ReadsBack(i) ==
  /\ runs[i].verify = "waiting"
  /\ Verify(i, IF bound THEN "green" ELSE "red")

\* The job's gh call fails, or its eight minutes pass.
VerifyBreaks(i) ==
  /\ runs[i].verify = "waiting"
  /\ Verify(i, "error")

\* The signal step ended with exit 1.  The retry step's if names no status
\* function, so GitHub adds success() to it.
RetryStepRuns(jobFailed) == ~jobFailed

EndsRed(i) ==
  /\ runs[i].verify = "red"
  /\ runs' = [runs EXCEPT ![i].verify = "ended", ![i].retried = RetryStepRuns(TRUE)]
  /\ UNCHANGED <<pr, bound, log, changes, dispatches>>

-----------------------------------------------------------------------------
RunStep(i) ==
  \/ SkipUnwanted(i)
  \/ PublishEvent(i)
  \/ Fetch(i)
  \/ PublishReplay(i)
  \/ RefuseReplay(i)
  \/ Fail(i)
  \/ Conclude(i)

VerifyStep(i) == LosesNumber(i) \/ ReadsBack(i) \/ VerifyBreaks(i) \/ EndsRed(i)

Workflows == \E i \in DOMAIN runs : RunStep(i) \/ VerifyStep(i)

Next ==
  \/ Push \/ MarkReady \/ Reopen \/ MarkDraft \/ Close \/ Merge \/ EditTitle
  \/ Dispatch
  \/ Workflows
  \/ Consume

Spec == Init /\ [][Next]_vars

\* GitHub runs what it started to the end, within the jobs' time limits.  The
\* author, the operator and the consumer owe nothing.
FairSpec == Spec /\ WF_vars(Workflows)

-----------------------------------------------------------------------------
(* Properties *)

\* At most the newest run is in progress, and only a completed run that an event
\* started is ever verified.
RunsWellFormed ==
  \A i \in DOMAIN runs :
    /\ runs[i].status \in Live => i = Len(runs)
    /\ runs[i].verify # "none" => runs[i].by \in Events /\ runs[i].status = "success"

\* Commands reach the broker in the order of the heads they are for: a superseded
\* head is never requested after its successor.
HeadsInOrder == \A i, j \in DOMAIN log : i < j => log[i] <= log[j]

RunIds == 1..(1 + MaxChanges + MaxDispatches)
Started(i) == i <= Len(runs)

WantedEvent(i) == Started(i) /\ Wanted(runs[i])

AnsweredBy(i) ==
  IF Started(i)
  THEN \/ \E k \in DOMAIN log : log[k] >= runs[i].q.head
       \/ \E j \in i..Len(runs) : runs[j].status \in {"failed", "skipped"}
  ELSE FALSE

\* An event that wants a companion is answered: a command is sent for that head or a
\* newer one, or this run or a later one ends red or is one that wants none, its ticket
\* gone or its actor a bot.  A run that is cancelled is always superseded by such a one.
RequestAnswered == \A i \in RunIds : WantedEvent(i) ~> AnsweredBy(i)

PublishedEvent(i) == Started(i) /\ runs[i].by \in Events /\ runs[i].status = "success"
ReportedRed(i) == Started(i) /\ runs[i].verify \in {"red", "ended", "error"}
ClosedMeanwhile(i) ==
  Started(i) /\ runs[i].verify = "unresolved" /\ (pr.state # "open" \/ i < Len(runs))

\* A publish that succeeded is never the last word: the body gets its binding or
\* the verification goes red.  When it found the pull request closed, reopening it
\* has started another run.
NoSilentMiss ==
  \A i \in RunIds :
    PublishedEvent(i) ~> (bound \/ ReportedRed(i) \/ ClosedMeanwhile(i))

\* Nobody is stranded (call-occ-autobind.yml, 20-25): the head of an open pull
\* request that is not a draft has had a run that saw it so, whichever way the
\* draft, closed and reopened states were gone through and by whom.
ReadyHeadHasRun ==
  pr.state = "open" /\ ~pr.draft =>
    \E i \in DOMAIN runs : runs[i].q.head = pr.head /\ ~runs[i].q.draft

\* occ-autobind-mint-verify.yml (lines 24-28): a miss is reported as a failing
\* step and triggers exactly one automatic retry.
MissIsRetried == \A i \in DOMAIN runs : runs[i].verify = "ended" => runs[i].retried
=============================================================================
