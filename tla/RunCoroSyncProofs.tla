------------------------------ MODULE RunCoroSyncProofs ------------------------------
(***************************************************************************)
(* Proofs about RunCoroSync for any number of calls, threads and workers:  *)
(* how run_coro_sync chooses its path is right, and no call leaves a loop  *)
(* or a worker behind.                                                     *)
(*                                                                         *)
(* What carries both is where a coroutine can be: on the worker of its own *)
(* call, or on a thread that had no loop and made no other call.           *)
(***************************************************************************)
EXTENDS RunCoroSync, TLAPS

Live(c) == stage[c] \in {"running", "awaiting"}

TypeInv ==
  /\ stage \in [Coros -> {"idle", "called", "submitted", "running", "awaiting", "ended", "returned"}]
  /\ maker \in [Coros -> Loops \cup Plain \cup Coros \cup {Nobody}]
  /\ thread \in [Coros -> Loops \cup Plain \cup Coros \cup {Nobody}]
  /\ result \in [Coros -> {Nobody, "value", "error", "refused", "no thread"}]
  /\ runs \in [Coros -> Nat]
  /\ workers \subseteq Coros

\* An active call was made by a thread or by a coroutine that still runs, and its maker is
\* blocked: it has made no other.
ParentInv ==
  \A c \in Coros : Pending(c) =>
    /\ maker[c] # Nobody
    /\ maker[c] \in Coros => stage[maker[c]] = "running"
    /\ \A d \in Coros : Pending(d) /\ maker[d] = maker[c] => d = c

\* A coroutine runs on its call's own worker, or on the thread without a loop that called.
ThreadInv ==
  \A c \in Coros : Live(c) =>
    thread[c] = c \/ (thread[c] = maker[c] /\ maker[c] \in Plain)

LoopInv == loop = Loops \cup {thread[c] : c \in {d \in Coros : Live(d)}}

WorkerInv == \A c \in workers : Pending(c)

\* How often a coroutine has been started, by how far its call is.
RunsInv ==
  \A c \in Coros :
    /\ stage[c] \in {"idle", "called", "submitted"} => runs[c] = 0
    /\ Live(c) => runs[c] = 1
    /\ stage[c] \in {"ended", "returned"} =>
         \/ result[c] \in {"value", "error"} /\ runs[c] = 1
         \/ result[c] = "no thread" /\ runs[c] = 0 /\ maker[c] \notin Plain

IInv == TypeInv /\ ParentInv /\ ThreadInv /\ LoopInv /\ WorkerInv /\ RunsInv

-----------------------------------------------------------------------------
(* Lemmas *)

\* The coroutine that made an active call is on a thread with a running loop, so a call that
\* finds none was made by a thread of Plain.
LEMMA NoLoopIsPlain ==
  ASSUME IInv, NEW c \in Coros, stage[c] = "called", ~InRunningLoop(c)
  PROVE  maker[c] \in Plain /\ From(c) = maker[c]
<1>1. Pending(c)
  BY DEF Pending
<1>2. maker[c] \notin Coros
  <2> SUFFICES ASSUME maker[c] \in Coros PROVE FALSE
    OBVIOUS
  <2>1. Live(maker[c])
    BY <1>1 DEF IInv, ParentInv, Live
  <2>2. thread[maker[c]] \in loop
    BY <2>1 DEF IInv, LoopInv
  <2> QED
    BY <2>2 DEF InRunningLoop, From
<1>3. From(c) = maker[c]
  BY <1>2 DEF From
<1>4. maker[c] \notin Loops
  BY <1>3 DEF InRunningLoop, IInv, LoopInv
<1>5. maker[c] \in Loops \cup Plain \cup Coros \cup {Nobody} /\ maker[c] # Nobody
  BY <1>1 DEF IInv, TypeInv, ParentInv
<1> QED
  BY <1>2, <1>3, <1>4, <1>5

\* A thread of Plain that has just made a call has no loop: it is not blocked by another.
LEMMA PlainHasNoLoop ==
  ASSUME IInv, NEW c \in Coros, stage[c] = "called", maker[c] \in Plain
  PROVE  ~InRunningLoop(c)
<1>1. From(c) = maker[c]
  BY CallersAssumption DEF From, Coros
<1>2. SUFFICES ASSUME maker[c] \in loop PROVE FALSE
  BY <1>1 DEF InRunningLoop
<1>3. maker[c] \notin Loops
  BY CallersAssumption
<1>4. PICK d \in Coros : Live(d) /\ thread[d] = maker[c]
  BY <1>2, <1>3 DEF IInv, LoopInv
<1>5. thread[d] # d
  BY <1>4, CallersAssumption DEF Coros
<1>6. maker[d] = maker[c]
  BY <1>4, <1>5 DEF IInv, ThreadInv
<1>7. Pending(c) /\ Pending(d)
  BY <1>4 DEF Pending, Live
<1>8. d = c
  BY <1>6, <1>7 DEF IInv, ParentInv
<1> QED
  BY <1>4, <1>8 DEF Live

\* A worker that has just been started has no loop.
LEMMA WorkerHasNoLoop ==
  ASSUME IInv, NEW c \in Coros, stage[c] = "submitted"
  PROVE  c \notin loop
<1> SUFFICES ASSUME c \in loop PROVE FALSE
  OBVIOUS
<1>1. c \notin Loops /\ c \notin Plain
  BY CallersAssumption DEF Coros
<1>2. PICK d \in Coros : Live(d) /\ thread[d] = c
  BY <1>1 DEF IInv, LoopInv
<1>3. d = c
  BY <1>1, <1>2 DEF IInv, ThreadInv
<1> QED
  BY <1>2, <1>3 DEF Live

-----------------------------------------------------------------------------
(* The invariant is inductive: one lemma for each action *)

LEMMA InitIInv == BridgeInit => IInv
<1> SUFFICES ASSUME BridgeInit PROVE IInv
  OBVIOUS
<1>1. \A c \in Coros : stage[c] = "idle" /\ runs[c] = 0
  BY DEF BridgeInit
<1>2. \A c \in Coros : ~Pending(c) /\ ~Live(c)
  BY <1>1 DEF Pending, Live
<1>3. TypeInv
  BY DEF BridgeInit, TypeInv
<1>4. ParentInv /\ ThreadInv /\ LoopInv /\ WorkerInv
  BY <1>2 DEF BridgeInit, ParentInv, ThreadInv, LoopInv, WorkerInv
<1>5. RunsInv
  BY <1>1, <1>2 DEF RunsInv
<1> QED
  BY <1>3, <1>4, <1>5 DEF IInv

LEMMA CallIInv == ASSUME IInv, NEW c \in Coros, Call(c) PROVE IInv'
<1>1. stage[c] = "idle" /\ stage' = [stage EXCEPT ![c] = "called"]
  BY DEF Call
<1>2. PICK caller \in Loops \cup Plain \cup {d \in Coros : stage[d] = "running"} :
        ~Blocked(caller) /\ maker' = [maker EXCEPT ![c] = caller]
  BY DEF Call
<1>3. UNCHANGED <<thread, target, loop, workers, result, runs>>
  BY DEF Call
<1>4. caller # Nobody /\ caller \in Loops \cup Plain \cup Coros
  BY <1>2, CallersAssumption DEF Coros
<1>5. TypeInv'
  BY <1>1, <1>2, <1>3, <1>4 DEF IInv, TypeInv
<1>6. /\ \A d \in Coros : (Live(d)' <=> Live(d)) /\ (d # c => (Pending(d)' <=> Pending(d)) /\ maker'[d] = maker[d])
      /\ Pending(c)' /\ ~Pending(c) /\ maker'[c] = caller
  BY <1>1, <1>2 DEF IInv, TypeInv, Live, Pending
<1>7. ParentInv'
  <2>1. \A d \in Coros : Pending(d) => maker[d] # caller
    BY <1>2 DEF Blocked
  <2>2. \A d \in Coros : stage[d] = "running" => stage'[d] = "running"
    BY <1>1 DEF IInv, TypeInv
  <2>3. caller \in Coros => stage[caller] = "running"
    BY <1>2, CallersAssumption DEF Coros
  <2> QED
    BY <1>4, <1>6, <2>1, <2>2, <2>3 DEF IInv, ParentInv
<1>8. ThreadInv'
  BY <1>1, <1>3, <1>6 DEF IInv, ThreadInv, Live
<1>9. LoopInv'
  BY <1>3, <1>6 DEF IInv, LoopInv
<1>10. WorkerInv'
  BY <1>3, <1>6 DEF IInv, WorkerInv, TypeInv
<1>11. RunsInv'
  BY <1>1, <1>3, <1>6 DEF IInv, RunsInv, TypeInv, Live
<1> QED
  BY <1>5, <1>7, <1>8, <1>9, <1>10, <1>11 DEF IInv

\* The coroutine starts on a thread without a loop: the cheap path and the worker.
LEMMA StartIInv ==
  ASSUME IInv, NEW c \in Coros, NEW t, t \notin loop, AsyncioRun(c, t),
         stage[c] \in {"called", "submitted"},
         t = c \/ (t = maker[c] /\ maker[c] \in Plain),
         UNCHANGED <<maker, target, workers>>
  PROVE  IInv'
<1>1. /\ stage' = [stage EXCEPT ![c] = "running"] /\ thread' = [thread EXCEPT ![c] = t]
      /\ loop' = loop \cup {t} /\ runs' = [runs EXCEPT ![c] = @ + 1]
      /\ UNCHANGED result
  BY DEF AsyncioRun
<1>2. TypeInv'
  <2>1. t \in Loops \cup Plain \cup Coros \cup {Nobody}
    OBVIOUS
  <2>2. runs \in [Coros -> Nat]
    BY DEF IInv, TypeInv
  <2>3. runs' \in [Coros -> Nat]
    BY <1>1, <2>2
  <2>4. thread' \in [Coros -> Loops \cup Plain \cup Coros \cup {Nobody}]
    BY <1>1, <2>1 DEF IInv, TypeInv
  <2> QED
    BY <1>1, <2>3, <2>4 DEF IInv, TypeInv
<1>3. /\ \A d \in Coros : (Pending(d)' <=> Pending(d))
      /\ \A d \in Coros : d # c => (Live(d)' <=> Live(d)) /\ thread'[d] = thread[d] /\ stage'[d] = stage[d] /\ runs'[d] = runs[d]
      /\ Live(c)' /\ ~Live(c) /\ thread'[c] = t /\ runs'[c] = runs[c] + 1
  BY <1>1 DEF IInv, TypeInv, Pending, Live
<1>4. ParentInv'
  <2>1. \A d \in Coros : stage[d] = "running" => stage'[d] = "running"
    BY <1>1 DEF IInv, TypeInv
  <2> QED
    BY <1>3, <2>1 DEF IInv, ParentInv
<1>5. ThreadInv'
  BY <1>3 DEF IInv, ThreadInv
<1>6. LoopInv'
  BY <1>1, <1>3 DEF IInv, LoopInv
<1>7. WorkerInv'
  BY <1>3 DEF IInv, WorkerInv, TypeInv
<1>8. RunsInv'
  <2>1. runs[c] = 0
    BY DEF IInv, RunsInv
  <2>2. runs'[c] = 1
    BY <1>3, <2>1
  <2>3. stage'[c] = "running"
    BY <1>1 DEF IInv, TypeInv
  <2> QED
    BY <1>1, <1>3, <2>2, <2>3 DEF IInv, RunsInv
<1> QED
  BY <1>2, <1>4, <1>5, <1>6, <1>7, <1>8 DEF IInv

LEMMA RunHereIInv == ASSUME IInv, NEW c \in Coros, RunHere(c) PROVE IInv'
<1>1. stage[c] = "called" /\ ~InRunningLoop(c) /\ AsyncioRun(c, From(c))
      /\ UNCHANGED <<maker, target, workers>>
  BY DEF RunHere
<1>2. From(c) \notin loop
  BY <1>1 DEF InRunningLoop
<1>3. maker[c] \in Plain /\ From(c) = maker[c]
  BY <1>1, NoLoopIsPlain
<1> QED
  BY <1>1, <1>2, <1>3, StartIInv

LEMMA RunOnWorkerIInv == ASSUME IInv, NEW c \in Coros, RunOnWorker(c) PROVE IInv'
<1>1. stage[c] = "submitted" /\ AsyncioRun(c, c) /\ UNCHANGED <<maker, target, workers>>
  BY DEF RunOnWorker
<1>2. c \notin loop
  BY <1>1, WorkerHasNoLoop
<1> QED
  BY <1>1, <1>2, StartIInv

\* A step that moves one call without changing who runs where.
LEMMA MoveIInv ==
  ASSUME IInv, NEW c \in Coros, NEW s \in {"submitted", "running", "awaiting", "ended"},
         stage' = [stage EXCEPT ![c] = s], Pending(c), (Live(c)' <=> Live(c)), stage[c] = "running" => ~Blocked(c),
         workers' \in SUBSET (workers \cup {c}),
         result' \in [Coros -> {Nobody, "value", "error", "refused", "no thread"}],
         \A d \in Coros \ {c} : result'[d] = result[d],
         s = "submitted" => stage[c] = "called",
         s = "ended" => stage[c] = "called" /\ result'[c] = "no thread" /\ maker[c] \notin Plain,
         UNCHANGED <<maker, thread, loop, runs>>
  PROVE  IInv'
<1>1. TypeInv'
  BY DEF IInv, TypeInv
<1>2. /\ \A d \in Coros : (Pending(d)' <=> Pending(d)) /\ (Live(d)' <=> Live(d))
      /\ \A d \in Coros : d # c => stage'[d] = stage[d]
      /\ stage'[c] = s
  BY DEF IInv, TypeInv, Pending, Live
<1>3. ParentInv'
  <2>1. \A d \in Coros : Pending(d) /\ maker[d] \in Coros => maker[d] # c
    BY DEF Blocked, IInv, ParentInv
  <2>2. ASSUME NEW d \in Coros, Pending(d)', maker'[d] \in Coros PROVE stage'[maker'[d]] = "running"
    <3>1. Pending(d) /\ maker[d] \in Coros /\ maker'[d] = maker[d]
      BY <1>2, <2>2
    <3>2. maker[d] # c /\ stage[maker[d]] = "running"
      BY <2>1, <3>1 DEF IInv, ParentInv
    <3> QED
      BY <1>2, <3>1, <3>2
  <2>3. ASSUME NEW d \in Coros, Pending(d)'
        PROVE  maker'[d] # Nobody /\ \A e \in Coros : Pending(e)' /\ maker'[e] = maker'[d] => e = d
    BY <1>2, <2>3 DEF IInv, ParentInv
  <2> QED
    BY <2>2, <2>3 DEF ParentInv
<1>4. ThreadInv' /\ LoopInv'
  BY <1>2 DEF IInv, ThreadInv, LoopInv
<1>5. WorkerInv'
  BY <1>2 DEF IInv, WorkerInv, TypeInv
<1>6. RunsInv'
  BY <1>2 DEF IInv, RunsInv, Live, Pending
<1> QED
  BY <1>1, <1>3, <1>4, <1>5, <1>6 DEF IInv

LEMMA SubmitIInv == ASSUME IInv, NEW c \in Coros, Submit(c) PROVE IInv'
<1>1. /\ stage[c] = "called" /\ InRunningLoop(c)
      /\ UNCHANGED <<maker, thread, loop, runs>>
  BY DEF Submit
<1>2. maker[c] \notin Plain
  BY <1>1, PlainHasNoLoop
<1>3. Pending(c) /\ ~Live(c)
  BY <1>1 DEF Pending, Live
<1>4. CASE /\ workers' = workers \cup {c}
           /\ stage' = [stage EXCEPT ![c] = "submitted"] /\ UNCHANGED result
  <2>1. ~Live(c)'
    BY <1>4 DEF IInv, TypeInv, Live
  <2>2. result' \in [Coros -> {Nobody, "value", "error", "refused", "no thread"}]
    BY <1>4 DEF IInv, TypeInv
  <2> QED
    BY <1>1, <1>3, <1>4, <2>1, <2>2, MoveIInv
<1>5. CASE /\ result' = [result EXCEPT ![c] = "no thread"]
           /\ stage' = [stage EXCEPT ![c] = "ended"] /\ UNCHANGED workers
  <2>1. ~Live(c)'
    BY <1>5 DEF IInv, TypeInv, Live
  <2>2. /\ result' \in [Coros -> {Nobody, "value", "error", "refused", "no thread"}]
        /\ result'[c] = "no thread" /\ \A d \in Coros \ {c} : result'[d] = result[d]
    BY <1>5 DEF IInv, TypeInv
  <2> QED
    BY <1>1, <1>2, <1>3, <1>5, <2>1, <2>2, MoveIInv
<1> QED
  BY <1>4, <1>5 DEF Submit

LEMMA AwaitIInv == ASSUME IInv, NEW c \in Coros, Await(c) PROVE IInv'
<1>1. /\ stage[c] = "running" /\ ~Blocked(c)
      /\ stage' = [stage EXCEPT ![c] = "awaiting"]
      /\ UNCHANGED <<maker, thread, loop, workers, result, runs>>
  BY DEF Await
<1>2. Pending(c) /\ Live(c) /\ Live(c)'
  BY <1>1 DEF IInv, TypeInv, Pending, Live
<1>3. result' \in [Coros -> {Nobody, "value", "error", "refused", "no thread"}]
  BY <1>1 DEF IInv, TypeInv
<1> QED
  BY <1>1, <1>2, <1>3, MoveIInv

LEMMA AnswerIInv == ASSUME IInv, NEW c \in Coros, Answer(c) PROVE IInv'
<1>1. /\ stage[c] = "awaiting"
      /\ stage' = [stage EXCEPT ![c] = "running"]
      /\ UNCHANGED <<maker, thread, loop, workers, result, runs>>
  BY DEF Answer
<1>2. Pending(c) /\ Live(c) /\ Live(c)'
  BY <1>1 DEF IInv, TypeInv, Pending, Live
<1>3. result' \in [Coros -> {Nobody, "value", "error", "refused", "no thread"}]
  BY <1>1 DEF IInv, TypeInv
<1> QED
  BY <1>1, <1>2, <1>3, MoveIInv

\* No other coroutine is on the thread whose loop is closed.
LEMMA EndIInv == ASSUME IInv, NEW c \in Coros, End(c) PROVE IInv'
<1>1. /\ stage[c] = "running" /\ ~Blocked(c)
      /\ stage' = [stage EXCEPT ![c] = "ended"] /\ loop' = loop \ {thread[c]}
      /\ UNCHANGED <<maker, thread, target, workers, runs>>
  BY DEF End
<1>2. PICK r \in {"value", "error"} : result' = [result EXCEPT ![c] = r]
  BY DEF End
<1>3. TypeInv'
  BY <1>1, <1>2 DEF IInv, TypeInv
<1>4. /\ \A d \in Coros : (Pending(d)' <=> Pending(d))
      /\ \A d \in Coros : d # c => (Live(d)' <=> Live(d)) /\ stage'[d] = stage[d] /\ result'[d] = result[d]
      /\ Live(c) /\ ~Live(c)' /\ stage'[c] = "ended" /\ result'[c] = r
  BY <1>1, <1>2 DEF IInv, TypeInv, Pending, Live
<1>5. ParentInv'
  <2>1. \A d \in Coros : Pending(d) => maker[d] # c
    BY <1>1 DEF Blocked
  <2> QED
    BY <1>1, <1>4, <2>1 DEF IInv, ParentInv
<1>6. ThreadInv'
  BY <1>1, <1>4 DEF IInv, ThreadInv
<1>7. LoopInv'
  <2>1. thread[c] \notin Loops
    BY <1>4, CallersAssumption DEF IInv, ThreadInv, Coros
  <2>2. ASSUME NEW d \in Coros, Live(d), d # c PROVE thread[d] # thread[c]
    <3> SUFFICES ASSUME thread[d] = thread[c] PROVE FALSE
      OBVIOUS
    <3>1. c \notin Plain /\ d \notin Plain
      BY CallersAssumption DEF Coros
    <3>2. maker[c] \in Plain /\ maker[d] = maker[c]
      BY <1>4, <2>2, <3>1 DEF IInv, ThreadInv
    <3>3. Pending(c) /\ Pending(d)
      BY <1>4, <2>2 DEF Pending, Live
    <3> QED
      BY <2>2, <3>2, <3>3 DEF IInv, ParentInv
  <2> QED
    BY <1>1, <1>4, <2>1, <2>2 DEF IInv, LoopInv
<1>8. WorkerInv'
  BY <1>1, <1>4 DEF IInv, WorkerInv, TypeInv
<1>9. RunsInv'
  BY <1>1, <1>4 DEF IInv, RunsInv
<1> QED
  BY <1>3, <1>5, <1>6, <1>7, <1>8, <1>9 DEF IInv

\* Workers that end, and steps that change nothing here.
LEMMA FewerWorkersIInv ==
  ASSUME IInv, workers' \subseteq workers, UNCHANGED <<stage, maker, thread, loop, result, runs>>
  PROVE  IInv'
<1>1. \A c \in Coros : (Pending(c)' <=> Pending(c)) /\ (Live(c)' <=> Live(c))
  BY DEF Pending, Live
<1>2. TypeInv'
  BY DEF IInv, TypeInv
<1>3. ParentInv'
  BY <1>1 DEF IInv, ParentInv
<1>4. ThreadInv' /\ LoopInv'
  BY <1>1 DEF IInv, ThreadInv, LoopInv
<1>5. WorkerInv'
  BY <1>1 DEF IInv, TypeInv, WorkerInv
<1>6. RunsInv'
  BY <1>1 DEF IInv, RunsInv
<1> QED
  BY <1>2, <1>3, <1>4, <1>5, <1>6 DEF IInv

LEMMA EndWorkerIInv == ASSUME IInv, NEW c \in Coros, EndWorker(c) PROVE IInv'
  BY FewerWorkersIInv DEF EndWorker

LEMMA ReturnIInv == ASSUME IInv, NEW c \in Coros, Return(c) PROVE IInv'
<1>1. /\ stage[c] = "ended" /\ c \notin workers
      /\ stage' = [stage EXCEPT ![c] = "returned"]
      /\ UNCHANGED <<maker, thread, target, loop, workers, result, runs>>
  BY DEF Return
<1>2. TypeInv'
  BY <1>1 DEF IInv, TypeInv
<1>3. /\ \A d \in Coros : (Live(d)' <=> Live(d)) /\ (stage[d] = "running" => stage'[d] = "running")
      /\ \A d \in Coros : d # c => (Pending(d)' <=> Pending(d)) /\ stage'[d] = stage[d]
      /\ ~Pending(c)' /\ stage'[c] = "returned"
  BY <1>1 DEF IInv, TypeInv, Pending, Live
<1>4. ParentInv'
  BY <1>1, <1>3 DEF IInv, ParentInv
<1>5. ThreadInv' /\ LoopInv'
  BY <1>1, <1>3 DEF IInv, ThreadInv, LoopInv
<1>6. WorkerInv'
  BY <1>1, <1>3 DEF IInv, WorkerInv, TypeInv
<1>7. RunsInv'
  BY <1>1, <1>3 DEF IInv, RunsInv
<1> QED
  BY <1>2, <1>4, <1>5, <1>6, <1>7 DEF IInv

\* In every state a coroutine is on its call's worker or on a thread that had no loop, and the
\* loops and workers are those of the calls in progress (run_coro_sync's two paths).
THEOREM Placement == BridgeSpec => []IInv
<1>1. IInv /\ [BridgeNext]_bridgeVars => IInv'
  <2> SUFFICES ASSUME IInv, [BridgeNext]_bridgeVars PROVE IInv'
    OBVIOUS
  <2>1. ASSUME NEW c \in Coros, Call(c) \/ Await(c) PROVE IInv'
    BY <2>1, CallIInv, AwaitIInv
  <2>2. ASSUME NEW c \in Coros, Proceed(c) PROVE IInv'
    BY <2>2, RunHereIInv, SubmitIInv, RunOnWorkerIInv, AnswerIInv, EndIInv, EndWorkerIInv,
       ReturnIInv DEF Proceed
  <2>3. CASE UNCHANGED bridgeVars
    BY <2>3, FewerWorkersIInv DEF bridgeVars
  <2> QED
    BY <2>1, <2>2, <2>3 DEF BridgeNext
<1> QED
  BY <1>1, InitIInv, PTL DEF BridgeSpec

-----------------------------------------------------------------------------
(* Theorems *)

\* asyncio.run never refuses: the coroutine of a call that is over was awaited exactly once,
\* or not at all when no thread could be started for it.
THEOREM CoroutineAwaitedOnce == BridgeSpec => []AwaitedOnce
<1>1. IInv => AwaitedOnce
  BY DEF IInv, RunsInv, AwaitedOnce, Done
<1> QED
  BY <1>1, Placement, PTL

\* Every worker and every loop belongs to a call in progress, however deep calls are nested.
THEOREM LeavesNothingBehind == BridgeSpec => []NothingLeftBehind
<1>1. IInv => NothingLeftBehind
  BY DEF IInv, WorkerInv, LoopInv, NothingLeftBehind, Live
<1> QED
  BY <1>1, Placement, PTL
====================================================================================
