---------------------------------- MODULE RunCoroSync ----------------------------------
(***************************************************************************)
(* concurrency/util_run_coro_sync.py: run_coro_sync called on threads with *)
(* and without a running loop, and again by the coroutines it runs.        *)
(*                                                                         *)
(* What a coroutine does is external: it calls run_coro_sync (a handler's  *)
(* __init__ does, inside the coroutine that wires it), awaits something    *)
(* that only the loop of another thread can give, returns or raises.  The  *)
(* worker thread of a call goes by the name of the call.                   *)
(***************************************************************************)
EXTENDS Naturals, FiniteSets

CONSTANTS
  MaxCalls,    \* bounds the calls, which are numbered in the order they are made
  Loops,       \* threads with a loop that runs as long as the process
  Plain,       \* threads without one
  Nobody,
  MaxWorkers   \* threads that can still be started

\* Numbered calls stand for their worker threads, beside the process's own.
ASSUME CallersAssumption ==
  /\ MaxCalls \in Nat /\ MaxWorkers \in Nat
  /\ Loops \cap Plain = {}
  /\ (1..MaxCalls) \cap (Loops \cup Plain \cup {Nobody}) = {}
  /\ Nobody \notin Loops \cup Plain

VARIABLES
  stage,    \* stage[c]: where call c is
  maker,    \* maker[c]: the thread, or the call of the coroutine, that made it
  thread,   \* thread[c]: the thread its coroutine is run on
  target,   \* target[c]: the loop its coroutine awaits something from
  loop,     \* the threads with a running loop
  workers,  \* the worker threads
  result,   \* result[c]: "value" or "error" of its coroutine, or why that was not run
  runs      \* runs[c]: how often its coroutine was started

Coros == 1..MaxCalls

bridgeVars == <<stage, maker, thread, target, loop, workers, result, runs>>

Done(c) == stage[c] = "returned"
Pending(c) == stage[c] \notin {"idle", "returned"}
Blocked(caller) == \E c \in Coros : maker[c] = caller /\ Pending(c)
From(c) == IF maker[c] \in Coros THEN thread[maker[c]] ELSE maker[c]

BridgeInit ==
  /\ stage = [c \in Coros |-> "idle"]
  /\ maker = [c \in Coros |-> Nobody] /\ thread = maker /\ target = maker /\ result = maker
  /\ loop = Loops /\ workers = {}
  /\ runs = [c \in Coros |-> 0]

Call(c) ==
  /\ stage[c] = "idle" /\ \A d \in 1..(c - 1) : stage[d] # "idle"
  /\ stage' = [stage EXCEPT ![c] = "called"]
  /\ \E caller \in Loops \cup Plain \cup {d \in Coros : stage[d] = "running"} :
       ~Blocked(caller) /\ maker' = [maker EXCEPT ![c] = caller]
  /\ UNCHANGED <<thread, target, loop, workers, result, runs>>

\* asyncio.run refuses a thread with a running loop.
AsyncioRun(c, t) ==
  \/ /\ t \in loop
     /\ stage' = [stage EXCEPT ![c] = "ended"] /\ result' = [result EXCEPT ![c] = "refused"]
     /\ UNCHANGED <<thread, loop, runs>>
  \/ /\ t \notin loop
     /\ stage' = [stage EXCEPT ![c] = "running"] /\ thread' = [thread EXCEPT ![c] = t]
     /\ loop' = loop \cup {t} /\ runs' = [runs EXCEPT ![c] = @ + 1]
     /\ UNCHANGED result

InRunningLoopPolicy(c) == From(c) \in Loops   \* mutant: the loop of a worker or a cheap path is not seen

\* asyncio.get_running_loop does not raise.
InRunningLoop(c) == From(c) \in loop

RunHere(c) ==
  /\ stage[c] = "called" /\ ~InRunningLoop(c)
  /\ AsyncioRun(c, From(c))
  /\ UNCHANGED <<maker, target, workers>>

\* The pool starts its thread, or cannot and the coroutine is never awaited.
Submit(c) ==
  /\ stage[c] = "called" /\ InRunningLoop(c)
  /\ IF Cardinality(workers) < MaxWorkers
     THEN /\ workers' = workers \cup {c}
          /\ stage' = [stage EXCEPT ![c] = "submitted"] /\ UNCHANGED result
     ELSE /\ result' = [result EXCEPT ![c] = "no thread"]
          /\ stage' = [stage EXCEPT ![c] = "ended"] /\ UNCHANGED workers
  /\ UNCHANGED <<maker, thread, target, loop, runs>>

RunOnSharedWorker(c) ==   \* mutant: one pool of one worker for the process
  /\ stage[c] = "submitted" /\ \A d \in workers : stage[d] \in {"submitted", "ended"}
  /\ AsyncioRun(c, c)
  /\ UNCHANGED <<maker, target, workers>>

RunOnWorker(c) ==
  /\ stage[c] = "submitted"
  /\ AsyncioRun(c, c)
  /\ UNCHANGED <<maker, target, workers>>

\* The coroutine awaits what a task on a thread's loop has to give ...
Await(c) ==
  /\ stage[c] = "running" /\ ~Blocked(c) /\ target[c] = Nobody
  /\ \E t \in Loops : target' = [target EXCEPT ![c] = t]
  /\ stage' = [stage EXCEPT ![c] = "awaiting"]
  /\ UNCHANGED <<maker, thread, loop, workers, result, runs>>

\* ... and has it once that loop is not blocked by a call.
Answer(c) ==
  /\ stage[c] = "awaiting" /\ ~Blocked(target[c])
  /\ stage' = [stage EXCEPT ![c] = "running"]
  /\ UNCHANGED <<maker, thread, target, loop, workers, result, runs>>

\* The coroutine returns or raises, and asyncio.run closes the loop.
End(c) ==
  /\ stage[c] = "running" /\ ~Blocked(c)
  /\ stage' = [stage EXCEPT ![c] = "ended"] /\ loop' = loop \ {thread[c]}
  /\ \E r \in {"value", "error"} : result' = [result EXCEPT ![c] = r]
  /\ UNCHANGED <<maker, thread, target, workers, runs>>

\* The pool is shut down by the with statement, and its thread ends.
EndWorker(c) ==
  /\ stage[c] = "ended" /\ c \in workers
  /\ workers' = workers \ {c}
  /\ UNCHANGED <<stage, maker, thread, target, loop, result, runs>>

ReturnAtOnce(c) ==   \* mutant: the pool is not joined
  /\ stage[c] = "ended" /\ stage' = [stage EXCEPT ![c] = "returned"]
  /\ UNCHANGED <<maker, thread, target, loop, workers, result, runs>>

Return(c) ==
  /\ stage[c] = "ended" /\ c \notin workers
  /\ stage' = [stage EXCEPT ![c] = "returned"]
  /\ UNCHANGED <<maker, thread, target, loop, workers, result, runs>>

\* What threads do without being asked by the caller's code again.
Proceed(c) ==
  RunHere(c) \/ Submit(c) \/ RunOnWorker(c) \/ Answer(c) \/ End(c) \/ EndWorker(c) \/ Return(c)

BridgeNext == \E c \in Coros : Call(c) \/ Await(c) \/ Proceed(c)

\* The operating system runs every thread; a coroutine that waits for nothing ends.
BridgeSpec == BridgeInit /\ [][BridgeNext]_bridgeVars /\ \A c \in Coros : WF_bridgeVars(Proceed(c))
-----------------------------------------------------------------------------
\* c cannot return before d: d was made by its coroutine, or blocks the loop it awaits.
WaitsFor(c, d) ==
  /\ Pending(c) /\ Pending(d)
  /\ maker[d] = c \/ (stage[c] = "awaiting" /\ maker[d] = target[c])

\* c is one of a set of calls each of which waits for another of them: the way into a circle.
Entangled(c) ==
  \E S \in SUBSET Coros : c \in S /\ \A d \in S : \E e \in S : WaitsFor(d, e)

\* Safe on a thread with a running loop and on one without: asyncio.run never refuses, and the
\* coroutine of a call that is over was awaited exactly once, or not at all when no thread
\* could be started (util_run_coro_sync.py: "the coroutine is awaited exactly once").
AwaitedOnce ==
  \A c \in Coros : Done(c) =>
    \/ result[c] \in {"value", "error"} /\ runs[c] = 1
    \/ result[c] = "no thread" /\ runs[c] = 0 /\ maker[c] \notin Plain

\* No worker outlives its call, however deep the calls are nested, and no loop its coroutine.
NothingLeftBehind ==
  /\ \A c \in workers : Pending(c)
  /\ loop = Loops \cup {thread[c] : c \in {d \in Coros : stage[d] \in {"running", "awaiting"}}}

\* Every call ends, unless coroutines and the loops blocked for them wait for each other in a
\* circle: blocking a running loop is the only way not to return.
ReturnsUnlessEntangled == \A c \in Coros : Pending(c) ~> (Done(c) \/ Entangled(c))
====================================================================================
