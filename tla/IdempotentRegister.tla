--------------------------- MODULE IdempotentRegister ---------------------------
(***************************************************************************)
(* The decorator @idempotent_register                                      *)
(* (registration/decorator_idempotent_register.py) under concurrent and    *)
(* nested calls.                                                           *)
(*                                                                         *)
(* A call is one invocation of a decorated function.  Calls with no parent *)
(* come from threads of their own; a call with a parent is made by the     *)
(* body of the parent's function, either directly or on the worker thread  *)
(* of a run_coro_sync the body blocks on.  Both are the same to the        *)
(* decorator: its threading.Lock is not re-entrant, so it does not matter  *)
(* which thread asks for it.  The functions are external code; what the    *)
(* decorator can see of a body is that it calls others, takes effect on    *)
(* the registry, returns or raises.                                        *)
(***************************************************************************)
EXTENDS Naturals

CONSTANTS
  Calls,    \* invocations; each is made at most once, a retry is another one
  Fns,      \* decorated functions, each with its own lock and seen-set
  Objs,     \* values the key is extracted as, before str()
  Keys,     \* their str() images
  Str,      \* Str[o]: str(o); distinct objects may have equal images
  MayCall,  \* <<f, g>>: the body of f may call g while f's lock is held
  None      \* no call, no request

ASSUME StrAssumption == Str \in [Objs -> Keys]
ASSUME MayCallAssumption == MayCall \subseteq Fns \X Fns
ASSUME NoneAssumption ==
  None \notin Calls \cup [fn : Fns, obj : Objs] \cup [fn : Fns, key : Keys]

VARIABLES
  pc,       \* pc[c]: where call c is in the wrapper
  request,  \* request[c]: the decorated function and the extracted key object
  parent,   \* parent[c]: the call whose function body made call c
  lock,     \* lock[f]: the call that holds f's lock
  seen,     \* seen[f]: f's seen-set
  applied,  \* history: the calls whose body took effect on the registry
  outcome   \* outcome[c]: what the wrapper hands back to its caller

vars == <<pc, request, parent, lock, seen, applied, outcome>>

\* The wrapper holds the lock of its function in these places.
Held == {"checking", "running", "applied", "leaving"}
Places == {"idle", "rejected", "waiting", "done"} \cup Held
InBody == {"running", "applied"}
Outcomes == {"none", "registered", "skipped", "raised"}

Fn(c) == request[c].fn
Key(c) == Str[request[c].obj]

Active(c) == pc[c] \notin {"idle", "rejected", "done"}

\* A body that called another decorated function waits for it to return.
Suspended(c) == \E d \in Calls : parent[d] = c /\ Active(d)

Goto(c, from, to) ==
  /\ pc[c] = from
  /\ pc' = [pc EXCEPT ![c] = to]

Init ==
  /\ pc = [c \in Calls |-> "idle"]
  /\ request = [c \in Calls |-> None]
  /\ parent = [c \in Calls |-> None]
  /\ lock = [f \in Fns |-> None]
  /\ seen = [f \in Fns |-> {}]
  /\ applied = {}
  /\ outcome = [c \in Calls |-> "none"]

\* Who may call f now: a thread, or a running body that is not itself waiting.
Caller(p, f) ==
  \/ p = None
  \/ /\ p \in Calls
     /\ pc[p] \in InBody
     /\ ~Suspended(p)
     /\ <<Fn(p), f>> \in MayCall

\* The wrapper is entered and the key extracted: path 1 or path 2 gives o.
Enter(c, f, o, p) ==
  /\ Caller(p, f)
  /\ Goto(c, "idle", "waiting")
  /\ request' = [request EXCEPT ![c] = [fn |-> f, obj |-> o]]
  /\ parent' = [parent EXCEPT ![c] = p]
  /\ UNCHANGED <<lock, seen, applied, outcome>>

\* The call does not bind, has no positional argument to read the attribute
\* from, or that argument lacks it: TypeError before the lock is touched.
Reject(c) ==
  /\ Goto(c, "idle", "rejected")
  /\ outcome' = [outcome EXCEPT ![c] = "raised"]
  /\ UNCHANGED <<request, parent, lock, seen, applied>>

\* Mutant: the duplicate check is not serialised.
AcquireUnguarded(c) ==
  /\ Goto(c, "waiting", "checking")
  /\ lock' = [lock EXCEPT ![Fn(c)] = c]
  /\ UNCHANGED <<request, parent, seen, applied, outcome>>

Acquire(c) ==
  /\ Goto(c, "waiting", "checking")
  /\ lock[Fn(c)] = None
  /\ lock' = [lock EXCEPT ![Fn(c)] = c]
  /\ UNCHANGED <<request, parent, seen, applied, outcome>>

Skip(c) ==
  /\ Goto(c, "checking", "leaving")
  /\ Key(c) \in seen[Fn(c)]
  /\ outcome' = [outcome EXCEPT ![c] = "skipped"]
  /\ UNCHANGED <<request, parent, lock, seen, applied>>

\* Mutant: the key is recorded before the body runs.
InvokeMarksSeen(c) ==
  /\ Goto(c, "checking", "running")
  /\ Key(c) \notin seen[Fn(c)]
  /\ seen' = [seen EXCEPT ![Fn(c)] = @ \cup {Key(c)}]
  /\ UNCHANGED <<request, parent, lock, applied, outcome>>

Invoke(c) ==
  /\ Goto(c, "checking", "running")
  /\ Key(c) \notin seen[Fn(c)]
  /\ UNCHANGED <<request, parent, lock, seen, applied, outcome>>

\* The body changes the registry it was called on.
TakeEffect(c) ==
  /\ ~Suspended(c)
  /\ Goto(c, "running", "applied")
  /\ applied' = applied \cup {c}
  /\ UNCHANGED <<request, parent, lock, seen, outcome>>

\* Mutant: the key object is recorded, not the string that is looked up.
ReturnAddsObject(c) ==
  /\ ~Suspended(c)
  /\ Goto(c, "applied", "leaving")
  /\ seen' = [seen EXCEPT ![Fn(c)] = @ \cup {request[c].obj}]
  /\ outcome' = [outcome EXCEPT ![c] = "registered"]
  /\ UNCHANGED <<request, parent, lock, applied>>

\* fn returned; seen.add(key_str) and return result follow under the lock.
FnReturn(c) ==
  /\ ~Suspended(c)
  /\ Goto(c, "applied", "leaving")
  /\ seen' = [seen EXCEPT ![Fn(c)] = @ \cup {Key(c)}]
  /\ outcome' = [outcome EXCEPT ![c] = "registered"]
  /\ UNCHANGED <<request, parent, lock, applied>>

\* fn raised, before or after it took effect (an exception of its own, or an
\* interrupt delivered before seen.add): the exception passes through the with
\* block and seen is left alone.
FnRaise(c) ==
  /\ ~Suspended(c)
  /\ \E place \in InBody : Goto(c, place, "leaving")
  /\ outcome' = [outcome EXCEPT ![c] = "raised"]
  /\ UNCHANGED <<request, parent, lock, seen, applied>>

\* Mutant: lock.acquire() and lock.release() instead of a with block.
ReleaseUnlessRaised(c) ==
  /\ Goto(c, "leaving", "done")
  /\ lock' = [lock EXCEPT ![Fn(c)] = IF outcome[c] = "raised" THEN @ ELSE None]
  /\ UNCHANGED <<request, parent, seen, applied, outcome>>

\* The with block is left, by return or by exception.
Release(c) ==
  /\ Goto(c, "leaving", "done")
  /\ lock' = [lock EXCEPT ![Fn(c)] = None]
  /\ UNCHANGED <<request, parent, seen, applied, outcome>>

Step(c) ==
  \/ Acquire(c)
  \/ Skip(c)
  \/ Invoke(c)
  \/ TakeEffect(c)
  \/ FnReturn(c)
  \/ FnRaise(c)
  \/ Release(c)

Finished ==
  /\ \A c \in Calls : pc[c] \in {"done", "rejected"}
  /\ UNCHANGED vars

Next ==
  \/ \E c \in Calls, f \in Fns, o \in Objs, p \in Calls \cup {None} : Enter(c, f, o, p)
  \/ \E c \in Calls : Reject(c) \/ Step(c)
  \/ Finished

Spec == Init /\ [][Next]_vars

\* A thread that can go on does, and a body that is not waiting for a nested
\* call ends.  No call has to be made.
FairSpec == Spec /\ \A c \in Calls : WF_vars(Step(c))

-----------------------------------------------------------------------------
(* Properties *)

\* Every variable has the values the wrapper gives it; in particular the
\* seen-sets hold the strings the membership test looks up.
TypeOK ==
  /\ pc \in [Calls -> Places]
  /\ request \in [Calls -> [fn : Fns, obj : Objs] \cup {None}]
  /\ parent \in [Calls -> Calls \cup {None}]
  /\ lock \in [Fns -> Calls \cup {None}]
  /\ seen \in [Fns -> SUBSET Keys]
  /\ applied \subseteq Calls
  /\ outcome \in [Calls -> Outcomes]

Entered(c) == request[c] # None
SameKey(c, d) == Entered(c) /\ Entered(d) /\ Fn(c) = Fn(d) /\ Key(c) = Key(d)

\* Whatever the threads, a registration takes effect a second time only when
\* all but one of the calls that applied it raised: a completed or running
\* registration is never repeated.
AppliedOnce ==
  \A c, d \in applied :
    SameKey(c, d) /\ outcome[c] # "raised" /\ outcome[d] # "raised" => c = d

\* The seen-set of f is exactly the keys whose registration completed: no key
\* is closed by a call that raised or is still running, and none is forgotten.
SeenIsRegistered ==
  \A f \in Fns :
    seen[f] = {Key(c) : c \in {d \in Calls : outcome[d] = "registered" /\ Fn(d) = f}}

\* The wrapper implements the atomic register-once promise.
Once == INSTANCE RegisterOnce WITH
  NoRequest <- None,
  request <- [c \in Calls |-> IF Entered(c) THEN [fn |-> Fn(c), key |-> Key(c)] ELSE None],
  result <- [c \in Calls |-> IF Entered(c) THEN outcome[c] ELSE "none"],
  registered <- seen

ImplementsRegisterOnce == Once!Spec

\* As long as bodies call each other in a fixed order (MayCall has no cycle),
\* every call that enters the wrapper leaves it, whoever raises on the way.
EveryCallLeaves == \A c \in Calls : (pc[c] = "waiting") ~> (pc[c] = "done")
=============================================================================
