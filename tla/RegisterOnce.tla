------------------------------ MODULE RegisterOnce ------------------------------
(***************************************************************************)
(* What @idempotent_register promises its callers, without threads, locks  *)
(* or function bodies: every call is answered in one indivisible step, and *)
(* a decorated function registers a key once.  The promise is the module   *)
(* docstring of decorator_idempotent_register.py (lines 6-9) and its tests;*)
(* IdempotentRegister is shown to implement it.                            *)
(***************************************************************************)
CONSTANTS
  Calls,      \* invocations of decorated functions
  Fns,        \* decorated functions
  Keys,       \* registration keys
  NoRequest   \* a call that has not been made

VARIABLES
  request,    \* request[c]: the function and key of call c
  result,     \* result[c]: how call c was answered
  registered  \* registered[f]: the keys f has registered

vars == <<request, result, registered>>

Results == {"none", "registered", "skipped", "raised"}

Init ==
  /\ request = [c \in Calls |-> NoRequest]
  /\ result = [c \in Calls |-> "none"]
  /\ registered = [f \in Fns |-> {}]

Submit(c, f, k) ==
  /\ request[c] = NoRequest
  /\ request' = [request EXCEPT ![c] = [fn |-> f, key |-> k]]
  /\ UNCHANGED <<result, registered>>

Answer(c, r) ==
  /\ request[c] # NoRequest
  /\ result[c] = "none"
  /\ result' = [result EXCEPT ![c] = r]
  /\ UNCHANGED request

Registers(c) ==
  /\ Answer(c, "registered")
  /\ request[c].key \notin registered[request[c].fn]
  /\ registered' = [registered EXCEPT ![request[c].fn] = @ \cup {request[c].key}]

\* A duplicate is a no-op, and only a key that IS registered is a duplicate.
Skips(c) ==
  /\ Answer(c, "skipped")
  /\ request[c].key \in registered[request[c].fn]
  /\ UNCHANGED registered

\* The function raised: the key is still open, so a later call may register it.
Raises(c) ==
  /\ Answer(c, "raised")
  /\ request[c].key \notin registered[request[c].fn]
  /\ UNCHANGED registered

Next ==
  \E c \in Calls :
    \/ \E f \in Fns, k \in Keys : Submit(c, f, k)
    \/ Registers(c)
    \/ Skips(c)
    \/ Raises(c)

Spec == Init /\ [][Next]_vars
=============================================================================
