--------------------------------- MODULE MCConcurrency ---------------------------------
(***************************************************************************)
(* A model of what the package does across threads: @idempotent_register   *)
(* and run_coro_sync.  They share no state, so one of them is active in an *)
(* execution and the other rests.                                          *)
(*                                                                         *)
(* Of the decorator: two decorated functions, the body of the first may    *)
(* call the second, and three key objects, two of which print alike.  Of   *)
(* run_coro_sync: three calls, enough for a call inside a call inside a    *)
(* call, and for two loops that are blocked for each other while a third   *)
(* thread goes on.                                                         *)
(***************************************************************************)
EXTENDS IdempotentRegister, RunCoroSync

CONSTANTS outer, inner, int1, str1, other, k1, k2

VARIABLE active

MCFns == {outer, inner}
MCObjs == {int1, str1, other}
MCKeys == {k1, k2}
MCStr == [o \in MCObjs |-> IF o = other THEN k2 ELSE k1]
MCMayCall == {<<outer, inner>>}

MCInit == active \in {"register", "bridge"} /\ Init /\ BridgeInit

\* Coroutines and blocked loops may wait for each other for ever; calls of the decorator may
\* not, and there a state without a step is an error.
MCNext ==
  \/ active = "register" /\ Next /\ UNCHANGED <<active, bridgeVars>>
  \/ active = "bridge" /\ BridgeNext /\ UNCHANGED <<active, vars>>
  \/ active = "bridge" /\ UNCHANGED <<active, vars, bridgeVars>>

MCConcurrencySpec ==
  /\ MCInit /\ [][MCNext]_<<active, vars, bridgeVars>>
  /\ \A c \in Calls : WF_vars(Step(c))
  /\ \A c \in Coros : WF_bridgeVars(Proceed(c))
====================================================================================
