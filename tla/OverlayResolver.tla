-------------------------------- MODULE OverlayResolver --------------------------------
(***************************************************************************)
(* config/overlay_resolver.py and env/util_is_strict_mode.py: threads      *)
(* resolve endpoint URLs and the strict flag from an overlay document      *)
(* whose values may be ${env.VAR} tokens, while the environment changes.   *)
(* The URLs of the packaged document go through lru_cache(maxsize=1).      *)
(*                                                                         *)
(* A document is [readable, known, fields]: whether it is a JSON object,   *)
(* whether it has the model's keys and no other, and its values by field:  *)
(* endpoint names, Required ones and Flag.  A value is a string, a member  *)
(* of Vars (the token of that variable) or Unset (None).                   *)
(***************************************************************************)
EXTENDS Naturals, FiniteSets

CONSTANTS
  Threads, Names, Flag, Vars, Unset, NoEntry,
  Required,     \* fields that must have a string, and are no endpoints: schema_version
  Values,       \* what the environment may hold
  Packaged,     \* the documents the package may ship with
  Given,        \* the document behind an overlay_path
  MaxCalls,     \* bounds the calls
  MaxChanges    \* bounds the changes of the environment

ASSUME NamesAssumption == Flag \notin Names \cup Required

VARIABLES
  document, env,
  cache,        \* the one entry of _cached_endpoint_url: [name, url] or NoEntry
  call,         \* call[t]: the current or last call of a thread
  calls, changes,
  ever          \* ever[f]: the values field f of the packaged document has had so far

vars == <<document, env, cache, call, calls, changes, ever>>

Interpolate(v) == IF v \in Vars THEN env[v] ELSE v

Doc(c) == IF c.packaged THEN document ELSE Given

Idle == [state |-> "idle", field |-> Flag, packaged |-> TRUE, todo |-> {}, got |-> <<>>, seen |-> <<>>,
         result |-> Unset]

ResolverInit ==
  /\ document \in Packaged
  /\ env \in [Vars -> Values]
  /\ cache = NoEntry
  /\ call = [t \in Threads |-> Idle]
  /\ calls = 0 /\ changes = 0
  /\ ever = [f \in DOMAIN document.fields |-> {Interpolate(document.fields[f])}]

HitsAnyPath(c) == cache # NoEntry /\ c.field = cache.name           \* mutant: overlay_path is no bypass

Hits(c) == cache # NoEntry /\ c.packaged /\ c.field = cache.name

\* is_strict_mode: the literal "1" and nothing else.
IsStrictMode(raw) == IF raw = "1" THEN "strict" ELSE "lenient"

\* What a call makes of its field's value.
Answer(field, v) == IF field = Flag THEN IsStrictMode(v) ELSE v

\* resolve_endpoint_url, or is_strict_mode by resolve_autowire_strict_raw: the cache answers,
\* or the document is read.
Call(t) ==
  /\ call[t].state # "loading" /\ calls < MaxCalls
  /\ calls' = calls + 1
  /\ \E f \in Names \cup {Flag}, packaged \in BOOLEAN :
       LET c == [Idle EXCEPT !.field = f, !.packaged = packaged]
           fields == Doc(c).fields
       IN  call' = [call EXCEPT ![t] =
             IF Hits(c) THEN [c EXCEPT !.state = "returned", !.result = cache.url]
             ELSE IF ~Doc(c).readable THEN [c EXCEPT !.state = "raised"]
             ELSE [c EXCEPT !.state = "loading", !.got = fields,
                            !.todo = {g \in DOMAIN fields : fields[g] \in Vars},
                            !.seen = [g \in DOMAIN fields |-> {Interpolate(fields[g])}]]]
  /\ UNCHANGED <<document, env, cache, changes, ever>>

\* _interpolate on the next token of the tree; a literal is returned as it is.
Read(t) ==
  /\ call[t].state = "loading"
  /\ \E f \in call[t].todo :
       call' = [call EXCEPT ![t].todo = @ \ {f},
                            ![t].got[f] = Interpolate(Doc(call[t]).fields[f])]
  /\ UNCHANGED <<document, env, cache, calls, changes, ever>>

InvalidAnyUnset(c) ==   \* mutant: the flag is required too
  ~Doc(c).known \/ \E f \in DOMAIN c.got : c.got[f] = Unset

\* ModelCompatRuntimeOverlay.model_validate: every declared endpoint must have its URL, and
\* the document its version.
Invalid(c) ==
  ~Doc(c).known \/ \E f \in DOMAIN c.got \cap (Names \cup Required) : c.got[f] = Unset

\* lru_cache: a key that another thread has entered in the meantime stays as it is.
Store(c) ==
  IF c.packaged /\ c.field \in Names /\ ~Hits(c)
  THEN cache' = [name |-> c.field, url |-> c.got[c.field]]
  ELSE UNCHANGED cache

Raise(t) ==
  /\ call[t].state = "loading" /\ call[t].todo = {}
  /\ Invalid(call[t]) \/ call[t].field \notin DOMAIN call[t].got
  /\ call' = [call EXCEPT ![t].state = "raised", ![t].got = <<>>]
  /\ UNCHANGED <<document, env, cache, calls, changes, ever>>

Return(t) ==
  /\ call[t].state = "loading" /\ call[t].todo = {}
  /\ ~Invalid(call[t]) /\ call[t].field \in DOMAIN call[t].got
  /\ call' = [call EXCEPT ![t].state = "returned", ![t].got = <<>>,
                          ![t].result = Answer(call[t].field, call[t].got[call[t].field])]
  /\ Store(call[t])
  /\ UNCHANGED <<document, env, calls, changes, ever>>

\* os.environ is changed by the process itself.
SetEnv ==
  /\ changes < MaxChanges /\ changes' = changes + 1
  /\ \E v \in Vars, val \in Values : env' = [env EXCEPT ![v] = val]
  /\ LET now(d, f) == IF d.fields[f] \in Vars THEN {env'[d.fields[f]]} ELSE {}
     IN  /\ ever' = [f \in DOMAIN ever |-> ever[f] \cup now(document, f)]
         /\ call' = [t \in Threads |-> [call[t] EXCEPT !.seen =
                       [f \in DOMAIN @ |-> @[f] \cup now(Doc(call[t]), f)]]]
  /\ UNCHANGED <<document, cache, calls>>

ResolverStep(t) == Read(t) \/ Raise(t) \/ Return(t)

-----------------------------------------------------------------------------
\* A result is a value that its own field had: from the packaged document's cache, at some
\* moment of the process; otherwise (the flag, an overlay_path, a miss) at some moment of the
\* call, whatever else changed while the document was being interpolated.
ResultWasDeclared ==
  \A t \in Threads : LET c == call[t] IN
    c.state = "returned" =>
      IF c.seen = <<>> THEN c.packaged /\ c.field \in Names /\ c.result \in ever[c.field]
      ELSE \E v \in c.seen[c.field] : c.result = Answer(c.field, v)

\* A call fails only for a cause that lay in its own time: a document that cannot be used, a
\* field that is not declared, or an endpoint or version whose variable was unset at some moment
\* of the call.  No failure is remembered, and an unset flag is none.
FailureHasCause ==
  \A t \in Threads : LET c == call[t] IN
    c.state = "raised" =>
      \/ ~Doc(c).readable \/ ~Doc(c).known \/ c.field \notin DOMAIN Doc(c).fields
      \/ \E f \in DOMAIN c.seen \cap (Names \cup Required) : Unset \in c.seen[f]

\* Claimed of _cached_endpoint_url ("stable per process"), and false: two lookups of the same
\* endpoint of the packaged document that returned agree on its URL.
StablePerProcess ==
  \A t, u \in Threads : LET c == call[t]  d == call[u] IN
    /\ c.state = "returned" /\ c.packaged /\ c.field \in Names
    /\ d.state = "returned" /\ d.packaged /\ d.field = c.field
    => c.result = d.result
====================================================================================
