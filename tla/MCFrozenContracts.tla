------------------------------- MODULE MCFrozenContracts -------------------------------
(***************************************************************************)
(* A model of FrozenContracts: of each contract some candidates that its   *)
(* validators accept, and some that fail by each of their rules.           *)
(***************************************************************************)
EXTENDS FrozenContracts, TLC

MCProofs ==
  [kind : {"proof"}, proof : {"model_import", "schema_validation", "file_exists", "command", "test_passes"},
   given : {{}, {"model_path"}, {"model_path", "artifact_path", "command"}}, prBound : BOOLEAN]
MCBackends == [{"default"} -> {[default |-> 1, hard |-> 2], [default |-> 2, hard |-> 1]}]
MCProvenances == [kind : {"provenance"}, traces : {{}, {"branch"}}]
MCSpec == [kind |-> "spec", ticket |-> "OMN-1", migration |-> None, summary |-> "s", legacy |-> None,
           names |-> {"n"}, surfaces |-> {"r"}, criteria |-> {"c"}, proofs |-> {}, provenance |-> {}]
MCSpecs ==
  {[MCSpec EXCEPT !.proofs = {p}, !.provenance = {v}] : p \in MCProofs, v \in MCProvenances}
  \cup {[MCSpec EXCEPT !.ticket = t, !.migration = g] : t \in {"OMN-1", "1"}, g \in {None, "1", "OMN-2"}}
MCInstances ==
  {[kind |-> "policy", roles |-> r, fallback |-> f] : r \in {{}, {"fixer"}}, f \in {None, "m"}}
  \cup {[kind |-> "learning", context |-> c, outcome |-> o, failure |-> f] :
          c \in {{}, {"repo"}}, o \in {"success", "failure"}, f \in {None, "flake"}}
  \cup {[kind |-> "decision", retry |-> r, fallback |-> f] : r \in {"none", "fallback_model"}, f \in {None, "", "m"}}
  \cup {[kind |-> "readiness", fresh |-> s, reason |-> r, gaps |-> g] : s \in {"CURRENT", "DEGRADED"},
          r \in BOOLEAN, g \in {"STALE" :> 1, "STALE" :> -1 @@ "MISSING" :> 0}}
  \cup {[kind |-> "trace", fresh |-> s, reason |-> FALSE, events |-> e, last |-> n] :
          s \in {"CURRENT", "DEGRADED"}, e \in {<<>>, <<1, 2>>, <<2, 1>>}, n \in {1, 2}}
  \cup {[kind |-> "pricing", models |-> m, baseline |-> "m"] : m \in {{}, {"m", "n"}, {"n"}}}
  \cup {[kind |-> "profile", backends |-> b] : b \in MCBackends}
  \cup MCProofs
  \cup MCSpecs
  \cup {[kind |-> "chain", events |-> e] : e \in {<<>>, <<1, 2>>, <<2, 1>>}}
  \cup {[kind |-> "dashboard", fresh |-> s, reason |-> r] : s \in {"CURRENT", "DEGRADED"}, r \in BOOLEAN}
  \cup MCProvenances
  \cup {[kind |-> "secret", raw |-> r] : r \in {None, "x"}}
====================================================================================
