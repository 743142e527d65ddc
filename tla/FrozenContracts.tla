-------------------------------- MODULE FrozenContracts --------------------------------
(***************************************************************************)
(* The validated data contracts: instances of frozen pydantic models, and  *)
(* the in-place edits that their containers still allow.                   *)
(*                                                                         *)
(* An instance has the fields its validators relate, under its kind; the   *)
(* others are left out, and so are edits that break the type of a field.   *)
(***************************************************************************)
EXTENDS Integers, Sequences

CONSTANTS
  Instances,    \* candidate field values, valid or not
  TicketIds,    \* the strings that are ticket ids
  None

VARIABLE instance

\* A degraded projection says why.
Explained(d) == d.fresh = "DEGRADED" => d.reason

ValidPolicy(d) == d.roles # {} => d.fallback # None

ValidLearning(d) == d.context # {} /\ (d.outcome = "failure" <=> d.failure # None)

\* An empty fallback_model is not one, and yet must not be given.
ValidDecision(d) ==
  IF d.retry = "fallback_model" THEN d.fallback \notin {None, ""} ELSE d.fallback = None

ValidReadiness(d) == Explained(d) /\ \A g \in DOMAIN d.gaps : d.gaps[g] >= 0

Ordered(events) == \A i, j \in DOMAIN events : i < j => events[i] <= events[j]

ValidTrace(d) ==
  /\ Ordered(d.events) /\ Explained(d)
  /\ d.events # <<>> => d.last >= d.events[Len(d.events)]

ValidChain(d) == Ordered(d.events)

ValidDashboard(d) == Explained(d)

\* A pricing contract without models need not contain its baseline.
ValidPricing(d) == d.models # {} => d.baseline \in d.models

ValidBackend(b) == b.default <= b.hard

ValidProfile(d) ==
  "default" \in DOMAIN d.backends /\ \A b \in DOMAIN d.backends : ValidBackend(d.backends[b])

RequiredBy(kind) ==
  CASE kind = "model_import" -> {"model_path"}
    [] kind \in {"artifact_validation", "schema_validation"} -> {"model_path", "artifact_path"}
    [] kind = "file_exists" -> {"artifact_path"}
    [] kind = "command" -> {"command"}
    [] OTHER -> {}

\* A proof that speaks of a pull request anywhere is refused.
ValidProof(d) == RequiredBy(d.proof) \subseteq d.given /\ ~d.prBound

ValidProvenance(d) == d.traces # {}

\* The proofs and the provenance of a specification are validated with it.
ValidSpec(d) ==
  /\ d.ticket \in TicketIds /\ d.migration \in TicketIds \cup {None}
  /\ "" \notin {d.summary, d.legacy}
  /\ {} \notin {d.names, d.surfaces, d.criteria, d.proofs}
  /\ \A p \in d.proofs : ValidProof(p)
  /\ \A p \in d.provenance : ValidProvenance(p)

ValidSecret(d) == d.raw = None

Valid(d) ==
  CASE d.kind = "policy" -> ValidPolicy(d)
    [] d.kind = "learning" -> ValidLearning(d)
    [] d.kind = "decision" -> ValidDecision(d)
    [] d.kind = "readiness" -> ValidReadiness(d)
    [] d.kind = "trace" -> ValidTrace(d)
    [] d.kind = "chain" -> ValidChain(d)
    [] d.kind = "dashboard" -> ValidDashboard(d)
    [] d.kind = "pricing" -> ValidPricing(d)
    [] d.kind = "profile" -> ValidProfile(d)
    [] d.kind = "proof" -> ValidProof(d)
    [] d.kind = "provenance" -> ValidProvenance(d)
    [] d.kind = "spec" -> ValidSpec(d)
    [] d.kind = "secret" -> ValidSecret(d)

\* The container types that the models declare for their fields.
Container ==
  [roles |-> "list", context |-> "dict", backends |-> "dict", gaps |-> "mapping", models |-> "mapping",
   events |-> "tuple", names |-> "tuple", surfaces |-> "tuple", criteria |-> "tuple",
   proofs |-> "tuple", provenance |-> "tuple"]

\* _freeze_models_mapping and _freeze_gap_breakdown_mapping: a read-only view of a copy.
ReadOnlyViews == {"models", "gaps"}

Editable(d) ==
  {f \in DOMAIN d \cap DOMAIN Container : Container[f] # "tuple" /\ f \notin ReadOnlyViews}

\* What an in-place edit of one container makes of an instance: the field takes any value of
\* its type, and no validator runs.
Edits(d) ==
  {[d EXCEPT ![f] = e[f]] : f \in Editable(d), e \in {x \in Instances : x.kind = d.kind}}

ContractsInit == instance = None

\* model_validate: an invalid candidate raises.
Construct == \E d \in Instances : Valid(d) /\ instance' = d

\* Assigning to a field raises; a list or dictionary in it can be changed.
Edit == instance # None /\ \E d \in Edits(instance) : instance' = d

ContractsSpec == ContractsInit /\ [][Construct \/ Edit]_instance

-----------------------------------------------------------------------------
\* The kinds whose documentation calls their instances immutable.
Immutable == {"policy", "decision", "pricing", "learning"}

\* Claimed of the routing policy ("immutable") and of the learning record ("immutable once
\* captured"), and false: a declaration that its validators accepted stays one they accept.
DeclarationsStayValid ==
  (instance # None /\ instance.kind \in Immutable) => Valid(instance)
====================================================================================
