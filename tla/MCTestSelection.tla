------------------------------- MODULE MCTestSelection -------------------------------
(***************************************************************************)
(* Eight of the package's modules, with the entries that                   *)
(* scripts/ci/test_selection_adjacency.yaml gives them (restricted to the  *)
(* eight); the threshold is 3 instead of 5, so that four modules already   *)
(* exceed it.                                                              *)
(***************************************************************************)
EXTENDS TestSelection

CONSTANTS enums, contracts, protocols, adapters, routing, registration, types, config

MCModules == {enums, contracts, protocols, adapters, routing, registration, types, config}
MCAdjacent == MCModules \ {config}
MCReverseDeps ==
  [m \in MCAdjacent |->
     CASE m = enums -> {contracts, protocols, routing, registration}
       [] m = contracts -> {registration}
       [] m = protocols -> {adapters, routing}
       [] m = types -> {contracts}
       [] OTHER -> {}]
MCTestDirs == MCModules \ {enums, types}
MCFiles ==
  {[in |-> "src", of |-> m] : m \in {enums, contracts, protocols, adapters, types, config}}
  \cup {[in |-> "tests", of |-> m] : m \in {types, adapters}}
  \cup {[in |-> where, of |-> config] : where \in {"infra", "other"}}
======================================================================================
