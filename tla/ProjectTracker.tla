--------------------------------- MODULE ProjectTracker ---------------------------------
(***************************************************************************)
(* adapters/adapter_project_tracker_linear.py: a client takes its URL from *)
(* its caller or, once, from the overlay, and turns the replies of the     *)
(* tracker (external) into lists of frozen models.                         *)
(*                                                                         *)
(* A reply is an HTTP or JSON failure, or a payload with the depth up to   *)
(* which the expected objects are there ("data", "root", "nodes"), its     *)
(* nodes and whether it also reports errors.  A node has the keys it       *)
(* holds and its team: an id, a malformed value or Unset.                  *)
(***************************************************************************)
EXTENDS OverlayResolver, Sequences

CONSTANTS
  LinearKey,    \* _LINEAR_ENDPOINT_KEY
  Bases,        \* the base_url arguments callers pass
  Replies,
  Ids           \* the ids a team may have

ASSUME TrackerAssumption ==
  LinearKey \in Names /\ \A r \in Replies : r.nodes \in Seq({r.nodes[i] : i \in DOMAIN r.nodes})

VARIABLES
  client,       \* _base_url, or Unset when no client was constructed
  reply,        \* the reply to a list call that just ended
  listing       \* and what the call gave: [state, items]

trackerVars == <<client, reply, listing>>

NoListing == [state |-> "none", items |-> <<>>]

TrackerInit == client = Unset /\ reply = Unset /\ listing = NoListing

ForgetListing == reply' = Unset /\ listing' = NoListing

ConstructAnyway(t) ==   \* mutant: a failed lookup leaves a default
  /\ client' = IF call[t].state = "returned" THEN call[t].result ELSE "default"
  /\ call[t].state \in {"returned", "raised"} /\ call[t].field = LinearKey /\ call[t].packaged
  /\ ForgetListing /\ UNCHANGED vars

\* base_url is missing or empty and the overlay's answer is taken.
ConstructFromOverlay(t) ==
  /\ call[t].state = "returned" /\ call[t].field = LinearKey /\ call[t].packaged
  /\ client' = call[t].result
  /\ ForgetListing /\ UNCHANGED vars

ConstructWithBase ==
  /\ \E base \in Bases : client' = base
  /\ ForgetListing /\ UNCHANGED vars

RequiredKeys(kind) ==
  CASE kind = "teams" -> {"id", "name", "key"}
    [] kind = "issueLabels" -> {"id", "name"}
    [] kind = "workflowStates" -> {"id", "name", "type"}

NestedId(team) == IF team \in Ids THEN team ELSE Unset

\* _extract_nodes: the payload's own errors are not looked at.
Extractable(r) == r.ok /\ r.depth = "nodes"

Raised == [state |-> "raised", items |-> <<>>]

Item(kind, node) ==
  [keys |-> RequiredKeys(kind), team |-> IF kind = "teams" THEN Unset ELSE NestedId(node.team)]

ItemsSkipping(kind, nodes) ==   \* mutant: a malformed node is skipped
  LET Whole(n) == RequiredKeys(kind) \subseteq n.keys
      good == SelectSeq(nodes, Whole)
  IN  [state |-> "returned", items |-> [i \in DOMAIN good |-> Item(kind, good[i])]]

\* One node without a required key makes the whole call raise.
Items(kind, nodes) ==
  IF \A i \in DOMAIN nodes : RequiredKeys(kind) \subseteq nodes[i].keys
  THEN [state |-> "returned", items |-> [i \in DOMAIN nodes |-> Item(kind, nodes[i])]]
  ELSE Raised

\* list_teams, list_issue_labels and list_issue_statuses.
List(kind) ==
  /\ client # Unset
  /\ \E r \in Replies :
       /\ reply' = r
       /\ listing' = IF Extractable(r) THEN Items(kind, r.nodes) ELSE Raised
  /\ UNCHANGED <<client, vars>>

ClientNext == ConstructWithBase \/ \E t \in Threads : ConstructFromOverlay(t)

ListNext == \E kind \in {"teams", "issueLabels", "workflowStates"} : List(kind)

ResolverNext ==
  /\ (\E t \in Threads : Call(t) \/ ResolverStep(t)) \/ SetEnv
  /\ ForgetListing /\ UNCHANGED client

TrackerSpec ==
  (ResolverInit /\ TrackerInit) /\ [][ClientNext \/ ListNext \/ ResolverNext]_<<vars, trackerVars>>

-----------------------------------------------------------------------------
\* A client never has a URL that neither its caller gave nor the packaged overlay declared for
\* the tracker at some moment: a lookup that fails leaves no client
\* (adapter_project_tracker_linear.py: "fail-closed if the endpoint is undeclared").
ClientFailsClosed ==
  client \in Bases \cup {Unset} \cup (IF LinearKey \in DOMAIN ever THEN ever[LinearKey] ELSE {})

\* A list call gives an item for every node of the reply, or raises: a malformed node never
\* shortens a list, and no item has a team that the tracker did not name.
ListingIsWhole ==
  listing.state = "returned" =>
    /\ Len(listing.items) = Len(reply.nodes)
    /\ \A i \in DOMAIN listing.items :
         /\ listing.items[i].keys \subseteq reply.nodes[i].keys
         /\ listing.items[i].team \in {reply.nodes[i].team, Unset}
====================================================================================
