--------------------------------- MODULE MCProcessState ---------------------------------
(***************************************************************************)
(* A model of what the package keeps in a process: the overlay's cache and *)
(* its clients, the metadata of classes and artifacts, and a PR body that  *)
(* is parsed and rendered.  They share no state, and what the tracker      *)
(* replies to a client needs nothing of the overlay but its URL, so one    *)
(* part is active in an execution and the others rest.                     *)
(***************************************************************************)
EXTENDS ProjectTracker, SharedMetadata, MCOccStamp, TLC

VARIABLE active

MCSymmetry == Permutations(Threads) \cup Permutations(Readers)

overlayVars == <<vars, trackerVars>>
metadataVars == <<classVars, registryVars>>

MCDoc(readable, known, fields) == [readable |-> readable, known |-> known, fields |-> fields]
MCPackaged ==
  {MCDoc(TRUE, TRUE, "linear" :> "u1" @@ "flag" :> "$A"),
   MCDoc(TRUE, TRUE, "linear" :> "u1" @@ "version" :> "$A" @@ "flag" :> "$A"),
   MCDoc(TRUE, TRUE, "linear" :> "$A" @@ "flag" :> "$A"),
   MCDoc(TRUE, TRUE, "linear" :> "$A" @@ "other" :> "u2" @@ "flag" :> "true"),
   MCDoc(TRUE, FALSE, "linear" :> "u1" @@ "flag" :> Unset),
   MCDoc(FALSE, TRUE, [f \in {} |-> Unset])}
MCValues == {"1", "v", Unset}
MCGiven == MCDoc(TRUE, TRUE, "linear" :> "$A" @@ "flag" :> "true")

MCNode(keys, team) == [keys |-> keys, team |-> team]
MCWhole == MCNode({"id", "name", "key", "type"}, "t1")
MCReplies ==
  {[ok |-> FALSE, depth |-> "nodes", errors |-> FALSE, nodes |-> <<>>]}
  \cup {[ok |-> TRUE, depth |-> depth, errors |-> errors, nodes |-> <<MCWhole>>] :
          depth \in {"none", "data", "root", "nodes"}, errors \in BOOLEAN}
  \cup {[ok |-> TRUE, depth |-> "nodes", errors |-> FALSE, nodes |-> <<MCWhole, node>>] :
          node \in {MCNode({"id", "name"}, "bad"), MCNode({"id", "name", "type"}, Unset), MCNode({"id"}, "t2")}}

MCMro == "base" :> <<"base">> @@ "left" :> <<"left", "base">> @@ "right" :> <<"right", "base">>
         @@ "both" :> <<"both", "left", "right", "base">>

MCInit ==
  /\ active \in {"overlay", "listing", "metadata", "stamp"}
  /\ ResolverInit /\ TrackerInit /\ SharedInit /\ Init
  /\ active # "overlay" => ~document.readable /\ env["$A"] = Unset   \* unused there

MCNext ==
  \/ /\ active = "overlay"
     /\ ClientNext \/ ResolverNext
     /\ UNCHANGED <<active, metadataVars, body>>
  \/ /\ active = "listing"
     /\ ConstructWithBase \/ ListNext
     /\ UNCHANGED <<active, metadataVars, body>>
  \/ /\ active = "metadata"
     /\ SharedNext
     /\ UNCHANGED <<active, overlayVars, body>>
  \/ /\ active = "stamp"
     /\ Next
     /\ UNCHANGED <<active, overlayVars, metadataVars>>

MCProcessSpec == MCInit /\ [][MCNext]_<<active, overlayVars, metadataVars, body>>
====================================================================================
