------------------------------ MODULE ProcessStateProofs ------------------------------
(***************************************************************************)
(* Proofs about what the package keeps in a process: the overlay's cache   *)
(* and the clients on top of it, for any number of threads, documents and  *)
(* changes of the environment, and the metadata of classes and artifacts,  *)
(* for any classes, resolution orders, artifacts and readers of them.      *)
(***************************************************************************)
EXTENDS ProjectTracker, SharedMetadata, TLAPS

-----------------------------------------------------------------------------
(* Lookups of the overlay: config/overlay_resolver.py and the tracker's client    *)
(*                                                                         *)
(* What carries the proofs is the relation between three histories: what a *)
(* call has read is among what it has seen, what it has seen of the        *)
(* packaged document is among what the process has seen, and so is the     *)
(* cached URL.                                                             *)

\* What a loading call has read of its document: every value that is no longer to do is one
\* the field had during the call, and so is the one that would be read now.
LoadingInv(c) ==
  /\ DOMAIN c.got = DOMAIN Doc(c).fields
  /\ DOMAIN c.seen = DOMAIN Doc(c).fields
  /\ \A f \in DOMAIN Doc(c).fields :
       /\ Interpolate(Doc(c).fields[f]) \in c.seen[f]
       /\ f \notin c.todo => c.got[f] \in c.seen[f]

\* Of the packaged document a call sees nothing that the process has not seen.
SeenInv(c) ==
  c.packaged => \A f \in DOMAIN c.seen : f \in DOMAIN ever /\ c.seen[f] \subseteq ever[f]

ResultInv(c) ==
  \/ /\ c.seen = <<>> /\ c.packaged /\ c.field \in Names
     /\ c.field \in DOMAIN ever /\ c.result \in ever[c.field]
  \/ c.field \in DOMAIN c.seen /\ \E v \in c.seen[c.field] : c.result = Answer(c.field, v)

CauseInv(c) ==
  \/ ~Doc(c).readable \/ ~Doc(c).known \/ c.field \notin DOMAIN Doc(c).fields
  \/ \E f \in DOMAIN c.seen \cap (Names \cup Required) : Unset \in c.seen[f]

CallInv(c) ==
  /\ DOMAIN c = {"state", "field", "packaged", "todo", "got", "seen", "result"}
  /\ c.state = "loading" => LoadingInv(c)
  /\ SeenInv(c)
  /\ c.state = "returned" => ResultInv(c)
  /\ c.state = "raised" => CauseInv(c)

CallsInv == DOMAIN call = Threads /\ \A t \in Threads : CallInv(call[t])

\* The history of the packaged document's fields holds their present values.
EverInv ==
  /\ DOMAIN ever = DOMAIN document.fields
  /\ \A f \in DOMAIN ever : Interpolate(document.fields[f]) \in ever[f]

CacheInv ==
  cache # NoEntry =>
    cache.name \in Names /\ cache.name \in DOMAIN ever /\ cache.url \in ever[cache.name]

ResolverInv == CallsInv /\ EverInv /\ CacheInv

LookupInv == ResolverInv /\ ClientFailsClosed /\ ListingIsWhole

-----------------------------------------------------------------------------
(* The calls of the resolver *)

LEMMA EmptyDomain == DOMAIN <<>> = {} /\ \A S : [f \in {} |-> S] = <<>>
<1>1. DOMAIN <<>> = {}
  OBVIOUS
<1> QED  BY <1>1

\* A step of one call leaves the others alone.
LEMMA OneCall ==
  ASSUME CallsInv, NEW t \in Threads, UNCHANGED <<document, env, ever>>,
         DOMAIN call' = Threads, \A u \in Threads \ {t} : call'[u] = call[u],
         CallInv(call'[t])
  PROVE  CallsInv'
<1>1. ASSUME NEW u \in Threads  PROVE CallInv(call'[u])
  BY DEF CallsInv
<1> QED  BY <1>1 DEF CallsInv, CallInv, LoadingInv, SeenInv, ResultInv, CauseInv, Doc, Interpolate

\* A call that the cache answers, that cannot read its document, or that begins to read it.
LEMMA CallResolverInv ==
  ASSUME ResolverInv, NEW t \in Threads, Call(t)
  PROVE  ResolverInv'
<1> USE DEF ResolverInv
<1>1. UNCHANGED <<document, env, cache, ever>>
  BY DEF Call
<1>2. PICK f \in Names \cup {Flag}, packaged \in BOOLEAN :
        LET c == [Idle EXCEPT !.field = f, !.packaged = packaged]
            fields == Doc(c).fields
        IN  call' = [call EXCEPT ![t] =
              IF Hits(c) THEN [c EXCEPT !.state = "returned", !.result = cache.url]
              ELSE IF ~Doc(c).readable THEN [c EXCEPT !.state = "raised"]
              ELSE [c EXCEPT !.state = "loading", !.got = fields,
                             !.todo = {g \in DOMAIN fields : fields[g] \in Vars},
                             !.seen = [g \in DOMAIN fields |-> {Interpolate(fields[g])}]]]
  BY DEF Call
<1> DEFINE c == [Idle EXCEPT !.field = f, !.packaged = packaged]
           fields == Doc(c).fields
           hit == [c EXCEPT !.state = "returned", !.result = cache.url]
           failed == [c EXCEPT !.state = "raised"]
           begun == [c EXCEPT !.state = "loading", !.got = fields,
                              !.todo = {g \in DOMAIN fields : fields[g] \in Vars},
                              !.seen = [g \in DOMAIN fields |-> {Interpolate(fields[g])}]]
<1>3. /\ DOMAIN call' = Threads /\ \A u \in Threads \ {t} : call'[u] = call[u]
      /\ call'[t] = IF Hits(c) THEN hit ELSE IF ~Doc(c).readable THEN failed ELSE begun
  BY <1>2 DEF CallsInv
<1>4. /\ DOMAIN c = {"state", "field", "packaged", "todo", "got", "seen", "result"}
      /\ c.state = "idle" /\ c.field = f /\ c.packaged = packaged /\ c.seen = <<>>
  BY DEF Idle
<1> HIDE DEF c
<1>5. ASSUME Hits(c)  PROVE CallInv(call'[t])
  <2>1. /\ DOMAIN hit = {"state", "field", "packaged", "todo", "got", "seen", "result"}
        /\ hit.state = "returned" /\ hit.result = cache.url
        /\ hit.field = f /\ hit.packaged = packaged /\ hit.seen = <<>>
    BY <1>4
  <2> HIDE DEF hit
  <2>2. SeenInv(hit)
    BY <2>1, EmptyDomain DEF SeenInv
  <2>3. ResultInv(hit)
    BY <1>4, <1>5, <2>1 DEF ResultInv, CacheInv, Hits
  <2>4. CallInv(hit)
    BY <2>1, <2>2, <2>3 DEF CallInv
  <2> QED  BY <1>3, <1>5, <2>4
<1>6. ASSUME ~Hits(c), ~Doc(c).readable  PROVE CallInv(call'[t])
  <2>1. /\ DOMAIN failed = {"state", "field", "packaged", "todo", "got", "seen", "result"}
        /\ failed.state = "raised" /\ failed.packaged = c.packaged /\ failed.seen = <<>>
    BY <1>4
  <2> HIDE DEF failed
  <2>2. SeenInv(failed)
    BY <2>1, EmptyDomain DEF SeenInv
  <2>3. CauseInv(failed)
    BY <1>6, <2>1 DEF CauseInv, Doc
  <2>4. CallInv(failed)
    BY <2>1, <2>2, <2>3 DEF CallInv
  <2> QED  BY <1>3, <1>6, <2>4
<1>7. ASSUME ~Hits(c), Doc(c).readable  PROVE CallInv(call'[t])
  <2>1. /\ DOMAIN begun = {"state", "field", "packaged", "todo", "got", "seen", "result"}
        /\ begun.state = "loading" /\ begun.packaged = c.packaged /\ begun.got = fields
        /\ begun.todo = {g \in DOMAIN fields : fields[g] \in Vars}
        /\ begun.seen = [g \in DOMAIN fields |-> {Interpolate(fields[g])}]
    BY <1>4
  <2>2. fields = Doc(begun).fields
    BY <2>1 DEF Doc
  <2>3. begun.packaged => fields = document.fields
    BY <2>1 DEF Doc
  <2> HIDE DEF begun, fields
  <2>4. SeenInv(begun)
    BY <2>1, <2>3 DEF SeenInv, EverInv
  <2>5. LoadingInv(begun)
    BY <2>1, <2>2 DEF LoadingInv, Interpolate
  <2>6. CallInv(begun)
    BY <2>1, <2>4, <2>5 DEF CallInv
  <2> QED  BY <1>3, <1>7, <2>6
<1>8. CallInv(call'[t])
  BY <1>5, <1>6, <1>7
<1>9. CallsInv'
  BY <1>1, <1>3, <1>8, OneCall
<1> QED  BY <1>1, <1>9 DEF EverInv, CacheInv, Interpolate

\* The value that a call reads next is the field's present one, and the call sees it.
LEMMA ReadResolverInv ==
  ASSUME ResolverInv, NEW t \in Threads, Read(t)
  PROVE  ResolverInv'
<1> USE DEF ResolverInv
<1> DEFINE c == call[t]
           d == call'[t]
<1>1. UNCHANGED <<document, env, cache, ever>> /\ c.state = "loading"
  BY DEF Read
<1>2. PICK f \in c.todo :
        call' = [call EXCEPT ![t].todo = @ \ {f}, ![t].got[f] = Interpolate(Doc(call[t]).fields[f])]
  BY DEF Read
<1>3. CallInv(c) /\ LoadingInv(c) /\ t \in DOMAIN call
  BY <1>1 DEF CallsInv, CallInv
<1>4. DOMAIN call' = Threads /\ \A u \in Threads \ {t} : call'[u] = call[u]
  BY <1>2 DEF CallsInv
<1>5. /\ DOMAIN d = DOMAIN c /\ d.state = c.state /\ d.field = c.field
      /\ d.packaged = c.packaged /\ d.seen = c.seen
  BY <1>2, <1>3 DEF CallInv
<1>6. /\ d.todo = c.todo \ {f}
      /\ d.got = [c.got EXCEPT ![f] = Interpolate(Doc(c).fields[f])]
  BY <1>2, <1>3 DEF CallInv
<1> HIDE DEF c, d
<1>7. Doc(d) = Doc(c)
  BY <1>5 DEF Doc
<1>8. LoadingInv(d)
  <2>1. DOMAIN d.got = DOMAIN Doc(d).fields /\ DOMAIN d.seen = DOMAIN Doc(d).fields
    BY <1>3, <1>5, <1>6, <1>7 DEF LoadingInv
  <2>2. ASSUME NEW g \in DOMAIN Doc(d).fields
        PROVE  /\ Interpolate(Doc(d).fields[g]) \in d.seen[g]
               /\ g \notin d.todo => d.got[g] \in d.seen[g]
    <3>1. Interpolate(Doc(c).fields[g]) \in c.seen[g] /\ (g \notin c.todo => c.got[g] \in c.seen[g])
      BY <1>3, <1>7, <2>2 DEF LoadingInv
    <3>2. d.got[g] = IF g = f THEN Interpolate(Doc(c).fields[g]) ELSE c.got[g]
      BY <1>3, <1>6, <1>7, <2>2 DEF LoadingInv
    <3> QED  BY <1>5, <1>6, <1>7, <3>1, <3>2
  <2> QED  BY <2>1, <2>2 DEF LoadingInv
<1>9. CallInv(d)
  BY <1>1, <1>3, <1>5, <1>8 DEF CallInv, SeenInv
<1>10. CallsInv'
  BY <1>1, <1>4, <1>9, OneCall DEF d
<1> QED  BY <1>1, <1>10 DEF EverInv, CacheInv, Interpolate

\* A call that ends has read everything, each value at a moment of its own.
LEMMA AllRead ==
  ASSUME NEW c, LoadingInv(c), c.todo = {}
  PROVE  \A f \in DOMAIN c.got : f \in DOMAIN c.seen /\ c.got[f] \in c.seen[f]
  BY DEF LoadingInv

LEMMA EndResolverInv ==
  ASSUME ResolverInv, NEW t \in Threads, Raise(t) \/ Return(t)
  PROVE  ResolverInv'
<1> USE DEF ResolverInv
<1> DEFINE c == call[t]
           d == call'[t]
<1>1. UNCHANGED <<document, env, ever>> /\ c.state = "loading" /\ c.todo = {}
  BY DEF Raise, Return
<1>2. CallInv(c) /\ LoadingInv(c) /\ t \in DOMAIN call
  BY <1>1 DEF CallsInv, CallInv
<1>3. DOMAIN call' = Threads /\ \A u \in Threads \ {t} : call'[u] = call[u]
  BY DEF CallsInv, Raise, Return
<1>4. /\ DOMAIN d = DOMAIN c /\ d.field = c.field /\ d.packaged = c.packaged
      /\ d.seen = c.seen
  BY <1>2 DEF CallInv, Raise, Return
<1>5. \A f \in DOMAIN c.got : f \in DOMAIN c.seen /\ c.got[f] \in c.seen[f]
  BY <1>1, <1>2, AllRead
<1>6. CASE Raise(t)
  <2>1. d.state = "raised" /\ (Invalid(c) \/ c.field \notin DOMAIN c.got)
    BY <1>2, <1>6 DEF Raise, CallInv
  <2> HIDE DEF c, d
  <2>2. CauseInv(d)
    BY <1>2, <1>4, <1>5, <2>1 DEF CauseInv, Invalid, Doc, LoadingInv
  <2>3. CallInv(d)
    BY <1>2, <1>4, <2>1, <2>2 DEF CallInv, SeenInv
  <2>4. CallsInv'
    BY <1>1, <1>3, <2>3, OneCall DEF d
  <2>5. UNCHANGED cache
    BY <1>6 DEF Raise
  <2> QED  BY <1>1, <2>4, <2>5 DEF EverInv, CacheInv, Interpolate
<1>7. CASE Return(t)
  <2>1. /\ d.state = "returned" /\ c.field \in DOMAIN c.got
        /\ d.result = Answer(c.field, c.got[c.field])
    BY <1>2, <1>7 DEF Return, CallInv
  <2>2. Store(c)
    BY <1>7 DEF Return
  <2> HIDE DEF c, d
  <2>3. ResultInv(d)
    BY <1>4, <1>5, <2>1 DEF ResultInv
  <2>4. CallInv(d)
    BY <1>2, <1>4, <2>1, <2>3 DEF CallInv, SeenInv
  <2>5. CallsInv'
    BY <1>1, <1>3, <2>4, OneCall DEF d
  <2>6. CacheInv'
    <3>1. CASE UNCHANGED cache
      BY <1>1, <3>1 DEF CacheInv
    <3>2. CASE /\ c.packaged /\ c.field \in Names
               /\ cache' = [name |-> c.field, url |-> c.got[c.field]]
      <4>1. c.field \in DOMAIN ever /\ c.got[c.field] \in ever[c.field]
        BY <1>2, <1>5, <2>1, <3>2 DEF CallInv, SeenInv
      <4> QED  BY <1>1, <3>2, <4>1 DEF CacheInv
    <3> QED  BY <2>2, <3>1, <3>2 DEF Store
  <2> QED  BY <1>1, <2>5, <2>6 DEF EverInv, Interpolate
<1> QED  BY <1>6, <1>7

\* A change of the environment enters every history in the same step.
LEMMA SetEnvResolverInv ==
  ASSUME ResolverInv, SetEnv
  PROVE  ResolverInv'
<1> USE DEF ResolverInv
<1> DEFINE now(d, f) == IF d.fields[f] \in Vars THEN {env'[d.fields[f]]} ELSE {}
<1>1. UNCHANGED <<document, cache>>
  BY DEF SetEnv
<1>2. ever' = [f \in DOMAIN ever |-> ever[f] \cup now(document, f)]
  BY DEF SetEnv
<1>3. call' = [t \in Threads |-> [call[t] EXCEPT !.seen =
                 [f \in DOMAIN @ |-> @[f] \cup now(Doc(call[t]), f)]]]
  BY DEF SetEnv
<1>4. ASSUME NEW d, NEW f, NEW S, Interpolate(d.fields[f]) \in S
      PROVE  Interpolate(d.fields[f])' \in S \cup now(d, f)
  BY <1>4 DEF Interpolate
<1> HIDE DEF now
<1>5. EverInv'
  BY <1>1, <1>2, <1>4 DEF EverInv
<1>6. CacheInv'
  BY <1>1, <1>2 DEF CacheInv
<1>7. ASSUME NEW t \in Threads  PROVE CallInv(call[t])'
  <2> DEFINE c == call[t]
             d == call'[t]
  <2>1. CallInv(c)
    BY DEF CallsInv
  <2>2. /\ DOMAIN d = DOMAIN c /\ d.state = c.state /\ d.field = c.field
        /\ d.packaged = c.packaged /\ d.todo = c.todo /\ d.got = c.got /\ d.result = c.result
        /\ d.seen = [f \in DOMAIN c.seen |-> c.seen[f] \cup now(Doc(c), f)]
    BY <1>3, <2>1 DEF CallInv
  <2>3. Doc(call[t])' = Doc(c)
    BY <1>1, <2>2 DEF Doc
  <2>4. (Doc(c).readable)' = Doc(c).readable /\ (c.packaged => Doc(c) = document)
    BY <1>1, <2>2 DEF Doc
  <2> HIDE DEF c, d
  <2>5. DOMAIN d.seen = DOMAIN c.seen /\ \A f \in DOMAIN c.seen : c.seen[f] \subseteq d.seen[f]
    BY <2>2
  <2>6. DOMAIN d = {"state", "field", "packaged", "todo", "got", "seen", "result"}
    BY <2>1, <2>2 DEF CallInv
  <2>7. SeenInv(call[t])'
    <3> SUFFICES ASSUME d.packaged, NEW f \in DOMAIN d.seen
                 PROVE  f \in DOMAIN ever' /\ d.seen[f] \subseteq ever'[f]
      BY DEF SeenInv, d
    <3>1. f \in DOMAIN ever /\ c.seen[f] \subseteq ever[f] /\ Doc(c) = document
      BY <2>1, <2>2, <2>4, <2>5 DEF CallInv, SeenInv
    <3> QED  BY <1>2, <2>2, <3>1
  <2>8. ASSUME d.state = "loading"  PROVE LoadingInv(call[t])'
    <3>1. LoadingInv(c)
      BY <2>1, <2>2, <2>8 DEF CallInv
    <3>2. DOMAIN d.got = DOMAIN Doc(c).fields /\ DOMAIN d.seen = DOMAIN Doc(c).fields
      BY <2>2, <2>5, <3>1 DEF LoadingInv
    <3>3. ASSUME NEW f \in DOMAIN Doc(c).fields
          PROVE  Interpolate(Doc(c).fields[f])' \in d.seen[f] /\ (f \notin d.todo => d.got[f] \in d.seen[f])
      <4>1. Interpolate(Doc(c).fields[f]) \in c.seen[f] /\ (f \notin c.todo => c.got[f] \in c.seen[f])
        BY <3>1 DEF LoadingInv
      <4>2. d.seen[f] = c.seen[f] \cup now(Doc(c), f)
        BY <2>2, <3>1 DEF LoadingInv
      <4>3. Doc(c)' = Doc(c)
        BY <2>3 DEF c
      <4> QED  BY <1>4, <2>2, <4>1, <4>2, <4>3
    <3> QED  BY <2>3, <3>2, <3>3 DEF LoadingInv, c, d
  <2>9. ASSUME d.state = "returned"  PROVE ResultInv(call[t])'
    <3>1. ResultInv(c)
      BY <2>1, <2>2, <2>9 DEF CallInv
    <3>2. CASE /\ c.seen = <<>> /\ c.packaged /\ c.field \in Names
               /\ c.field \in DOMAIN ever /\ c.result \in ever[c.field]
      <4>1. d.seen = <<>>
        BY <2>2, <3>2, EmptyDomain
      <4>2. c.field \in DOMAIN ever' /\ c.result \in ever'[c.field]
        BY <1>2, <3>2
      <4> QED  BY <2>2, <3>2, <4>1, <4>2 DEF ResultInv, d
    <3>3. CASE c.field \in DOMAIN c.seen /\ \E v \in c.seen[c.field] : c.result = Answer(c.field, v)
      <4>1. d.field \in DOMAIN d.seen /\ \E v \in d.seen[d.field] : d.result = Answer(d.field, v)
        BY <2>2, <2>5, <3>3
      <4> QED  BY <4>1 DEF ResultInv, d
    <3> QED  BY <3>1, <3>2, <3>3 DEF ResultInv
  <2>10. ASSUME d.state = "raised"  PROVE CauseInv(call[t])'
    <3>1. CauseInv(c)
      BY <2>1, <2>2, <2>10 DEF CallInv
    <3>2. \/ ~Doc(c).readable \/ ~Doc(c).known \/ d.field \notin DOMAIN Doc(c).fields
          \/ \E f \in DOMAIN d.seen \cap (Names \cup Required) : Unset \in d.seen[f]
      BY <2>2, <2>5, <3>1 DEF CauseInv
    <3> QED  BY <2>3, <3>2 DEF CauseInv, d
  <2> QED  BY <2>6, <2>7, <2>8, <2>9, <2>10 DEF CallInv, d
<1>8. CallsInv'
  BY <1>3, <1>7 DEF CallsInv
<1> QED  BY <1>5, <1>6, <1>8

-----------------------------------------------------------------------------
(* The invariant *)

LEMMA InitLookupInv == ResolverInit /\ TrackerInit => LookupInv
<1> SUFFICES ASSUME ResolverInit, TrackerInit  PROVE LookupInv
  OBVIOUS
<1>1. CallInv(Idle)
  <2>1. /\ DOMAIN Idle = {"state", "field", "packaged", "todo", "got", "seen", "result"}
        /\ Idle.state = "idle" /\ Idle.seen = <<>>
    BY DEF Idle
  <2>2. SeenInv(Idle)
    BY <2>1, EmptyDomain DEF SeenInv
  <2> QED  BY <2>1, <2>2 DEF CallInv
<1>2. CallsInv
  BY <1>1 DEF ResolverInit, CallsInv
<1>3. EverInv
  BY DEF ResolverInit, EverInv, Interpolate
<1>4. CacheInv
  BY DEF ResolverInit, CacheInv
<1>5. ClientFailsClosed /\ ListingIsWhole
  BY DEF TrackerInit, NoListing, ClientFailsClosed, ListingIsWhole
<1> QED  BY <1>2, <1>3, <1>4, <1>5 DEF LookupInv, ResolverInv

\* The histories only grow, so a URL that a client took stays explained.
LEMMA ResolverLookupInv ==
  ASSUME LookupInv, ResolverNext
  PROVE  LookupInv'
<1> USE DEF LookupInv
<1>1. ResolverInv'
  BY CallResolverInv, ReadResolverInv, EndResolverInv, SetEnvResolverInv
     DEF ResolverNext, ResolverStep
<1>2. DOMAIN ever' = DOMAIN ever /\ \A f \in DOMAIN ever : ever[f] \subseteq ever'[f]
  BY DEF ResolverNext, ResolverStep, Call, Read, Raise, Return, SetEnv
<1>3. client' = client /\ listing' = NoListing
  BY DEF ResolverNext, ForgetListing
<1>4. ClientFailsClosed'
  BY <1>2, <1>3 DEF ClientFailsClosed
<1>5. ListingIsWhole'
  BY <1>3 DEF ListingIsWhole, NoListing
<1> QED  BY <1>1, <1>4, <1>5

\* A client is made of an answer that the resolver gave, and nothing else.
LEMMA ClientLookupInv ==
  ASSUME LookupInv, ClientNext
  PROVE  LookupInv'
<1> USE DEF LookupInv
<1>1. UNCHANGED vars /\ listing' = NoListing
  BY DEF ClientNext, ConstructWithBase, ConstructFromOverlay, ForgetListing
<1>2. ResolverInv'
  BY <1>1 DEF vars, ResolverInv, CallsInv, CallInv, LoadingInv, SeenInv, ResultInv, CauseInv,
              Doc, Interpolate, EverInv, CacheInv
<1>3. ClientFailsClosed'
  <2>1. CASE ConstructWithBase
    BY <2>1 DEF ConstructWithBase, ClientFailsClosed
  <2>2. CASE \E t \in Threads : ConstructFromOverlay(t)
    <3>1. PICK t \in Threads : ConstructFromOverlay(t)
      BY <2>2
    <3> DEFINE c == call[t]
    <3>2. c.state = "returned" /\ c.field = LinearKey /\ c.packaged /\ client' = c.result
      BY <3>1 DEF ConstructFromOverlay
    <3>3. CallInv(c) /\ ResultInv(c)
      BY <3>2 DEF ResolverInv, CallsInv, CallInv
    <3> HIDE DEF c
    <3>4. LinearKey \in DOMAIN ever /\ c.result \in ever[LinearKey]
      <4>1. LinearKey # Flag
        BY NamesAssumption, TrackerAssumption
      <4> QED  BY <3>2, <3>3, <4>1 DEF ResultInv, CallInv, SeenInv, Answer
    <3> QED  BY <1>1, <3>2, <3>4 DEF ClientFailsClosed, vars
  <2> QED  BY <2>1, <2>2 DEF ClientNext
<1>4. ListingIsWhole'
  BY <1>1 DEF ListingIsWhole, NoListing
<1> QED  BY <1>2, <1>3, <1>4

\* A listing is made node by node of one reply.
LEMMA ListLookupInv ==
  ASSUME LookupInv, ListNext
  PROVE  LookupInv'
<1> USE DEF LookupInv
<1>1. PICK kind \in {"teams", "issueLabels", "workflowStates"} : List(kind)
  BY DEF ListNext
<1>2. UNCHANGED <<client, vars>>
  BY <1>1 DEF List
<1>3. ResolverInv' /\ ClientFailsClosed'
  BY <1>2 DEF vars, ResolverInv, CallsInv, CallInv, LoadingInv, SeenInv, ResultInv, CauseInv,
              Doc, Interpolate, EverInv, CacheInv, ClientFailsClosed
<1>4. PICK r \in Replies :
        reply' = r /\ listing' = IF Extractable(r) THEN Items(kind, r.nodes) ELSE Raised
  BY <1>1 DEF List
<1>5. CASE listing' = Raised
  BY <1>3, <1>5 DEF ListingIsWhole, Raised
<1>6. CASE /\ \A i \in DOMAIN r.nodes : RequiredKeys(kind) \subseteq r.nodes[i].keys
           /\ listing' = [state |-> "returned",
                          items |-> [i \in DOMAIN r.nodes |-> Item(kind, r.nodes[i])]]
  <2> DEFINE nodes == r.nodes
             items == [i \in DOMAIN nodes |-> Item(kind, nodes[i])]
  <2>1. nodes \in Seq({nodes[i] : i \in DOMAIN nodes})
    BY TrackerAssumption
  <2>2. Len(items) = Len(nodes) /\ DOMAIN items = DOMAIN nodes
    <3>1. DOMAIN nodes = 1..Len(nodes) /\ Len(nodes) \in Nat
      BY <2>1
    <3> HIDE DEF nodes
    <3> QED  BY <3>1
  <2>3. \A i \in DOMAIN items :
          items[i].keys \subseteq nodes[i].keys /\ items[i].team \in {nodes[i].team, Unset}
    BY <1>6 DEF Item, NestedId
  <2>4. reply'.nodes = nodes /\ listing'.items = items
    BY <1>4, <1>6
  <2> HIDE DEF nodes, items
  <2>5. ListingIsWhole'
    BY <2>2, <2>3, <2>4 DEF ListingIsWhole
  <2> QED  BY <1>3, <2>5
<1> QED  BY <1>4, <1>5, <1>6 DEF Items

\* Every reachable state satisfies the invariant: whatever threads and the environment did in
\* between, results, causes and cached URLs are among what was seen at their time.
THEOREM LookupsExplained == TrackerSpec => []LookupInv
<1>1. LookupInv /\ [ClientNext \/ ListNext \/ ResolverNext]_<<vars, trackerVars>> => LookupInv'
  <2> SUFFICES ASSUME LookupInv, [ClientNext \/ ListNext \/ ResolverNext]_<<vars, trackerVars>>
               PROVE  LookupInv'
    OBVIOUS
  <2>1. CASE UNCHANGED <<vars, trackerVars>>
    BY <2>1 DEF vars, trackerVars, LookupInv, ResolverInv, CallsInv, CallInv, LoadingInv, SeenInv,
                ResultInv, CauseInv, Doc, Interpolate, EverInv, CacheInv, ClientFailsClosed,
                ListingIsWhole
  <2> QED  BY <2>1, ClientLookupInv, ListLookupInv, ResolverLookupInv
<1> QED  BY InitLookupInv, <1>1, PTL DEF TrackerSpec

-----------------------------------------------------------------------------
(* What callers may rely on *)

\* A result is a value its own field had: during the call, or, from the cache, in the process.
THEOREM ResultsAreDeclared == TrackerSpec => []ResultWasDeclared
<1>1. LookupInv => ResultWasDeclared
  <2> SUFFICES ASSUME LookupInv, NEW t \in Threads, call[t].state = "returned"
               PROVE  LET c == call[t] IN
                      IF c.seen = <<>> THEN c.packaged /\ c.field \in Names /\ c.result \in ever[c.field]
                      ELSE \E v \in c.seen[c.field] : c.result = Answer(c.field, v)
    BY DEF ResultWasDeclared
  <2>1. ResultInv(call[t])
    BY DEF LookupInv, ResolverInv, CallsInv, CallInv
  <2> QED  BY <2>1, EmptyDomain DEF ResultInv
<1> QED  BY <1>1, LookupsExplained, PTL

\* A call fails for a cause of its own time, never for one that the cache remembered.
THEOREM FailuresAreCaused == TrackerSpec => []FailureHasCause
<1>1. LookupInv => FailureHasCause
  BY DEF LookupInv, ResolverInv, CallsInv, CallInv, CauseInv, FailureHasCause
<1> QED  BY <1>1, LookupsExplained, PTL

\* No client has a URL that its caller did not give and the overlay did not declare.
THEOREM ClientsFailClosed == TrackerSpec => []ClientFailsClosed
<1>1. LookupInv => ClientFailsClosed
  BY DEF LookupInv
<1> QED  BY <1>1, LookupsExplained, PTL

\* A listing has an item for each node of its reply.
THEOREM ListingsAreWhole == TrackerSpec => []ListingIsWhole
<1>1. LookupInv => ListingIsWhole
  BY DEF LookupInv
<1> QED  BY <1>1, LookupsExplained, PTL

-----------------------------------------------------------------------------
(* Decorations: decorator_injectable_optional.py *)

Attributes == [list : Nat, entry : Nat \cup {Nothing}]

OwnInv ==
  /\ lists \in Seq(Seq(Nat \cup {Nothing}))
  /\ own \in [Classes -> Attributes \cup {Nothing}]
  /\ \A c \in Classes : own[c] # Nothing => own[c].list \in 0..Len(lists)

AppliedInv == applied \in Seq([class : Classes, entry : Nat])

ClassInv == OwnInv /\ AppliedInv /\ DecorationsVisible

\* getattr finds at most one attribute, and it is one of a class.
LEMMA ExistingIsOne ==
  ASSUME OwnInv, NEW c \in Classes, NEW e \in Existing(c)
  PROVE  /\ e \in Attributes /\ e.list \in 0..Len(lists)
         /\ Existing(c) = {e}
<1> DEFINE First == {k \in DOMAIN Mro[c] :
              own[Mro[c][k]] # Nothing /\ \A j \in 1..(k - 1) : own[Mro[c][j]] = Nothing}
<1>1. Mro[c] \in Seq(Classes)
  BY MroAssumption
<1>2. Existing(c) = {own[Mro[c][i]] : i \in First}
  BY DEF Existing
<1>3. PICK i \in First : e = own[Mro[c][i]]
  BY <1>2
<1>4. \A k \in First : k = i
  BY <1>1
<1>5. Existing(c) = {e}
  BY <1>2, <1>3, <1>4
<1>6. Mro[c][i] \in Classes /\ own[Mro[c][i]] # Nothing
  BY <1>1
<1> QED  BY <1>3, <1>5, <1>6 DEF OwnInv

\* What a class sees is decided by the classes of its resolution order.
LEMMA ExistingDependsOnMro ==
  ASSUME NEW c \in Classes, \A d \in ToSet(Mro[c]) : own'[d] = own[d]
  PROVE  Existing(c)' = Existing(c)
<1>1. Mro[c] \in Seq(Classes)
  BY MroAssumption
<1>2. \A k \in DOMAIN Mro[c] : own'[Mro[c][k]] = own[Mro[c][k]]
  BY DEF ToSet
<1>3. \A k \in DOMAIN Mro[c] : \A j \in 1..(k - 1) : j \in DOMAIN Mro[c]
  BY <1>1
<1> DEFINE First == {k \in DOMAIN Mro[c] :
              own[Mro[c][k]] # Nothing /\ \A j \in 1..(k - 1) : own[Mro[c][j]] = Nothing}
           FirstNext == {k \in DOMAIN Mro[c] :
              own'[Mro[c][k]] # Nothing /\ \A j \in 1..(k - 1) : own'[Mro[c][j]] = Nothing}
<1>4. FirstNext = First
  BY <1>2, <1>3
<1>5. {own'[Mro[c][i]] : i \in First} = {own[Mro[c][i]] : i \in First}
  BY <1>2
<1>6. Existing(c) = {own[Mro[c][i]] : i \in First}
  BY DEF Existing
<1>7. Existing(c)' = {own'[Mro[c][i]] : i \in FirstNext}
  BY DEF Existing
<1> QED  BY <1>4, <1>5, <1>6, <1>7

\* A class with an attribute of its own sees that one, being first in its order.
LEMMA OwnComesFirst ==
  ASSUME NEW c \in Classes, own'[c] # Nothing
  PROVE  Existing(c)' = {own'[c]}
<1>1. Mro[c] \in Seq(Classes) /\ Mro[c] # <<>> /\ Mro[c][1] = c
  BY MroAssumption
<1> DEFINE FirstNext == {k \in DOMAIN Mro[c] :
              own'[Mro[c][k]] # Nothing /\ \A j \in 1..(k - 1) : own'[Mro[c][j]] = Nothing}
<1>2. FirstNext = {1}
  <2>1. 1 \in FirstNext
    BY <1>1
  <2>2. ASSUME NEW k \in FirstNext PROVE k = 1
    <3>1. k \in Nat /\ k >= 1
      BY <1>1
    <3>2. k > 1 => 1 \in 1..(k - 1)
      BY <3>1
    <3> QED  BY <1>1, <3>1, <3>2
  <2> QED  BY <2>1, <2>2
<1>3. Existing(c)' = {own'[Mro[c][i]] : i \in FirstNext}
  BY DEF Existing
<1> HIDE DEF FirstNext
<1> QED  BY <1>1, <1>2, <1>3

\* Lists only grow, so what an attribute lists it keeps.
LEMMA EntriesKept ==
  ASSUME OwnInv, NEW e \in Attributes, e.list \in 0..Len(lists),
         \A k \in 1..Len(lists) : ToSet(lists[k]) \subseteq ToSet(lists'[k])
  PROVE  Entries(e) \subseteq Entries(e)'
<1>1. CASE e.list = 0
  BY <1>1 DEF Entries
<1>2. CASE e.list # 0
  <2>1. e.list \in 1..Len(lists)
    BY <1>2
  <2> QED  BY <1>2, <2>1 DEF Entries
<1> QED  BY <1>1, <1>2

\* A decoration becomes visible on its class, and hides none on a class it may meet.
LEMMA DecorateKeeps ==
  ASSUME OwnInv, NEW c \in Classes, NEW entry \in Nat, Decorate(c, entry)
  PROVE  /\ OwnInv'
         /\ entry \in Visible(c)'
         /\ \A d \in Classes : d = c \/ c \notin ToSet(Mro[d]) => Visible(d) \subseteq Visible(d)'
<1> DEFINE Meets(d) == d = c \/ c \notin ToSet(Mro[d])
<1>1. ASSUME \A d \in Classes \ {c} : own'[d] = own[d], NEW d \in Classes, d # c, Meets(d)
      PROVE  Existing(d)' = Existing(d)
  <2>1. Mro[d] \in Seq(Classes)
    BY MroAssumption
  <2>2. \A x \in ToSet(Mro[d]) : x \in Classes \ {c}
    BY <2>1, <1>1 DEF ToSet
  <2> QED  BY <1>1, <2>2, ExistingDependsOnMro
<1>2. ASSUME Existing(c) = {}, own' = [own EXCEPT ![c] = [list |-> 0, entry |-> entry]],
             UNCHANGED lists
      PROVE  OwnInv' /\ entry \in Visible(c)' /\ \A d \in Classes : Meets(d) => Visible(d) \subseteq Visible(d)'
  <2> DEFINE a == [list |-> 0, entry |-> entry]
  <2>1. a \in Attributes /\ a # Nothing /\ own'[c] = a
    BY <1>2, MroAssumption DEF OwnInv, Attributes
  <2>2. OwnInv'
    BY <1>2, <2>1 DEF OwnInv
  <2>3. Existing(c)' = {a}
    BY <2>1, OwnComesFirst
  <2>4. Visible(c)' = Entries(a)'
    BY <2>3 DEF Visible
  <2>5. Entries(a)' = {entry}
    BY DEF Entries
  <2>6. Visible(c) = {}
    BY <1>2 DEF Visible
  <2>7. \A d \in Classes \ {c} : own'[d] = own[d]
    BY <1>2 DEF OwnInv
  <2>8. ASSUME NEW d \in Classes, Meets(d), d # c PROVE Visible(d)' = Visible(d)
    <3>1. Existing(d)' = Existing(d)
      BY <1>1, <2>7, <2>8
    <3> QED  BY <3>1, <1>2 DEF Visible, Entries
  <2> QED  BY <2>2, <2>4, <2>5, <2>6, <2>8
<1>3. ASSUME NEW e \in Existing(c), e.list # 0,
             lists' = [lists EXCEPT ![e.list] = Append(@, entry)], UNCHANGED own
      PROVE  OwnInv' /\ entry \in Visible(c)' /\ \A d \in Classes : Meets(d) => Visible(d) \subseteq Visible(d)'
  <2>1. e \in Attributes /\ e.list \in 1..Len(lists)
    BY <1>3, ExistingIsOne
  <2>2. lists[e.list] \in Seq(Nat \cup {Nothing})
    BY <2>1 DEF OwnInv
  <2>3. lists'[e.list] = Append(lists[e.list], entry) /\ Len(lists') = Len(lists)
    BY <1>3, <2>1 DEF OwnInv
  <2>4. lists' \in Seq(Seq(Nat \cup {Nothing}))
    BY <1>3, <2>1, <2>2 DEF OwnInv
  <2>5. OwnInv'
    BY <1>3, <2>3, <2>4 DEF OwnInv
  <2>6. ToSet(lists[e.list]) \subseteq ToSet(lists'[e.list]) /\ entry \in ToSet(lists'[e.list])
    <3>1. \A i \in DOMAIN lists[e.list] :
             i \in DOMAIN lists'[e.list] /\ lists'[e.list][i] = lists[e.list][i]
      BY <2>2, <2>3
    <3>2. /\ Len(lists[e.list]) + 1 \in DOMAIN lists'[e.list]
          /\ lists'[e.list][Len(lists[e.list]) + 1] = entry
      BY <2>2, <2>3
    <3> QED  BY <3>1, <3>2 DEF ToSet
  <2>7. \A k \in 1..Len(lists) : ToSet(lists[k]) \subseteq ToSet(lists'[k])
    <3>1. \A k \in 1..Len(lists) : k # e.list => lists'[k] = lists[k]
      BY <1>3 DEF OwnInv
    <3> QED  BY <2>6, <3>1
  <2>8. \A d \in Classes : Existing(d)' = Existing(d)
    BY <1>3, ExistingDependsOnMro
  <2>9. ASSUME NEW d \in Classes PROVE Visible(d) \subseteq Visible(d)'
    <3>1. \A x \in Existing(d) : Entries(x) \subseteq Entries(x)'
      BY <2>7, ExistingIsOne, EntriesKept
    <3> QED  BY <2>8, <3>1 DEF Visible
  <2>10. Entries(e)' = ToSet(lists'[e.list])
    BY <1>3 DEF Entries
  <2>11. entry \in Visible(c)'
    BY <2>6, <2>8, <2>10 DEF Visible
  <2> QED  BY <2>5, <2>9, <2>11
<1>4. ASSUME NEW e \in Existing(c), e.list = 0,
             lists' = Append(lists, <<e.entry, entry>>),
             own' = [own EXCEPT ![c] = [list |-> Len(lists) + 1, entry |-> Nothing]]
      PROVE  OwnInv' /\ entry \in Visible(c)' /\ \A d \in Classes : Meets(d) => Visible(d) \subseteq Visible(d)'
  <2> PICK a : a = [list |-> Len(lists) + 1, entry |-> Nothing]
    OBVIOUS
  <2>1. e \in Attributes /\ Existing(c) = {e}
    BY <1>4, ExistingIsOne
  <2>2. a \in Attributes /\ a # Nothing /\ own'[c] = a /\ a.list = Len(lists) + 1
    BY <1>4, MroAssumption DEF OwnInv, Attributes
  <2>3. <<e.entry, entry>> \in Seq(Nat \cup {Nothing})
    BY <2>1 DEF Attributes
  <2>4. /\ lists' \in Seq(Seq(Nat \cup {Nothing})) /\ Len(lists') = Len(lists) + 1
        /\ lists'[Len(lists) + 1] = <<e.entry, entry>>
        /\ \A k \in 1..Len(lists) : lists'[k] = lists[k]
    BY <1>4, <2>3 DEF OwnInv
  <2>5. OwnInv'
    <3>1. own' \in [Classes -> Attributes \cup {Nothing}]
      BY <1>4, <2>2 DEF OwnInv
    <3>2. ASSUME NEW d \in Classes, own'[d] # Nothing PROVE own'[d].list \in 0..Len(lists')
      <4>1. CASE d = c
        BY <4>1, <2>2, <2>4 DEF OwnInv
      <4>2. CASE d # c
        <5>1. own'[d] = own[d]
          BY <4>2, <1>4 DEF OwnInv
        <5>2. own[d].list \in 0..Len(lists) /\ Len(lists) \in Nat
          BY <5>1, <3>2 DEF OwnInv
        <5> QED  BY <5>1, <5>2, <2>4
      <4> QED  BY <4>1, <4>2
    <3> QED  BY <2>4, <3>1, <3>2 DEF OwnInv
  <2>6. Existing(c)' = {a}
    BY <2>2, OwnComesFirst
  <2>7. Entries(a)' = ToSet(<<e.entry, entry>>)
    <3>1. a.list # 0
      BY <2>2 DEF OwnInv
    <3> QED  BY <2>2, <2>4, <3>1 DEF Entries
  <2>8. e.entry \in Visible(c)' /\ entry \in Visible(c)'
    <3>1. e.entry \in ToSet(<<e.entry, entry>>) /\ entry \in ToSet(<<e.entry, entry>>)
      BY DEF ToSet
    <3> QED  BY <2>6, <2>7, <3>1 DEF Visible
  <2>9. Visible(c) = {e.entry}
    BY <1>4, <2>1 DEF Visible, Entries
  <2>10. \A d \in Classes \ {c} : own'[d] = own[d]
    BY <1>4 DEF OwnInv
  <2>11. ASSUME NEW d \in Classes, Meets(d), d # c PROVE Visible(d) \subseteq Visible(d)'
    <3>1. Existing(d)' = Existing(d)
      BY <1>1, <2>10, <2>11
    <3>2. \A x \in Existing(d) : Entries(x) \subseteq Entries(x)'
      BY <2>4, ExistingIsOne, EntriesKept
    <3> QED  BY <3>1, <3>2 DEF Visible
  <2> QED  BY <2>5, <2>8, <2>9, <2>11
<1> QED  BY <1>2, <1>3, <1>4 DEF Decorate

LEMMA ClassesStart ==
  ASSUME SharedInit
  PROVE  ClassInv
<1>1. own \in [Classes -> Attributes \cup {Nothing}] /\ \A c \in Classes : own[c] = Nothing
  BY DEF SharedInit
<1>2. lists \in Seq(Seq(Nat \cup {Nothing})) /\ applied \in Seq([class : Classes, entry : Nat])
  BY DEF SharedInit
<1> QED  BY <1>1, <1>2 DEF SharedInit, ClassInv, OwnInv, AppliedInv, DecorationsVisible

\* A class that is decorated again has no decorated subclass, so no list is moved away under one.
LEMMA DecorationKeepsClassInv ==
  ASSUME ClassInv, DecorateClass
  PROVE  ClassInv'
<1>1. OwnInv /\ AppliedInv /\ DecorationsVisible
  BY DEF ClassInv
<1>2. PICK entry \in Nat : entry = Len(applied) + 1
  BY <1>1 DEF AppliedInv
<1>3. PICK c \in Classes :
        /\ \A i \in DOMAIN applied : applied[i].class = c \/ c \notin ToSet(Mro[applied[i].class])
        /\ Decorate(c, entry)
        /\ applied' = Append(applied, [class |-> c, entry |-> entry])
  BY <1>2 DEF DecorateClass
<1>4. /\ OwnInv' /\ entry \in Visible(c)'
      /\ \A d \in Classes : d = c \/ c \notin ToSet(Mro[d]) => Visible(d) \subseteq Visible(d)'
  BY <1>1, <1>3, DecorateKeeps
<1>5. AppliedInv'
  BY <1>1, <1>3 DEF AppliedInv
<1>6. ASSUME NEW i \in DOMAIN applied'
      PROVE  \E d \in Classes : applied'[i].class = d /\ applied'[i].entry \in Visible(d)'
  <2>1. CASE i = Len(applied) + 1
    <3>1. applied'[i] = [class |-> c, entry |-> entry]
      BY <1>1, <1>3, <2>1 DEF AppliedInv
    <3> QED  BY <3>1, <1>4
  <2>2. CASE i # Len(applied) + 1
    <3>1. i \in DOMAIN applied /\ applied'[i] = applied[i] /\ applied[i].class \in Classes
      <4>1. applied \in Seq([class : Classes, entry : Nat]) /\ Len(applied) \in Nat
        BY <1>1 DEF AppliedInv
      <4>2. DOMAIN applied' = 1..(Len(applied) + 1)
        BY <1>3, <4>1
      <4>3. i \in 1..Len(applied)
        BY <2>2, <4>1, <4>2
      <4>4. applied'[i] = applied[i]
        BY <1>3, <4>1, <4>3
      <4>5. applied[i].class \in Classes
        <5> DEFINE R == [class : Classes, entry : Nat]
        <5>1. applied \in Seq(R)
          BY <4>1
        <5> HIDE DEF R
        <5>2. applied[i] \in R
          BY <5>1, <4>3
        <5> QED  BY <5>2 DEF R
      <4> QED  BY <4>1, <4>3, <4>4, <4>5
    <3>2. PICK d \in Classes : d = applied[i].class
      BY <3>1
    <3>3. Visible(d) \subseteq Visible(d)'
      BY <1>3, <1>4, <3>1, <3>2
    <3>4. applied[i].entry \in Visible(d)
      BY <1>1, <3>1, <3>2 DEF DecorationsVisible
    <3> QED  BY <3>1, <3>2, <3>3, <3>4
  <2> QED  BY <2>1, <2>2
<1>7. DecorationsVisible'
  BY <1>6 DEF DecorationsVisible, Visible, Existing, Entries
<1> QED  BY <1>4, <1>5, <1>7 DEF ClassInv

LEMMA RestKeepsClassInv ==
  ASSUME ClassInv, UNCHANGED classVars
  PROVE  ClassInv'
<1>1. OwnInv' /\ AppliedInv'
  BY DEF ClassInv, OwnInv, AppliedInv, classVars
<1>2. DecorationsVisible'
  BY DEF ClassInv, DecorationsVisible, Visible, Existing, Entries, classVars
<1> QED  BY <1>1, <1>2 DEF ClassInv

\* Behind EveryDecorationSeen: the attributes of classes lead to lists that exist.
THEOREM Decorations == SharedSpec => []ClassInv
<1>1. SharedInit => ClassInv
  BY ClassesStart
<1>2. ClassInv /\ [SharedNext]_<<classVars, registryVars>> => ClassInv'
  <2> SUFFICES ASSUME ClassInv, [SharedNext]_<<classVars, registryVars>>
               PROVE  ClassInv'
    OBVIOUS
  <2>1. CASE DecorateClass
    BY <2>1, DecorationKeepsClassInv
  <2>2. CASE RegisterExperimental \/ \E r \in Readers : GetExperimentalArtifacts(r) \/ EditSnapshot(r)
    BY <2>2, RestKeepsClassInv DEF RegisterExperimental, GetExperimentalArtifacts, EditSnapshot, classVars
  <2>3. CASE UNCHANGED <<classVars, registryVars>>
    BY <2>3, RestKeepsClassInv
  <2> QED  BY <2>1, <2>2, <2>3 DEF SharedNext
<1> QED  BY <1>1, <1>2, PTL DEF SharedSpec

\* Whatever the class hierarchy, every decoration of a class stays visible on it
\* (injectable_optional: a base's list may be extended through any of its subclasses).
THEOREM EveryDecorationSeen == SharedSpec => []DecorationsVisible
<1>1. ClassInv => DecorationsVisible
  BY DEF ClassInv
<1> QED  BY <1>1, Decorations, PTL

-----------------------------------------------------------------------------
(* Experimental artifacts: experimental/_registry.py *)

Contents == Tickets \cup {Nothing}

\* What the registry and the readers' copies bind: a name to a dictionary, which a certain
\* registration of that name made.
Bindings ==
  {[dict |-> registry[n], version |-> Len(versions[n]), name |-> n] : n \in Artifacts}
  \cup {[dict |-> snapshot[r][n], version |-> held[r][n], name |-> n] : r \in Readers, n \in Artifacts}

\* A bound dictionary holds what its registration has come to, ...
BoundRight(b) ==
  /\ b.dict \in 0..Len(dicts) /\ b.version \in 0..Len(versions[b.name])
  /\ b.dict = 0 <=> b.version = 0
  /\ b.dict # 0 => dicts[b.dict] = versions[b.name][b.version]

\* ... and two bindings share one exactly when they are of the same registration.
SharedRight(b, c) == b.dict # 0 => (b.dict = c.dict <=> (b.version = c.version /\ b.name = c.name))

RegistryInv ==
  /\ dicts \in Seq(Contents) /\ versions \in [Artifacts -> Seq(Contents)]
  /\ registry \in [Artifacts -> Nat]
  /\ snapshot \in [Readers -> [Artifacts -> Nat]] /\ held \in [Readers -> [Artifacts -> Nat]]
  /\ \A b \in Bindings : BoundRight(b)
  /\ \A b, c \in Bindings : SharedRight(b, c)

LEMMA RegistryBinds ==
  ASSUME NEW n \in Artifacts
  PROVE  [dict |-> registry[n], version |-> Len(versions[n]), name |-> n] \in Bindings
  BY DEF Bindings

LEMMA CopiesBind ==
  ASSUME NEW r \in Readers, NEW n \in Artifacts
  PROVE  [dict |-> snapshot[r][n], version |-> held[r][n], name |-> n] \in Bindings
  BY DEF Bindings

LEMMA RegistryStarts ==
  ASSUME SharedInit
  PROVE  RegistryInv
<1>1. /\ dicts = <<>> /\ registry = [n \in Artifacts |-> 0] /\ snapshot = [r \in Readers |-> registry]
      /\ versions = [n \in Artifacts |-> <<>>] /\ held = snapshot
  BY DEF SharedInit
<1>2. \A b \in Bindings : b.dict = 0 /\ b.version = 0 /\ b.name \in Artifacts
  BY <1>1 DEF Bindings
<1>3. \A b \in Bindings : BoundRight(b)
  BY <1>1, <1>2 DEF BoundRight
<1>4. \A b, c \in Bindings : SharedRight(b, c)
  BY <1>2 DEF SharedRight
<1> QED  BY <1>1, <1>3, <1>4 DEF RegistryInv

\* A registration binds its name to a dictionary that nothing else is bound to.
LEMMA RegisterKeepsRegistryInv ==
  ASSUME RegistryInv, RegisterExperimental
  PROVE  RegistryInv'
<1>1. PICK n \in Artifacts, ticket \in Tickets :
        /\ dicts' = Append(dicts, ticket) /\ registry' = [registry EXCEPT ![n] = Len(dicts) + 1]
        /\ versions' = [versions EXCEPT ![n] = Append(@, ticket)]
  BY DEF RegisterExperimental, Register
<1>2. snapshot' = snapshot /\ held' = held
  BY DEF RegisterExperimental
<1>3. /\ dicts' \in Seq(Contents) /\ Len(dicts') = Len(dicts) + 1 /\ Len(dicts) \in Nat
      /\ \A k \in 1..Len(dicts) : dicts'[k] = dicts[k]
      /\ dicts'[Len(dicts) + 1] = ticket
  BY <1>1 DEF RegistryInv, Contents
<1>4. PICK old \in Seq(Contents) : old = versions[n]
  BY DEF RegistryInv
<1>5. /\ versions' \in [Artifacts -> Seq(Contents)]
      /\ versions'[n] = Append(old, ticket) /\ \A m \in Artifacts : m # n => versions'[m] = versions[m]
  BY <1>1, <1>4 DEF RegistryInv, Contents
<1>6. /\ Len(versions'[n]) = Len(old) + 1 /\ Len(old) \in Nat
      /\ \A k \in 1..Len(old) : versions'[n][k] = old[k]
      /\ versions'[n][Len(old) + 1] = ticket
  BY <1>4, <1>5
<1> PICK new : new = [dict |-> Len(dicts) + 1, version |-> Len(old) + 1, name |-> n]
  OBVIOUS
<1>7. ASSUME NEW b \in Bindings'  PROVE b \in Bindings \/ b = new
  <2>1. CASE \E m \in Artifacts : b = [dict |-> registry'[m], version |-> Len(versions'[m]), name |-> m]
    <3>1. PICK m \in Artifacts : b = [dict |-> registry'[m], version |-> Len(versions'[m]), name |-> m]
      BY <2>1
    <3>2. CASE m = n
      BY <1>1, <1>6, <3>1, <3>2 DEF RegistryInv
    <3>3. CASE m # n
      <4>1. registry'[m] = registry[m] /\ versions'[m] = versions[m]
        BY <1>1, <1>5, <3>3 DEF RegistryInv
      <4> QED  BY <3>1, <4>1 DEF Bindings
    <3> QED  BY <3>2, <3>3
  <2>2. CASE \E r \in Readers, m \in Artifacts :
               b = [dict |-> snapshot'[r][m], version |-> held'[r][m], name |-> m]
    BY <1>2, <2>2 DEF Bindings
  <2> QED  BY <2>1, <2>2 DEF Bindings
<1>8. \A b \in Bindings : b.name \in Artifacts
  BY DEF Bindings
<1>9. ASSUME NEW b \in Bindings
      PROVE  /\ BoundRight(b)' /\ b.dict # new.dict
             /\ ~(b.version = new.version /\ b.name = new.name)
  <2>1. BoundRight(b)
    BY DEF RegistryInv
  <2>2. b.name # n => versions'[b.name] = versions[b.name]
    BY <1>5, <1>8
  <2>3. b.version \in 0..Len(versions[b.name]) /\ b.dict \in 0..Len(dicts)
    BY <2>1 DEF BoundRight
  <2>4. CASE b.name = n
    <3>1. b.version \in 0..Len(old) /\ (b.dict # 0 => dicts[b.dict] = old[b.version])
      BY <1>4, <2>1, <2>4 DEF BoundRight
    <3>2. b.version # Len(old) + 1 /\ b.version \in 0..Len(versions'[n])
      BY <1>6, <3>1
    <3>3. b.dict # Len(dicts) + 1 /\ b.dict \in 0..Len(dicts')
      BY <1>3, <2>3
    <3>4. b.dict # 0 => dicts'[b.dict] = versions'[n][b.version]
      <4> SUFFICES ASSUME b.dict # 0  PROVE dicts'[b.dict] = versions'[n][b.version]
        OBVIOUS
      <4>1. b.version # 0
        BY <2>1 DEF BoundRight
      <4>2. b.dict \in 1..Len(dicts) /\ b.version \in 1..Len(old)
        BY <1>3, <1>6, <2>3, <3>1, <4>1
      <4> QED  BY <1>3, <1>6, <3>1, <4>2
    <3> QED  BY <2>1, <2>4, <3>2, <3>3, <3>4 DEF BoundRight
  <2>5. CASE b.name # n
    <3>1. b.dict # Len(dicts) + 1 /\ b.dict \in 0..Len(dicts') /\ (b.dict # 0 => dicts'[b.dict] = dicts[b.dict])
      BY <1>3, <2>3
    <3> QED  BY <2>1, <2>2, <2>5, <3>1 DEF BoundRight
  <2> QED  BY <2>4, <2>5
<1>10. BoundRight(new)'
  <2>1. new.dict = Len(dicts) + 1 /\ new.version = Len(old) + 1 /\ new.name = n
    OBVIOUS
  <2>2. new.dict \in 0..Len(dicts') /\ new.version \in 0..Len(versions'[n]) /\ new.dict # 0 /\ new.version # 0
    BY <1>3, <1>6, <2>1
  <2> QED  BY <1>3, <1>6, <2>1, <2>2 DEF BoundRight
<1>11. \A b \in Bindings' : BoundRight(b)'
  BY <1>7, <1>9, <1>10
<1>12. \A b, c \in Bindings' : SharedRight(b, c)
  <2> SUFFICES ASSUME NEW b \in Bindings', NEW c \in Bindings'  PROVE SharedRight(b, c)
    OBVIOUS
  <2>1. CASE b \in Bindings /\ c \in Bindings
    BY <2>1 DEF RegistryInv
  <2>2. CASE b = new /\ c = new
    BY <2>2 DEF SharedRight
  <2>3. CASE b \in Bindings /\ c = new
    BY <1>9, <2>3 DEF SharedRight
  <2>4. CASE b = new /\ c \in Bindings
    BY <1>9, <2>4 DEF SharedRight
  <2> QED  BY <1>7, <2>1, <2>2, <2>3, <2>4
<1>13. registry' \in [Artifacts -> Nat]
  BY <1>1, <1>3 DEF RegistryInv
<1> QED  BY <1>2, <1>3, <1>5, <1>11, <1>12, <1>13 DEF RegistryInv, SharedRight

\* A copy binds what the registry binds.
LEMMA GetKeepsRegistryInv ==
  ASSUME RegistryInv, NEW r \in Readers, GetExperimentalArtifacts(r)
  PROVE  RegistryInv'
<1>1. /\ snapshot' = [snapshot EXCEPT ![r] = registry]
      /\ held' = [held EXCEPT ![r] = [n \in Artifacts |-> Len(versions[n])]]
      /\ registry' = registry /\ dicts' = dicts /\ versions' = versions
  BY DEF GetExperimentalArtifacts
<1>2. ASSUME NEW b \in Bindings'  PROVE b \in Bindings
  <2>1. CASE \E n \in Artifacts : b = [dict |-> registry[n], version |-> Len(versions[n]), name |-> n]
    BY <2>1 DEF Bindings
  <2>2. CASE \E s \in Readers, n \in Artifacts :
               b = [dict |-> snapshot'[s][n], version |-> held'[s][n], name |-> n]
    <3>1. PICK s \in Readers, n \in Artifacts :
            b = [dict |-> snapshot'[s][n], version |-> held'[s][n], name |-> n]
      BY <2>2
    <3>2. CASE s = r
      <4>1. snapshot'[s][n] = registry[n] /\ held'[s][n] = Len(versions[n])
        BY <1>1, <3>2 DEF RegistryInv
      <4> QED  BY <3>1, <4>1 DEF Bindings
    <3>3. CASE s # r
      <4>1. snapshot'[s][n] = snapshot[s][n] /\ held'[s][n] = held[s][n]
        BY <1>1, <3>3 DEF RegistryInv
      <4> QED  BY <3>1, <4>1 DEF Bindings
    <3> QED  BY <3>2, <3>3
  <2> QED  BY <1>1, <2>1, <2>2 DEF Bindings
<1>3. \A n \in Artifacts : Len(versions[n]) \in Nat
  BY DEF RegistryInv
<1>4. snapshot' \in [Readers -> [Artifacts -> Nat]] /\ held' \in [Readers -> [Artifacts -> Nat]]
  BY <1>1, <1>3 DEF RegistryInv
<1>5. \A b \in Bindings' : BoundRight(b)'
  BY <1>1, <1>2 DEF RegistryInv, BoundRight
<1> QED  BY <1>1, <1>2, <1>4, <1>5 DEF RegistryInv, SharedRight

\* An edit goes to one dictionary, and to the one registration that all who share it have.
LEMMA EditKeepsRegistryInv ==
  ASSUME RegistryInv, NEW r \in Readers, EditSnapshot(r)
  PROVE  RegistryInv'
<1>1. PICK n \in Artifacts, ticket \in Contents :
        /\ snapshot[r][n] # 0
        /\ dicts' = [dicts EXCEPT ![snapshot[r][n]] = ticket]
        /\ versions' = [versions EXCEPT ![n][held[r][n]] = ticket]
  BY DEF EditSnapshot, Contents
<1>2. registry' = registry /\ snapshot' = snapshot /\ held' = held
  BY DEF EditSnapshot
<1>3. PICK e \in Bindings : e = [dict |-> snapshot[r][n], version |-> held[r][n], name |-> n]
  BY CopiesBind
<1>4. /\ BoundRight(e) /\ e.dict = snapshot[r][n] /\ e.version = held[r][n] /\ e.name = n
  BY <1>3 DEF RegistryInv
<1>5. PICK old \in Seq(Contents) : old = versions[n]
  BY DEF RegistryInv
<1>6. /\ e.dict \in 1..Len(dicts) /\ e.version \in 1..Len(old)
  <2>1. e.dict \in 0..Len(dicts) /\ e.version \in 0..Len(old) /\ e.dict # 0 /\ e.version # 0
    BY <1>1, <1>4, <1>5 DEF BoundRight
  <2> QED  BY <2>1
<1>7. /\ dicts' \in Seq(Contents) /\ Len(dicts') = Len(dicts) /\ dicts'[e.dict] = ticket
      /\ \A k \in 1..Len(dicts) : k # e.dict => dicts'[k] = dicts[k]
  BY <1>1, <1>4, <1>6 DEF RegistryInv
<1>8. versions' = [versions EXCEPT ![n] = [old EXCEPT ![e.version] = ticket]]
  BY <1>1, <1>4, <1>5 DEF RegistryInv
<1>9. PICK now \in Seq(Contents) : now = [old EXCEPT ![e.version] = ticket]
  <2>1. [old EXCEPT ![e.version] = ticket] \in Seq(Contents)
    BY <1>6
  <2> QED  BY <2>1
<1>10. /\ versions' \in [Artifacts -> Seq(Contents)] /\ versions'[n] = now
       /\ \A m \in Artifacts : m # n => versions'[m] = versions[m]
  BY <1>8, <1>9 DEF RegistryInv
<1>11. /\ Len(now) = Len(old) /\ now[e.version] = ticket
       /\ \A k \in 1..Len(old) : k # e.version => now[k] = old[k]
  BY <1>6, <1>9
<1>12. \A m \in Artifacts : Len(versions'[m]) = Len(versions[m])
  BY <1>5, <1>10, <1>11
<1>13. Bindings' = Bindings
  BY <1>2, <1>12 DEF Bindings
<1>14. ASSUME NEW b \in Bindings  PROVE BoundRight(b)'
  <2>1. BoundRight(b) /\ SharedRight(b, e) /\ b.name \in Artifacts
    <3>1. BoundRight(b) /\ SharedRight(b, e)
      BY DEF RegistryInv
    <3>2. b.name \in Artifacts
      BY DEF Bindings
    <3> QED  BY <3>1, <3>2
  <2>2. b.dict \in 0..Len(dicts) /\ b.version \in 0..Len(versions[b.name]) /\ (b.dict = 0 <=> b.version = 0)
    BY <2>1 DEF BoundRight
  <2>3. b.dict \in 0..Len(dicts') /\ b.version \in 0..Len(versions'[b.name])
    BY <1>7, <1>12, <2>1, <2>2
  <2>4. b.dict # 0 => dicts'[b.dict] = versions'[b.name][b.version]
    <3> SUFFICES ASSUME b.dict # 0  PROVE dicts'[b.dict] = versions'[b.name][b.version]
      OBVIOUS
    <3>1. b.dict \in 1..Len(dicts) /\ dicts[b.dict] = versions[b.name][b.version]
      BY <2>1, <2>2 DEF BoundRight
    <3>2. b.dict = e.dict <=> (b.version = e.version /\ b.name = e.name)
      BY <2>1 DEF SharedRight
    <3>3. CASE b.dict = e.dict
      BY <1>4, <1>7, <1>10, <1>11, <3>2, <3>3
    <3>4. CASE b.dict # e.dict
      <4>1. dicts'[b.dict] = dicts[b.dict]
        BY <1>7, <3>1, <3>4
      <4>2. CASE b.name = n
        <5>1. b.version \in 1..Len(old) /\ b.version # e.version
          <6>1. b.version \in 0..Len(old) /\ b.version # 0 /\ b.version # e.version
            BY <1>4, <1>5, <2>2, <3>2, <3>4, <4>2
          <6> QED  BY <6>1
        <5> QED  BY <1>5, <1>10, <1>11, <3>1, <4>1, <4>2, <5>1
      <4>3. CASE b.name # n
        BY <1>10, <2>1, <3>1, <4>1, <4>3
      <4> QED  BY <4>2, <4>3
    <3> QED  BY <3>3, <3>4
  <2> QED  BY <2>2, <2>3, <2>4 DEF BoundRight
<1>15. \A b, c \in Bindings' : SharedRight(b, c)
  BY <1>13 DEF RegistryInv
<1> QED  BY <1>2, <1>7, <1>10, <1>13, <1>14, <1>15 DEF RegistryInv, SharedRight

LEMMA RestKeepsRegistryInv ==
  ASSUME RegistryInv, UNCHANGED registryVars
  PROVE  RegistryInv'
BY DEF RegistryInv, Bindings, BoundRight, SharedRight, registryVars

\* Behind EditsReachSharers: registry and copies share a dictionary exactly when they bind the
\* same registration of a name.
THEOREM Dictionaries == SharedSpec => []RegistryInv
<1>1. RegistryInv /\ [SharedNext]_<<classVars, registryVars>> => RegistryInv'
  <2> SUFFICES ASSUME RegistryInv, [SharedNext]_<<classVars, registryVars>>
               PROVE  RegistryInv'
    OBVIOUS
  <2>1. CASE DecorateClass
    BY <2>1, RestKeepsRegistryInv DEF DecorateClass
  <2>2. CASE RegisterExperimental
    BY <2>2, RegisterKeepsRegistryInv
  <2>3. CASE \E r \in Readers : GetExperimentalArtifacts(r)
    BY <2>3, GetKeepsRegistryInv
  <2>4. CASE \E r \in Readers : EditSnapshot(r)
    BY <2>4, EditKeepsRegistryInv
  <2>5. CASE UNCHANGED <<classVars, registryVars>>
    BY <2>5, RestKeepsRegistryInv
  <2> QED  BY <2>1, <2>2, <2>3, <2>4, <2>5 DEF SharedNext
<1> QED  BY <1>1, RegistryStarts, PTL DEF SharedSpec

\* For any number of readers, what each sees of a name is the registration its copy was made
\* with and the edits of all who share that: later registrations reach no copy.
THEOREM EditsReachSharers == SharedSpec => []EditsStayWithRegistration
<1>1. RegistryInv => EditsStayWithRegistration
  <2> SUFFICES ASSUME RegistryInv, NEW n \in Artifacts
               PROVE  /\ Shown(registry[n]) = Version(n, Len(versions[n]))
                      /\ \A r \in Readers : Shown(snapshot[r][n]) = Version(n, held[r][n])
    BY DEF EditsStayWithRegistration
  <2>1. ASSUME NEW b \in Bindings  PROVE Shown(b.dict) = Version(b.name, b.version)
    BY DEF RegistryInv, BoundRight, Shown, Version
  <2>2. \E b \in Bindings : b.dict = registry[n] /\ b.version = Len(versions[n]) /\ b.name = n
    BY RegistryBinds
  <2>3. ASSUME NEW r \in Readers
        PROVE  \E b \in Bindings : b.dict = snapshot[r][n] /\ b.version = held[r][n] /\ b.name = n
    BY CopiesBind
  <2> QED  BY <2>1, <2>2, <2>3
<1> QED  BY <1>1, Dictionaries, PTL
====================================================================================
