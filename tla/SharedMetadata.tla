--------------------------------- MODULE SharedMetadata ---------------------------------
(***************************************************************************)
(* What decorators and calls write for the whole process to read:          *)
(* registration/decorator_injectable_optional.py on classes, and           *)
(* experimental/_registry.py with the shallow copies it hands out.         *)
(***************************************************************************)
EXTENDS Naturals, Sequences, SequencesExt

CONSTANTS
  Classes,
  Mro,        \* Mro[c]: the method resolution order of c, c first
  Nothing,
  Artifacts,  \* the names of experimental artifacts
  Readers,    \* whoever keeps what get_experimental_artifacts returned
  Tickets,    \* of their registrations
  MaxEntries, \* bounds the decorations
  MaxDicts    \* bounds the registrations and edits

ASSUME MroAssumption ==
  /\ Mro \in [Classes -> Seq(Classes)]
  /\ \A c \in Classes : Mro[c] # <<>> /\ Mro[c][1] = c
  /\ Nothing \notin [list : Nat, entry : Nat \cup {Nothing}]

VARIABLES
  own,          \* own[c]: c's own __injectable_optional__: Nothing, an entry or a list
  lists,        \* the lists, by identity: lists[i] is a sequence of entries
  applied,      \* the decorations so far, in order: [class, entry]
  registry,     \* _registry: name to the identity of its inner dictionary
  dicts,        \* the inner dictionaries, by identity
  snapshot,     \* snapshot[r]: the copy of it that reader r holds
  versions,     \* history: versions[n][i] is what the i-th registration of n has come to
  held,         \* history: held[r][n] is which of them r's copy was made with
  writes

classVars == <<own, lists, applied>>
registryVars == <<registry, dicts, snapshot, versions, held, writes>>

SharedInit ==
  /\ own = [c \in Classes |-> Nothing] /\ lists = <<>> /\ applied = <<>>
  /\ registry = [n \in Artifacts |-> 0] /\ dicts = <<>>
  /\ snapshot = [r \in Readers |-> registry]
  /\ versions = [n \in Artifacts |-> <<>>] /\ held = snapshot /\ writes = 0

\* getattr(cls, "__injectable_optional__", None): none, or that of the first class which has it.
Existing(c) ==
  {own[Mro[c][i]] : i \in {k \in DOMAIN Mro[c] :
     own[Mro[c][k]] # Nothing /\ \A j \in 1..(k - 1) : own[Mro[c][j]] = Nothing}}

Entries(e) == IF e.list = 0 THEN {e.entry} ELSE ToSet(lists[e.list])

Visible(c) == UNION {Entries(e) : e \in Existing(c)}

DecorateReplacing(c, entry) ==   \* mutant: the last decoration wins
  own' = [own EXCEPT ![c] = [list |-> 0, entry |-> entry]] /\ UNCHANGED lists

\* An inherited list is extended in place, for every class that sees it.
Decorate(c, entry) ==
  \/ /\ Existing(c) = {}
     /\ own' = [own EXCEPT ![c] = [list |-> 0, entry |-> entry]]
     /\ UNCHANGED lists
  \/ \E e \in Existing(c) :
       /\ e.list # 0
       /\ lists' = [lists EXCEPT ![e.list] = Append(@, entry)]
       /\ UNCHANGED own
  \/ \E e \in Existing(c) :
       /\ e.list = 0
       /\ lists' = Append(lists, <<e.entry, entry>>)
       /\ own' = [own EXCEPT ![c] = [list |-> Len(lists) + 1, entry |-> Nothing]]

\* A class statement decorates its class before any subclass of it exists.
DecorateClass ==
  /\ Len(applied) < MaxEntries
  /\ LET entry == Len(applied) + 1 IN
     \E c \in Classes :
       /\ \A i \in DOMAIN applied : applied[i].class = c \/ c \notin ToSet(Mro[applied[i].class])
       /\ Decorate(c, entry)
       /\ applied' = Append(applied, [class |-> c, entry |-> entry])
  /\ UNCHANGED registryVars

RegisterInPlace(n, ticket) ==   \* mutant: the dictionary of an earlier registration is updated
  /\ dicts' = IF registry[n] = 0 THEN Append(dicts, ticket)
              ELSE [dicts EXCEPT ![registry[n]] = ticket]
  /\ registry' = [registry EXCEPT ![n] = IF @ = 0 THEN Len(dicts) + 1 ELSE @]

\* A second registration of a name replaces the dictionary of the first.
Register(n, ticket) ==
  /\ dicts' = Append(dicts, ticket)
  /\ registry' = [registry EXCEPT ![n] = Len(dicts) + 1]

\* An empty ticket or milestone raises and changes nothing.
RegisterExperimental ==
  /\ writes < MaxDicts /\ writes' = writes + 1
  /\ \E n \in Artifacts, ticket \in Tickets :
       Register(n, ticket) /\ versions' = [versions EXCEPT ![n] = Append(@, ticket)]
  /\ UNCHANGED <<snapshot, held, classVars>>

\* dict(_registry): the inner dictionaries are shared with the registry, and so with every
\* other copy made of it.
GetExperimentalArtifacts(r) ==
  /\ snapshot' = [snapshot EXCEPT ![r] = registry]
  /\ held' = [held EXCEPT ![r] = [n \in Artifacts |-> Len(versions[n])]]
  /\ UNCHANGED <<registry, dicts, versions, writes, classVars>>

\* A reader changes an entry of the copy it was given, in place.
EditSnapshot(r) ==
  /\ writes < MaxDicts /\ writes' = writes + 1
  /\ \E n \in Artifacts, ticket \in Tickets \cup {Nothing} :
       /\ snapshot[r][n] # 0
       /\ dicts' = [dicts EXCEPT ![snapshot[r][n]] = ticket]
       /\ versions' = [versions EXCEPT ![n][held[r][n]] = ticket]
  /\ UNCHANGED <<registry, snapshot, held, classVars>>

SharedNext ==
  \/ DecorateClass \/ RegisterExperimental
  \/ \E r \in Readers : GetExperimentalArtifacts(r) \/ EditSnapshot(r)

SharedSpec == SharedInit /\ [][SharedNext]_<<classVars, registryVars>>

-----------------------------------------------------------------------------
\* Every decoration of a class stays visible on it, although the list it is on may be an
\* inherited one that siblings and subclasses extend (decorator_injectable_optional.py: "all
\* annotated parameters are visible").
DecorationsVisible ==
  \A i \in DOMAIN applied : applied[i].entry \in Visible(applied[i].class)

Shown(entry) == IF entry = 0 THEN Nothing ELSE dicts[entry]

Version(n, i) == IF i = 0 THEN Nothing ELSE versions[n][i]

\* The registry shows the last registration of each name, and a copy of it the one that was
\* the last when the copy was made, both with whatever anybody did to that registration's
\* entry: an edit is seen by the registry and by every reader whose copy is from between the
\* same two registrations, and a registration changes nothing that was handed out
\* (experimental/_registry.py: the copy is shallow, and a registration binds a new dictionary).
EditsStayWithRegistration ==
  \A n \in Artifacts :
    /\ Shown(registry[n]) = Version(n, Len(versions[n]))
    /\ \A r \in Readers : Shown(snapshot[r][n]) = Version(n, held[r][n])
====================================================================================
