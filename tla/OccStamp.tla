-------------------------------- MODULE OccStamp --------------------------------
(***************************************************************************)
(* The PR metadata stamp (contracts/pr_occ_stamp): parse a PR body into    *)
(* tickets, evidence source, skip tokens and body sections, and render     *)
(* such a stamp back to a body.                                            *)
(*                                                                         *)
(* A body is a sequence of lines and a line is what the regular expressions*)
(* see in it: the human prose it carries, a ticket or source it names, the *)
(* gates of its skip tokens, an allowlist id, whether it is a heading with *)
(* a stamp title and whether an evidence marker is indented (or lacks the  *)
(* blank after its colon), which the line classifier refuses and the field *)
(* parsers accept.                                                         *)
(***************************************************************************)
EXTENDS Naturals, Sequences, FiniteSets, FiniteSetsExt, SequencesExt

CONSTANTS
  Texts,     \* what a pattern can capture: prose, ticket ids, sources, gates, ids
  Lines,     \* the lines an author writes
  Sources,   \* well-formed evidence sources: OCC#<n> and commit SHAs
  MaxLines,  \* bound on the length of a body an author still adds to
  None

\* Source texts the patterns do not accept, and those they accept and the model
\* refuses: OCC#0 and a SHA with upper-case digits.
Malformed == "malformed"
Refused == "refused"

Line == [prose : Texts, ticket : Texts, source : Texts, skip : Seq(Texts), allow : Texts,
         title : BOOLEAN, indented : BOOLEAN]

ASSUME MaxLinesAssumption == MaxLines \in Nat
ASSUME LinesAssumption == None \in Texts /\ Lines \subseteq Line
ASSUME SourcesAssumption == Sources \subseteq Texts \ {None, Malformed, Refused}

Blank == [prose |-> None, ticket |-> None, source |-> None, skip |-> <<>>,
          allow |-> None, title |-> FALSE, indented |-> FALSE]
TicketLine(t) == [Blank EXCEPT !.ticket = t]
SourceLine(s) == [Blank EXCEPT !.source = s]
SkipLine(g) == [Blank EXCEPT !.skip = <<g>>]
AllowLine(id) == [Blank EXCEPT !.allow = id]

VARIABLE body

NamesEvidence(l) == l.ticket # None \/ l.source # None

IsStampLine(l) ==
  \/ NamesEvidence(l) /\ ~l.indented
  \/ l.skip # <<>>
  \/ l.allow # None
  \/ l.title

-----------------------------------------------------------------------------
(* Parsing *)

\* Mutant: the line that starts a run is dropped.
AddToSectionsLoses(acc, l) ==
  LET stamp == IF l = Blank /\ acc.open # <<>> THEN acc.stamp ELSE IsStampLine(l)
  IN  IF acc.open = <<>> \/ stamp = acc.stamp
      THEN [acc EXCEPT !.open = Append(@, l), !.stamp = stamp]
      ELSE [done |-> Append(acc.done, [stamp |-> acc.stamp, lines |-> acc.open]),
            open |-> <<>>, stamp |-> stamp]

\* Lines are grouped into runs of stamp and human lines; a blank line belongs
\* to the run it follows.
AddToSections(acc, l) ==
  LET stamp == IF l = Blank /\ acc.open # <<>> THEN acc.stamp ELSE IsStampLine(l)
  IN  IF acc.open = <<>> \/ stamp = acc.stamp
      THEN [acc EXCEPT !.open = Append(@, l), !.stamp = stamp]
      ELSE [done |-> Append(acc.done, [stamp |-> acc.stamp, lines |-> acc.open]),
            open |-> <<l>>, stamp |-> stamp]

NoSections == [done |-> <<>>, open |-> <<>>, stamp |-> FALSE]
Sections(b) == FoldLeft(AddToSections, NoSections, b)
ParseSections(b) ==
  Append(Sections(b).done, [stamp |-> Sections(b).stamp, lines |-> Sections(b).open])

\* First-seen order, without repetitions.
AddTicket(ts, l) ==
  IF l.ticket = None \/ Contains(ts, l.ticket) THEN ts ELSE Append(ts, l.ticket)

ParseTickets(b) == FoldLeft(AddTicket, <<>>, b)

\* The first source line decides, even when it is malformed.
NameSource(src, l) == IF src = None THEN l.source ELSE src

FirstSource(b) == FoldLeft(NameSource, None, b)

ParseSource(b) == IF FirstSource(b) = Malformed THEN None ELSE FirstSource(b)

Unbound(l) == [k \in DOMAIN l.skip |-> [gate |-> l.skip[k], allow |-> None]]

\* Mutant: the id goes to the first token.
BindSkipFirst(skips, l) ==
  CASE l.allow = None -> skips \o Unbound(l)
    [] l.allow # None /\ skips # <<>> -> [skips EXCEPT ![1].allow = l.allow]
    [] OTHER -> skips

\* An allowlist line binds its id to the latest token and is not searched for
\* tokens of its own.
BindSkip(skips, l) ==
  CASE l.allow = None -> skips \o Unbound(l)
    [] l.allow # None /\ skips # <<>> -> [skips EXCEPT ![Len(skips)].allow = l.allow]
    [] OTHER -> skips

ParseSkips(b) == FoldLeft(BindSkip, <<>>, b)

\* The model's validators reject what FirstSource let through: parse raises.
ParseRaises(b) == FirstSource(b) = Refused

Parse(b) ==
  [source   |-> ParseSource(b),
   tickets  |-> ParseTickets(b),
   skips    |-> ParseSkips(b),
   sections |-> ParseSections(b)]

-----------------------------------------------------------------------------
(* Rendering *)

\* Mutant: only the prose before the first stamp section.
HumanLinesFirst(stamp) ==
  IF stamp.sections[1].stamp THEN <<>> ELSE stamp.sections[1].lines

AddHuman(ls, sec) == IF sec.stamp THEN ls ELSE ls \o sec.lines
HumanLines(stamp) == FoldLeft(AddHuman, <<>>, stamp.sections)

RStripNothing(ls) == ls   \* mutant: trailing blank lines stay

\* str.rstrip: the trailing blank lines go.
RStrip(ls) == SubSeq(ls, 1, Max({0} \cup {i \in DOMAIN ls : ls[i] # Blank}))

\* Mutant: the ids come after all the tokens.
StampBlockIdsLast(stamp) ==
  LET tickets == [i \in DOMAIN stamp.tickets |-> TicketLine(stamp.tickets[i])]
      source  == IF stamp.source = None THEN <<>> ELSE <<SourceLine(stamp.source)>>
      listed  == SelectSeq(stamp.skips, LAMBDA s : s.allow # None)
  IN  tickets \o source
        \o [i \in DOMAIN stamp.skips |-> SkipLine(stamp.skips[i].gate)]
        \o [i \in DOMAIN listed |-> AllowLine(listed[i].allow)]

TicketLines(tickets) == [i \in DOMAIN tickets |-> TicketLine(tickets[i])]
SourceLines(src) == IF src = None THEN <<>> ELSE <<SourceLine(src)>>

\* The id of a token follows the token.
AddSkipLines(ls, s) ==
  LET token == Append(ls, SkipLine(s.gate))
  IN  IF s.allow = None THEN token ELSE Append(token, AllowLine(s.allow))
SkipLines(skips) == FoldLeft(AddSkipLines, <<>>, skips)

StampBlock(stamp) ==
  TicketLines(stamp.tickets) \o SourceLines(stamp.source) \o SkipLines(stamp.skips)

Render(stamp) ==
  LET human == HumanLines(stamp)
      block == StampBlock(stamp)
  IN  CASE block = <<>> -> human
        [] block # <<>> /\ RStrip(human) = <<>> -> block
        [] OTHER -> RStrip(human) \o <<Blank>> \o block

-----------------------------------------------------------------------------
(* A PR body over its life: the author adds lines, and automation binds the *)
(* evidence source by parsing, updating and rendering the body.             *)

Init == body = <<>>

AuthorAdds(l) ==
  /\ Len(body) < MaxLines
  /\ body' = Append(body, l)

Rebind(s) ==
  /\ ~ParseRaises(body)
  /\ body' = Render([Parse(body) EXCEPT !.source = s])

Next ==
  \/ \E l \in Lines : AuthorAdds(l)
  \/ \E s \in Sources : Rebind(s)

Spec == Init /\ [][Next]_body

-----------------------------------------------------------------------------
(* Properties of every body an author and the automation can produce *)

Rerender(b) == Render(Parse(b))

\* No evidence marker hides in a line the classifier takes for prose.
NoStrayEvidence(b) == \A i \in DOMAIN b : NamesEvidence(b[i]) => ~b[i].indented

IsPlainProse(l) == l.prose # None /\ ~IsStampLine(l)
AddPlainProse(ls, l) == IF IsPlainProse(l) THEN Append(ls, l) ELSE ls
PlainProse(b) == FoldLeft(AddPlainProse, <<>>, b)

AddLines(ls, sec) == ls \o sec.lines
SectionLines(secs) == FoldLeft(AddLines, <<>>, secs)

\* Parsing loses no line and misfiles none: the sections spell the body, no two
\* neighbours are of one class, and every line that is not blank is in a section
\* of its own class.
SectionsLossless ==
  LET secs == Parse(body).sections
  IN  /\ SectionLines(secs) = body
      /\ \A i \in DOMAIN secs :
           /\ i > 1 => secs[i].stamp # secs[i - 1].stamp
           /\ \A j \in DOMAIN secs[i].lines :
                secs[i].lines[j] # Blank => IsStampLine(secs[i].lines[j]) = secs[i].stamp

\* Prose that shares its line with no stamp metadata survives a re-render, in
\* its order and its number.
PlainProseKept ==
  ~ParseRaises(body) => PlainProse(Rerender(body)) = PlainProse(body)

\* Re-rendering what was rendered changes nothing.
RenderIdempotent ==
  NoStrayEvidence(body) /\ ~ParseRaises(body) => Rerender(Rerender(body)) = Rerender(body)

\* Whatever source the automation binds, the body it writes reads back as that
\* source, with the tickets, the tokens and their allowlist ids of before.
BoundStampReadsBack ==
  \A s \in Sources :
    NoStrayEvidence(body) /\ ~ParseRaises(body) =>
      LET bound == [Parse(body) EXCEPT !.source = s]
          back  == Parse(Render(bound))
      IN  /\ back.source = s
          /\ back.tickets = bound.tickets
          /\ back.skips = bound.skips

\* Where tokens are read from: line and place in the line; allowlist lines yield none.
TokenAt(b) ==
  UNION {{<<i, k>> : k \in DOMAIN b[i].skip} : i \in {j \in DOMAIN b : b[j].allow = None}}
NotAfter(q, p) == q[1] < p[1] \/ (q[1] = p[1] /\ q[2] <= p[2])

\* The allowlist lines with token p as the latest before them.
AllowsOf(b, p) ==
  {j \in DOMAIN b : /\ j > p[1] /\ b[j].allow # None
                    /\ \A q \in TokenAt(b) : q[1] < j => NotAfter(q, p)}

\* Every token is found, in its order, and is allowlisted by the last id that follows
\* it before another token, and by no other: an id never reaches over a token to an
\* earlier one, on an earlier line or on the same.
AllowlistBindsNearest ==
  LET skips == ParseSkips(body)
  IN  /\ Len(skips) = Cardinality(TokenAt(body))
      /\ \A p \in TokenAt(body) :
           LET n == Cardinality({q \in TokenAt(body) : NotAfter(q, p)})
               a == AllowsOf(body, p)
           IN  skips[n] = [gate |-> body[p[1]].skip[p[2]],
                           allow |-> IF a = {} THEN None ELSE body[Max(a)].allow]

\* What model_pr_body_section.py (lines 10-12) says of every body, with no condition on it:
\* "an idempotent re-render preserves human-authored prose verbatim".
RerenderKeepsProse ==
  ~ParseRaises(body) =>
    /\ Rerender(Rerender(body)) = Rerender(body)
    /\ \A i \in DOMAIN body : body[i].prose # None =>
         \E j \in DOMAIN Rerender(body) : Rerender(body)[j].prose = body[i].prose
=============================================================================
