------------------------------- MODULE MCOccStamp -------------------------------
(* Every shape of line the regular expressions tell apart, two tickets, sources *)
(* and gates each.                                                              *)
EXTENDS OccStamp

MCNone == "none"

\* Lines that carry no evidence marker out of place.
PlainLines ==
  {Blank, [Blank EXCEPT !.prose = "p1"], [Blank EXCEPT !.prose = "p2"],
   [Blank EXCEPT !.title = TRUE],
   TicketLine("OMN-1"), TicketLine("OMN-2"),
   SourceLine("OCC#1"), SourceLine(Malformed), SourceLine(Refused),
   SkipLine("g1"), AllowLine("id1"),
   [SkipLine("g2") EXCEPT !.prose = "p3", !.skip = <<"g2", "g1">>],
   [SkipLine("g2") EXCEPT !.allow = "id2"]}

\* An indented source, as in a quoted log or a list item.
StrayLines ==
  {[TicketLine("OMN-2") EXCEPT !.indented = TRUE],
   [SourceLine("OCC#2") EXCEPT !.indented = TRUE]}

MCLines == PlainLines \cup StrayLines
MCSources == {"OCC#1", "OCC#2"}
MCTexts == {MCNone, "p1", "p2", "p3", "OMN-1", "OMN-2", "OCC#1", "OCC#2",
            Malformed, Refused, "g1", "g2", "id1", "id2"}
=============================================================================
