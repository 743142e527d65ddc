SPECIFICATION MCProcessSpec
SYMMETRY MCSymmetry
CONSTANTS
  Threads = {t1, t2}
  Names = {"linear", "other"}
  Flag = "flag"
  Required = {"version"}
  Vars = {"$A"}
  Unset = Unset
  NoEntry = NoEntry
  Values <- MCValues
  Packaged <- MCPackaged
  Given <- MCGiven
  MaxCalls = 3
  MaxChanges = 1
  LinearKey = "linear"
  Bases = {"b"}
  Replies <- MCReplies
  Ids = {"t1", "t2"}
  Classes = {"base", "left", "right", "both"}
  Mro <- MCMro
  Nothing = Nothing
  Artifacts = {"a", "b"}
  Readers = {r1, r2}
  Tickets = {"OMN-1", "OMN-2"}
  MaxEntries = 4
  MaxDicts = 3
  None <- MCNone
  Texts <- MCTexts
  Lines <- MCLines
  Sources <- MCSources
  MaxLines = 4
INVARIANTS
  ResultWasDeclared
  FailureHasCause
  ClientFailsClosed
  ListingIsWhole
  DecorationsVisible
  EditsStayWithRegistration
  SectionsLossless
  PlainProseKept
  RenderIdempotent
  BoundStampReadsBack
  AllowlistBindsNearest
CHECK_DEADLOCK FALSE
