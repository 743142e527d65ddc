SPECIFICATION FairSpec
CONSTANTS
  c0 = c0
  c1 = c1
  d1 = d1
  r2 = r2
  v1 = v1
  v2 = v2
  v3rc = v3rc
  whl = whl
  None = None
  Commits <- MCCommits
  Versions <- MCVersions
  Anc <- MCAnc
  Version <- MCVersion
  Rc <- MCRc
  Files <- MCFiles
  Root = c0
  MaxRuns = 3
INVARIANTS
  OneSource
  MainIsReleased
  ReleaseReachesMain
PROPERTIES
  PushConcludes
CHECK_DEADLOCK FALSE
