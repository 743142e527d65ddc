SPECIFICATION Spec
SYMMETRY MCSymmetry
CONSTANTS
  pr1 = pr1
  pr2 = pr2
  PRs = {pr1, pr2}
  NoEdit = NoEdit
  NoLock = NoLock
  NoPin = NoPin
  NoStep = NoStep
  Dirs <- MCDirs
  NoDate = NoDate
  Dists <- MCDists
  Upstream = {"omnibase-infra", "omnibase-core"}
  FirstParty = {"omnibase-core", "omnibase-compat"}
  Requires <- MCRequires
  Window = 2
  Files = {"f1", "f2"}
  StaleDays = 1
  DefaultWindow = 1
  Proposals <- MCProposals
  InitialDev <- MCInitialDev
  InitialIndex <- MCInitialIndex
  RawWindows <- MCRawWindows
  MaxDay = 3
  MaxMerges = 2
INVARIANTS
  DevMissesOnlyExcluded
  DevClosureClean
  NoGitOverrideOnDev
  DevPinsAgree
  DevHooksFailLoud
  NoticeBeforeFailure
  
CHECK_DEADLOCK FALSE
