SPECIFICATION Spec
CONSTANTS
  enums = enums
  contracts = contracts
  protocols = protocols
  adapters = adapters
  routing = routing
  registration = registration
  types = types
  config = config
  Top = Top
  Modules <- MCModules
  Adjacent <- MCAdjacent
  ReverseDeps <- MCReverseDeps
  Shared = {enums}
  Threshold = 3
  FullSplits = 2
  TestDirs <- MCTestDirs
  Files <- MCFiles
  MaxFiles = 4
INVARIANTS
  GreenCoversDeclared
  GreenEscalationRanAll
PROPERTIES
  GrowingDiffKeepsTests
