SPECIFICATION Spec
CONSTANTS
  None <- MCNone
  Texts <- MCTexts
  Lines <- MCLines
  Sources <- MCSources
  MaxLines = 3
INVARIANT
  RerenderKeepsProse
