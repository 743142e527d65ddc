SPECIFICATION ContractsSpec
CONSTANTS
  Instances <- MCInstances
  TicketIds = {"OMN-1", "OMN-2"}
  None = None
INVARIANTS
  DeclarationsStayValid
