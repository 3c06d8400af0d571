SPECIFICATION FairSpec
CONSTANTS
  CheapPrepend = 1
  InitialSize = 8
  ByteBase = 2
  ExtraBytes = 64
  Requests <- MCRequests
  Commands <- MCCommands
  Handlers = {"default", "inspector"}
  Pieces = {0, 1, 6}
  MaxRequests = 2
  MaxChanges = 2
INVARIANTS RequestsAsSent AnswersDelimited RemovedIsNotRunning
PROPERTIES WaitingClientIsAnswered
CHECK_DEADLOCK FALSE
