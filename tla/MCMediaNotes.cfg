SPECIFICATION Spec
CONSTANTS
  worker = worker
  gemini = gemini
  backup = backup
  off = off
  Role = {"dialogue", "media", "vs", "search"}
  Provider = {gemini, backup, off}
  Config <- MCConfig
  Unavailable = {off}
  MaxFaults = 1
  Batch <- MCBatch
  Call <- MCCall
  OtherCall = {worker}
  OtherRole = {"dialogue", "vs", "search"}
  MaxPerBatch = 2
  MaxConcurrency = 1
INVARIANTS FirstAnswerWins OnlyFramesFetched
PROPERTIES AllDescribed
CHECK_DEADLOCK FALSE
