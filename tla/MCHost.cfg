CONSTANTS
  Thread = {"file_io", "conditioning", "executive"}
  Released = 3
  HostSlot = {0}
SPECIFICATION FairSpec
INVARIANTS NothingDangles NoSleepWithMail AnswerIsOnItsWay SuccessMeansSaved
PROPERTY EngineAndShutdownEnd
