SPECIFICATION FairSpec
CONSTANTS
  Tools <- AgentTools
  Polling = {"poll"}
  Navigating = {"navigate"}
  Delegating = {"delegate"}
  Comparing = {"navigate"}
  MaxToolRounds = 3
  MaxCalls = 2
  MaxRepeats = 2
  PollingMaxRepeats = 3
  PreserveRecent = 1
  Pressure = 9
  ResultTokens = 3
  PromptTokens = {1, 4, 9}
  MaxTurns = 1
  MaxChildren = 1
  Streaming = TRUE
CHECK_DEADLOCK FALSE
INVARIANTS
  CallsAreAnswered
  SeenBeforeCompacted
  RepeatsAreBounded
  DelegatedIsStarted
PROPERTY
  RunsEnd
