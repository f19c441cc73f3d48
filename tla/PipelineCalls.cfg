SPECIFICATION FairSpec
CONSTANTS
  r1 = r1
  Runs = {r1}
  NumPages = 3
  PageConcurrency = 2
  WorkerThreads = 2
  ScrapeAttempts = 2
  LLMAttempts = 2
  PageReplies = {"ok", "empty", "transient", "bug", "malformed"}
  LLMReplies = {"ok", "empty", "transient", "permanent", "bug"}
CHECK_DEADLOCK FALSE
INVARIANTS
  TypeOK
  NoAnswerLost
  LLMGrounded
  RetriesJustified
  ResultExplained
  ThreadsAccounted
  ScrapesBounded
  QuietAfterEnd
PROPERTIES
  EveryPipelineEnds
