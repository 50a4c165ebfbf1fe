SPECIFICATION FairSpec
CONSTANTS
  Launch = {m}
  Platforms = {"posix", "windows"}
CHECK_DEADLOCK FALSE
PROPERTY AnswerHeard
