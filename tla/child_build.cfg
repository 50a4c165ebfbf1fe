SPECIFICATION FairSpec
CONSTANTS
  Launch = {m, l}
  Platforms = {"posix", "windows"}
CHECK_DEADLOCK FALSE
INVARIANT HeardMeansWhole
INVARIANT NothingLeft
INVARIANT NoChildLeft
INVARIANT ContextOfOneBuild
PROPERTY LaunchEnds
