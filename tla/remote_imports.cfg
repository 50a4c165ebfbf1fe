SPECIFICATION Spec
CONSTANTS
    library = library
    tool = tool
    part = part
    late = late
    repoL = repoL
    repoT = repoT
    repoX = repoX
    std = std
    Job = Job
    Import <- MCImport
    Repo <- MCRepo
    Local = {std}
    Roots <- MCRoots
    Wants <- MCWants
    Uses <- MCUses
    MaxVersion = 2
    Threads = 3
    MayFail = TRUE
INVARIANT RequestsServed
INVARIANT WholeClones
INVARIANT NewestInTime
INVARIANT DoubledOnlyByRace
PROPERTY ImportsEnd
\* the imports have succeeded or failed
CHECK_DEADLOCK FALSE
