SPECIFICATION Spec
CONSTANTS
    flaky = flaky
    crashing = crashing
    Parent = Parent
    Test = {flaky, crashing}
    Threads = 2
    Retry <- MCRetry
    PassOnCrash = {crashing}
    SpawnMayFail = TRUE
INVARIANT BlameIsDeserved
INVARIANT FailureKnownAtEnd
INVARIANT NoProcessLeft
INVARIANT KillsOwnProcess
PROPERTY LaunchesEnd
