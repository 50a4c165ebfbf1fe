SPECIFICATION Spec
CONSTANTS
    lib = lib
    app = app
    cfile = cfile
    Module <- MixModule
    Deps <- MixDeps
    Roots <- MixRoots
    Order <- MixOrder
    Kind <- MixKind
    Layouts = {"single", "multi"}
    OutModes = {"debug"}
    CachingChoices = {TRUE}
    MaxVersion = 2
    Aborts = TRUE
    EditsWhileBuilding = TRUE
INVARIANT SoundUnlessDisturbed
INVARIANT CacheSound
INVARIANT NothingChangedAfterSuccess
INVARIANT IInv
CONSTRAINT Trusted
