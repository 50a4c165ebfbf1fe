SPECIFICATION Spec
CONSTANTS
    lib = lib
    app = app
    cfile = cfile
    Module <- PairModule
    Deps <- PairDeps
    Roots <- PairRoots
    Order <- PairOrder
    Kind <- PairKind
    Layouts = {"llvm"}
    OutModes = {"debug", "release"}
    CachingChoices = {TRUE, FALSE}
    MaxVersion = 2
    Aborts = TRUE
    EditsWhileBuilding = FALSE
PROPERTY ImplementsCleanBuild
