SPECIFICATION Spec
CONSTANTS
    outer = outer
    inner = inner
    plain = plain
    void = void
    Client = Client
    Worker = {w1, w2}
    Task <- MCTask
    Valued = {outer, inner, plain}
    Parent <- MCParent
INVARIANT NoUseAfterFree
INVARIANT PromiseFreed
INVARIANT DestructionWaits
PROPERTY GetReturns
PROPERTY DeleteReturns
PROPERTY ImplementsTaskPool
