SPECIFICATION LiveSpec
CONSTANTS
    a = a
    b = b
    fa = fa
    Beads = {a, b, fa}
    NoBead = NoBead
    NoAnswer = NoAnswer
    Workers <- MCWorkers
    Scope <- MCScope
    Answers <- MCAnswers
    FixOf <- MCFixOf
    Options <- MCOptions
INVARIANTS
    TypeOK
    GatedIsOpen
    OkMeansDecided
PROPERTIES
    BatchKept
    PoolReturns
