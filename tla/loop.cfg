SPECIFICATION LiveSpec
CONSTANTS
    a = a
    b = b
    c = c
    fa = fa
    Me = Me
    Beads = {a, b, c, fa}
    NoBead = NoBead
    NoAnswer = NoAnswer
    Workers = {Me}
    MaxStarts = 2
    Plans <- MCPlans
    Answers <- MCAnswers
    FixOf <- MCFixOf
    Options <- MCOptions
INVARIANTS
    TypeOK
    GatedIsOpen
    RetriesCapped
    NothingStranded
PROPERTIES
    DependenciesFirst
    LoopReturns
