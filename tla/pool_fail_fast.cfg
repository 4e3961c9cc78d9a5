SPECIFICATION Spec
CONSTANTS
    a = a
    b = b
    fa = fa
    Beads = {a, b, fa}
    NoBead = NoBead
    NoAnswer = NoAnswer
    Workers <- MCWorkers
    Scope <- MCScope
    Answers <- MCAnswers
    FixOf <- MCFixOf
    Options <- LenientOptions
PROPERTIES
    CutStaysOpen
