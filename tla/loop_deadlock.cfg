SPECIFICATION Spec
CONSTANTS
    a = a
    b = b
    c = c
    fa = fa
    Me = Me
    Beads = {a, b, c, fa}
    NoBead = NoBead
    NoAnswer = NoAnswer
    Workers = {Me}
    MaxStarts = 1
    Plans <- OnePlan
    Answers <- MCAnswers
    FixOf <- MCFixOf
    Options <- DefaultOptions
INVARIANTS
    CompleteLeavesNoneOpen
