\* Two callers, three keys, a cache of two elements: can a fresh decision be
\* pushed out of a cache that is not full?
SPECIFICATION Spec
CONSTANTS
    Callers = {r1, r2}
    k1 = k1
    k2 = k2
    k3 = k3
    a1 = a1
    a2 = a2
    b1 = b1
    c1 = c1
    NoKey = NoKey
    Nil = Nil
    Keys <- ThreeKeys
    Answers <- OneAnswerEach
    Decide <- OneDecisionEach
    MaxSize = 2
    TTL = 1
    MaxNow = 0
PROPERTY EvictsOnlyWhenFull
