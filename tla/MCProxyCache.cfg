\* Two callers, two keys, a cache of two elements that live one tick, on its own
\* and against DecisionCache.
SPECIFICATION Spec
CONSTANTS
    Callers = {r1, r2}
    k1 = k1
    k2 = k2
    k3 = k3
    a1 = a1
    a2 = a2
    b1 = b1
    c1 = c1
    NoKey = NoKey
    Nil = Nil
    Keys <- TwoKeys
    Answers <- MCAnswers
    Decide <- MCDecide
    MaxSize = 2
    TTL = 1
    MaxNow = 2
INVARIANTS TypeOK IndexSound Bounded NewestWins AnswerFitsKey
PROPERTY KeepsPromise
