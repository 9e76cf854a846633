\* One request, two keys, two edits of which the second breaks the script.
SPECIFICATION FairSpec
CONSTANTS
    Requests = {r1}
    Main = main
    Sig = sig
    Keys = {k1, k2}
    NoKey = NoKey
    Nil = Nil
    MaxSize = 1
    TTL = 1
    MaxNow = 1
    MaxEdits = 2
    Broken = {2}
    SigCap = 1
INVARIANTS TypeOK StaleOnlyIfLate QuietMeansCurrent SignalIsKept
PROPERTIES AnswersAreCurrent HupTakesEffect LookupsReturn
