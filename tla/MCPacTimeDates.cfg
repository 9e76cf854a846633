\* The same clocks and calls: one date is not that date.
SPECIFICATION Spec
CONSTANTS
    Clocks <- MCClocks
    Calls <- MCCalls
    Nil = Nil
INVARIANT OneDateMeansThatDate
