\* Two years of month ends, the times around the bounds, every form of call.
SPECIFICATION Spec
CONSTANTS
    Clocks <- MCClocks
    Calls <- MCCalls
    Nil = Nil
INVARIANTS TypeOK WeekdayMeansBetween DateMeansBetween TimeMeansBetween
