\* Two managers against each other, one finder, a script edited twice, whose
\* first edit breaks it.
SPECIFICATION FairSpec
CONSTANTS
    Managers = {m1, m2}
    Finders = {f1}
    MaxEdits = 2
    Broken = {1}
INVARIANTS TypeOK ReloadSeesEdit PublishesInOrder OneInside
PROPERTY CallsReturn
