\* One byte towards a peer that need not read it, behind a full buffer.
SPECIFICATION FairSpec
CONSTANTS
    MaxBytes = 2
    Room = 1
PROPERTY DrainIsBounded
