\* Two requests, one key, is there always a VM?
SPECIFICATION Spec
CONSTANTS
    Requests = {r1, r2}
    Main = main
    Sig = sig
    Keys = {k1}
    NoKey = NoKey
    Nil = Nil
    MaxSize = 1
    TTL = 1
    MaxNow = 1
    MaxEdits = 1
    Broken = {}
    SigCap = 1
INVARIANT VmIsSwapped
