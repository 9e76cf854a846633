\* Two goroutines, one more host and pattern than fit, addresses that live two
\* ticks and failures that live one.
SPECIFICATION Spec
CONSTANTS
    Callers = {c1, c2}
    Hosts = {h1, h2, h3}
    Patterns = {p1, p2, bad}
    BadPatterns = {bad}
    DnsSize = 2
    ShExpSize = 1
    PositiveTTL = 2
    NegativeTTL = 1
    MaxNow = 3
    Nil = Nil
SYMMETRY Symm
INVARIANTS TypeOK MemosSound RepliesAreFresh
