\* Three requests on one connection, two proxies besides DIRECT, replies of every framing.
SPECIFICATION FairSpec
CONSTANTS
    Proxies = {"p", "q"}
    PacAnswers <- MCPacAnswers
    Requests <- MCRequests
    Replies <- MCReplies
    SplitLimit = 2
    MaxRequests = 3
    Nil = Nil
INVARIANTS TypeOK CompleteMeansAll RoutedAsSaid NoLeak
PROPERTIES KeptAlive RequestsAnswered
CHECK_DEADLOCK FALSE
