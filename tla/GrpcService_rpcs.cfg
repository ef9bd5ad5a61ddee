CONSTANTS
    Lives = {l1}
    Readies = {h1, h2}
    Predicts = {p1, p2}
    MaxRpcs = 2
    Threads = 1
SPECIFICATION FairSpec
INVARIANTS TypeOK AwaitedJobsBounded
PROPERTIES LiveAnswered EveryRpcAnswered
